------------------------------ MODULE XsQueue -------------------------------
(***************************************************************************)
(* The ring of xs_queue.h: xs_queue_push and xs_queue_pop, one action per  *)
(* access to shared memory (an atomic operation, a volatile load, a memcpy *)
(* of one element), for any number of threads that push and pop.           *)
(*                                                                         *)
(* The worker pool that launchthreads attaches to a queue is XsWorkers;    *)
(* here qMaxActive = 0, as for xs_pollfd's acceptqueue and the logger's    *)
(* qdel, so push ends after it has counted its element (242-254 skipped).  *)
(* qReadLock is decremented by every push and read only by xs_queue_grow,  *)
(* which the program never calls: it is left out.                          *)
(***************************************************************************)
EXTENDS Integers, Sequences

CONSTANTS
  Producers,   \* the threads that call xs_queue_push
  Consumers,   \* the threads that call xs_queue_pop; a thread may do both
  PushModes,   \* the "blocking" arguments push is called with
  PopModes,    \* the "blocking" arguments pop is called with
  QSpace,      \* qSpace, the number of slots
  MaxCalls     \* bound: how many times push is called

ASSUME QSpaceAssumption == QSpace \in Nat \ {0}
ASSUME ModesAssumption == PushModes \subseteq BOOLEAN /\ PopModes \subseteq BOOLEAN
ASSUME MaxCallsAssumption == MaxCalls \in Nat

Threads == Producers \union Consumers
Ring == 0 .. QSpace - 1

VARIABLES
  qData,       \* the slots
  qWriteInd,   \* next slot to claim for writing
  qAvailInd,   \* first slot not yet readable
  qReadInd,    \* next slot to read
  qDepth,      \* the element counter the callers look at
  pc,          \* where each thread is inside push or pop
  blocking,    \* the argument of the thread's current call
  wi, ri,      \* locals of push and pop
  item,        \* the element a push carries: the number of the call
  dd,          \* the element a pop has copied out of the ring
  calls,       \* number of push calls so far
  published,   \* history: elements in the order they were made available
  delivered,   \* history: elements in the order successful pops took them
  claims,      \* history: number of slots claimed
  seen         \* history: the progress of the ring when wi or ri was loaded

shared == <<qData, qWriteInd, qAvailInd, qReadInd, qDepth>>
locals == <<blocking, wi, ri, item, dd>>
history == <<calls, published, delivered, claims, seen>>
vars == <<qData, qWriteInd, qAvailInd, qReadInd, qDepth, pc, blocking, wi, ri,
          item, dd, calls, published, delivered, claims, seen>>

PushPC == {"spin", "loadWrite", "loadRead", "claim", "copyIn", "publish", "count"}
PopPC == {"popLoadRead", "popLoadAvail", "copyOut", "release", "uncount"}

-----------------------------------------------------------------------------
(***************************************************************************)
(* Ring geometry.                                                          *)
(***************************************************************************)
NextInd(i) == IF i + 1 = QSpace THEN 0 ELSE i + 1

\* How many steps of NextInd lead from a to b, and where k of them lead from a.
Dist(a, b) == IF a <= b THEN b - a ELSE b - a + QSpace
Slot(a, k) == IF a + k < QSpace THEN a + k ELSE a + k - QSpace

-----------------------------------------------------------------------------
(***************************************************************************)
(* xs_queue_create.                                                        *)
(***************************************************************************)
Init ==
  /\ qData = [s \in Ring |-> 0]
  /\ qWriteInd = 0 /\ qAvailInd = 0 /\ qReadInd = 0 /\ qDepth = 0
  /\ pc = [t \in Threads |-> "idle"]
  /\ blocking = [t \in Threads |-> FALSE]
  /\ wi = [t \in Threads |-> 0]
  /\ ri = [t \in Threads |-> 0]
  /\ item = [t \in Threads |-> 0]
  /\ dd = [t \in Threads |-> 0]
  /\ calls = 0 /\ claims = 0
  /\ published = <<>> /\ delivered = <<>>
  /\ seen = [t \in Threads |-> 0]

Goto(t, from, to) == pc[t] = from /\ pc' = [pc EXCEPT ![t] = to]

-----------------------------------------------------------------------------
(***************************************************************************)
(* xs_queue_push.                                                          *)
(***************************************************************************)

\* The early test of push: also what xs_queue_full answers.
DepthIgnored == FALSE
DepthFull == qDepth + 1 >= QSpace

\* Entry: a full queue is refused at once, or waited for when blocking.
PushCall(t, b) ==
  /\ calls < MaxCalls
  /\ Goto(t, "idle", IF ~DepthFull THEN "loadWrite" ELSE IF b THEN "spin" ELSE "idle")
  /\ calls' = calls + 1
  /\ item' = [item EXCEPT ![t] = calls + 1]
  /\ blocking' = [blocking EXCEPT ![t] = b]
  /\ UNCHANGED <<shared, wi, ri, dd, published, delivered, claims, seen>>

PushSpin(t) ==
  /\ ~DepthFull
  /\ Goto(t, "spin", "loadWrite")
  /\ UNCHANGED <<shared, locals, history>>

PushLoadWrite(t) ==
  /\ Goto(t, "loadWrite", "loadRead")
  /\ wi' = [wi EXCEPT ![t] = qWriteInd]
  /\ seen' = [seen EXCEPT ![t] = claims]
  /\ UNCHANGED <<shared, blocking, ri, item, dd, calls, published, delivered, claims>>

\* "No room" sends a non-blocking push back.  For a blocking one the code
\* yields and says continue, which in a do-while goes on to the condition:
\* the claim is attempted all the same.
NoRoom(w, r) == NextInd(w) = r

PushLoadRead(t) ==
  /\ Goto(t, "loadRead", IF NoRoom(wi[t], qReadInd) /\ ~blocking[t] THEN "idle" ELSE "claim")
  /\ ri' = [ri EXCEPT ![t] = qReadInd]
  /\ UNCHANGED <<shared, blocking, wi, item, dd, history>>

\* The compare-and-swap on qWriteInd, and the same claim made without it.
ClaimUnchecked(t) ==
  /\ Goto(t, "claim", "copyIn")
  /\ qWriteInd' = NextInd(wi[t])
  /\ claims' = claims + 1
  /\ UNCHANGED <<qData, qAvailInd, qReadInd, qDepth, locals, calls, published, delivered, seen>>

PushClaim(t) ==
  IF qWriteInd = wi[t]
    THEN ClaimUnchecked(t)
    ELSE Goto(t, "claim", "loadWrite") /\ UNCHANGED <<shared, locals, history>>

PushCopyIn(t) ==
  /\ Goto(t, "copyIn", "publish")
  /\ qData' = [qData EXCEPT ![wi[t]] = item[t]]
  /\ UNCHANGED <<qWriteInd, qAvailInd, qReadInd, qDepth, locals, history>>

\* Spin until every earlier claim is published, then publish this one.
PublishNow(t) ==
  /\ Goto(t, "publish", "count")
  /\ qAvailInd' = NextInd(wi[t])
  /\ published' = Append(published, item[t])
  /\ UNCHANGED <<qData, qWriteInd, qReadInd, qDepth, locals, calls, delivered, claims, seen>>

PushPublish(t) == qAvailInd = wi[t] /\ PublishNow(t)

\* As if the counter had not been touched when the element was published.
CountForgotten(t) == Goto(t, "count", "idle") /\ UNCHANGED <<shared, locals, history>>

PushCount(t) ==
  /\ Goto(t, "count", "idle")
  /\ qDepth' = qDepth + 1
  /\ UNCHANGED <<qData, qWriteInd, qAvailInd, qReadInd, locals, history>>

-----------------------------------------------------------------------------
(***************************************************************************)
(* xs_queue_pop.                                                           *)
(***************************************************************************)
PopCall(t, b) ==
  /\ qDepth # 0
  /\ Goto(t, "idle", "popLoadRead")
  /\ blocking' = [blocking EXCEPT ![t] = b]
  /\ UNCHANGED <<shared, wi, ri, item, dd, history>>

\* Nothing counted: pop answers -1.
PopEmpty(t) == qDepth = 0 /\ pc[t] = "idle" /\ UNCHANGED vars

PopLoadRead(t) ==
  /\ Goto(t, "popLoadRead", "popLoadAvail")
  /\ ri' = [ri EXCEPT ![t] = qReadInd]
  /\ seen' = [seen EXCEPT ![t] = Len(delivered)]
  /\ UNCHANGED <<shared, blocking, wi, item, dd, calls, published, delivered, claims>>

PopLoadAvail(t) ==
  /\ Goto(t, "popLoadAvail", IF ri[t] = qAvailInd THEN "idle" ELSE "copyOut")
  /\ UNCHANGED <<shared, locals, history>>

\* The element is copied before the slot is taken.
PopCopyOut(t) ==
  /\ Goto(t, "copyOut", "release")
  /\ dd' = [dd EXCEPT ![t] = qData[ri[t]]]
  /\ UNCHANGED <<shared, blocking, wi, ri, item, history>>

\* The compare-and-swap on qReadInd: it takes the element, or another thread
\* did and a blocking pop tries again.
ReleaseUnchecked(t) ==
  /\ Goto(t, "release", "uncount")
  /\ qReadInd' = NextInd(ri[t])
  /\ delivered' = Append(delivered, dd[t])
  /\ UNCHANGED <<qData, qWriteInd, qAvailInd, qDepth, locals, calls, published, claims, seen>>

PopRelease(t) ==
  IF qReadInd = ri[t]
    THEN ReleaseUnchecked(t)
    ELSE /\ Goto(t, "release", IF blocking[t] THEN "popLoadRead" ELSE "idle")
         /\ UNCHANGED <<shared, locals, history>>

\* As if the counter had not been touched when the element was taken.
UncountForgotten(t) == Goto(t, "uncount", "idle") /\ UNCHANGED <<shared, locals, history>>

PopUncount(t) ==
  /\ Goto(t, "uncount", "idle")
  /\ qDepth' = qDepth - 1
  /\ UNCHANGED <<qData, qWriteInd, qAvailInd, qReadInd, locals, history>>

-----------------------------------------------------------------------------
PushStep(t) ==
  \/ PushSpin(t) \/ PushLoadWrite(t) \/ PushLoadRead(t) \/ PushClaim(t)
  \/ PushCopyIn(t) \/ PushPublish(t) \/ PushCount(t)

PopStep(t) ==
  \/ PopLoadRead(t) \/ PopLoadAvail(t) \/ PopCopyOut(t) \/ PopRelease(t)
  \/ PopUncount(t)

Next ==
  \/ \E t \in Producers : PushStep(t) \/ \E b \in PushModes : PushCall(t, b)
  \/ \E t \in Consumers : PopStep(t) \/ PopEmpty(t) \/ \E b \in PopModes : PopCall(t, b)

Spec == Init /\ [][Next]_vars

\* Every thread inside a call keeps being scheduled, and a consumer polls
\* whenever the counter is not zero (the loops of Pollthread3 and exec).
Fairness ==
  /\ \A t \in Producers : WF_vars(PushStep(t))
  /\ \A t \in Consumers : WF_vars(PopStep(t) \/ \E b \in PopModes : PopCall(t, b))

FairSpec == Spec /\ Fairness

(***************************************************************************)
(* Behaviours in which no thread is held up between loading an index and   *)
(* its compare-and-swap for so long that the ring moves a whole lap: then  *)
(* an index that still has its old value has not changed in between.       *)
(***************************************************************************)
LapFree ==
  \A t \in Threads :
    /\ pc[t] \in {"loadRead", "claim"} => claims - seen[t] < QSpace
    /\ pc[t] \in {"popLoadAvail", "copyOut", "release"} => Len(delivered) - seen[t] < QSpace

\* A push goes on to write a slot only where it has found room ("no room", 225).
ClaimHasRoom == \A t \in Threads : pc[t] = "copyIn" => ~NoRoom(wi[t], ri[t])

\* What is assumed of threads that share the ring: lap-free, and no blocking
\* push gets past "no room" (a push that does not block never does).
LapFreeSpec == Init /\ [][Next /\ LapFree' /\ ClaimHasRoom']_vars /\ Fairness

-----------------------------------------------------------------------------
(***************************************************************************)
(* Properties.                                                             *)
(***************************************************************************)
TypeOK ==
  /\ qData \in [Ring -> Nat]
  /\ qWriteInd \in Ring /\ qAvailInd \in Ring /\ qReadInd \in Ring
  /\ qDepth \in Int
  /\ pc \in [Threads -> {"idle"} \union PushPC \union PopPC]
  /\ blocking \in [Threads -> BOOLEAN]
  /\ wi \in [Threads -> Ring] /\ ri \in [Threads -> Ring]
  /\ item \in [Threads -> Nat] /\ dd \in [Threads -> Nat]
  /\ calls \in Nat /\ claims \in Nat
  /\ published \in Seq(Nat) /\ delivered \in Seq(Nat)
  /\ seen \in [Threads -> Nat]

\* The elements between the read index and the available index, oldest first.
QueueView == [k \in 1 .. Dist(qReadInd, qAvailInd) |-> qData[Slot(qReadInd, k - 1)]]

(***************************************************************************)
(* What was published is what has been delivered, in the same order,       *)
(* followed by what the ring still holds: nothing is lost, duplicated,     *)
(* reordered or invented by push and pop (200-279).                        *)
(***************************************************************************)
FifoOK == published = delivered \o QueueView

(***************************************************************************)
(* The memcpy of push (234) and the memcpy of pop (267) never work on the  *)
(* same slot at the same time, nor do two pushes, so a copy is never torn. *)
(***************************************************************************)
NoSlotRace ==
  \A s, t \in Threads :
    /\ pc[s] = "copyIn" /\ pc[t] = "copyOut" => wi[s] # ri[t]
    /\ pc[s] = "copyIn" /\ pc[t] = "copyIn" /\ s # t => wi[s] # wi[t]

(***************************************************************************)
(* A claimed slot is written before anybody can read it: it is outside the *)
(* readable part of the ring and no other push has claimed it as well.     *)
(***************************************************************************)
ClaimedSlotsFree ==
  \A s \in Threads : pc[s] \in {"copyIn", "publish"} =>
    /\ Dist(qReadInd, wi[s]) >= Dist(qReadInd, qAvailInd)
    /\ \A t \in Threads \ {s} : pc[t] \in {"copyIn", "publish"} => wi[s] # wi[t]

(***************************************************************************)
(* The counter that pop takes for "empty" at 0 (260) and push and          *)
(* xs_queue_full take for "full" at qSpace-1 (184, 215) stays between the  *)
(* two, although it is changed apart from the indexes it stands for.       *)
(***************************************************************************)
DepthBounded == qDepth \in 0 .. QSpace - 1

\* xs_queue_pop finds in time every element that xs_queue_push has published.
EveryElementDelivered ==
  \A n \in 1 .. MaxCalls : Len(published) >= n ~> Len(delivered) >= n

\* No call hangs: the spins for room (217) and for earlier claims (235) end.
EveryCallReturns == \A t \in Threads : pc[t] # "idle" ~> pc[t] = "idle"

(***************************************************************************)
(* push and pop implement the bounded FIFO: an element is accepted when    *)
(* qAvailInd passes it and handed out when qReadInd does.                  *)
(***************************************************************************)
Fifo == INSTANCE XsFifo WITH
  Item <- Nat, Capacity <- QSpace - 1,
  sent <- published, queue <- QueueView, got <- delivered

\* Nat is not enumerable: the step that accepts names its element.
FifoStep == Fifo!Dequeue \/ \E t \in Threads : Fifo!Enqueue(item[t])
ImplementsFifo == Fifo!Init /\ [][FifoStep]_<<published, QueueView, delivered>>

-----------------------------------------------------------------------------
(***************************************************************************)
(* The inductive invariant behind FifoOK, NoSlotRace and DepthBounded when *)
(* one thread pushes and one thread pops (they may be the same thread).    *)
(***************************************************************************)
SPSC ==
  /\ \A s, t \in Producers : s = t
  /\ \A s, t \in Consumers : s = t

InFlight(t) == pc[t] \in {"copyIn", "publish"}

\* Elements published but not counted yet, and taken but still counted.
Uncounted == IF \E t \in Producers : pc[t] = "count" THEN 1 ELSE 0
Overcounted == IF \E t \in Consumers : pc[t] = "uncount" THEN 1 ELSE 0

RolesOK ==
  \A t \in Threads :
    /\ pc[t] \in PushPC => t \in Producers
    /\ pc[t] \in PopPC => t \in Consumers

\* The write index is ahead of the available index by the one claim in flight.
WriterOK ==
  /\ \A t \in Producers :
       /\ pc[t] \in {"loadRead", "claim"} => wi[t] = qWriteInd
       /\ InFlight(t) => wi[t] = qAvailInd /\ qWriteInd = NextInd(qAvailInd)
       /\ pc[t] = "publish" => qData[wi[t]] = item[t]
       /\ pc[t] \in PushPC \ {"spin"} => qDepth <= QSpace - 2
  /\ (\A t \in Producers : ~InFlight(t)) => qWriteInd = qAvailInd

\* What the consumer has loaded is still so.
ReaderOK ==
  \A t \in Consumers :
    /\ pc[t] \in {"popLoadAvail", "copyOut", "release"} => ri[t] = qReadInd
    /\ pc[t] \in {"copyOut", "release"} => qReadInd # qAvailInd
    /\ pc[t] = "release" => dd[t] = qData[qReadInd]
    /\ pc[t] \in PopPC => qDepth >= 1

DepthOK ==
  /\ qDepth \in 0 .. QSpace - 1
  /\ qDepth + Uncounted = Dist(qReadInd, qAvailInd) + Overcounted

ContentOK ==
  /\ Len(published) = Len(delivered) + Dist(qReadInd, qAvailInd)
  /\ \A i \in 1 .. Len(delivered) : delivered[i] = published[i]
  /\ \A k \in 0 .. Dist(qReadInd, qAvailInd) - 1 :
       qData[Slot(qReadInd, k)] = published[Len(delivered) + k + 1]

IInv == TypeOK /\ RolesOK /\ WriterOK /\ ReaderOK /\ DepthOK /\ ContentOK
-----------------------------------------------------------------------------
(***************************************************************************)
(* The inductive invariant behind FifoOK, ClaimedSlotsFree and             *)
(* ImplementsFifo for any number of threads, under LapFreeSpec.            *)
(***************************************************************************)
\* The claims in flight lie between the available and the write index.
ClaimsOK ==
  /\ claims = Len(delivered) + Dist(qReadInd, qWriteInd)
  /\ Dist(qReadInd, qAvailInd) <= Dist(qReadInd, qWriteInd)
  /\ \A t \in Threads : InFlight(t) =>
       /\ Dist(qReadInd, qAvailInd) <= Dist(qReadInd, wi[t])
       /\ Dist(qReadInd, wi[t]) < Dist(qReadInd, qWriteInd)
       /\ \A s \in Threads \ {t} : InFlight(s) => wi[s] # wi[t]
       /\ pc[t] = "publish" => qData[wi[t]] = item[t]

\* What a push has loaded was so when claims was seen[t]; if it still is, there
\* is the room it found, if it found any.
PushersOK ==
  \A t \in Threads :
    /\ pc[t] \in {"loadRead", "claim"} =>
         seen[t] <= claims /\ qWriteInd = Slot(wi[t], claims - seen[t])
    /\ pc[t] = "claim" /\ claims = seen[t] /\ ~NoRoom(wi[t], ri[t]) =>
         Dist(qReadInd, qWriteInd) < QSpace - 1

\* Likewise for pop: if nobody has taken the element meanwhile, it is there,
\* and the copy of it is good.
PoppersOK ==
  \A t \in Threads :
    /\ pc[t] \in {"popLoadAvail", "copyOut", "release"} =>
         seen[t] <= Len(delivered) /\ qReadInd = Slot(ri[t], Len(delivered) - seen[t])
    /\ pc[t] \in {"copyOut", "release"} /\ Len(delivered) = seen[t] => qReadInd # qAvailInd
    /\ pc[t] = "release" /\ Len(delivered) = seen[t] => dd[t] = qData[qReadInd]

SharedInv ==
  TypeOK /\ LapFree /\ ClaimsOK /\ PushersOK /\ PoppersOK /\ ContentOK
=============================================================================
