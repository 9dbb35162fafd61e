----------------------------- MODULE XsWorkers ------------------------------
(***************************************************************************)
(* The worker pool of xs_queue.h: the threads that xs_queue_push creates   *)
(* or wakes (242-254), their loop xs_queue_exec, the sleep and wake-up     *)
(* protocol xs_queue_pause / xs_queue_resume, and xs_queue_destroy.        *)
(*                                                                         *)
(* Of the ring only the number of elements in it matters here.  Pushes are *)
(* blocking, as they are for both queues that have workers (the logger's q *)
(* and xs_async's q), so a push claims a slot whether there is room or not *)
(* (228), and two at once can run the write index into the read index: the *)
(* ring then reads as empty.  RoomSpec is the pool in which two pushes do  *)
(* not rely on the same slot; with one producer at a time it is every      *)
(* behaviour.  The ring is then never overrun (AlwaysRoom), and is the     *)
(* FIFO of XsQueue; claim and publication are one step, and so are the     *)
(* test and the swap of pop.  Otherwise there is one action                *)
(* per access to a counter that another thread writes; where one action    *)
(* reads several counters, the comment says why.  The statistics counters  *)
(* (qSleepCount, qWakeCount, qOneCount, qDoneCount, qWaitExecCount and     *)
(* qRealSleeping, which always equals qInactive) are left out.             *)
(***************************************************************************)
EXTENDS Integers, FiniteSets

CONSTANTS
  Producers,    \* the threads that push
  Workers,      \* the threads pthread_create_detached may create
  QSpace,       \* qSpace
  MaxActive,    \* the count given to xs_queue_launchthreads
  MaxPush,      \* bound: how many elements are pushed
  MaxSpurious,  \* bound: wake-ups of pthread_cond_wait without a signal
  MayDestroy    \* whether the owner destroys the queue

ASSUME SpaceAssumption == QSpace \in Nat \ {0, 1}
ASSUME PoolAssumption ==
  /\ MaxActive \in Nat
  /\ IsFiniteSet(Producers) /\ IsFiniteSet(Workers) /\ Producers \intersect Workers = {}
ASSUME BoundAssumption ==
  MaxPush \in Nat /\ MaxSpurious \in Nat /\ MayDestroy \in BOOLEAN

Threads == Producers \union Workers

Nobody == "nobody"
ASSUME NobodyAssumption == Nobody \notin Threads

VARIABLES
  qDepth, qAttempt, qProcessed, qInactive, qWorking, qActive, qCreated,
  qIsRunning,
  ring,        \* elements published and not taken
  mutex,       \* the holder of mMutex
  pc,          \* where each thread is
  attempt,     \* qAttempt as a worker about to sleep has read it
  pushes,      \* history: pushes started
  spurious,    \* history: wake-ups without a signal
  owner        \* the owner: "using", "stopping", "stopped" or "destroyed"

counters == <<qDepth, qAttempt, qProcessed, qInactive, qWorking, qActive, qCreated>>
bounds == <<pushes, spurious>>
vars == <<qDepth, qAttempt, qProcessed, qInactive, qWorking, qActive, qCreated,
          qIsRunning, ring, mutex, pc, attempt, pushes, spurious, owner>>

PushPC == {"full", "publish", "count", "spawn", "allAsleep", "backlog", "anyAsleep", "signal"}
ExecPC == {"none", "start", "loop", "take", "uncount", "work", "proc", "done", "rest",
           "lock", "sleepy", "idle", "load", "compare", "wait", "woken", "leave",
           "exit", "exited", "gone"}

-----------------------------------------------------------------------------
\* xs_queue_create and xs_queue_launchthreads, which starts no thread itself.
Init ==
  /\ qDepth = 0 /\ qAttempt = 0 /\ qProcessed = 0 /\ qInactive = 0
  /\ qWorking = 0 /\ qActive = 0 /\ qCreated = 0
  /\ qIsRunning = 1
  /\ ring = 0
  /\ mutex = Nobody
  /\ pc = [t \in Threads |-> IF t \in Producers THEN "ready" ELSE "none"]
  /\ attempt = [w \in Workers |-> 0]
  /\ pushes = 0 /\ spurious = 0
  /\ owner = "using"

Goto(t, from, to) == pc[t] = from /\ pc' = [pc EXCEPT ![t] = to]

-----------------------------------------------------------------------------
(***************************************************************************)
(* xs_queue_push, after which the caller is ready for the next push.       *)
(***************************************************************************)
PushAttempt(p) ==
  /\ pushes < MaxPush /\ owner = "using"
  /\ Goto(p, "ready", "full")
  /\ qAttempt' = qAttempt + 1
  /\ pushes' = pushes + 1
  /\ UNCHANGED <<qDepth, qProcessed, qInactive, qWorking, qActive, qCreated,
                 qIsRunning, ring, mutex, attempt, spurious, owner>>

PushRoomOffByOne(p) ==
  /\ qDepth < QSpace
  /\ Goto(p, "full", "publish")
  /\ UNCHANGED <<counters, qIsRunning, ring, mutex, attempt, bounds, owner>>

PushRoom(p) ==
  /\ qDepth + 1 < QSpace
  /\ Goto(p, "full", "publish")
  /\ UNCHANGED <<counters, qIsRunning, ring, mutex, attempt, bounds, owner>>

\* Claim, copy and publication.  The test for room (225) makes a blocking push
\* yield and then claim all the same, so it is no guard: with the ring full the
\* write index comes to stand on the read index, which reads as empty.
PushPublish(p) ==
  /\ Goto(p, "publish", "count")
  /\ ring' = IF ring + 1 = QSpace THEN 0 ELSE ring + 1
  /\ UNCHANGED <<counters, qIsRunning, mutex, attempt, bounds, owner>>

PushCount(p) ==
  /\ Goto(p, "count", IF MaxActive # 0 THEN "spawn" ELSE "ready")
  /\ qDepth' = qDepth + 1
  /\ UNCHANGED <<qAttempt, qProcessed, qInactive, qWorking, qActive, qCreated,
                 qIsRunning, ring, mutex, attempt, bounds, owner>>

\* The condition of line 244.  qActive does not fall while the queue runs and
\* qCreated stays 0, so it holds for the values read one after the other
\* exactly when it holds at the last read.
NeedThread == qInactive = 0 /\ qWorking = qActive /\ qCreated < MaxActive /\ qCreated = qActive

\* Line 246 is commented out: creating a thread does not count it.
PushSpawn(p) ==
  /\ IF NeedThread
       THEN \E w \in Workers :
              /\ pc[w] = "none"
              /\ pc[p] = "spawn"
              /\ pc' = [pc EXCEPT ![p] = "ready", ![w] = "start"]
       ELSE Goto(p, "spawn", "allAsleep")
  /\ UNCHANGED <<counters, qIsRunning, ring, mutex, attempt, bounds, owner>>

\* The two conditions under which a push calls xs_queue_resume (251, 252).
AllAsleep == qInactive + 1 >= qActive
Backlog == qDepth + qWorking > qActive - qInactive

PushAllAsleep(p) ==
  /\ Goto(p, "allAsleep", IF AllAsleep THEN "anyAsleep" ELSE "backlog")
  /\ UNCHANGED <<counters, qIsRunning, ring, mutex, attempt, bounds, owner>>

PushBacklog(p) ==
  /\ Goto(p, "backlog", IF Backlog THEN "anyAsleep" ELSE "ready")
  /\ UNCHANGED <<counters, qIsRunning, ring, mutex, attempt, bounds, owner>>

-----------------------------------------------------------------------------
(***************************************************************************)
(* xs_queue_resume: nothing to do, or lock, signal, unlock.  Nobody sees   *)
(* the inside of that critical section, so it is one step.                 *)
(***************************************************************************)
ResumeOffByOne(p) ==
  /\ Goto(p, "anyAsleep", IF qInactive <= 1 THEN "ready" ELSE "signal")
  /\ UNCHANGED <<counters, qIsRunning, ring, mutex, attempt, bounds, owner>>

ResumeAnyAsleep(p) ==
  /\ Goto(p, "anyAsleep", IF qInactive = 0 THEN "ready" ELSE "signal")
  /\ UNCHANGED <<counters, qIsRunning, ring, mutex, attempt, bounds, owner>>

Waiting == {w \in Workers : pc[w] = "wait"}

SignalUnlocked(p) ==
  /\ pc[p] = "signal"
  /\ \/ /\ Waiting = {}
        /\ pc' = [pc EXCEPT ![p] = "ready"]
     \/ \E w \in Waiting : pc' = [pc EXCEPT ![p] = "ready", ![w] = "woken"]
  /\ UNCHANGED <<counters, qIsRunning, ring, mutex, attempt, bounds, owner>>

ResumeSignal(p) == mutex = Nobody /\ SignalUnlocked(p)

-----------------------------------------------------------------------------
(***************************************************************************)
(* xs_queue_exec.                                                          *)
(***************************************************************************)
ExecStart(w) ==
  /\ Goto(w, "start", "loop")
  /\ qActive' = qActive + 1
  /\ UNCHANGED <<qDepth, qAttempt, qProcessed, qInactive, qWorking, qCreated,
                 qIsRunning, ring, mutex, attempt, bounds, owner>>

ExecLoop(w) ==
  /\ Goto(w, "loop", IF qIsRunning = 0 THEN "exit" ELSE IF qDepth # 0 THEN "take" ELSE "lock")
  /\ UNCHANGED <<counters, qIsRunning, ring, mutex, attempt, bounds, owner>>

ExecTakeBlind(w) ==
  /\ Goto(w, "take", "uncount")
  /\ ring' = ring - 1
  /\ UNCHANGED <<counters, qIsRunning, mutex, attempt, bounds, owner>>

\* The non-blocking pop: it finds nothing, or takes the oldest element.
ExecTake(w) ==
  /\ IF qDepth = 0 \/ ring = 0
       THEN Goto(w, "take", "loop") /\ UNCHANGED ring
       ELSE Goto(w, "take", "uncount") /\ ring' = ring - 1
  /\ UNCHANGED <<counters, qIsRunning, mutex, attempt, bounds, owner>>

ExecUncount(w) ==
  /\ Goto(w, "uncount", "work")
  /\ qDepth' = qDepth - 1
  /\ UNCHANGED <<qAttempt, qProcessed, qInactive, qWorking, qActive, qCreated,
                 qIsRunning, ring, mutex, attempt, bounds, owner>>

ExecWork(w) ==
  /\ Goto(w, "work", "proc")
  /\ qWorking' = qWorking + 1
  /\ UNCHANGED <<qDepth, qAttempt, qProcessed, qInactive, qActive, qCreated,
                 qIsRunning, ring, mutex, attempt, bounds, owner>>

\* qProc returns, and the element counts as processed.
ExecDone(w) ==
  /\ Goto(w, "proc", "rest")
  /\ qProcessed' = qProcessed + 1
  /\ UNCHANGED <<qDepth, qAttempt, qInactive, qWorking, qActive, qCreated,
                 qIsRunning, ring, mutex, attempt, bounds, owner>>

ExecRest(w) ==
  /\ Goto(w, "rest", "loop")
  /\ qWorking' = qWorking - 1
  /\ UNCHANGED <<qDepth, qAttempt, qProcessed, qInactive, qActive, qCreated,
                 qIsRunning, ring, mutex, attempt, bounds, owner>>

ExecExit(w) ==
  /\ Goto(w, "exit", "exited")
  /\ qActive' = qActive - 1
  /\ UNCHANGED <<qDepth, qAttempt, qProcessed, qInactive, qWorking, qCreated,
                 qIsRunning, ring, mutex, attempt, bounds, owner>>

ExecExited(w) ==
  /\ Goto(w, "exited", "gone")
  /\ qCreated' = qCreated - 1
  /\ UNCHANGED <<qDepth, qAttempt, qProcessed, qInactive, qWorking, qActive,
                 qIsRunning, ring, mutex, attempt, bounds, owner>>

-----------------------------------------------------------------------------
(***************************************************************************)
(* xs_queue_pause.                                                         *)
(***************************************************************************)
PauseLock(w) ==
  /\ mutex = Nobody
  /\ Goto(w, "lock", "sleepy")
  /\ mutex' = w
  /\ UNCHANGED <<counters, qIsRunning, ring, attempt, bounds, owner>>

PauseInactive(w) ==
  /\ Goto(w, "sleepy", "idle")
  /\ qInactive' = qInactive + 1
  /\ UNCHANGED <<qDepth, qAttempt, qProcessed, qWorking, qActive, qCreated,
                 qIsRunning, ring, mutex, attempt, bounds, owner>>

\* Line 121: more idle threads than elements, or no element.
NothingForMe == qActive - qInactive - qWorking > qDepth \/ qDepth = 0

PauseIdle(w) ==
  /\ Goto(w, "idle", IF NothingForMe THEN "load" ELSE "leave")
  /\ UNCHANGED <<counters, qIsRunning, ring, mutex, attempt, bounds, owner>>

\* Line 122 reads qProcessed and qAttempt in an order C leaves open.  Reading
\* qAttempt first allows every outcome the other order does.
PauseLoad(w) ==
  /\ Goto(w, "load", "compare")
  /\ attempt' = [attempt EXCEPT ![w] = qAttempt]
  /\ UNCHANGED <<counters, qIsRunning, ring, mutex, bounds, owner>>

\* If every attempted element is processed, release the mutex and wait.
PauseCompare(w) ==
  /\ IF qProcessed >= attempt[w]
       THEN Goto(w, "compare", "wait") /\ mutex' = Nobody
       ELSE Goto(w, "compare", "leave") /\ UNCHANGED mutex
  /\ UNCHANGED <<counters, qIsRunning, ring, attempt, bounds, owner>>

PauseSpurious(w) ==
  /\ spurious < MaxSpurious
  /\ Goto(w, "wait", "woken")
  /\ spurious' = spurious + 1
  /\ UNCHANGED <<counters, qIsRunning, ring, mutex, attempt, pushes, owner>>

PauseReacquire(w) ==
  /\ mutex = Nobody
  /\ Goto(w, "woken", "leave")
  /\ mutex' = w
  /\ UNCHANGED <<counters, qIsRunning, ring, attempt, bounds, owner>>

PauseLeave(w) ==
  /\ Goto(w, "leave", "loop")
  /\ qInactive' = qInactive - 1
  /\ mutex' = Nobody
  /\ UNCHANGED <<qDepth, qAttempt, qProcessed, qWorking, qActive, qCreated,
                 qIsRunning, ring, attempt, bounds, owner>>

-----------------------------------------------------------------------------
(***************************************************************************)
(* xs_queue_destroy.  The owner calls it when nobody pushes any more.      *)
(***************************************************************************)
DestroyStop ==
  /\ MayDestroy
  /\ owner = "using"
  /\ \A p \in Producers : pc[p] = "ready"
  /\ owner' = "stopping"
  /\ qIsRunning' = 0
  /\ UNCHANGED <<counters, ring, mutex, pc, attempt, bounds>>

\* The spin: broadcast, without the mutex, until no thread is left.
DestroySilently ==
  /\ owner = "stopping"
  /\ qActive # 0 \/ qInactive # 0
  /\ UNCHANGED vars

DestroyBroadcast ==
  /\ owner = "stopping"
  /\ qActive # 0 \/ qInactive # 0
  /\ pc' = [t \in DOMAIN pc |-> IF t \in Waiting THEN "woken" ELSE pc[t]]
  /\ UNCHANGED <<counters, qIsRunning, ring, mutex, attempt, bounds, owner>>

DestroyAnyway ==
  /\ owner = "stopping"
  /\ owner' = "stopped"
  /\ UNCHANGED <<counters, qIsRunning, ring, mutex, pc, attempt, bounds>>

DestroyWaited ==
  /\ owner = "stopping"
  /\ qActive = 0 /\ qInactive = 0
  /\ owner' = "stopped"
  /\ UNCHANGED <<counters, qIsRunning, ring, mutex, pc, attempt, bounds>>

\* Lock and unlock, then the mutex, the ring and the structure are gone.
DestroyFree ==
  /\ owner = "stopped"
  /\ mutex = Nobody
  /\ owner' = "destroyed"
  /\ UNCHANGED <<counters, qIsRunning, ring, mutex, pc, attempt, bounds>>

-----------------------------------------------------------------------------
Push(p) ==
  \/ PushAttempt(p) \/ PushRoom(p) \/ PushPublish(p) \/ PushCount(p) \/ PushSpawn(p)
  \/ PushAllAsleep(p) \/ PushBacklog(p) \/ ResumeAnyAsleep(p) \/ ResumeSignal(p)

Exec(w) ==
  \/ ExecStart(w) \/ ExecLoop(w) \/ ExecTake(w) \/ ExecUncount(w) \/ ExecWork(w)
  \/ ExecDone(w) \/ ExecRest(w) \/ ExecExit(w) \/ ExecExited(w)
  \/ PauseLock(w) \/ PauseInactive(w) \/ PauseIdle(w) \/ PauseLoad(w)
  \/ PauseCompare(w) \/ PauseReacquire(w) \/ PauseLeave(w)

Destroy == DestroyBroadcast \/ DestroyWaited \/ DestroyFree

Next ==
  \/ \E p \in Producers : Push(p)
  \/ \E w \in Workers : Exec(w) \/ PauseSpurious(w)
  \/ DestroyStop \/ Destroy

Spec == Init /\ [][Next]_vars

(***************************************************************************)
(* A push passes the test of qDepth (215-217) while others are between it  *)
(* and their count (241) only if there is room for all of them.  Two that  *)
(* pass it with one slot left both claim; that this is what they do is     *)
(* shown by XsQueue (ClaimHasRoom) and not here.                           *)
(***************************************************************************)
Count(places, set) == Cardinality({t \in Threads : places[t] \in set})

PromisedPC == {"publish", "count"}
Promised == Count(pc, PromisedPC)

PromiseStep ==
  \A p \in Producers : PushRoom(p) /\ Promised # 0 => qDepth + 1 + Promised < QSpace

RoomSpec == Init /\ [][Next /\ PromiseStep]_vars

(***************************************************************************)
(* Every thread that can go on is scheduled; a mutex that is free again    *)
(* and again is eventually granted.  Whether a push starts, the queue is   *)
(* destroyed or a wait ends without a signal is nobody's duty.  A push is  *)
(* not owed a slot that others rely on.                                    *)
(***************************************************************************)
Fairness ==
  /\ \A p \in Producers :
       WF_vars(Push(p) /\ pc[p] # "ready" /\ PromiseStep) /\ SF_vars(ResumeSignal(p))
  /\ \A w \in Workers : WF_vars(Exec(w)) /\ SF_vars(PauseLock(w) \/ PauseReacquire(w))
  /\ WF_vars(Destroy)

FairSpec == RoomSpec /\ Fairness

-----------------------------------------------------------------------------
(***************************************************************************)
(* Properties.                                                             *)
(***************************************************************************)
TypeOK ==
  /\ qDepth \in Int /\ qCreated \in Int
  /\ {qAttempt, qProcessed, qInactive, qWorking, qActive, pushes, spurious} \subseteq Nat
  /\ ring \in 0 .. QSpace - 1
  /\ qIsRunning \in {0, 1}
  /\ mutex \in Workers \union {Nobody}
  /\ pc \in [Threads -> PushPC \union ExecPC \union {"ready"}]
  /\ attempt \in [Workers -> Nat]
  /\ owner \in {"using", "stopping", "stopped", "destroyed"}

(***************************************************************************)
(* A push that has seen room by qDepth (215-217) finds a slot when it      *)
(* claims one (225), although qDepth lags behind the indexes on both sides *)
(* and the threads of the pool pop meanwhile.  One producer at a time, as  *)
(* the logger's q has (flushes push under log->mutex), needs nothing else. *)
(***************************************************************************)
RoomStep == \A p \in Producers : PushPublish(p) => ring + 1 < QSpace

AlwaysRoom == [][RoomStep]_vars

(***************************************************************************)
(* No lost wake-up: when no push is under way and every thread of the pool *)
(* sleeps in pause (124), everything pushed has been processed.  The       *)
(* producer reads qInactive without the mutex that protects the wait.      *)
(***************************************************************************)
AsleepMeansDone ==
  /\ owner = "using"
  /\ \A p \in Producers : pc[p] = "ready"
  /\ \A w \in Workers : pc[w] \in {"none", "wait"}
  => qProcessed = pushes

QuietPC == {"none", "start", "loop", "exit", "exited", "gone"}

(***************************************************************************)
(* Once destroy has freed the queue (108-110), no thread of the pool is    *)
(* inside pop, qProc or pause, so none touches the ring or the mutex.      *)
(* What can still come is a thread created but not begun, which finds      *)
(* qIsRunning = 0, and the last lines of exec.                             *)
(***************************************************************************)
DestroyedQuiet ==
  owner = "destroyed" =>
    \A w \in Workers : pc[w] \in QuietPC

(***************************************************************************)
(* The inductive invariant that AsleepMeansDone and DestroyedQuiet rest    *)
(* on.  Each counter of the queue is the number of threads at the places   *)
(* between its increment and its decrement.                                *)
(***************************************************************************)
InactivePC == {"idle", "load", "compare", "wait", "woken", "leave"}
WorkingPC == {"proc", "rest"}
ActivePC == ExecPC \ {"none", "start", "exited", "gone"}
UnderwayPC == {"full", "publish", "uncount", "work", "proc"}
HoldPC == {"sleepy", "idle", "load", "compare", "leave"}

KindsOK ==
  /\ \A p \in Producers : pc[p] \in PushPC \union {"ready"}
  /\ \A w \in Workers : pc[w] \in ExecPC

CountersOK ==
  /\ qInactive = Count(pc, InactivePC)
  /\ qWorking = Count(pc, WorkingPC)
  /\ qActive = Count(pc, ActivePC)
  /\ qCreated + Count(pc, {"gone"}) = 0

\* Every element attempted is processed, in the ring, or in a thread's hands.
Conserved ==
  /\ qAttempt = pushes
  /\ pushes = qProcessed + ring + Count(pc, UnderwayPC)
  /\ qDepth = ring + Count(pc, {"uncount"}) - Count(pc, {"count"})

\* The slots seen as free are enough for the pushes that rely on them.
RoomLeft == qDepth + Promised < QSpace

MutexOK == \A w \in Workers : mutex = w <=> pc[w] \in HoldPC

OwnerOK ==
  /\ owner = "using" => qIsRunning = 1 /\ \A w \in Workers : pc[w] \notin {"exit", "exited", "gone"}
  /\ owner # "using" => qIsRunning = 0 /\ \A p \in Producers : pc[p] = "ready"
  /\ owner \in {"stopped", "destroyed"} => \A w \in Workers : pc[w] \in QuietPC

\* Only the push of a queue with a pool looks at the threads (242).
SpawnMeansPool == \A p \in Producers : pc[p] = "spawn" => MaxActive # 0

\* A push that looks for a thread to wake has seen that there is one.
PoolStarted ==
  \A p \in Producers :
    pc[p] \in {"allAsleep", "backlog", "anyAsleep", "signal"} => qActive > 0

\* A thread that will come round to the next test of qDepth.
Awake(w) == pc[w] \notin {"none", "wait"} /\ (pc[w] = "compare" => attempt[w] > qProcessed)

\* Somebody looks after what is attempted and not processed.
LookedAfter ==
  MaxActive # 0 /\ owner = "using" /\ qProcessed < pushes =>
    (\E p \in Producers : pc[p] # "ready") \/ (\E w \in Workers : Awake(w))

IInv ==
  /\ TypeOK /\ KindsOK /\ CountersOK /\ Conserved /\ RoomLeft /\ MutexOK
  /\ OwnerOK /\ SpawnMeansPool /\ PoolStarted /\ LookedAfter

(***************************************************************************)
(* Every push is processed: a push that finds threads asleep wakes one, a  *)
(* push that finds none creates one, and one that waits for room gets it,  *)
(* when no claim is made in a full ring (RoomSpec).                        *)
(***************************************************************************)
EveryPushProcessed ==
  qProcessed < pushes ~> (qProcessed = pushes \/ owner # "using")

\* Destroy does not hang on sleeping threads (105).
DestroyCompletes == owner = "stopping" ~> owner = "destroyed"
=============================================================================
