--------------------------- MODULE XsWorkersProofs ----------------------------
(***************************************************************************)
(* What the sleep and wake-up protocol of the worker pool guarantees, for  *)
(* any finite sets of producers and threads, any number of pushes and of   *)
(* wake-ups without a signal, and any room in the ring, as long as no two  *)
(* pushes rely on the same slot: then none claims a slot of a full ring    *)
(* (ClaimsHaveRoom).  With one producer at a time this is no assumption    *)
(* (OnePusherNeedsNone).                                                   *)
(*                                                                         *)
(* First the counters (Tally): each is the number of threads between its   *)
(* increment and its decrement.  Then the mutex and the owner.  Last the   *)
(* work that is pending (LookedAfter): whenever a push decides to wake     *)
(* nobody, or a thread decides to sleep, the counters it has read show     *)
(* that somebody else will come round.                                     *)
(***************************************************************************)
EXTENDS XsWorkers, FiniteSetTheorems, TLAPS

\* The threads of a finite set that are at one of a set of places.
CountIn(threads, place, set) == Cardinality({u \in threads : place[u] \in set})

\* 1 if a place is one of a set of places, 0 if not.
In(place, set) == IF place \in set THEN 1 ELSE 0

\* A number of threads is a natural number.
LEMMA CountIsNat ==
  ASSUME NEW T, IsFiniteSet(T), NEW f, NEW set
  PROVE  CountIn(T, f, set) \in Nat
<1>1. IsFiniteSet({u \in T : f[u] \in set})
  BY FS_Subset
<1>2. QED
  BY <1>1, FS_CardinalityType DEF CountIn

\* A counter is at zero exactly when no thread is at one of its places.
LEMMA CountZero ==
  ASSUME NEW T, IsFiniteSet(T), NEW f, NEW set
  PROVE  CountIn(T, f, set) = 0 <=> \A u \in T : f[u] \notin set
<1> DEFINE there == {u \in T : f[u] \in set}
<1>1. IsFiniteSet(there)
  BY FS_Subset
<1>2. Cardinality(there) = 0 <=> there = {}
  <2> HIDE DEF there
  <2>1. QED
    BY <1>1, FS_EmptySet
<1>3. QED
  BY <1>2 DEF CountIn

\* Fewer places, fewer threads; and with as many threads in the smaller set of
\* places as in the larger one, no thread is in the difference.
LEMMA CountMonotone ==
  ASSUME NEW T, IsFiniteSet(T), NEW f, NEW small, NEW large, small \subseteq large
  PROVE  /\ CountIn(T, f, small) <= CountIn(T, f, large)
         /\ CountIn(T, f, small) = CountIn(T, f, large)
              => \A u \in T : f[u] \in large => f[u] \in small
<1> DEFINE few == {u \in T : f[u] \in small}
           many == {u \in T : f[u] \in large}
<1>1. many \in SUBSET T /\ few \in SUBSET many
  OBVIOUS
<1>2. IsFiniteSet(many)
  BY <1>1, FS_Subset
<1>3. /\ Cardinality(few) <= Cardinality(many)
      /\ Cardinality(few) = Cardinality(many) => few = many
  <2> HIDE DEF few, many
  <2>1. QED
    BY <1>1, <1>2, FS_Subset
<1>4. few = many => \A u \in T : f[u] \in large => f[u] \in small
  OBVIOUS
<1>5. QED
  BY <1>3, <1>4 DEF CountIn

\* When one thread moves, a count changes by that thread.
LEMMA CountMoved ==
  ASSUME NEW T, IsFiniteSet(T), NEW t \in T, NEW f, NEW g, NEW set,
         \A u \in T : u # t => g[u] = f[u]
  PROVE  CountIn(T, g, set) = CountIn(T, f, set) + In(g[t], set) - In(f[t], set)
<1> DEFINE before == {u \in T : f[u] \in set}
           after == {u \in T : g[u] \in set}
<1>0. before \in SUBSET T
  OBVIOUS
<1>1. IsFiniteSet(before) /\ Cardinality(before) \in Nat
  BY <1>0, FS_Subset, FS_CardinalityType
<1>2. t \in before <=> f[t] \in set
  OBVIOUS
<1>3. after = IF g[t] \in set THEN before \union {t} ELSE before \ {t}
  OBVIOUS
<1>4. Cardinality(after) = Cardinality(before) + In(g[t], set) - In(f[t], set)
  <2> HIDE DEF before, after
  <2>1. Cardinality(before \union {t}) =
          IF t \in before THEN Cardinality(before) ELSE Cardinality(before) + 1
    BY <1>1, FS_AddElement
  <2>2. Cardinality(before \ {t}) =
          IF t \in before THEN Cardinality(before) - 1 ELSE Cardinality(before)
    BY <1>1, FS_RemoveElement
  <2>3. QED
    BY <1>1, <1>2, <1>3, <2>1, <2>2 DEF In
<1>5. QED
  BY <1>4 DEF CountIn

-----------------------------------------------------------------------------
(***************************************************************************)
(* Counting threads.                                                       *)
(***************************************************************************)
LEMMA ThreadsFinite == IsFiniteSet(Threads)
BY PoolAssumption, FS_Union DEF Threads

\* Every number of threads is a natural number.
LEMMA CountsAreNat == ASSUME NEW places PROVE \A set : Count(places, set) \in Nat
BY ThreadsFinite, CountIsNat DEF Count, CountIn

\* The sets of places that the counters of the queue are numbers of.
Counted == {InactivePC, WorkingPC, ActivePC, {"gone"}, UnderwayPC, {"count"}, {"uncount"}}

\* How those numbers change when a thread moves.
CountsMoved(from, to) ==
  \A set \in Counted : Count(pc', set) = Count(pc, set) + In(to, set) - In(from, set)

\* What a move of one thread does to the numbers of threads.
LEMMA Recounted ==
  ASSUME TypeOK, NEW t \in Threads, NEW from, NEW to, Goto(t, from, to)
  PROVE  CountsMoved(from, to)
<1>1. /\ pc[t] = from /\ pc'[t] = to
      /\ \A u \in Threads : u # t => pc'[u] = pc[u]
  BY DEF Goto, TypeOK
<1>2. SUFFICES ASSUME NEW set \in Counted
               PROVE  Count(pc', set) = Count(pc, set) + In(to, set) - In(from, set)
  BY DEF CountsMoved
<1>3. CountIn(Threads, pc', set) = CountIn(Threads, pc, set) + In(pc'[t], set) - In(pc[t], set)
  BY <1>1, ThreadsFinite, CountMoved
<1>4. QED
  BY <1>1, <1>3 DEF Count, CountIn

\* A place for a thread of the pool, a place for a producer.
LEMMA MovedKinds ==
  ASSUME IInv, NEW t \in Threads, NEW from, NEW to, Goto(t, from, to),
         \/ t \in Producers /\ to \in PushPC \union {"ready"}
         \/ t \in Workers /\ to \in ExecPC
  PROVE  KindsOK' /\ pc' \in [Threads -> PushPC \union ExecPC \union {"ready"}]
<1>1. \A u \in Threads : pc'[u] = IF u = t THEN to ELSE pc[u]
  BY DEF Goto, IInv, TypeOK
<1>2. pc' \in [Threads -> PushPC \union ExecPC \union {"ready"}]
  BY DEF Goto, IInv, TypeOK
<1>3. KindsOK'
  BY <1>1, PoolAssumption DEF IInv, KindsOK, Threads
<1>4. QED
  BY <1>2, <1>3

Tally == TypeOK /\ KindsOK /\ CountersOK /\ Conserved

\* Steps that move no thread into or out of a counted set, and no counter.
LEMMA TallyKept ==
  ASSUME IInv, pc' \in [Threads -> PushPC \union ExecPC \union {"ready"}], KindsOK',
         \A t \in Threads : \A set \in Counted : pc[t] \in set <=> pc'[t] \in set,
         UNCHANGED <<counters, ring, pushes>>,
         qIsRunning' \in {0, 1}, mutex' \in Workers \union {Nobody},
         attempt' \in [Workers -> Nat], spurious' \in Nat,
         owner' \in {"using", "stopping", "stopped", "destroyed"}
  PROVE  Tally'
<1>1. \A set \in Counted : Count(pc', set) = Count(pc, set)
  <2> TAKE set \in Counted
  <2>1. {t \in Threads : pc'[t] \in set} = {t \in Threads : pc[t] \in set}
    OBVIOUS
  <2>2. QED
    BY <2>1 DEF Count
<1>2. /\ Count(pc', InactivePC) = Count(pc, InactivePC)
      /\ Count(pc', WorkingPC) = Count(pc, WorkingPC)
      /\ Count(pc', ActivePC) = Count(pc, ActivePC)
      /\ Count(pc', {"gone"}) = Count(pc, {"gone"})
      /\ Count(pc', UnderwayPC) = Count(pc, UnderwayPC)
      /\ Count(pc', {"count"}) = Count(pc, {"count"})
      /\ Count(pc', {"uncount"}) = Count(pc, {"uncount"})
  BY <1>1 DEF Counted
<1>3. CountersOK'
  BY <1>2 DEF counters, IInv, CountersOK
<1>4. Conserved'
  BY <1>2 DEF counters, IInv, Conserved
<1>5. TypeOK'
  BY DEF counters, IInv, TypeOK
<1>6. QED
  BY <1>3, <1>4, <1>5 DEF Tally

-----------------------------------------------------------------------------
(***************************************************************************)
(* The counters, for a step of a thread of the pool.                       *)
(***************************************************************************)
LEMMA TallyExec ==
  ASSUME IInv, NEW w \in Workers, Exec(w) \/ PauseSpurious(w)
  PROVE  Tally'
<1> USE DEF In, InactivePC, WorkingPC, ActivePC, UnderwayPC, ExecPC
<1>n. \A set : Count(pc, set) \in Nat /\ Count(pc', set) \in Nat
  BY CountsAreNat
<1>1. CASE ExecStart(w)
  <2>1. Goto(w, "start", "loop")
    BY <1>1 DEF ExecStart
  <2>2. CountsMoved("start", "loop")
    BY <2>1, Recounted DEF IInv, Threads
  <2>3. CountersOK'
    BY <1>1, <1>n, <2>2 DEF ExecStart, IInv, CountersOK, CountsMoved, Counted
  <2>4. Conserved'
    BY <1>1, <1>n, <2>2 DEF ExecStart, bounds, IInv, TypeOK, CountersOK, Conserved, CountsMoved, Counted
  <2>5. KindsOK' /\ pc' \in [Threads -> PushPC \union ExecPC \union {"ready"}]
    BY <2>1, MovedKinds DEF Threads
  <2>6. TypeOK'
    BY <1>1, <1>n, <2>3, <2>5 DEF ExecStart, bounds, IInv, TypeOK, CountersOK
  <2>7. QED
    BY <2>3, <2>4, <2>5, <2>6 DEF Tally
<1>2. CASE ExecLoop(w)
  <2>1. PICK to \in {"exit", "take", "lock"} : Goto(w, "loop", to)
    BY <1>2 DEF ExecLoop
  <2>2. KindsOK' /\ pc' \in [Threads -> PushPC \union ExecPC \union {"ready"}]
    BY <2>1, MovedKinds DEF Threads, PushPC
  <2>3. \A t \in Threads : \A set \in Counted : pc[t] \in set <=> pc'[t] \in set
    BY <2>1 DEF Goto, IInv, TypeOK, Counted
  <2>4. QED
    BY <1>2, <2>2, <2>3, TallyKept DEF ExecLoop, bounds, IInv, TypeOK
<1>3. CASE ExecTake(w)
  <2>a. CASE Goto(w, "take", "loop") /\ UNCHANGED ring
    <3>1. KindsOK' /\ pc' \in [Threads -> PushPC \union ExecPC \union {"ready"}]
      BY <2>a, MovedKinds DEF Threads
    <3>2. \A t \in Threads : \A set \in Counted : pc[t] \in set <=> pc'[t] \in set
      BY <2>a DEF Goto, IInv, TypeOK, Counted
    <3>3. QED
      BY <1>3, <2>a, <3>1, <3>2, TallyKept DEF ExecTake, bounds, IInv, TypeOK
  <2>b. CASE ring # 0 /\ Goto(w, "take", "uncount") /\ ring' = ring - 1
    <3>1. CountsMoved("take", "uncount")
      BY <2>b, Recounted DEF IInv, Threads
    <3>2. CountersOK'
      BY <1>3, <1>n, <3>1 DEF ExecTake, counters, IInv, CountersOK, CountsMoved, Counted
    <3>3. Conserved'
      BY <1>3, <1>n, <2>b, <3>1 DEF ExecTake, counters, bounds, IInv, TypeOK, Conserved, CountsMoved, Counted
    <3>4. KindsOK' /\ pc' \in [Threads -> PushPC \union ExecPC \union {"ready"}]
      BY <2>b, MovedKinds DEF Threads
    <3>5. TypeOK'
      <4>1. ring' \in 0 .. QSpace - 1
        BY <2>b, SpaceAssumption DEF IInv, TypeOK
      <4>2. QED
        BY <1>3, <3>4, <4>1 DEF ExecTake, counters, bounds, IInv, TypeOK
    <3>6. QED
      BY <3>2, <3>3, <3>4, <3>5 DEF Tally
  <2>c. QED
    BY <1>3, <2>a, <2>b DEF ExecTake
<1>4. CASE ExecUncount(w)
  <2>1. Goto(w, "uncount", "work")
    BY <1>4 DEF ExecUncount
  <2>2. CountsMoved("uncount", "work")
    BY <2>1, Recounted DEF IInv, Threads
  <2>3. CountersOK'
    BY <1>4, <1>n, <2>2 DEF ExecUncount, IInv, CountersOK, CountsMoved, Counted
  <2>4. Conserved'
    BY <1>4, <1>n, <2>2 DEF ExecUncount, bounds, IInv, TypeOK, CountersOK, Conserved, CountsMoved, Counted
  <2>5. KindsOK' /\ pc' \in [Threads -> PushPC \union ExecPC \union {"ready"}]
    BY <2>1, MovedKinds DEF Threads
  <2>6. TypeOK'
    BY <1>4, <1>n, <2>3, <2>5 DEF ExecUncount, bounds, IInv, TypeOK, CountersOK
  <2>7. QED
    BY <2>3, <2>4, <2>5, <2>6 DEF Tally
<1>5. CASE ExecWork(w)
  <2>1. Goto(w, "work", "proc")
    BY <1>5 DEF ExecWork
  <2>2. CountsMoved("work", "proc")
    BY <2>1, Recounted DEF IInv, Threads
  <2>3. CountersOK'
    BY <1>5, <1>n, <2>2 DEF ExecWork, IInv, CountersOK, CountsMoved, Counted
  <2>4. Conserved'
    BY <1>5, <1>n, <2>2 DEF ExecWork, bounds, IInv, TypeOK, CountersOK, Conserved, CountsMoved, Counted
  <2>5. KindsOK' /\ pc' \in [Threads -> PushPC \union ExecPC \union {"ready"}]
    BY <2>1, MovedKinds DEF Threads
  <2>6. TypeOK'
    BY <1>5, <1>n, <2>3, <2>5 DEF ExecWork, bounds, IInv, TypeOK, CountersOK
  <2>7. QED
    BY <2>3, <2>4, <2>5, <2>6 DEF Tally
<1>6. CASE ExecDone(w)
  <2>1. Goto(w, "proc", "rest")
    BY <1>6 DEF ExecDone
  <2>2. CountsMoved("proc", "rest")
    BY <2>1, Recounted DEF IInv, Threads
  <2>3. CountersOK'
    BY <1>6, <1>n, <2>2 DEF ExecDone, IInv, CountersOK, CountsMoved, Counted
  <2>4. Conserved'
    BY <1>6, <1>n, <2>2 DEF ExecDone, bounds, IInv, TypeOK, CountersOK, Conserved, CountsMoved, Counted
  <2>5. KindsOK' /\ pc' \in [Threads -> PushPC \union ExecPC \union {"ready"}]
    BY <2>1, MovedKinds DEF Threads
  <2>6. TypeOK'
    BY <1>6, <1>n, <2>3, <2>5 DEF ExecDone, bounds, IInv, TypeOK, CountersOK
  <2>7. QED
    BY <2>3, <2>4, <2>5, <2>6 DEF Tally
<1>7. CASE ExecRest(w)
  <2>1. Goto(w, "rest", "loop")
    BY <1>7 DEF ExecRest
  <2>2. CountsMoved("rest", "loop")
    BY <2>1, Recounted DEF IInv, Threads
  <2>3. CountersOK'
    BY <1>7, <1>n, <2>2 DEF ExecRest, IInv, CountersOK, CountsMoved, Counted
  <2>4. Conserved'
    BY <1>7, <1>n, <2>2 DEF ExecRest, bounds, IInv, TypeOK, CountersOK, Conserved, CountsMoved, Counted
  <2>5. KindsOK' /\ pc' \in [Threads -> PushPC \union ExecPC \union {"ready"}]
    BY <2>1, MovedKinds DEF Threads
  <2>6. TypeOK'
    BY <1>7, <1>n, <2>3, <2>5 DEF ExecRest, bounds, IInv, TypeOK, CountersOK
  <2>7. QED
    BY <2>3, <2>4, <2>5, <2>6 DEF Tally
<1>8. CASE ExecExit(w)
  <2>1. Goto(w, "exit", "exited")
    BY <1>8 DEF ExecExit
  <2>2. CountsMoved("exit", "exited")
    BY <2>1, Recounted DEF IInv, Threads
  <2>3. CountersOK'
    BY <1>8, <1>n, <2>2 DEF ExecExit, IInv, CountersOK, CountsMoved, Counted
  <2>4. Conserved'
    BY <1>8, <1>n, <2>2 DEF ExecExit, bounds, IInv, TypeOK, CountersOK, Conserved, CountsMoved, Counted
  <2>5. KindsOK' /\ pc' \in [Threads -> PushPC \union ExecPC \union {"ready"}]
    BY <2>1, MovedKinds DEF Threads
  <2>6. TypeOK'
    BY <1>8, <1>n, <2>3, <2>5 DEF ExecExit, bounds, IInv, TypeOK, CountersOK
  <2>7. QED
    BY <2>3, <2>4, <2>5, <2>6 DEF Tally
<1>9. CASE ExecExited(w)
  <2>1. Goto(w, "exited", "gone")
    BY <1>9 DEF ExecExited
  <2>2. CountsMoved("exited", "gone")
    BY <2>1, Recounted DEF IInv, Threads
  <2>3. CountersOK'
    BY <1>9, <1>n, <2>2 DEF ExecExited, IInv, TypeOK, CountersOK, CountsMoved, Counted
  <2>4. Conserved'
    BY <1>9, <1>n, <2>2 DEF ExecExited, bounds, IInv, TypeOK, CountersOK, Conserved, CountsMoved, Counted
  <2>5. KindsOK' /\ pc' \in [Threads -> PushPC \union ExecPC \union {"ready"}]
    BY <2>1, MovedKinds DEF Threads
  <2>6. TypeOK'
    BY <1>9, <1>n, <2>3, <2>5 DEF ExecExited, bounds, IInv, TypeOK, CountersOK
  <2>7. QED
    BY <2>3, <2>4, <2>5, <2>6 DEF Tally
<1>10. CASE PauseLock(w)
  <2>1. Goto(w, "lock", "sleepy")
    BY <1>10 DEF PauseLock
  <2>2. KindsOK' /\ pc' \in [Threads -> PushPC \union ExecPC \union {"ready"}]
    BY <2>1, MovedKinds DEF Threads, PushPC
  <2>3. \A t \in Threads : \A set \in Counted : pc[t] \in set <=> pc'[t] \in set
    BY <2>1 DEF Goto, IInv, TypeOK, Counted
  <2>4. QED
    BY <1>10, <2>2, <2>3, TallyKept DEF PauseLock, bounds, IInv, TypeOK
<1>11. CASE PauseInactive(w)
  <2>1. Goto(w, "sleepy", "idle")
    BY <1>11 DEF PauseInactive
  <2>2. CountsMoved("sleepy", "idle")
    BY <2>1, Recounted DEF IInv, Threads
  <2>3. CountersOK'
    BY <1>11, <1>n, <2>2 DEF PauseInactive, IInv, CountersOK, CountsMoved, Counted
  <2>4. Conserved'
    BY <1>11, <1>n, <2>2 DEF PauseInactive, bounds, IInv, TypeOK, CountersOK, Conserved, CountsMoved, Counted
  <2>5. KindsOK' /\ pc' \in [Threads -> PushPC \union ExecPC \union {"ready"}]
    BY <2>1, MovedKinds DEF Threads
  <2>6. TypeOK'
    BY <1>11, <1>n, <2>3, <2>5 DEF PauseInactive, bounds, IInv, TypeOK, CountersOK
  <2>7. QED
    BY <2>3, <2>4, <2>5, <2>6 DEF Tally
<1>12. CASE PauseIdle(w)
  <2>1. PICK to \in {"load", "leave"} : Goto(w, "idle", to)
    BY <1>12 DEF PauseIdle
  <2>2. KindsOK' /\ pc' \in [Threads -> PushPC \union ExecPC \union {"ready"}]
    BY <2>1, MovedKinds DEF Threads, PushPC
  <2>3. \A t \in Threads : \A set \in Counted : pc[t] \in set <=> pc'[t] \in set
    BY <2>1 DEF Goto, IInv, TypeOK, Counted
  <2>4. QED
    BY <1>12, <2>2, <2>3, TallyKept DEF PauseIdle, bounds, IInv, TypeOK
<1>13. CASE PauseLoad(w)
  <2>1. Goto(w, "load", "compare")
    BY <1>13 DEF PauseLoad
  <2>2. KindsOK' /\ pc' \in [Threads -> PushPC \union ExecPC \union {"ready"}]
    BY <2>1, MovedKinds DEF Threads, PushPC
  <2>3. \A t \in Threads : \A set \in Counted : pc[t] \in set <=> pc'[t] \in set
    BY <2>1 DEF Goto, IInv, TypeOK, Counted
  <2>4. QED
    BY <1>13, <2>2, <2>3, TallyKept DEF PauseLoad, bounds, IInv, TypeOK
<1>14. CASE PauseCompare(w)
  <2>1. PICK to \in {"wait", "leave"} : Goto(w, "compare", to)
    BY <1>14 DEF PauseCompare
  <2>2. KindsOK' /\ pc' \in [Threads -> PushPC \union ExecPC \union {"ready"}]
    BY <2>1, MovedKinds DEF Threads, PushPC
  <2>3. \A t \in Threads : \A set \in Counted : pc[t] \in set <=> pc'[t] \in set
    BY <2>1 DEF Goto, IInv, TypeOK, Counted
  <2>4. QED
    BY <1>14, <2>2, <2>3, TallyKept DEF PauseCompare, bounds, IInv, TypeOK
<1>15. CASE PauseSpurious(w)
  <2>1. Goto(w, "wait", "woken")
    BY <1>15 DEF PauseSpurious
  <2>2. KindsOK' /\ pc' \in [Threads -> PushPC \union ExecPC \union {"ready"}]
    BY <2>1, MovedKinds DEF Threads, PushPC
  <2>3. \A t \in Threads : \A set \in Counted : pc[t] \in set <=> pc'[t] \in set
    BY <2>1 DEF Goto, IInv, TypeOK, Counted
  <2>4. QED
    BY <1>15, <2>2, <2>3, TallyKept DEF PauseSpurious, bounds, IInv, TypeOK
<1>16. CASE PauseReacquire(w)
  <2>1. Goto(w, "woken", "leave")
    BY <1>16 DEF PauseReacquire
  <2>2. KindsOK' /\ pc' \in [Threads -> PushPC \union ExecPC \union {"ready"}]
    BY <2>1, MovedKinds DEF Threads, PushPC
  <2>3. \A t \in Threads : \A set \in Counted : pc[t] \in set <=> pc'[t] \in set
    BY <2>1 DEF Goto, IInv, TypeOK, Counted
  <2>4. QED
    BY <1>16, <2>2, <2>3, TallyKept DEF PauseReacquire, bounds, IInv, TypeOK
<1>17. CASE PauseLeave(w)
  <2>1. Goto(w, "leave", "loop")
    BY <1>17 DEF PauseLeave
  <2>2. CountsMoved("leave", "loop")
    BY <2>1, Recounted DEF IInv, Threads
  <2>3. CountersOK'
    BY <1>17, <1>n, <2>2 DEF PauseLeave, IInv, CountersOK, CountsMoved, Counted
  <2>4. Conserved'
    BY <1>17, <1>n, <2>2 DEF PauseLeave, bounds, IInv, TypeOK, CountersOK, Conserved, CountsMoved, Counted
  <2>5. KindsOK' /\ pc' \in [Threads -> PushPC \union ExecPC \union {"ready"}]
    BY <2>1, MovedKinds DEF Threads
  <2>6. TypeOK'
    BY <1>17, <1>n, <2>3, <2>5 DEF PauseLeave, bounds, IInv, TypeOK, CountersOK
  <2>7. QED
    BY <2>3, <2>4, <2>5, <2>6 DEF Tally
<1>18. QED
  BY <1>1, <1>2, <1>3, <1>4, <1>5, <1>6, <1>7, <1>8, <1>9, <1>10, <1>11, <1>12, <1>13, <1>14, <1>15, <1>16, <1>17 DEF Exec

(***************************************************************************)
(* The counters, for a step of a producer.                                 *)
(***************************************************************************)
LEMMA TallyPush ==
  ASSUME IInv, RoomStep, NEW p \in Producers, Push(p)
  PROVE  Tally'
<1> USE DEF In, InactivePC, WorkingPC, ActivePC, UnderwayPC, ExecPC
<1>n. \A set : Count(pc, set) \in Nat /\ Count(pc', set) \in Nat
  BY CountsAreNat
<1>1. CASE PushAttempt(p)
  <2>1. Goto(p, "ready", "full")
    BY <1>1 DEF PushAttempt
  <2>2. CountsMoved("ready", "full")
    BY <2>1, Recounted DEF IInv, Threads
  <2>3. CountersOK'
    BY <1>1, <1>n, <2>2 DEF PushAttempt, IInv, CountersOK, CountsMoved, Counted
  <2>4. Conserved'
    BY <1>1, <1>n, <2>2 DEF PushAttempt, bounds, IInv, TypeOK, CountersOK, Conserved, CountsMoved, Counted
  <2>5. KindsOK' /\ pc' \in [Threads -> PushPC \union ExecPC \union {"ready"}]
    BY <2>1, MovedKinds DEF Threads, PushPC
  <2>6. TypeOK'
    BY <1>1, <1>n, <2>3, <2>5 DEF PushAttempt, bounds, IInv, TypeOK, CountersOK
  <2>7. QED
    BY <2>3, <2>4, <2>5, <2>6 DEF Tally
<1>2. CASE PushRoom(p)
  <2>1. Goto(p, "full", "publish")
    BY <1>2 DEF PushRoom
  <2>2. KindsOK' /\ pc' \in [Threads -> PushPC \union ExecPC \union {"ready"}]
    BY <2>1, MovedKinds DEF Threads, PushPC
  <2>3. \A t \in Threads : \A set \in Counted : pc[t] \in set <=> pc'[t] \in set
    BY <2>1 DEF Goto, IInv, TypeOK, Counted
  <2>4. QED
    BY <1>2, <2>2, <2>3, TallyKept DEF PushRoom, bounds, IInv, TypeOK
<1>3. CASE PushPublish(p)
  <2>1. Goto(p, "publish", "count")
    BY <1>3 DEF PushPublish
  <2>0. /\ ring' = ring + 1 /\ ring' \in 0 .. QSpace - 1 /\ ring \in Nat
        /\ UNCHANGED <<counters, bounds>>
    BY <1>3, SpaceAssumption DEF PushPublish, RoomStep, IInv, TypeOK
  <2>2. CountsMoved("publish", "count")
    BY <2>1, Recounted DEF IInv, Threads
  <2>3. CountersOK'
    BY <1>3, <1>n, <2>2 DEF PushPublish, counters, IInv, CountersOK, CountsMoved, Counted
  <2>4. Conserved'
    BY <1>n, <2>0, <2>2 DEF counters, bounds, IInv, TypeOK, Conserved, CountsMoved, Counted
  <2>5. KindsOK' /\ pc' \in [Threads -> PushPC \union ExecPC \union {"ready"}]
    BY <2>1, MovedKinds DEF Threads, PushPC
  <2>6. TypeOK'
    BY <1>3, <1>n, <2>0, <2>3, <2>5 DEF PushPublish, counters, bounds, IInv, TypeOK, CountersOK
  <2>7. QED
    BY <2>3, <2>4, <2>5, <2>6 DEF Tally
<1>4. CASE PushCount(p)
  <2>1. PICK to \in {"spawn", "ready"} : Goto(p, "count", to)
    BY <1>4 DEF PushCount
  <2>2. CountsMoved("count", to)
    BY <2>1, Recounted DEF IInv, Threads
  <2>3. CountersOK'
    BY <1>4, <1>n, <2>2 DEF PushCount, IInv, CountersOK, CountsMoved, Counted
  <2>4. Conserved'
    BY <1>4, <1>n, <2>2 DEF PushCount, bounds, IInv, TypeOK, CountersOK, Conserved, CountsMoved, Counted
  <2>5. KindsOK' /\ pc' \in [Threads -> PushPC \union ExecPC \union {"ready"}]
    BY <2>1, MovedKinds DEF Threads, PushPC
  <2>6. TypeOK'
    BY <1>4, <1>n, <2>3, <2>5 DEF PushCount, bounds, IInv, TypeOK, CountersOK
  <2>7. QED
    BY <2>3, <2>4, <2>5, <2>6 DEF Tally
<1>5. CASE PushSpawn(p)
  <2>a. CASE Goto(p, "spawn", "allAsleep")
    <3>1. KindsOK' /\ pc' \in [Threads -> PushPC \union ExecPC \union {"ready"}]
      BY <2>a, MovedKinds DEF Threads, PushPC
    <3>2. \A t \in Threads : \A set \in Counted : pc[t] \in set <=> pc'[t] \in set
      BY <2>a DEF Goto, IInv, TypeOK, Counted
    <3>3. QED
      BY <1>5, <3>1, <3>2, TallyKept DEF PushSpawn, bounds, IInv, TypeOK
  <2>b. CASE pc[p] = "spawn" /\ \E w \in Workers :
                pc[w] = "none" /\ pc' = [pc EXCEPT ![p] = "ready", ![w] = "start"]
    <3>1. PICK w \in Workers : pc[w] = "none" /\ pc' = [pc EXCEPT ![p] = "ready", ![w] = "start"]
      BY <2>b
    <3>0. pc[p] = "spawn" /\ pc[w] = "none"
      BY <2>b, <3>1
    <3>2. \A t \in Threads : pc'[t] = IF t = w THEN "start" ELSE IF t = p THEN "ready" ELSE pc[t]
      BY <3>1 DEF IInv, TypeOK
    <3>3. pc' \in [Threads -> PushPC \union ExecPC \union {"ready"}]
      BY <3>1 DEF IInv, TypeOK
    <3>4. KindsOK'
      BY <3>2, PoolAssumption DEF IInv, KindsOK, Threads
    <3>5. \A t \in Threads : \A set \in Counted : pc[t] \in set <=> pc'[t] \in set
      <4>1. \A t \in Threads : \/ pc'[t] = pc[t]
                               \/ pc[t] = "none" /\ pc'[t] = "start"
                               \/ pc[t] = "spawn" /\ pc'[t] = "ready"
        BY <3>0, <3>2
      <4>2. QED
        BY <4>1 DEF Counted
    <3>6. QED
      BY <1>5, <3>3, <3>4, <3>5, TallyKept DEF PushSpawn, bounds, IInv, TypeOK
  <2>c. QED
    BY <1>5, <2>a, <2>b DEF PushSpawn
<1>6. CASE PushAllAsleep(p)
  <2>1. PICK to \in {"anyAsleep", "backlog"} : Goto(p, "allAsleep", to)
    BY <1>6 DEF PushAllAsleep
  <2>2. KindsOK' /\ pc' \in [Threads -> PushPC \union ExecPC \union {"ready"}]
    BY <2>1, MovedKinds DEF Threads, PushPC
  <2>3. \A t \in Threads : \A set \in Counted : pc[t] \in set <=> pc'[t] \in set
    BY <2>1 DEF Goto, IInv, TypeOK, Counted
  <2>4. QED
    BY <1>6, <2>2, <2>3, TallyKept DEF PushAllAsleep, bounds, IInv, TypeOK
<1>7. CASE PushBacklog(p)
  <2>1. PICK to \in {"anyAsleep", "ready"} : Goto(p, "backlog", to)
    BY <1>7 DEF PushBacklog
  <2>2. KindsOK' /\ pc' \in [Threads -> PushPC \union ExecPC \union {"ready"}]
    BY <2>1, MovedKinds DEF Threads, PushPC
  <2>3. \A t \in Threads : \A set \in Counted : pc[t] \in set <=> pc'[t] \in set
    BY <2>1 DEF Goto, IInv, TypeOK, Counted
  <2>4. QED
    BY <1>7, <2>2, <2>3, TallyKept DEF PushBacklog, bounds, IInv, TypeOK
<1>8. CASE ResumeAnyAsleep(p)
  <2>1. PICK to \in {"ready", "signal"} : Goto(p, "anyAsleep", to)
    BY <1>8 DEF ResumeAnyAsleep
  <2>2. KindsOK' /\ pc' \in [Threads -> PushPC \union ExecPC \union {"ready"}]
    BY <2>1, MovedKinds DEF Threads, PushPC
  <2>3. \A t \in Threads : \A set \in Counted : pc[t] \in set <=> pc'[t] \in set
    BY <2>1 DEF Goto, IInv, TypeOK, Counted
  <2>4. QED
    BY <1>8, <2>2, <2>3, TallyKept DEF ResumeAnyAsleep, bounds, IInv, TypeOK
<1>9. CASE ResumeSignal(p)
  <2>1. \A t \in Threads : \/ pc'[t] = pc[t]
                           \/ t = p /\ pc[t] = "signal" /\ pc'[t] = "ready"
                           \/ t \in Workers /\ pc[t] = "wait" /\ pc'[t] = "woken"
    <3>1. pc[p] = "signal"
      BY <1>9 DEF ResumeSignal, SignalUnlocked
    <3>2. CASE pc' = [pc EXCEPT ![p] = "ready"]
      BY <3>1, <3>2 DEF IInv, TypeOK
    <3>3. CASE \E w \in Waiting : pc' = [pc EXCEPT ![p] = "ready", ![w] = "woken"]
      <4>1. PICK w \in Waiting : pc' = [pc EXCEPT ![p] = "ready", ![w] = "woken"]
        BY <3>3
      <4>2. \A t \in Threads : pc'[t] = IF t = w THEN "woken" ELSE IF t = p THEN "ready" ELSE pc[t]
        BY <4>1 DEF IInv, TypeOK
      <4>3. w \in Workers /\ pc[w] = "wait"
        BY <4>1 DEF Waiting
      <4>4. QED
        BY <3>1, <4>2, <4>3
    <3>4. QED
      BY <1>9, <3>2, <3>3 DEF ResumeSignal, SignalUnlocked
  <2>2. pc' \in [Threads -> PushPC \union ExecPC \union {"ready"}]
    BY <1>9 DEF ResumeSignal, SignalUnlocked, IInv, TypeOK
  <2>3. KindsOK'
    BY <2>1, PoolAssumption DEF IInv, KindsOK, Threads
  <2>4. \A t \in Threads : \A set \in Counted : pc[t] \in set <=> pc'[t] \in set
    BY <2>1 DEF Counted
  <2>5. QED
    BY <1>9, <2>2, <2>3, <2>4, TallyKept DEF ResumeSignal, SignalUnlocked, bounds, IInv, TypeOK
<1>10. QED
  BY <1>1, <1>2, <1>3, <1>4, <1>5, <1>6, <1>7, <1>8, <1>9 DEF Push

(***************************************************************************)
(* The counters, for a step of xs_queue_destroy.                           *)
(***************************************************************************)
LEMMA TallyDestroy ==
  ASSUME IInv, DestroyStop \/ Destroy
  PROVE  Tally'
<1>1. \A t \in Threads : pc'[t] = pc[t] \/ (t \in Workers /\ pc[t] = "wait" /\ pc'[t] = "woken")
  BY DEF DestroyStop, Destroy, DestroyBroadcast, DestroyWaited, DestroyFree, Waiting, IInv, TypeOK
<1>2. pc' \in [Threads -> PushPC \union ExecPC \union {"ready"}]
  BY DEF DestroyStop, Destroy, DestroyBroadcast, DestroyWaited, DestroyFree, IInv, TypeOK, ExecPC
<1>3. KindsOK'
  BY <1>1, PoolAssumption DEF IInv, KindsOK, Threads, ExecPC
<1>4. \A t \in Threads : \A set \in Counted : pc[t] \in set <=> pc'[t] \in set
  BY <1>1 DEF Counted, InactivePC, WorkingPC, ActivePC, UnderwayPC, ExecPC
<1>5. QED
  BY <1>2, <1>3, <1>4, TallyKept
     DEF DestroyStop, Destroy, DestroyBroadcast, DestroyWaited, DestroyFree, counters, bounds, IInv, TypeOK

-----------------------------------------------------------------------------
(***************************************************************************)
(* The mutex, the owner and the size of the pool.                          *)
(***************************************************************************)

\* What a push does to the other threads.
LEMMA PushMoves ==
  ASSUME IInv, NEW p \in Producers, Push(p)
  PROVE  /\ \A t \in Threads \ {p} :
              \/ pc'[t] = pc[t]
              \/ t \in Workers /\ pc[t] = "none" /\ pc'[t] = "start"
              \/ t \in Workers /\ pc[t] = "wait" /\ pc'[t] = "woken"
         /\ owner = "using"
         /\ UNCHANGED <<qActive, qInactive, qWorking, qProcessed, qIsRunning, mutex, attempt, owner>>
<1>1. CASE PushAttempt(p) \/ PushRoom(p) \/ PushPublish(p) \/ PushCount(p)
           \/ PushAllAsleep(p) \/ PushBacklog(p) \/ ResumeAnyAsleep(p)
  BY <1>1 DEF PushAttempt, PushRoom, PushPublish, PushCount, PushAllAsleep, PushBacklog,
              ResumeAnyAsleep, Goto, counters, IInv, TypeOK, OwnerOK
<1>2. CASE PushSpawn(p)
  BY <1>2 DEF PushSpawn, Goto, counters, IInv, TypeOK, OwnerOK
<1>3. CASE ResumeSignal(p)
  BY <1>3 DEF ResumeSignal, SignalUnlocked, Waiting, counters, IInv, TypeOK, OwnerOK
<1>4. QED
  BY <1>1, <1>2, <1>3 DEF Push

\* A thread of the pool moves nobody else, and pushes nothing.
LEMMA ExecMoves ==
  ASSUME IInv, NEW w \in Workers, Exec(w) \/ PauseSpurious(w)
  PROVE  /\ \A t \in Threads \ {w} : pc'[t] = pc[t]
         /\ UNCHANGED <<qIsRunning, pushes, owner>>
<1>1. CASE ExecStart(w)
  BY <1>1 DEF ExecStart, Goto, bounds, IInv, TypeOK
<1>2. CASE ExecLoop(w)
  BY <1>2 DEF ExecLoop, Goto, bounds, IInv, TypeOK
<1>3. CASE ExecTake(w)
  BY <1>3 DEF ExecTake, Goto, bounds, IInv, TypeOK
<1>4. CASE ExecUncount(w)
  BY <1>4 DEF ExecUncount, Goto, bounds, IInv, TypeOK
<1>5. CASE ExecWork(w)
  BY <1>5 DEF ExecWork, Goto, bounds, IInv, TypeOK
<1>6. CASE ExecDone(w)
  BY <1>6 DEF ExecDone, Goto, bounds, IInv, TypeOK
<1>7. CASE ExecRest(w)
  BY <1>7 DEF ExecRest, Goto, bounds, IInv, TypeOK
<1>8. CASE ExecExit(w)
  BY <1>8 DEF ExecExit, Goto, bounds, IInv, TypeOK
<1>9. CASE ExecExited(w)
  BY <1>9 DEF ExecExited, Goto, bounds, IInv, TypeOK
<1>10. CASE PauseLock(w)
  BY <1>10 DEF PauseLock, Goto, bounds, IInv, TypeOK
<1>11. CASE PauseInactive(w)
  BY <1>11 DEF PauseInactive, Goto, bounds, IInv, TypeOK
<1>12. CASE PauseIdle(w)
  BY <1>12 DEF PauseIdle, Goto, bounds, IInv, TypeOK
<1>13. CASE PauseLoad(w)
  BY <1>13 DEF PauseLoad, Goto, bounds, IInv, TypeOK
<1>14. CASE PauseCompare(w)
  BY <1>14 DEF PauseCompare, Goto, bounds, IInv, TypeOK
<1>15. CASE PauseSpurious(w)
  BY <1>15 DEF PauseSpurious, Goto, bounds, IInv, TypeOK
<1>16. CASE PauseReacquire(w)
  BY <1>16 DEF PauseReacquire, Goto, bounds, IInv, TypeOK
<1>17. CASE PauseLeave(w)
  BY <1>17 DEF PauseLeave, Goto, bounds, IInv, TypeOK
<1>18. QED
  BY <1>1, <1>2, <1>3, <1>4, <1>5, <1>6, <1>7, <1>8, <1>9, <1>10, <1>11, <1>12, <1>13, <1>14, <1>15, <1>16, <1>17 DEF Exec

\* The mutex is held by a thread that has locked it and not released it.
LEMMA MutexStep ==
  ASSUME IInv, NEW w \in Workers, Exec(w) \/ PauseSpurious(w)
  PROVE  MutexOK'
<1>m. w \in Threads /\ w # Nobody
  BY NobodyAssumption DEF Threads
<1>o. \A t \in Workers : t # w => pc'[t] = pc[t]
  BY ExecMoves DEF Threads
<1>1. CASE ExecStart(w)
  BY <1>1, <1>m, <1>o, NobodyAssumption DEF ExecStart, Goto, HoldPC, IInv, TypeOK, MutexOK, Threads
<1>2. CASE ExecLoop(w)
  BY <1>2, <1>m, <1>o, NobodyAssumption DEF ExecLoop, Goto, HoldPC, IInv, TypeOK, MutexOK, Threads
<1>3. CASE ExecTake(w)
  BY <1>3, <1>m, <1>o, NobodyAssumption DEF ExecTake, Goto, HoldPC, IInv, TypeOK, MutexOK, Threads
<1>4. CASE ExecUncount(w)
  BY <1>4, <1>m, <1>o, NobodyAssumption DEF ExecUncount, Goto, HoldPC, IInv, TypeOK, MutexOK, Threads
<1>5. CASE ExecWork(w)
  BY <1>5, <1>m, <1>o, NobodyAssumption DEF ExecWork, Goto, HoldPC, IInv, TypeOK, MutexOK, Threads
<1>6. CASE ExecDone(w)
  BY <1>6, <1>m, <1>o, NobodyAssumption DEF ExecDone, Goto, HoldPC, IInv, TypeOK, MutexOK, Threads
<1>7. CASE ExecRest(w)
  BY <1>7, <1>m, <1>o, NobodyAssumption DEF ExecRest, Goto, HoldPC, IInv, TypeOK, MutexOK, Threads
<1>8. CASE ExecExit(w)
  BY <1>8, <1>m, <1>o, NobodyAssumption DEF ExecExit, Goto, HoldPC, IInv, TypeOK, MutexOK, Threads
<1>9. CASE ExecExited(w)
  BY <1>9, <1>m, <1>o, NobodyAssumption DEF ExecExited, Goto, HoldPC, IInv, TypeOK, MutexOK, Threads
<1>10. CASE PauseLock(w)
  BY <1>10, <1>m, <1>o, NobodyAssumption DEF PauseLock, Goto, HoldPC, IInv, TypeOK, MutexOK, Threads
<1>11. CASE PauseInactive(w)
  BY <1>11, <1>m, <1>o, NobodyAssumption DEF PauseInactive, Goto, HoldPC, IInv, TypeOK, MutexOK, Threads
<1>12. CASE PauseIdle(w)
  BY <1>12, <1>m, <1>o, NobodyAssumption DEF PauseIdle, Goto, HoldPC, IInv, TypeOK, MutexOK, Threads
<1>13. CASE PauseLoad(w)
  BY <1>13, <1>m, <1>o, NobodyAssumption DEF PauseLoad, Goto, HoldPC, IInv, TypeOK, MutexOK, Threads
<1>14. CASE PauseCompare(w)
  BY <1>14, <1>m, <1>o, NobodyAssumption DEF PauseCompare, Goto, HoldPC, IInv, TypeOK, MutexOK, Threads
<1>15. CASE PauseSpurious(w)
  BY <1>15, <1>m, <1>o, NobodyAssumption DEF PauseSpurious, Goto, HoldPC, IInv, TypeOK, MutexOK, Threads
<1>16. CASE PauseReacquire(w)
  BY <1>16, <1>m, <1>o, NobodyAssumption DEF PauseReacquire, Goto, HoldPC, IInv, TypeOK, MutexOK, Threads
<1>17. CASE PauseLeave(w)
  BY <1>17, <1>m, <1>o, NobodyAssumption DEF PauseLeave, Goto, HoldPC, IInv, TypeOK, MutexOK, Threads
<1>18. QED
  BY <1>1, <1>2, <1>3, <1>4, <1>5, <1>6, <1>7, <1>8, <1>9, <1>10, <1>11, <1>12, <1>13, <1>14, <1>15, <1>16, <1>17 DEF Exec

\* Threads leave the pool only when the owner destroys the queue, and nobody
\* is inside pop, qProc or pause once they have all been waited for.
LEMMA OwnerStep ==
  ASSUME IInv, NEW w \in Workers, Exec(w) \/ PauseSpurious(w)
  PROVE  OwnerOK'
<1>m. /\ \A t \in Workers : t # w => pc'[t] = pc[t]
      /\ \A p \in Producers : pc'[p] = pc[p]
      /\ UNCHANGED <<qIsRunning, owner>>
  BY ExecMoves, PoolAssumption DEF Threads
<1>1. /\ owner = "using" => pc'[w] \notin {"exit", "exited", "gone"}
      /\ owner \in {"stopped", "destroyed"} => pc'[w] \in QuietPC
  <2>1. CASE ExecStart(w)
    BY <2>1 DEF ExecStart, Goto, QuietPC, IInv, TypeOK, OwnerOK, Threads
  <2>2. CASE ExecLoop(w)
    BY <2>2 DEF ExecLoop, Goto, QuietPC, IInv, TypeOK, OwnerOK, Threads
  <2>3. CASE ExecTake(w)
    BY <2>3 DEF ExecTake, Goto, QuietPC, IInv, TypeOK, OwnerOK, Threads
  <2>4. CASE ExecUncount(w)
    BY <2>4 DEF ExecUncount, Goto, QuietPC, IInv, TypeOK, OwnerOK, Threads
  <2>5. CASE ExecWork(w)
    BY <2>5 DEF ExecWork, Goto, QuietPC, IInv, TypeOK, OwnerOK, Threads
  <2>6. CASE ExecDone(w)
    BY <2>6 DEF ExecDone, Goto, QuietPC, IInv, TypeOK, OwnerOK, Threads
  <2>7. CASE ExecRest(w)
    BY <2>7 DEF ExecRest, Goto, QuietPC, IInv, TypeOK, OwnerOK, Threads
  <2>8. CASE ExecExit(w)
    BY <2>8 DEF ExecExit, Goto, QuietPC, IInv, TypeOK, OwnerOK, Threads
  <2>9. CASE ExecExited(w)
    BY <2>9 DEF ExecExited, Goto, QuietPC, IInv, TypeOK, OwnerOK, Threads
  <2>10. CASE PauseLock(w)
    BY <2>10 DEF PauseLock, Goto, QuietPC, IInv, TypeOK, OwnerOK, Threads
  <2>11. CASE PauseInactive(w)
    BY <2>11 DEF PauseInactive, Goto, QuietPC, IInv, TypeOK, OwnerOK, Threads
  <2>12. CASE PauseIdle(w)
    BY <2>12 DEF PauseIdle, Goto, QuietPC, IInv, TypeOK, OwnerOK, Threads
  <2>13. CASE PauseLoad(w)
    BY <2>13 DEF PauseLoad, Goto, QuietPC, IInv, TypeOK, OwnerOK, Threads
  <2>14. CASE PauseCompare(w)
    BY <2>14 DEF PauseCompare, Goto, QuietPC, IInv, TypeOK, OwnerOK, Threads
  <2>15. CASE PauseSpurious(w)
    BY <2>15 DEF PauseSpurious, Goto, QuietPC, IInv, TypeOK, OwnerOK, Threads
  <2>16. CASE PauseReacquire(w)
    BY <2>16 DEF PauseReacquire, Goto, QuietPC, IInv, TypeOK, OwnerOK, Threads
  <2>17. CASE PauseLeave(w)
    BY <2>17 DEF PauseLeave, Goto, QuietPC, IInv, TypeOK, OwnerOK, Threads
  <2>18. QED
    BY <2>1, <2>2, <2>3, <2>4, <2>5, <2>6, <2>7, <2>8, <2>9, <2>10, <2>11, <2>12, <2>13, <2>14, <2>15, <2>16, <2>17 DEF Exec
<1>2. QED
  BY <1>m, <1>1 DEF IInv, OwnerOK

\* While anybody pushes, no thread leaves the pool.
LEMMA PoolStep ==
  ASSUME IInv, NEW w \in Workers, Exec(w) \/ PauseSpurious(w)
  PROVE  PoolStarted'
<1>m. \A p \in Producers : pc'[p] = pc[p]
  BY ExecMoves, PoolAssumption DEF Threads
<1>1. owner = "using" => qActive' >= qActive
  <2>1. CASE ExecStart(w)
    BY <2>1 DEF ExecStart, Goto, counters, IInv, TypeOK, OwnerOK
  <2>2. CASE ExecLoop(w)
    BY <2>2 DEF ExecLoop, Goto, counters, IInv, TypeOK, OwnerOK
  <2>3. CASE ExecTake(w)
    BY <2>3 DEF ExecTake, Goto, counters, IInv, TypeOK, OwnerOK
  <2>4. CASE ExecUncount(w)
    BY <2>4 DEF ExecUncount, Goto, counters, IInv, TypeOK, OwnerOK
  <2>5. CASE ExecWork(w)
    BY <2>5 DEF ExecWork, Goto, counters, IInv, TypeOK, OwnerOK
  <2>6. CASE ExecDone(w)
    BY <2>6 DEF ExecDone, Goto, counters, IInv, TypeOK, OwnerOK
  <2>7. CASE ExecRest(w)
    BY <2>7 DEF ExecRest, Goto, counters, IInv, TypeOK, OwnerOK
  <2>8. CASE ExecExit(w)
    BY <2>8 DEF ExecExit, Goto, counters, IInv, TypeOK, OwnerOK
  <2>9. CASE ExecExited(w)
    BY <2>9 DEF ExecExited, Goto, counters, IInv, TypeOK, OwnerOK
  <2>10. CASE PauseLock(w)
    BY <2>10 DEF PauseLock, Goto, counters, IInv, TypeOK, OwnerOK
  <2>11. CASE PauseInactive(w)
    BY <2>11 DEF PauseInactive, Goto, counters, IInv, TypeOK, OwnerOK
  <2>12. CASE PauseIdle(w)
    BY <2>12 DEF PauseIdle, Goto, counters, IInv, TypeOK, OwnerOK
  <2>13. CASE PauseLoad(w)
    BY <2>13 DEF PauseLoad, Goto, counters, IInv, TypeOK, OwnerOK
  <2>14. CASE PauseCompare(w)
    BY <2>14 DEF PauseCompare, Goto, counters, IInv, TypeOK, OwnerOK
  <2>15. CASE PauseSpurious(w)
    BY <2>15 DEF PauseSpurious, Goto, counters, IInv, TypeOK, OwnerOK
  <2>16. CASE PauseReacquire(w)
    BY <2>16 DEF PauseReacquire, Goto, counters, IInv, TypeOK, OwnerOK
  <2>17. CASE PauseLeave(w)
    BY <2>17 DEF PauseLeave, Goto, counters, IInv, TypeOK, OwnerOK
  <2>18. QED
    BY <2>1, <2>2, <2>3, <2>4, <2>5, <2>6, <2>7, <2>8, <2>9, <2>10, <2>11, <2>12, <2>13, <2>14, <2>15, <2>16, <2>17 DEF Exec
<1>2. owner # "using" => \A p \in Producers : pc[p] = "ready"
  BY DEF IInv, OwnerOK
<1>3. qActive \in Nat /\ qActive' \in Nat
  BY TallyExec DEF Tally, TypeOK, IInv
<1>4. QED
  BY <1>m, <1>1, <1>2, <1>3 DEF IInv, PoolStarted

-----------------------------------------------------------------------------
(***************************************************************************)
(* The work that is pending.                                               *)
(***************************************************************************)

\* A thread that goes to sleep has seen that everything was processed (122).
LEMMA LookedAfterExec ==
  ASSUME IInv, NEW w \in Workers, Exec(w) \/ PauseSpurious(w)
  PROVE  LookedAfter'
<1>m. /\ \A t \in Workers : t # w => pc'[t] = pc[t]
      /\ \A p \in Producers : pc'[p] = pc[p]
      /\ UNCHANGED <<qIsRunning, pushes, owner>>
  BY ExecMoves, PoolAssumption DEF Threads
<1>t. /\ qProcessed \in Nat /\ qProcessed' \in Nat /\ pushes \in Nat
      /\ attempt \in [Workers -> Nat]
  BY TallyExec DEF Tally, TypeOK, IInv
<1> SUFFICES ASSUME MaxActive # 0, owner = "using", qProcessed' < pushes,
                    \A p \in Producers : pc[p] = "ready"
             PROVE  \E v \in Workers : Awake(v)'
  BY <1>m DEF LookedAfter
<1>1. CASE pc'[w] \notin {"none", "wait", "compare"}
  BY <1>1 DEF Awake
<1>2. CASE PauseLoad(w)
  <2>1. attempt'[w] = pushes
    BY <1>2, <1>t DEF PauseLoad, IInv, Conserved
  <2>2. qProcessed' = qProcessed /\ pc'[w] = "compare"
    BY <1>2 DEF PauseLoad, Goto, counters, IInv, TypeOK, Threads
  <2>3. QED
    BY <2>1, <2>2 DEF Awake
<1>3. CASE PauseCompare(w) /\ pc'[w] = "wait"
  <2>1. UNCHANGED <<qProcessed, attempt>> /\ ~ Awake(w)
    BY <1>3, <1>t DEF PauseCompare, Goto, counters, IInv, TypeOK, Awake
  <2>2. PICK v \in Workers : Awake(v)
    BY <2>1 DEF IInv, LookedAfter
  <2>3. v # w
    BY <2>1, <2>2
  <2>4. QED
    BY <1>m, <2>1, <2>2, <2>3 DEF Awake
<1>4. \/ pc'[w] \notin {"none", "wait", "compare"}
      \/ PauseLoad(w)
      \/ PauseCompare(w) /\ pc'[w] = "wait"
  <2>1. CASE ExecStart(w)
    BY <2>1 DEF ExecStart, Goto, IInv, TypeOK, Threads
  <2>2. CASE ExecLoop(w)
    BY <2>2 DEF ExecLoop, Goto, IInv, TypeOK, Threads
  <2>3. CASE ExecTake(w)
    BY <2>3 DEF ExecTake, Goto, IInv, TypeOK, Threads
  <2>4. CASE ExecUncount(w)
    BY <2>4 DEF ExecUncount, Goto, IInv, TypeOK, Threads
  <2>5. CASE ExecWork(w)
    BY <2>5 DEF ExecWork, Goto, IInv, TypeOK, Threads
  <2>6. CASE ExecDone(w)
    BY <2>6 DEF ExecDone, Goto, IInv, TypeOK, Threads
  <2>7. CASE ExecRest(w)
    BY <2>7 DEF ExecRest, Goto, IInv, TypeOK, Threads
  <2>8. CASE ExecExit(w)
    BY <2>8 DEF ExecExit, Goto, IInv, TypeOK, Threads
  <2>9. CASE ExecExited(w)
    BY <2>9 DEF ExecExited, Goto, IInv, TypeOK, Threads
  <2>10. CASE PauseLock(w)
    BY <2>10 DEF PauseLock, Goto, IInv, TypeOK, Threads
  <2>11. CASE PauseInactive(w)
    BY <2>11 DEF PauseInactive, Goto, IInv, TypeOK, Threads
  <2>12. CASE PauseIdle(w)
    BY <2>12 DEF PauseIdle, Goto, IInv, TypeOK, Threads
  <2>13. CASE PauseLoad(w)
    BY <2>13 DEF PauseLoad, Goto, IInv, TypeOK, Threads
  <2>14. CASE PauseCompare(w)
    BY <2>14 DEF PauseCompare, Goto, IInv, TypeOK, Threads
  <2>15. CASE PauseSpurious(w)
    BY <2>15 DEF PauseSpurious, Goto, IInv, TypeOK, Threads
  <2>16. CASE PauseReacquire(w)
    BY <2>16 DEF PauseReacquire, Goto, IInv, TypeOK, Threads
  <2>17. CASE PauseLeave(w)
    BY <2>17 DEF PauseLeave, Goto, IInv, TypeOK, Threads
  <2>18. QED
    BY <2>1, <2>2, <2>3, <2>4, <2>5, <2>6, <2>7, <2>8, <2>9, <2>10, <2>11, <2>12, <2>13, <2>14, <2>15, <2>16, <2>17 DEF Exec
<1>5. QED
  BY <1>1, <1>2, <1>3, <1>4

\* A push ends without waking a thread only if there is nothing to do, or if
\* a thread is about to test qDepth (244, 251, 252, 137).
LEMMA PushEnds ==
  ASSUME IInv, NEW p \in Producers, Push(p), MaxActive # 0, qProcessed < pushes,
         pc'[p] = "ready",
         \A q \in Producers \ {p} : pc[q] = "ready",
         \A w \in Workers : ~ Awake(w)
  PROVE  \E w \in Workers : Awake(w)'
<1>t. p \in Threads /\ p \notin Workers
  BY PoolAssumption DEF Threads
<1>m. /\ \A w \in Workers : \/ pc'[w] = pc[w]
                            \/ pc[w] = "none" /\ pc'[w] = "start"
                            \/ pc[w] = "wait" /\ pc'[w] = "woken"
      /\ owner = "using"
  BY <1>t, PushMoves DEF Threads
<1>w. \A w \in Workers : pc[w] \in {"none", "wait", "compare"}
  BY DEF Awake
<1>n. \A set : Count(pc, set) \in Nat
  BY CountsAreNat
\* Nobody is awake: all the threads of the pool are asleep or falling asleep.
<1>a. qActive = qInactive
  <2>1. \A t \in Threads : pc[t] \in ActivePC <=> pc[t] \in InactivePC
    BY <1>w DEF Threads, IInv, KindsOK, ActivePC, InactivePC, ExecPC, PushPC
  <2>2. {t \in Threads : pc[t] \in ActivePC} = {t \in Threads : pc[t] \in InactivePC}
    BY <2>1
  <2>3. QED
    BY <2>2 DEF IInv, CountersOK, Count
<1>b. qWorking = 0
  <2>1. \A t \in Threads : pc[t] \notin WorkingPC
    BY <1>w DEF Threads, IInv, KindsOK, WorkingPC, PushPC
  <2>2. CountIn(Threads, pc, WorkingPC) = 0
    BY <2>1, ThreadsFinite, CountZero
  <2>3. QED
    BY <2>2 DEF IInv, CountersOK, Count, CountIn
<1>1. CASE PushSpawn(p)
  <2>1. PICK w \in Workers : pc'[w] = "start"
    BY <1>1, <1>t DEF PushSpawn, Goto, IInv, TypeOK, Threads
  <2>2. QED
    BY <2>1 DEF Awake
<1>2. CASE PushBacklog(p)
  <2>1. pc[p] = "backlog" /\ ~ Backlog
    BY <1>2, <1>t DEF PushBacklog, Goto, IInv, TypeOK
  <2>2. \A t \in Threads : pc[t] \notin UnderwayPC
    BY <1>w, <2>1 DEF Threads, UnderwayPC
  <2>3. \A t \in Threads : pc[t] \notin {"count"}
    BY <1>w, <2>1 DEF Threads
  <2>4. CountIn(Threads, pc, UnderwayPC) = 0 /\ CountIn(Threads, pc, {"count"}) = 0
    BY <2>2, <2>3, ThreadsFinite, CountZero
  <2>5. Count(pc, UnderwayPC) = 0 /\ Count(pc, {"count"}) = 0
    BY <2>4 DEF Count, CountIn
  <2>6. qDepth <= 0
    BY <1>a, <1>b, <2>1 DEF Backlog, IInv, TypeOK
  <2>7. ring \in Nat /\ qProcessed \in Nat /\ pushes \in Nat
    BY DEF IInv, TypeOK
  <2>8. QED
    BY <1>n, <2>5, <2>6, <2>7 DEF IInv, Conserved
<1>3. CASE ResumeAnyAsleep(p)
  <2>1. pc[p] = "anyAsleep" /\ qInactive = 0
    BY <1>3, <1>t DEF ResumeAnyAsleep, Goto, IInv, TypeOK
  <2>2. qActive > 0
    BY <2>1 DEF IInv, PoolStarted
  <2>3. QED
    BY <1>a, <2>1, <2>2
<1>4. CASE ResumeSignal(p)
  <2>1. pc[p] = "signal" /\ mutex = Nobody
    BY <1>4 DEF ResumeSignal, SignalUnlocked
  <2>2. qActive > 0
    BY <2>1 DEF IInv, PoolStarted
  <2>3. \E t \in Threads : pc[t] \in ActivePC
    <3>1. CountIn(Threads, pc, ActivePC) # 0
      BY <2>2 DEF IInv, CountersOK, Count, CountIn, TypeOK
    <3>2. QED
      BY <3>1, ThreadsFinite, CountZero
  <2>4. \A w \in Workers : pc[w] # "compare"
    BY <2>1, NobodyAssumption DEF IInv, MutexOK, HoldPC, Threads
  <2>5. PICK w \in Workers : pc[w] = "wait"
    BY <1>w, <2>3, <2>4 DEF Threads, IInv, KindsOK, ActivePC, ExecPC, PushPC
  <2>6. Waiting # {}
    BY <2>5 DEF Waiting
  <2>7. PICK v \in Waiting : pc' = [pc EXCEPT ![p] = "ready", ![v] = "woken"]
    BY <1>4, <2>6 DEF ResumeSignal, SignalUnlocked
  <2>8. v \in Workers /\ pc'[v] = "woken"
    BY <2>7 DEF Waiting, IInv, TypeOK, Threads
  <2>9. QED
    BY <2>8 DEF Awake
<1>5. QED
  <2>1. pc'[p] # "ready" \/ PushSpawn(p) \/ PushBacklog(p) \/ ResumeAnyAsleep(p) \/ ResumeSignal(p)
    BY <1>t DEF Push, PushAttempt, PushRoom, PushPublish, PushCount, PushAllAsleep, Goto, IInv, TypeOK
  <2>2. QED
    BY <1>1, <1>2, <1>3, <1>4, <2>1

\* What is left to do after a step of a producer is looked after.
LEMMA LookedAfterPush ==
  ASSUME IInv, NEW p \in Producers, Push(p)
  PROVE  LookedAfter'
<1>t. p \in Threads /\ p \notin Workers
  BY PoolAssumption DEF Threads
<1>m. /\ \A t \in Threads \ {p} :
           \/ pc'[t] = pc[t]
           \/ t \in Workers /\ pc[t] = "none" /\ pc'[t] = "start"
           \/ t \in Workers /\ pc[t] = "wait" /\ pc'[t] = "woken"
      /\ UNCHANGED <<qProcessed, attempt>>
  BY PushMoves
<1> SUFFICES ASSUME MaxActive # 0, qProcessed < pushes', \A q \in Producers : pc'[q] = "ready"
             PROVE  \E w \in Workers : Awake(w)'
  BY <1>m DEF LookedAfter
<1>1. ~ PushAttempt(p)
  BY <1>t DEF PushAttempt, Goto, IInv, TypeOK
<1>2. pushes' = pushes
  BY <1>1 DEF Push, PushRoom, PushPublish, PushCount, PushSpawn, PushAllAsleep, PushBacklog,
              ResumeAnyAsleep, ResumeSignal, SignalUnlocked, bounds
<1>3. \A q \in Producers \ {p} : pc[q] = "ready"
  BY <1>m, PoolAssumption DEF Threads
<1>4. CASE \E w \in Workers : Awake(w)
  <2>1. PICK w \in Workers : Awake(w)
    BY <1>4
  <2>2. w \in Threads \ {p}
    BY <1>t DEF Threads
  <2>3. QED
    BY <1>m, <2>1, <2>2 DEF Awake
<1>5. CASE \A w \in Workers : ~ Awake(w)
  BY <1>2, <1>3, <1>5, PushEnds
<1>6. QED
  BY <1>4, <1>5

-----------------------------------------------------------------------------
(***************************************************************************)
(* The room in the ring: the elements that qDepth counts and those on      *)
(* their way into it (Promised) are fewer than its slots.                  *)
(***************************************************************************)

\* A push at its claim is one of those promised a slot and not yet in the ring.
LEMMA HasRoom == IInv => RoomStep
<1> SUFFICES ASSUME IInv, NEW p \in Producers, pc[p] = "publish" PROVE ring + 1 < QSpace
  BY DEF RoomStep, PushPublish, Goto
<1>1. p \in Threads /\ "publish" \in PromisedPC /\ pc[p] \notin {"count"}
  BY DEF Threads, PromisedPC
<1>2. CountIn(Threads, pc, {"count"}) <= CountIn(Threads, pc, PromisedPC)
  BY ThreadsFinite, CountMonotone DEF PromisedPC
<1>3. CountIn(Threads, pc, {"count"}) # CountIn(Threads, pc, PromisedPC)
  <2>1. {"count"} \subseteq PromisedPC
    BY DEF PromisedPC
  <2>2. QED
    BY <1>1, <2>1, ThreadsFinite, CountMonotone
<1>4. Count(pc, {"count"}) \in Nat /\ Count(pc, {"uncount"}) \in Nat /\ Promised \in Nat
  BY CountsAreNat DEF Promised
<1>5. Count(pc, {"count"}) < Promised
  BY <1>2, <1>3, <1>4 DEF Promised, Count, CountIn
<1>6. qDepth + Promised < QSpace
  BY DEF IInv, RoomLeft
<1>7. qDepth = ring + Count(pc, {"uncount"}) - Count(pc, {"count"})
  BY DEF IInv, Conserved
<1>8. qDepth \in Int /\ ring \in Int /\ QSpace \in Int
  BY SpaceAssumption DEF IInv, TypeOK
<1>9. QED
  BY <1>4, <1>5, <1>6, <1>7, <1>8

\* Only producers are promised slots.
LEMMA SamePromised ==
  ASSUME KindsOK, KindsOK', \A p \in Producers : pc'[p] \in PromisedPC <=> pc[p] \in PromisedPC
  PROVE  Promised' = Promised
<1>1. \A w \in Workers : pc[w] \notin PromisedPC /\ pc'[w] \notin PromisedPC
  BY DEF KindsOK, ExecPC, PromisedPC
<1>2. {t \in Threads : pc'[t] \in PromisedPC} = {t \in Threads : pc[t] \in PromisedPC}
  BY <1>1 DEF Threads
<1>3. QED
  BY <1>2 DEF Promised, Count

\* A push takes a promise when it passes the test, and gives it back when it counts.
LEMMA RoomPush ==
  ASSUME IInv, PromiseStep, KindsOK', NEW p \in Producers, Push(p)
  PROVE  RoomLeft'
<1>0. /\ qDepth \in Int /\ QSpace \in Int /\ Promised \in Nat /\ qDepth + Promised < QSpace
      /\ p \in Threads /\ TypeOK
  BY SpaceAssumption, CountsAreNat DEF IInv, TypeOK, RoomLeft, Promised, Threads
<1>1. ASSUME NEW from, NEW to, Goto(p, from, to)
      PROVE  Promised' = Promised + In(to, PromisedPC) - In(from, PromisedPC)
  <2>1. pc[p] = from /\ pc'[p] = to /\ \A u \in Threads : u # p => pc'[u] = pc[u]
    BY <1>0, <1>1 DEF Goto, TypeOK
  <2>2. CountIn(Threads, pc', PromisedPC) =
          CountIn(Threads, pc, PromisedPC) + In(pc'[p], PromisedPC) - In(pc[p], PromisedPC)
    BY <1>0, <2>1, ThreadsFinite, CountMoved
  <2>3. QED
    BY <2>1, <2>2 DEF Promised, Count, CountIn
<1>2. CASE PushRoom(p)
  <2>1. Promised' = Promised + 1 /\ qDepth' = qDepth /\ qDepth + 1 < QSpace
    BY <1>0, <1>1, <1>2 DEF PushRoom, counters, In, PromisedPC
  <2>2. Promised # 0 => qDepth + 1 + Promised < QSpace
    BY <1>2 DEF PromiseStep
  <2>3. QED
    BY <1>0, <2>1, <2>2 DEF RoomLeft
<1>3. CASE PushPublish(p)
  <2>1. Promised' = Promised /\ qDepth' = qDepth
    BY <1>0, <1>1, <1>3 DEF PushPublish, counters, In, PromisedPC
  <2>2. QED
    BY <1>0, <2>1 DEF RoomLeft
<1>4. CASE PushCount(p)
  <2>1. PICK to \in {"spawn", "ready"} : Goto(p, "count", to)
    BY <1>4 DEF PushCount
  <2>2. Promised' = Promised - 1 /\ qDepth' = qDepth + 1
    BY <1>0, <1>1, <1>4, <2>1 DEF PushCount, In, PromisedPC
  <2>3. QED
    BY <1>0, <2>2 DEF RoomLeft
<1>5. CASE PushAttempt(p) \/ PushSpawn(p) \/ PushAllAsleep(p) \/ PushBacklog(p)
           \/ ResumeAnyAsleep(p) \/ ResumeSignal(p)
  <2>1. qDepth' = qDepth
    BY <1>5 DEF PushAttempt, PushSpawn, PushAllAsleep, PushBacklog, ResumeAnyAsleep,
                ResumeSignal, SignalUnlocked, counters
  <2>2. pc[p] \notin PromisedPC /\ pc'[p] \notin PromisedPC
    <3>1. CASE PushSpawn(p)
      BY <1>0, <3>1, PoolAssumption DEF PushSpawn, Goto, TypeOK, PromisedPC
    <3>2. CASE ResumeSignal(p)
      BY <1>0, <3>2, PoolAssumption DEF ResumeSignal, SignalUnlocked, Waiting, Goto, TypeOK, PromisedPC
    <3>3. CASE PushAttempt(p) \/ PushAllAsleep(p) \/ PushBacklog(p) \/ ResumeAnyAsleep(p)
      BY <1>0, <3>3 DEF PushAttempt, PushAllAsleep, PushBacklog, ResumeAnyAsleep, Goto, TypeOK,
                       PromisedPC
    <3>4. QED
      BY <1>5, <3>1, <3>2, <3>3
  <2>3. \A q \in Producers : q # p => pc'[q] = pc[q]
    BY PushMoves, PoolAssumption DEF Threads
  <2>4. Promised' = Promised
    BY <2>2, <2>3, SamePromised DEF IInv
  <2>5. QED
    BY <1>0, <2>1, <2>4 DEF RoomLeft
<1>6. QED
  BY <1>2, <1>3, <1>4, <1>5 DEF Push

\* Nobody else counts up.
LEMMA RoomOthers ==
  ASSUME IInv, KindsOK', \A p \in Producers : pc'[p] = pc[p], qDepth' \in {qDepth, qDepth - 1}
  PROVE  RoomLeft'
<1>1. Promised' = Promised
  BY SamePromised DEF IInv
<1>2. qDepth \in Int /\ QSpace \in Int /\ Promised \in Nat /\ qDepth + Promised < QSpace
  BY SpaceAssumption, CountsAreNat DEF IInv, TypeOK, RoomLeft, Promised
<1>3. qDepth' = qDepth \/ qDepth' = qDepth - 1
  OBVIOUS
<1>4. qDepth' + Promised < QSpace
  <2>1. CASE qDepth' = qDepth
    BY <1>2, <2>1
  <2>2. CASE qDepth' = qDepth - 1
    BY <1>2, <2>2
  <2>3. QED
    BY <1>3, <2>1, <2>2
<1>5. QED
  BY <1>1, <1>4 DEF RoomLeft

-----------------------------------------------------------------------------
(***************************************************************************)
(* The invariant holds.                                                    *)
(***************************************************************************)
LEMMA InitInvariant == Init => IInv
<1> SUFFICES ASSUME Init PROVE IInv
  OBVIOUS
<1>0. \A t \in Threads : pc[t] \in {"ready", "none"}
  BY DEF Init
<1>1. \A set \in Counted : Count(pc, set) = 0
  <2> TAKE set \in Counted
  <2>1. \A t \in Threads : pc[t] \notin set
    BY <1>0 DEF Counted, InactivePC, WorkingPC, ActivePC, UnderwayPC, ExecPC
  <2>2. CountIn(Threads, pc, set) = 0
    BY <2>1, ThreadsFinite, CountZero
  <2>3. QED
    BY <2>2 DEF Count, CountIn
<1>2. CountersOK
  <2>1. /\ Count(pc, InactivePC) = 0 /\ Count(pc, WorkingPC) = 0
        /\ Count(pc, ActivePC) = 0 /\ Count(pc, {"gone"}) = 0
    BY <1>1 DEF Counted
  <2>2. qInactive = 0 /\ qWorking = 0 /\ qActive = 0 /\ qCreated = 0
    BY DEF Init
  <2>3. QED
    BY <2>1, <2>2 DEF CountersOK
<1>3. Conserved
  BY <1>1 DEF Counted, Init, Conserved
<1>4. TypeOK
  BY SpaceAssumption DEF Init, TypeOK, ExecPC
<1>5. KindsOK
  BY PoolAssumption DEF Init, KindsOK, Threads, ExecPC
<1>6. MutexOK
  BY NobodyAssumption, PoolAssumption DEF Init, MutexOK, Threads, HoldPC
<1>7. OwnerOK /\ SpawnMeansPool /\ PoolStarted /\ LookedAfter
  BY PoolAssumption DEF Init, OwnerOK, SpawnMeansPool, PoolStarted, LookedAfter, Threads
<1>8. RoomLeft
  <2>1. \A t \in Threads : pc[t] \notin PromisedPC
    BY <1>0 DEF PromisedPC
  <2>2. Promised = 0
    BY <2>1, ThreadsFinite, CountZero DEF Promised, Count, CountIn
  <2>3. QED
    BY <2>2, SpaceAssumption DEF Init, RoomLeft
<1>9. QED
  BY <1>2, <1>3, <1>4, <1>5, <1>6, <1>7, <1>8 DEF IInv

\* Every step of a push keeps the invariant.
LEMMA PushInvariant == ASSUME IInv, PromiseStep, NEW p \in Producers, Push(p) PROVE IInv'
<1>m. /\ \A w \in Workers :
           \/ pc'[w] = pc[w]
           \/ pc[w] = "none" /\ pc'[w] = "start"
           \/ pc[w] = "wait" /\ pc'[w] = "woken"
      /\ \A q \in Producers \ {p} : pc'[q] = pc[q]
      /\ owner = "using"
      /\ UNCHANGED <<qActive, qInactive, qWorking, qProcessed, qIsRunning, mutex, attempt, owner>>
  BY PushMoves, PoolAssumption DEF Threads
<1>1. Tally' /\ RoomLeft'
  <2>1. Tally'
    BY HasRoom, TallyPush
  <2>2. QED
    BY <2>1, RoomPush DEF Tally
<1>2. MutexOK'
  BY <1>m DEF IInv, MutexOK, HoldPC
<1>3. OwnerOK'
  BY <1>m DEF IInv, OwnerOK
<1>4. PoolStarted'
  <2>1. pc'[p] \in {"allAsleep", "backlog", "anyAsleep", "signal"} => qActive > 0
    <3>1. CASE PushSpawn(p) /\ pc'[p] = "allAsleep"
      <4>1. ~ NeedThread /\ pc[p] = "spawn"
        BY <3>1, PoolAssumption DEF PushSpawn, Goto, IInv, TypeOK, Threads
      <4>2. \A t \in Threads : pc[t] \notin {"gone"}
        BY <1>m, PoolAssumption DEF IInv, OwnerOK, KindsOK, Threads, PushPC
      <4>3. qCreated = 0
        <5>1. Count(pc, {"gone"}) = 0
          BY <4>2, ThreadsFinite, CountZero DEF Count, CountIn
        <5>2. QED
          BY <5>1 DEF IInv, TypeOK, CountersOK
      <4>4. MaxActive > 0
        BY <3>1, <4>1, PoolAssumption DEF IInv, SpawnMeansPool
      <4>5. qWorking <= qActive /\ qInactive <= qActive
        <5>1. WorkingPC \subseteq ActivePC /\ InactivePC \subseteq ActivePC
          BY DEF WorkingPC, InactivePC, ActivePC, ExecPC
        <5>2. QED
          BY <5>1, ThreadsFinite, CountMonotone DEF IInv, CountersOK, Count, CountIn
      <4>6. qWorking \in Nat /\ qInactive \in Nat /\ qActive \in Nat
        BY DEF IInv, TypeOK
      <4>7. QED
        BY <4>1, <4>3, <4>4, <4>5, <4>6 DEF NeedThread
    <3>2. CASE pc[p] \in {"allAsleep", "backlog", "anyAsleep", "signal"}
      BY <3>2 DEF IInv, PoolStarted
    <3>3. pc'[p] \in {"allAsleep", "backlog", "anyAsleep", "signal"} =>
            \/ PushSpawn(p) /\ pc'[p] = "allAsleep"
            \/ pc[p] \in {"allAsleep", "backlog", "anyAsleep", "signal"}
      BY PoolAssumption DEF Push, PushAttempt, PushRoom, PushPublish, PushCount, PushSpawn, PushAllAsleep,
              PushBacklog, ResumeAnyAsleep, ResumeSignal, SignalUnlocked, Goto, IInv, TypeOK, Threads
    <3>4. QED
      BY <3>1, <3>2, <3>3
  <2>2. QED
    BY <1>m, <2>1 DEF IInv, PoolStarted
<1>5. SpawnMeansPool'
  <2>1. pc'[p] = "spawn" => PushCount(p)
    BY PoolAssumption DEF Push, PushAttempt, PushRoom, PushPublish, PushSpawn, PushAllAsleep,
           PushBacklog, ResumeAnyAsleep, ResumeSignal, SignalUnlocked, Goto, IInv, TypeOK, Threads
  <2>2. PushCount(p) /\ pc'[p] = "spawn" => MaxActive # 0
    BY PoolAssumption DEF PushCount, Goto, IInv, TypeOK, Threads
  <2>3. QED
    BY <1>m, <2>1, <2>2 DEF IInv, SpawnMeansPool
<1>6. LookedAfter'
  BY LookedAfterPush
<1>7. QED
  BY <1>1, <1>2, <1>3, <1>4, <1>5, <1>6 DEF Tally, IInv

\* Every step of a thread of the pool keeps the invariant.
LEMMA ExecInvariant ==
  ASSUME IInv, NEW w \in Workers, Exec(w) \/ PauseSpurious(w) PROVE IInv'
<1>1. SpawnMeansPool'
  BY ExecMoves, PoolAssumption DEF IInv, SpawnMeansPool, Threads
<1>2. Tally' /\ RoomLeft'
  <2>1. Tally'
    BY TallyExec
  <2>2. \A p \in Producers : pc'[p] = pc[p]
    BY ExecMoves, PoolAssumption DEF Threads
  <2>3. qDepth' \in {qDepth, qDepth - 1}
    BY Zenon DEF Exec, PauseSpurious, ExecStart, ExecLoop, ExecTake, ExecUncount, ExecWork,
       ExecDone, ExecRest, ExecExit, ExecExited, PauseLock, PauseInactive, PauseIdle, PauseLoad,
       PauseCompare, PauseReacquire, PauseLeave, counters
  <2>4. QED
    BY <2>1, <2>2, <2>3, RoomOthers DEF Tally
<1>3. QED
  BY <1>1, <1>2, MutexStep, OwnerStep, PoolStep, LookedAfterExec DEF Tally, IInv

\* Every step of the owner keeps the invariant.
LEMMA DestroyInvariant == ASSUME IInv, DestroyStop \/ Destroy PROVE IInv'
<1>1. Tally'
  BY TallyDestroy
<1>m. /\ \A w \in Workers : pc'[w] = pc[w] \/ (pc[w] = "wait" /\ pc'[w] = "woken")
      /\ \A p \in Producers : pc'[p] = pc[p]
      /\ UNCHANGED <<mutex, qActive, qInactive>>
      /\ owner' # "using" /\ qIsRunning' = 0 /\ \A p \in Producers : pc[p] = "ready"
  BY PoolAssumption DEF DestroyStop, Destroy, DestroyBroadcast, DestroyWaited, DestroyFree, Waiting,
         counters, IInv, TypeOK, OwnerOK, KindsOK, Threads, PushPC
<1>2. MutexOK'
  BY <1>m DEF IInv, MutexOK, HoldPC
<1>3. OwnerOK'
  <2>1. CASE DestroyWaited
    <3>1. \A t \in Threads : pc[t] \notin ActivePC
      BY <2>1, ThreadsFinite, CountZero DEF DestroyWaited, IInv, CountersOK, Count, CountIn
    <3>2. \A w \in Workers : pc[w] \in QuietPC
      BY <3>1 DEF Threads, IInv, KindsOK, ActivePC, ExecPC, QuietPC
    <3>3. QED
      BY <1>m, <2>1, <3>2 DEF DestroyWaited, OwnerOK
  <2>2. CASE DestroyStop \/ DestroyBroadcast \/ DestroyFree
    BY <1>m, <2>2 DEF DestroyStop, DestroyBroadcast, DestroyFree, IInv, OwnerOK, QuietPC
  <2>3. QED
    BY <2>1, <2>2 DEF Destroy
<1>4. SpawnMeansPool' /\ PoolStarted' /\ LookedAfter'
  BY <1>m DEF SpawnMeansPool, PoolStarted, LookedAfter
<1>5. RoomLeft'
  <2>1. qDepth' = qDepth
    BY DEF DestroyStop, Destroy, DestroyBroadcast, DestroyWaited, DestroyFree, counters
  <2>2. QED
    BY <1>1, <1>m, <2>1, RoomOthers DEF Tally
<1>6. QED
  BY <1>1, <1>2, <1>3, <1>4, <1>5 DEF Tally, IInv

\* Every step that relies on no slot of others keeps the invariant.
LEMMA NextInvariant == IInv /\ [Next /\ PromiseStep]_vars => IInv'
<1> SUFFICES ASSUME IInv, [Next /\ PromiseStep]_vars PROVE IInv'
  OBVIOUS
<1>1. CASE Next /\ PromiseStep
  BY <1>1, PushInvariant, ExecInvariant, DestroyInvariant DEF Next
<1>2. CASE UNCHANGED vars
  BY <1>2 DEF vars, IInv, TypeOK, KindsOK, CountersOK, Conserved, MutexOK, OwnerOK,
              SpawnMeansPool, PoolStarted, LookedAfter, Awake, Count, RoomLeft, Promised
<1>3. QED
  BY <1>1, <1>2

(***************************************************************************)
(* The counters of the queue count what they are meant to (14-24), the     *)
(* mutex has the holder it should, no push is lost between the producer,   *)
(* the ring and the threads of the pool, and pending work is looked after, *)
(* as long as no two pushes rely on the same slot (217, 228).              *)
(***************************************************************************)
THEOREM WorkersInvariant == RoomSpec => []IInv
BY InitInvariant, NextInvariant, PTL DEF RoomSpec

(***************************************************************************)
(* A push that has passed the test of qDepth (215-217) finds a slot when   *)
(* it claims one, however far qDepth lags behind the ring and whatever the *)
(* threads of the pool do meanwhile.                                       *)
(***************************************************************************)
THEOREM ClaimsHaveRoom == RoomSpec => AlwaysRoom
<1>1. IInv => RoomStep
  BY HasRoom
<1>2. QED
  BY <1>1, WorkersInvariant, PTL DEF RoomSpec, AlwaysRoom

(***************************************************************************)
(* One producer at a time, as the logger's q has, relies on no slot of     *)
(* others: everything here holds of it under any schedule.                 *)
(***************************************************************************)
THEOREM OnePusherNeedsNone ==
  ASSUME \A p, q \in Producers : p = q
  PROVE  Spec => RoomSpec /\ AlwaysRoom
<1>1. Init => IInv
  BY InitInvariant
<1>2. IInv => PromiseStep
  <2> SUFFICES ASSUME IInv, NEW p \in Producers, pc[p] = "full" PROVE Promised = 0
    BY DEF PromiseStep, PushRoom, Goto
  <2>1. \A t \in Threads : pc[t] \notin PromisedPC
    BY DEF Threads, IInv, KindsOK, ExecPC, PromisedPC
  <2>2. QED
    BY <2>1, ThreadsFinite, CountZero DEF Promised, Count, CountIn
<1>3. IInv /\ [Next]_vars => IInv' /\ [Next /\ PromiseStep]_vars
  <2>1. IInv /\ [Next]_vars => [Next /\ PromiseStep]_vars
    BY <1>2
  <2>2. QED
    BY <2>1, NextInvariant
<1>4. QED
  BY <1>1, <1>3, ClaimsHaveRoom, PTL DEF Spec, RoomSpec

(***************************************************************************)
(* No wake-up is lost, whatever the number of producers and of threads     *)
(* and whatever the order of their steps: xs_queue_push (242-252) may skip *)
(* the wake-up, and xs_queue_pause (118-127) may sleep, only when that     *)
(* leaves nothing unprocessed.  A queue without a pool has no such duty.   *)
(***************************************************************************)
THEOREM NoLostWakeup == ASSUME MaxActive # 0 PROVE RoomSpec => []AsleepMeansDone
<1>1. IInv => AsleepMeansDone
  <2> SUFFICES ASSUME IInv, owner = "using", \A p \in Producers : pc[p] = "ready",
                      \A w \in Workers : pc[w] \in {"none", "wait"}
               PROVE  qProcessed = pushes
    BY DEF AsleepMeansDone
  <2>1. ~ (qProcessed < pushes)
    BY DEF IInv, LookedAfter, Awake
  <2>2. Count(pc, UnderwayPC) \in Nat
    BY CountsAreNat
  <2>3. QED
    BY <2>1, <2>2 DEF IInv, TypeOK, Conserved
<1>2. QED
  BY <1>1, WorkersInvariant, PTL

(***************************************************************************)
(* xs_queue_destroy (99-111) waits for as many threads as there are: none  *)
(* is inside pop, qProc or pause when the mutex and the ring are freed.    *)
(***************************************************************************)
THEOREM DestroyWaitsForAll == RoomSpec => []DestroyedQuiet
<1>1. IInv => DestroyedQuiet
  BY DEF IInv, OwnerOK, DestroyedQuiet
<1>2. QED
  BY <1>1, WorkersInvariant, PTL

=============================================================================
