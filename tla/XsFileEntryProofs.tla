-------------------------- MODULE XsFileEntryProofs ---------------------------
(***************************************************************************)
(* What the status and the readcount of a file entry guarantee, for any    *)
(* finite set of serving threads, any clock and any number of changes of   *)
(* the file: the status is a lock (StatusIsLock) that makes one refresh at *)
(* a time the owner of the mapping (MappingsOwned), under any schedule;    *)
(* and readcount keeps the entry's times for whoever holds it              *)
(* (ReadersCounted, HeldEntryFixed), when no refresh comes in between a    *)
(* reader's test and its increment (PromptLock).                           *)
(***************************************************************************)
EXTENDS XsFileEntry, FiniteSetTheorems, TLAPS

\* The threads of a finite set that are at one of a set of places.
CountIn(threads, place, set) == Cardinality({u \in threads : place[u] \in set})

\* 1 if a place is one of a set of places, 0 if not.
In(place, set) == IF place \in set THEN 1 ELSE 0

\* A number of threads is a natural number.
LEMMA CountIsNat ==
  ASSUME NEW T, IsFiniteSet(T), NEW f, NEW set
  PROVE  CountIn(T, f, set) \in Nat
<1>1. IsFiniteSet({u \in T : f[u] \in set})
  BY FS_Subset
<1>2. QED
  BY <1>1, FS_CardinalityType DEF CountIn

\* A counter is at zero exactly when no thread is at one of its places.
LEMMA CountZero ==
  ASSUME NEW T, IsFiniteSet(T), NEW f, NEW set
  PROVE  CountIn(T, f, set) = 0 <=> \A u \in T : f[u] \notin set
<1> DEFINE there == {u \in T : f[u] \in set}
<1>1. IsFiniteSet(there)
  BY FS_Subset
<1>2. Cardinality(there) = 0 <=> there = {}
  <2> HIDE DEF there
  <2>1. QED
    BY <1>1, FS_EmptySet
<1>3. QED
  BY <1>2 DEF CountIn

\* Two threads at the places of a count of one are the same.
LEMMA CountOne ==
  ASSUME NEW T, IsFiniteSet(T), NEW f, NEW set, CountIn(T, f, set) <= 1,
         NEW s \in T, NEW t \in T, f[s] \in set, f[t] \in set
  PROVE  s = t
<1> DEFINE there == {u \in T : f[u] \in set}
<1>1. there \in SUBSET T /\ s \in there /\ t \in there
  OBVIOUS
<1>2. IsFiniteSet(there) /\ Cardinality(there) \in Nat
  BY <1>1, FS_Subset, FS_CardinalityType
<1>3. Cardinality(there) <= 1
  BY DEF CountIn
<1>4. Cardinality(there) = 0 <=> there = {}
  <2> HIDE DEF there
  <2>1. QED
    BY <1>2, FS_EmptySet
<1>5. Cardinality(there) = 1 => \E x : there = {x}
  <2> HIDE DEF there
  <2>1. QED
    BY <1>2, FS_Singleton
<1>6. QED
  <2> HIDE DEF there
  <2>1. PICK x : there = {x}
    BY <1>1, <1>2, <1>3, <1>4, <1>5
  <2>2. QED
    BY <1>1, <2>1

\* When one thread moves, a count changes by that thread.
LEMMA CountMoved ==
  ASSUME NEW T, IsFiniteSet(T), NEW t \in T, NEW f, NEW g, NEW set,
         \A u \in T : u # t => g[u] = f[u]
  PROVE  CountIn(T, g, set) = CountIn(T, f, set) + In(g[t], set) - In(f[t], set)
<1> DEFINE before == {u \in T : f[u] \in set}
           after == {u \in T : g[u] \in set}
<1>0. before \in SUBSET T
  OBVIOUS
<1>1. IsFiniteSet(before) /\ Cardinality(before) \in Nat
  BY <1>0, FS_Subset, FS_CardinalityType
<1>2. t \in before <=> f[t] \in set
  OBVIOUS
<1>3. after = IF g[t] \in set THEN before \union {t} ELSE before \ {t}
  OBVIOUS
<1>4. Cardinality(after) = Cardinality(before) + In(g[t], set) - In(f[t], set)
  <2> HIDE DEF before, after
  <2>1. Cardinality(before \union {t}) =
          IF t \in before THEN Cardinality(before) ELSE Cardinality(before) + 1
    BY <1>1, FS_AddElement
  <2>2. Cardinality(before \ {t}) =
          IF t \in before THEN Cardinality(before) - 1 ELSE Cardinality(before)
    BY <1>1, FS_RemoveElement
  <2>3. QED
    BY <1>1, <1>2, <1>3, <2>1, <2>2 DEF In
<1>5. QED
  BY <1>4 DEF CountIn

-----------------------------------------------------------------------------
(***************************************************************************)
(* The steps of a thread, and counting the threads at a place.             *)
(***************************************************************************)
Step(t) == Get(t) \/ Use(t) \/ ReadMore(t) \/ Unload(t) \/ \E l \in Loads : GetCall(t, l)

\* There are finitely many threads, as the counters need.
LEMMA ThreadsFinite == IsFiniteSet(Threads)
BY EntryAssumption, FS_Singleton, FS_Union DEF Threads

\* The sets of places that status and readcount stand for.
Counted == {CheckPC, RefreshPC, HoldPC}

\* How a step changes the numbers of threads there.
CountsMoved(from, to) ==
  \A set \in Counted :
    CountIn(Threads, pc', set) = CountIn(Threads, pc, set) + In(to, set) - In(from, set)

\* The control flow: a step moves its thread, and no other.
Places == CheckPC \union RefreshPC \union HoldPC \union OtherPC

\* One thread moves, and the others stay.
LEMMA Moved ==
  ASSUME TypeOK, NEW t \in Threads, NEW from, NEW to \in Places, Goto(t, from, to)
  PROVE  /\ pc[t] = from /\ pc'[t] = to
         /\ pc' \in [Threads -> Places]
         /\ \A s \in Threads : s # t => pc'[s] = pc[s]
         /\ CountsMoved(from, to)
<1>1. /\ pc[t] = from /\ pc'[t] = to /\ pc' \in [Threads -> Places]
      /\ \A s \in Threads : s # t => pc'[s] = pc[s]
  BY DEF Goto, TypeOK, Places
<1>2. CountsMoved(from, to)
  BY <1>1, ThreadsFinite, CountMoved DEF CountsMoved
<1>3. QED
  BY <1>1, <1>2

\* Every step moves one thread, from a place to a place.
LEMMA StepMoves ==
  ASSUME TypeOK, NEW t \in Threads, Step(t)
  PROVE  /\ pc' \in [Threads -> Places]
         /\ \A s \in Threads : s # t => pc'[s] = pc[s]
         /\ CountsMoved(pc[t], pc'[t])
         /\ \A from, to : Goto(t, from, to) => pc[t] = from /\ pc'[t] = to
<1>1. \E from, to \in Places : Goto(t, from, to)
  <2> USE DEF Places, CheckPC, RefreshPC, HoldPC, OtherPC
  <2>1. CASE CheckTime(t)
    BY <2>1 DEF CheckTime
  <2>2. CASE CheckStatus(t)
    BY <2>2 DEF CheckStatus
  <2>3. CASE Expire(t)
    BY <2>3 DEF Expire
  <2>4. CASE Recheck(t)
    BY <2>4 DEF Recheck
  <2>5. CASE ResetTest(t)
    BY <2>5 DEF ResetTest
  <2>6. CASE Reset(t)
    BY <2>6 DEF Reset
  <2>7. CASE Restore(t)
    BY <2>7 DEF Restore
  <2>8. CASE Take(t)
    BY <2>8 DEF Take, TakeUnchecked
  <2>9. CASE Await(t)
    BY <2>9 DEF Await
  <2>10. CASE Stat(t)
    BY <2>10 DEF Stat
  <2>11. CASE Keep(t)
    BY <2>11 DEF Keep
  <2>12. CASE Unmap(t)
    BY <2>12 DEF Unmap
  <2>13. CASE Map(t)
    BY <2>13 DEF Map
  <2>14. CASE Drain(t)
    BY <2>14 DEF Drain, DrainBlind
  <2>15. CASE Copy(t)
    BY <2>15 DEF Copy
  <2>16. CASE Publish(t)
    BY <2>16 DEF Publish
  <2>17. CASE Free(t)
    BY <2>17 DEF Free
  <2>18. CASE GotInfo(t)
    BY <2>18 DEF GotInfo
  <2>19. CASE LockWait(t)
    BY <2>19 DEF LockWait
  <2>20. CASE LockCount(t)
    BY <2>20 DEF LockCount
  <2>21. CASE ReadData(t)
    BY <2>21 DEF ReadData
  <2>22. CASE SkipData(t)
    BY <2>22 DEF SkipData
  <2>23. CASE SentAll(t)
    BY <2>23 DEF SentAll, Send
  <2>24. CASE UnlockWait(t)
    BY <2>24 DEF UnlockWait
  <2>25. CASE UnlockCount(t)
    BY <2>25 DEF UnlockCount
  <2>26. CASE ReadMore(t)
    BY <2>26 DEF ReadMore, Send
  <2>27. CASE UnloadCall(t)
    BY <2>27 DEF UnloadCall
  <2>28. CASE UnloadStatus(t)
    BY <2>28 DEF UnloadStatus
  <2>29. CASE UnloadUnset(t)
    BY <2>29 DEF UnloadUnset, Goto, TypeOK
  <2>30. CASE UnloadTest(t)
    BY <2>30 DEF UnloadTest
  <2>31. CASE UnloadClaim(t)
    BY <2>31 DEF UnloadClaim
  <2>32. CASE UnloadDrop(t)
    BY <2>32 DEF UnloadDrop
  <2>33. CASE UnloadDone(t)
    BY <2>33 DEF UnloadDone
  <2>34. CASE \E l \in Loads : GetCall(t, l)
    BY <2>34 DEF GetCall
  <2>35. QED
    BY <2>1, <2>2, <2>3, <2>4, <2>5, <2>6, <2>7, <2>8, <2>9, <2>10, <2>11, <2>12, <2>13,
       <2>14, <2>15, <2>16, <2>17, <2>18, <2>19, <2>20, <2>21, <2>22, <2>23, <2>24, <2>25,
       <2>26, <2>27, <2>28, <2>29, <2>30, <2>31, <2>32, <2>33, <2>34 DEF Step, Get, Use,
       Unload
<1>2. PICK from, to \in Places : Goto(t, from, to)
  BY <1>1
<1>3. QED
  BY <1>2, Moved DEF Goto, TypeOK

\* status says how many threads check and how many refresh the entry.
LockCounted ==
  /\ CountIn(Threads, pc, CheckPC) = (IF status = 3 THEN 1 ELSE 0)
  /\ CountIn(Threads, pc, RefreshPC) = (IF status = 1 THEN 1 ELSE 0)

\* StatusIsLock is the types and the count of those at the lock.
LEMMA LockCountedSame == StatusIsLock <=> TypeOK /\ LockCounted
BY DEF StatusIsLock, LockCounted, CountIn

\* The status a thread that checks or refreshes the entry has given it, and
\* that only it changes.
LEMMA OneRefresher ==
  ASSUME LockCounted
  PROVE  /\ \A t \in Threads : pc[t] \in CheckPC => status = 3
         /\ \A t \in Threads : pc[t] \in RefreshPC => status = 1
         /\ \A s, t \in Threads : pc[s] \in RefreshPC /\ pc[t] \in RefreshPC => s = t
<1>1. \A t \in Threads : pc[t] \in CheckPC => CountIn(Threads, pc, CheckPC) # 0
  BY ThreadsFinite, CountZero
<1>2. \A t \in Threads : pc[t] \in RefreshPC => CountIn(Threads, pc, RefreshPC) # 0
  BY ThreadsFinite, CountZero
<1>3. CountIn(Threads, pc, RefreshPC) <= 1
  BY DEF LockCounted
<1>4. QED
  BY <1>1, <1>2, <1>3, ThreadsFinite, CountOne DEF LockCounted

\* unloaddata runs while nobody else does, so nobody checks or refreshes.
LEMMA UnloadFindsItFree ==
  ASSUME LockInv, NEW t \in Threads
  PROVE  pc[t] \in UnloadPC => status \notin {1, 3}
<1>1. ASSUME pc[t] \in UnloadPC PROVE \A s \in Threads : pc[s] \notin CheckPC \union RefreshPC
  BY <1>1 DEF LockInv, StarterFirst, UnloadPC, Threads, CheckPC, RefreshPC
<1>2. pc[t] \in UnloadPC => CountIn(Threads, pc, CheckPC) = 0 /\ CountIn(Threads, pc, RefreshPC) = 0
  BY <1>1, ThreadsFinite, CountZero
<1>3. QED
  BY <1>2, LockCountedSame DEF LockInv, LockCounted

-----------------------------------------------------------------------------
(***************************************************************************)
(* The status is a lock.                                                   *)
(***************************************************************************)
LEMMA LockStep ==
  ASSUME LockInv, NEW t \in Threads, Step(t)
  PROVE  LockCounted'
<1> USE DEF entry, In, CheckPC, RefreshPC, HoldPC
<1>t. TypeOK /\ LockCounted
  BY LockCountedSame DEF LockInv
<1>g. /\ pc' \in [Threads -> Places]
      /\ \A s \in Threads : s # t => pc'[s] = pc[s]
      /\ CountsMoved(pc[t], pc'[t])
      /\ \A from, to : Goto(t, from, to) => pc[t] = from /\ pc'[t] = to
  BY StepMoves DEF LockInv, StatusIsLock
<1>n. \A set : CountIn(Threads, pc, set) \in Nat
  BY ThreadsFinite, CountIsNat
<1>m. /\ CountIn(Threads, pc', CheckPC) =
           CountIn(Threads, pc, CheckPC) + In(pc'[t], CheckPC) - In(pc[t], CheckPC)
      /\ CountIn(Threads, pc', RefreshPC) =
           CountIn(Threads, pc, RefreshPC) + In(pc'[t], RefreshPC) - In(pc[t], RefreshPC)
  BY <1>g DEF CountsMoved, Counted
<1>o. /\ pc[t] \in CheckPC => status = 3
      /\ pc[t] \in RefreshPC => status = 1
      /\ pc[t] = "copy" => tfi[t].status = 1
  BY <1>t, OneRefresher DEF LockInv, RefreshOK
<1>u. /\ pc[t] = "unloadDone" => locallock[t] \notin {1, 3}
      /\ pc[t] \in UnloadPC => status \notin {1, 3}
  BY UnloadFindsItFree DEF LockInv, UnloadOK, StarterFirst, UnloadPC, Threads
<1>1. CASE CheckTime(t)
  BY <1>1, <1>t, <1>g, <1>n, <1>m, <1>o DEF CheckTime, LockCounted
<1>2. CASE CheckStatus(t)
  BY <1>2, <1>t, <1>g, <1>n, <1>m, <1>o DEF CheckStatus, LockCounted
<1>3. CASE Expire(t)
  BY <1>3, <1>t, <1>g, <1>n, <1>m, <1>o DEF Expire, SetStatus, LockCounted
<1>4. CASE Recheck(t)
  BY <1>4, <1>t, <1>g, <1>n, <1>m, <1>o DEF Recheck, LockCounted
<1>5. CASE ResetTest(t)
  BY <1>5, <1>t, <1>g, <1>n, <1>m, <1>o DEF ResetTest, LockCounted
<1>6. CASE Reset(t)
  BY <1>6, <1>t, <1>g, <1>n, <1>m, <1>o DEF Reset, SetStatus, LockCounted
<1>7. CASE Restore(t)
  BY <1>7, <1>t, <1>g, <1>n, <1>m, <1>o DEF Restore, SetStatus, LockCounted
<1>8. CASE Take(t)
  BY <1>8, <1>t, <1>g, <1>n, <1>m, <1>o DEF Take, TakeUnchecked, SetStatus, LockCounted
<1>9. CASE Await(t)
  BY <1>9, <1>t, <1>g, <1>n, <1>m, <1>o DEF Await, LockCounted
<1>10. CASE Stat(t)
  BY <1>10, <1>t, <1>g, <1>n, <1>m, <1>o DEF Stat, LockCounted
<1>11. CASE Keep(t)
  BY <1>11, <1>t, <1>g, <1>n, <1>m, <1>o DEF Keep, LockCounted
<1>12. CASE Unmap(t)
  BY <1>12, <1>t, <1>g, <1>n, <1>m, <1>o DEF Unmap, Munmap, LockCounted
<1>13. CASE Map(t)
  BY <1>13, <1>t, <1>g, <1>n, <1>m, <1>o DEF Map, LockCounted
<1>14. CASE Drain(t)
  BY <1>14, <1>t, <1>g, <1>n, <1>m, <1>o DEF Drain, DrainBlind, LockCounted
<1>15. CASE Copy(t)
  BY <1>15, <1>t, <1>g, <1>n, <1>m, <1>o DEF Copy, LockCounted
<1>16. CASE Publish(t)
  BY <1>16, <1>t, <1>g, <1>n, <1>m, <1>o DEF Publish, SetStatus, LockCounted
<1>17. CASE Free(t)
  BY <1>17, <1>t, <1>g, <1>n, <1>m, <1>o DEF Free, LockCounted
<1>18. CASE GotInfo(t)
  BY <1>18, <1>t, <1>g, <1>n, <1>m, <1>o DEF GotInfo, LockCounted
<1>19. CASE LockWait(t)
  <2>1. pc[t] = "got" /\ pc'[t] = "count" /\ status' = status
    BY <1>19, <1>g DEF LockWait
  <2>2. QED
    BY <2>1, <1>t, <1>n, <1>m DEF LockCounted
<1>20. CASE LockCount(t)
  BY <1>20, <1>t, <1>g, <1>n, <1>m, <1>o DEF LockCount, AddReader, LockCounted
<1>21. CASE ReadData(t)
  BY <1>21, <1>t, <1>g, <1>n, <1>m, <1>o DEF ReadData, LockCounted
<1>22. CASE SkipData(t)
  BY <1>22, <1>t, <1>g, <1>n, <1>m, <1>o DEF SkipData, LockCounted
<1>23. CASE SentAll(t)
  BY <1>23, <1>t, <1>g, <1>n, <1>m, <1>o DEF SentAll, Send, LockCounted
<1>24. CASE UnlockWait(t)
  BY <1>24, <1>t, <1>g, <1>n, <1>m, <1>o DEF UnlockWait, LockCounted
<1>25. CASE UnlockCount(t)
  BY <1>25, <1>t, <1>g, <1>n, <1>m, <1>o DEF UnlockCount, AddReader, LockCounted
<1>26. CASE ReadMore(t)
  BY <1>26, <1>t, <1>g, <1>n, <1>m, <1>o DEF ReadMore, Send, LockCounted
<1>27. CASE UnloadCall(t)
  BY <1>27, <1>t, <1>g, <1>n, <1>m, <1>o DEF UnloadCall, LockCounted
<1>28. CASE UnloadStatus(t)
  BY <1>28, <1>t, <1>g, <1>n, <1>m, <1>o DEF UnloadStatus, LockCounted
<1>29. CASE UnloadUnset(t)
  <2>1. CASE status # 10
    BY <1>29, <2>1, <1>t, <1>g, <1>n, <1>m DEF UnloadUnset, LockCounted
  <2>2. CASE status = 10
    BY <1>29, <2>2, <1>t, <1>n, <1>m DEF UnloadUnset, SetStatus, LockCounted
  <2>3. QED
    BY <2>1, <2>2
<1>30. CASE UnloadTest(t)
  BY <1>30, <1>t, <1>g, <1>n, <1>m, <1>o DEF UnloadTest, LockCounted
<1>31. CASE UnloadClaim(t)
  BY <1>31, <1>t, <1>g, <1>n, <1>m, <1>o, <1>u DEF UnloadClaim, SetStatus, UnloadPC,
     LockCounted
<1>32. CASE UnloadDrop(t)
  BY <1>32, <1>t, <1>g, <1>n, <1>m, <1>o DEF UnloadDrop, Munmap, LockCounted
<1>33. CASE UnloadDone(t)
  BY <1>33, <1>t, <1>g, <1>n, <1>m, <1>o, <1>u DEF UnloadDone, SetStatus, UnloadPC,
     LockCounted
<1>34. CASE \E l \in Loads : GetCall(t, l)
  BY <1>34, <1>t, <1>g, <1>n, <1>m, <1>o DEF GetCall, LockCounted
<1>35. QED
  BY <1>1, <1>2, <1>3, <1>4, <1>5, <1>6, <1>7, <1>8, <1>9, <1>10, <1>11, <1>12, <1>13,
     <1>14, <1>15, <1>16, <1>17, <1>18, <1>19, <1>20, <1>21, <1>22, <1>23, <1>24, <1>25,
     <1>26, <1>27, <1>28, <1>29, <1>30, <1>31, <1>32, <1>33, <1>34 DEF Step, Get, Use,
     Unload

-----------------------------------------------------------------------------
(***************************************************************************)
(* The main thread first, and what unloaddata borrows.                     *)
(***************************************************************************)
LEMMA StarterStep ==
  ASSUME LockInv, NEW t \in Threads, Step(t)
  PROVE  StarterFirst' /\ UnloadOK'
<1> USE DEF UnloadPC
<1>g. /\ pc' \in [Threads -> Places]
      /\ \A s \in Threads : s # t => pc'[s] = pc[s]
      /\ CountsMoved(pc[t], pc'[t])
      /\ \A from, to : Goto(t, from, to) => pc[t] = from /\ pc'[t] = to
  BY StepMoves DEF LockInv, StatusIsLock
<1>u. /\ t \in Servers => pc[t] \notin UnloadPC
      /\ t = Starter \/ t \in Servers
      /\ Starter \in Threads /\ Starter \notin Servers
      /\ locallock \in [Threads -> {0, 1, 2, 3, 10}]
      /\ pc[t] \in UnloadPC => status \notin {1, 3}
  BY UnloadFindsItFree, EntryAssumption DEF LockInv, StatusIsLock, TypeOK, StarterFirst, Threads
\* Nobody leaves "ended"; only a call waits for the main thread; only the main
\* thread unloads.
<1>a. /\ pc[t] # "ended"
      /\ t \in Servers /\ pc[t] = "idle" => pc[Starter] = "ended"
      /\ t \in Servers => pc'[t] \notin UnloadPC \union {"ended"}
      /\ pc'[Starter] \in UnloadPC \ {"unload"} => locallock'[Starter] \notin {1, 3}
  <2>1. CASE CheckTime(t)
    BY <2>1, <1>g, <1>u DEF CheckTime, locals, LockInv, UnloadOK
  <2>2. CASE CheckStatus(t)
    BY <2>2, <1>g, <1>u DEF CheckStatus, locals, LockInv, UnloadOK
  <2>3. CASE Expire(t)
    BY <2>3, <1>g, <1>u DEF Expire, SetStatus, locals, LockInv, UnloadOK
  <2>4. CASE Recheck(t)
    BY <2>4, <1>g, <1>u DEF Recheck, locals, LockInv, UnloadOK
  <2>5. CASE ResetTest(t)
    BY <2>5, <1>g, <1>u DEF ResetTest, locals, LockInv, UnloadOK
  <2>6. CASE Reset(t)
    BY <2>6, <1>g, <1>u DEF Reset, SetStatus, locals, LockInv, UnloadOK
  <2>7. CASE Restore(t)
    BY <2>7, <1>g, <1>u DEF Restore, SetStatus, locals, LockInv, UnloadOK
  <2>8. CASE Take(t)
    BY <2>8, <1>g, <1>u DEF Take, TakeUnchecked, SetStatus, locals, LockInv, UnloadOK
  <2>9. CASE Await(t)
    BY <2>9, <1>g, <1>u DEF Await, locals, LockInv, UnloadOK
  <2>10. CASE Stat(t)
    BY <2>10, <1>g, <1>u DEF Stat, locals, LockInv, UnloadOK
  <2>11. CASE Keep(t)
    BY <2>11, <1>g, <1>u DEF Keep, locals, LockInv, UnloadOK
  <2>12. CASE Unmap(t)
    BY <2>12, <1>g, <1>u DEF Unmap, Munmap, locals, LockInv, UnloadOK
  <2>13. CASE Map(t)
    BY <2>13, <1>g, <1>u DEF Map, locals, LockInv, UnloadOK
  <2>14. CASE Drain(t)
    BY <2>14, <1>g, <1>u DEF Drain, DrainBlind, locals, LockInv, UnloadOK
  <2>15. CASE Copy(t)
    BY <2>15, <1>g, <1>u DEF Copy, locals, LockInv, UnloadOK
  <2>16. CASE Publish(t)
    BY <2>16, <1>g, <1>u DEF Publish, SetStatus, locals, LockInv, UnloadOK
  <2>17. CASE Free(t)
    BY <2>17, <1>g, <1>u DEF Free, locals, LockInv, UnloadOK
  <2>18. CASE GotInfo(t)
    BY <2>18, <1>g, <1>u DEF GotInfo, locals, LockInv, UnloadOK
  <2>19. CASE LockWait(t)
    BY <2>19, <1>g, <1>u DEF LockWait, locals, LockInv, UnloadOK
  <2>20. CASE LockCount(t)
    BY <2>20, <1>g, <1>u DEF LockCount, AddReader, locals, LockInv, UnloadOK
  <2>21. CASE ReadData(t)
    BY <2>21, <1>g, <1>u DEF ReadData, locals, LockInv, UnloadOK
  <2>22. CASE SkipData(t)
    BY <2>22, <1>g, <1>u DEF SkipData, locals, LockInv, UnloadOK
  <2>23. CASE SentAll(t)
    BY <2>23, <1>g, <1>u DEF SentAll, Send, locals, LockInv, UnloadOK
  <2>24. CASE UnlockWait(t)
    BY <2>24, <1>g, <1>u DEF UnlockWait, locals, LockInv, UnloadOK
  <2>25. CASE UnlockCount(t)
    BY <2>25, <1>g, <1>u DEF UnlockCount, AddReader, locals, LockInv, UnloadOK
  <2>26. CASE ReadMore(t)
    BY <2>26, <1>g, <1>u DEF ReadMore, Send, locals, LockInv, UnloadOK
  <2>27. CASE UnloadCall(t)
    BY <2>27, <1>g, <1>u DEF UnloadCall, locals, LockInv, UnloadOK
  <2>28. CASE UnloadStatus(t)
    BY <2>28, <1>g, <1>u DEF UnloadStatus, locals, LockInv, UnloadOK
  <2>29. CASE UnloadUnset(t)
    BY <2>29, <1>g, <1>u DEF UnloadUnset, SetStatus, locals, LockInv, UnloadOK
  <2>30. CASE UnloadTest(t)
    BY <2>30, <1>g, <1>u DEF UnloadTest, locals, LockInv, UnloadOK
  <2>31. CASE UnloadClaim(t)
    BY <2>31, <1>g, <1>u DEF UnloadClaim, SetStatus, locals, LockInv, UnloadOK
  <2>32. CASE UnloadDrop(t)
    BY <2>32, <1>g, <1>u DEF UnloadDrop, Munmap, locals, LockInv, UnloadOK
  <2>33. CASE UnloadDone(t)
    BY <2>33, <1>g, <1>u DEF UnloadDone, SetStatus, locals, LockInv, UnloadOK
  <2>34. CASE \E l \in Loads : GetCall(t, l)
    BY <2>34, <1>g, <1>u DEF GetCall, locals, LockInv, UnloadOK
  <2>35. QED
    BY <2>1, <2>2, <2>3, <2>4, <2>5, <2>6, <2>7, <2>8, <2>9, <2>10, <2>11, <2>12, <2>13,
       <2>14, <2>15, <2>16, <2>17, <2>18, <2>19, <2>20, <2>21, <2>22, <2>23, <2>24, <2>25,
       <2>26, <2>27, <2>28, <2>29, <2>30, <2>31, <2>32, <2>33, <2>34 DEF Step, Get, Use,
       Unload
<1>b. StarterFirst'
  BY <1>a, <1>g, <1>u DEF LockInv, StarterFirst, Threads
<1>c. QED
  BY <1>a, <1>b DEF UnloadOK

-----------------------------------------------------------------------------
(***************************************************************************)
(* Types.                                                                  *)
(***************************************************************************)
\* The type of the structure a refresh prepares.
NewEntry ==
  [status : {0, 1, 2}, modification_time : 0 .. version, data : 0 .. Len(maps), msize : {0, 1}]

\* TypeOK in four groups, of which most steps change one.
FileTyped == now \in 0 .. MaxTime /\ version \in Nat /\ disk \in {0, version}
EntryTyped ==
  /\ status \in {0, 1, 2, 3, 10} /\ readcount \in Int /\ check_time \in 0 .. MaxTime
  /\ modification_time \in 0 .. version /\ data \in 0 .. Len(maps) /\ msize \in {0, 1}
MemoryTyped ==
  /\ sizeless \subseteq 1 .. Len(maps) /\ mapped \subseteq 1 .. Len(maps)
  /\ maps \in Seq(1 .. version)
LocalsTyped ==
  /\ ct \in [Threads -> 0 .. MaxTime] /\ load \in [Threads -> BOOLEAN]
  /\ tfi \in [Threads -> NewEntry]
  /\ olddata \in [Threads -> 0 .. Len(maps)] /\ ptr \in [Threads -> 0 .. Len(maps)]
  /\ locallock \in [Threads -> {0, 1, 2, 3, 10}]

LEMMA TypeGroups ==
  /\ TypeOK => FileTyped /\ EntryTyped /\ MemoryTyped /\ LocalsTyped
  /\ /\ FileTyped' /\ EntryTyped' /\ MemoryTyped' /\ LocalsTyped'
     /\ pc' \in [Threads -> CheckPC \union RefreshPC \union HoldPC \union OtherPC]
     => TypeOK'
BY Zenon DEF TypeOK, FileTyped, EntryTyped, MemoryTyped, LocalsTyped, NewEntry

\* What is not touched keeps its type.
LEMMA GroupsStay ==
  ASSUME FileTyped, EntryTyped, MemoryTyped, LocalsTyped
  PROVE  /\ UNCHANGED file => FileTyped'
         /\ UNCHANGED <<file, memory>> => MemoryTyped'
         /\ UNCHANGED <<file, memory, entry>> => EntryTyped'
         /\ UNCHANGED <<file, memory, locals>> => LocalsTyped'
<1>1. UNCHANGED file => FileTyped'
  BY DEF FileTyped, file
<1>2. UNCHANGED <<file, memory>> => MemoryTyped'
  BY Zenon DEF MemoryTyped, file, memory
<1>3. UNCHANGED <<file, memory, entry>> => EntryTyped'
  BY Zenon DEF EntryTyped, file, memory, entry
<1>4. UNCHANGED <<file, memory, locals>> => LocalsTyped'
  BY Zenon DEF LocalsTyped, NewEntry, file, memory, locals
<1>5. QED
  BY <1>1, <1>2, <1>3, <1>4

\* Every step keeps the types.
LEMMA TypesStep ==
  ASSUME LockInv, NEW t \in Threads, Step(t)
  PROVE  TypeOK'
<1>t. TypeOK /\ LockCounted
  BY LockCountedSame DEF LockInv
<1>y. FileTyped /\ EntryTyped /\ MemoryTyped /\ LocalsTyped
  BY <1>t, TypeGroups
<1>g. /\ pc' \in [Threads -> Places]
      /\ \A s \in Threads : s # t => pc'[s] = pc[s]
      /\ CountsMoved(pc[t], pc'[t])
      /\ \A from, to : Goto(t, from, to) => pc[t] = from /\ pc'[t] = to
  BY StepMoves DEF LockInv, StatusIsLock
<1>p. pc' \in [Threads -> CheckPC \union RefreshPC \union HoldPC \union OtherPC]
  BY <1>g DEF Places
<1>k. /\ UNCHANGED file => FileTyped'
      /\ UNCHANGED <<file, memory>> => MemoryTyped'
      /\ UNCHANGED <<file, memory, entry>> => EntryTyped'
      /\ UNCHANGED <<file, memory, locals>> => LocalsTyped'
  BY <1>y, GroupsStay
<1>q. ASSUME FileTyped', EntryTyped', MemoryTyped', LocalsTyped' PROVE TypeOK'
  BY <1>p, <1>q, TypeGroups
<1>n. ASSUME UNCHANGED <<file, entry, memory, locals>> PROVE TypeOK'
  BY <1>k, <1>n, <1>q
<1>s. ASSUME NEW n \in {0, 1, 2, 3, 10}, SetStatus(n), UNCHANGED <<file, memory, locals>>
      PROVE  TypeOK'
  <2>1. EntryTyped'
    BY <1>y, <1>s DEF EntryTyped, SetStatus, file, memory
  <2>2. QED
    BY <1>k, <1>q, <1>s, <2>1
<1>r. ASSUME NEW n \in Int, AddReader(n), UNCHANGED <<file, memory, locals>>
      PROVE  TypeOK'
  <2>1. EntryTyped'
    BY <1>y, <1>r DEF EntryTyped, AddReader, file, memory
  <2>2. QED
    BY <1>k, <1>q, <1>r, <2>1
<1>l. ASSUME UNCHANGED <<file, entry, memory>>, LocalsTyped' PROVE TypeOK'
  BY <1>k, <1>l, <1>q
<1>o. /\ pc[t] \in {"stat", "choose", "map", "drain", "copy", "publish"} => status = 1
      /\ pc[t] = "copy" => tfi[t].status = 1
  BY <1>t, OneRefresher DEF LockInv, RefreshOK, RefreshPC
<1>e. /\ tfi[t] \in NewEntry /\ tfi \in [Threads -> NewEntry]
      /\ data \in 0 .. Len(maps) /\ Len(maps) \in Nat /\ maps \in Seq(1 .. version)
      /\ 0 \in 0 .. MaxTime
  BY <1>y, EntryAssumption DEF LocalsTyped, EntryTyped, MemoryTyped
<1>1. CASE CheckTime(t)
  BY <1>1, <1>n DEF CheckTime
<1>2. CASE CheckStatus(t)
  BY <1>2, <1>n DEF CheckStatus
<1>3. CASE Expire(t)
  BY <1>3, <1>s DEF Expire
<1>4. CASE Recheck(t)
  BY <1>4, <1>n DEF Recheck
<1>5. CASE ResetTest(t)
  BY <1>5, <1>n DEF ResetTest
<1>6. CASE Reset(t)
  BY <1>6, <1>s DEF Reset
<1>7. CASE Restore(t)
  BY <1>7, <1>s DEF Restore
<1>8. CASE Take(t)
  BY <1>8, <1>n, <1>s DEF Take, TakeUnchecked
<1>9. CASE Await(t)
  <2>1. LocalsTyped'
    BY <1>9, <1>y, <1>e DEF Await, LocalsTyped, NewEntry, file, memory
  <2>2. QED
    BY <1>9, <1>l, <2>1 DEF Await
<1>10. CASE Stat(t)
  <2>1. disk \in 0 .. version /\ status = 1
    BY <1>10, <1>g, <1>o, <1>y DEF Stat, FileTyped
  <2>2. [tfi[t] EXCEPT !.modification_time = disk, !.status = status] \in NewEntry
    BY <1>e, <2>1 DEF NewEntry
  <2>3. tfi' = [tfi EXCEPT ![t] = [tfi[t] EXCEPT !.modification_time = disk, !.status = status]]
    BY <1>10, <1>e DEF Stat, NewEntry
  <2>4. tfi' \in [Threads -> NewEntry]
    BY <1>e, <2>2, <2>3
  <2>5. LocalsTyped'
    <3>1. UNCHANGED <<file, memory, ct, load, olddata, locallock, ptr>>
      BY <1>10 DEF Stat
    <3>2. NewEntry' = NewEntry
      BY <3>1 DEF NewEntry, file, memory
    <3>3. QED
      BY <1>y, <2>4, <3>1, <3>2, Zenon DEF LocalsTyped, file, memory
  <2>6. QED
    BY <1>10, <1>l, <2>5 DEF Stat
<1>11. CASE Keep(t)
  <2>1. [tfi[t] EXCEPT !.data = data] \in NewEntry
    BY <1>e DEF NewEntry
  <2>2. tfi' = [tfi EXCEPT ![t] = [tfi[t] EXCEPT !.data = data]]
    BY <1>11, <1>e DEF Keep, NewEntry
  <2>3. tfi' \in [Threads -> NewEntry]
    BY <1>e, <2>1, <2>2
  <2>4. UNCHANGED <<file, entry, maps, mapped, ct, load, olddata, locallock, ptr>>
    BY <1>11 DEF Keep
  <2>5. sizeless' \subseteq 1 .. Len(maps)
    BY <1>11, <1>e, <1>y DEF Keep, MemoryTyped
  <2>6. MemoryTyped'
    BY <1>y, <2>4, <2>5 DEF MemoryTyped, file
  <2>7. EntryTyped'
    BY <1>y, <2>4, Zenon DEF EntryTyped, entry, file
  <2>8. LocalsTyped'
    <3>1. NewEntry' = NewEntry
      BY <2>4 DEF NewEntry, file
    <3>2. QED
      BY <1>y, <2>3, <2>4, <3>1, Zenon DEF LocalsTyped, file
  <2>9. QED
    BY <1>k, <1>q, <2>4, <2>6, <2>7, <2>8
<1>12. CASE Unmap(t)
  <2>1. UNCHANGED <<file, status, readcount, check_time, modification_time, msize, maps,
                    sizeless, locals>> /\ data' = 0 /\ mapped' \subseteq mapped
    BY <1>12 DEF Unmap, Munmap
  <2>2. MemoryTyped' /\ EntryTyped'
    BY <1>e, <1>y, <2>1 DEF MemoryTyped, EntryTyped, file
  <2>3. LocalsTyped'
    BY <1>y, <2>1, Zenon DEF LocalsTyped, NewEntry, file, locals
  <2>4. QED
    BY <1>k, <1>q, <2>1, <2>2, <2>3
<1>13. CASE Map(t)
  <2>1. /\ UNCHANGED <<file, entry, sizeless, ct, load, locallock, ptr>>
        /\ olddata' = [olddata EXCEPT ![t] = data]
    BY <1>13 DEF Map
  <2>2. olddata' \in [Threads -> 0 .. Len(maps)]
    BY <1>y, <1>e, <2>1 DEF LocalsTyped
  <2>3. CASE UNCHANGED <<tfi, maps, mapped>>
    <3>1. UNCHANGED <<file, memory, entry>>
      BY <2>1, <2>3 DEF memory
    <3>2. LocalsTyped'
      BY <1>y, <2>1, <2>2, <2>3, Zenon DEF LocalsTyped, NewEntry, file
    <3>3. QED
      BY <1>l, <3>1, <3>2
  <2>4. CASE /\ disk # 0
             /\ tfi' = [tfi EXCEPT ![t].data = Len(maps) + 1, ![t].msize = 1]
             /\ maps' = Append(maps, disk)
             /\ mapped' = mapped \union {Len(maps) + 1}
    <3>1. disk \in 1 .. version /\ version' = version
      BY <1>y, <2>1, <2>4 DEF FileTyped, file
    <3>2. maps' \in Seq(1 .. version) /\ Len(maps') = Len(maps) + 1
      BY <1>e, <2>4, <3>1
    <3>3. [tfi[t] EXCEPT !.data = Len(maps) + 1] \in NewEntry'
      <4>1. Len(maps) + 1 \in 0 .. Len(maps')
        BY <1>e, <3>2
      <4>2. QED
        BY <1>e, <3>1, <4>1 DEF NewEntry
    <3>4. [tfi[t] EXCEPT !.data = Len(maps) + 1, !.msize = 1] \in NewEntry'
      BY <3>3 DEF NewEntry
    <3>5. tfi' = [tfi EXCEPT ![t] = [tfi[t] EXCEPT !.data = Len(maps) + 1, !.msize = 1]]
      BY <1>e, <2>4 DEF NewEntry
    <3>6. /\ 0 .. Len(maps) \subseteq 0 .. Len(maps')
          /\ 1 .. Len(maps) \subseteq 1 .. Len(maps') /\ Len(maps) + 1 \in 1 .. Len(maps')
      BY <1>e, <3>2
    <3>7. \A s \in Threads : tfi[s] \in NewEntry'
      BY <1>e, <3>1, <3>6 DEF NewEntry
    <3>8. tfi' \in [Threads -> NewEntry']
      BY <1>e, <3>4, <3>5, <3>7
    <3>9. MemoryTyped'
      <4>1. mapped' \subseteq 1 .. Len(maps') /\ sizeless' \subseteq 1 .. Len(maps')
        BY <1>y, <2>1, <2>4, <3>6 DEF MemoryTyped
      <4>2. QED
        BY <3>1, <3>2, <4>1 DEF MemoryTyped
    <3>10. EntryTyped'
      <4>1. data' \in 0 .. Len(maps')
        BY <1>e, <2>1, <3>6 DEF entry
      <4>2. QED
        BY <1>y, <2>1, <3>1, <4>1, Zenon DEF EntryTyped, entry
    <3>11. LocalsTyped'
      <4>1. /\ ptr' \in [Threads -> 0 .. Len(maps')]
            /\ olddata' \in [Threads -> 0 .. Len(maps')]
        BY <1>y, <2>1, <2>2, <3>6 DEF LocalsTyped
      <4>2. QED
        BY <1>y, <2>1, <3>8, <4>1, Zenon DEF LocalsTyped
    <3>12. QED
      BY <1>k, <1>q, <2>1, <3>9, <3>10, <3>11
  <2>5. QED
    BY <1>13, <2>3, <2>4 DEF Map
<1>14. CASE Drain(t)
  BY <1>14, <1>n DEF Drain, DrainBlind
<1>15. CASE Copy(t)
  <2>1. /\ tfi[t].status = 1 /\ tfi[t].modification_time \in 0 .. version
        /\ tfi[t].data \in 0 .. Len(maps) /\ tfi[t].msize \in {0, 1} /\ ct[t] \in 0 .. MaxTime
    <3>1. pc[t] = "copy"
      BY <1>15, <1>g DEF Copy
    <3>2. QED
      BY <1>e, <1>o, <1>y, <3>1 DEF NewEntry, LocalsTyped
  <2>2. UNCHANGED <<file, memory, locals>>
    BY <1>15 DEF Copy
  <2>3. EntryTyped'
    <3>1. version' = version /\ maps' = maps
      BY <2>2 DEF file, memory
    <3>2. /\ status' = 1 /\ readcount' = 0 /\ check_time' = ct[t]
          /\ modification_time' = tfi[t].modification_time
          /\ data' = tfi[t].data /\ msize' = tfi[t].msize
      BY <1>15, <2>1 DEF Copy
    <3>3. QED
      BY <2>1, <3>1, <3>2 DEF EntryTyped
  <2>4. QED
    BY <1>k, <1>q, <2>2, <2>3
<1>16. CASE Publish(t)
  BY <1>16, <1>s DEF Publish
<1>17. CASE Free(t)
  <2>1. Blank \in NewEntry
    BY <1>e, <1>y DEF Blank, NewEntry, FileTyped
  <2>2. tfi' \in [Threads -> NewEntry]
    BY <1>17, <1>e, <2>1 DEF Free
  <2>3. /\ UNCHANGED <<file, entry, maps, sizeless, load, locallock, ptr>>
        /\ mapped' \subseteq mapped
    BY <1>17 DEF Free
  <2>4. ct' \in [Threads -> 0 .. MaxTime] /\ olddata' \in [Threads -> 0 .. Len(maps)]
    BY <1>17, <1>e, <1>y DEF Free, LocalsTyped
  <2>5. MemoryTyped'
    BY <1>y, <2>3 DEF MemoryTyped, file
  <2>6. EntryTyped'
    BY <1>y, <2>3, Zenon DEF EntryTyped, entry, file
  <2>7. LocalsTyped'
    <3>1. NewEntry' = NewEntry
      BY <2>3 DEF NewEntry, file
    <3>2. QED
      BY <1>y, <2>2, <2>3, <2>4, <3>1, Zenon DEF LocalsTyped
  <2>8. QED
    BY <1>k, <1>q, <2>3, <2>5, <2>6, <2>7
<1>18. CASE GotInfo(t)
  BY <1>18, <1>n DEF GotInfo
<1>19. CASE LockWait(t)
  BY <1>19, <1>n DEF LockWait
<1>20. CASE LockCount(t)
  BY <1>20, <1>r DEF LockCount
<1>21. CASE ReadData(t)
  <2>1. UNCHANGED <<file, entry, memory, ct, load, tfi, olddata, locallock>>
    BY <1>21 DEF ReadData
  <2>2. ptr' \in [Threads -> 0 .. Len(maps)]
    BY <1>21, <1>e, <1>y DEF ReadData, LocalsTyped
  <2>3. LocalsTyped'
    BY <1>y, <2>1, <2>2, Zenon DEF LocalsTyped, NewEntry, file, memory
  <2>4. QED
    BY <1>l, <2>1, <2>3
<1>22. CASE SkipData(t)
  BY <1>22, <1>n DEF SkipData
<1>23. CASE SentAll(t)
  <2>1. UNCHANGED <<file, entry, memory, ct, load, tfi, olddata, locallock>>
    BY <1>23 DEF SentAll, Send
  <2>2. ptr' \in [Threads -> 0 .. Len(maps)]
    BY <1>23, <1>e, <1>y DEF SentAll, Send, LocalsTyped
  <2>3. LocalsTyped'
    BY <1>y, <2>1, <2>2, Zenon DEF LocalsTyped, NewEntry, file, memory
  <2>4. QED
    BY <1>l, <2>1, <2>3
<1>24. CASE UnlockWait(t)
  BY <1>24, <1>n DEF UnlockWait
<1>25. CASE UnlockCount(t)
  BY <1>25, <1>r DEF UnlockCount
<1>26. CASE ReadMore(t)
  <2>1. UNCHANGED <<file, entry, memory, ct, load, tfi, olddata, locallock>>
    BY <1>26 DEF ReadMore, Send
  <2>2. ptr' \in [Threads -> 0 .. Len(maps)]
    BY <1>26, <1>e, <1>y DEF ReadMore, Send, LocalsTyped
  <2>3. LocalsTyped'
    BY <1>y, <2>1, <2>2, Zenon DEF LocalsTyped, NewEntry, file, memory
  <2>4. QED
    BY <1>l, <2>1, <2>3
<1>27. CASE UnloadCall(t)
  <2>1. UNCHANGED <<file, entry, memory, ct, load, tfi, olddata, ptr>>
    BY <1>27 DEF UnloadCall
  <2>2. locallock' \in [Threads -> {0, 1, 2, 3, 10}]
    BY <1>27, <1>y DEF UnloadCall, LocalsTyped, EntryTyped
  <2>3. LocalsTyped'
    BY <1>y, <2>1, <2>2, Zenon DEF LocalsTyped, NewEntry, file, memory
  <2>4. QED
    BY <1>l, <2>1, <2>3
<1>28. CASE UnloadStatus(t)
  BY <1>28, <1>n DEF UnloadStatus
<1>29. CASE UnloadUnset(t)
  <2>1. CASE SetStatus(0) /\ UNCHANGED <<file, memory, locals>>
    BY <1>s, <2>1
  <2>2. CASE /\ UNCHANGED <<file, entry, memory, ct, load, tfi, olddata, ptr>>
             /\ locallock' = [locallock EXCEPT ![t] = 0]
    <3>1. locallock' \in [Threads -> {0, 1, 2, 3, 10}]
      BY <1>y, <2>2 DEF LocalsTyped
    <3>2. LocalsTyped'
      BY <1>y, <2>2, <3>1, Zenon DEF LocalsTyped, NewEntry, file, memory
    <3>3. QED
      BY <1>l, <2>2, <3>2
  <2>3. QED
    BY <1>29, <2>1, <2>2 DEF UnloadUnset
<1>30. CASE UnloadTest(t)
  BY <1>30, <1>n DEF UnloadTest
<1>31. CASE UnloadClaim(t)
  BY <1>31, <1>s DEF UnloadClaim
<1>32. CASE UnloadDrop(t)
  <2>1. UNCHANGED <<file, status, readcount, check_time, modification_time, msize, maps,
                    sizeless, locals>> /\ data' = 0 /\ mapped' \subseteq mapped
    BY <1>32 DEF UnloadDrop, Munmap
  <2>2. MemoryTyped' /\ EntryTyped'
    BY <1>e, <1>y, <2>1 DEF MemoryTyped, EntryTyped, file
  <2>3. LocalsTyped'
    BY <1>y, <2>1, Zenon DEF LocalsTyped, NewEntry, file, locals
  <2>4. QED
    BY <1>k, <1>q, <2>1, <2>2, <2>3
<1>33. CASE UnloadDone(t)
  <2>1. locallock[t] \in {0, 1, 2, 3, 10}
    BY <1>y DEF LocalsTyped
  <2>2. QED
    BY <1>33, <1>s, <2>1 DEF UnloadDone
<1>34. CASE \E l \in Loads : GetCall(t, l)
  <2>1. PICK l \in Loads : GetCall(t, l)
    BY <1>34
  <2>2. UNCHANGED <<file, entry, memory, tfi, olddata, locallock, ptr>>
    BY <2>1 DEF GetCall
  <2>3. ct' \in [Threads -> 0 .. MaxTime] /\ load' \in [Threads -> BOOLEAN]
    BY <1>y, <2>1, EntryAssumption DEF GetCall, FileTyped, LocalsTyped
  <2>4. LocalsTyped'
    BY <1>y, <2>2, <2>3, Zenon DEF LocalsTyped, NewEntry, file, memory
  <2>5. QED
    BY <1>l, <2>2, <2>4
<1>35. QED
  BY <1>1, <1>2, <1>3, <1>4, <1>5, <1>6, <1>7, <1>8, <1>9, <1>10, <1>11, <1>12, <1>13,
     <1>14, <1>15, <1>16, <1>17, <1>18, <1>19, <1>20, <1>21, <1>22, <1>23, <1>24, <1>25,
     <1>26, <1>27, <1>28, <1>29, <1>30, <1>31, <1>32, <1>33, <1>34 DEF Step, Get, Use,
     Unload

-----------------------------------------------------------------------------
(***************************************************************************)
(* What a refresh prepares, and the mappings.                              *)
(***************************************************************************)
\* One refresh at a time fills its structure, and nobody else touches data.
LEMMA RefreshStep ==
  ASSUME LockInv, NEW t \in Threads, Step(t)
  PROVE  RefreshOK' /\ SizeKnown'
<1> USE DEF entry, memory, locals
<1>t. TypeOK /\ LockCounted
  BY LockCountedSame DEF LockInv
<1>g. /\ pc' \in [Threads -> Places]
      /\ \A s \in Threads : s # t => pc'[s] = pc[s]
      /\ CountsMoved(pc[t], pc'[t])
      /\ \A from, to : Goto(t, from, to) => pc[t] = from /\ pc'[t] = to
  BY StepMoves DEF LockInv, StatusIsLock
<1>f. /\ tfi \in [Threads -> NewEntry] /\ olddata \in [Threads -> Nat]
      /\ RefreshOK /\ SizeKnown
  BY <1>t DEF TypeOK, NewEntry, LockInv
<1>r. /\ \A s \in Threads : pc[s] \in RefreshPC => status = 1
      /\ \A s \in Threads : pc[s] \in RefreshPC /\ pc[t] \in RefreshPC => s = t
  BY <1>t, OneRefresher
<1>u. pc[t] \in UnloadPC => status # 1
  BY UnloadFindsItFree
\* What another thread has prepared stays as it is.
<1>a. ASSUME NEW s \in Threads, s # t
      PROVE  /\ pc'[s] = pc[s] /\ tfi'[s] = tfi[s] /\ olddata'[s] = olddata[s]
             /\ sizeless \subseteq sizeless'
             /\ pc[s] \in {"map", "drain", "copy"} => data' = data
  <2>1. CASE CheckTime(t)
    BY <2>1, <1>a, <1>g, <1>f, <1>r, <1>u DEF CheckTime, RefreshPC
  <2>2. CASE CheckStatus(t)
    BY <2>2, <1>a, <1>g, <1>f, <1>r, <1>u DEF CheckStatus, RefreshPC
  <2>3. CASE Expire(t)
    BY <2>3, <1>a, <1>g, <1>f, <1>r, <1>u DEF Expire, SetStatus, RefreshPC
  <2>4. CASE Recheck(t)
    BY <2>4, <1>a, <1>g, <1>f, <1>r, <1>u DEF Recheck, RefreshPC
  <2>5. CASE ResetTest(t)
    BY <2>5, <1>a, <1>g, <1>f, <1>r, <1>u DEF ResetTest, RefreshPC
  <2>6. CASE Reset(t)
    BY <2>6, <1>a, <1>g, <1>f, <1>r, <1>u DEF Reset, SetStatus, RefreshPC
  <2>7. CASE Restore(t)
    BY <2>7, <1>a, <1>g, <1>f, <1>r, <1>u DEF Restore, SetStatus, RefreshPC
  <2>8. CASE Take(t)
    BY <2>8, <1>a, <1>g, <1>f, <1>r, <1>u DEF Take, TakeUnchecked, SetStatus, RefreshPC
  <2>9. CASE Await(t)
    BY <2>9, <1>a, <1>g, <1>f, <1>r, <1>u DEF Await, RefreshPC
  <2>10. CASE Stat(t)
    BY <2>10, <1>a, <1>g, <1>f, <1>r, <1>u DEF Stat, RefreshPC
  <2>11. CASE Keep(t)
    BY <2>11, <1>a, <1>g, <1>f, <1>r, <1>u DEF Keep, RefreshPC
  <2>12. CASE Unmap(t)
    BY <2>12, <1>a, <1>g, <1>f, <1>r, <1>u DEF Unmap, Munmap, RefreshPC
  <2>13. CASE Map(t)
    BY <2>13, <1>a, <1>g, <1>f, <1>r, <1>u DEF Map, RefreshPC
  <2>14. CASE Drain(t)
    BY <2>14, <1>a, <1>g, <1>f, <1>r, <1>u DEF Drain, DrainBlind, RefreshPC
  <2>15. CASE Copy(t)
    BY <2>15, <1>a, <1>g, <1>f, <1>r, <1>u DEF Copy, RefreshPC
  <2>16. CASE Publish(t)
    BY <2>16, <1>a, <1>g, <1>f, <1>r, <1>u DEF Publish, SetStatus, RefreshPC
  <2>17. CASE Free(t)
    BY <2>17, <1>a, <1>g, <1>f, <1>r, <1>u DEF Free, Blank, RefreshPC
  <2>18. CASE GotInfo(t)
    BY <2>18, <1>a, <1>g, <1>f, <1>r, <1>u DEF GotInfo, RefreshPC
  <2>19. CASE LockWait(t)
    BY <2>19, <1>a, <1>g, <1>f, <1>r, <1>u DEF LockWait, RefreshPC
  <2>20. CASE LockCount(t)
    BY <2>20, <1>a, <1>g, <1>f, <1>r, <1>u DEF LockCount, AddReader, RefreshPC
  <2>21. CASE ReadData(t)
    BY <2>21, <1>a, <1>g, <1>f, <1>r, <1>u DEF ReadData, RefreshPC
  <2>22. CASE SkipData(t)
    BY <2>22, <1>a, <1>g, <1>f, <1>r, <1>u DEF SkipData, RefreshPC
  <2>23. CASE SentAll(t)
    BY <2>23, <1>a, <1>g, <1>f, <1>r, <1>u DEF SentAll, Send, RefreshPC
  <2>24. CASE UnlockWait(t)
    BY <2>24, <1>a, <1>g, <1>f, <1>r, <1>u DEF UnlockWait, RefreshPC
  <2>25. CASE UnlockCount(t)
    BY <2>25, <1>a, <1>g, <1>f, <1>r, <1>u DEF UnlockCount, AddReader, RefreshPC
  <2>26. CASE ReadMore(t)
    BY <2>26, <1>a, <1>g, <1>f, <1>r, <1>u DEF ReadMore, Send, RefreshPC
  <2>27. CASE UnloadCall(t)
    BY <2>27, <1>a, <1>g, <1>f, <1>r, <1>u DEF UnloadCall, RefreshPC
  <2>28. CASE UnloadStatus(t)
    BY <2>28, <1>a, <1>g, <1>f, <1>r, <1>u DEF UnloadStatus, RefreshPC
  <2>29. CASE UnloadUnset(t)
    BY <2>29, <1>a, <1>g, <1>f, <1>r, <1>u DEF UnloadUnset, SetStatus, RefreshPC
  <2>30. CASE UnloadTest(t)
    BY <2>30, <1>a, <1>g, <1>f, <1>r, <1>u DEF UnloadTest, RefreshPC
  <2>31. CASE UnloadClaim(t)
    BY <2>31, <1>a, <1>g, <1>f, <1>r, <1>u DEF UnloadClaim, SetStatus, RefreshPC
  <2>32. CASE UnloadDrop(t)
    BY <2>32, <1>a, <1>g, <1>f, <1>r, <1>u DEF UnloadDrop, Munmap, UnloadPC, RefreshPC
  <2>33. CASE UnloadDone(t)
    BY <2>33, <1>a, <1>g, <1>f, <1>r, <1>u DEF UnloadDone, SetStatus, RefreshPC
  <2>34. CASE \E l \in Loads : GetCall(t, l)
    BY <2>34, <1>a, <1>g, <1>f, <1>r, <1>u DEF GetCall, RefreshPC
  <2>35. QED
    BY <2>1, <2>2, <2>3, <2>4, <2>5, <2>6, <2>7, <2>8, <2>9, <2>10, <2>11, <2>12, <2>13,
       <2>14, <2>15, <2>16, <2>17, <2>18, <2>19, <2>20, <2>21, <2>22, <2>23, <2>24, <2>25,
       <2>26, <2>27, <2>28, <2>29, <2>30, <2>31, <2>32, <2>33, <2>34 DEF Step, Get, Use,
       Unload
<1>b. /\ pc'[t] \in {"choose", "map", "drain", "copy"} => tfi'[t].status = 1
      /\ pc'[t] \notin {"drain", "copy", "publish", "free"} =>
           tfi'[t].data = 0 /\ tfi'[t].msize = 0
      /\ pc'[t] = "map" => data' = 0
      /\ pc'[t] \in {"drain", "copy"} =>
           /\ data' \in {0, tfi'[t].data}
           /\ tfi'[t].data # 0 /\ tfi'[t].msize = 0 => tfi'[t].data \in sizeless'
      /\ olddata'[t] = 0
      /\ SizeKnown'
  <2>1. CASE CheckTime(t)
    BY <2>1, <1>g, <1>f, <1>r DEF CheckTime, RefreshOK, SizeKnown
  <2>2. CASE CheckStatus(t)
    BY <2>2, <1>g, <1>f, <1>r DEF CheckStatus, RefreshOK, SizeKnown
  <2>3. CASE Expire(t)
    BY <2>3, <1>g, <1>f, <1>r DEF Expire, SetStatus, RefreshOK, SizeKnown
  <2>4. CASE Recheck(t)
    BY <2>4, <1>g, <1>f, <1>r DEF Recheck, RefreshOK, SizeKnown
  <2>5. CASE ResetTest(t)
    BY <2>5, <1>g, <1>f, <1>r DEF ResetTest, RefreshOK, SizeKnown
  <2>6. CASE Reset(t)
    BY <2>6, <1>g, <1>f, <1>r DEF Reset, SetStatus, RefreshOK, SizeKnown
  <2>7. CASE Restore(t)
    BY <2>7, <1>g, <1>f, <1>r DEF Restore, SetStatus, RefreshOK, SizeKnown
  <2>8. CASE Take(t)
    BY <2>8, <1>g, <1>f, <1>r DEF Take, TakeUnchecked, SetStatus, RefreshOK, SizeKnown
  <2>9. CASE Await(t)
    BY <2>9, <1>g, <1>f, <1>r DEF Await, RefreshOK, SizeKnown
  <2>10. CASE Stat(t)
    BY <2>10, <1>g, <1>f, <1>r DEF Stat, NewEntry, RefreshPC, RefreshOK, SizeKnown
  <2>11. CASE Keep(t)
    BY <2>11, <1>g, <1>f, <1>r DEF Keep, NewEntry, RefreshOK, SizeKnown
  <2>12. CASE Unmap(t)
    BY <2>12, <1>g, <1>f, <1>r DEF Unmap, Munmap, RefreshOK, SizeKnown
  <2>13. CASE Map(t)
    <3>1. /\ pc[t] = "map" /\ pc'[t] = "drain" /\ data = 0 /\ tfi[t].status = 1
          /\ tfi[t].data = 0 /\ tfi[t].msize = 0
          /\ UNCHANGED <<data, msize, sizeless>> /\ olddata'[t] = 0
      BY <2>13, <1>g, <1>f DEF Map, RefreshOK
    <3>2. CASE UNCHANGED tfi
      BY <3>1, <3>2 DEF SizeKnown
    <3>3. CASE tfi' = [tfi EXCEPT ![t].data = Len(maps) + 1, ![t].msize = 1]
      <4>1. tfi'[t].msize = 1 /\ tfi'[t].status = 1
        BY <1>f, <3>1, <3>3 DEF NewEntry
      <4>2. QED
        BY <3>1, <4>1 DEF SizeKnown
    <3>4. QED
      BY <2>13, <3>2, <3>3 DEF Map
  <2>14. CASE Drain(t)
    BY <2>14, <1>g, <1>f, <1>r DEF Drain, DrainBlind, RefreshOK, SizeKnown
  <2>15. CASE Copy(t)
    BY <2>15, <1>g, <1>f, <1>r DEF Copy, NewEntry, RefreshOK, SizeKnown
  <2>16. CASE Publish(t)
    BY <2>16, <1>g, <1>f, <1>r DEF Publish, SetStatus, RefreshOK, SizeKnown
  <2>17. CASE Free(t)
    BY <2>17, <1>g, <1>f, <1>r DEF Free, NewEntry, Blank, RefreshOK, SizeKnown
  <2>18. CASE GotInfo(t)
    BY <2>18, <1>g, <1>f, <1>r DEF GotInfo, RefreshOK, SizeKnown
  <2>19. CASE LockWait(t)
    BY <2>19, <1>g, <1>f, <1>r DEF LockWait, RefreshOK, SizeKnown
  <2>20. CASE LockCount(t)
    BY <2>20, <1>g, <1>f, <1>r DEF LockCount, AddReader, RefreshOK, SizeKnown
  <2>21. CASE ReadData(t)
    BY <2>21, <1>g, <1>f, <1>r DEF ReadData, RefreshOK, SizeKnown
  <2>22. CASE SkipData(t)
    BY <2>22, <1>g, <1>f, <1>r DEF SkipData, RefreshOK, SizeKnown
  <2>23. CASE SentAll(t)
    BY <2>23, <1>g, <1>f, <1>r DEF SentAll, Send, RefreshOK, SizeKnown
  <2>24. CASE UnlockWait(t)
    BY <2>24, <1>g, <1>f, <1>r DEF UnlockWait, RefreshOK, SizeKnown
  <2>25. CASE UnlockCount(t)
    BY <2>25, <1>g, <1>f, <1>r DEF UnlockCount, AddReader, RefreshOK, SizeKnown
  <2>26. CASE ReadMore(t)
    BY <2>26, <1>g, <1>f, <1>r DEF ReadMore, Send, RefreshOK, SizeKnown
  <2>27. CASE UnloadCall(t)
    BY <2>27, <1>g, <1>f, <1>r DEF UnloadCall, RefreshOK, SizeKnown
  <2>28. CASE UnloadStatus(t)
    BY <2>28, <1>g, <1>f, <1>r DEF UnloadStatus, RefreshOK, SizeKnown
  <2>29. CASE UnloadUnset(t)
    BY <2>29, <1>g, <1>f, <1>r DEF UnloadUnset, SetStatus, RefreshOK, SizeKnown
  <2>30. CASE UnloadTest(t)
    BY <2>30, <1>g, <1>f, <1>r DEF UnloadTest, RefreshOK, SizeKnown
  <2>31. CASE UnloadClaim(t)
    BY <2>31, <1>g, <1>f, <1>r DEF UnloadClaim, SetStatus, RefreshOK, SizeKnown
  <2>32. CASE UnloadDrop(t)
    BY <2>32, <1>g, <1>f, <1>r DEF UnloadDrop, Munmap, RefreshOK, SizeKnown
  <2>33. CASE UnloadDone(t)
    BY <2>33, <1>g, <1>f, <1>r DEF UnloadDone, SetStatus, RefreshOK, SizeKnown
  <2>34. CASE \E l \in Loads : GetCall(t, l)
    BY <2>34, <1>g, <1>f, <1>r DEF GetCall, RefreshOK, SizeKnown
  <2>35. QED
    BY <2>1, <2>2, <2>3, <2>4, <2>5, <2>6, <2>7, <2>8, <2>9, <2>10, <2>11, <2>12, <2>13,
       <2>14, <2>15, <2>16, <2>17, <2>18, <2>19, <2>20, <2>21, <2>22, <2>23, <2>24, <2>25,
       <2>26, <2>27, <2>28, <2>29, <2>30, <2>31, <2>32, <2>33, <2>34 DEF Step, Get, Use,
       Unload
<1>c. RefreshOK'
  BY <1>a, <1>b, <1>f DEF RefreshOK
<1>d. QED
  BY <1>b, <1>c


\* With one refresh under way at most, the entry and it own the mappings.
LEMMA OwnedAlone ==
  ASSUME NEW t \in Threads
  PROVE  /\ (\A s \in Threads : s # t => Fresh(s) = 0) => Owned = {data, Fresh(t)} \ {0}
         /\ (\A s \in Threads : s # t => Fresh(s)' = 0) => Owned' = {data', Fresh(t)'} \ {0}
BY DEF Owned

\* Steps that leave the mappings, and the new content of the entry, alone.
LEMMA MappingsKept ==
  ASSUME MappingsOwned, UNCHANGED <<data, mapped, sizeless>>,
         \A s \in Threads : Fresh(s)' = Fresh(s)
  PROVE  MappingsOwned'
<1>1. {Fresh(s)' : s \in Threads} = {Fresh(s) : s \in Threads}
  OBVIOUS
<1>2. Owned' = Owned
  BY <1>1 DEF Owned
<1>3. QED
  BY <1>2 DEF MappingsOwned

\* Every mapping keeps one owner.
LEMMA MappingsStep ==
  ASSUME LockInv, NEW t \in Threads, Step(t)
  PROVE  MappingsOwned'
<1> USE DEF entry, file, memory, locals
<1>t. TypeOK /\ LockCounted
  BY LockCountedSame DEF LockInv
<1>g. /\ pc' \in [Threads -> Places]
      /\ \A s \in Threads : s # t => pc'[s] = pc[s]
      /\ CountsMoved(pc[t], pc'[t])
      /\ \A from, to : Goto(t, from, to) => pc[t] = from /\ pc'[t] = to
  BY StepMoves DEF LockInv, StatusIsLock
<1>f. /\ tfi \in [Threads -> NewEntry] /\ olddata[t] = 0
      /\ RefreshOK /\ SizeKnown /\ MappingsOwned
      /\ data \in Nat /\ mapped \subseteq 1 .. Len(maps) /\ Len(maps) \in Nat
  BY <1>t DEF TypeOK, NewEntry, LockInv, RefreshOK
<1>r. pc[t] \in {"choose", "map", "drain", "copy"} => \A s \in Threads : s # t => Fresh(s) = 0
  BY <1>t, OneRefresher DEF Fresh, RefreshPC
<1>u. pc[t] \in UnloadPC => \A s \in Threads : Fresh(s) = 0
  <2>1. pc[t] \in UnloadPC => status # 1
    BY UnloadFindsItFree
  <2>2. \A s \in Threads : pc[s] \in RefreshPC => status = 1
    BY <1>t, OneRefresher
  <2>3. QED
    BY <2>1, <2>2 DEF Fresh, RefreshPC
<1>1. CASE CheckTime(t)
  BY <1>1, <1>g, <1>f, MappingsKept DEF CheckTime, Fresh
<1>2. CASE CheckStatus(t)
  BY <1>2, <1>g, <1>f, MappingsKept DEF CheckStatus, Fresh
<1>3. CASE Expire(t)
  BY <1>3, <1>g, <1>f, MappingsKept DEF Expire, SetStatus, Fresh
<1>4. CASE Recheck(t)
  BY <1>4, <1>g, <1>f, MappingsKept DEF Recheck, Fresh
<1>5. CASE ResetTest(t)
  BY <1>5, <1>g, <1>f, MappingsKept DEF ResetTest, Fresh
<1>6. CASE Reset(t)
  BY <1>6, <1>g, <1>f, MappingsKept DEF Reset, SetStatus, Fresh
<1>7. CASE Restore(t)
  BY <1>7, <1>g, <1>f, MappingsKept DEF Restore, SetStatus, Fresh
<1>8. CASE Take(t)
  BY <1>8, <1>g, <1>f, MappingsKept DEF Take, TakeUnchecked, SetStatus, Fresh
<1>9. CASE Await(t)
  BY <1>9, <1>g, <1>f, MappingsKept DEF Await, Fresh
<1>10. CASE Stat(t)
  BY <1>10, <1>g, <1>f, MappingsKept DEF Stat, Fresh, NewEntry
<1>11. CASE Keep(t)
  <2>1. /\ pc[t] = "choose" /\ pc'[t] = "drain"
        /\ data' = data /\ mapped' = mapped /\ sizeless' = sizeless \union ({data} \ {0})
        /\ Fresh(t) = 0 /\ Fresh(t)' = data
        /\ \A s \in Threads : s # t => Fresh(s)' = Fresh(s)
    BY <1>11, <1>f, <1>g DEF Keep, Fresh, NewEntry
  <2>2. Owned = {data} \ {0} /\ Owned' = {data} \ {0}
    BY <1>r, <2>1, OwnedAlone
  <2>3. QED
    BY <1>f, <2>1, <2>2 DEF MappingsOwned
<1>12. CASE Unmap(t)
  <2>1. /\ pc[t] = "choose" /\ pc'[t] = "map"
        /\ data' = 0 /\ sizeless' = sizeless
        /\ mapped' = IF msize = 0 THEN mapped ELSE mapped \ {data}
        /\ Fresh(t) = 0 /\ Fresh(t)' = 0
        /\ \A s \in Threads : s # t => Fresh(s)' = Fresh(s)
    BY <1>12, <1>f, <1>g DEF Unmap, Munmap, Fresh, NewEntry
  <2>2. Owned = {data} \ {0} /\ Owned' = {}
    BY <1>r, <2>1, OwnedAlone
  <2>3. QED
    BY <1>f, <2>1, <2>2 DEF MappingsOwned, SizeKnown
<1>13. CASE Map(t)
  <2>1. /\ pc[t] = "map" /\ pc'[t] = "drain"
        /\ data' = data /\ data = 0 /\ sizeless' = sizeless /\ Fresh(t) = 0
        /\ \A s \in Threads : s # t => Fresh(s)' = Fresh(s)
    BY <1>13, <1>f, <1>g DEF Map, Fresh, NewEntry, RefreshOK
  <2>2. /\ mapped' = mapped \union ({Fresh(t)'} \ {0})
    <3>1. tfi[t].data = 0
      BY <1>f, <2>1 DEF RefreshOK
    <3>2. CASE UNCHANGED <<tfi, maps, mapped>>
      BY <2>1, <3>1, <3>2 DEF Fresh
    <3>3. CASE /\ tfi' = [tfi EXCEPT ![t].data = Len(maps) + 1, ![t].msize = 1]
               /\ mapped' = mapped \union {Len(maps) + 1}
      <4>1. tfi'[t].data = Len(maps) + 1
        BY <1>f, <3>3 DEF NewEntry
      <4>2. QED
        BY <1>f, <2>1, <3>3, <4>1 DEF Fresh
    <3>4. QED
      BY <1>13, <3>2, <3>3 DEF Map
  <2>3. Owned = {} /\ Owned' = {Fresh(t)'} \ {0}
    BY <1>r, <2>1, OwnedAlone
  <2>4. QED
    BY <1>f, <2>1, <2>2, <2>3 DEF MappingsOwned
<1>14. CASE Drain(t)
  BY <1>14, <1>g, <1>f, MappingsKept DEF Drain, DrainBlind, Fresh
<1>15. CASE Copy(t)
  <2>1. /\ pc[t] = "copy" /\ pc'[t] = "publish"
        /\ data' = tfi[t].data /\ mapped' = mapped /\ sizeless' = sizeless
        /\ Fresh(t) = tfi[t].data /\ Fresh(t)' = 0 /\ data \in {0, tfi[t].data}
        /\ \A s \in Threads : s # t => Fresh(s)' = Fresh(s)
    BY <1>15, <1>f, <1>g DEF Copy, Fresh, NewEntry, RefreshOK
  <2>2. Owned = {tfi[t].data} \ {0} /\ Owned' = {tfi[t].data} \ {0}
    BY <1>r, <2>1, OwnedAlone
  <2>3. QED
    BY <1>f, <2>1, <2>2 DEF MappingsOwned
<1>16. CASE Publish(t)
  BY <1>16, <1>g, <1>f, MappingsKept DEF Publish, SetStatus, Fresh
<1>17. CASE Free(t)
  BY <1>17, <1>g, <1>f, MappingsKept DEF Free, Fresh, NewEntry, Blank
<1>18. CASE GotInfo(t)
  BY <1>18, <1>g, <1>f, MappingsKept DEF GotInfo, Fresh
<1>19. CASE LockWait(t)
  BY <1>19, <1>g, <1>f, MappingsKept DEF LockWait, Fresh
<1>20. CASE LockCount(t)
  BY <1>20, <1>g, <1>f, MappingsKept DEF LockCount, AddReader, Fresh
<1>21. CASE ReadData(t)
  BY <1>21, <1>g, <1>f, MappingsKept DEF ReadData, Fresh
<1>22. CASE SkipData(t)
  BY <1>22, <1>g, <1>f, MappingsKept DEF SkipData, Fresh
<1>23. CASE SentAll(t)
  BY <1>23, <1>g, <1>f, MappingsKept DEF SentAll, Send, Fresh
<1>24. CASE UnlockWait(t)
  BY <1>24, <1>g, <1>f, MappingsKept DEF UnlockWait, Fresh
<1>25. CASE UnlockCount(t)
  BY <1>25, <1>g, <1>f, MappingsKept DEF UnlockCount, AddReader, Fresh
<1>26. CASE ReadMore(t)
  BY <1>26, <1>g, <1>f, MappingsKept DEF ReadMore, Send, Fresh
<1>27. CASE UnloadCall(t)
  BY <1>27, <1>g, <1>f, MappingsKept DEF UnloadCall, Fresh
<1>28. CASE UnloadStatus(t)
  BY <1>28, <1>g, <1>f, MappingsKept DEF UnloadStatus, Fresh
<1>29. CASE UnloadUnset(t)
  BY <1>29, <1>g, <1>f, MappingsKept DEF UnloadUnset, SetStatus, Fresh
<1>30. CASE UnloadTest(t)
  BY <1>30, <1>g, <1>f, MappingsKept DEF UnloadTest, Fresh
<1>31. CASE UnloadClaim(t)
  BY <1>31, <1>g, <1>f, MappingsKept DEF UnloadClaim, SetStatus, Fresh
<1>32. CASE UnloadDrop(t)
  <2>1. /\ pc[t] = "unloadDrop" /\ pc'[t] = "unloadDone"
        /\ data' = 0 /\ sizeless' = sizeless
        /\ mapped' = IF msize = 0 THEN mapped ELSE mapped \ {data}
        /\ \A s \in Threads : Fresh(s) = 0 /\ Fresh(s)' = 0
    BY <1>32, <1>f, <1>u, <1>g DEF UnloadDrop, Munmap, Fresh, UnloadPC
  <2>2. Owned = {data} \ {0} /\ Owned' = {}
    BY <2>1, OwnedAlone
  <2>3. QED
    BY <1>f, <2>1, <2>2 DEF MappingsOwned, SizeKnown
<1>33. CASE UnloadDone(t)
  BY <1>33, <1>g, <1>f, MappingsKept DEF UnloadDone, SetStatus, Fresh
<1>34. CASE \E l \in Loads : GetCall(t, l)
  BY <1>34, <1>g, <1>f, MappingsKept DEF GetCall, Fresh
<1>35. QED
  BY <1>1, <1>2, <1>3, <1>4, <1>5, <1>6, <1>7, <1>8, <1>9, <1>10, <1>11, <1>12, <1>13,
     <1>14, <1>15, <1>16, <1>17, <1>18, <1>19, <1>20, <1>21, <1>22, <1>23, <1>24, <1>25,
     <1>26, <1>27, <1>28, <1>29, <1>30, <1>31, <1>32, <1>33, <1>34 DEF Step, Get, Use,
     Unload

-----------------------------------------------------------------------------
(***************************************************************************)
(* readcount, and what it protects.                                        *)
(***************************************************************************)
\* readcount counts those who hold the entry.
LEMMA HoldersCounted ==
  ASSUME IInv
  PROVE  /\ readcount = CountIn(Threads, pc, HoldPC)
         /\ readcount \in Nat
         /\ readcount = 0 <=> \A s \in Threads : pc[s] \notin HoldPC
<1>1. readcount = CountIn(Threads, pc, HoldPC)
  BY DEF IInv, ReadersCounted, CountIn
<1>2. QED
  BY <1>1, ThreadsFinite, CountIsNat, CountZero

\* Every step keeps it the count.
LEMMA ReadersStep ==
  ASSUME IInv, NEW t \in Threads, Step(t)
  PROVE  ReadersCounted'
<1> USE DEF entry, In, HoldPC
<1>h. readcount = CountIn(Threads, pc, HoldPC) /\ readcount \in Nat
  BY HoldersCounted
<1>g. /\ pc' \in [Threads -> Places]
      /\ \A s \in Threads : s # t => pc'[s] = pc[s]
      /\ CountsMoved(pc[t], pc'[t])
      /\ \A from, to : Goto(t, from, to) => pc[t] = from /\ pc'[t] = to
  BY StepMoves DEF IInv, LockInv, StatusIsLock
<1>m. CountIn(Threads, pc', HoldPC) =
        CountIn(Threads, pc, HoldPC) + In(pc'[t], HoldPC) - In(pc[t], HoldPC)
  BY <1>g DEF CountsMoved, Counted
<1>d. pc[t] = "copy" => readcount = 0
  <2>1. pc[t] = "copy" => \A s \in Threads : pc[s] \notin HoldPC
    BY DEF IInv, Drained
  <2>2. QED
    BY <2>1, HoldersCounted
<1>q. readcount' = CountIn(Threads, pc', HoldPC) => ReadersCounted'
  BY DEF ReadersCounted, CountIn
<1>1. CASE CheckTime(t)
  BY <1>1, <1>g, <1>h, <1>m, <1>d, <1>q DEF CheckTime
<1>2. CASE CheckStatus(t)
  BY <1>2, <1>g, <1>h, <1>m, <1>d, <1>q DEF CheckStatus
<1>3. CASE Expire(t)
  BY <1>3, <1>g, <1>h, <1>m, <1>d, <1>q DEF Expire, SetStatus
<1>4. CASE Recheck(t)
  BY <1>4, <1>g, <1>h, <1>m, <1>d, <1>q DEF Recheck
<1>5. CASE ResetTest(t)
  BY <1>5, <1>g, <1>h, <1>m, <1>d, <1>q DEF ResetTest
<1>6. CASE Reset(t)
  BY <1>6, <1>g, <1>h, <1>m, <1>d, <1>q DEF Reset, SetStatus
<1>7. CASE Restore(t)
  BY <1>7, <1>g, <1>h, <1>m, <1>d, <1>q DEF Restore, SetStatus
<1>8. CASE Take(t)
  BY <1>8, <1>g, <1>h, <1>m, <1>d, <1>q DEF Take, TakeUnchecked, SetStatus
<1>9. CASE Await(t)
  BY <1>9, <1>g, <1>h, <1>m, <1>d, <1>q DEF Await
<1>10. CASE Stat(t)
  BY <1>10, <1>g, <1>h, <1>m, <1>d, <1>q DEF Stat
<1>11. CASE Keep(t)
  BY <1>11, <1>g, <1>h, <1>m, <1>d, <1>q DEF Keep
<1>12. CASE Unmap(t)
  BY <1>12, <1>g, <1>h, <1>m, <1>d, <1>q DEF Unmap, Munmap
<1>13. CASE Map(t)
  BY <1>13, <1>g, <1>h, <1>m, <1>d, <1>q DEF Map
<1>14. CASE Drain(t)
  BY <1>14, <1>g, <1>h, <1>m, <1>d, <1>q DEF Drain, DrainBlind
<1>15. CASE Copy(t)
  BY <1>15, <1>g, <1>h, <1>m, <1>d, <1>q DEF Copy
<1>16. CASE Publish(t)
  BY <1>16, <1>g, <1>h, <1>m, <1>d, <1>q DEF Publish, SetStatus
<1>17. CASE Free(t)
  BY <1>17, <1>g, <1>h, <1>m, <1>d, <1>q DEF Free
<1>18. CASE GotInfo(t)
  BY <1>18, <1>g, <1>h, <1>m, <1>d, <1>q DEF GotInfo
<1>19. CASE LockWait(t)
  BY <1>19, <1>g, <1>h, <1>m, <1>d, <1>q DEF LockWait
<1>20. CASE LockCount(t)
  BY <1>20, <1>g, <1>h, <1>m, <1>d, <1>q DEF LockCount, AddReader
<1>21. CASE ReadData(t)
  BY <1>21, <1>g, <1>h, <1>m, <1>d, <1>q DEF ReadData
<1>22. CASE SkipData(t)
  BY <1>22, <1>g, <1>h, <1>m, <1>d, <1>q DEF SkipData
<1>23. CASE SentAll(t)
  BY <1>23, <1>g, <1>h, <1>m, <1>d, <1>q DEF SentAll, Send
<1>24. CASE UnlockWait(t)
  BY <1>24, <1>g, <1>h, <1>m, <1>d, <1>q DEF UnlockWait
<1>25. CASE UnlockCount(t)
  BY <1>25, <1>g, <1>h, <1>m, <1>d, <1>q DEF UnlockCount, AddReader
<1>26. CASE ReadMore(t)
  BY <1>26, <1>g, <1>h, <1>m, <1>d, <1>q DEF ReadMore, Send
<1>27. CASE UnloadCall(t)
  BY <1>27, <1>g, <1>h, <1>m, <1>d, <1>q DEF UnloadCall
<1>28. CASE UnloadStatus(t)
  BY <1>28, <1>g, <1>h, <1>m, <1>d, <1>q DEF UnloadStatus
<1>29. CASE UnloadUnset(t)
  BY <1>29, <1>g, <1>h, <1>m, <1>d, <1>q DEF UnloadUnset, SetStatus
<1>30. CASE UnloadTest(t)
  BY <1>30, <1>g, <1>h, <1>m, <1>d, <1>q DEF UnloadTest
<1>31. CASE UnloadClaim(t)
  BY <1>31, <1>g, <1>h, <1>m, <1>d, <1>q DEF UnloadClaim, SetStatus
<1>32. CASE UnloadDrop(t)
  BY <1>32, <1>g, <1>h, <1>m, <1>d, <1>q DEF UnloadDrop, Munmap
<1>33. CASE UnloadDone(t)
  BY <1>33, <1>g, <1>h, <1>m, <1>d, <1>q DEF UnloadDone, SetStatus
<1>34. CASE \E l \in Loads : GetCall(t, l)
  BY <1>34, <1>g, <1>h, <1>m, <1>d, <1>q DEF GetCall
<1>35. QED
  BY <1>1, <1>2, <1>3, <1>4, <1>5, <1>6, <1>7, <1>8, <1>9, <1>10, <1>11, <1>12, <1>13,
     <1>14, <1>15, <1>16, <1>17, <1>18, <1>19, <1>20, <1>21, <1>22, <1>23, <1>24, <1>25,
     <1>26, <1>27, <1>28, <1>29, <1>30, <1>31, <1>32, <1>33, <1>34 DEF Step, Get, Use,
     Unload

\* A refresh replaces the entry when it has waited for its readers (282), and
\* nobody becomes one before it has.
LEMMA DrainedStep ==
  ASSUME IInv, NEW t \in Threads, Step(t)
  PROVE  Drained'
<1>g. /\ pc' \in [Threads -> Places]
      /\ \A s \in Threads : s # t => pc'[s] = pc[s]
      /\ CountsMoved(pc[t], pc'[t])
      /\ \A from, to : Goto(t, from, to) => pc[t] = from /\ pc'[t] = to
  BY StepMoves DEF IInv, LockInv, StatusIsLock
<1>1. /\ pc'[t] \in HoldPC => pc[t] \in HoldPC \union {"count"}
      /\ pc'[t] = "copy" => readcount = 0 /\ pc[t] # "copy"
  <2>1. CASE CheckTime(t)
    BY <2>1, <1>g DEF CheckTime, HoldPC
  <2>2. CASE CheckStatus(t)
    BY <2>2, <1>g DEF CheckStatus, HoldPC
  <2>3. CASE Expire(t)
    BY <2>3, <1>g DEF Expire, SetStatus, HoldPC
  <2>4. CASE Recheck(t)
    BY <2>4, <1>g DEF Recheck, HoldPC
  <2>5. CASE ResetTest(t)
    BY <2>5, <1>g DEF ResetTest, HoldPC
  <2>6. CASE Reset(t)
    BY <2>6, <1>g DEF Reset, SetStatus, HoldPC
  <2>7. CASE Restore(t)
    BY <2>7, <1>g DEF Restore, SetStatus, HoldPC
  <2>8. CASE Take(t)
    BY <2>8, <1>g DEF Take, TakeUnchecked, SetStatus, HoldPC
  <2>9. CASE Await(t)
    BY <2>9, <1>g DEF Await, HoldPC
  <2>10. CASE Stat(t)
    BY <2>10, <1>g DEF Stat, HoldPC
  <2>11. CASE Keep(t)
    BY <2>11, <1>g DEF Keep, HoldPC
  <2>12. CASE Unmap(t)
    BY <2>12, <1>g DEF Unmap, Munmap, HoldPC
  <2>13. CASE Map(t)
    BY <2>13, <1>g DEF Map, HoldPC
  <2>14. CASE Drain(t)
    BY <2>14, <1>g DEF Drain, DrainBlind, HoldPC
  <2>15. CASE Copy(t)
    BY <2>15, <1>g DEF Copy, HoldPC
  <2>16. CASE Publish(t)
    BY <2>16, <1>g DEF Publish, SetStatus, HoldPC
  <2>17. CASE Free(t)
    BY <2>17, <1>g DEF Free, HoldPC
  <2>18. CASE GotInfo(t)
    BY <2>18, <1>g DEF GotInfo, HoldPC
  <2>19. CASE LockWait(t)
    BY <2>19, <1>g DEF LockWait, HoldPC
  <2>20. CASE LockCount(t)
    BY <2>20, <1>g DEF LockCount, AddReader, HoldPC
  <2>21. CASE ReadData(t)
    BY <2>21, <1>g DEF ReadData, HoldPC
  <2>22. CASE SkipData(t)
    BY <2>22, <1>g DEF SkipData, HoldPC
  <2>23. CASE SentAll(t)
    BY <2>23, <1>g DEF SentAll, Send, HoldPC
  <2>24. CASE UnlockWait(t)
    BY <2>24, <1>g DEF UnlockWait, HoldPC
  <2>25. CASE UnlockCount(t)
    BY <2>25, <1>g DEF UnlockCount, AddReader, HoldPC
  <2>26. CASE ReadMore(t)
    BY <2>26, <1>g DEF ReadMore, Send, HoldPC
  <2>27. CASE UnloadCall(t)
    BY <2>27, <1>g DEF UnloadCall, HoldPC
  <2>28. CASE UnloadStatus(t)
    BY <2>28, <1>g DEF UnloadStatus, HoldPC
  <2>29. CASE UnloadUnset(t)
    BY <2>29, <1>g DEF UnloadUnset, SetStatus, HoldPC
  <2>30. CASE UnloadTest(t)
    BY <2>30, <1>g DEF UnloadTest, HoldPC
  <2>31. CASE UnloadClaim(t)
    BY <2>31, <1>g DEF UnloadClaim, SetStatus, HoldPC
  <2>32. CASE UnloadDrop(t)
    BY <2>32, <1>g DEF UnloadDrop, Munmap, HoldPC
  <2>33. CASE UnloadDone(t)
    BY <2>33, <1>g DEF UnloadDone, SetStatus, HoldPC
  <2>34. CASE \E l \in Loads : GetCall(t, l)
    BY <2>34, <1>g DEF GetCall, HoldPC
  <2>35. QED
    BY <2>1, <2>2, <2>3, <2>4, <2>5, <2>6, <2>7, <2>8, <2>9, <2>10, <2>11, <2>12, <2>13,
       <2>14, <2>15, <2>16, <2>17, <2>18, <2>19, <2>20, <2>21, <2>22, <2>23, <2>24, <2>25,
       <2>26, <2>27, <2>28, <2>29, <2>30, <2>31, <2>32, <2>33, <2>34 DEF Step, Get, Use,
       Unload
<1>2. CASE \E s \in Threads : pc[s] = "copy"
  BY <1>g, <1>1, <1>2 DEF IInv, PromptLock, Drained, HoldPC
<1>3. CASE \A s \in Threads : pc[s] # "copy"
  <2>1. (\E s \in Threads : pc'[s] = "copy") => pc'[t] = "copy"
    BY <1>g, <1>3
  <2>2. pc'[t] = "copy" => \A s \in Threads : pc[s] \notin HoldPC
    BY <1>1, HoldersCounted
  <2>3. QED
    BY <1>g, <1>1, <2>1, <2>2 DEF Drained, HoldPC
<1>4. QED
  BY <1>2, <1>3

-----------------------------------------------------------------------------
(***************************************************************************)
(* The invariant holds.                                                    *)
(***************************************************************************)
\* It holds at first ...
LEMMA InitInvariant == Init => IInv
<1> SUFFICES ASSUME Init PROVE IInv
  OBVIOUS
<1>1. \A t \in Threads : pc[t] = "idle"
  BY DEF Init
<1>2. \A set \in Counted : CountIn(Threads, pc, set) = 0
  BY <1>1, ThreadsFinite, CountZero DEF Counted, CheckPC, RefreshPC, HoldPC
<1>3. TypeOK
  BY EntryAssumption DEF Init, TypeOK, Blank, OtherPC
<1>4. StatusIsLock
  BY <1>2, <1>3 DEF Init, StatusIsLock, Counted, CountIn
<1>5. ReadersCounted
  BY <1>2 DEF Init, ReadersCounted, Counted, CountIn
<1>6. StarterFirst /\ RefreshOK /\ SizeKnown /\ UnloadOK
  BY <1>1 DEF Init, StarterFirst, RefreshOK, SizeKnown, UnloadOK, UnloadPC, Threads, Blank
<1>7. MappingsOwned
  BY <1>1 DEF Init, MappingsOwned, Owned, Fresh
<1>8. PromptLock /\ Drained
  BY <1>1 DEF PromptLock, Drained
<1>9. QED
  BY <1>4, <1>5, <1>6, <1>7, <1>8 DEF IInv, LockInv

\* The clock and the file change nothing in the cache.
LEMMA WorldStep ==
  ASSUME LockInv, Tick \/ ChangeFile
  PROVE  LockInv' /\ UNCHANGED <<pc, readcount>>
<1> USE DEF entry, memory, locals
<1>1. UNCHANGED <<status, pc, tfi, olddata, locallock, data, msize, mapped, sizeless, readcount>>
  BY DEF Tick, ChangeFile
<1>2. TypeOK'
  <2>t. TypeOK
    BY DEF LockInv, StatusIsLock
  <2>1. CASE Tick
    BY <2>1, <2>t, EntryAssumption DEF Tick, TypeOK
  <2>2. CASE ChangeFile
    <3>1. 0 .. version \subseteq 0 .. version' /\ version' \in Nat
      BY <2>2, <2>t DEF ChangeFile, TypeOK
    <3>2. maps' \in Seq(1 .. version')
      BY <2>2, <2>t DEF ChangeFile, TypeOK
    <3>3. tfi' \in [Threads -> NewEntry']
      BY <2>2, <2>t, <3>1 DEF ChangeFile, TypeOK, NewEntry
    <3>4. QED
      BY <2>2, <2>t, <3>1, <3>2, <3>3 DEF ChangeFile, TypeOK, NewEntry
  <2>3. QED
    BY <2>1, <2>2
<1>3. QED
  BY <1>1, <1>2 DEF LockInv, StatusIsLock, StarterFirst, RefreshOK, SizeKnown, UnloadOK,
     MappingsOwned, Owned, Fresh

\* ... and every step keeps what holds under any schedule ...
LEMMA NextLockInv == LockInv /\ [Next]_vars => LockInv'
<1> SUFFICES ASSUME LockInv, [Next]_vars PROVE LockInv'
  OBVIOUS
<1>1. ASSUME NEW t \in Threads, Step(t) PROVE LockInv'
  <2>1. StatusIsLock'
    <3>1. LockCounted' /\ TypeOK'
      BY <1>1, LockStep, TypesStep
    <3>2. QED
      BY <3>1 DEF StatusIsLock, LockCounted, CountIn
  <2>2. QED
    BY <1>1, <2>1, StarterStep, RefreshStep, MappingsStep DEF LockInv
<1>2. CASE UNCHANGED vars
  <2>1. StatusIsLock'
    BY <1>2, Zenon DEF vars, LockInv, StatusIsLock, TypeOK
  <2>2. StarterFirst' /\ RefreshOK' /\ SizeKnown' /\ UnloadOK'
    BY <1>2 DEF vars, LockInv, StarterFirst, RefreshOK, SizeKnown, UnloadOK
  <2>3. MappingsOwned'
    <3>1. Owned' = Owned
      BY <1>2 DEF vars, Owned, Fresh
    <3>2. mapped' = mapped /\ sizeless' = sizeless
      BY <1>2 DEF vars
    <3>3. QED
      BY <3>1, <3>2 DEF LockInv, MappingsOwned
  <2>4. QED
    BY <2>1, <2>2, <2>3 DEF LockInv
<1>3. QED
  BY <1>1, <1>2, WorldStep DEF Next, Step

\* ... and, under PromptLock, the rest.
LEMMA NextInvariant == IInv /\ [Next /\ PromptLock']_vars => IInv'
<1> SUFFICES ASSUME IInv, [Next /\ PromptLock']_vars PROVE IInv'
  OBVIOUS
<1>1. LockInv'
  BY NextLockInv DEF IInv
<1>2. CASE \E t \in Threads : Step(t) /\ PromptLock'
  BY <1>1, <1>2, ReadersStep, DrainedStep DEF IInv
<1>3. CASE (Tick \/ ChangeFile) /\ PromptLock'
  <2>1. UNCHANGED <<pc, readcount>>
    BY <1>3, WorldStep DEF IInv
  <2>2. ReadersCounted' /\ Drained'
    BY <2>1 DEF IInv, ReadersCounted, Drained
  <2>3. QED
    BY <1>1, <1>3, <2>2 DEF IInv
<1>4. CASE UNCHANGED vars
  BY <1>1, <1>4 DEF vars, IInv, PromptLock, ReadersCounted, Drained
<1>5. QED
  BY <1>2, <1>3, <1>4 DEF Next, Step

(***************************************************************************)
(* The status of an entry is a lock under any schedule (247-288, 163-177): *)
(* one thread at a time checks or refreshes the entry, however often the   *)
(* others find it due.                                                     *)
(***************************************************************************)
THEOREM OneThreadRefreshes == Spec => []StatusIsLock
<1>1. Init => LockInv
  BY InitInvariant DEF IInv
<1>2. LockInv => StatusIsLock
  BY DEF LockInv
<1>3. QED
  BY <1>1, <1>2, NextLockInv, PTL DEF Spec

(***************************************************************************)
(* Under any schedule, each mapping is referred to by the entry or by the  *)
(* refresh under way, and is unmapped once (271-284, 130-139), unless its  *)
(* length was lost.                                                        *)
(***************************************************************************)
THEOREM MappingsHaveOwners == Spec => []MappingsOwned
<1>1. Init => LockInv
  BY InitInvariant DEF IInv
<1>2. LockInv => MappingsOwned
  BY DEF LockInv
<1>3. QED
  BY <1>1, <1>2, NextLockInv, PTL DEF Spec

(***************************************************************************)
(* The invariant of the behaviours in which lock's test and increment      *)
(* (157, 158) are not overtaken by a refresh.                              *)
(***************************************************************************)
THEOREM EntryInvariant == PromptSpec => []IInv
BY InitInvariant, NextInvariant, PTL DEF PromptSpec

(***************************************************************************)
(* readcount is the number of threads that hold the entry: the structure   *)
(* assignment (283), which sets it to 0, finds it 0.                       *)
(***************************************************************************)
THEOREM ReadersAreCounted == PromptSpec => []ReadersCounted
<1>1. IInv => ReadersCounted
  BY DEF IInv
<1>2. QED
  BY <1>1, EntryInvariant, PTL

(***************************************************************************)
(* Whoever holds the entry reads one modification time and one check time  *)
(* throughout (152-161).  Nothing is said of its data, which a refresh     *)
(* unmaps before it waits for those who hold the entry (277, 282).         *)
(***************************************************************************)
THEOREM HeldEntryStaysFixed == PromptSpec => HeldEntryFixed
<1> DEFINE Held == \E t \in Threads : pc[t] \in HoldPC /\ pc'[t] \in HoldPC
<1>1. ASSUME IInv, NEW t \in Threads, Step(t), Held
      PROVE  UNCHANGED <<modification_time, check_time>>
  <2> USE DEF entry
  <2>1. ~ Copy(t)
    BY <1>1 DEF Copy, Goto, IInv, Drained
  <2>2. CASE Get(t)
    BY <2>1, <2>2 DEF Get, CheckTime, CheckStatus, Expire, Recheck, ResetTest, Reset, Restore, Take,
       TakeUnchecked, Await, Stat, Keep, Unmap, Map, Drain, DrainBlind, Publish, Free, SetStatus
  <2>3. CASE Use(t) \/ ReadMore(t)
    BY <2>3 DEF Use, ReadMore, GotInfo, LockWait, LockCount, ReadData, SkipData, SentAll, Send,
       UnlockWait, UnlockCount, AddReader
  <2>4. CASE Unload(t)
    BY <2>4 DEF Unload, UnloadCall, UnloadStatus, UnloadUnset, UnloadTest, UnloadClaim, UnloadDrop,
       UnloadDone, SetStatus
  <2>5. CASE \E l \in Loads : GetCall(t, l)
    BY <2>5 DEF GetCall
  <2>6. QED
    BY <1>1, <2>2, <2>3, <2>4, <2>5 DEF Step
<1>2. IInv /\ [Next /\ PromptLock']_vars =>
        [Held => UNCHANGED <<modification_time, check_time>>]_vars
  <2> SUFFICES ASSUME IInv, Next, Held
               PROVE  UNCHANGED <<modification_time, check_time>>
    BY DEF vars
  <2>1. CASE Tick \/ ChangeFile
    BY <2>1 DEF Tick, ChangeFile, entry
  <2>2. CASE \E t \in Threads : Step(t)
    BY <1>1, <2>2
  <2>3. QED
    BY <2>1, <2>2 DEF Next, Step
<1>3. QED
  BY <1>2, EntryInvariant, PTL DEF PromptSpec, HeldEntryFixed
=============================================================================
