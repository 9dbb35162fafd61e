------------------------- MODULE XsFileTableProofs --------------------------
(***************************************************************************)
(* What the reader/writer lock around the file table guarantees, for any   *)
(* finite set of threads and any set of paths, when no writer comes in     *)
(* between a reader's test and its increment (PromptSpec).                 *)
(***************************************************************************)
EXTENDS XsFileTable, FiniteSetTheorems, TLAPS

-----------------------------------------------------------------------------
(***************************************************************************)
(* Counting threads.                                                       *)
(***************************************************************************)

\* A step that moves one thread changes the sets of counted threads by it.
LEMMA Moved ==
  ASSUME TypeOK, NEW t \in Threads, NEW from, NEW to, Goto(t, from, to)
  PROVE  /\ Readers' = IF to \in ReadPC THEN Readers \union {t} ELSE Readers \ {t}
         /\ Writers' = IF to \in WritePC THEN Writers \union {t} ELSE Writers \ {t}
         /\ t \in Readers <=> from \in ReadPC
         /\ t \in Writers <=> from \in WritePC
<1>1. /\ pc[t] = from
      /\ \A s \in Threads : pc'[s] = IF s = t THEN to ELSE pc[s]
  BY DEF Goto, TypeOK
<1>2. Readers' = IF to \in ReadPC THEN Readers \union {t} ELSE Readers \ {t}
  BY <1>1 DEF Readers
<1>3. Writers' = IF to \in WritePC THEN Writers \union {t} ELSE Writers \ {t}
  BY <1>1 DEF Writers
<1>4. QED
  BY <1>1, <1>2, <1>3 DEF Readers, Writers

\* Numbers of threads are natural numbers.
LEMMA FiniteCounts ==
  /\ IsFiniteSet(Readers) /\ Cardinality(Readers) \in Nat
  /\ IsFiniteSet(Writers) /\ Cardinality(Writers) \in Nat
<1>1. Readers \in SUBSET Threads /\ Writers \in SUBSET Threads
  BY DEF Readers, Writers
<1>2. IsFiniteSet(Readers) /\ IsFiniteSet(Writers)
  BY <1>1, TableAssumption, FS_Subset
<1>3. QED
  BY <1>2, FS_CardinalityType

\* What a place in the code counts for in gxs_statread and in gxs_statwrite.
ReadCount(place) == IF place \in ReadPC THEN 1 ELSE 0
WriteCount(place) == IF place \in WritePC THEN 1 ELSE 0

\* How the numbers of readers and of writers change when one thread moves.
LEMMA Recounted ==
  ASSUME TypeOK, NEW t \in Threads, NEW from, NEW to, Goto(t, from, to)
  PROVE  /\ Cardinality(Readers') = Cardinality(Readers) + ReadCount(to) - ReadCount(from)
         /\ Cardinality(Writers') = Cardinality(Writers) + WriteCount(to) - WriteCount(from)
<1>m. /\ Readers' = IF to \in ReadPC THEN Readers \union {t} ELSE Readers \ {t}
      /\ Writers' = IF to \in WritePC THEN Writers \union {t} ELSE Writers \ {t}
      /\ t \in Readers <=> from \in ReadPC
      /\ t \in Writers <=> from \in WritePC
  BY Moved
<1>1. Cardinality(Readers') = Cardinality(Readers) + ReadCount(to) - ReadCount(from)
  <2>1. CASE to \in ReadPC
    <3>1. Cardinality(Readers \union {t}) =
            IF t \in Readers THEN Cardinality(Readers) ELSE Cardinality(Readers) + 1
      BY FiniteCounts, FS_AddElement
    <3>2. QED
      BY <1>m, <2>1, <3>1, FiniteCounts DEF ReadCount
  <2>2. CASE to \notin ReadPC
    <3>1. Cardinality(Readers \ {t}) =
            IF t \in Readers THEN Cardinality(Readers) - 1 ELSE Cardinality(Readers)
      BY FiniteCounts, FS_RemoveElement
    <3>2. QED
      BY <1>m, <2>2, <3>1, FiniteCounts DEF ReadCount
  <2>3. QED
    BY <2>1, <2>2
<1>2. Cardinality(Writers') = Cardinality(Writers) + WriteCount(to) - WriteCount(from)
  <2>1. CASE to \in WritePC
    <3>1. Cardinality(Writers \union {t}) =
            IF t \in Writers THEN Cardinality(Writers) ELSE Cardinality(Writers) + 1
      BY FiniteCounts, FS_AddElement
    <3>2. QED
      BY <1>m, <2>1, <3>1, FiniteCounts DEF WriteCount
  <2>2. CASE to \notin WritePC
    <3>1. Cardinality(Writers \ {t}) =
            IF t \in Writers THEN Cardinality(Writers) - 1 ELSE Cardinality(Writers)
      BY FiniteCounts, FS_RemoveElement
    <3>2. QED
      BY <1>m, <2>2, <3>1, FiniteCounts DEF WriteCount
  <2>3. QED
    BY <2>1, <2>2
<1>3. QED
  BY <1>1, <1>2

\* gxs_statwrite is 1 exactly when there is a writer, and then there is one.
LEMMA OneWriter ==
  ASSUME TypeOK, CountersOK
  PROVE  /\ gxs_statwrite = 0 => \A t \in Threads : pc[t] \notin WritePC
         /\ \A s, t \in Threads : pc[s] \in WritePC /\ pc[t] \in WritePC => s = t
         /\ \A t \in Threads : pc[t] \in WritePC => gxs_statwrite = 1
         /\ gxs_statread = 0 => \A t \in Threads : pc[t] \notin ReadPC
<1>1. Cardinality(Writers) \in {0, 1}
  BY DEF TypeOK, CountersOK
<1>2. Cardinality(Writers) = 0 => Writers = {}
  BY FiniteCounts, FS_EmptySet
<1>3. Cardinality(Writers) = 1 => \E x : Writers = {x}
  BY FiniteCounts, FS_Singleton
<1>4. Cardinality(Readers) = 0 => Readers = {}
  BY FiniteCounts, FS_EmptySet
<1>5. \A t \in Threads : pc[t] \in WritePC <=> t \in Writers
  BY DEF Writers
<1>6. \A t \in Threads : pc[t] \in ReadPC <=> t \in Readers
  BY DEF Readers
<1>7. QED
  BY <1>1, <1>2, <1>3, <1>4, <1>5, <1>6 DEF CountersOK

-----------------------------------------------------------------------------
(***************************************************************************)
(* The counters.  These two facts need no assumption on the schedule.      *)
(***************************************************************************)
LEMMA CountersStep ==
  ASSUME TypeOK, CountersOK, NEW t \in Threads,
         Step(t) \/ \E p \in Paths : GetCall(t, p)
  PROVE  TypeOK' /\ CountersOK'
<1> USE DEF ReadCount, WriteCount, ReadPC, WritePC
<1>w. \A s \in Threads : pc[s] \in WritePC => gxs_statwrite = 1
  BY OneWriter
<1>c. /\ Cardinality(Readers) \in Nat /\ Cardinality(Writers) \in Nat
      /\ Cardinality(Readers') \in Nat
  <2>1. Readers' \in SUBSET Threads
    BY DEF Readers
  <2>2. IsFiniteSet(Readers')
    BY <2>1, TableAssumption, FS_Subset
  <2>3. QED
    BY <2>2, FiniteCounts, FS_CardinalityType
<1>1. CASE \E p \in Paths : GetCall(t, p)
  <2>p. PICK p \in Paths : GetCall(t, p)
    BY <1>1
  <2>1. Goto(t, "idle", "wait")
    BY <2>p DEF GetCall
  <2>2. /\ Cardinality(Readers') = Cardinality(Readers)
        /\ Cardinality(Writers') = Cardinality(Writers)
    BY <2>1, <1>c, Recounted
  <2>3. CountersOK'
    BY <1>c, <2>p, <2>2 DEF GetCall, CountersOK, TypeOK
  <2>4. TypeOK'
    BY <1>c, <1>w, <2>p, <2>1, <2>3, TableAssumption DEF GetCall, TypeOK, CountersOK, CallPC, Goto
  <2>5. QED
    BY <2>3, <2>4
<1>2. CASE EnterWait(t)
  <2>1. Goto(t, "wait", "enter")
    BY <1>2 DEF EnterWait
  <2>2. /\ Cardinality(Readers') = Cardinality(Readers)
        /\ Cardinality(Writers') = Cardinality(Writers)
    BY <2>1, <1>c, Recounted
  <2>3. CountersOK'
    BY <1>c, <1>2, <2>2 DEF EnterWait, CountersOK, TypeOK
  <2>4. TypeOK'
    BY <1>c, <1>w, <1>2, <2>1, <2>3, TableAssumption DEF EnterWait, TypeOK, CountersOK, CallPC, Goto
  <2>5. QED
    BY <2>3, <2>4
<1>3. CASE EnterCount(t)
  <2>1. Goto(t, "enter", "lookup")
    BY <1>3 DEF EnterCount
  <2>2. /\ Cardinality(Readers') = Cardinality(Readers) + 1
        /\ Cardinality(Writers') = Cardinality(Writers)
    BY <2>1, <1>c, Recounted
  <2>3. CountersOK'
    BY <1>c, <1>3, <2>2 DEF EnterCount, CountersOK, TypeOK
  <2>4. TypeOK'
    BY <1>c, <1>w, <1>3, <2>1, <2>3, TableAssumption DEF EnterCount, TypeOK, CountersOK, CallPC, Goto
  <2>5. QED
    BY <2>3, <2>4
<1>4. CASE LookupHit(t)
  <2>1. Goto(t, "lookup", "leave")
    BY <1>4 DEF LookupHit
  <2>2. /\ Cardinality(Readers') = Cardinality(Readers)
        /\ Cardinality(Writers') = Cardinality(Writers)
    BY <2>1, <1>c, Recounted
  <2>3. CountersOK'
    BY <1>c, <1>4, <2>2 DEF LookupHit, CountersOK, TypeOK
  <2>4. TypeOK'
    BY <1>c, <1>w, <1>4, <2>1, <2>3, TableAssumption DEF LookupHit, TypeOK, CountersOK, CallPC, Goto
  <2>5. QED
    BY <2>3, <2>4
<1>5. CASE LookupMiss(t)
  <2>1. Goto(t, "lookup", "upgrade")
    BY <1>5 DEF LookupMiss
  <2>2. /\ Cardinality(Readers') = Cardinality(Readers)
        /\ Cardinality(Writers') = Cardinality(Writers)
    BY <2>1, <1>c, Recounted
  <2>3. CountersOK'
    BY <1>c, <1>5, <2>2 DEF LookupMiss, CountersOK, TypeOK
  <2>4. TypeOK'
    BY <1>c, <1>w, <1>5, <2>1, <2>3, TableAssumption DEF LookupMiss, TypeOK, CountersOK, CallPC, Goto
  <2>5. QED
    BY <2>3, <2>4
<1>6. CASE UpgradeClaim(t)
  <2>1. Goto(t, "upgrade", "drop")
    BY <1>6 DEF UpgradeClaim
  <2>2. /\ Cardinality(Readers') = Cardinality(Readers)
        /\ Cardinality(Writers') = Cardinality(Writers) + 1
    BY <2>1, <1>c, Recounted
  <2>0. gxs_statwrite = 0 /\ gxs_statwrite' = 1 /\ gxs_statread' = gxs_statread
    BY <1>6 DEF UpgradeClaim
  <2>a. Cardinality(Writers) = 0 /\ Cardinality(Readers) = gxs_statread
    BY <2>0 DEF CountersOK
  <2>b. Cardinality(Writers') = 1 /\ Cardinality(Readers') = gxs_statread
    BY <2>a, <2>2
  <2>3. CountersOK'
    BY <2>0, <2>b DEF CountersOK
  <2>4. TypeOK'
    BY <1>c, <1>w, <1>6, <2>1, <2>3, TableAssumption DEF UpgradeClaim, TypeOK, CountersOK, CallPC, Goto
  <2>5. QED
    BY <2>3, <2>4
<1>7. CASE UpgradeDrop(t)
  <2>1. Goto(t, "drop", "drain")
    BY <1>7 DEF UpgradeDrop
  <2>2. /\ Cardinality(Readers') = Cardinality(Readers) - 1
        /\ Cardinality(Writers') = Cardinality(Writers)
    BY <2>1, <1>c, Recounted
  <2>3. CountersOK'
    BY <1>c, <1>7, <2>2 DEF UpgradeDrop, CountersOK, TypeOK
  <2>4. TypeOK'
    BY <1>c, <1>w, <1>7, <2>1, <2>3, TableAssumption DEF UpgradeDrop, TypeOK, CountersOK, CallPC, Goto
  <2>5. QED
    BY <2>3, <2>4
<1>8. CASE UpgradeDrain(t)
  <2>1. Goto(t, "drain", "put")
    BY <1>8 DEF UpgradeDrain
  <2>2. /\ Cardinality(Readers') = Cardinality(Readers)
        /\ Cardinality(Writers') = Cardinality(Writers)
    BY <2>1, <1>c, Recounted
  <2>3. CountersOK'
    BY <1>c, <1>8, <2>2 DEF UpgradeDrain, CountersOK, TypeOK
  <2>4. TypeOK'
    BY <1>c, <1>w, <1>8, <2>1, <2>3, TableAssumption DEF UpgradeDrain, TypeOK, CountersOK, CallPC, Goto
  <2>5. QED
    BY <2>3, <2>4
<1>9. CASE Put(t)
  <2>1. Goto(t, "put", "downgrade")
    BY <1>9 DEF Put
  <2>2. /\ Cardinality(Readers') = Cardinality(Readers)
        /\ Cardinality(Writers') = Cardinality(Writers)
    BY <2>1, <1>c, Recounted
  <2>3. CountersOK'
    BY <1>c, <1>9, <2>2 DEF Put, CountersOK, TypeOK
  <2>0. aborted' \in BOOLEAN
    BY <1>9 DEF Put
  <2>4. TypeOK'
    <3>1. table' \subseteq Paths
      BY <1>9, <2>1, NoPathAssumption DEF Put, TypeOK, Goto
    <3>2. pc' \in [Threads -> {"idle"} \union CallPC]
      BY <2>1 DEF TypeOK, CallPC, Goto
    <3>3. QED
      BY <1>9, <2>0, <2>1, <3>1, <3>2 DEF Put, TypeOK, Goto
  <2>5. QED
    BY <2>3, <2>4
<1>10. CASE PutFails(t)
  <2>1. Goto(t, "put", "giveUp")
    BY <1>10 DEF PutFails
  <2>2. /\ Cardinality(Readers') = Cardinality(Readers)
        /\ Cardinality(Writers') = Cardinality(Writers)
    BY <2>1, <1>c, Recounted
  <2>3. CountersOK'
    BY <1>c, <1>10, <2>2 DEF PutFails, CountersOK, TypeOK
  <2>4. TypeOK'
    BY <1>c, <1>w, <1>10, <2>1, <2>3, TableAssumption DEF PutFails, TypeOK, CountersOK, CallPC, Goto
  <2>5. QED
    BY <2>3, <2>4
<1>11. CASE GiveUp(t)
  <2>1. Goto(t, "giveUp", "idle")
    BY <1>11 DEF GiveUp
  <2>2. /\ Cardinality(Readers') = Cardinality(Readers)
        /\ Cardinality(Writers') = Cardinality(Writers) - 1
    BY <2>1, <1>c, Recounted
  <2>3. CountersOK'
    BY <1>c, <1>11, <2>2 DEF GiveUp, CountersOK, TypeOK
  <2>4. TypeOK'
    BY <1>c, <1>w, <1>11, <2>1, <2>3, TableAssumption DEF GiveUp, TypeOK, CountersOK, CallPC, Goto
  <2>5. QED
    BY <2>3, <2>4
<1>12. CASE Downgrade(t)
  <2>1. Goto(t, "downgrade", "recount")
    BY <1>12 DEF Downgrade
  <2>2. /\ Cardinality(Readers') = Cardinality(Readers)
        /\ Cardinality(Writers') = Cardinality(Writers) - 1
    BY <2>1, <1>c, Recounted
  <2>3. CountersOK'
    BY <1>c, <1>12, <2>2 DEF Downgrade, CountersOK, TypeOK
  <2>4. TypeOK'
    BY <1>c, <1>w, <1>12, <2>1, <2>3, TableAssumption DEF Downgrade, TypeOK, CountersOK, CallPC, Goto
  <2>5. QED
    BY <2>3, <2>4
<1>13. CASE Recount(t)
  <2>1. Goto(t, "recount", "leave")
    BY <1>13 DEF Recount
  <2>2. /\ Cardinality(Readers') = Cardinality(Readers) + 1
        /\ Cardinality(Writers') = Cardinality(Writers)
    BY <2>1, <1>c, Recounted
  <2>3. CountersOK'
    BY <1>c, <1>13, <2>2 DEF Recount, CountersOK, TypeOK
  <2>4. TypeOK'
    BY <1>c, <1>w, <1>13, <2>1, <2>3, TableAssumption DEF Recount, TypeOK, CountersOK, CallPC, Goto
  <2>5. QED
    BY <2>3, <2>4
<1>14. CASE Leave(t)
  <2>1. Goto(t, "leave", "idle")
    BY <1>14 DEF Leave
  <2>2. /\ Cardinality(Readers') = Cardinality(Readers) - 1
        /\ Cardinality(Writers') = Cardinality(Writers)
    BY <2>1, <1>c, Recounted
  <2>3. CountersOK'
    BY <1>c, <1>14, <2>2 DEF Leave, CountersOK, TypeOK
  <2>4. TypeOK'
    BY <1>c, <1>w, <1>14, <2>1, <2>3, TableAssumption DEF Leave, TypeOK, CountersOK, CallPC, Goto
  <2>5. QED
    BY <2>3, <2>4
<1>15. QED
  BY <1>1, <1>2, <1>3, <1>4, <1>5, <1>6, <1>7, <1>8, <1>9, <1>10, <1>11, <1>12, <1>13, <1>14 DEF Step

-----------------------------------------------------------------------------
(***************************************************************************)
(* The table.                                                              *)
(***************************************************************************)
LEMMA TableStep ==
  ASSUME IInv, NEW t \in Threads, Step(t) \/ \E p \in Paths : GetCall(t, p)
  PROVE  Exclusive' /\ StillMissing' /\ InsertIsNew'
<1> USE DEF ReadPC, WritePC
<1>w. /\ gxs_statwrite = 0 => \A s \in Threads : pc[s] \notin WritePC
      /\ \A r, s \in Threads : pc[r] \in WritePC /\ pc[s] \in WritePC => r = s
      /\ \A s \in Threads : pc[s] \in WritePC => gxs_statwrite = 1
      /\ gxs_statread = 0 => \A s \in Threads : pc[s] \notin ReadPC
  BY OneWriter DEF IInv
<1>e. \A s \in Threads : pc[s] \in WritePC => \A r \in Threads : pc[r] # "enter"
  BY <1>w DEF IInv, PromptEntry
<1>a. aborted = FALSE
  BY DEF IInv, TypeOK, InsertIsNew
<1>1. CASE \E p \in Paths : GetCall(t, p)
  <2>p. PICK p \in Paths : GetCall(t, p)
    BY <1>1
  <2>1. /\ pc[t] = "idle"
        /\ \A s \in Threads : pc'[s] = IF s = t THEN "wait" ELSE pc[s]
        /\ aborted' = aborted /\ table' = table /\ \A s \in Threads \ {t} : path'[s] = path[s]
    BY <2>p DEF GetCall, Goto, IInv, TypeOK
  <2>2. Exclusive'
    BY <1>w, <1>e, <2>1 DEF IInv, Exclusive
  <2>3. StillMissing'
    BY <1>w, <2>1 DEF IInv, Exclusive, StillMissing, Writing
  <2>4. InsertIsNew'
    BY <1>a, <2>1 DEF IInv, InsertIsNew, StillMissing
  <2>5. QED
    BY <2>2, <2>3, <2>4
<1>2. CASE EnterWait(t)
  <2>1. /\ pc[t] = "wait" /\ gxs_statwrite = 0
        /\ \A s \in Threads : pc'[s] = IF s = t THEN "enter" ELSE pc[s]
        /\ aborted' = aborted /\ table' = table /\ path' = path
    BY <1>2 DEF EnterWait, Goto, IInv, TypeOK
  <2>2. Exclusive'
    BY <1>w, <1>e, <2>1 DEF IInv, Exclusive
  <2>3. StillMissing'
    BY <1>w, <2>1 DEF IInv, Exclusive, StillMissing, Writing
  <2>4. InsertIsNew'
    BY <1>a, <2>1 DEF IInv, InsertIsNew, StillMissing
  <2>5. QED
    BY <2>2, <2>3, <2>4
<1>3. CASE EnterCount(t)
  <2>1. /\ pc[t] = "enter"
        /\ \A s \in Threads : pc'[s] = IF s = t THEN "lookup" ELSE pc[s]
        /\ aborted' = aborted /\ table' = table /\ path' = path
    BY <1>3 DEF EnterCount, Goto, IInv, TypeOK
  <2>2. Exclusive'
    BY <1>w, <1>e, <2>1 DEF IInv, Exclusive
  <2>3. StillMissing'
    BY <1>w, <2>1 DEF IInv, Exclusive, StillMissing, Writing
  <2>4. InsertIsNew'
    BY <1>a, <2>1 DEF IInv, InsertIsNew, StillMissing
  <2>5. QED
    BY <2>2, <2>3, <2>4
<1>4. CASE LookupHit(t)
  <2>1. /\ pc[t] = "lookup"
        /\ \A s \in Threads : pc'[s] = IF s = t THEN "leave" ELSE pc[s]
        /\ aborted' = aborted /\ table' = table /\ path' = path
    BY <1>4 DEF LookupHit, Goto, IInv, TypeOK
  <2>2. Exclusive'
    BY <1>w, <1>e, <2>1 DEF IInv, Exclusive
  <2>3. StillMissing'
    BY <1>w, <2>1 DEF IInv, Exclusive, StillMissing, Writing
  <2>4. InsertIsNew'
    BY <1>a, <2>1 DEF IInv, InsertIsNew, StillMissing
  <2>5. QED
    BY <2>2, <2>3, <2>4
<1>5. CASE LookupMiss(t)
  <2>1. /\ pc[t] = "lookup" /\ (path[t] \notin table \/ Writing)
        /\ \A s \in Threads : pc'[s] = IF s = t THEN "upgrade" ELSE pc[s]
        /\ aborted' = aborted /\ table' = table /\ path' = path
    BY <1>5 DEF LookupMiss, Goto, IInv, TypeOK
  <2>2. Exclusive'
    BY <1>w, <1>e, <2>1 DEF IInv, Exclusive
  <2>3. StillMissing'
    BY <1>w, <2>1 DEF IInv, Exclusive, StillMissing, Writing
  <2>4. InsertIsNew'
    BY <1>a, <2>1 DEF IInv, InsertIsNew, StillMissing
  <2>5. QED
    BY <2>2, <2>3, <2>4
<1>6. CASE UpgradeClaim(t)
  <2>1. /\ pc[t] = "upgrade" /\ gxs_statwrite = 0
        /\ \A s \in Threads : pc'[s] = IF s = t THEN "drop" ELSE pc[s]
        /\ aborted' = aborted /\ table' = table /\ path' = path
    BY <1>6 DEF UpgradeClaim, Goto, IInv, TypeOK
  <2>2. Exclusive'
    BY <1>w, <1>e, <2>1 DEF IInv, Exclusive
  <2>3. StillMissing'
    BY <1>w, <2>1 DEF IInv, Exclusive, StillMissing, Writing
  <2>4. InsertIsNew'
    BY <1>a, <2>1 DEF IInv, InsertIsNew, StillMissing
  <2>5. QED
    BY <2>2, <2>3, <2>4
<1>7. CASE UpgradeDrop(t)
  <2>1. /\ pc[t] = "drop"
        /\ \A s \in Threads : pc'[s] = IF s = t THEN "drain" ELSE pc[s]
        /\ aborted' = aborted /\ table' = table /\ path' = path
    BY <1>7 DEF UpgradeDrop, Goto, IInv, TypeOK
  <2>2. Exclusive'
    BY <1>w, <1>e, <2>1 DEF IInv, Exclusive
  <2>3. StillMissing'
    BY <1>w, <2>1 DEF IInv, Exclusive, StillMissing, Writing
  <2>4. InsertIsNew'
    BY <1>a, <2>1 DEF IInv, InsertIsNew, StillMissing
  <2>5. QED
    BY <2>2, <2>3, <2>4
<1>8. CASE UpgradeDrain(t)
  <2>1. /\ pc[t] = "drain" /\ gxs_statread = 0
        /\ \A s \in Threads : pc'[s] = IF s = t THEN "put" ELSE pc[s]
        /\ aborted' = aborted /\ table' = table /\ path' = path
    BY <1>8 DEF UpgradeDrain, Goto, IInv, TypeOK
  <2>2. Exclusive'
    BY <1>w, <1>e, <2>1 DEF IInv, Exclusive
  <2>3. StillMissing'
    BY <1>w, <2>1 DEF IInv, Exclusive, StillMissing, Writing
  <2>4. InsertIsNew'
    BY <1>a, <2>1 DEF IInv, InsertIsNew, StillMissing
  <2>5. QED
    BY <2>2, <2>3, <2>4
<1>9. CASE Put(t)
  <2>1. /\ pc[t] = "put"
        /\ \A s \in Threads : pc'[s] = IF s = t THEN "downgrade" ELSE pc[s]
        /\ aborted' = (path[t] \in table) /\ table' = table \union {path[t]} /\ path' = path
    BY <1>9 DEF Put, Goto, IInv, TypeOK
  <2>2. Exclusive'
    BY <1>w, <1>e, <2>1 DEF IInv, Exclusive
  <2>3. StillMissing'
    BY <1>w, <2>1 DEF IInv, Exclusive, StillMissing, Writing
  <2>4. InsertIsNew'
    BY <1>a, <2>1 DEF IInv, InsertIsNew, StillMissing
  <2>5. QED
    BY <2>2, <2>3, <2>4
<1>10. CASE PutFails(t)
  <2>1. /\ pc[t] = "put"
        /\ \A s \in Threads : pc'[s] = IF s = t THEN "giveUp" ELSE pc[s]
        /\ aborted' = aborted /\ table' = table /\ path' = path
    BY <1>10 DEF PutFails, Goto, IInv, TypeOK
  <2>2. Exclusive'
    BY <1>w, <1>e, <2>1 DEF IInv, Exclusive
  <2>3. StillMissing'
    BY <1>w, <2>1 DEF IInv, Exclusive, StillMissing, Writing
  <2>4. InsertIsNew'
    BY <1>a, <2>1 DEF IInv, InsertIsNew, StillMissing
  <2>5. QED
    BY <2>2, <2>3, <2>4
<1>11. CASE GiveUp(t)
  <2>1. /\ pc[t] = "giveUp"
        /\ \A s \in Threads : pc'[s] = IF s = t THEN "idle" ELSE pc[s]
        /\ aborted' = aborted /\ table' = table /\ path' = path
    BY <1>11 DEF GiveUp, Goto, IInv, TypeOK
  <2>2. Exclusive'
    BY <1>w, <1>e, <2>1 DEF IInv, Exclusive
  <2>3. StillMissing'
    BY <1>w, <2>1 DEF IInv, Exclusive, StillMissing, Writing
  <2>4. InsertIsNew'
    BY <1>a, <2>1 DEF IInv, InsertIsNew, StillMissing
  <2>5. QED
    BY <2>2, <2>3, <2>4
<1>12. CASE Downgrade(t)
  <2>1. /\ pc[t] = "downgrade"
        /\ \A s \in Threads : pc'[s] = IF s = t THEN "recount" ELSE pc[s]
        /\ aborted' = aborted /\ table' = table /\ path' = path
    BY <1>12 DEF Downgrade, Goto, IInv, TypeOK
  <2>2. Exclusive'
    BY <1>w, <1>e, <2>1 DEF IInv, Exclusive
  <2>3. StillMissing'
    BY <1>w, <2>1 DEF IInv, Exclusive, StillMissing, Writing
  <2>4. InsertIsNew'
    BY <1>a, <2>1 DEF IInv, InsertIsNew, StillMissing
  <2>5. QED
    BY <2>2, <2>3, <2>4
<1>13. CASE Recount(t)
  <2>1. /\ pc[t] = "recount"
        /\ \A s \in Threads : pc'[s] = IF s = t THEN "leave" ELSE pc[s]
        /\ aborted' = aborted /\ table' = table /\ path' = path
    BY <1>13 DEF Recount, Goto, IInv, TypeOK
  <2>2. Exclusive'
    BY <1>w, <1>e, <2>1 DEF IInv, Exclusive
  <2>3. StillMissing'
    BY <1>w, <2>1 DEF IInv, Exclusive, StillMissing, Writing
  <2>4. InsertIsNew'
    BY <1>a, <2>1 DEF IInv, InsertIsNew, StillMissing
  <2>5. QED
    BY <2>2, <2>3, <2>4
<1>14. CASE Leave(t)
  <2>1. /\ pc[t] = "leave"
        /\ \A s \in Threads : pc'[s] = IF s = t THEN "idle" ELSE pc[s]
        /\ aborted' = aborted /\ table' = table /\ path' = path
    BY <1>14 DEF Leave, Goto, IInv, TypeOK
  <2>2. Exclusive'
    BY <1>w, <1>e, <2>1 DEF IInv, Exclusive
  <2>3. StillMissing'
    BY <1>w, <2>1 DEF IInv, Exclusive, StillMissing, Writing
  <2>4. InsertIsNew'
    BY <1>a, <2>1 DEF IInv, InsertIsNew, StillMissing
  <2>5. QED
    BY <2>2, <2>3, <2>4
<1>15. QED
  BY <1>1, <1>2, <1>3, <1>4, <1>5, <1>6, <1>7, <1>8, <1>9, <1>10, <1>11, <1>12, <1>13, <1>14 DEF Step

-----------------------------------------------------------------------------
(***************************************************************************)
(* The invariant holds.                                                    *)
(***************************************************************************)
LEMMA InitInvariant == Init => IInv
<1> SUFFICES ASSUME Init PROVE IInv
  OBVIOUS
<1>1. Readers = {} /\ Writers = {}
  BY DEF Init, Readers, Writers, ReadPC, WritePC
<1>2. CountersOK
  BY <1>1, FS_EmptySet DEF Init, CountersOK
<1>3. TypeOK
  BY TableAssumption DEF Init, TypeOK
<1>4. QED
  BY <1>2, <1>3 DEF Init, IInv, PromptEntry, Exclusive, StillMissing, InsertIsNew

\* Every step keeps the inductive invariant.
LEMMA NextInvariant == IInv /\ [Next /\ PromptEntry']_vars => IInv'
<1> SUFFICES ASSUME IInv, [Next /\ PromptEntry']_vars PROVE IInv'
  OBVIOUS
<1>1. CASE Next /\ PromptEntry'
  <2>1. PICK t \in Threads : Step(t) \/ \E p \in Paths : GetCall(t, p)
    BY <1>1 DEF Next
  <2>2. TypeOK' /\ CountersOK'
    BY <2>1, CountersStep DEF IInv
  <2>3. Exclusive' /\ StillMissing' /\ InsertIsNew'
    BY <2>1, TableStep
  <2>4. QED
    BY <1>1, <2>2, <2>3 DEF IInv
<1>2. CASE UNCHANGED vars
  BY <1>2 DEF vars, IInv, TypeOK, CountersOK, Readers, Writers, PromptEntry, Exclusive,
              StillMissing, InsertIsNew
<1>3. QED
  BY <1>1, <1>2

(***************************************************************************)
(* The invariant that the following theorems rest on (210-245).            *)
(***************************************************************************)
THEOREM TableInvariant == PromptSpec => []IInv
BY InitInvariant, NextInvariant, PTL DEF PromptSpec

(***************************************************************************)
(* However many threads ask for however many paths, no thread looks the    *)
(* table up (221) while another one changes it (229-233).                  *)
(***************************************************************************)
THEOREM TableRaceFree == PromptSpec => []NoTableRace
<1>1. IInv => NoTableRace
  BY DEF IInv, Exclusive, NoTableRace, Writing
<1>2. QED
  BY <1>1, TableInvariant, PTL

(***************************************************************************)
(* A path gets one entry: the assertion of line 231 holds when readers     *)
(* enter promptly.  (file_table_assert shows that it may fail otherwise.)  *)
(***************************************************************************)
THEOREM OneEntryPerPath == PromptSpec => []InsertIsNew
<1>1. IInv => InsertIsNew
  BY DEF IInv
<1>2. QED
  BY <1>1, TableInvariant, PTL

(***************************************************************************)
(* The counters of the lock count its holders, and there is one writer at  *)
(* most, under any schedule, so also without the assumption of PromptSpec. *)
(***************************************************************************)
THEOREM CountersAlwaysOK == Spec => [](TypeOK /\ CountersOK)
<1>1. Init => TypeOK /\ CountersOK
  BY InitInvariant DEF IInv
<1>2. TypeOK /\ CountersOK /\ [Next]_vars => (TypeOK /\ CountersOK)'
  <2> SUFFICES ASSUME TypeOK, CountersOK, [Next]_vars PROVE TypeOK' /\ CountersOK'
    OBVIOUS
  <2>1. CASE Next
    BY <2>1, CountersStep DEF Next
  <2>2. CASE UNCHANGED vars
    BY <2>2 DEF vars, TypeOK, CountersOK, Readers, Writers
  <2>3. QED
    BY <2>1, <2>2
<1>3. QED
  BY <1>1, <1>2, PTL DEF Spec
=============================================================================
