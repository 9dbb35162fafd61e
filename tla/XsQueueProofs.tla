--------------------------- MODULE XsQueueProofs ----------------------------
(***************************************************************************)
(* Proofs about XsQueue, for every QSpace, every MaxCalls and every set of *)
(* threads: first types, then the case of one producer and one consumer,   *)
(* then any number of both under LapFreeSpec.  The two invariants differ   *)
(* in what they say of a thread's copy of an index: of a single producer   *)
(* or consumer, that it is still so; of one among many, that it was so     *)
(* when the ring had moved seen[t] times, and the compare-and-swap checks  *)
(* that it has not moved since.                                            *)
(***************************************************************************)
EXTENDS XsQueue, SequenceTheorems, TLAPS

(***************************************************************************)
(* Type correctness: the indexes stay inside the ring whatever the threads *)
(* do (the wrap of wi+1 and ri+1 at qSpace, 224 and 270).                  *)
(***************************************************************************)
LEMMA NextIndType == \A i \in Ring : NextInd(i) \in Ring
  BY QSpaceAssumption DEF NextInd, Ring

\* The indexes start inside the ring.
LEMMA TypeInit == Init => TypeOK
  BY QSpaceAssumption DEF Init, TypeOK, Ring, PushPC, PopPC

\* Every step keeps the indexes inside the ring.
LEMMA TypeStep == TypeOK /\ [Next]_vars => TypeOK'
<1> SUFFICES ASSUME TypeOK, [Next]_vars PROVE TypeOK'
  OBVIOUS
<1> USE DEF TypeOK, shared, locals, history, Goto, PushPC, PopPC
<1>1. ASSUME NEW t \in Threads, NEW b \in BOOLEAN, PushCall(t, b) PROVE TypeOK'
  BY <1>1 DEF PushCall
<1>2. ASSUME NEW t \in Threads, PushSpin(t) PROVE TypeOK'
  BY <1>2 DEF PushSpin
<1>3. ASSUME NEW t \in Threads, PushLoadWrite(t) PROVE TypeOK'
  BY <1>3 DEF PushLoadWrite
<1>4. ASSUME NEW t \in Threads, PushLoadRead(t) PROVE TypeOK'
  BY <1>4 DEF PushLoadRead
<1>5. ASSUME NEW t \in Threads, PushClaim(t) PROVE TypeOK'
  <2>1. CASE ClaimUnchecked(t)
    BY <2>1, NextIndType DEF ClaimUnchecked
  <2>2. CASE ~ClaimUnchecked(t)
    BY <1>5, <2>2 DEF PushClaim
  <2> QED
    BY <2>1, <2>2
<1>6. ASSUME NEW t \in Threads, PushCopyIn(t) PROVE TypeOK'
  BY <1>6 DEF PushCopyIn
<1>7. ASSUME NEW t \in Threads, PushPublish(t) PROVE TypeOK'
  BY <1>7, NextIndType DEF PushPublish, PublishNow
<1>8. ASSUME NEW t \in Threads, PushCount(t) PROVE TypeOK'
  BY <1>8 DEF PushCount
<1>9. ASSUME NEW t \in Threads, NEW b \in BOOLEAN, PopCall(t, b) PROVE TypeOK'
  BY <1>9 DEF PopCall
<1>10. ASSUME NEW t \in Threads, PopLoadRead(t) PROVE TypeOK'
  BY <1>10 DEF PopLoadRead
<1>11. ASSUME NEW t \in Threads, PopLoadAvail(t) PROVE TypeOK'
  BY <1>11 DEF PopLoadAvail
<1>12. ASSUME NEW t \in Threads, PopCopyOut(t) PROVE TypeOK'
  BY <1>12 DEF PopCopyOut
<1>13. ASSUME NEW t \in Threads, PopRelease(t) PROVE TypeOK'
  <2>1. CASE ReleaseUnchecked(t)
    <3>1. delivered' \in Seq(Nat) /\ qReadInd' \in Ring
      BY <2>1, NextIndType DEF ReleaseUnchecked
    <3> QED
      BY <2>1, <3>1 DEF ReleaseUnchecked
  <2>2. CASE ~ReleaseUnchecked(t)
    BY <1>13, <2>2 DEF PopRelease
  <2> QED
    BY <2>1, <2>2
<1>14. ASSUME NEW t \in Threads, PopUncount(t) PROVE TypeOK'
  BY <1>14 DEF PopUncount
<1>15. CASE UNCHANGED vars
  BY <1>15, Zenon DEF vars
<1> QED
  <2> HIDE DEF TypeOK, Goto
  <2> QED
    BY <1>1, <1>2, <1>3, <1>4, <1>5, <1>6, <1>7, <1>8, <1>9, <1>10, <1>11, <1>12,
       <1>13, <1>14, <1>15, ModesAssumption
       DEF Next, PushStep, PopStep, PopEmpty, Threads

(***************************************************************************)
(* The indexes of push and pop stay inside the ring (224, 270), for any    *)
(* number of producers and consumers and any ring size.                    *)
(***************************************************************************)
THEOREM TypeCorrect == Spec => []TypeOK
  BY TypeInit, TypeStep, PTL DEF Spec

-----------------------------------------------------------------------------
(***************************************************************************)
(* Facts about positions on the ring.                                      *)
(***************************************************************************)
LEMMA DistType == \A a, b \in Ring : Dist(a, b) \in 0 .. QSpace - 1
  BY QSpaceAssumption DEF Dist, Ring

\* Two indexes are at distance zero only when they are the same.
LEMMA DistZero == \A a, b \in Ring : Dist(a, b) = 0 <=> a = b
  BY QSpaceAssumption DEF Dist, Ring

\* Moving the far end on by one, with room for it, adds one to the distance.
LEMMA DistGrow ==
  \A a, b \in Ring : Dist(a, b) < QSpace - 1 => Dist(a, NextInd(b)) = Dist(a, b) + 1
  BY QSpaceAssumption DEF Dist, Ring, NextInd

\* Moving the near end on by one takes one off it.
LEMMA DistShrink ==
  \A a, b \in Ring : a # b => Dist(NextInd(a), b) = Dist(a, b) - 1
  BY QSpaceAssumption DEF Dist, Ring, NextInd

\* The distance between two indexes leads from one to the other.
LEMMA SlotOfDist == \A a, b \in Ring : Slot(a, Dist(a, b)) = b
  BY QSpaceAssumption DEF Dist, Ring, Slot

\* Counting slots from an index stays inside the ring.
LEMMA SlotType == \A a \in Ring : \A k \in 0 .. QSpace - 1 : Slot(a, k) \in Ring
  BY QSpaceAssumption DEF Ring, Slot

\* The slot at distance zero is the one counted from.
LEMMA SlotZero == \A a \in Ring : Slot(a, 0) = a
  BY QSpaceAssumption DEF Ring, Slot

\* The next slot is the one at the next distance.
LEMMA SlotNext ==
  \A a \in Ring : \A k \in 0 .. QSpace - 2 : Slot(NextInd(a), k) = Slot(a, k + 1)
  BY QSpaceAssumption DEF Ring, Slot, NextInd

\* The readable part of the ring does not reach the slot at its end.
LEMMA SlotBefore ==
  \A a, b \in Ring : \A k \in 0 .. Dist(a, b) - 1 : Slot(a, k) # b
  BY QSpaceAssumption DEF Dist, Ring, Slot

-----------------------------------------------------------------------------
(***************************************************************************)
(* What the two steps that move the readable part do to its contents.      *)
(***************************************************************************)
\* Publishing the element in the slot after it makes that the last one.
LEMMA PublishContent ==
  ASSUME TypeOK, ContentOK, NEW t \in Threads, qData[qAvailInd] = item[t],
         published' = Append(published, item[t]), UNCHANGED <<qData, qReadInd, delivered>>,
         Dist(qReadInd', qAvailInd') = Dist(qReadInd, qAvailInd) + 1
  PROVE  ContentOK'
<1> DEFINE d == Dist(qReadInd, qAvailInd)
<1>0. /\ published \in Seq(Nat) /\ delivered \in Seq(Nat) /\ item[t] \in Nat
      /\ Len(published) \in Nat /\ Len(delivered) \in Nat
      /\ qReadInd \in Ring /\ qAvailInd \in Ring /\ d \in Nat
  <2>1. qReadInd \in Ring /\ qAvailInd \in Ring
    BY DEF TypeOK
  <2>2. d \in Nat
    BY <2>1, DistType, QSpaceAssumption
  <2> QED
    BY <2>1, <2>2 DEF TypeOK
<1>1. /\ published' = Append(published, item[t])
      /\ delivered' = delivered /\ qData' = qData
  OBVIOUS
<1>2. Len(published') = Len(published) + 1 /\ published'[Len(published) + 1] = item[t]
  BY <1>1
<1>3. \A i \in 1 .. Len(published) : published'[i] = published[i]
  BY <1>1
<1>4. Len(published) = Len(delivered) + d /\ Len(delivered) \in Nat
  BY <1>0 DEF ContentOK
<1>5. Slot(qReadInd, d) = qAvailInd
  BY <1>0, SlotOfDist
<1>6. ASSUME NEW k \in 0 .. d
      PROVE  qData[Slot(qReadInd, k)] = published'[Len(delivered) + k + 1]
  <2>1. CASE k = d
    BY <1>0, <1>2, <1>4, <1>5, <2>1
  <2>2. CASE k # d
    <3>1. k \in 0 .. d - 1 /\ Len(delivered) + k + 1 \in 1 .. Len(published)
      BY <1>0, <1>4, <2>2
    <3> QED
      BY <1>0, <1>3, <3>1 DEF ContentOK
  <2> QED
    BY <2>1, <2>2
<1>7. \A i \in 1 .. Len(delivered) : delivered[i] = published'[i]
  BY <1>0, <1>3, <1>4 DEF ContentOK
<1>8. /\ Len(published') = Len(delivered') + Dist(qReadInd', qAvailInd')
      /\ 0 .. Dist(qReadInd', qAvailInd') - 1 = 0 .. d
  <2>1. Dist(qReadInd', qAvailInd') = d + 1 /\ d \in Nat
    BY <1>0
  <2>2. Len(published') = Len(delivered') + (d + 1)
    BY <2>1, <1>1, <1>2, <1>4
  <2> QED
    BY <2>1, <2>2
<1> QED
  BY <1>0, <1>1, <1>6, <1>7, <1>8 DEF ContentOK

\* Concatenation of sequences of elements is associative.
LEMMA NatConcat == \A s, t, u \in Seq(Nat) : (s \o t) \o u = s \o (t \o u)
<1> SUFFICES ASSUME NEW s \in Seq(Nat), NEW t \in Seq(Nat), NEW u \in Seq(Nat)
             PROVE  (s \o t) \o u = s \o (t \o u)
  OBVIOUS
<1>1. Len(s) \in Nat /\ Len(t) \in Nat /\ Len(u) \in Nat
  OBVIOUS
<1>2. /\ s \o t \in Seq(Nat) /\ Len(s \o t) = Len(s) + Len(t)
      /\ t \o u \in Seq(Nat) /\ Len(t \o u) = Len(t) + Len(u)
  OBVIOUS
<1>3. (s \o t) \o u \in Seq(Nat) /\ s \o (t \o u) \in Seq(Nat)
  BY <1>2
<1>4. Len((s \o t) \o u) = Len(s \o (t \o u))
  BY <1>1, <1>2
<1>5. \A i \in 1 .. Len((s \o t) \o u) : ((s \o t) \o u)[i] = (s \o (t \o u))[i]
  BY <1>1, <1>2
<1> QED
  BY <1>3, <1>4, <1>5, SeqEqual

\* Taking the element at the near end leaves the others.
LEMMA ReleaseContent ==
  ASSUME TypeOK, ContentOK, NEW t \in Threads, qReadInd # qAvailInd, dd[t] = qData[qReadInd],
         delivered' = Append(delivered, dd[t]), qReadInd' = NextInd(qReadInd),
         UNCHANGED <<qData, qAvailInd, published>>
  PROVE  ContentOK'
<1> DEFINE d == Dist(qReadInd, qAvailInd)
<1>0. /\ published \in Seq(Nat) /\ delivered \in Seq(Nat) /\ dd[t] \in Nat
      /\ Len(published) \in Nat /\ Len(delivered) \in Nat
      /\ qReadInd \in Ring /\ qAvailInd \in Ring /\ QSpace \in Nat
      /\ d \in 1 .. QSpace - 1 /\ Dist(NextInd(qReadInd), qAvailInd) = d - 1
  <2>1. qReadInd \in Ring /\ qAvailInd \in Ring /\ QSpace \in Nat
    BY QSpaceAssumption DEF TypeOK
  <2>2. d \in 0 .. QSpace - 1 /\ d # 0 /\ Dist(NextInd(qReadInd), qAvailInd) = d - 1
    BY <2>1, DistType, DistZero, DistShrink
  <2> QED
    BY <2>1, <2>2 DEF TypeOK
<1>1. /\ delivered' = Append(delivered, dd[t])
      /\ published' = published /\ qData' = qData
  OBVIOUS
<1>2. /\ Len(delivered') = Len(delivered) + 1 /\ delivered'[Len(delivered) + 1] = dd[t]
      /\ Len(delivered) \in Nat
  BY <1>1
<1>3. \A i \in 1 .. Len(delivered) : delivered'[i] = delivered[i]
  BY <1>1
<1>4. dd[t] = published[Len(delivered) + 1]
  <2>1. 0 \in 0 .. d - 1 /\ Slot(qReadInd, 0) = qReadInd
    BY <1>0, SlotZero
  <2>2. qData[Slot(qReadInd, 0)] = published[Len(delivered) + 0 + 1]
    BY <1>0, <2>1 DEF ContentOK
  <2> QED
    BY <1>0, <2>1, <2>2
<1>5. \A k \in 0 .. d - 2 : Slot(qReadInd', k) = Slot(qReadInd, k + 1)
  <2>1. \A k \in 0 .. d - 2 : k \in 0 .. QSpace - 2
    BY <1>0, <1>0
  <2> QED
    BY <1>0, <2>1, SlotNext
<1>6. ASSUME NEW k \in 0 .. d - 2
      PROVE  qData[Slot(qReadInd', k)] = published[Len(delivered') + k + 1]
  <2>1. k + 1 \in 0 .. d - 1 /\ Len(delivered') + k + 1 = Len(delivered) + (k + 1) + 1
    BY <1>0, <1>2
  <2>2. qData[Slot(qReadInd, k + 1)] = published[Len(delivered) + (k + 1) + 1]
    BY <1>0, <2>1 DEF ContentOK
  <2> QED
    BY <1>5, <2>1, <2>2
<1>7. Len(published') = Len(delivered') + Dist(qReadInd', qAvailInd')
  BY <1>0, <1>1, <1>2 DEF ContentOK
<1>8. ASSUME NEW i \in 1 .. Len(delivered') PROVE delivered'[i] = published'[i]
  <2>1. i \in 1 .. Len(delivered) \/ i = Len(delivered) + 1
    BY <1>2
  <2>2. CASE i \in 1 .. Len(delivered)
    <3>1. delivered[i] = published[i]
      BY <2>2 DEF ContentOK
    <3> QED
      BY <1>1, <1>3, <2>2, <3>1
  <2>3. CASE i = Len(delivered) + 1
    BY <1>1, <1>2, <1>4, <2>3
  <2> QED
    BY <2>1, <2>2, <2>3
<1>9. \A k \in 0 .. Dist(qReadInd', qAvailInd') - 1 :
        qData'[Slot(qReadInd', k)] = published'[Len(delivered') + k + 1]
  <2>1. Dist(qReadInd', qAvailInd') - 1 = d - 2
    BY <1>0, <1>1
  <2> QED
    BY <1>1, <1>6, <2>1
<1> QED
  BY <1>7, <1>8, <1>9 DEF ContentOK

-----------------------------------------------------------------------------
(***************************************************************************)
(* One producer, one consumer.                                             *)
(***************************************************************************)
LEMMA IInvInit == Init => IInv
<1> SUFFICES ASSUME Init PROVE IInv
  OBVIOUS
<1>1. TypeOK
  BY TypeInit
<1>2. Dist(qReadInd, qAvailInd) = 0
  BY DEF Init, Dist
<1>3. RolesOK /\ WriterOK /\ ReaderOK
  BY DEF Init, RolesOK, WriterOK, ReaderOK, InFlight, PushPC, PopPC, Threads
<1>4. DepthOK /\ ContentOK
  BY <1>2, QSpaceAssumption
     DEF Init, DepthOK, ContentOK, Uncounted, Overcounted, Threads
<1> QED
  BY <1>1, <1>3, <1>4 DEF IInv

\* Every step keeps the inductive invariant.
LEMMA IInvStep == ASSUME SPSC PROVE IInv /\ [Next]_vars => IInv'
<1>a. SUFFICES ASSUME IInv, [Next]_vars PROVE IInv'
  OBVIOUS
<1>b. TypeOK'
  BY <1>a, TypeStep DEF IInv
<1>c. SPSC /\ TypeOK /\ RolesOK /\ WriterOK /\ ReaderOK /\ DepthOK /\ ContentOK
  BY <1>a DEF IInv
<1>d. /\ qReadInd \in Ring /\ qAvailInd \in Ring /\ qDepth \in Int /\ QSpace \in Nat
      /\ published \in Seq(Nat) /\ delivered \in Seq(Nat)
      /\ Len(published) \in Nat /\ Len(delivered) \in Nat
      /\ Dist(qReadInd, qAvailInd) \in 0 .. QSpace - 1
  <2>1. /\ qReadInd \in Ring /\ qAvailInd \in Ring /\ qDepth \in Int
        /\ published \in Seq(Nat) /\ delivered \in Seq(Nat)
    BY <1>c, Zenon DEF TypeOK
  <2>2. Len(published) \in Nat /\ Len(delivered) \in Nat
    BY <2>1, LenProperties
  <2> QED
    BY <2>1, <2>2, DistType, QSpaceAssumption
<1>e. DepthOK /\ ContentOK /\ Uncounted \in {0, 1} /\ Overcounted \in {0, 1}
  BY <1>c DEF Uncounted, Overcounted
<1> USE DEF TypeOK, SPSC, RolesOK, Goto, PushPC, PopPC, Threads, InFlight
<1>1. ASSUME NEW t \in Producers, NEW b \in BOOLEAN, PushCall(t, b) PROVE IInv'
  <2>1. RolesOK'
    BY <1>c, <1>1 DEF PushCall, DepthFull, shared, locals, history
  <2>2. WriterOK'
    BY <1>c, <1>1, QSpaceAssumption DEF PushCall, DepthFull, shared, locals, history, WriterOK
  <2>3. ReaderOK'
    BY <1>c, <1>1 DEF PushCall, DepthFull, shared, locals, history, ReaderOK
  <2>4. DepthOK'
    BY <1>c, <1>1 DEF PushCall, DepthFull, shared, locals, history, DepthOK, Uncounted, Overcounted
  <2>5. ContentOK'
    BY <1>c, <1>1 DEF PushCall, DepthFull, shared, locals, history, ContentOK
  <2> QED
    BY <1>b, <2>1, <2>2, <2>3, <2>4, <2>5 DEF IInv
<1>2. ASSUME NEW t \in Producers, PushSpin(t) PROVE IInv'
  <2>1. RolesOK'
    BY <1>c, <1>2 DEF PushSpin, DepthFull, shared, locals, history
  <2>2. WriterOK'
    BY <1>c, <1>2, QSpaceAssumption DEF PushSpin, DepthFull, shared, locals, history, WriterOK
  <2>3. ReaderOK'
    BY <1>c, <1>2 DEF PushSpin, DepthFull, shared, locals, history, ReaderOK
  <2>4. DepthOK'
    BY <1>c, <1>2 DEF PushSpin, DepthFull, shared, locals, history, DepthOK, Uncounted, Overcounted
  <2>5. ContentOK'
    BY <1>c, <1>2 DEF PushSpin, DepthFull, shared, locals, history, ContentOK
  <2> QED
    BY <1>b, <2>1, <2>2, <2>3, <2>4, <2>5 DEF IInv
<1>3. ASSUME NEW t \in Producers, PushLoadWrite(t) PROVE IInv'
  <2>1. RolesOK'
    BY <1>c, <1>3 DEF PushLoadWrite, shared, locals, history
  <2>2. WriterOK'
    BY <1>c, <1>3 DEF PushLoadWrite, shared, locals, history, WriterOK
  <2>3. ReaderOK'
    BY <1>c, <1>3 DEF PushLoadWrite, shared, locals, history, ReaderOK
  <2>4. DepthOK'
    BY <1>c, <1>3 DEF PushLoadWrite, shared, locals, history, DepthOK, Uncounted, Overcounted
  <2>5. ContentOK'
    BY <1>c, <1>3 DEF PushLoadWrite, shared, locals, history, ContentOK
  <2> QED
    BY <1>b, <2>1, <2>2, <2>3, <2>4, <2>5 DEF IInv
<1>4. ASSUME NEW t \in Producers, PushLoadRead(t) PROVE IInv'
  <2>1. RolesOK'
    BY <1>c, <1>4 DEF PushLoadRead, NoRoom, shared, locals, history
  <2>2. WriterOK'
    BY <1>c, <1>4 DEF PushLoadRead, NoRoom, shared, locals, history, WriterOK
  <2>3. ReaderOK'
    BY <1>c, <1>4 DEF PushLoadRead, NoRoom, shared, locals, history, ReaderOK
  <2>4. DepthOK'
    BY <1>c, <1>4 DEF PushLoadRead, NoRoom, shared, locals, history, DepthOK, Uncounted, Overcounted
  <2>5. ContentOK'
    BY <1>c, <1>4 DEF PushLoadRead, NoRoom, shared, locals, history, ContentOK
  <2> QED
    BY <1>b, <2>1, <2>2, <2>3, <2>4, <2>5 DEF IInv
<1>5. ASSUME NEW t \in Producers, PushClaim(t) PROVE IInv'
  <2>0. qWriteInd = wi[t] /\ ClaimUnchecked(t)
    <3>1. pc[t] = "claim"
      BY <1>5 DEF PushClaim, ClaimUnchecked
    <3>2. qWriteInd = wi[t]
      BY <1>c, <3>1 DEF WriterOK
    <3> QED
      BY <1>5, <3>2 DEF PushClaim
  <2>1. RolesOK'
    BY <1>c, <2>0 DEF ClaimUnchecked, locals
  <2>2. WriterOK'
    BY <1>c, <2>0 DEF ClaimUnchecked, locals, WriterOK
  <2>3. ReaderOK'
    BY <1>c, <2>0 DEF ClaimUnchecked, locals, ReaderOK
  <2>4. DepthOK'
    BY <1>c, <2>0 DEF ClaimUnchecked, locals, DepthOK, Uncounted, Overcounted
  <2>5. ContentOK'
    BY <1>c, <2>0 DEF ClaimUnchecked, locals, ContentOK
  <2> QED
    BY <1>b, <2>1, <2>2, <2>3, <2>4, <2>5 DEF IInv
<1>6. ASSUME NEW t \in Producers, PushCopyIn(t) PROVE IInv'
  <2>1. RolesOK'
    BY <1>c, <1>6 DEF PushCopyIn, shared, locals, history
  <2>2. WriterOK'
    BY <1>c, <1>6 DEF PushCopyIn, shared, locals, history, WriterOK
  <2>3. ReaderOK'
    BY <1>c, <1>6 DEF PushCopyIn, shared, locals, history, WriterOK, ReaderOK
  <2>4. DepthOK'
    BY <1>c, <1>6 DEF PushCopyIn, shared, locals, history, DepthOK, Uncounted, Overcounted
  <2>5. ContentOK'
    <3>1. \A k \in 0 .. Dist(qReadInd, qAvailInd) - 1 : Slot(qReadInd, k) # wi[t]
      BY <1>c, <1>6, SlotBefore DEF PushCopyIn, WriterOK
    <3> QED
      BY <1>c, <1>d, <1>6, <3>1, SlotType DEF PushCopyIn, shared, locals, history, ContentOK
  <2> QED
    BY <1>b, <2>1, <2>2, <2>3, <2>4, <2>5 DEF IInv
<1>7. ASSUME NEW t \in Producers, PushPublish(t) PROVE IInv'
  <2> DEFINE d == Dist(qReadInd, qAvailInd)
  <2>0. /\ wi[t] = qAvailInd /\ qData[wi[t]] = item[t]
        /\ qAvailInd' = NextInd(qAvailInd) /\ qReadInd' = qReadInd
        /\ d \in Nat /\ d <= QSpace - 2
        /\ Dist(qReadInd', qAvailInd') = d + 1
    <3>1. /\ wi[t] = qAvailInd /\ qData[wi[t]] = item[t] /\ qDepth <= QSpace - 2
      BY <1>c, <1>7 DEF PushPublish, PublishNow, WriterOK
    <3>2. Uncounted = 0 /\ Overcounted \in {0, 1}
      BY <1>c, <1>7 DEF PushPublish, PublishNow, Uncounted, Overcounted
    <3>3. d \in 0 .. QSpace - 1
      BY <1>c, DistType
    <3>4. d <= QSpace - 2
      BY <1>d, <1>e, <3>1, <3>2, <3>3 DEF DepthOK
    <3>5. qAvailInd' = NextInd(qAvailInd) /\ qReadInd' = qReadInd
      BY <1>7 DEF PushPublish, PublishNow, shared, locals, history
    <3>6. Dist(qReadInd', qAvailInd') = d + 1
      <4>1. Dist(qReadInd, qAvailInd) < QSpace - 1
        BY <1>d, <3>3, <3>4
      <4> QED
        BY <1>d, <3>5, <4>1, DistGrow
    <3> QED
      BY <1>d, <3>1, <3>3, <3>4, <3>5, <3>6
  <2>1. RolesOK'
    BY <1>c, <1>7 DEF PushPublish, PublishNow, shared, locals, history
  <2>2. WriterOK'
    BY <1>c, <1>7 DEF PushPublish, PublishNow, shared, locals, history, WriterOK
  <2>3. ReaderOK'
    <3>1. qReadInd' # qAvailInd'
      BY <1>b, <2>0, DistZero
    <3> QED
      BY <1>c, <1>7, <3>1 DEF PushPublish, PublishNow, shared, locals, history, ReaderOK
  <2>4. DepthOK'
    <3>1. Uncounted = 0 /\ Uncounted' = 1
      BY <1>c, <1>7 DEF PushPublish, PublishNow, Uncounted
    <3>2. Overcounted' = Overcounted /\ qDepth' = qDepth
      BY <1>c, <1>7 DEF PushPublish, PublishNow, Overcounted
    <3> QED
      BY <1>d, <1>e, <2>0, <3>1, <3>2 DEF DepthOK
  <2>5. ContentOK'
    BY <1>c, <1>7, <2>0, PublishContent DEF PushPublish, PublishNow
  <2> QED
    BY <1>b, <2>1, <2>2, <2>3, <2>4, <2>5 DEF IInv
<1>8. ASSUME NEW t \in Producers, PushCount(t) PROVE IInv'
  <2>1. RolesOK'
    BY <1>c, <1>8 DEF PushCount, shared, locals, history
  <2>2. WriterOK'
    BY <1>c, <1>8 DEF PushCount, shared, locals, history, WriterOK
  <2>3. ReaderOK'
    BY <1>c, <1>8 DEF PushCount, shared, locals, history, ReaderOK
  <2>4. DepthOK'
    <3>1. Uncounted = 1 /\ Uncounted' = 0
      BY <1>c, <1>8 DEF PushCount, Uncounted
    <3>2. Overcounted' = Overcounted
      BY <1>c, <1>8 DEF PushCount, Overcounted
    <3>3. qDepth <= QSpace - 2
      BY <1>c, <1>8 DEF PushCount, WriterOK
    <3> QED
      BY <1>c, <1>8, <3>1, <3>2, <3>3, QSpaceAssumption
         DEF PushCount, DepthOK, shared, locals, history
  <2>5. ContentOK'
    BY <1>c, <1>8 DEF PushCount, shared, locals, history, ContentOK
  <2> QED
    BY <1>b, <2>1, <2>2, <2>3, <2>4, <2>5 DEF IInv
<1>9. ASSUME NEW t \in Consumers, NEW b \in BOOLEAN, PopCall(t, b) PROVE IInv'
  <2>1. RolesOK'
    BY <1>c, <1>9 DEF PopCall, shared, locals, history
  <2>2. WriterOK'
    BY <1>c, <1>9 DEF PopCall, shared, locals, history, WriterOK
  <2>3. ReaderOK'
    BY <1>c, <1>9 DEF PopCall, shared, locals, history, ReaderOK, DepthOK
  <2>4. DepthOK'
    BY <1>c, <1>9 DEF PopCall, shared, locals, history, DepthOK, Uncounted, Overcounted
  <2>5. ContentOK'
    BY <1>c, <1>9 DEF PopCall, shared, locals, history, ContentOK
  <2> QED
    BY <1>b, <2>1, <2>2, <2>3, <2>4, <2>5 DEF IInv
<1>10. ASSUME NEW t \in Consumers, PopLoadRead(t) PROVE IInv'
  <2>1. RolesOK'
    BY <1>c, <1>10 DEF PopLoadRead, shared, locals, history
  <2>2. WriterOK'
    BY <1>c, <1>10 DEF PopLoadRead, shared, locals, history, WriterOK
  <2>3. ReaderOK'
    BY <1>c, <1>10 DEF PopLoadRead, shared, locals, history, ReaderOK
  <2>4. DepthOK'
    BY <1>c, <1>10 DEF PopLoadRead, shared, locals, history, DepthOK, Uncounted, Overcounted
  <2>5. ContentOK'
    BY <1>c, <1>10 DEF PopLoadRead, shared, locals, history, ContentOK
  <2> QED
    BY <1>b, <2>1, <2>2, <2>3, <2>4, <2>5 DEF IInv
<1>11. ASSUME NEW t \in Consumers, PopLoadAvail(t) PROVE IInv'
  <2>1. RolesOK'
    BY <1>c, <1>11 DEF PopLoadAvail, shared, locals, history
  <2>2. WriterOK'
    BY <1>c, <1>11 DEF PopLoadAvail, shared, locals, history, WriterOK
  <2>3. ReaderOK'
    BY <1>c, <1>11 DEF PopLoadAvail, shared, locals, history, ReaderOK
  <2>4. DepthOK'
    BY <1>c, <1>11 DEF PopLoadAvail, shared, locals, history, DepthOK, Uncounted, Overcounted
  <2>5. ContentOK'
    BY <1>c, <1>11 DEF PopLoadAvail, shared, locals, history, ContentOK
  <2> QED
    BY <1>b, <2>1, <2>2, <2>3, <2>4, <2>5 DEF IInv
<1>12. ASSUME NEW t \in Consumers, PopCopyOut(t) PROVE IInv'
  <2>1. RolesOK'
    BY <1>c, <1>12 DEF PopCopyOut, shared, locals, history
  <2>2. WriterOK'
    BY <1>c, <1>12 DEF PopCopyOut, shared, locals, history, WriterOK
  <2>3. ReaderOK'
    BY <1>c, <1>12 DEF PopCopyOut, shared, locals, history, ReaderOK
  <2>4. DepthOK'
    BY <1>c, <1>12 DEF PopCopyOut, shared, locals, history, DepthOK, Uncounted, Overcounted
  <2>5. ContentOK'
    BY <1>c, <1>12 DEF PopCopyOut, shared, locals, history, ContentOK
  <2> QED
    BY <1>b, <2>1, <2>2, <2>3, <2>4, <2>5 DEF IInv
<1>13. ASSUME NEW t \in Consumers, PopRelease(t) PROVE IInv'
  <2> DEFINE d == Dist(qReadInd, qAvailInd)
  <2>0. /\ ri[t] = qReadInd /\ dd[t] = qData[qReadInd]
        /\ ReleaseUnchecked(t)
        /\ qReadInd' = NextInd(qReadInd) /\ qAvailInd' = qAvailInd
        /\ d \in Nat /\ d >= 1 /\ d <= QSpace - 1
        /\ Dist(qReadInd', qAvailInd') = d - 1
    <3>1. ri[t] = qReadInd /\ dd[t] = qData[qReadInd] /\ qReadInd # qAvailInd
      BY <1>c, <1>13 DEF PopRelease, ReleaseUnchecked, ReaderOK
    <3>2. ReleaseUnchecked(t)
      BY <1>c, <1>13, <3>1 DEF PopRelease
    <3>3. d \in 0 .. QSpace - 1 /\ d # 0
      BY <1>d, <3>1, DistZero
    <3> QED
      BY <1>d, <3>1, <3>2, <3>3, DistShrink DEF ReleaseUnchecked
  <2>1. RolesOK'
    BY <1>c, <2>0 DEF ReleaseUnchecked, locals
  <2>2. WriterOK'
    BY <1>c, <2>0 DEF ReleaseUnchecked, locals, WriterOK
  <2>3. ReaderOK'
    BY <1>c, <2>0 DEF ReleaseUnchecked, locals, ReaderOK
  <2>4. DepthOK'
    <3>1. Overcounted = 0 /\ Overcounted' = 1
      BY <1>c, <2>0 DEF ReleaseUnchecked, Overcounted
    <3>2. Uncounted' = Uncounted /\ qDepth' = qDepth
      BY <1>c, <2>0 DEF ReleaseUnchecked, Uncounted
    <3> QED
      BY <1>d, <1>e, <2>0, <3>1, <3>2 DEF DepthOK
  <2>5. ContentOK'
    <3>1. qReadInd # qAvailInd
      BY <1>d, <2>0, DistZero
    <3> QED
      BY <1>c, <2>0, <3>1, ReleaseContent DEF ReleaseUnchecked
  <2> QED
    BY <1>b, <2>1, <2>2, <2>3, <2>4, <2>5 DEF IInv
<1>14. ASSUME NEW t \in Consumers, PopUncount(t) PROVE IInv'
  <2>1. RolesOK'
    BY <1>c, <1>14 DEF PopUncount, shared, locals, history
  <2>2. WriterOK'
    BY <1>c, <1>14, QSpaceAssumption DEF PopUncount, shared, locals, history, WriterOK
  <2>3. ReaderOK'
    BY <1>c, <1>14 DEF PopUncount, shared, locals, history, ReaderOK
  <2>4. DepthOK'
    <3>1. Overcounted = 1 /\ Overcounted' = 0
      BY <1>c, <1>14 DEF PopUncount, Overcounted
    <3>2. Uncounted' = Uncounted
      BY <1>c, <1>14 DEF PopUncount, Uncounted
    <3>3. qDepth >= 1
      BY <1>c, <1>14 DEF PopUncount, ReaderOK
    <3>4. /\ qDepth' = qDepth - 1
          /\ Dist(qReadInd', qAvailInd') = Dist(qReadInd, qAvailInd)
      BY <1>14 DEF PopUncount
    <3> QED
      BY <1>d, <1>e, <3>1, <3>2, <3>3, <3>4 DEF DepthOK
  <2>5. ContentOK'
    BY <1>c, <1>14 DEF PopUncount, shared, locals, history, ContentOK
  <2> QED
    BY <1>b, <2>1, <2>2, <2>3, <2>4, <2>5 DEF IInv
<1>15. CASE UNCHANGED vars
  BY <1>b, <1>c, <1>15 DEF vars, IInv, WriterOK, ReaderOK, DepthOK, ContentOK, Uncounted, Overcounted
<1> HIDE DEF TypeOK, SPSC, RolesOK, Goto, PushPC, PopPC, InFlight
<1> QED
  BY <1>a, <1>1, <1>2, <1>3, <1>4, <1>5, <1>6, <1>7, <1>8, <1>9, <1>10, <1>11, <1>12,
     <1>13, <1>14, <1>15, ModesAssumption
     DEF Next, PushStep, PopStep, PopEmpty

(***************************************************************************)
(* With one producer and one consumer, the indexes, the counter and the    *)
(* slots of the ring agree with what push and pop have done (200-279).     *)
(***************************************************************************)
THEOREM IInvHolds == ASSUME SPSC PROVE Spec => []IInv
  BY IInvInit, IInvStep, PTL DEF Spec

(***************************************************************************)
(* What the invariant says of the contents: the readable part of the ring, *)
(* seen as a sequence, is what has been published and not yet delivered.   *)
(***************************************************************************)
ViewIsSeq ==
  /\ QueueView \in Seq(Nat)
  /\ Len(QueueView) = Dist(qReadInd, qAvailInd)
  /\ \A k \in 1 .. Dist(qReadInd, qAvailInd) : QueueView[k] = qData[Slot(qReadInd, k - 1)]

\* What the queue shows is a sequence.
LEMMA ViewProperties == TypeOK => ViewIsSeq
<1> SUFFICES ASSUME TypeOK PROVE ViewIsSeq
  OBVIOUS
<1> DEFINE n == Dist(qReadInd, qAvailInd)
<1>1. n \in Nat /\ n <= QSpace - 1 /\ qReadInd \in Ring /\ qData \in [Ring -> Nat]
  BY DistType, QSpaceAssumption DEF TypeOK
<1>2. \A k \in 1 .. n : k - 1 \in 0 .. QSpace - 1
  BY <1>1, QSpaceAssumption
<1>3. \A k \in 1 .. n : qData[Slot(qReadInd, k - 1)] \in Nat
  BY <1>1, <1>2, SlotType
<1>4. QueueView \in [1 .. n -> Nat]
  BY <1>3 DEF QueueView
<1> HIDE DEF n
<1>5. QueueView \in Seq(Nat) /\ Len(QueueView) = n
  BY <1>1, <1>4
<1>6. \A k \in 1 .. n : QueueView[k] = qData[Slot(qReadInd, k - 1)]
  BY DEF QueueView, n
<1> QED
  BY <1>5, <1>6 DEF n, ViewIsSeq

\* Slots that hold what was published make the queue a FIFO.
LEMMA ContentFifo == TypeOK /\ ContentOK => FifoOK
<1> SUFFICES ASSUME TypeOK, ContentOK PROVE FifoOK
  OBVIOUS
<1> DEFINE n == Dist(qReadInd, qAvailInd)
           both == delivered \o QueueView
<1>1. /\ QueueView \in Seq(Nat) /\ Len(QueueView) = n
      /\ \A k \in 1 .. n : QueueView[k] = qData[Slot(qReadInd, k - 1)]
  BY ViewProperties DEF ViewIsSeq
<1>2. /\ published \in Seq(Nat) /\ delivered \in Seq(Nat)
      /\ Len(published) \in Nat /\ Len(delivered) \in Nat /\ n \in Nat
  BY <1>1 DEF TypeOK
<1>3. /\ both \in Seq(Nat) /\ Len(both) = Len(delivered) + n
      /\ \A i \in 1 .. Len(delivered) + n :
           both[i] = IF i <= Len(delivered) THEN delivered[i] ELSE QueueView[i - Len(delivered)]
  <2>1. /\ both \in Seq(Nat) /\ Len(both) = Len(delivered) + Len(QueueView)
        /\ \A i \in 1 .. Len(delivered) + Len(QueueView) :
             both[i] = IF i <= Len(delivered) THEN delivered[i] ELSE QueueView[i - Len(delivered)]
    BY <1>1, <1>2, ConcatProperties, Zenon
  <2> QED
    BY <1>1, <2>1
<1>4. ContentOK
  OBVIOUS
<1>5. Len(published) = Len(both)
  BY <1>3, <1>4 DEF ContentOK
<1>6. ASSUME NEW i \in 1 .. Len(published) PROVE published[i] = both[i]
  <2>1. CASE i <= Len(delivered)
    BY <1>2, <1>3, <1>4, <1>5, <2>1 DEF ContentOK
  <2>2. CASE i > Len(delivered)
    <3> DEFINE k == i - Len(delivered) - 1
    <3>1. k \in 0 .. n - 1 /\ k + 1 \in 1 .. n /\ Len(delivered) + k + 1 = i
          /\ i - Len(delivered) = k + 1 /\ (k + 1) - 1 = k
      BY <1>2, <1>3, <1>5, <2>2
    <3>2. qData[Slot(qReadInd, k)] = published[i]
      BY <1>4, <3>1 DEF ContentOK
    <3>3. QueueView[k + 1] = qData[Slot(qReadInd, k)]
      BY <1>1, <3>1
    <3>4. both[i] = QueueView[k + 1]
      BY <1>2, <1>3, <1>5, <2>2, <3>1
    <3> QED
      BY <3>2, <3>3, <3>4
  <2>3. i <= Len(delivered) \/ i > Len(delivered)
    BY <1>2
  <2> QED
    BY <2>1, <2>2, <2>3
<1> HIDE DEF both
<1>7. published = both
  BY <1>2, <1>3, <1>5, <1>6, SeqEqual
<1> QED
  BY <1>7 DEF FifoOK, both

\* Under the inductive invariant push and pop work on different slots.
LEMMA IInvNoSlotRace == ASSUME SPSC PROVE IInv => NoSlotRace
<1> SUFFICES ASSUME IInv, NEW p \in Threads, NEW c \in Threads, pc[p] = "copyIn"
             PROVE  /\ pc[c] = "copyOut" => wi[p] # ri[c]
                    /\ pc[c] = "copyIn" => p = c
  BY Zenon DEF NoSlotRace
<1>1. RolesOK /\ WriterOK /\ ReaderOK
  BY DEF IInv
<1>2. p \in Producers /\ wi[p] = qAvailInd
  BY <1>1 DEF RolesOK, WriterOK, InFlight, PushPC
<1>3. ASSUME pc[c] = "copyOut" PROVE ri[c] = qReadInd /\ qReadInd # qAvailInd
  BY <1>1, <1>3 DEF RolesOK, ReaderOK, PopPC
<1>4. ASSUME pc[c] = "copyIn" PROVE p = c
  BY <1>1, <1>2, <1>4 DEF RolesOK, PushPC, SPSC
<1> QED
  BY <1>2, <1>3, <1>4

(***************************************************************************)
(* With one producer and one consumer, nothing that push accepts is lost,  *)
(* duplicated or reordered, whatever the ring size, the number of calls    *)
(* and the mix of blocking and non-blocking calls.                         *)
(***************************************************************************)
THEOREM SPSCFifo == ASSUME SPSC PROVE Spec => []FifoOK
<1>1. IInv => FifoOK
  BY ContentFifo DEF IInv
<1> QED
  BY <1>1, IInvHolds, PTL

(***************************************************************************)
(* With one producer and one consumer, the two memcpys never meet.         *)
(***************************************************************************)
THEOREM SPSCNoSlotRace == ASSUME SPSC PROVE Spec => []NoSlotRace
  BY IInvHolds, IInvNoSlotRace, PTL

(***************************************************************************)
(* With one producer and one consumer, the counter never leaves the range  *)
(* the tests for empty and full assume.                                    *)
(***************************************************************************)
THEOREM SPSCDepth == ASSUME SPSC PROVE Spec => []DepthBounded
<1>1. IInv => DepthBounded
  BY DEF IInv, DepthOK, DepthBounded
<1> QED
  BY <1>1, IInvHolds, PTL

-----------------------------------------------------------------------------
(***************************************************************************)
(* The ring implements the bounded FIFO.                                   *)
(***************************************************************************)
LEMMA ConcatAppend ==
  ASSUME NEW S, NEW s \in Seq(S), NEW t \in Seq(S), NEW x \in S
  PROVE  s \o Append(t, x) = Append(s \o t, x)
<1>1. /\ <<x>> \in Seq(S)
      /\ Append(t, x) = t \o <<x>>
      /\ s \o t \in Seq(S)
      /\ Append(s \o t, x) = (s \o t) \o <<x>>
  BY AppendIsConcat, ConcatProperties
<1> QED
  BY <1>1, ConcatAssociative

\* The front of two sequences, the first not empty.
LEMMA FrontOfConcat ==
  ASSUME NEW S, NEW s \in Seq(S), NEW x \in S
  PROVE  LET u == <<x>> \o s IN u # <<>> /\ Head(u) = x /\ Tail(u) = s
<1> DEFINE u == <<x>> \o s
<1>1. /\ u \in Seq(S) /\ Len(u) = 1 + Len(s) /\ Len(s) \in Nat
      /\ \A i \in 1 .. 1 + Len(s) : u[i] = IF i <= 1 THEN <<x>>[i] ELSE s[i - 1]
  BY ConcatProperties, <<x>> \in Seq(S), Len(<<x>>) = 1
<1>2. \A i \in 1 .. Len(s) : u[i + 1] = s[i]
  BY <1>1
<1>3. u[1] = x
  BY <1>1
<1> HIDE DEF u
<1>4. u # <<>> /\ Head(u) = x
  BY <1>1, <1>3, EmptySeq
<1>5. Tail(u) \in Seq(S) /\ Len(Tail(u)) = Len(s) /\ \A i \in 1 .. Len(s) : Tail(u)[i] = s[i]
  BY <1>1, <1>2, <1>4, HeadTailProperties
<1>6. Tail(u) = s
  BY <1>5, SeqEqual
<1> QED
  BY <1>4, <1>6 DEF u

\* Only publishing adds to published and only a successful release to delivered.
LEMMA HistoryStep ==
  ASSUME [Next]_vars
  PROVE  \/ \E t \in Threads : published' = Append(published, item[t]) /\ delivered' = delivered
         \/ \E t \in Threads : delivered' = Append(delivered, dd[t]) /\ published' = published
         \/ UNCHANGED <<published, delivered>>
  BY DEF Next, vars, shared, locals, history, PushStep, PopStep, PopEmpty, PushCall, PushSpin,
     PushLoadWrite, PushLoadRead, PushClaim, ClaimUnchecked, PushCopyIn, PushPublish, PublishNow,
     PushCount, PopCall, PopLoadRead, PopLoadAvail, PopCopyOut, PopRelease, ReleaseUnchecked,
     PopUncount, Threads

\* The queue starts as an empty FIFO.
LEMMA FifoInit == Init => Fifo!Init
<1> SUFFICES ASSUME Init PROVE Fifo!Init
  OBVIOUS
<1>1. QueueView \in Seq(Nat) /\ Len(QueueView) = 0
  BY TypeInit, ViewProperties DEF Init, Dist, ViewIsSeq
<1>2. QueueView = <<>>
  BY <1>1, EmptySeq
<1> QED
  BY <1>2 DEF Init, Fifo!Init

\* A step of the queue is a step of the FIFO, or none.
LEMMA FifoStepSimulated ==
  TypeOK /\ FifoOK /\ TypeOK' /\ FifoOK' /\ [Next]_vars =>
    [FifoStep]_<<published, QueueView, delivered>>
<1>a. TypeOK => ViewIsSeq
  BY ViewProperties
<1>b. TypeOK' => ViewIsSeq'
  BY <1>a, PTL
<1> SUFFICES ASSUME TypeOK, FifoOK, TypeOK', FifoOK', [Next]_vars
             PROVE  [FifoStep]_<<published, QueueView, delivered>>
  OBVIOUS
<1>1. /\ published = delivered \o QueueView
      /\ published' = delivered' \o QueueView'
  BY DEF FifoOK
<1>2. /\ published \in Seq(Nat) /\ delivered \in Seq(Nat)
      /\ published' \in Seq(Nat) /\ delivered' \in Seq(Nat)
      /\ item \in [Threads -> Nat] /\ dd \in [Threads -> Nat]
  BY DEF TypeOK
<1>3. QueueView \in Seq(Nat) /\ Len(QueueView) = Dist(qReadInd, qAvailInd)
  BY <1>a DEF ViewIsSeq
<1>4. QueueView' \in Seq(Nat) /\ Len(QueueView') = Dist(qReadInd, qAvailInd)'
  BY <1>b DEF ViewIsSeq
<1>5. Dist(qReadInd, qAvailInd)' \in 0 .. QSpace - 1
  BY DistType DEF TypeOK
<1>6. ASSUME NEW t \in Threads, published' = Append(published, item[t]), delivered' = delivered
      PROVE  Fifo!Enqueue(item[t])
  <2>1. delivered \o QueueView' = delivered \o Append(QueueView, item[t])
    <3>1. delivered \o QueueView' = Append(delivered \o QueueView, item[t])
      BY <1>1, <1>6
    <3>2. item[t] \in Nat
      BY <1>2
    <3> QED
      <4> DEFINE s == delivered
                 u == QueueView
                 x == item[t]
      <4>1. s \in Seq(Nat) /\ u \in Seq(Nat) /\ x \in Nat
        BY <1>2, <1>3, <3>2
      <4> HIDE DEF s, u, x
      <4>2. s \o Append(u, x) = Append(s \o u, x)
        BY <4>1, ConcatAppend
      <4> QED
        BY <3>1, <4>2 DEF s, u, x
  <2>2. Append(QueueView, item[t]) \in Seq(Nat) /\ Len(Append(QueueView, item[t])) = Len(QueueView) + 1
    BY <1>2, <1>3, AppendProperties
  <2>3. QueueView' = Append(QueueView, item[t])
    <3> DEFINE s == delivered
               u == QueueView'
               v == Append(QueueView, item[t])
    <3>1. s \in Seq(Nat) /\ u \in Seq(Nat) /\ v \in Seq(Nat) /\ s \o u = s \o v
      BY <1>2, <1>4, <2>1, <2>2
    <3> HIDE DEF s, u, v
    <3>2. u = v
      BY <3>1, ConcatSimplifications
    <3> QED
      BY <3>2 DEF u, v
  <2>4. Len(QueueView) < QSpace - 1
    BY <1>3, <1>4, <1>5, <2>2, <2>3, QSpaceAssumption
  <2> QED
    BY <1>6, <2>3, <2>4 DEF Fifo!Enqueue
<1>7. ASSUME NEW t \in Threads, delivered' = Append(delivered, dd[t]), published' = published
      PROVE  Fifo!Dequeue
  <2>1. /\ <<dd[t]>> \in Seq(Nat)
        /\ Append(delivered, dd[t]) = delivered \o <<dd[t]>>
    <3>1. dd[t] \in Nat
      BY <1>2
    <3> QED
      BY <1>2, <3>1, AppendIsConcat
  <2>2. <<dd[t]>> \o QueueView' \in Seq(Nat)
    BY <1>4, <2>1, ConcatProperties
  <2>3. delivered \o QueueView = delivered \o (<<dd[t]>> \o QueueView')
    <3>1. delivered \o QueueView = (delivered \o <<dd[t]>>) \o QueueView'
      BY <1>1, <1>7, <2>1
    <3> QED
      <4> DEFINE s == delivered
                 u == QueueView'
                 x == <<dd[t]>>
      <4>1. s \in Seq(Nat) /\ u \in Seq(Nat) /\ x \in Seq(Nat)
        BY <1>2, <1>4, <2>1
      <4> HIDE DEF s, u, x
      <4>2. (s \o x) \o u = s \o (x \o u)
        BY <4>1, NatConcat, Zenon
      <4> QED
        BY <3>1, <4>2 DEF s, u, x
  <2>4. QueueView = <<dd[t]>> \o QueueView'
    <3> DEFINE rest == <<dd[t]>> \o QueueView'
    <3>1. rest \in Seq(Nat) /\ delivered \o QueueView = delivered \o rest
      BY <2>2, <2>3
    <3> HIDE DEF rest
    <3>2. QueueView = rest
      BY <1>2, <1>3, <3>1, ConcatSimplifications
    <3> QED
      BY <3>2 DEF rest
  <2>5. QueueView # <<>> /\ Head(QueueView) = dd[t] /\ Tail(QueueView) = QueueView'
    <3> DEFINE rest == QueueView'
               x == dd[t]
    <3>1. rest \in Seq(Nat) /\ x \in Nat /\ QueueView = <<x>> \o rest
      BY <1>2, <1>4, <2>4
    <3> HIDE DEF rest, x
    <3>2. <<x>> \o rest # <<>> /\ Head(<<x>> \o rest) = x /\ Tail(<<x>> \o rest) = rest
      BY <3>1, FrontOfConcat
    <3> QED
      BY <3>1, <3>2 DEF rest, x
  <2> QED
    BY <1>7, <2>5 DEF Fifo!Dequeue
<1>8. ASSUME UNCHANGED <<published, delivered>> PROVE QueueView' = QueueView
  <2> DEFINE s == delivered
             u == QueueView'
             v == QueueView
  <2>1. s \in Seq(Nat) /\ u \in Seq(Nat) /\ v \in Seq(Nat) /\ s \o u = s \o v
    BY <1>1, <1>2, <1>3, <1>4, <1>8
  <2> HIDE DEF s, u, v
  <2>2. u = v
    BY <2>1, ConcatSimplifications
  <2> QED
    BY <2>2 DEF u, v
<1> QED
  BY <1>6, <1>7, <1>8, HistoryStep DEF FifoStep

(***************************************************************************)
(* With one producer and one consumer, push and pop are the two operations *)
(* of a bounded FIFO: each takes effect at one step, the publication of    *)
(* the slot (235) and the compare-and-swap on qReadInd (271).              *)
(***************************************************************************)
THEOREM SPSCImplementsFifo == ASSUME SPSC PROVE Spec => ImplementsFifo
<1>1. IInv => TypeOK /\ FifoOK
  BY ContentFifo DEF IInv
<1> QED
  BY <1>1, IInvHolds, FifoInit, FifoStepSimulated, PTL DEF Spec, ImplementsFifo

-----------------------------------------------------------------------------
(***************************************************************************)
(* Any number of producers and consumers, under LapFreeSpec.               *)
(***************************************************************************)
\* One step further from a, and the only way back to a within a lap.
LEMMA SlotStep ==
  \A a \in Ring : \A k \in 0 .. QSpace - 2 : Slot(a, k + 1) = NextInd(Slot(a, k))
  BY QSpaceAssumption DEF Ring, Slot, NextInd

\* Counting less than a whole round comes back to an index only at zero.
LEMMA SlotSelf == \A a \in Ring : \A k \in 0 .. QSpace - 1 : Slot(a, k) = a <=> k = 0
  BY QSpaceAssumption DEF Ring, Slot

\* Two slots at the same distance are the same slot.
LEMMA DistInjective == \A a, b, c \in Ring : Dist(a, b) = Dist(a, c) => b = c
  BY QSpaceAssumption DEF Ring, Dist

\* Room between the two indexes is what push tests for (225).
LEMMA DistRoom == \A a, b \in Ring : NextInd(b) # a => Dist(a, b) < QSpace - 1
  BY QSpaceAssumption DEF Ring, Dist, NextInd

\* At first nothing is claimed.
LEMMA SharedInit == Init => SharedInv
<1> SUFFICES ASSUME Init PROVE SharedInv
  OBVIOUS
<1>1. TypeOK
  BY TypeInit
<1>2. Dist(0, 0) = 0
  BY DEF Dist
<1>3. PushersOK /\ PoppersOK /\ LapFree
  BY DEF Init, PushersOK, PoppersOK, LapFree, PushPC
<1>4. ClaimsOK /\ ContentOK
  BY <1>2 DEF Init, ClaimsOK, ContentOK, InFlight
<1> QED
  BY <1>1, <1>3, <1>4 DEF SharedInv

\* Every step that LapFreeSpec allows keeps the invariant.
LEMMA SharedStep == SharedInv /\ [Next /\ LapFree' /\ ClaimHasRoom']_vars => SharedInv'
<1>a. SUFFICES ASSUME SharedInv, [Next /\ LapFree' /\ ClaimHasRoom']_vars PROVE SharedInv'
  OBVIOUS
<1>b. TypeOK' /\ LapFree'
  <2>1. TypeOK'
    BY <1>a, TypeStep DEF SharedInv
  <2>2. UNCHANGED vars => LapFree'
    BY <1>a DEF SharedInv, LapFree, vars
  <2> QED
    BY <1>a, <2>1, <2>2
<1>c. /\ TypeOK /\ LapFree /\ ClaimsOK /\ PushersOK /\ PoppersOK /\ ContentOK
      /\ TypeOK' /\ LapFree'
  BY <1>a, <1>b DEF SharedInv
<1>d. /\ qReadInd \in Ring /\ qAvailInd \in Ring /\ qWriteInd \in Ring
      /\ wi \in [Threads -> Ring] /\ ri \in [Threads -> Ring] /\ seen \in [Threads -> Nat]
      /\ QSpace \in Nat \ {0} /\ qData \in [Ring -> Nat] /\ claims \in Nat
      /\ published \in Seq(Nat) /\ delivered \in Seq(Nat)
      /\ Len(published) \in Nat /\ Len(delivered) \in Nat
  <2>1. /\ qReadInd \in Ring /\ qAvailInd \in Ring /\ qWriteInd \in Ring
        /\ wi \in [Threads -> Ring] /\ ri \in [Threads -> Ring] /\ seen \in [Threads -> Nat]
        /\ qData \in [Ring -> Nat] /\ claims \in Nat
        /\ published \in Seq(Nat) /\ delivered \in Seq(Nat)
    BY <1>c, Zenon DEF TypeOK
  <2>2. Len(published) \in Nat /\ Len(delivered) \in Nat
    BY <2>1, LenProperties
  <2> QED
    BY <2>1, <2>2, QSpaceAssumption
<1>e. /\ Dist(qReadInd, qAvailInd) \in 0 .. QSpace - 1
      /\ Dist(qReadInd, qWriteInd) \in 0 .. QSpace - 1
      /\ \A t \in Threads : Dist(qReadInd, wi[t]) \in 0 .. QSpace - 1
  BY <1>d, DistType
\* A push or a pop whose index has not moved since it loaded it, has seen all.
<1>p. /\ \A t \in Threads :
           pc[t] \in {"loadRead", "claim"} /\ qWriteInd = wi[t] => claims = seen[t]
      /\ \A t \in Threads :
           pc[t] \in {"popLoadAvail", "copyOut", "release"} /\ qReadInd = ri[t]
             => Len(delivered) = seen[t]
      /\ \A t \in Threads :
           pc[t] \in {"popLoadAvail", "copyOut", "release"} /\ Len(delivered) = seen[t]
             => qReadInd = ri[t]
  <2>1. ASSUME NEW t \in Threads, pc[t] \in {"loadRead", "claim"}, qWriteInd = wi[t]
        PROVE  claims = seen[t]
    <3>1. claims - seen[t] \in 0 .. QSpace - 1 /\ Slot(wi[t], claims - seen[t]) = wi[t]
      BY <1>c, <1>d, <2>1 DEF PushersOK, LapFree
    <3> QED
      BY <1>d, <3>1, SlotSelf
  <2>2. ASSUME NEW t \in Threads, pc[t] \in {"popLoadAvail", "copyOut", "release"}
        PROVE  qReadInd = ri[t] <=> Len(delivered) = seen[t]
    <3>1. /\ Len(delivered) - seen[t] \in 0 .. QSpace - 1
          /\ Slot(ri[t], Len(delivered) - seen[t]) = qReadInd
      BY <1>c, <1>d, <2>2 DEF PoppersOK, LapFree
    <3> QED
      BY <1>d, <3>1, SlotSelf
  <2> QED
    BY <2>1, <2>2
<1> USE DEF Goto, InFlight
<1>1. ASSUME NEW t \in Threads, NEW b \in PushModes, PushCall(t, b) PROVE SharedInv'
  <2>2. ClaimsOK'
    BY <1>c, <1>1 DEF PushCall, shared, locals, history, ClaimsOK, TypeOK
  <2>3. PushersOK'
    BY <1>c, <1>1 DEF PushCall, shared, locals, history, PushersOK, TypeOK
  <2>4. PoppersOK'
    BY <1>c, <1>1 DEF PushCall, shared, locals, history, PoppersOK, TypeOK
  <2>5. ContentOK'
    BY <1>c, <1>1 DEF PushCall, shared, locals, history, ContentOK, TypeOK
  <2> QED
    BY <1>b, <2>2, <2>3, <2>4, <2>5 DEF SharedInv
<1>2. ASSUME NEW t \in Threads, PushSpin(t) PROVE SharedInv'
  <2>2. ClaimsOK'
    BY <1>c, <1>2 DEF PushSpin, shared, locals, history, ClaimsOK, TypeOK
  <2>3. PushersOK'
    BY <1>c, <1>2 DEF PushSpin, shared, locals, history, PushersOK, TypeOK
  <2>4. PoppersOK'
    BY <1>c, <1>2 DEF PushSpin, shared, locals, history, PoppersOK, TypeOK
  <2>5. ContentOK'
    BY <1>c, <1>2 DEF PushSpin, shared, locals, history, ContentOK, TypeOK
  <2> QED
    BY <1>b, <2>2, <2>3, <2>4, <2>5 DEF SharedInv
<1>3. ASSUME NEW t \in Threads, PushLoadWrite(t) PROVE SharedInv'
  <2>2. ClaimsOK'
    BY <1>c, <1>3 DEF PushLoadWrite, shared, locals, history, ClaimsOK, TypeOK
  <2>3. PushersOK'
    <3>1. Slot(qWriteInd, 0) = qWriteInd
      BY <1>d, SlotZero
    <3> QED
      <4>1. /\ pc[t] = "loadWrite" /\ pc' = [pc EXCEPT ![t] = "loadRead"]
            /\ UNCHANGED <<qWriteInd, qReadInd, claims>>
            /\ wi' = [wi EXCEPT ![t] = qWriteInd] /\ seen' = [seen EXCEPT ![t] = claims]
            /\ ri' = ri
        BY <1>3 DEF PushLoadWrite, shared
      <4>2. pc \in [Threads -> {"idle"} \union PushPC \union PopPC]
        BY <1>c DEF TypeOK
      <4>3. claims - claims = 0
        BY <1>d
      <4> QED
        BY <1>c, <1>d, <3>1, <4>1, <4>2, <4>3 DEF PushersOK
  <2>4. PoppersOK'
    BY <1>c, <1>3 DEF PushLoadWrite, shared, locals, history, PoppersOK, TypeOK
  <2>5. ContentOK'
    BY <1>c, <1>3 DEF PushLoadWrite, shared, locals, history, ContentOK, TypeOK
  <2> QED
    BY <1>b, <2>2, <2>3, <2>4, <2>5 DEF SharedInv
<1>4. ASSUME NEW t \in Threads, PushLoadRead(t) PROVE SharedInv'
  <2>2. ClaimsOK'
    BY <1>c, <1>4 DEF PushLoadRead, NoRoom, shared, locals, history, ClaimsOK, TypeOK
  <2>3. PushersOK'
    <3>1. pc[t] = "loadRead" /\ (claims = seen[t] => qWriteInd = wi[t])
      <4>1. pc[t] = "loadRead"
        BY <1>4 DEF PushLoadRead
      <4>2. claims = seen[t] => Slot(wi[t], 0) = qWriteInd
        BY <1>c, <1>d, <4>1 DEF PushersOK
      <4> QED
        BY <1>d, <4>1, <4>2, SlotZero
    <3>2. /\ wi' = wi /\ ri'[t] = qReadInd /\ \A s \in Threads : s # t => ri'[s] = ri[s]
          /\ \A s \in Threads : s # t => pc'[s] = pc[s]
          /\ UNCHANGED <<shared, history>>
      BY <1>c, <1>4 DEF PushLoadRead, TypeOK
    <3>3. claims = seen[t] /\ ~NoRoom(wi[t], qReadInd) => Dist(qReadInd, qWriteInd) < QSpace - 1
      BY <1>d, <3>1, DistRoom DEF NoRoom
    <3> HIDE DEF NoRoom
    <3> QED
      BY <1>c, <3>1, <3>2, <3>3 DEF shared, history, PushersOK
  <2>4. PoppersOK'
    BY <1>c, <1>4 DEF PushLoadRead, NoRoom, shared, locals, history, PoppersOK, TypeOK
  <2>5. ContentOK'
    BY <1>c, <1>4 DEF PushLoadRead, NoRoom, shared, locals, history, ContentOK, TypeOK
  <2> QED
    BY <1>b, <2>2, <2>3, <2>4, <2>5 DEF SharedInv
<1>5. ASSUME NEW t \in Threads, PushClaim(t) PROVE SharedInv'
  <2>0. CASE qWriteInd # wi[t]
    <3>1. /\ pc[t] = "claim" /\ pc' = [pc EXCEPT ![t] = "loadWrite"]
          /\ UNCHANGED <<shared, locals, history>>
      BY <1>5, <2>0 DEF PushClaim
    <3>2. ClaimsOK'
      BY <1>c, <3>1 DEF shared, locals, history, ClaimsOK, TypeOK
    <3>3. PushersOK' /\ PoppersOK' /\ ContentOK'
      BY <1>c, <3>1 DEF shared, locals, history, PushersOK, PoppersOK, ContentOK, TypeOK
    <3> QED
      BY <1>b, <3>2, <3>3 DEF SharedInv
  <2>z. SUFFICES ASSUME qWriteInd = wi[t] PROVE SharedInv'
    BY <2>0
  <2>y. /\ ClaimUnchecked(t) /\ pc[t] = "claim" /\ claims = seen[t]
        /\ Dist(qReadInd, qWriteInd) < QSpace - 1
        /\ Dist(qReadInd, qWriteInd') = Dist(qReadInd, qWriteInd) + 1
    <3>1. ClaimUnchecked(t) /\ pc[t] = "claim" /\ qWriteInd' = NextInd(qWriteInd)
      BY <1>5, <2>z DEF PushClaim, ClaimUnchecked
    <3>2. claims = seen[t]
      BY <1>p, <2>z, <3>1
    <3>3. pc'[t] = "copyIn" /\ wi'[t] = wi[t] /\ ri'[t] = ri[t]
      BY <1>c, <3>1 DEF ClaimUnchecked, locals, TypeOK
    <3>4. ClaimHasRoom'
      BY <1>a, <3>1, <3>3 DEF vars
    <3>5. ~NoRoom(wi[t], ri[t])
      BY <3>3, <3>4 DEF ClaimHasRoom, NoRoom
    <3>6. Dist(qReadInd, qWriteInd) < QSpace - 1
      BY <1>c, <3>1, <3>2, <3>5 DEF PushersOK
    <3> QED
      BY <1>d, <3>1, <3>2, <3>6, DistGrow
  <2>2. ClaimsOK'
    <3>1. claims' = Len(delivered') + Dist(qReadInd', qWriteInd')
      BY <1>c, <1>d, <1>e, <2>y DEF ClaimUnchecked, ClaimsOK
    <3>2. /\ pc' = [pc EXCEPT ![t] = "copyIn"]
          /\ UNCHANGED <<qReadInd, qAvailInd, qData, wi, item>>
      BY <2>y DEF ClaimUnchecked, locals
    <3>3. pc'[t] = "copyIn" /\ \A s \in Threads \ {t} : pc'[s] = pc[s]
      BY <1>c, <3>2 DEF TypeOK
    <3>4. \A s \in Threads \ {t} : InFlight(s) => wi[s] # wi[t]
      BY <1>c, <1>e, <2>z DEF ClaimsOK
    <3>5. /\ Dist(qReadInd, qAvailInd) <= Dist(qReadInd, qWriteInd)
          /\ \A s \in Threads : InFlight(s) =>
               /\ Dist(qReadInd, qAvailInd) <= Dist(qReadInd, wi[s])
               /\ Dist(qReadInd, wi[s]) < Dist(qReadInd, qWriteInd)
               /\ \A r \in Threads \ {s} : InFlight(r) => wi[r] # wi[s]
               /\ pc[s] = "publish" => qData[wi[s]] = item[s]
      BY <1>c DEF ClaimsOK
    <3>6. Dist(qReadInd', qAvailInd') <= Dist(qReadInd', qWriteInd')
      BY <1>e, <2>y, <3>2, <3>5
    <3>7. ASSUME NEW s \in Threads, InFlight(s)'
          PROVE  /\ Dist(qReadInd', qAvailInd') <= Dist(qReadInd', wi'[s])
                 /\ Dist(qReadInd', wi'[s]) < Dist(qReadInd', qWriteInd')
                 /\ \A r \in Threads \ {s} : InFlight(r)' => wi'[r] # wi'[s]
                 /\ pc'[s] = "publish" => qData'[wi'[s]] = item'[s]
      <4>1. CASE s = t
        BY <1>e, <2>z, <2>y, <3>2, <3>3, <3>4, <3>5, <4>1
      <4>2. CASE s # t
        BY <1>e, <2>y, <3>2, <3>3, <3>4, <3>5, <3>7, <4>2
      <4> QED
        BY <4>1, <4>2
    <3> QED
      BY <3>1, <3>6, <3>7 DEF ClaimsOK
  <2>3. PushersOK'
    <3>1. /\ claims' = claims + 1 /\ qWriteInd' = NextInd(qWriteInd)
          /\ wi' = wi /\ seen' = seen /\ qReadInd' = qReadInd
          /\ \A s \in Threads : pc'[s] \in {"loadRead", "claim"} => pc[s] \in {"loadRead", "claim"}
      BY <1>c, <2>z, <2>y DEF ClaimUnchecked, locals, TypeOK
    <3>2. ASSUME NEW s \in Threads, pc'[s] \in {"loadRead", "claim"}
          PROVE  /\ seen'[s] <= claims' /\ claims' # seen'[s]
                 /\ qWriteInd' = Slot(wi'[s], claims' - seen'[s])
      <4>1. pc[s] \in {"loadRead", "claim"}
        BY <3>1, <3>2
      <4>2. seen[s] <= claims /\ qWriteInd = Slot(wi[s], claims - seen[s])
        BY <1>c, <4>1 DEF PushersOK
      <4>3. claims' - seen'[s] < QSpace
        BY <1>c, <3>2 DEF LapFree
      <4>4. /\ claims - seen[s] \in 0 .. QSpace - 2 /\ (claims - seen[s]) + 1 = claims' - seen'[s]
            /\ seen'[s] <= claims' /\ claims' # seen'[s]
        <5>1. claims \in Nat /\ seen[s] \in Nat /\ QSpace \in Nat
          BY <1>d
        <5>2. claims' = claims + 1 /\ seen'[s] = seen[s]
          BY <3>1
        <5> HIDE <1>c, <1>d, <1>e, <1>p
        <5> QED
          BY <4>2, <4>3, <5>1, <5>2
      <4>5. wi[s] \in Ring /\ wi'[s] = wi[s]
        BY <1>d, <3>1
      <4>6. NextInd(Slot(wi[s], claims - seen[s])) = Slot(wi[s], (claims - seen[s]) + 1)
        BY <4>4, <4>5, SlotStep
      <4> QED
        BY <3>1, <4>2, <4>4, <4>5, <4>6
    <3> QED
      BY <3>2 DEF PushersOK
  <2>4. PoppersOK'
    BY <1>c, <2>y DEF ClaimUnchecked, locals, PoppersOK, TypeOK
  <2>5. ContentOK'
    BY <1>c, <2>y DEF ClaimUnchecked, ContentOK
  <2> QED
    BY <1>b, <2>2, <2>3, <2>4, <2>5 DEF SharedInv
<1>6. ASSUME NEW t \in Threads, PushCopyIn(t) PROVE SharedInv'
  <2>0. /\ pc[t] = "copyIn" /\ (wi[t] # qReadInd \/ Dist(qReadInd, qAvailInd) = 0)
        /\ \A k \in 0 .. Dist(qReadInd, qAvailInd) - 1 : Slot(qReadInd, k) # wi[t]
    <3>1. pc[t] = "copyIn" /\ Dist(qReadInd, qAvailInd) <= Dist(qReadInd, wi[t])
      BY <1>c, <1>6 DEF PushCopyIn, ClaimsOK
    <3>2. \A k \in 0 .. Dist(qReadInd, qAvailInd) - 1 : k \in 0 .. Dist(qReadInd, wi[t]) - 1
      BY <1>e, <3>1
    <3>3. \A k \in 0 .. Dist(qReadInd, qAvailInd) - 1 : Slot(qReadInd, k) # wi[t]
      BY <1>d, <3>2, SlotBefore
    <3>4. Dist(qReadInd, qReadInd) = 0
      BY <1>d, DistZero
    <3> QED
      BY <1>e, <3>1, <3>3, <3>4
  <2>2. ClaimsOK'
    BY <1>c, <1>6 DEF PushCopyIn, shared, locals, history, ClaimsOK, TypeOK
  <2>3. PushersOK'
    BY <1>c, <1>6 DEF PushCopyIn, shared, locals, history, PushersOK, TypeOK
  <2>4. PoppersOK'
    <3>1. qReadInd # qAvailInd => qData'[qReadInd] = qData[qReadInd]
      BY <1>d, <1>6, <2>0, DistZero DEF PushCopyIn
    <3> QED
      BY <1>c, <1>6, <3>1 DEF PushCopyIn, shared, locals, history, PoppersOK, TypeOK
  <2>5. ContentOK'
    <3>1. \A k \in 0 .. Dist(qReadInd, qAvailInd) - 1 : Slot(qReadInd, k) \in Ring
      BY <1>d, <1>e, SlotType
    <3> QED
      BY <1>c, <1>d, <1>6, <2>0, <3>1 DEF PushCopyIn, locals, history, ContentOK
  <2> QED
    BY <1>b, <2>2, <2>3, <2>4, <2>5 DEF SharedInv
<1>7. ASSUME NEW t \in Threads, PushPublish(t) PROVE SharedInv'
  <2> DEFINE d == Dist(qReadInd, qAvailInd)
  <2>0. /\ pc[t] = "publish" /\ wi[t] = qAvailInd /\ qData[wi[t]] = item[t]
        /\ pc' = [pc EXCEPT ![t] = "count"] /\ qAvailInd' = NextInd(qAvailInd)
        /\ published' = Append(published, item[t])
        /\ UNCHANGED <<qData, qReadInd, qWriteInd, delivered, claims, seen, locals>>
        /\ d \in Nat /\ d < Dist(qReadInd, qWriteInd)
        /\ Dist(qReadInd', qAvailInd') = d + 1
    <3>1. /\ pc[t] = "publish" /\ wi[t] = qAvailInd /\ qAvailInd' = NextInd(qAvailInd)
          /\ pc' = [pc EXCEPT ![t] = "count"] /\ published' = Append(published, item[t])
          /\ UNCHANGED <<qData, qReadInd, qWriteInd, delivered, claims, seen, locals>>
      BY <1>7 DEF PushPublish, PublishNow
    <3>2. qData[wi[t]] = item[t] /\ d < Dist(qReadInd, qWriteInd)
      BY <1>c, <3>1 DEF ClaimsOK
    <3>3. d \in Nat /\ d < QSpace - 1
      <4>1. Dist(qReadInd, qWriteInd) <= QSpace - 1 /\ d \in Nat /\ QSpace \in Nat
        BY <1>d, <1>e
      <4> QED
        BY <1>d, <1>e, <3>2, <4>1
    <3> QED
      BY <1>d, <1>e, <3>1, <3>2, <3>3, DistGrow
  <2>2. ClaimsOK'
    <3>1. \A s \in Threads : InFlight(s)' => InFlight(s) /\ s # t
      BY <1>c, <2>0 DEF TypeOK
    <3>2. \A s \in Threads : InFlight(s)' => Dist(qReadInd, wi[s]) # d
      BY <1>c, <1>d, <2>0, <3>1, DistInjective DEF ClaimsOK
    <3>3. \A s \in Threads : InFlight(s)' => d + 1 <= Dist(qReadInd, wi[s])
      BY <1>c, <1>e, <3>1, <3>2 DEF ClaimsOK
    <3>4. \A s \in Threads : pc'[s] = "publish" => pc[s] = "publish"
      BY <1>c, <2>0 DEF TypeOK
    <3> QED
      BY <1>c, <1>e, <2>0, <3>1, <3>3, <3>4 DEF ClaimsOK, locals
  <2>3. PushersOK'
    BY <1>c, <2>0 DEF locals, PushersOK, TypeOK
  <2>4. PoppersOK'
    <3>1. qReadInd # qAvailInd'
      BY <1>c, <2>0, DistZero DEF TypeOK
    <3> QED
      BY <1>c, <2>0, <3>1 DEF locals, PoppersOK, TypeOK
  <2>5. ContentOK'
    BY <1>c, <1>d, <2>0, PublishContent
  <2> QED
    BY <1>b, <2>2, <2>3, <2>4, <2>5 DEF SharedInv
<1>8. ASSUME NEW t \in Threads, PushCount(t) PROVE SharedInv'
  <2>2. ClaimsOK'
    BY <1>c, <1>8 DEF PushCount, shared, locals, history, ClaimsOK, TypeOK
  <2>3. PushersOK'
    BY <1>c, <1>8 DEF PushCount, shared, locals, history, PushersOK, TypeOK
  <2>4. PoppersOK'
    BY <1>c, <1>8 DEF PushCount, shared, locals, history, PoppersOK, TypeOK
  <2>5. ContentOK'
    BY <1>c, <1>8 DEF PushCount, shared, locals, history, ContentOK, TypeOK
  <2> QED
    BY <1>b, <2>2, <2>3, <2>4, <2>5 DEF SharedInv
<1>9. ASSUME NEW t \in Threads, NEW b \in BOOLEAN, PopCall(t, b) PROVE SharedInv'
  <2>2. ClaimsOK'
    BY <1>c, <1>9 DEF PopCall, shared, locals, history, ClaimsOK, TypeOK
  <2>3. PushersOK'
    BY <1>c, <1>9 DEF PopCall, shared, locals, history, PushersOK, TypeOK
  <2>4. PoppersOK'
    BY <1>c, <1>9 DEF PopCall, shared, locals, history, PoppersOK, TypeOK
  <2>5. ContentOK'
    BY <1>c, <1>9 DEF PopCall, shared, locals, history, ContentOK, TypeOK
  <2> QED
    BY <1>b, <2>2, <2>3, <2>4, <2>5 DEF SharedInv
<1>10. ASSUME NEW t \in Threads, PopLoadRead(t) PROVE SharedInv'
  <2>2. ClaimsOK'
    BY <1>c, <1>10 DEF PopLoadRead, shared, locals, history, ClaimsOK, TypeOK
  <2>3. PushersOK'
    BY <1>c, <1>10 DEF PopLoadRead, shared, locals, history, PushersOK, TypeOK
  <2>4. PoppersOK'
    <3>1. Slot(qReadInd, 0) = qReadInd
      BY <1>d, SlotZero
    <3> QED
      BY <1>c, <1>d, <1>10, <3>1 DEF PopLoadRead, shared, PoppersOK, TypeOK
  <2>5. ContentOK'
    BY <1>c, <1>10 DEF PopLoadRead, shared, locals, history, ContentOK, TypeOK
  <2> QED
    BY <1>b, <2>2, <2>3, <2>4, <2>5 DEF SharedInv
<1>11. ASSUME NEW t \in Threads, PopLoadAvail(t) PROVE SharedInv'
  <2>2. ClaimsOK'
    BY <1>c, <1>11 DEF PopLoadAvail, shared, locals, history, ClaimsOK, TypeOK
  <2>3. PushersOK'
    BY <1>c, <1>11 DEF PopLoadAvail, shared, locals, history, PushersOK, TypeOK
  <2>4. PoppersOK'
    <3>1. pc[t] = "popLoadAvail" /\ (Len(delivered) = seen[t] => qReadInd = ri[t])
      BY <1>p, <1>11 DEF PopLoadAvail
    <3> QED
      BY <1>c, <1>11, <3>1 DEF PopLoadAvail, shared, locals, history, PoppersOK, TypeOK
  <2>5. ContentOK'
    BY <1>c, <1>11 DEF PopLoadAvail, shared, locals, history, ContentOK, TypeOK
  <2> QED
    BY <1>b, <2>2, <2>3, <2>4, <2>5 DEF SharedInv
<1>12. ASSUME NEW t \in Threads, PopCopyOut(t) PROVE SharedInv'
  <2>2. ClaimsOK'
    BY <1>c, <1>12 DEF PopCopyOut, shared, locals, history, ClaimsOK, TypeOK
  <2>3. PushersOK'
    BY <1>c, <1>12 DEF PopCopyOut, shared, locals, history, PushersOK, TypeOK
  <2>4. PoppersOK'
    <3>1. pc[t] = "copyOut" /\ (Len(delivered) = seen[t] => qReadInd = ri[t])
      BY <1>p, <1>12 DEF PopCopyOut
    <3> QED
      BY <1>c, <1>12, <3>1 DEF PopCopyOut, shared, locals, history, PoppersOK, TypeOK
  <2>5. ContentOK'
    BY <1>c, <1>12 DEF PopCopyOut, shared, locals, history, ContentOK, TypeOK
  <2> QED
    BY <1>b, <2>2, <2>3, <2>4, <2>5 DEF SharedInv
<1>13. ASSUME NEW t \in Threads, PopRelease(t) PROVE SharedInv'
  <2>0. CASE qReadInd # ri[t]
    <3>1. /\ pc[t] = "release" /\ pc' = [pc EXCEPT ![t] = IF blocking[t] THEN "popLoadRead" ELSE "idle"]
          /\ UNCHANGED <<shared, locals, history>>
      BY <1>13, <2>0 DEF PopRelease
    <3>2. ClaimsOK'
      BY <1>c, <3>1 DEF shared, locals, history, ClaimsOK, TypeOK
    <3>3. PushersOK' /\ PoppersOK' /\ ContentOK'
      BY <1>c, <3>1 DEF shared, locals, history, PushersOK, PoppersOK, ContentOK, TypeOK
    <3> QED
      BY <1>b, <3>2, <3>3 DEF SharedInv
  <2>z. SUFFICES ASSUME qReadInd = ri[t] PROVE SharedInv'
    BY <2>0
  <2> DEFINE d == Dist(qReadInd, qAvailInd)
  <2>y. /\ pc[t] = "release" /\ pc' = [pc EXCEPT ![t] = "uncount"]
        /\ qReadInd' = NextInd(qReadInd) /\ delivered' = Append(delivered, dd[t])
        /\ UNCHANGED <<qData, qWriteInd, qAvailInd, locals, published, claims, seen>>
        /\ qReadInd # qAvailInd /\ dd[t] = qData[qReadInd]
    <3>1. pc[t] = "release" /\ ReleaseUnchecked(t)
      BY <1>13, <2>z DEF PopRelease, ReleaseUnchecked
    <3> QED
      BY <1>c, <1>p, <2>z, <3>1 DEF PoppersOK, ReleaseUnchecked
  <2>x. /\ d \in 1 .. QSpace - 1 /\ Dist(qReadInd', qAvailInd') = d - 1
        /\ Dist(qReadInd', qWriteInd') = Dist(qReadInd, qWriteInd) - 1
        /\ \A s \in Threads : InFlight(s) =>
             Dist(qReadInd', wi[s]) = Dist(qReadInd, wi[s]) - 1
    <3>1. d # 0 /\ d \in 1 .. QSpace - 1
      BY <1>d, <1>e, <2>y, DistZero
    <3>2. qReadInd # qWriteInd /\ \A s \in Threads : InFlight(s) => qReadInd # wi[s]
      <4>1. /\ d <= Dist(qReadInd, qWriteInd)
            /\ \A s \in Threads : InFlight(s) => d <= Dist(qReadInd, wi[s])
        BY <1>c DEF ClaimsOK
      <4>2. Dist(qReadInd, qReadInd) = 0
        BY <1>d, DistZero
      <4>3. ~(d <= 0)
        BY <3>1
      <4> HIDE DEF d, InFlight
      <4> QED
        BY <4>1, <4>2, <4>3
    <3> QED
      BY <1>d, <2>y, <3>1, <3>2, DistShrink
  <2>w. Len(delivered') = Len(delivered) + 1
    BY <1>d, <2>y
  <2>2. ClaimsOK'
    <3>1. \A s \in Threads : InFlight(s)' => InFlight(s) /\ pc'[s] = pc[s]
      BY <1>c, <2>y DEF TypeOK
    <3>2. ASSUME NEW s \in Threads, InFlight(s)'
          PROVE  /\ Dist(qReadInd', qAvailInd') <= Dist(qReadInd', wi[s])
                 /\ Dist(qReadInd', wi[s]) < Dist(qReadInd', qWriteInd')
                 /\ pc'[s] = "publish" => qData[wi[s]] = item[s]
      BY <1>c, <1>e, <2>x, <3>1, <3>2 DEF ClaimsOK
    <3>3. /\ claims = Len(delivered) + 1 + (Dist(qReadInd, qWriteInd) - 1)
          /\ d - 1 <= Dist(qReadInd, qWriteInd) - 1
      BY <1>c, <1>d, <1>e DEF ClaimsOK
    <3>4. UNCHANGED <<qData, wi, item, claims>>
      BY <2>y DEF locals
    <3>5. \A s, r \in Threads : InFlight(s)' /\ InFlight(r)' /\ s # r => wi[s] # wi[r]
      BY <1>c, <3>1 DEF ClaimsOK
    <3> HIDE DEF InFlight
    <3> QED
      BY <2>x, <2>w, <3>2, <3>3, <3>4, <3>5 DEF ClaimsOK
  <2>3. PushersOK'
    <3>1. \A s \in Threads : pc'[s] \in {"loadRead", "claim"} => pc'[s] = pc[s]
      BY <1>c, <2>y DEF TypeOK
    <3>2. UNCHANGED <<wi, seen, claims, qWriteInd>>
      BY <2>y DEF locals
    <3>3. Dist(qReadInd, qWriteInd) < QSpace - 1 => Dist(qReadInd', qWriteInd') < QSpace - 1
      BY <1>d, <1>e, <2>x
    <3>4. ri' = ri
      BY <2>y DEF locals
    <3> QED
      BY <1>c, <3>1, <3>2, <3>3, <3>4 DEF PushersOK, NoRoom
  <2>4. PoppersOK'
    <3>0. /\ ri' = ri /\ seen' = seen
          /\ \A s \in Threads : pc'[s] \in {"popLoadAvail", "copyOut", "release"} =>
               pc[s] \in {"popLoadAvail", "copyOut", "release"}
      BY <1>c, <2>y DEF TypeOK, locals
    <3>1. ASSUME NEW s \in Threads, pc'[s] \in {"popLoadAvail", "copyOut", "release"}
          PROVE  /\ seen'[s] <= Len(delivered') /\ Len(delivered') # seen'[s]
                 /\ qReadInd' = Slot(ri'[s], Len(delivered') - seen'[s])
      <4>1. pc[s] \in {"popLoadAvail", "copyOut", "release"}
        BY <3>0, <3>1
      <4>2. seen[s] <= Len(delivered) /\ qReadInd = Slot(ri[s], Len(delivered) - seen[s])
        BY <1>c, <4>1 DEF PoppersOK
      <4>3. Len(delivered') - seen'[s] < QSpace
        BY <1>c, <3>1 DEF LapFree
      <4>4. /\ Len(delivered) - seen[s] \in 0 .. QSpace - 2
            /\ (Len(delivered) - seen[s]) + 1 = Len(delivered') - seen'[s]
            /\ seen[s] # Len(delivered')
        <5>1. seen[s] \in Nat /\ Len(delivered) \in Nat /\ QSpace \in Nat /\ seen[s] <= Len(delivered)
          BY <1>d, <4>2
        <5>2. Len(delivered) + 1 - seen[s] < QSpace
          BY <2>w, <3>0, <4>3, <5>1
        <5> QED
          BY <2>w, <3>0, <5>1, <5>2
      <4>5. Slot(ri[s], (Len(delivered) - seen[s]) + 1) = NextInd(qReadInd)
        BY <1>d, <4>2, <4>4, SlotStep
      <4> QED
        BY <1>d, <2>y, <2>w, <3>0, <4>2, <4>4, <4>5
    <3> QED
      BY <3>1 DEF PoppersOK
  <2>5. ContentOK'
    BY <1>c, <1>d, <2>y, <2>x, ReleaseContent
  <2> QED
    BY <1>b, <2>2, <2>3, <2>4, <2>5 DEF SharedInv
<1>14. ASSUME NEW t \in Threads, PopUncount(t) PROVE SharedInv'
  <2>2. ClaimsOK'
    BY <1>c, <1>14 DEF PopUncount, shared, locals, history, ClaimsOK, TypeOK
  <2>3. PushersOK'
    BY <1>c, <1>14 DEF PopUncount, shared, locals, history, PushersOK, TypeOK
  <2>4. PoppersOK'
    BY <1>c, <1>14 DEF PopUncount, shared, locals, history, PoppersOK, TypeOK
  <2>5. ContentOK'
    BY <1>c, <1>14 DEF PopUncount, shared, locals, history, ContentOK, TypeOK
  <2> QED
    BY <1>b, <2>2, <2>3, <2>4, <2>5 DEF SharedInv
<1>15. CASE UNCHANGED vars
  BY <1>b, <1>c, <1>15 DEF vars, SharedInv, ClaimsOK, PushersOK, PoppersOK, ContentOK
<1> HIDE DEF Goto, InFlight
<1> QED
  BY <1>a, <1>1, <1>2, <1>3, <1>4, <1>5, <1>6, <1>7, <1>8, <1>9, <1>10, <1>11, <1>12, <1>13,
     <1>14, <1>15, ModesAssumption DEF Next, PushStep, PopStep, PopEmpty, Threads

(***************************************************************************)
(* A push that does not block, as the flush's into qdel (xs_logger.h:122), *)
(* goes on only where it has found room (225), whatever the schedule: of   *)
(* it LapFreeSpec assumes nothing but that no lap passes.                  *)
(***************************************************************************)
THEOREM UnblockedPushHasRoom ==
  ASSUME PushModes \subseteq {FALSE} PROVE Spec => []ClaimHasRoom
<1> DEFINE Careful ==
      /\ TypeOK /\ ClaimHasRoom
      /\ \A t \in Threads : pc[t] \in PushPC => ~blocking[t]
      /\ \A t \in Threads : pc[t] = "claim" => ~NoRoom(wi[t], ri[t])
<1>1. Init => Careful
  BY TypeInit DEF Init, PushPC, ClaimHasRoom
<1>2. Careful /\ [Next]_vars => Careful'
  <2> SUFFICES ASSUME Careful, [Next]_vars PROVE Careful'
    OBVIOUS
  <2>0. TypeOK'
    BY TypeStep
  <2> USE DEF Goto, ClaimHasRoom, TypeOK, PushPC, PopPC, shared, locals, history
  <2>1. ASSUME NEW t \in Threads, NEW b \in PushModes, PushCall(t, b) PROVE Careful'
    BY <2>0, <2>1 DEF PushCall
  <2>2. ASSUME NEW t \in Threads, PushSpin(t) PROVE Careful'
    BY <2>0, <2>2 DEF PushSpin
  <2>3. ASSUME NEW t \in Threads, PushLoadWrite(t) PROVE Careful'
    BY <2>0, <2>3 DEF PushLoadWrite
  <2>4. ASSUME NEW t \in Threads, PushLoadRead(t) PROVE Careful'
    BY <2>0, <2>4 DEF PushLoadRead
  <2>5. ASSUME NEW t \in Threads, PushClaim(t) PROVE Careful'
    <3>1. /\ pc[t] = "claim" /\ wi' = wi /\ ri' = ri /\ blocking' = blocking
          /\ pc' \in {[pc EXCEPT ![t] = "copyIn"], [pc EXCEPT ![t] = "loadWrite"]}
      BY <2>5 DEF PushClaim, ClaimUnchecked
    <3> QED
      BY <2>0, <3>1
  <2>6. ASSUME NEW t \in Threads, PushCopyIn(t) PROVE Careful'
    BY <2>0, <2>6 DEF PushCopyIn
  <2>7. ASSUME NEW t \in Threads, PushPublish(t) PROVE Careful'
    BY <2>0, <2>7 DEF PushPublish, PublishNow
  <2>8. ASSUME NEW t \in Threads, PushCount(t) PROVE Careful'
    BY <2>0, <2>8 DEF PushCount
  <2>9. ASSUME NEW t \in Threads, NEW b \in BOOLEAN, PopCall(t, b) PROVE Careful'
    BY <2>0, <2>9 DEF PopCall
  <2>10. ASSUME NEW t \in Threads, PopLoadRead(t) PROVE Careful'
    BY <2>0, <2>10 DEF PopLoadRead
  <2>11. ASSUME NEW t \in Threads, PopLoadAvail(t) PROVE Careful'
    BY <2>0, <2>11 DEF PopLoadAvail
  <2>12. ASSUME NEW t \in Threads, PopCopyOut(t) PROVE Careful'
    BY <2>0, <2>12 DEF PopCopyOut
  <2>13. ASSUME NEW t \in Threads, PopRelease(t) PROVE Careful'
    <3>1. /\ pc[t] = "release" /\ wi' = wi /\ ri' = ri /\ blocking' = blocking
          /\ \E to \in PopPC \union {"idle"} : pc' = [pc EXCEPT ![t] = to]
      BY <2>13 DEF PopRelease, ReleaseUnchecked
    <3> QED
      BY <2>0, <3>1
  <2>14. ASSUME NEW t \in Threads, PopUncount(t) PROVE Careful'
    BY <2>0, <2>14 DEF PopUncount
  <2>15. CASE UNCHANGED vars
    BY <2>0, <2>15 DEF vars
  <2> QED
    <3> HIDE DEF Careful, Goto, TypeOK
    <3> QED
      BY <2>1, <2>2, <2>3, <2>4, <2>5, <2>6, <2>7, <2>8, <2>9, <2>10, <2>11, <2>12, <2>13,
         <2>14, <2>15, ModesAssumption DEF Next, PushStep, PopStep, PopEmpty, Threads
<1> QED
  BY <1>1, <1>2, PTL DEF Spec

(***************************************************************************)
(* With any number of producers and consumers, the indexes and slots of    *)
(* the ring agree with what push and pop have done, as long as no thread   *)
(* is overtaken by a whole lap between its load and its compare-and-swap   *)
(* (219-231, 263-271) and no blocking push, as into acceptqueue, goes past *)
(* "no room" (228).                                                        *)
(***************************************************************************)
THEOREM SharedInvariant == LapFreeSpec => []SharedInv
  BY SharedInit, SharedStep, PTL DEF LapFreeSpec

(***************************************************************************)
(* Then no element that any of them pushes is lost, duplicated, invented   *)
(* or reordered, whoever pops it.                                          *)
(***************************************************************************)
THEOREM SharedFifo == LapFreeSpec => []FifoOK
<1>1. SharedInv => FifoOK
  BY ContentFifo DEF SharedInv
<1> QED
  BY <1>1, SharedInvariant, PTL

(***************************************************************************)
(* And a push writes (234) a slot that no other push has claimed and no    *)
(* pop can read.                                                           *)
(***************************************************************************)
THEOREM SharedClaims == LapFreeSpec => []ClaimedSlotsFree
<1>1. SharedInv => ClaimedSlotsFree
  <2> SUFFICES ASSUME SharedInv PROVE ClaimedSlotsFree
    OBVIOUS
  <2>1. Dist(qReadInd, qAvailInd) \in Int /\ \A t \in Threads : Dist(qReadInd, wi[t]) \in Int
    BY DistType, QSpaceAssumption DEF SharedInv, TypeOK
  <2> QED
    BY <2>1 DEF SharedInv, ClaimsOK, ClaimedSlotsFree, InFlight
<1> QED
  BY <1>1, SharedInvariant, PTL

(***************************************************************************)
(* And all the threads together use one bounded FIFO: each push takes      *)
(* effect when it publishes (235), each pop at its compare-and-swap (271). *)
(***************************************************************************)
THEOREM SharedImplementsFifo == LapFreeSpec => ImplementsFifo
<1>1. SharedInv => TypeOK /\ FifoOK
  BY ContentFifo DEF SharedInv
<1>2. [Next /\ LapFree' /\ ClaimHasRoom']_vars => [Next]_vars
  OBVIOUS
<1> QED
  BY <1>1, <1>2, SharedInvariant, FifoInit, FifoStepSimulated, PTL
     DEF LapFreeSpec, ImplementsFifo
=============================================================================
