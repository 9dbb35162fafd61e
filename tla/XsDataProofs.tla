---------------------------- MODULE XsDataProofs ----------------------------
(***************************************************************************)
(* The sort of xs_arr.h leaves its elements in order, for every number of  *)
(* elements, all keys, every threshold and every size of the stack: when   *)
(* xs_ptr_qsort returns 0, its array is a permutation in the order of the  *)
(* compare procedure.                                                      *)
(*                                                                         *)
(* The reader of xs_json.h hands out tags that nest, whatever the text:    *)
(* what it keeps on its stack is what the tags alone say is open (Told),   *)
(* and each tag fits that (Fitting).                                       *)
(***************************************************************************)
EXTENDS XsData, SequenceTheorems, WellFoundedInduction, TLAPS

-----------------------------------------------------------------------------
\* Rearrangements of the current segment.

\* c holds what b holds, in another order within start .. limit - 1.
Rearranged(b, c) ==
  /\ c \in [Pos -> Pos]
  /\ \A p, q \in Pos : c[p] = c[q] => p = q
  /\ \A p \in Pos : ~Inside(p, start, limit) => c[p] = b[p]
  /\ \A p \in Pos : Inside(p, start, limit) =>
       \E q \in Pos : Inside(q, start, limit) /\ c[p] = b[q]

\* Nothing moved, nothing changed.
LEMMA SameRearranged ==
  ASSUME NEW b, b \in [Pos -> Pos], \A p, q \in Pos : b[p] = b[q] => p = q
  PROVE  Rearranged(b, b)
BY DEF Rearranged

\* A rearrangement of a rearrangement (the swaps of one pass) is one.
LEMMA RearrangedAgain ==
  ASSUME NEW b, NEW c, NEW d, Rearranged(b, c), Rearranged(c, d)
  PROVE  Rearranged(b, d)
<1>1. ASSUME NEW p \in Pos, ~Inside(p, start, limit)
      PROVE  d[p] = b[p]
  BY <1>1 DEF Rearranged
<1>2. ASSUME NEW p \in Pos, Inside(p, start, limit)
      PROVE  \E q \in Pos : Inside(q, start, limit) /\ d[p] = b[q]
  <2>1. PICK q \in Pos : Inside(q, start, limit) /\ d[p] = c[q]
    BY <1>2 DEF Rearranged
  <2>2. PICK r \in Pos : Inside(r, start, limit) /\ c[q] = b[r]
    BY <2>1 DEF Rearranged
  <2> QED BY <2>1, <2>2
<1> QED BY <1>1, <1>2 DEF Rearranged

\* xs_local_qsort_swap of two positions of the segment.
LEMMA SwapRearranges ==
  ASSUME NEW b, b \in [Pos -> Pos], \A r, s \in Pos : b[r] = b[s] => r = s,
         NEW p \in Pos, NEW q \in Pos, Inside(p, start, limit), Inside(q, start, limit)
  PROVE  Rearranged(b, Swap(b, p, q))
<1> DEFINE c == Swap(b, p, q)
<1>1. /\ c \in [Pos -> Pos]
      /\ \A r \in Pos : c[r] = IF r = q THEN b[p] ELSE IF r = p THEN b[q] ELSE b[r]
  BY DEF Swap
<1> HIDE DEF c
<1>2. \A r, s \in Pos : c[r] = c[s] => r = s
  BY <1>1
<1>3. \A r \in Pos : ~Inside(r, start, limit) => c[r] = b[r]
  BY <1>1
<1>4. \A r \in Pos : Inside(r, start, limit) =>
        \E s \in Pos : Inside(s, start, limit) /\ c[r] = b[s]
  BY <1>1
<1>5. Rearranged(b, c)
  BY <1>1, <1>2, <1>3, <1>4 DEF Rearranged
<1> QED BY <1>5 DEF c

\* An exchange of two elements rearranges the array.
LEMMA SwapIfRearranges ==
  ASSUME NEW b, b \in [Pos -> Pos], \A r, s \in Pos : b[r] = b[s] => r = s,
         NEW p \in Pos, NEW q \in Pos, Inside(p, start, limit), Inside(q, start, limit),
         NEW cond
  PROVE  Rearranged(b, SwapIf(cond, b, p, q))
<1>1. CASE cond
  BY <1>1, SwapRearranges DEF SwapIf
<1>2. CASE ~cond
  BY <1>2, SameRearranged DEF SwapIf
<1> QED BY <1>1, <1>2

\* One more rearrangement.
LEMMA RearrangedByOneMore ==
  ASSUME NEW b, NEW c, Rearranged(b, c),
         NEW p \in Pos, NEW q \in Pos, Inside(p, start, limit), Inside(q, start, limit),
         NEW cond
  PROVE  Rearranged(b, SwapIf(cond, c, p, q))
<1>1. c \in [Pos -> Pos] /\ \A r, s \in Pos : c[r] = c[s] => r = s
  BY DEF Rearranged
<1>2. Rearranged(c, SwapIf(cond, c, p, q))
  BY <1>1, SwapIfRearranges
<1> QED BY <1>2, RearrangedAgain

\* What is ordered, or waits in a segment, stays so when the current segment
\* is rearranged: a position outside is on one side of the whole segment.
LEMMA OutsideOrdered ==
  ASSUME TypeOK, SegmentsOK, OthersOrdered, pc # "done",
         NEW c, Rearranged(base, c), NEW p \in Pos, NEW q \in Pos, p < q
  PROVE  KeyAt(c, p) <= KeyAt(c, q) \/ Together(p, q)
<1> SUFFICES ASSUME ~Together(p, q)
             PROVE  KeyAt(c, p) <= KeyAt(c, q)
  OBVIOUS
<1>1. CASE ~Inside(p, start, limit) /\ ~Inside(q, start, limit)
  <2>1. KeyAt(base, p) <= KeyAt(base, q)
    BY DEF OthersOrdered, Ordered
  <2> QED BY <1>1, <2>1 DEF KeyAt, Rearranged
<1>2. CASE Inside(p, start, limit) /\ ~Inside(q, start, limit)
  <2>1. PICK r \in Pos : Inside(r, start, limit) /\ c[p] = base[r]
    BY <1>2 DEF Rearranged
  <2>2. r < q
    BY <1>2, <2>1 DEF Inside, Pos, TypeOK, SortAssumption
  <2>3. ~Together(r, q)
    BY <1>2, <2>1 DEF Together, SegmentsOK
  <2>4. KeyAt(base, r) <= KeyAt(base, q)
    BY <2>2, <2>3 DEF OthersOrdered, Ordered
  <2> QED BY <1>2, <2>1, <2>4 DEF KeyAt, Rearranged
<1>3. CASE ~Inside(p, start, limit) /\ Inside(q, start, limit)
  <2>1. PICK r \in Pos : Inside(r, start, limit) /\ c[q] = base[r]
    BY <1>3 DEF Rearranged
  <2>2. p < r
    BY <1>3, <2>1 DEF Inside, Pos, TypeOK, SortAssumption
  <2>3. ~Together(p, r)
    BY <1>3, <2>1 DEF Together, SegmentsOK
  <2>4. KeyAt(base, p) <= KeyAt(base, r)
    BY <2>2, <2>3 DEF OthersOrdered, Ordered
  <2> QED BY <1>3, <2>1, <2>4 DEF KeyAt, Rearranged
<1>4. CASE Inside(p, start, limit) /\ Inside(q, start, limit)
  BY <1>4 DEF Together
<1> QED BY <1>1, <1>2, <1>3, <1>4

-----------------------------------------------------------------------------
\* Every element at its place: all positions wait together.
LEMMA InitIInv == Init => IInv
<1> SUFFICES ASSUME Init PROVE IInv
  OBVIOUS
<1> USE SortAssumption
<1>1. Pos = 0 .. Count - 1 /\ start = 0 /\ limit = Count /\ stack = <<>> /\ pc = "split"
  BY DEF Init, Pos
<1>2. TypeOK
  <2>1. key \in [Pos -> Int] /\ base \in [Pos -> Pos] /\ \A p, q \in Pos : base[p] = base[q] => p = q
    BY DEF Init
  <2>2. stack \in Seq(Nat \X Nat) /\ i \in Nat /\ j \in Int
    BY DEF Init
  <2> QED BY <1>1, <2>1, <2>2 DEF TypeOK, Permutation
<1>3. SegmentsOK
  BY <1>1 DEF SegmentsOK
<1>4. OthersOrdered
  BY <1>1 DEF OthersOrdered, Together, Inside
<1>5. BubbleOK /\ PartOK /\ DoneOK
  BY <1>1 DEF BubbleOK, PartOK, DoneOK
<1> QED BY <1>2, <1>3, <1>4, <1>5 DEF IInv

\* The insertion starts with one element in order.
LEMMA BeginBubbleIInv == IInv /\ BeginBubble => IInv'
<1> SUFFICES ASSUME IInv, BeginBubble PROVE IInv'
  OBVIOUS
<1> USE DEF IInv
<1>1. TypeOK'
  BY DEF BeginBubble, TypeOK, Permutation
<1>2. SegmentsOK'
  BY DEF BeginBubble, SegmentsOK, StackInside, Inside
<1>3. OthersOrdered'
  BY DEF BeginBubble, OthersOrdered, Ordered, KeyAt, Together, StackInside, Inside
<1>4. BubbleOK'
  BY DEF BeginBubble, BubbleOK, TypeOK, Pos, SortAssumption
<1>5. (PartOK /\ DoneOK)'
  BY DEF BeginBubble, PartOK, DoneOK
<1> QED BY <1>1, <1>2, <1>3, <1>4, <1>5

\* The segment just inserted is in order; the one on top of the stack is next.
LEMMA BubbleSorted ==
  ASSUME IInv, pc = "bubble", i >= limit, NEW p \in Pos, NEW q \in Pos, p < q,
         Inside(p, start, limit), Inside(q, start, limit)
  PROVE  Ordered(p, q)
<1>1. q # j + 1 /\ q <= i
  BY DEF IInv, TypeOK, BubbleOK, Inside, Pos
<1> QED BY <1>1 DEF IInv, BubbleOK, Inside

\* Ending keeps the invariant.
LEMMA FinishIInv == IInv /\ Finish => IInv'
<1> SUFFICES ASSUME IInv, Finish PROVE IInv'
  OBVIOUS
<1>1. TypeOK'
  BY DEF IInv, Finish, TypeOK, Permutation
<1>2. SegmentsOK'
  BY DEF IInv, Finish, SegmentsOK, StackInside, Inside
<1>3. \A p, q \in Pos : p < q => Ordered(p, q)
  <2> SUFFICES ASSUME NEW p \in Pos, NEW q \in Pos, p < q
               PROVE  Ordered(p, q)
    OBVIOUS
  <2>1. Ordered(p, q) \/ (Inside(p, start, limit) /\ Inside(q, start, limit))
    BY DEF IInv, OthersOrdered, Together, Finish
  <2> QED BY <2>1, BubbleSorted DEF Finish
<1>4. (OthersOrdered /\ BubbleOK /\ PartOK /\ DoneOK)'
  BY <1>3 DEF Finish, OthersOrdered, BubbleOK, PartOK, DoneOK, Ordered, KeyAt
<1> QED BY <1>1, <1>2, <1>4 DEF IInv

\* The stack without its top.
LEMMA Popped ==
  ASSUME NEW S, NEW s \in Seq(S), s # <<>>
  PROVE  /\ Len(s) \in Nat \ {0}
         /\ SubSeq(s, 1, Len(s) - 1) \in Seq(S)
         /\ Len(SubSeq(s, 1, Len(s) - 1)) = Len(s) - 1
         /\ \A k \in 1 .. Len(s) - 1 : SubSeq(s, 1, Len(s) - 1)[k] = s[k]
<1> DEFINE n == Len(s)
<1>1. n \in Nat \ {0} /\ \A k \in 1 .. n : s[k] \in S
  BY LenProperties, EmptySeq
<1> HIDE DEF n
<1>2. \A k \in 1 .. n - 1 : s[k] \in S /\ 1 + k - 1 = k
  BY <1>1
<1>3. n - 1 \in Int /\ n - 1 = (n - 1) - 1 + 1 /\ (~(1 <= n - 1) => n - 1 = 0)
  BY <1>1
<1>4. /\ SubSeq(s, 1, n - 1) \in Seq(S)
      /\ Len(SubSeq(s, 1, n - 1)) = IF 1 <= n - 1 THEN (n - 1) - 1 + 1 ELSE 0
      /\ \A k \in 1 .. (n - 1) - 1 + 1 : SubSeq(s, 1, n - 1)[k] = s[1 + k - 1]
  BY <1>2, <1>3, SubSeqProperties
<1> QED BY <1>1, <1>2, <1>3, <1>4 DEF n

\* Taking a segment from the stack keeps the invariant.
LEMMA PopSegmentIInv == IInv /\ PopSegment => IInv'
<1> SUFFICES ASSUME IInv, PopSegment PROVE IInv'
  OBVIOUS
<1> DEFINE n == Len(stack)
<1>1. stack \in Seq(Nat \X Nat) /\ stack # <<>>
  BY DEF IInv, TypeOK, PopSegment
<1>2. /\ n \in Nat \ {0}
      /\ stack' \in Seq(Nat \X Nat) /\ Len(stack') = n - 1
      /\ \A k \in 1 .. n - 1 : stack'[k] = stack[k]
  BY <1>1, Popped DEF PopSegment
<1>3. /\ start' = stack[n][1] /\ limit' = stack[n][2]
      /\ start' \in Nat /\ limit' \in Nat /\ start' <= limit' /\ limit' <= Count
  BY <1>1 DEF PopSegment, IInv, SegmentsOK
<1>n. n = Len(stack)
  OBVIOUS
<1> HIDE DEF n
<1>4. TypeOK'
  <2>1. (key \in [Pos -> Int] /\ Permutation /\ i \in Nat /\ j \in Int)'
    BY DEF IInv, TypeOK, Permutation, PopSegment
  <2>2. (start \in 0 .. Count /\ limit \in start .. Count)'
    BY <1>3, SortAssumption
  <2>3. pc' \in {"split", "bubble", "part", "done", "overflow"}
    BY DEF PopSegment
  <2>4. QED
    BY <1>2, <2>1, <2>2, <2>3 DEF TypeOK
<1>5. SegmentsOK'
  <2>1. \A k \in 1 .. n - 1 : k \in 1 .. n /\ k # n /\ \A p \in Pos : StackInside(p, k)' <=> StackInside(p, k)
    BY <1>2 DEF StackInside
  <2>2. \A p \in Pos : Inside(p, start', limit') <=> StackInside(p, n)
    BY <1>3 DEF StackInside
  <2>3. \A k \in 1 .. n - 1 : stack'[k][1] <= stack'[k][2] /\ stack'[k][2] <= Count
    BY <1>n, <1>2, <2>1 DEF IInv, SegmentsOK
  <2>4. \A k \in 1 .. n - 1 : \A p \in Pos : StackInside(p, k)' => ~Inside(p, start', limit')
    <3> SUFFICES ASSUME NEW k \in 1 .. n - 1, NEW p \in Pos, StackInside(p, k), StackInside(p, n)
                 PROVE  FALSE
      BY <2>1, <2>2
    <3>1. k \in 1 .. Len(stack) /\ n \in 1 .. Len(stack) /\ k # n
      BY <1>n, <1>2
    <3> QED BY <3>1 DEF IInv, SegmentsOK
  <2>5. \A k, m \in 1 .. n - 1 : \A p \in Pos : (StackInside(p, k) /\ StackInside(p, m))' => k = m
    BY <1>n, <2>1 DEF IInv, SegmentsOK
  <2> QED BY <1>2, <2>3, <2>4, <2>5 DEF SegmentsOK
<1>6. OthersOrdered'
  <2> SUFFICES ASSUME NEW p \in Pos, NEW q \in Pos, p < q
               PROVE  (Ordered(p, q) \/ Together(p, q))'
    BY DEF OthersOrdered
  <2>1. Ordered(p, q)' <=> Ordered(p, q)
    BY DEF PopSegment, Ordered, KeyAt
  <2>2. CASE Ordered(p, q)
    BY <2>1, <2>2
  <2>3. CASE Inside(p, start, limit) /\ Inside(q, start, limit)
    BY <2>1, <2>3, BubbleSorted DEF PopSegment
  <2>4. CASE \E k \in 1 .. n : StackInside(p, k) /\ StackInside(q, k)
    <3>1. PICK k \in 1 .. n : StackInside(p, k) /\ StackInside(q, k)
      BY <2>4
    <3>2. CASE k = n
      BY <3>1, <3>2, <1>3 DEF Together, StackInside
    <3>3. CASE k # n
      <4>1. k \in 1 .. Len(stack') /\ stack'[k] = stack[k]
        BY <1>2, <3>3
      <4> QED BY <3>1, <4>1 DEF Together, StackInside
    <3> QED BY <3>2, <3>3
  <2> QED BY <1>n, <2>2, <2>3, <2>4 DEF IInv, OthersOrdered, Together, PopSegment
<1>7. (BubbleOK /\ PartOK /\ DoneOK)'
  BY DEF PopSegment, BubbleOK, PartOK, DoneOK
<1> QED BY <1>4, <1>5, <1>6, <1>7 DEF IInv

-----------------------------------------------------------------------------
\* The steps that rearrange the current segment and keep its bounds.
LEMMA RearrangedInvariant ==
  ASSUME IInv, pc # "done", Rearranged(base, base'), UNCHANGED <<key, stack, start, limit>>,
         i' \in Nat, j' \in Int, pc' \in {"bubble", "part"}
  PROVE  TypeOK' /\ SegmentsOK' /\ OthersOrdered' /\ DoneOK'
<1>1. TypeOK'
  BY DEF IInv, TypeOK, Permutation, Rearranged
<1>2. SegmentsOK'
  BY DEF IInv, SegmentsOK, StackInside, Inside
<1>3. \A p, q \in Pos : p < q => KeyAt(base', p) <= KeyAt(base', q) \/ Together(p, q)
  BY OutsideOrdered DEF IInv
<1>4. \A p, q \in Pos : (Ordered(p, q)' <=> KeyAt(base', p) <= KeyAt(base', q)) /\ (Together(p, q)' <=> Together(p, q))
  BY DEF Ordered, KeyAt, Together, StackInside, Inside
<1>5. OthersOrdered' /\ DoneOK'
  BY <1>3, <1>4 DEF OthersOrdered, DoneOK
<1> QED BY <1>1, <1>2, <1>5

\* Where the elements compared stand.
LEMMA BubblePositions ==
  ASSUME IInv, BubbleStep
  PROVE  /\ start \in Nat /\ limit \in Nat /\ i \in Nat /\ j \in Nat
         /\ start <= j /\ j < i /\ i < limit /\ limit <= Count
         /\ j \in Pos /\ j + 1 \in Pos
         /\ Inside(j, start, limit) /\ Inside(j + 1, start, limit)
BY SortAssumption DEF IInv, TypeOK, BubbleOK, BubbleStep, Pos, Inside

\* The keys after a comparison.
LEMMA BubbleKeys ==
  ASSUME IInv, BubbleStep, NEW p \in Pos
  PROVE  /\ KeyAt(base, p) \in Int
         /\ KeyAt(base, j + 1) < KeyAt(base, j) =>
              KeyAt(base', p) = IF p = j + 1 THEN KeyAt(base, j)
                                ELSE IF p = j THEN KeyAt(base, j + 1) ELSE KeyAt(base, p)
         /\ ~(KeyAt(base, j + 1) < KeyAt(base, j)) => base' = base
<1>1. base \in [Pos -> Pos] /\ key \in [Pos -> Int] /\ j \in Pos /\ j + 1 \in Pos /\ j # j + 1
  BY BubblePositions DEF IInv, TypeOK, Permutation
<1>2. KeyAt(base, p) \in Int
  BY <1>1 DEF KeyAt
<1>3. KeyAt(base, j + 1) < KeyAt(base, j) => base' = [base EXCEPT ![j] = base[j + 1], ![j + 1] = base[j]]
  BY DEF BubbleStep, SwapIf, Swap
<1>4. ~(KeyAt(base, j + 1) < KeyAt(base, j)) => base' = base
  BY DEF BubbleStep, SwapIf
<1> QED BY <1>1, <1>2, <1>3, <1>4 DEF KeyAt

\* A step of the bubble sort keeps the invariant.
LEMMA BubbleStepIInv == IInv /\ BubbleStep => IInv'
<1> SUFFICES ASSUME IInv, BubbleStep PROVE IInv'
  OBVIOUS
<1> DEFINE less == KeyAt(base, j + 1) < KeyAt(base, j)
<1>1. Rearranged(base, base')
  <2>1. base' = SwapIf(less, base, j, j + 1)
    BY DEF BubbleStep
  <2> QED BY <2>1, SwapIfRearranges, BubblePositions DEF IInv, TypeOK, Permutation
<1>2. TypeOK' /\ SegmentsOK' /\ OthersOrdered' /\ DoneOK'
  <2>1. i' \in Nat /\ j' \in Int /\ pc' \in {"bubble", "part"} /\ pc # "done"
    BY BubblePositions DEF BubbleStep
  <2> QED BY <1>1, <2>1, RearrangedInvariant DEF BubbleStep
<1>3. PartOK'
  BY DEF BubbleStep, PartOK
<1>4. BubbleOK'
  <2>1. /\ start' = start /\ limit' = limit /\ key' = key
        /\ start <= j' /\ j' < i' /\ (i' <= limit \/ i' = start + 1)
        /\ i' >= limit => j' + 1 = i'
    BY BubblePositions DEF BubbleStep, IInv, BubbleOK
  <2> SUFFICES ASSUME NEW p \in Pos, NEW q \in Pos,
                      start <= p, p < q, q <= i', q < limit, q # j' + 1
               PROVE  KeyAt(base', p) <= KeyAt(base', q)
    BY <2>1 DEF BubbleOK, Ordered, KeyAt
  <2>2. \A r, s \in Pos : start <= r /\ r < s /\ s <= i /\ s # j + 1 => KeyAt(base, r) <= KeyAt(base, s)
    BY BubblePositions DEF IInv, BubbleOK, BubbleStep, Ordered, Pos
  <2>3. q <= i
    BY BubblePositions DEF BubbleStep, Pos
  <2>4. p \in Int /\ q \in Int /\ KeyAt(base, j) \in Int /\ KeyAt(base, j + 1) \in Int
        /\ KeyAt(base, p) \in Int /\ KeyAt(base, q) \in Int
    BY BubbleKeys, BubblePositions, SortAssumption DEF Pos
  <2>5. CASE less
    <3>1. q # j
      BY <2>5, BubblePositions, <2>4 DEF BubbleStep
    <3>2. p # j + 1 /\ p # j /\ q # j + 1 => KeyAt(base, p) <= KeyAt(base, q)
      BY <2>2, <2>3
    <3>3. p = j + 1 => KeyAt(base, j) <= KeyAt(base, q)
      BY <2>2, <2>3, <2>4, BubblePositions
    <3>4. p = j /\ q # j + 1 => KeyAt(base, j + 1) <= KeyAt(base, q)
      BY <2>2, <2>3, <2>4, BubblePositions
    <3>5. p # j /\ p # j + 1 /\ q = j + 1 => KeyAt(base, p) <= KeyAt(base, j)
      BY <2>2, <2>3, <2>4, BubblePositions
    <3> QED BY <2>4, <2>5, <3>1, <3>2, <3>3, <3>4, <3>5, BubbleKeys
  <2>6. CASE ~less
    <3>1. base' = base /\ KeyAt(base, j) <= KeyAt(base, j + 1)
      BY <2>4, <2>6, BubbleKeys
    <3>2. q # j + 1 => KeyAt(base, p) <= KeyAt(base, q)
      BY <2>2, <2>3
    <3>3. q = j + 1 /\ p # j => KeyAt(base, p) <= KeyAt(base, j)
      BY <2>2, <2>3, <2>4, BubblePositions
    <3> QED BY <2>4, <3>1, <3>2, <3>3
  <2> QED BY <2>5, <2>6
<1> QED BY <1>2, <1>3, <1>4 DEF IInv

-----------------------------------------------------------------------------
\* The pivot stands at start and the ends stop the scans.
LEMMA ChoosePivotIInv == IInv /\ ChoosePivot => IInv'
<1> SUFFICES ASSUME IInv, ChoosePivot PROVE IInv'
  OBVIOUS
<1> DEFINE l == limit - 1
           m == start + (limit - start) \div 2
           b1 == Swap(base, m, start)
           b2 == SwapIf(KeyAt(b1, l) < KeyAt(b1, start + 1), b1, start + 1, l)
           b3 == SwapIf(KeyAt(b2, l) < KeyAt(b2, start), b2, start, l)
           b4 == SwapIf(KeyAt(b3, start) < KeyAt(b3, start + 1), b3, start + 1, start)
<1>1. /\ start \in Nat /\ limit \in Nat /\ start + 3 <= limit /\ limit <= Count
      /\ m \in Int /\ start <= m /\ m < limit /\ l \in Int
  BY SortAssumption DEF IInv, TypeOK, ChoosePivot
<1>2. \A p \in {start, start + 1, m, l} : p \in Pos /\ Inside(p, start, limit)
  BY <1>1, SortAssumption DEF Pos, Inside
<1>3. base' = b4
  BY DEF ChoosePivot, MedianOfThree
<1>4. Rearranged(base, b1)
  BY <1>2, SwapRearranges DEF IInv, TypeOK, Permutation
<1> HIDE DEF b1
<1>5. Rearranged(base, b2)
  BY <1>2, <1>4, RearrangedByOneMore
<1> HIDE DEF b2
<1>6. Rearranged(base, b3)
  BY <1>2, <1>5, RearrangedByOneMore
<1> HIDE DEF b3
<1>7. Rearranged(base, b4)
  BY <1>2, <1>6, RearrangedByOneMore
<1> HIDE DEF b4
<1>8. Rearranged(base, base')
  BY <1>3, <1>7
<1>9. TypeOK' /\ SegmentsOK' /\ OthersOrdered' /\ DoneOK'
  <2>1. i' \in Nat /\ j' \in Int /\ pc' \in {"bubble", "part"} /\ pc # "done"
    BY <1>1 DEF ChoosePivot
  <2> QED BY <1>8, <2>1, RearrangedInvariant DEF ChoosePivot
<1>10. BubbleOK'
  BY DEF ChoosePivot, BubbleOK
<1>11. KeyAt(b4, start + 1) <= KeyAt(b4, start) /\ KeyAt(b4, start) <= KeyAt(b4, l)
  <2> DEFINE A(b) == KeyAt(b, start + 1)
             P(b) == KeyAt(b, start)
             Z(b) == KeyAt(b, l)
  <2>1. start # start + 1 /\ start # l /\ start + 1 # l
    BY <1>1
  <2>2. /\ key \in [Pos -> Int] /\ b1 \in [Pos -> Pos] /\ b2 \in [Pos -> Pos] /\ b3 \in [Pos -> Pos]
        /\ start \in Pos /\ start + 1 \in Pos /\ l \in Pos
    BY <1>2, <1>4, <1>5, <1>6 DEF IInv, TypeOK, Rearranged
  <2>3. A(b1) \in Int /\ P(b1) \in Int /\ Z(b1) \in Int
    BY <2>2 DEF KeyAt
  <2>4. IF Z(b1) < A(b1) THEN A(b2) = Z(b1) /\ Z(b2) = A(b1) /\ P(b2) = P(b1)
                         ELSE A(b2) = A(b1) /\ Z(b2) = Z(b1) /\ P(b2) = P(b1)
    BY <2>1, <2>2 DEF b2, SwapIf, Swap, KeyAt
  <2>5. IF Z(b2) < P(b2) THEN P(b3) = Z(b2) /\ Z(b3) = P(b2) /\ A(b3) = A(b2)
                         ELSE P(b3) = P(b2) /\ Z(b3) = Z(b2) /\ A(b3) = A(b2)
    BY <2>1, <2>2 DEF b3, SwapIf, Swap, KeyAt
  <2>6. IF P(b3) < A(b3) THEN P(b4) = A(b3) /\ A(b4) = P(b3) /\ Z(b4) = Z(b3)
                         ELSE P(b4) = P(b3) /\ A(b4) = A(b3) /\ Z(b4) = Z(b3)
    BY <2>1, <2>2 DEF b4, SwapIf, Swap, KeyAt
  <2> HIDE DEF A, P, Z
  <2>7. A(b4) <= P(b4) /\ P(b4) <= Z(b4)
    BY <2>3, <2>4, <2>5, <2>6
  <2> QED BY <2>7 DEF A, P, Z
<1>12. PartOK'
  <2>1. /\ start' = start /\ limit' = limit /\ key' = key /\ base' = b4
        /\ i' = start + 1 /\ j' = l
    BY <1>3 DEF ChoosePivot
  <2>2. start < i' /\ i' <= j' /\ j' < limit
    BY <1>1, <2>1
  <2>3. \A p \in Pos : /\ start < p /\ p <= i' => p = start + 1
                       /\ j' <= p /\ p < limit => p = l
    BY <1>1, <2>1 DEF Pos
  <2> QED BY <1>11, <2>1, <2>2, <2>3 DEF PartOK, Ordered, KeyAt
<1> QED BY <1>9, <1>10, <1>12 DEF IInv

\* Two scans have stopped at p and q: where they are, and the keys they passed.
LEMMA Scanned ==
  ASSUME IInv, pc = "part", NEW p \in i + 1 .. limit, NEW q \in start .. j - 1,
         StopsUp(p), StopsDown(q)
  PROVE  /\ start \in Nat /\ limit \in Nat /\ limit <= Count /\ start < i /\ i < p /\ p <= limit
         /\ start <= q /\ q < j /\ j < limit /\ i \in Nat /\ j \in Nat /\ p \in Nat /\ q \in Nat
         /\ \A r \in Pos : KeyAt(base, r) \in Int
         /\ \A r \in Pos : start <= r /\ r < p => KeyAt(base, r) <= KeyAt(base, start)
         /\ \A r \in Pos : q < r /\ r < limit => KeyAt(base, start) <= KeyAt(base, r)
         /\ p < limit => KeyAt(base, start) <= KeyAt(base, p)
         /\ q > start => KeyAt(base, q) <= KeyAt(base, start)
         /\ start \in Pos /\ q \in Pos /\ (p < limit => p \in Pos)
<1>1. /\ start \in Nat /\ limit \in Nat /\ limit <= Count /\ start < i /\ i <= j /\ j < limit
      /\ i \in Nat /\ j \in Int /\ Count \in Nat
  BY SortAssumption DEF IInv, TypeOK, PartOK
<1>2. p \in Nat /\ q \in Nat /\ j \in Nat /\ i < p /\ p <= limit /\ start <= q /\ q < j
  BY <1>1
<1>3. start \in Pos /\ q \in Pos /\ (p < limit => p \in Pos)
  BY <1>1, <1>2 DEF Pos
<1>4. \A r \in Pos : KeyAt(base, r) \in Int
  BY DEF IInv, TypeOK, Permutation, KeyAt
<1>5. ASSUME NEW r \in Pos, start <= r, r < p
      PROVE  KeyAt(base, r) <= KeyAt(base, start)
  <2>1. CASE r = start
    BY <2>1, <1>4
  <2>2. CASE start < r /\ r <= i
    BY <2>2, <1>1 DEF IInv, PartOK, Ordered
  <2>3. CASE i < r
    <3>1. r \in i + 1 .. p - 1
      BY <2>3, <1>1, <1>2, <1>5 DEF Pos
    <3>2. KeyAt(base, r) < KeyAt(base, start)
      BY <3>1 DEF StopsUp
    <3> QED BY <3>2, <1>3, <1>4
  <2> QED BY <2>1, <2>2, <2>3, <1>1, <1>5 DEF Pos
<1>6. ASSUME NEW r \in Pos, q < r, r < limit
      PROVE  KeyAt(base, start) <= KeyAt(base, r)
  <2>1. CASE j <= r
    BY <2>1, <1>6 DEF IInv, PartOK, Ordered
  <2>2. CASE r < j
    <3>1. r \in q + 1 .. j - 1
      BY <2>2, <1>1, <1>2, <1>6 DEF Pos
    <3>2. KeyAt(base, r) > KeyAt(base, start)
      BY <3>1 DEF StopsDown
    <3> QED BY <3>2, <1>3, <1>4
  <2> QED BY <2>1, <2>2, <1>1 DEF Pos
<1>7. /\ p < limit => KeyAt(base, start) <= KeyAt(base, p)
      /\ q > start => KeyAt(base, q) <= KeyAt(base, start)
  BY <1>3, <1>4 DEF StopsUp, StopsDown
<1> QED BY <1>1, <1>2, <1>3, <1>4, <1>5, <1>6, <1>7

\* An exchange keeps the invariant.
LEMMA ExchangeIInv == IInv /\ Exchange => IInv'
<1> SUFFICES ASSUME IInv, Exchange PROVE IInv'
  OBVIOUS
<1> PICK p \in i + 1 .. limit, q \in start .. j - 1 :
         /\ StopsUp(p) /\ StopsDown(q) /\ p <= q
         /\ base' = Swap(base, p, q)
         /\ i' = p /\ j' = q
  BY DEF Exchange
<1>1. /\ start \in Nat /\ limit \in Nat /\ start < i /\ i < p /\ p <= q /\ q < j /\ j < limit
      /\ i \in Nat /\ j \in Nat /\ p \in Nat /\ q \in Nat
      /\ \A r \in Pos : KeyAt(base, r) \in Int
      /\ \A r \in Pos : start <= r /\ r < p => KeyAt(base, r) <= KeyAt(base, start)
      /\ \A r \in Pos : q < r /\ r < limit => KeyAt(base, start) <= KeyAt(base, r)
      /\ KeyAt(base, start) <= KeyAt(base, p) /\ KeyAt(base, q) <= KeyAt(base, start)
      /\ start \in Pos /\ q \in Pos /\ p \in Pos
  <2>1. pc = "part"
    BY DEF Exchange
  <2>2. p < limit /\ q > start
    BY <2>1, Scanned
  <2> QED BY <2>1, <2>2, Scanned
<1>2. Inside(p, start, limit) /\ Inside(q, start, limit)
  BY <1>1 DEF Inside
<1>3. Rearranged(base, base')
  BY <1>1, <1>2, SwapRearranges DEF IInv, TypeOK, Permutation
<1>4. TypeOK' /\ SegmentsOK' /\ OthersOrdered' /\ DoneOK'
  <2>1. i' \in Nat /\ j' \in Int /\ pc' \in {"bubble", "part"} /\ pc # "done"
    BY <1>1 DEF Exchange
  <2> QED BY <1>3, <2>1, RearrangedInvariant DEF Exchange
<1>5. BubbleOK'
  BY DEF Exchange, BubbleOK
<1>6. PartOK'
  <2>1. start' = start /\ limit' = limit /\ key' = key /\ i' = p /\ j' = q
    BY DEF Exchange
  <2>2. start < i' /\ i' <= j' /\ j' < limit
    BY <1>1, <2>1
  <2>3. base \in [Pos -> Pos] /\ base' = [base EXCEPT ![p] = base[q], ![q] = base[p]]
    BY DEF Swap, IInv, TypeOK, Permutation
  <2>4. \A r \in Pos : KeyAt(base', r) = IF r = q THEN KeyAt(base, p)
                                         ELSE IF r = p THEN KeyAt(base, q) ELSE KeyAt(base, r)
    BY <1>1, <2>3 DEF KeyAt
  <2>5. KeyAt(base', start) = KeyAt(base, start)
    BY <1>1, <2>4
  <2>6. ASSUME NEW r \in Pos, start < r, r <= p
        PROVE  KeyAt(base', r) <= KeyAt(base', start)
    <3>1. CASE r = p
      BY <1>1, <2>4, <2>5, <3>1
    <3>2. CASE r # p
      BY <1>1, <2>4, <2>5, <2>6, <3>2 DEF Pos
    <3> QED BY <3>1, <3>2
  <2>7. ASSUME NEW r \in Pos, q <= r, r < limit
        PROVE  KeyAt(base', start) <= KeyAt(base', r)
    <3>1. CASE r = q
      BY <1>1, <2>4, <2>5, <3>1
    <3>2. CASE r # q
      BY <1>1, <2>4, <2>5, <2>7, <3>2 DEF Pos
    <3> QED BY <3>1, <3>2
  <2> QED BY <2>1, <2>2, <2>6, <2>7 DEF PartOK, Ordered, KeyAt
<1> QED BY <1>4, <1>5, <1>6 DEF IInv

\* A segment put on the stack, as a range of positions.
LEMMA PutAside ==
  ASSUME stack \in Seq(Nat \X Nat), NEW a \in Nat, NEW l \in Nat, stack' = Append(stack, <<a, l>>)
  PROVE  /\ stack' \in Seq(Nat \X Nat) /\ Len(stack) \in Nat /\ Len(stack') = Len(stack) + 1
         /\ stack'[Len(stack) + 1][1] = a /\ stack'[Len(stack) + 1][2] = l
         /\ \A k \in 1 .. Len(stack) : stack'[k] = stack[k]
BY AppendProperties, LenProperties

\* With the pivot at q two positions are in order, or in the same part.
LEMMA PartsOrdered ==
  ASSUME IInv, pc = "part", NEW p \in i + 1 .. limit, NEW q \in start .. j - 1,
         StopsUp(p), StopsDown(q), p > q, base' = Swap(base, start, q)
  PROVE  /\ Rearranged(base, base')
         /\ \A r, s \in Pos : r < s =>
              \/ KeyAt(base', r) <= KeyAt(base', s)
              \/ Inside(r, start, q) /\ Inside(s, start, q)
              \/ Inside(r, p, limit) /\ Inside(s, p, limit)
              \/ \E k \in 1 .. Len(stack) : StackInside(r, k) /\ StackInside(s, k)
<1>1. /\ start \in Nat /\ limit \in Nat /\ p \in Nat /\ q \in Nat /\ start <= q /\ q < p /\ p <= limit /\ q < limit
      /\ start \in Pos /\ q \in Pos
      /\ \A r \in Pos : KeyAt(base, r) \in Int
      /\ \A r \in Pos : start <= r /\ r < p => KeyAt(base, r) <= KeyAt(base, start)
      /\ \A r \in Pos : q < r /\ r < limit => KeyAt(base, start) <= KeyAt(base, r)
  BY Scanned
<1>2. Rearranged(base, base')
  <2>1. Inside(start, start, limit) /\ Inside(q, start, limit)
    BY <1>1 DEF Inside
  <2> QED BY <1>1, <2>1, SwapRearranges DEF IInv, TypeOK, Permutation
<1>3. base \in [Pos -> Pos] /\ base' = [base EXCEPT ![start] = base[q], ![q] = base[start]]
  BY DEF Swap, IInv, TypeOK, Permutation
<1>4. \A r \in Pos : KeyAt(base', r) = IF r = q THEN KeyAt(base, start)
                                       ELSE IF r = start THEN KeyAt(base, q) ELSE KeyAt(base, r)
  BY <1>1, <1>3 DEF KeyAt
<1>5. \A r \in Pos : start <= r /\ r < p => KeyAt(base', r) <= KeyAt(base, start)
  BY <1>1, <1>4
<1>6. \A r \in Pos : q <= r /\ r < limit => KeyAt(base, start) <= KeyAt(base', r)
  <2> SUFFICES ASSUME NEW r \in Pos, q <= r, r < limit
               PROVE  KeyAt(base, start) <= KeyAt(base', r)
    OBVIOUS
  <2>1. CASE r = q
    BY <2>1, <1>1, <1>4
  <2>2. CASE r # q
    BY <2>2, <1>1, <1>4 DEF Pos
  <2> QED BY <2>1, <2>2
<1>7. ASSUME NEW r \in Pos, NEW s \in Pos, r < s,
             Inside(r, start, limit), Inside(s, start, limit),
             ~(Inside(r, start, q) /\ Inside(s, start, q)), ~(Inside(r, p, limit) /\ Inside(s, p, limit))
      PROVE  KeyAt(base', r) <= KeyAt(base', s)
  <2>1. start <= r /\ r < p /\ q <= s /\ s < limit
    BY <1>1, <1>7 DEF Inside, Pos
  <2>2. KeyAt(base', r) \in Int /\ KeyAt(base', s) \in Int
    BY <1>1, <1>4
  <2> QED BY <1>1, <1>5, <1>6, <2>1, <2>2
<1>8. \A r, s \in Pos : r < s => KeyAt(base', r) <= KeyAt(base', s) \/ Together(r, s)
  BY <1>2, OutsideOrdered DEF IInv
<1> QED BY <1>2, <1>7, <1>8 DEF Together

\* The two parts of the current segment, one put aside and one next: which of
\* them is which only decides how far the stack grows.
LEMMA PartsIInv ==
  ASSUME IInv, pc = "part", NEW p \in i + 1 .. limit, NEW q \in start .. j - 1,
         StopsUp(p), StopsDown(q), p > q, base' = Swap(base, start, q),
         UNCHANGED <<key, i, j>>, pc' \in {"split", "overflow"},
         NEW a, NEW l, stack' = Append(stack, <<a, l>>),
         \/ a = start /\ l = q /\ start' = p /\ limit' = limit
         \/ a = p /\ l = limit /\ start' = start /\ limit' = q
  PROVE  IInv'
<1>1. /\ start \in Nat /\ limit \in Nat /\ limit <= Count /\ p \in Nat /\ q \in Nat /\ Count \in Nat
      /\ start <= q /\ q < p /\ p <= limit
  BY Scanned, SortAssumption
<1>2. /\ a \in Nat /\ l \in Nat /\ a <= l /\ l <= Count
      /\ start' \in Nat /\ limit' \in Nat /\ start' <= limit' /\ limit' <= Count
  BY <1>1
<1>n. PICK n \in Nat : n = Len(stack)
  BY LenProperties DEF IInv, TypeOK
<1>3. /\ stack' \in Seq(Nat \X Nat) /\ n \in Nat /\ Len(stack') = n + 1
      /\ stack'[n + 1][1] = a /\ stack'[n + 1][2] = l
      /\ \A k \in 1 .. n : stack'[k] = stack[k]
  BY <1>n, <1>2, PutAside DEF IInv, TypeOK
<1>4. \A r \in Pos : /\ \A k \in 1 .. n : k \in 1 .. n + 1 /\ k # n + 1 /\ (StackInside(r, k)' <=> StackInside(r, k))
                     /\ StackInside(r, n + 1)' <=> Inside(r, a, l)
                     /\ Inside(r, a, l) => Inside(r, start, limit) /\ ~Inside(r, start', limit')
                     /\ Inside(r, start', limit') => Inside(r, start, limit)
  <2> SUFFICES ASSUME NEW r \in Pos
               PROVE  /\ \A k \in 1 .. n : k \in 1 .. n + 1 /\ k # n + 1 /\ (StackInside(r, k)' <=> StackInside(r, k))
                      /\ StackInside(r, n + 1)' <=> Inside(r, a, l)
                      /\ Inside(r, a, l) => Inside(r, start, limit) /\ ~Inside(r, start', limit')
                      /\ Inside(r, start', limit') => Inside(r, start, limit)
    OBVIOUS
  <2>1. \A k \in 1 .. n : k \in 1 .. n + 1 /\ k # n + 1 /\ (StackInside(r, k)' <=> StackInside(r, k))
    <3>1. \A k \in 1 .. n : k \in 1 .. n + 1 /\ k # n + 1
      BY <1>n
    <3>2. \A k \in 1 .. n : stack'[k] = stack[k]
      BY <1>3, Zenon
    <3>3. QED
      BY <3>1, <3>2, Zenon DEF StackInside, Inside
  <2>2. StackInside(r, n + 1)' <=> Inside(r, a, l)
    <3>1. stack'[n + 1][1] = a /\ stack'[n + 1][2] = l
      BY <1>3
    <3> QED BY <3>1, Zenon DEF StackInside, Inside
  <2>3. r \in Nat
    BY <1>1 DEF Pos
  <2>4. /\ Inside(r, a, l) => Inside(r, start, limit) /\ ~Inside(r, start', limit')
        /\ Inside(r, start', limit') => Inside(r, start, limit)
    <3>1. CASE a = start /\ l = q /\ start' = p /\ limit' = limit
      BY <1>1, <2>3, <3>1 DEF Inside
    <3>2. CASE a = p /\ l = limit /\ start' = start /\ limit' = q
      BY <1>1, <2>3, <3>2 DEF Inside
    <3> QED BY <3>1, <3>2
  <2> QED BY <2>1, <2>2, <2>4
<1>5. TypeOK'
  <2>1. (key \in [Pos -> Int] /\ Permutation)'
    BY PartsOrdered DEF IInv, TypeOK, Permutation, Rearranged
  <2>2. (i \in Nat /\ j \in Int)'
    BY DEF IInv, TypeOK
  <2>3. start' \in 0 .. Count /\ limit' \in start' .. Count
    BY <1>1, <1>2
  <2>4. stack' \in Seq(Nat \X Nat) /\ pc' \in {"split", "bubble", "part", "done", "overflow"}
    BY <1>2, <1>3, Zenon
  <2> QED BY <2>1, <2>2, <2>3, <2>4, Zenon DEF TypeOK
<1>6. SegmentsOK'
  <2>1. \A k \in 1 .. n + 1 : k \in 1 .. n \/ k = n + 1
    BY <1>3
  <2>2. \A k \in 1 .. n + 1 : stack'[k][1] <= stack'[k][2] /\ stack'[k][2] <= Count
    BY <1>n, <1>2, <1>3, <2>1 DEF IInv, SegmentsOK
  <2>3. \A k \in 1 .. n + 1 : \A r \in Pos : StackInside(r, k)' => ~Inside(r, start', limit')
    <3> SUFFICES ASSUME NEW k \in 1 .. n + 1, NEW r \in Pos, StackInside(r, k)'
                 PROVE  ~Inside(r, start', limit')
      OBVIOUS
    <3>1. CASE k = n + 1
      BY <1>4, <3>1
    <3>2. CASE k \in 1 .. n
      <4>1. StackInside(r, k)
        BY <1>4, <3>2
      <4>2. ~Inside(r, start, limit)
        BY <1>n, <3>2, <4>1 DEF IInv, SegmentsOK
      <4> QED BY <1>4, <4>2
    <3> QED BY <2>1, <3>1, <3>2
  <2>4. \A k, m \in 1 .. n + 1 : \A r \in Pos : (StackInside(r, k) /\ StackInside(r, m))' => k = m
    <3> SUFFICES ASSUME NEW k \in 1 .. n + 1, NEW m \in 1 .. n + 1, NEW r \in Pos,
                        StackInside(r, k)', StackInside(r, m)'
                 PROVE  k = m
      OBVIOUS
    <3>1. \A o \in 1 .. n : StackInside(r, o)' => StackInside(r, o) /\ ~Inside(r, start, limit)
      BY <1>n, <1>4 DEF IInv, SegmentsOK
    <3>2. StackInside(r, n + 1)' => Inside(r, start, limit)
      BY <1>4
    <3>3. CASE k \in 1 .. n /\ m \in 1 .. n
      BY <1>n, <3>1, <3>3 DEF IInv, SegmentsOK
    <3>4. CASE ~(k \in 1 .. n /\ m \in 1 .. n)
      BY <2>1, <3>1, <3>2, <3>4
    <3> QED BY <3>3, <3>4
  <2> QED BY <1>3, <2>2, <2>3, <2>4 DEF SegmentsOK
<1>7. OthersOrdered'
  <2> SUFFICES ASSUME NEW r \in Pos, NEW s \in Pos, r < s
               PROVE  Ordered(r, s)' \/ Together(r, s)'
    BY DEF OthersOrdered
  <2>1. CASE KeyAt(base', r) <= KeyAt(base', s)
    BY <2>1 DEF Ordered, KeyAt
  <2>2. CASE \/ Inside(r, start, q) /\ Inside(s, start, q)
             \/ Inside(r, p, limit) /\ Inside(s, p, limit)
    <3>1. \/ Inside(r, a, l) /\ Inside(s, a, l)
          \/ Inside(r, start', limit') /\ Inside(s, start', limit')
      BY <2>2
    <3>2. CASE Inside(r, a, l) /\ Inside(s, a, l)
      <4>1. StackInside(r, n + 1)' /\ StackInside(s, n + 1)' /\ n + 1 \in 1 .. Len(stack')
        BY <1>3, <1>4, <3>2
      <4> QED BY <4>1 DEF Together
    <3>3. CASE Inside(r, start', limit') /\ Inside(s, start', limit')
      BY <3>3 DEF Together
    <3> QED BY <3>1, <3>2, <3>3
  <2>3. CASE \E k \in 1 .. n : StackInside(r, k) /\ StackInside(s, k)
    BY <1>3, <1>4, <2>3 DEF Together
  <2> QED BY <1>n, <2>1, <2>2, <2>3, PartsOrdered
<1>8. (BubbleOK /\ PartOK /\ DoneOK)'
  BY DEF BubbleOK, PartOK, DoneOK
<1> QED BY <1>5, <1>6, <1>7, <1>8 DEF IInv

\* Placing the pivot keeps the invariant.
LEMMA PlacePivotIInv == IInv /\ PlacePivot => IInv'
<1> SUFFICES ASSUME IInv, PlacePivot PROVE IInv'
  OBVIOUS
<1> PICK p \in i + 1 .. limit, q \in start .. j - 1 :
         /\ StopsUp(p) /\ StopsDown(q) /\ p > q
         /\ base' = Swap(base, start, q)
         /\ IF q - start > limit - p
              THEN stack' = Append(stack, <<start, q>>) /\ start' = p /\ limit' = limit
              ELSE stack' = Append(stack, <<p, limit>>) /\ start' = start /\ limit' = q
         /\ pc' = IF 2 * Len(stack') >= StackSize THEN "overflow" ELSE "split"
  BY DEF PlacePivot
<1>1. pc = "part" /\ UNCHANGED <<key, i, j>> /\ pc' \in {"split", "overflow"}
  BY DEF PlacePivot
<1>2. CASE q - start > limit - p
  BY <1>1, <1>2, PartsIInv
<1>3. CASE ~(q - start > limit - p)
  BY <1>1, <1>3, PartsIInv
<1> QED BY <1>2, <1>3

-----------------------------------------------------------------------------
\* An idle step.
LEMMA StutterIInv == IInv /\ UNCHANGED vars => IInv'
<1> SUFFICES ASSUME IInv, UNCHANGED vars
             PROVE  IInv'
  OBVIOUS
<1>1. /\ key' = key /\ base' = base /\ stack' = stack /\ start' = start
      /\ limit' = limit /\ i' = i /\ j' = j /\ pc' = pc
  BY DEF vars
<1>2. TypeOK' /\ SegmentsOK' /\ DoneOK'
  BY <1>1, Zenon DEF IInv, TypeOK, Permutation, SegmentsOK, DoneOK, KeyAt, Ordered, StackInside
<1>3. OthersOrdered' /\ BubbleOK' /\ PartOK'
  BY <1>1, Zenon DEF IInv, OthersOrdered, BubbleOK, PartOK, Ordered, KeyAt, Together, StackInside
<1>4. QED
  BY <1>2, <1>3 DEF IInv

(***************************************************************************)
(* Whatever loop the sort is in, its segments are disjoint, positions in   *)
(* different ones are in order, and the elements are those it was given    *)
(* (the loops of xs_ptr_qsort, lines 189 to 264).                          *)
(***************************************************************************)
THEOREM SortInvariant == Spec => []IInv
<1>1. Init => IInv
  BY InitIInv
<1>2. IInv /\ [Next]_vars => IInv'
  BY BeginBubbleIInv, BubbleStepIInv, PopSegmentIInv, FinishIInv, ChoosePivotIInv, ExchangeIInv,
     PlacePivotIInv, StutterIInv DEF Next
<1> QED BY <1>1, <1>2, PTL DEF Spec

(***************************************************************************)
(* When xs_ptr_qsort returns 0, every element is there once, in the order  *)
(* of the compare procedure, whatever the array (lines 178 to 269).        *)
(***************************************************************************)
THEOREM SortSorts == Spec => []SortedWhenDone
<1>1. IInv => SortedWhenDone
  BY DEF IInv, TypeOK, DoneOK, SortedWhenDone
<1> QED BY <1>1, SortInvariant, PTL
-----------------------------------------------------------------------------
(***************************************************************************)
(* The stack.                                                              *)
(***************************************************************************)

\* The elements of a segment on the stack.
SizeOf(k) == stack[k][2] - stack[k][1]

\* sums[k] are the elements of the segments from k on, the current one last; each
\* segment is at least as large as all that follow it.
Nested(sums) ==
  /\ sums \in [1 .. Len(stack) + 1 -> Int]
  /\ sums[Len(stack) + 1] = limit - start
  /\ \A k \in 1 .. Len(stack) : sums[k] = SizeOf(k) + sums[k + 1] /\ SizeOf(k) >= sums[k + 1]

\* most bounds the segments by how many are put aside before them.
Bounded(most) ==
  /\ Len(stack) <= Segments
  /\ limit - start <= most[Len(stack)]
  /\ \A k \in 1 .. Len(stack) : SizeOf(k) <= most[k - 1]

\* What makes the stack large enough.
StackInv(most) ==
  pc # "done" => /\ pc # "overflow" /\ Bounded(most)
                 /\ pc = "part" => limit - start >= BubThresh
                 /\ \E sums \in [1 .. Len(stack) + 1 -> Int] : Nested(sums)

\* most is such a bound.
Halves(most) ==
  /\ StackSize > 0 /\ most \in [0 .. Segments -> 0 .. Count]
  /\ most[0] = Count
  /\ \A d \in 1 .. Segments : most[d - 1] <= 2 * most[d] + 2
  /\ most[Segments] < BubThresh

\* Induction: a set of naturals that has 0 and with every number the next.
LEMMA Every ==
  ASSUME NEW G \in SUBSET Nat, 0 \in G, \A n \in G : n + 1 \in G
  PROVE  G = Nat
<1>1. SUFFICES ASSUME NEW m \in Nat \ G PROVE FALSE
  OBVIOUS
<1>2. PICK x \in Nat \ G : \A y \in Nat \ G : ~(<<y, x>> \in OpToRel(<, Nat))
  <2>1. Nat \ G # {} /\ Nat \ G \subseteq Nat
    BY <1>1
  <2>2. QED
    BY <2>1, WFMin, NatLessThanWellFounded
<1>3. \A y \in Nat \ G : ~(y < x)
  BY <1>2, Zenon DEF OpToRel
<1>a. x \in Nat /\ x \notin G
  BY <1>2, Zenon
<1>4. x # 0 /\ x - 1 \in Nat /\ x - 1 < x
  BY <1>a
<1>5. x - 1 \notin G
  <2>1. x - 1 \in G => (x - 1) + 1 \in G
    OBVIOUS
  <2>2. (x - 1) + 1 = x
    BY <1>a
  <2>3. QED
    BY <1>a, <2>1, <2>2
<1>6. QED
  BY <1>3, <1>4, <1>5

\* What SizesFrom defines.
SumsFrom(k, f) ==
  f = [n \in k .. Len(stack) + 1 |->
         IF n > Len(stack) THEN limit - start ELSE stack[n][2] - stack[n][1] + f[n + 1]]

\* SizesFrom adds up the sizes.
LEMMA SizesAddUp ==
  ASSUME Len(stack) \in Nat, NEW sums, Nested(sums), NEW k \in 1 .. Len(stack) + 1
  PROVE  SizesFrom(k) = sums[k]
<1> DEFINE m == Len(stack)
           f == [n \in k .. m + 1 |-> sums[n]]
<1>1. SumsFrom(k, f)
  <2>1. ASSUME NEW n \in k .. m + 1
        PROVE  f[n] = IF n > m THEN limit - start ELSE stack[n][2] - stack[n][1] + f[n + 1]
    <3>1. CASE n > m
      BY <3>1 DEF Nested
    <3>2. CASE ~(n > m)
      <4>1. n \in 1 .. m /\ n + 1 \in k .. m + 1
        BY <3>2
      <4>2. sums[n] = SizeOf(n) + sums[n + 1]
        BY <4>1 DEF Nested
      <4>3. QED
        BY <3>2, <4>1, <4>2 DEF SizeOf
    <3>3. QED
      BY <3>1, <3>2
  <2>2. f = [n \in k .. m + 1 |-> f[n]]
    OBVIOUS
  <2> HIDE DEF f
  <2>3. QED
    BY <2>1, <2>2, Zenon DEF SumsFrom
<1> DEFINE g == CHOOSE h : SumsFrom(k, h)
<1>2. SizesFrom(k) = g[k]
  BY Zenon DEF SizesFrom, SumsFrom
<1>3. SumsFrom(k, g)
  BY <1>1, Zenon
<1> HIDE DEF g, f
<1>4. \A n \in k .. m + 1 : g[n] = IF n > m THEN limit - start ELSE stack[n][2] - stack[n][1] + g[n + 1]
  <2>1. g = [n \in k .. m + 1 |-> IF n > m THEN limit - start ELSE stack[n][2] - stack[n][1] + g[n + 1]]
    BY <1>3, Zenon DEF SumsFrom
  <2>2. QED
    BY <2>1, Zenon
\* From the end to the front.
<1> DEFINE Same == {d \in Nat : d <= m + 1 - k => g[m + 1 - d] = sums[m + 1 - d]}
<1>5. 0 \in Same
  BY <1>4 DEF Nested
<1>6. ASSUME NEW d \in Same PROVE d + 1 \in Same
  <2>1. SUFFICES ASSUME d + 1 <= m + 1 - k PROVE g[m - d] = sums[m - d]
    OBVIOUS
  <2>2. /\ d \in Nat /\ m - d \in k .. m + 1 /\ m - d \in 1 .. m /\ ~(m - d > m)
        /\ (m - d) + 1 = m + 1 - d
    <3> HIDE DEF m
    <3>1. m \in Nat /\ d \in Nat /\ k \in Nat /\ 1 <= k
      BY DEF m
    <3>2. QED
      BY <2>1, <3>1
  <2>3. g[m + 1 - d] = sums[m + 1 - d]
    BY <2>1
  <2>4. sums[m - d] = SizeOf(m - d) + sums[m + 1 - d]
    BY <2>2 DEF Nested
  <2>5. g[m - d] = stack[m - d][2] - stack[m - d][1] + g[m + 1 - d]
    BY <1>4, <2>2
  <2>6. QED
    BY <2>3, <2>4, <2>5 DEF SizeOf
<1>7. Same = Nat
  <2> HIDE DEF Same
  <2>1. Same \in SUBSET Nat
    BY DEF Same
  <2>2. QED
    BY <1>5, <1>6, <2>1, Every
<1>8. PICK d \in Nat : d <= m + 1 - k /\ m + 1 - d = k
  <2>1. m + 1 - k \in Nat /\ m + 1 - (m + 1 - k) = k
    OBVIOUS
  <2>2. QED
    BY <2>1
<1>9. g[k] = sums[k]
  <2>1. d \in Same
    BY <1>7
  <2>2. QED
    BY <1>8, <2>1
<1>10. QED
  BY <1>2, <1>9

\* The stack can hold some number of segments.
LEMMA SegmentsNat ==
  ASSUME NEW most, Halves(most)
  PROVE  /\ Segments \in Nat /\ Count \in Nat /\ BubThresh \in Nat
         /\ \A n \in Nat : n <= Segments => 2 * n < StackSize
         /\ \A d \in 0 .. Segments : most[d] \in Nat /\ most[d] <= Count
BY SortAssumption DEF Halves, Segments

\* At first nothing is put aside.
LEMMA InitStack ==
  ASSUME NEW most, Halves(most), Init
  PROVE  StackInv(most)
<1>1. stack = <<>> /\ start = 0 /\ limit = Count /\ pc = "split" /\ Len(stack) = 0
  BY DEF Init
<1>2. Bounded(most)
  <2>1. Segments \in Nat /\ Count \in Nat
    BY SegmentsNat, Zenon
  <2>2. Len(stack) <= Segments /\ ~(\E k \in 1 .. Len(stack) : TRUE)
    BY <1>1, <2>1
  <2>3. limit - start <= most[Len(stack)]
    <3>1. most[0] = Count
      BY Zenon DEF Halves
    <3>2. Count - 0 <= Count
      BY <2>1
    <3>3. QED
      BY <1>1, <3>1, <3>2, Zenon
  <2>4. QED
    BY <2>2, <2>3, Zenon DEF Bounded
<1> DEFINE sums == [n \in 1 .. Len(stack) + 1 |-> Count]
<1>3. sums \in [1 .. Len(stack) + 1 -> Int]
  <2>1. Count \in Int
    BY SortAssumption
  <2>2. QED
    BY <2>1
<1>4. Nested(sums)
  <2>1. Len(stack) + 1 \in 1 .. Len(stack) + 1
    BY <1>1
  <2>2. sums[Len(stack) + 1] = limit - start
    BY <1>1, <2>1, SegmentsNat
  <2>3. ~(\E k \in 1 .. Len(stack) : TRUE)
    BY <1>1
  <2> HIDE DEF sums
  <2>4. QED
    BY <1>3, <2>2, <2>3, Zenon DEF Nested
<1> HIDE DEF sums
<1>5. QED
  BY <1>1, <1>2, <1>3, <1>4, Zenon DEF StackInv

\* Where the segments stay as they are.
LEMMA StackStays ==
  ASSUME NEW most, StackInv(most), UNCHANGED <<stack, start, limit>>, pc # "done",
         pc' # "overflow", pc' = "part" => limit - start >= BubThresh
  PROVE  StackInv(most)'
<1>1. stack' = stack /\ start' = start /\ limit' = limit
  OBVIOUS
<1>2. Bounded(most)'
  BY <1>1, Zenon DEF StackInv, Bounded, SizeOf
<1>3. PICK sums \in [1 .. Len(stack) + 1 -> Int] : Nested(sums)
  BY Zenon DEF StackInv
<1>4. Nested(sums)'
  BY <1>1, <1>3, Zenon DEF Nested, SizeOf
<1>5. sums \in [1 .. Len(stack') + 1 -> Int] /\ (pc' = "part" => limit' - start' >= BubThresh)
  BY <1>1, <1>3, Zenon
<1>6. QED
  BY <1>2, <1>4, <1>5, Zenon DEF StackInv

\* The segment that was put aside last is as short as the one that it was a
\* part of had to be.
LEMMA StackPopped ==
  ASSUME NEW most, Halves(most), IInv, StackInv(most), PopSegment
  PROVE  StackInv(most)'
<1>1. stack \in Seq(Nat \X Nat) /\ stack # <<>> /\ start \in Nat /\ limit \in Nat /\ start <= limit
  <2>1. stack \in Seq(Nat \X Nat) /\ stack # <<>> /\ start \in 0 .. Count /\ limit \in start .. Count
    BY Zenon DEF IInv, TypeOK, PopSegment
  <2>2. QED
    BY <2>1, SortAssumption
<1>2. PICK m \in Nat : m + 1 = Len(stack)
  <2>1. Len(stack) \in Nat \ {0}
    BY <1>1, Popped
  <2>2. PICK n : n = Len(stack)
    OBVIOUS
  <2>3. n - 1 \in Nat /\ (n - 1) + 1 = n
    BY <2>1, <2>2
  <2>4. QED
    BY <2>2, <2>3, Zenon
<1>3. /\ Len(stack') = m
      /\ \A k \in 1 .. m : stack'[k] = stack[k]
      /\ start' = stack[m + 1][1] /\ limit' = stack[m + 1][2] /\ pc' = "split" /\ pc = "bubble"
  <2>1. /\ start' = stack[Len(stack)][1] /\ limit' = stack[Len(stack)][2]
        /\ stack' = SubSeq(stack, 1, Len(stack) - 1) /\ pc' = "split" /\ pc = "bubble"
    BY Zenon DEF PopSegment
  <2>2. Len(stack) - 1 = m
    BY <1>2
  <2>3. /\ Len(SubSeq(stack, 1, Len(stack) - 1)) = Len(stack) - 1
        /\ \A k \in 1 .. Len(stack) - 1 : SubSeq(stack, 1, Len(stack) - 1)[k] = stack[k]
    BY <1>1, Popped, Zenon
  <2>4. QED
    BY <1>2, <2>1, <2>2, <2>3, Zenon
<1>4. PICK sums : Nested(sums)
  BY <1>3, Zenon DEF StackInv
<1>5. /\ sums \in [1 .. m + 2 -> Int] /\ sums[m + 2] = limit - start
      /\ \A k \in 1 .. m + 1 : sums[k] = SizeOf(k) + sums[k + 1] /\ SizeOf(k) >= sums[k + 1]
  <2>1. Len(stack) + 1 = m + 2
    BY <1>2
  <2>2. QED
    BY <1>2, <1>4, <2>1 DEF Nested
<1>6. PICK n \in Nat : n = limit - start
  BY <1>1
<1> DEFINE fewer == [k \in 1 .. m + 1 |-> sums[k] - n]
<1>7. \A k \in 1 .. m + 1 : SizeOf(k) \in Int
  <2>1. ASSUME NEW k \in 1 .. m + 1 PROVE SizeOf(k) \in Int
    <3>1. stack[k] \in Nat \X Nat
      BY <1>1, <1>2, <2>1
    <3>2. QED
      BY <3>1 DEF SizeOf
  <2>2. QED
    BY <2>1
<1>8. \A k \in 1 .. m : SizeOf(k)' = SizeOf(k)
  BY <1>3 DEF SizeOf
<1>9. /\ fewer \in [1 .. m + 1 -> Int] /\ fewer[m + 1] = SizeOf(m + 1)
      /\ \A k \in 1 .. m : fewer[k] = SizeOf(k) + fewer[k + 1] /\ SizeOf(k) >= fewer[k + 1]
  <2>1. \A k \in 1 .. m + 2 : sums[k] \in Int
    BY <1>5
  <2>2. fewer \in [1 .. m + 1 -> Int]
    BY <2>1
  <2>3. \A k \in 1 .. m + 1 : fewer[k] = sums[k] - n
    OBVIOUS
  <2>4. fewer[m + 1] = SizeOf(m + 1)
    <3>1. m + 1 \in 1 .. m + 1 /\ (m + 1) + 1 = m + 2
      OBVIOUS
    <3>2. sums[m + 1] = SizeOf(m + 1) + n
      BY <1>5, <1>6, <3>1
    <3>3. QED
      BY <1>7, <2>3, <3>1, <3>2
  <2> HIDE DEF fewer
  <2>5. ASSUME NEW k \in 1 .. m
        PROVE  fewer[k] = SizeOf(k) + fewer[k + 1] /\ SizeOf(k) >= fewer[k + 1]
    <3>1. k \in 1 .. m + 1 /\ k + 1 \in 1 .. m + 1 /\ k + 1 \in 1 .. m + 2
      OBVIOUS
    <3>2. /\ fewer[k] = sums[k] - n /\ fewer[k + 1] = sums[k + 1] - n
          /\ sums[k] = SizeOf(k) + sums[k + 1] /\ SizeOf(k) >= sums[k + 1]
          /\ SizeOf(k) \in Int /\ sums[k + 1] \in Int
      BY <1>5, <1>7, <2>1, <2>3, <3>1
    <3>3. QED
      BY <3>2
  <2>6. QED
    BY <2>2, <2>4, <2>5
<1>10. Nested(fewer)'
  <2> HIDE DEF fewer
  <2>1. SizeOf(m + 1) = limit' - start'
    BY <1>3 DEF SizeOf
  <2>2. QED
    BY <1>3, <1>8, <1>9, <2>1 DEF Nested
<1>11. Bounded(most)'
  <2>1. Bounded(most)
    BY <1>3, Zenon DEF StackInv
  <2>2. limit' - start' <= most[m]
    <3>1. m + 1 \in 1 .. Len(stack) /\ (m + 1) - 1 = m
      BY <1>2
    <3>2. SizeOf(m + 1) <= most[m]
      BY <2>1, <3>1 DEF Bounded
    <3>3. QED
      BY <1>3, <3>2 DEF SizeOf
  <2>3. m <= Segments
    BY <1>2, <2>1, SegmentsNat DEF Bounded
  <2>4. \A k \in 1 .. m : SizeOf(k)' <= most[k - 1]
    BY <1>2, <1>8, <2>1 DEF Bounded
  <2>5. QED
    BY <1>3, <2>2, <2>3, <2>4 DEF Bounded
<1>12. fewer \in [1 .. Len(stack') + 1 -> Int]
  BY <1>3, <1>9
<1> HIDE DEF fewer
<1>13. QED
  BY <1>3, <1>10, <1>11, <1>12, Zenon DEF StackInv

\* Putting the larger of two parts aside and going on with the smaller one.
LEMMA StackPushed ==
  ASSUME NEW most, Halves(most), IInv, StackInv(most), pc = "part",
         NEW a \in Nat, NEW b \in Nat, NEW c \in Nat, NEW d \in Nat,
         stack' = Append(stack, <<a, b>>), start' = c, limit' = d,
         a <= b, c <= d, d - c <= b - a, (b - a) + (d - c) < limit - start,
         pc' = IF 2 * Len(stack') >= StackSize THEN "overflow" ELSE "split"
  PROVE  StackInv(most)'
<1>1. stack \in Seq(Nat \X Nat) /\ start \in Nat /\ limit \in Nat /\ start <= limit
  <2>1. stack \in Seq(Nat \X Nat) /\ start \in 0 .. Count /\ limit \in start .. Count
    BY Zenon DEF IInv, TypeOK
  <2>2. QED
    BY <2>1, SortAssumption
<1>2. PICK m : m = Len(stack)
  OBVIOUS
<1>3. /\ m \in Nat /\ Len(stack') = m + 1 /\ SizeOf(m + 1)' = b - a
      /\ \A k \in 1 .. m : SizeOf(k)' = SizeOf(k)
  <2>1. /\ Len(stack) \in Nat /\ Len(stack') = Len(stack) + 1
        /\ stack'[Len(stack) + 1][1] = a /\ stack'[Len(stack) + 1][2] = b
        /\ \A k \in 1 .. Len(stack) : stack'[k] = stack[k]
    BY <1>1, PutAside, Zenon
  <2>2. QED
    BY <1>2, <2>1, Zenon DEF SizeOf
<1>4. Bounded(most) /\ limit - start >= BubThresh
  BY Zenon DEF StackInv
<1>5. PICK n, large, small : n = limit - start /\ large = b - a /\ small = d - c
  OBVIOUS
<1>6. /\ n \in Nat /\ large \in Nat /\ small \in Nat /\ small <= large /\ large + small < n
      /\ n <= most[m] /\ n >= BubThresh
  BY <1>1, <1>2, <1>4, <1>5 DEF Bounded
<1>7. m + 1 <= Segments /\ most[m] \in Nat /\ most[m + 1] \in Nat /\ most[m] <= 2 * most[m + 1] + 2
  <2>1. m <= Segments /\ m \in 0 .. Segments
    BY <1>2, <1>3, <1>4, SegmentsNat DEF Bounded
  <2>2. most[m] \in Nat
    BY <2>1, SegmentsNat
  <2>3. m # Segments
    <3>1. most[Segments] < BubThresh
      BY Zenon DEF Halves
    <3>2. PICK v : v = most[m]
      OBVIOUS
    <3>3. v \in Nat /\ n \in Nat /\ n <= v /\ n >= BubThresh /\ BubThresh \in Nat
      BY <1>6, <2>2, <3>2, SegmentsNat, Zenon
    <3>4. ~(v < BubThresh)
      BY <3>3
    <3>5. QED
      BY <3>1, <3>2, <3>4, Zenon
  <2>4. m + 1 <= Segments /\ m + 1 \in 1 .. Segments /\ m + 1 \in 0 .. Segments /\ (m + 1) - 1 = m
    BY <1>3, <2>1, <2>3, SegmentsNat
  <2>5. most[m + 1] \in Nat /\ most[m] <= 2 * most[m + 1] + 2
    BY <2>4, SegmentsNat DEF Halves
  <2>6. QED
    BY <2>2, <2>4, <2>5
<1>8. pc' = "split"
  <2>1. 2 * (m + 1) < StackSize
    BY <1>3, <1>7, SegmentsNat
  <2>2. ~(2 * (m + 1) >= StackSize)
    BY <1>3, <2>1, SortAssumption
  <2>3. QED
    BY <1>3, <2>2, Zenon
<1>9. Bounded(most)'
  <2>1. limit' - start' <= most[m + 1]
    <3>1. small <= most[m + 1]
      BY <1>6, <1>7
    <3>2. QED
      BY <1>5, <3>1, Zenon
  <2>2. SizeOf(m + 1)' <= most[m]
    <3>1. large <= most[m]
      BY <1>6, <1>7
    <3>2. QED
      BY <1>3, <1>5, <3>1, Zenon
  <2>3. ASSUME NEW k \in 1 .. m + 1 PROVE SizeOf(k)' <= most[k - 1]
    <3>1. CASE k = m + 1
      <4>1. (m + 1) - 1 = m
        BY <1>3
      <4>2. QED
        BY <2>2, <3>1, <4>1, Zenon
    <3>2. CASE k # m + 1
      <4>1. k \in 1 .. m
        BY <1>3, <3>2
      <4>2. QED
        BY <1>2, <1>3, <1>4, <4>1, Zenon DEF Bounded
    <3>3. QED
      BY <3>1, <3>2
  <2>4. QED
    BY <1>3, <1>7, <2>1, <2>3, Zenon DEF Bounded
<1>10. PICK sums : Nested(sums)
  BY Zenon DEF StackInv
<1>11. /\ sums \in [1 .. m + 1 -> Int] /\ sums[m + 1] = n
       /\ \A k \in 1 .. m : sums[k] = SizeOf(k) + sums[k + 1] /\ SizeOf(k) >= sums[k + 1]
  BY <1>2, <1>5, <1>10, Zenon DEF Nested
<1> DEFINE gone == n - (large + small)
           fewer == [k \in 1 .. m + 2 |-> IF k = m + 2 THEN small ELSE sums[k] - gone]
<1>12. gone \in Nat /\ n - gone = large + small
  BY <1>6
<1>13. /\ \A k \in 1 .. m + 1 : fewer[k] = sums[k] - gone /\ sums[k] \in Int
       /\ fewer[m + 2] = small /\ fewer \in [1 .. m + 2 -> Int]
  <2> HIDE DEF gone
  <2>1. \A k \in 1 .. m + 1 : k \in 1 .. m + 2 /\ k # m + 2 /\ sums[k] \in Int
    BY <1>3, <1>11
  <2>2. m + 2 \in 1 .. m + 2
    BY <1>3
  <2>3. \A k \in 1 .. m + 2 : k # m + 2 => k \in 1 .. m + 1
    BY <1>3
  <2>4. fewer \in [1 .. m + 2 -> Int]
    <3>1. ASSUME NEW k \in 1 .. m + 2 PROVE (IF k = m + 2 THEN small ELSE sums[k] - gone) \in Int
      BY <1>6, <1>12, <2>1, <2>3, <3>1
    <3>2. QED
      BY <3>1
  <2>5. QED
    BY <2>1, <2>2, <2>4
<1> HIDE DEF gone, fewer
<1>14. ASSUME NEW k \in 1 .. m + 1
       PROVE  fewer[k] = SizeOf(k)' + fewer[k + 1] /\ SizeOf(k)' >= fewer[k + 1]
  <2>1. CASE k = m + 1
    <3>1. (m + 1) + 1 = m + 2 /\ m + 1 \in 1 .. m + 1
      BY <1>3
    <3>2. fewer[m + 1] = n - gone /\ fewer[m + 2] = small /\ SizeOf(m + 1)' = large
      BY <1>3, <1>5, <1>11, <1>13, <3>1, Zenon
    <3>3. fewer[m + 1] = large + small
      BY <1>12, <3>2
    <3>4. large >= small
      BY <1>6
    <3>5. QED
      BY <2>1, <3>1, <3>2, <3>3, <3>4, Zenon
  <2>2. CASE k # m + 1
    <3>1. k \in 1 .. m /\ k + 1 \in 1 .. m + 1
      BY <1>3, <2>2
    <3>2. /\ fewer[k] = sums[k] - gone /\ fewer[k + 1] = sums[k + 1] - gone /\ sums[k + 1] \in Int
          /\ sums[k] \in Int
      BY <1>13, <3>1, Zenon
    <3>3. PICK z, x, y, x1, y1 : /\ z = SizeOf(k) /\ x = sums[k] /\ y = sums[k + 1]
                                 /\ x1 = fewer[k] /\ y1 = fewer[k + 1]
      OBVIOUS
    <3>4. x = z + y /\ z >= y /\ x1 = x - gone /\ y1 = y - gone /\ x \in Int /\ y \in Int
      BY <1>11, <3>1, <3>2, <3>3, Zenon
    <3>5. z \in Int
      <4>1. stack[k] \in Nat \X Nat
        BY <1>1, <1>2, <3>1
      <4>2. QED
        BY <3>3, <4>1 DEF SizeOf
    <3>6. x1 = z + y1 /\ z >= y1
      BY <1>12, <3>4, <3>5
    <3>7. QED
      BY <1>3, <3>1, <3>3, <3>6, Zenon
  <2>3. QED
    BY <2>1, <2>2
<1>15. Nested(fewer)'
  <2>1. Len(stack') + 1 = m + 2
    BY <1>3
  <2>2. fewer[m + 2] = limit' - start'
    BY <1>5, <1>13, Zenon
  <2>3. QED
    BY <1>3, <1>13, <1>14, <2>1, <2>2, Zenon DEF Nested
<1>16. fewer \in [1 .. Len(stack') + 1 -> Int]
  BY <1>15, Zenon DEF Nested
<1>17. QED
  BY <1>8, <1>9, <1>15, <1>16, Zenon DEF StackInv

\* No step of the sort makes the stack too small.
LEMMA StackKept ==
  ASSUME NEW most, Halves(most), IInv, StackInv(most), [Next]_vars
  PROVE  StackInv(most)'
<1>1. CASE UNCHANGED vars
  <2>1. UNCHANGED <<stack, start, limit, pc>>
    BY <1>1, Zenon DEF vars
  <2>2. CASE pc = "done"
    BY <2>1, <2>2, Zenon DEF StackInv
  <2>3. CASE pc # "done"
    <3>1. pc # "overflow" /\ (pc = "part" => limit - start >= BubThresh)
      BY <2>3, Zenon DEF StackInv
    <3>2. QED
      BY <2>1, <2>3, <3>1, StackStays, Zenon
  <2>4. QED
    BY <2>2, <2>3
<1>2. CASE BeginBubble \/ BubbleStep
  <2>1. /\ pc' = "bubble" /\ pc # "done" /\ pc' # "overflow" /\ pc' # "part"
        /\ UNCHANGED <<stack, start, limit>>
    BY <1>2 DEF BeginBubble, BubbleStep
  <2>2. QED
    BY <2>1, StackStays, Zenon
<1>3. CASE ChoosePivot
  <2>1. /\ limit - start >= BubThresh /\ pc = "split" /\ pc' = "part"
        /\ UNCHANGED <<stack, start, limit>>
    BY <1>3, Zenon DEF ChoosePivot
  <2>2. pc # "done" /\ pc' # "overflow"
    BY <2>1
  <2>3. QED
    BY <2>1, <2>2, StackStays, Zenon
<1>4. CASE Exchange
  <2>1. pc = "part" /\ pc' = "part" /\ UNCHANGED <<stack, start, limit>>
    BY <1>4, Zenon DEF Exchange
  <2>2. pc # "done" /\ pc' # "overflow" /\ limit - start >= BubThresh
    BY <2>1 DEF StackInv
  <2>3. QED
    BY <2>1, <2>2, StackStays, Zenon
<1>5. CASE PopSegment
  BY <1>5, StackPopped
<1>6. CASE Finish
  BY <1>6, Zenon DEF Finish, StackInv
<1>7. CASE PlacePivot
  <2>1. PICK p \in i + 1 .. limit, q \in start .. j - 1 :
           /\ p > q
           /\ IF q - start > limit - p
                THEN stack' = Append(stack, <<start, q>>) /\ start' = p /\ limit' = limit
                ELSE stack' = Append(stack, <<p, limit>>) /\ start' = start /\ limit' = q
           /\ pc' = IF 2 * Len(stack') >= StackSize THEN "overflow" ELSE "split"
    BY <1>7, Zenon DEF PlacePivot
  <2>2. pc = "part"
    BY <1>7, Zenon DEF PlacePivot
  <2>3. start \in 0 .. Count /\ limit \in start .. Count /\ i \in Nat /\ j \in Int
    BY Zenon DEF IInv, TypeOK
  <2>4. /\ start \in Nat /\ limit \in Nat /\ p \in Nat /\ q \in Nat
        /\ start <= q /\ p <= limit /\ q < p
    BY <2>1, <2>3, SortAssumption
  <2>5. (q - start) + (limit - p) < limit - start /\ (limit - p) + (q - start) < limit - start
    BY <2>4
  <2>6. CASE q - start > limit - p
    <3>1. limit - p <= q - start
      BY <2>4, <2>6
    <3>2. stack' = Append(stack, <<start, q>>) /\ start' = p /\ limit' = limit
      BY <2>1, <2>6, Zenon
    <3>3. QED
      BY <2>1, <2>2, <2>4, <2>5, <3>1, <3>2, StackPushed, Zenon
  <2>7. CASE ~(q - start > limit - p)
    <3>1. q - start <= limit - p
      BY <2>4, <2>7
    <3>2. stack' = Append(stack, <<p, limit>>) /\ start' = start /\ limit' = q
      BY <2>1, <2>7, Zenon
    <3>3. QED
      BY <2>1, <2>2, <2>4, <2>5, <3>1, <3>2, StackPushed, Zenon
  <2>8. QED
    BY <2>6, <2>7
<1>8. QED
  BY <1>1, <1>2, <1>3, <1>4, <1>5, <1>6, <1>7, Zenon DEF Next

\* With this invariant the stack suffices, as the run checks it.
LEMMA StackIsEnough ==
  ASSUME NEW most, IInv, StackInv(most)
  PROVE  StackSuffices
<1>1. pc # "overflow"
  <2>1. pc = "done" => pc # "overflow"
    OBVIOUS
  <2>2. QED
    BY <2>1, Zenon DEF StackInv
<1>2. ASSUME pc # "done", NEW k \in DOMAIN stack
      PROVE  stack[k][2] - stack[k][1] >= SizesFrom(k + 1)
  <2>1. stack \in Seq(Nat \X Nat)
    BY Zenon DEF IInv, TypeOK
  <2>2. Len(stack) \in Nat /\ k \in 1 .. Len(stack) /\ k + 1 \in 1 .. Len(stack) + 1
    BY <1>2, <2>1
  <2>3. PICK sums : Nested(sums)
    BY <1>2, Zenon DEF StackInv
  <2>4. SizesFrom(k + 1) = sums[k + 1]
    BY <2>2, <2>3, SizesAddUp, Zenon
  <2>5. SizeOf(k) >= sums[k + 1]
    BY <2>2, <2>3, Zenon DEF Nested
  <2>6. QED
    BY <2>4, <2>5, Zenon DEF SizeOf
<1>3. QED
  BY <1>1, <1>2, Zenon DEF StackSuffices

(***************************************************************************)
(* The stack of xs_ptr_qsort is large enough (the question of line 185),   *)
(* if halving the number of elements as often as it can hold a segment     *)
(* leaves too few to be split: line 263 is never reached, and each segment *)
(* put aside is at least as large as all that come after it.               *)
(***************************************************************************)
THEOREM StackAlwaysSuffices == EnoughStack => (Spec => []StackSuffices)
<1>1. SUFFICES ASSUME EnoughStack PROVE Spec => []StackSuffices
  OBVIOUS
<1>2. PICK most : Halves(most)
  BY <1>1, Zenon DEF EnoughStack, Halves
<1>3. Init => StackInv(most)
  BY <1>2, InitStack, Zenon
<1>4. IInv /\ StackInv(most) /\ [Next]_vars => StackInv(most)'
  BY <1>2, StackKept, Zenon
<1>5. IInv /\ StackInv(most) => StackSuffices
  BY StackIsEnough, Zenon
<1>6. QED
  BY <1>3, <1>4, <1>5, SortInvariant, PTL DEF Spec

-----------------------------------------------------------------------------
(***************************************************************************)
(* The JSON reader (XsJson).                                               *)
(***************************************************************************)
\* Containers, and all tags.
Marks == {"{", "["}
TagTypes == Marks \union {"}", "]", "key", "value"}

\* f[n] is what is open after the first n of the tags s.
IsOpen(f, s) ==
  f = [n \in 0 .. Len(s) |-> IF n = 0 THEN <<>> ELSE J!OpenAfter(f[n - 1], s[n])]

\* The stack of the reader holds the open containers o above its bottom.
Holds(held, o) ==
  /\ o \in Seq(Marks) /\ held \in Seq(Marks \union {"bottom"})
  /\ Len(held) = Len(o) + 1 /\ held[1] = "bottom"
  /\ \A k \in 1 .. Len(o) : held[k + 1] = o[k]

\* The tags s nest, by what f says is open after each of them.
Within(f, n) == f[n - 1] # <<>> /\ J!Last(f[n - 1]) = "{"
Nest(f, s, permissive) ==
  \A n \in DOMAIN s :
    /\ f[n] = <<>> \/ J!Last(f[n]) # "unmatched"
    /\ s[n] = "key" => Within(f, n) \/ (n = 1 /\ permissive)
    /\ Within(f, n) /\ s[n] \in {"value", "{", "["} => s[n - 1] = "key"

\* The fields of what a call returns with a tag (xs_json_next, its return).
LEMMA OkFields ==
  ASSUME NEW tag, NEW p, NEW state, NEW open, NEW r, r = J!Ok(tag, p, state, open)
  PROVE  r.ret = "ok" /\ r.tag = tag /\ r.mstate = state /\ r.mstack = open
BY DEF J!Ok, J!Result

\* What one call of xs_json_next returns: nothing, a key, the beginning or the
\* end of a container, or a value.
LEMMA CallReturns ==
  ASSUME NEW r, r = J!JsonNext
  PROVE  \/ /\ r.ret # "ok" /\ r.mstate = mstate /\ r.mstack = mstack
            /\ r.ret = "eof" => Len(mstack) = 1
         \/ /\ r.ret = "ok" /\ r.tag = "key" /\ r.mstate = "value" /\ r.mstack = mstack
            /\ mstate = "{" \/ (mstate = "none" /\ input.permissive)
         \/ /\ r.ret = "ok" /\ r.tag \in Marks /\ r.mstate = r.tag /\ r.mstack = Append(mstack, r.tag)
            /\ mstate # "{"
         \/ /\ r.ret = "ok" /\ r.mstate = J!Last(J!Front(mstack)) /\ r.mstack = J!Front(mstack)
            /\ \/ r.tag = "}" /\ J!Last(mstack) = "{"
               \/ r.tag = "]" /\ J!Last(mstack) = "["
         \/ /\ r.ret = "ok" /\ r.tag = "value" /\ r.mstate = J!Last(mstack) /\ r.mstack = mstack
            /\ mstate \in {"[", "value"}
<1> DEFINE n == J!ReadString(mptr)
           mark == J!At(mptr)
           implicit == mstate = "none" /\ input.permissive /\ mark \notin {"{", "["}
           state == IF implicit THEN "{" ELSE mstate
<1>1. r = IF J!EndOfText(n) THEN J!NothingLeft
          ELSE IF mstate = "bottom" THEN J!Syntax
          ELSE IF state = "{" /\ mark # "}" THEN J!Key(n)
          ELSE CASE mark \in {"{", "["} -> J!Opens(mark)
                 [] mark = "}" -> J!Closes("{", "}")
                 [] mark = "]" -> J!Closes("[", "]")
                 [] OTHER -> J!Value(n)
  BY Zenon DEF J!JsonNext
<1> HIDE DEF n, mark, implicit, state
<1>2. CASE r = J!NothingLeft
  BY <1>2 DEF J!NothingLeft, J!Fails, J!Result
<1>3. CASE r = J!Syntax
  BY <1>3 DEF J!Syntax, J!Fails, J!Result
<1>4. CASE r = J!Key(n) /\ state = "{"
  <2>1. mstate = "{" \/ (mstate = "none" /\ input.permissive)
    BY <1>4, Zenon DEF implicit, state
  <2>2. r = J!Ok("key", n + 1, "value", mstack) \/ r = J!Syntax
    BY <1>4, Zenon DEF J!Key
  <2>3. ASSUME r = J!Ok("key", n + 1, "value", mstack)
        PROVE  r.ret = "ok" /\ r.tag = "key" /\ r.mstate = "value" /\ r.mstack = mstack
    BY <2>3, OkFields
  <2>4. QED
    BY <1>3, <2>1, <2>2, <2>3, Zenon
<1>5. CASE r = J!Opens(mark) /\ mark \in {"{", "["} /\ state # "{"
  <2>1. mstate # "{"
    BY <1>5 DEF implicit, state
  <2>2. r.ret = "ok" /\ r.tag = mark /\ r.mstate = mark /\ r.mstack = Append(mstack, mark)
    <3>1. PICK open, p : open = Append(mstack, mark) /\ p = mptr + 1
      BY Zenon
    <3>2. r = J!Ok(mark, p, mark, open)
      BY <1>5, <3>1, Zenon DEF J!Opens
    <3>3. r.ret = "ok" /\ r.tag = mark /\ r.mstate = mark /\ r.mstack = open
      BY <3>2, OkFields
    <3>4. QED
      BY <3>1, <3>3, Zenon
  <2>3. QED
    BY <1>5, <2>1, <2>2, Zenon DEF Marks
<1>6. ASSUME NEW kind, NEW tag, r = J!Closes(kind, tag)
      PROVE  \/ r = J!Syntax
             \/ /\ r.ret = "ok" /\ r.tag = tag /\ J!Last(mstack) = kind
                /\ r.mstate = J!Last(J!Front(mstack)) /\ r.mstack = J!Front(mstack)
  <2>1. \/ r = J!Syntax
        \/ /\ J!Last(mstack) = kind
           /\ r = J!Ok(tag, J!After(mptr + 1, ","), J!Last(J!Front(mstack)), J!Front(mstack))
    BY <1>6, Zenon DEF J!Closes
  <2>2. ASSUME r = J!Ok(tag, J!After(mptr + 1, ","), J!Last(J!Front(mstack)), J!Front(mstack))
        PROVE  /\ r.ret = "ok" /\ r.tag = tag
               /\ r.mstate = J!Last(J!Front(mstack)) /\ r.mstack = J!Front(mstack)
    <3>1. PICK front, next, p : /\ front = J!Front(mstack) /\ next = J!Last(front)
                                /\ p = J!After(mptr + 1, ",")
      BY Zenon
    <3>2. r = J!Ok(tag, p, next, front)
      BY <2>2, <3>1, Zenon
    <3>3. r.ret = "ok" /\ r.tag = tag /\ r.mstate = next /\ r.mstack = front
      BY <3>2, OkFields
    <3>4. QED
      BY <3>1, <3>3, Zenon
  <2>3. QED
    BY <2>1, <2>2, Zenon
<1>7. CASE r = J!Closes("{", "}") \/ r = J!Closes("[", "]")
  BY <1>3, <1>6, <1>7, Zenon
<1>8. CASE r = J!Value(n)
  <2>1. PICK p : \/ r = J!Syntax
                 \/ mstate \in {"[", "value"} /\ r = J!Ok("value", p, J!Last(mstack), mstack)
    BY <1>8, Zenon DEF J!Value
  <2>2. ASSUME r = J!Ok("value", p, J!Last(mstack), mstack)
        PROVE  r.ret = "ok" /\ r.tag = "value" /\ r.mstate = J!Last(mstack) /\ r.mstack = mstack
    BY <2>2, OkFields
  <2>3. QED
    BY <1>3, <2>1, <2>2, Zenon
<1>9. CASE state # "{" \/ mark = "}"
  <2>1. state = "{" => mark \notin {"{", "["}
    BY <1>9
  <2>2. \/ r = J!NothingLeft \/ r = J!Syntax
        \/ r = J!Opens(mark) /\ mark \in {"{", "["} /\ state # "{"
        \/ r = J!Closes("{", "}") \/ r = J!Closes("[", "]") \/ r = J!Value(n)
    BY <1>1, <1>9, <2>1
  <2>3. QED
    BY <2>2, <1>2, <1>3, <1>5, <1>7, <1>8, Zenon
<1>10. CASE ~(state # "{" \/ mark = "}")
  BY <1>1, <1>2, <1>3, <1>4, <1>10, Zenon
<1>11. QED
  BY <1>9, <1>10, Zenon

\* One more tag leaves what was open before it as it was.
LEMMA OneMore ==
  ASSUME NEW s \in Seq(TagTypes), NEW tag \in TagTypes, NEW g, IsOpen(g, Append(s, tag))
  PROVE  \E f : /\ IsOpen(f, s) /\ \A n \in 0 .. Len(s) : g[n] = f[n]
                /\ g[Len(s) + 1] = J!OpenAfter(f[Len(s)], tag)
<1> DEFINE f == [n \in 0 .. Len(s) |-> g[n]]
<1>1. PICK t : t = Append(s, tag)
  BY Zenon
<1>2. Len(s) \in Nat /\ Len(t) = Len(s) + 1 /\ t[Len(s) + 1] = tag /\ \A n \in 1 .. Len(s) : t[n] = s[n]
  BY <1>1
<1>3. \A n \in 0 .. Len(t) : g[n] = IF n = 0 THEN <<>> ELSE J!OpenAfter(g[n - 1], t[n])
  <2>1. g = [n \in 0 .. Len(t) |-> IF n = 0 THEN <<>> ELSE J!OpenAfter(g[n - 1], t[n])]
    BY <1>1, Zenon DEF IsOpen
  <2>2. QED
    BY <2>1, Zenon
<1>4. \A n \in 0 .. Len(s) : n \in 0 .. Len(t) /\ (n # 0 => n - 1 \in 0 .. Len(s) /\ n \in 1 .. Len(s))
  BY <1>2
<1>5. \A n \in 0 .. Len(s) : f[n] = g[n]
  BY Zenon
<1>6. \A n \in 0 .. Len(s) : f[n] = IF n = 0 THEN <<>> ELSE J!OpenAfter(f[n - 1], s[n])
  BY <1>2, <1>3, <1>4, <1>5, Zenon
<1>7. IsOpen(f, s)
  <2>1. f = [n \in 0 .. Len(s) |-> f[n]]
    BY <1>5, Zenon
  <2>2. [n \in 0 .. Len(s) |-> f[n]]
          = [n \in 0 .. Len(s) |-> IF n = 0 THEN <<>> ELSE J!OpenAfter(f[n - 1], s[n])]
    BY <1>6, Zenon
  <2>3. QED
    BY <2>1, <2>2, Zenon DEF IsOpen
<1>8. g[Len(s) + 1] = J!OpenAfter(f[Len(s)], tag)
  <2>1. PICK N : N = Len(s)
    BY Zenon
  <2>2. N + 1 \in 0 .. Len(t) /\ N + 1 # 0 /\ (N + 1) - 1 = N /\ N \in 0 .. N
    BY <1>2, <2>1
  <2>3. QED
    BY <1>2, <1>3, <1>5, <2>1, <2>2, Zenon
<1>9. QED
  BY <1>5, <1>7, <1>8, Zenon

\* What is open after one more tag can be told.
LEMMA OpenExtends ==
  ASSUME NEW s \in Seq(TagTypes), NEW tag \in TagTypes, NEW f, IsOpen(f, s)
  PROVE  \E g : IsOpen(g, Append(s, tag))
<1>1. PICK t : t = Append(s, tag)
  BY Zenon
<1>2. PICK N : N = Len(s)
  BY Zenon
<1>3. N \in Nat /\ Len(t) = N + 1 /\ t[N + 1] = tag /\ \A n \in 1 .. N : t[n] = s[n]
  BY <1>1, <1>2
<1> DEFINE g == [n \in 0 .. N + 1 |-> IF n = N + 1 THEN J!OpenAfter(f[N], tag) ELSE f[n]]
<1>4. \A n \in 0 .. N : f[n] = IF n = 0 THEN <<>> ELSE J!OpenAfter(f[n - 1], s[n])
  <2>1. f = [n \in 0 .. N |-> IF n = 0 THEN <<>> ELSE J!OpenAfter(f[n - 1], s[n])]
    BY <1>2, Zenon DEF IsOpen
  <2>2. QED
    BY <2>1, Zenon
<1>5. \A n \in 0 .. N + 1 : g[n] = IF n = N + 1 THEN J!OpenAfter(f[N], tag) ELSE f[n]
  BY Zenon
<1> HIDE DEF g
<1>6. \A n \in 0 .. N + 1 : g[n] = IF n = 0 THEN <<>> ELSE J!OpenAfter(g[n - 1], t[n])
  <2> TAKE n \in 0 .. N + 1
  <2>1. CASE n = N + 1
    <3>1. n # 0 /\ n - 1 = N /\ N \in 0 .. N + 1 /\ N # N + 1
      BY <1>3, <2>1
    <3>2. g[n] = J!OpenAfter(f[N], tag) /\ g[n - 1] = f[N]
      BY <1>5, <2>1, <3>1, Zenon
    <3>3. QED
      BY <1>3, <2>1, <3>1, <3>2, Zenon
  <2>2. CASE n # N + 1
    <3>1. n \in 0 .. N /\ (n # 0 => n - 1 \in 0 .. N + 1 /\ n - 1 # N + 1 /\ n \in 1 .. N)
      BY <1>3, <2>2
    <3>2. g[n] = f[n] /\ (n # 0 => g[n - 1] = f[n - 1] /\ t[n] = s[n])
      BY <1>3, <1>5, <2>2, <3>1, Zenon
    <3>3. QED
      BY <1>4, <3>1, <3>2, Zenon
  <2>3. QED
    BY <2>1, <2>2, Zenon
<1>7. g = [n \in 0 .. N + 1 |-> g[n]]
  BY <1>5, Zenon DEF g
<1>8. [n \in 0 .. N + 1 |-> g[n]] = [n \in 0 .. Len(t) |-> IF n = 0 THEN <<>> ELSE J!OpenAfter(g[n - 1], t[n])]
  BY <1>3, <1>6, Zenon
<1>9. IsOpen(g, t)
  BY <1>7, <1>8, Zenon DEF IsOpen
<1>10. QED
  BY <1>1, <1>9, Zenon

\* The top of the stack is the container opened last.
LEMMA HoldsTop ==
  ASSUME NEW held, NEW o, Holds(held, o)
  PROVE  /\ o = <<>> <=> Len(held) = 1
         /\ o = <<>> => J!Last(held) = "bottom"
         /\ o # <<>> => J!Last(held) = J!Last(o) /\ J!Last(o) \in Marks
<1>1. PICK N : N = Len(o)
  BY Zenon
<1>2. /\ N \in Nat /\ (o = <<>> <=> N = 0) /\ Len(held) = N + 1 /\ held[1] = "bottom"
      /\ \A k \in 1 .. N : held[k + 1] = o[k] /\ o[k] \in Marks
  BY <1>1 DEF Holds
<1>3. N # 0 => N \in 1 .. N
  BY <1>2
<1>4. N = 0 <=> N + 1 = 1
  BY <1>2
<1>5. QED
  BY <1>1, <1>2, <1>3, <1>4, Zenon DEF J!Last

\* A container is opened.
LEMMA HoldsOpened ==
  ASSUME NEW held, NEW o, Holds(held, o), NEW mark \in Marks
  PROVE  Holds(Append(held, mark), Append(o, mark)) /\ J!Last(Append(held, mark)) = mark
<1>1. /\ o \in Seq(Marks) /\ held \in Seq(Marks \union {"bottom"})
      /\ Len(held) = Len(o) + 1 /\ held[1] = "bottom"
      /\ \A k \in 1 .. Len(o) : held[k + 1] = o[k]
  BY DEF Holds
<1>2. Append(o, mark) \in Seq(Marks) /\ Len(Append(o, mark)) = Len(o) + 1
  BY <1>1
<1>3. Append(held, mark) \in Seq(Marks \union {"bottom"}) /\ Len(Append(held, mark)) = Len(o) + 2
  BY <1>1
<1>4. Append(held, mark)[1] = "bottom" /\ Append(held, mark)[Len(o) + 2] = mark
  BY <1>1
<1>5. \A k \in 1 .. Len(o) + 1 : Append(held, mark)[k + 1] = Append(o, mark)[k]
  BY <1>1
<1>6. QED
  BY <1>2, <1>3, <1>4, <1>5 DEF Holds, J!Last

\* The container opened last is closed.
LEMMA HoldsClosed ==
  ASSUME NEW held, NEW o, Holds(held, o), o # <<>>
  PROVE  Holds(J!Front(held), J!Front(o))
<1>1. PICK N : N = Len(o) - 1
  BY Zenon
<1>2. /\ o \in Seq(Marks) /\ held \in Seq(Marks \union {"bottom"})
      /\ N \in Nat /\ Len(o) = N + 1 /\ Len(held) = N + 2 /\ held[1] = "bottom"
      /\ \A k \in 1 .. N + 1 : held[k + 1] = o[k]
  BY <1>1 DEF Holds
<1>3. PICK a, b : a = SubSeq(o, 1, N) /\ b = SubSeq(held, 1, N + 1)
  BY Zenon
<1>4. a \in Seq(Marks) /\ Len(a) = N /\ \A k \in 1 .. N : a[k] = o[k]
  BY <1>2, <1>3
<1>5. b \in Seq(Marks \union {"bottom"}) /\ Len(b) = N + 1 /\ \A k \in 1 .. N + 1 : b[k] = held[k]
  BY <1>2, <1>3
<1>6. Holds(b, a)
  BY <1>2, <1>4, <1>5 DEF Holds
<1>7. J!Front(o) = a /\ J!Front(held) = b
  <2>1. Len(o) - 1 = N /\ Len(held) - 1 = N + 1
    BY <1>2
  <2>2. QED
    BY <1>3, <2>1, Zenon DEF J!Front
<1>8. QED
  BY <1>6, <1>7, Zenon

\* What tags have been handed out, and what is on the stack.
Told(s, held, permissive) ==
  /\ s \in Seq(TagTypes)
  /\ \E f : IsOpen(f, s)
  /\ \A f : IsOpen(f, s) => Holds(held, f[Len(s)]) /\ Nest(f, s, permissive)

\* One more tag, after which the stack is rest, fits the tags s.
Fitting(s, held, tag, rest, permissive) ==
  /\ \A o : Holds(held, o) => Holds(rest, J!OpenAfter(o, tag))
  /\ tag = "key" => J!Last(held) = "{" \/ (s = <<>> /\ permissive)
  /\ tag \in {"value", "{", "["} /\ J!Last(held) = "{" => s # <<>> /\ s[Len(s)] = "key"

\* A tag that fits leaves the tags nested, and the stack telling what is open.
LEMMA ToldMore ==
  ASSUME NEW s, NEW held, NEW rest, NEW permissive, Told(s, held, permissive), NEW tag \in TagTypes,
         Fitting(s, held, tag, rest, permissive)
  PROVE  Told(Append(s, tag), rest, permissive)
<1>0. s \in Seq(TagTypes)
  BY Zenon DEF Told
<1>1. s \in Seq(TagTypes) /\ Len(s) \in Nat
  BY <1>0
<1>2. PICK t, N : t = Append(s, tag) /\ N = Len(s)
  BY Zenon
<1>3. /\ t \in Seq(TagTypes) /\ Len(t) = N + 1 /\ t[N + 1] = tag /\ N \in Nat
      /\ \A n \in 1 .. N : t[n] = s[n]
  BY <1>1, <1>2
<1>4. \E g : IsOpen(g, t)
  BY <1>1, <1>2, OpenExtends DEF Told
<1>5. ASSUME NEW g, IsOpen(g, t)
      PROVE  Holds(rest, g[Len(t)]) /\ Nest(g, t, permissive)
  <2>1. PICK f : /\ IsOpen(f, s) /\ \A n \in 0 .. N : g[n] = f[n]
                 /\ g[N + 1] = J!OpenAfter(f[N], tag)
    <3>1. IsOpen(g, Append(s, tag))
      BY <1>2, <1>5, Zenon
    <3>2. \E f : /\ IsOpen(f, s) /\ \A n \in 0 .. Len(s) : g[n] = f[n]
                 /\ g[Len(s) + 1] = J!OpenAfter(f[Len(s)], tag)
      BY <1>0, <3>1, OneMore
    <3>3. QED
      BY <1>2, <3>2, Zenon
  <2>2. Holds(held, f[N]) /\ Nest(f, s, permissive)
    BY <1>2, <2>1, Zenon DEF Told
  <2>3. Holds(rest, g[N + 1])
    BY <2>1, <2>2, Zenon DEF Fitting
  <2>4. ASSUME NEW n \in 1 .. N
        PROVE  /\ g[n] = <<>> \/ J!Last(g[n]) # "unmatched"
               /\ t[n] = "key" => Within(g, n) \/ (n = 1 /\ permissive)
               /\ Within(g, n) /\ t[n] \in {"value", "{", "["} => t[n - 1] = "key"
    <3>1. n \in 0 .. N /\ n - 1 \in 0 .. N /\ n \in DOMAIN s
      BY <1>1, <1>2, <1>3
    <3>2. g[n] = f[n] /\ g[n - 1] = f[n - 1] /\ t[n] = s[n]
      BY <1>3, <2>1, <3>1, Zenon
    <3>3. Within(g, n) <=> Within(f, n)
      BY <3>2, Zenon DEF Within
    <3>4. /\ f[n] = <<>> \/ J!Last(f[n]) # "unmatched"
          /\ s[n] = "key" => Within(f, n) \/ (n = 1 /\ permissive)
          /\ Within(f, n) /\ s[n] \in {"value", "{", "["} => s[n - 1] = "key"
      BY <2>2, <3>1, Zenon DEF Nest
    <3>5. n = 1 => ~Within(f, n)
      <4>1. 0 \in 0 .. N
        BY <1>3
      <4>2. f[0] = <<>>
        BY <1>2, <2>1, <4>1 DEF IsOpen
      <4>3. n = 1 => n - 1 = 0
        OBVIOUS
      <4>4. QED
        BY <4>2, <4>3, Zenon DEF Within
    <3>6. n # 1 => n - 1 \in 1 .. N
      BY <1>3
    <3>7. n # 1 => t[n - 1] = s[n - 1]
      BY <1>3, <3>6, Zenon
    <3>8. QED
      BY <3>2, <3>3, <3>4, <3>5, <3>7, Zenon
  <2>5. g[N] = f[N] /\ (Within(g, N + 1) <=> f[N] # <<>> /\ J!Last(f[N]) = "{")
    <3>1. N \in 0 .. N /\ (N + 1) - 1 = N
      BY <1>3
    <3>2. QED
      BY <2>1, <3>1, Zenon DEF Within
  <2>6. Within(g, N + 1) <=> J!Last(held) = "{"
    BY <2>2, <2>5, HoldsTop
  <2>7. /\ g[N + 1] = <<>> \/ J!Last(g[N + 1]) # "unmatched"
        /\ t[N + 1] = "key" => Within(g, N + 1) \/ (N + 1 = 1 /\ permissive)
        /\ Within(g, N + 1) /\ t[N + 1] \in {"value", "{", "["} => t[(N + 1) - 1] = "key"
    <3>1. g[N + 1] = <<>> \/ J!Last(g[N + 1]) # "unmatched"
      <4>1. PICK o : o = g[N + 1]
        BY Zenon
      <4>2. Holds(rest, o)
        BY <2>3, <4>1, Zenon
      <4>3. o = <<>> \/ J!Last(o) \in Marks
        BY <4>2, HoldsTop, Zenon
      <4>4. \A mark \in Marks : mark # "unmatched"
        BY DEF Marks
      <4>5. QED
        BY <4>1, <4>3, <4>4, Zenon
    <3>2. t[N + 1] = "key" => Within(g, N + 1) \/ (N + 1 = 1 /\ permissive)
      <4>1. s = <<>> => N + 1 = 1
        BY <1>2
      <4>2. QED
        BY <1>3, <2>6, <4>1, Zenon DEF Fitting
    <3>3. Within(g, N + 1) /\ t[N + 1] \in {"value", "{", "["} => t[(N + 1) - 1] = "key"
      <4>1. s # <<>> => N \in 1 .. N /\ (N + 1) - 1 = N
        BY <1>1, <1>2
      <4>2. s # <<>> => t[(N + 1) - 1] = s[N]
        BY <1>3, <4>1, Zenon
      <4>3. QED
        BY <1>2, <1>3, <2>6, <4>2, Zenon DEF Fitting
    <3>4. QED
      BY <3>1, <3>2, <3>3, Zenon
  <2>8. DOMAIN t = 1 .. N + 1 /\ \A n \in 1 .. N + 1 : n \in 1 .. N \/ n = N + 1
    BY <1>3
  <2>9. Nest(g, t, permissive)
    BY <2>4, <2>7, <2>8, Zenon DEF Nest
  <2>10. QED
    BY <1>3, <2>3, <2>9, Zenon
<1>6. QED
  BY <1>2, <1>3, <1>4, <1>5, Zenon DEF Told

\* The tags nest, the stack holds the containers that are open, and mstate is
\* its top unless a key has just been read.
JsonInv ==
  /\ Told(tags, mstack, input.permissive)
  /\ mstate = "none" => tags = <<>>
  /\ mstate = "value" => tags # <<>> /\ tags[Len(tags)] = "key"
  /\ mstate \in {"none", "value"} \/ mstate = J!Last(mstack)
  /\ ret = "eof" => Len(mstack) = 1

\* A stack that tells what is open after the tags.
LEMMA ToldHolds ==
  ASSUME NEW s, NEW held, NEW permissive, Told(s, held, permissive)
  PROVE  \E o : Holds(held, o)
BY Zenon DEF Told

\* Nothing is open at the beginning (xs_json_create).
LEMMA JsonInit == J!Init => JsonInv
<1> SUFFICES ASSUME J!Init
             PROVE  JsonInv
  OBVIOUS
<1>1. tags = <<>> /\ mstack = <<"bottom">> /\ mstate = "none" /\ ret = "ok"
  BY Zenon DEF J!Init
<1>2. tags \in Seq(TagTypes) /\ Len(tags) = 0 /\ DOMAIN tags = {}
  BY <1>1
<1>3. Holds(mstack, <<>>)
  BY <1>1 DEF Holds
<1>4. \E f : IsOpen(f, tags)
  <2> DEFINE f == [n \in 0 .. 0 |-> <<>>]
  <2>1. \A n \in 0 .. 0 : n = 0
    OBVIOUS
  <2>2. f = [n \in 0 .. 0 |-> IF n = 0 THEN <<>> ELSE J!OpenAfter(f[n - 1], tags[n])]
    BY <2>1, Zenon
  <2>3. IsOpen(f, tags)
    BY <1>2, <2>2, Zenon DEF IsOpen
  <2>4. QED
    BY <2>3, Zenon
<1>5. ASSUME NEW f, IsOpen(f, tags)
      PROVE  Holds(mstack, f[Len(tags)]) /\ Nest(f, tags, input.permissive)
  <2>1. f = [n \in 0 .. 0 |-> IF n = 0 THEN <<>> ELSE J!OpenAfter(f[n - 1], tags[n])]
    BY <1>2, <1>5, Zenon DEF IsOpen
  <2>2. 0 \in 0 .. 0
    OBVIOUS
  <2>3. f[0] = <<>>
    BY <2>1, <2>2, Zenon
  <2>4. QED
    BY <1>2, <1>3, <2>3, Zenon DEF Nest
<1>6. Told(tags, mstack, input.permissive)
  BY <1>2, <1>4, <1>5, Zenon DEF Told
<1>7. "none" # "value" /\ "ok" # "eof"
  OBVIOUS
<1>8. QED
  BY <1>1, <1>6, <1>7, Zenon DEF JsonInv

\* What is open after a tag, by the kind of tag.
LEMMA OpenAfterIs ==
  ASSUME NEW o, NEW tag \in TagTypes
  PROVE  /\ tag \in Marks => J!OpenAfter(o, tag) = Append(o, tag)
         /\ tag \in {"key", "value"} => J!OpenAfter(o, tag) = o
         /\ tag = "}" /\ o # <<>> /\ J!Last(o) = "{" => J!OpenAfter(o, tag) = J!Front(o)
         /\ tag = "]" /\ o # <<>> /\ J!Last(o) = "[" => J!OpenAfter(o, tag) = J!Front(o)
<1>1. PICK p, q, r, t : p = Append(o, tag) /\ q = J!Front(o) /\ r = Append(o, "unmatched") /\ t = J!Last(o)
  BY Zenon
<1>2. PICK v : v = J!OpenAfter(o, tag)
  BY Zenon
<1> DEFINE some == o # <<>>
<1>3. v = CASE tag \in {"{", "["} -> p
            [] tag \in {"}", "]"} -> (IF some /\ <<t, tag>> \in {<<"{", "}">>, <<"[", "]">>} THEN q ELSE r)
            [] OTHER -> o
  BY <1>1, <1>2, Zenon DEF J!OpenAfter
<1> HIDE DEF some
<1>4. /\ tag \in Marks => v = p
      /\ tag \in {"key", "value"} => v = o
      /\ tag = "}" /\ some /\ t = "{" => v = q
      /\ tag = "]" /\ some /\ t = "[" => v = q
  BY <1>3 DEF Marks
<1>5. QED
  BY <1>1, <1>2, <1>4, Zenon DEF some

\* One call of xs_json_next.
LEMMA JsonStep == JsonInv /\ [J!Next]_J!vars => JsonInv'
<1> SUFFICES ASSUME JsonInv, [J!Next]_J!vars
             PROVE  JsonInv'
  OBVIOUS
<1>1. CASE UNCHANGED J!vars
  <2>1. tags' = tags /\ mstack' = mstack /\ mstate' = mstate /\ ret' = ret /\ input' = input
    BY <1>1 DEF J!vars
  <2>2. QED
    BY <2>1, Zenon DEF JsonInv
<1>2. CASE J!Next
  <2>1. PICK r : r = J!JsonNext
    BY Zenon
  <2>2. /\ ret' = r.ret /\ mstate' = r.mstate /\ mstack' = r.mstack /\ input' = input
        /\ tags' = IF r.ret = "ok" THEN Append(tags, r.tag) ELSE tags
    BY <1>2, <2>1, Zenon DEF J!Next, J!Read
  <2>3. tags \in Seq(TagTypes) /\ \E o : Holds(mstack, o)
    BY ToldHolds, Zenon DEF JsonInv, Told
  <2>4. Len(tags) \in Nat
    BY <2>3
  <2>5. mstate = "none" => J!Last(mstack) = "bottom"
    <3>1. SUFFICES ASSUME mstate = "none" PROVE J!Last(mstack) = "bottom"
      OBVIOUS
    <3>2. tags = <<>> /\ Told(tags, mstack, input.permissive)
      BY <3>1, Zenon DEF JsonInv
    <3>3. PICK f : IsOpen(f, tags) /\ Holds(mstack, f[Len(tags)])
      BY <3>2, Zenon DEF Told
    <3>4. Len(tags) = 0 /\ 0 \in 0 .. 0
      BY <3>2
    <3>5. f = [n \in 0 .. 0 |-> IF n = 0 THEN <<>> ELSE J!OpenAfter(f[n - 1], tags[n])]
      BY <3>3, <3>4, Zenon DEF IsOpen
    <3>6. f[Len(tags)] = <<>>
      BY <3>4, <3>5, Zenon
    <3>7. Holds(mstack, <<>>)
      BY <3>3, <3>6, Zenon
    <3>8. QED
      BY <3>7, HoldsTop
  <2>6. ASSUME r.ret = "ok", r.tag \in TagTypes, Fitting(tags, mstack, r.tag, r.mstack, input.permissive),
               r.mstate # "none", r.mstate = "value" => r.tag = "key",
               r.mstate = "value" \/ r.mstate = J!Last(r.mstack)
        PROVE  JsonInv'
    <3>1. Told(Append(tags, r.tag), r.mstack, input.permissive)
      BY <2>6, ToldMore, Zenon DEF JsonInv
    <3>2. PICK t : t = Append(tags, r.tag)
      BY Zenon
    <3>3. t # <<>> /\ t[Len(t)] = r.tag
      BY <2>3, <2>6, <3>2
    <3>4. tags' = t /\ ret' = "ok" /\ mstate' = r.mstate /\ mstack' = r.mstack /\ input' = input
      BY <2>2, <2>6, <3>2, Zenon
    <3>5. Told(tags', mstack', input'.permissive)
      BY <3>1, <3>2, <3>4, Zenon
    <3>6. "ok" # "eof"
      OBVIOUS
    <3>7. QED
      BY <2>6, <3>3, <3>4, <3>5, <3>6, Zenon DEF JsonInv
  <2>7. CASE /\ r.ret # "ok" /\ r.mstate = mstate /\ r.mstack = mstack
             /\ r.ret = "eof" => Len(mstack) = 1
    BY <2>2, <2>7, Zenon DEF JsonInv
  <2>8. CASE /\ r.ret = "ok" /\ r.tag = "key" /\ r.mstate = "value" /\ r.mstack = mstack
             /\ mstate = "{" \/ (mstate = "none" /\ input.permissive)
    <3>1. "key" \in TagTypes /\ "key" \notin {"value", "{", "["} /\ "value" # "none" /\ "{" \notin {"none", "value"}
      BY DEF TagTypes, Marks
    <3>2. \A o : J!OpenAfter(o, "key") = o
      BY <3>1, OpenAfterIs
    <3>3. J!Last(mstack) = "{" \/ (tags = <<>> /\ input.permissive)
      BY <2>8, <3>1, Zenon DEF JsonInv
    <3>4. Fitting(tags, mstack, r.tag, r.mstack, input.permissive)
      BY <2>8, <3>1, <3>2, <3>3, Zenon DEF Fitting
    <3>5. QED
      BY <2>6, <2>8, <3>1, <3>4, Zenon
  <2>9. CASE /\ r.ret = "ok" /\ r.tag \in Marks /\ r.mstate = r.tag /\ r.mstack = Append(mstack, r.tag)
             /\ mstate # "{"
    <3>1. /\ r.tag \in TagTypes /\ r.tag # "key" /\ r.tag # "none" /\ r.tag # "value"
          /\ "bottom" # "{"
      BY <2>9 DEF TagTypes, Marks
    <3>2. \A o : Holds(mstack, o) => Holds(r.mstack, J!OpenAfter(o, r.tag)) /\ J!Last(r.mstack) = r.tag
      <4>1. ASSUME NEW o, Holds(mstack, o)
            PROVE  Holds(r.mstack, J!OpenAfter(o, r.tag)) /\ J!Last(r.mstack) = r.tag
        <5>1. J!OpenAfter(o, r.tag) = Append(o, r.tag)
          BY <2>9, <3>1, OpenAfterIs, Zenon
        <5>2. Holds(Append(mstack, r.tag), Append(o, r.tag)) /\ J!Last(Append(mstack, r.tag)) = r.tag
          BY <2>9, <4>1, HoldsOpened, Zenon
        <5>3. QED
          BY <2>9, <5>1, <5>2, Zenon
      <4>2. QED
        BY <4>1, Zenon
    <3>3. J!Last(mstack) = "{" => tags # <<>> /\ tags[Len(tags)] = "key"
      BY <2>5, <2>9, <3>1, Zenon DEF JsonInv
    <3>4. Fitting(tags, mstack, r.tag, r.mstack, input.permissive)
      BY <3>1, <3>2, <3>3, Zenon DEF Fitting
    <3>5. QED
      BY <2>3, <2>6, <2>9, <3>1, <3>2, <3>4, Zenon
  <2>10. CASE /\ r.ret = "ok" /\ r.mstate = J!Last(J!Front(mstack)) /\ r.mstack = J!Front(mstack)
              /\ \/ r.tag = "}" /\ J!Last(mstack) = "{"
                 \/ r.tag = "]" /\ J!Last(mstack) = "["
    <3>1. /\ r.tag \in TagTypes /\ r.tag \notin {"key", "value", "{", "["}
          /\ J!Last(mstack) \in {"{", "["} /\ "bottom" \notin {"{", "["}
          /\ \A x \in Marks \union {"bottom"} : x # "none" /\ x # "value"
      BY <2>10 DEF TagTypes, Marks
    <3>2. ASSUME NEW o, Holds(mstack, o)
          PROVE  Holds(r.mstack, J!OpenAfter(o, r.tag))
      <4>1. o # <<>> /\ J!Last(o) = J!Last(mstack)
        BY <3>1, <3>2, HoldsTop, Zenon
      <4>2. J!OpenAfter(o, r.tag) = J!Front(o)
        BY <2>10, <3>1, <4>1, OpenAfterIs, Zenon
      <4>3. Holds(J!Front(mstack), J!Front(o))
        BY <3>2, <4>1, HoldsClosed, Zenon
      <4>4. QED
        BY <2>10, <4>2, <4>3, Zenon
    <3>3. J!Last(r.mstack) \in Marks \union {"bottom"}
      <4>1. PICK o : Holds(r.mstack, o)
        BY <2>3, <3>2, Zenon
      <4>2. J!Last(r.mstack) = "bottom" \/ J!Last(r.mstack) \in Marks
        BY <4>1, HoldsTop, Zenon
      <4>3. QED
        BY <4>2, Zenon
    <3>4. Fitting(tags, mstack, r.tag, r.mstack, input.permissive)
      BY <3>1, <3>2, Zenon DEF Fitting
    <3>5. r.mstate = J!Last(r.mstack)
      BY <2>10, Zenon
    <3>6. QED
      BY <2>6, <2>10, <3>1, <3>3, <3>4, <3>5, Zenon
  <2>11. CASE /\ r.ret = "ok" /\ r.tag = "value" /\ r.mstate = J!Last(mstack) /\ r.mstack = mstack
              /\ mstate \in {"[", "value"}
    <3>1. /\ "value" \in TagTypes /\ "value" # "key" /\ "[" \notin {"none", "value", "{"}
          /\ \A x \in Marks \union {"bottom"} : x # "none" /\ x # "value"
      BY DEF TagTypes, Marks
    <3>2. \A o : J!OpenAfter(o, "value") = o
      BY <3>1, OpenAfterIs
    <3>3. J!Last(mstack) = "{" => tags # <<>> /\ tags[Len(tags)] = "key"
      BY <2>11, <3>1, Zenon DEF JsonInv
    <3>4. J!Last(mstack) \in Marks \union {"bottom"}
      <4>1. J!Last(mstack) = "bottom" \/ J!Last(mstack) \in Marks
        BY <2>3, HoldsTop, Zenon
      <4>2. QED
        BY <4>1, Zenon
    <3>5. Fitting(tags, mstack, r.tag, r.mstack, input.permissive)
      BY <2>11, <3>1, <3>2, <3>3, Zenon DEF Fitting
    <3>6. QED
      BY <2>6, <2>11, <3>1, <3>4, <3>5, Zenon
  <2>12. QED
    BY <2>1, <2>7, <2>8, <2>9, <2>10, <2>11, CallReturns
<1>3. QED
  BY <1>1, <1>2, Zenon

\* What nests for what Told knows is open nests for Open.
LEMMA JsonSafe == JsonInv => J!TagsNested
<1> SUFFICES ASSUME JsonInv
             PROVE  J!TagsNested
  OBVIOUS
<1>1. Told(tags, mstack, input.permissive)
  BY Zenon DEF JsonInv
<1>2. IsOpen(J!Open, tags)
  <2>1. \E f : IsOpen(f, tags)
    BY <1>1, Zenon DEF Told
  <2>2. QED
    BY <2>1, Zenon DEF IsOpen, J!Open
<1>3. PICK f : f = J!Open
  BY Zenon
<1>4. Holds(mstack, f[Len(tags)]) /\ Nest(f, tags, input.permissive)
  BY <1>1, <1>2, <1>3, Zenon DEF Told
<1>5. ret = "eof" => f[Len(tags)] = <<>>
  BY <1>4, HoldsTop, Zenon DEF JsonInv
<1>6. QED
  BY <1>3, <1>4, <1>5, Zenon DEF J!TagsNested, J!InObject, Nest, Within

\* Whatever the text, the tags that xs_json_next hands out nest.
THEOREM JsonTagsNest == J!Spec => []TagsNested
<1>1. JsonInv => TagsNested
  BY JsonSafe, Zenon DEF TagsNested
<1>2. QED
  BY <1>1, JsonInit, JsonStep, PTL DEF J!Spec
=============================================================================
