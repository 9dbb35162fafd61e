------------------------------- MODULE XsSort -------------------------------
(***************************************************************************)
(* xs_ptr_qsort of xs_arr.h, the sort behind the columns of a directory    *)
(* listing: a quicksort with a stack of its own, which leaves short        *)
(* segments to a bubble (insertion) sort.  The elements are the numbers of *)
(* their first positions and key says how the compare procedure sees them. *)
(* One action is one pass through a loop of the code.                      *)
(***************************************************************************)
EXTENDS Integers, Sequences

CONSTANTS
  Count,       \* elements
  Keys,        \* what the compare procedure tells apart
  BubThresh,   \* segments shorter than this are not split (8)
  StackSize    \* entries of the stack, two for a segment (64)

ASSUME SortAssumption ==
  /\ Count \in Nat /\ Keys \subseteq Int
  /\ BubThresh \in Nat /\ BubThresh >= 3
  /\ StackSize \in Nat

Pos == 0 .. Count - 1

VARIABLES
  key,            \* element -> key, fixed
  base,           \* position -> element
  stack,          \* segments put aside: start, limit
  start, limit,   \* the segment being sorted
  i, j,
  pc              \* "split", "bubble", "part", "done", "overflow"

vars == <<key, base, stack, start, limit, i, j, pc>>

\* Every element at its first position, whatever the keys are.
Init ==
  /\ key \in [Pos -> Keys]
  /\ base = [p \in Pos |-> p]
  /\ stack = <<>>
  /\ start = 0 /\ limit = Count
  /\ i = 0 /\ j = 0
  /\ pc = "split"

\* The comparator is consistent, as for names and sizes; those for dates say that
\* either of two equal ones comes after the other (xs_server.h 145-146).
KeyAt(b, p) == key[b[p]]
Swap(b, p, q) == [b EXCEPT ![p] = b[q], ![q] = b[p]]
SwapIf(cond, b, p, q) == IF cond THEN Swap(b, p, q) ELSE b

\* The turn of start + 1 .. limit - 1 to be inserted.
BeginBubble ==
  /\ pc = "split" /\ limit - start < BubThresh
  /\ j' = start /\ i' = start + 1
  /\ pc' = "bubble"
  /\ UNCHANGED <<key, base, stack, start, limit>>

\* A mutant: the element never comes to stand at start.
BubbleStopsAboveStart ==
  LET less == KeyAt(base, j + 1) < KeyAt(base, j)
  IN  /\ pc = "bubble" /\ i < limit
      /\ base' = SwapIf(less, base, j, j + 1)
      /\ IF less /\ j > start + 1 THEN j' = j - 1 /\ i' = i
                                  ELSE j' = i /\ i' = i + 1
      /\ UNCHANGED <<key, stack, start, limit, pc>>

\* One comparison; the element goes on down, or the next one has its turn.
BubbleStep ==
  LET less == KeyAt(base, j + 1) < KeyAt(base, j)
  IN  /\ pc = "bubble" /\ i < limit
      /\ base' = SwapIf(less, base, j, j + 1)
      /\ IF less /\ j # start THEN j' = j - 1 /\ i' = i
                              ELSE j' = i /\ i' = i + 1
      /\ UNCHANGED <<key, stack, start, limit, pc>>

PopSegment ==
  /\ pc = "bubble" /\ i >= limit /\ stack # <<>>
  /\ start' = stack[Len(stack)][1] /\ limit' = stack[Len(stack)][2]
  /\ stack' = SubSeq(stack, 1, Len(stack) - 1)
  /\ pc' = "split"
  /\ UNCHANGED <<key, base, i, j>>

Finish ==
  /\ pc = "bubble" /\ i >= limit /\ stack = <<>>
  /\ pc' = "done"
  /\ UNCHANGED <<key, base, stack, start, limit, i, j>>

\* The element in the middle comes to start, and is put in order with those at
\* the two ends, so that start holds the pivot and the ends stop the scans.
MedianOfThree(b, s, m, l) ==
  LET b1 == Swap(b, m, s)
      b2 == SwapIf(KeyAt(b1, l - 1) < KeyAt(b1, s + 1), b1, s + 1, l - 1)
      b3 == SwapIf(KeyAt(b2, l - 1) < KeyAt(b2, s), b2, s, l - 1)
  IN  SwapIf(KeyAt(b3, s) < KeyAt(b3, s + 1), b3, s + 1, s)

ChoosePivot ==
  /\ pc = "split" /\ limit - start >= BubThresh
  /\ base' = MedianOfThree(base, start, start + (limit - start) \div 2, limit)
  /\ i' = start + 1 /\ j' = limit - 1
  /\ pc' = "part"
  /\ UNCHANGED <<key, stack, start, limit>>

\* Where the two scans stop: the next element upwards that is not below the
\* pivot, the next one downwards that is not above it.
StopsUp(p) ==
  /\ p \in i + 1 .. limit
  /\ p < limit => KeyAt(base, p) >= KeyAt(base, start)
  /\ \A q \in i + 1 .. p - 1 : KeyAt(base, q) < KeyAt(base, start)
StopsDown(p) ==
  /\ p \in start .. j - 1
  /\ p > start => KeyAt(base, p) <= KeyAt(base, start)
  /\ \A q \in p + 1 .. j - 1 : KeyAt(base, q) > KeyAt(base, start)

\* A mutant: while in place of do, as if the two just exchanged were new.
ExchangeInPlace ==
  /\ pc = "part"
  /\ KeyAt(base, i) >= KeyAt(base, start) /\ KeyAt(base, j) <= KeyAt(base, start)
  /\ base' = Swap(base, i, j)
  /\ UNCHANGED <<key, stack, start, limit, i, j, pc>>

Exchange ==
  /\ pc = "part"
  /\ \E p \in i + 1 .. limit, q \in start .. j - 1 :
       /\ StopsUp(p) /\ StopsDown(q) /\ p <= q
       /\ base' = Swap(base, p, q)
       /\ i' = p /\ j' = q
  /\ UNCHANGED <<key, stack, start, limit, pc>>

\* A mutant: the smaller part to the stack.
PutSmallerAside ==
  /\ pc = "part"
  /\ \E p \in i + 1 .. limit, q \in start .. j - 1 :
       /\ StopsUp(p) /\ StopsDown(q) /\ p > q
       /\ base' = Swap(base, start, q)
       /\ IF q - start <= limit - p
            THEN stack' = Append(stack, <<start, q>>) /\ start' = p /\ limit' = limit
            ELSE stack' = Append(stack, <<p, limit>>) /\ start' = start /\ limit' = q
       /\ pc' = IF 2 * Len(stack') >= StackSize THEN "overflow" ELSE "split"
  /\ UNCHANGED <<key, i, j>>

\* The scans have crossed: the pivot goes between the parts, the larger part to
\* the stack, and the smaller one is next.
PlacePivot ==
  /\ pc = "part"
  /\ \E p \in i + 1 .. limit, q \in start .. j - 1 :
       /\ StopsUp(p) /\ StopsDown(q) /\ p > q
       /\ base' = Swap(base, start, q)
       /\ IF q - start > limit - p
            THEN stack' = Append(stack, <<start, q>>) /\ start' = p /\ limit' = limit
            ELSE stack' = Append(stack, <<p, limit>>) /\ start' = start /\ limit' = q
       /\ pc' = IF 2 * Len(stack') >= StackSize THEN "overflow" ELSE "split"
  /\ UNCHANGED <<key, i, j>>

Next ==
  \/ BeginBubble \/ BubbleStep \/ PopSegment \/ Finish
  \/ ChoosePivot \/ Exchange \/ PlacePivot

Spec == Init /\ [][Next]_vars /\ WF_vars(Next)

-----------------------------------------------------------------------------
Ordered(p, q) == KeyAt(base, p) <= KeyAt(base, q)

(***************************************************************************)
(* When the sort returns 0 every element is there once, in the order of    *)
(* the keys (xs_ptr_qsort, lines 178 to 269).                              *)
(***************************************************************************)
Permutation ==
  /\ base \in [Pos -> Pos]
  /\ \A p, q \in Pos : base[p] = base[q] => p = q

SortedWhenDone ==
  pc = "done" => Permutation /\ \A p, q \in Pos : p < q => Ordered(p, q)

(***************************************************************************)
(* "stack - since qsort splits, this should be large enough forever?"      *)
(* (line 185): as the smaller part comes first, every segment on the stack *)
(* is at least as large as all that follow it and the current one, so each *)
(* entry halves what is left, and line 263 never gives up.                 *)
(***************************************************************************)
SizesFrom(k) ==
  LET rest[n \in k .. Len(stack) + 1] ==
        IF n > Len(stack) THEN limit - start ELSE stack[n][2] - stack[n][1] + rest[n + 1]
  IN  rest[k]

StackSuffices ==
  /\ pc # "overflow"
  /\ \A k \in DOMAIN stack :
       pc # "done" => stack[k][2] - stack[k][1] >= SizesFrom(k + 1)

\* What enough is: with d segments put aside the current one has at most most[d]
\* elements, as the smaller of two parts without the pivot has less than half;
\* and when the stack can hold no more (Segments), it is too short to be split.
Segments == (StackSize - 1) \div 2
EnoughStack ==
  /\ StackSize > 0
  /\ \E most \in [0 .. Segments -> 0 .. Count] :
       /\ most[0] = Count
       /\ \A d \in 1 .. Segments : most[d - 1] <= 2 * most[d] + 2
       /\ most[Segments] < BubThresh

(***************************************************************************)
(* The inductive invariant behind SortedWhenDone.  Two positions that are  *)
(* not in one segment still to be sorted are in order; the segments are    *)
(* disjoint; BubbleOK and PartOK say how far the current one is.           *)
(***************************************************************************)
TypeOK ==
  /\ key \in [Pos -> Int]
  /\ Permutation
  /\ stack \in Seq(Nat \X Nat)
  /\ start \in 0 .. Count /\ limit \in start .. Count
  /\ i \in Nat /\ j \in Int
  /\ pc \in {"split", "bubble", "part", "done", "overflow"}

Inside(p, s, l) == s <= p /\ p < l
StackInside(p, k) == Inside(p, stack[k][1], stack[k][2])

SegmentsOK ==
  /\ \A k \in 1 .. Len(stack) : stack[k][1] <= stack[k][2] /\ stack[k][2] <= Count
  /\ \A k \in 1 .. Len(stack) : \A p \in Pos : StackInside(p, k) => ~Inside(p, start, limit)
  /\ \A k, n \in 1 .. Len(stack) : \A p \in Pos : StackInside(p, k) /\ StackInside(p, n) => k = n

\* Two positions that wait to be sorted together.
Together(p, q) ==
  \/ Inside(p, start, limit) /\ Inside(q, start, limit)
  \/ \E k \in 1 .. Len(stack) : StackInside(p, k) /\ StackInside(q, k)

OthersOrdered ==
  pc # "done" => \A p, q \in Pos : p < q => Ordered(p, q) \/ Together(p, q)

\* start .. i is in order but for the element at j + 1, which is being inserted.
BubbleOK ==
  pc = "bubble" =>
    /\ start <= j /\ j < i /\ (i <= limit \/ i = start + 1)
    /\ i >= limit => j + 1 = i
    /\ \A p, q \in Pos :
         start <= p /\ p < q /\ q <= i /\ q < limit /\ q # j + 1 => Ordered(p, q)

\* What the scans have passed is on the right side of the pivot.
PartOK ==
  pc = "part" =>
    /\ start < i /\ i <= j /\ j < limit
    /\ \A p \in Pos : start < p /\ p <= i => Ordered(p, start)
    /\ \A p \in Pos : j <= p /\ p < limit => Ordered(start, p)

DoneOK == pc = "done" => \A p, q \in Pos : p < q => Ordered(p, q)

IInv == TypeOK /\ SegmentsOK /\ OthersOrdered /\ BubbleOK /\ PartOK /\ DoneOK
=============================================================================
