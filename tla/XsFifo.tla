------------------------------- MODULE XsFifo -------------------------------
(***************************************************************************)
(* What xs_queue promises its callers: a bounded first-in first-out        *)
(* buffer.  An accepted element is handed to exactly one caller of         *)
(* xs_queue_pop, in the order of acceptance, and never more than Capacity  *)
(* elements wait at a time.  XsQueue is shown to implement this module.    *)
(***************************************************************************)
EXTENDS Naturals, Sequences

CONSTANTS
  Item,      \* the elements that can be pushed
  Capacity   \* how many of them may wait at once (qSpace - 1)

VARIABLES
  sent,      \* every element accepted so far, in the order of acceptance
  queue,     \* the elements waiting
  got        \* every element handed out so far, in the order of hand-out

vars == <<sent, queue, got>>

Init ==
  /\ sent = <<>>
  /\ queue = <<>>
  /\ got = <<>>

Enqueue(d) ==
  /\ Len(queue) < Capacity
  /\ sent' = Append(sent, d)
  /\ queue' = Append(queue, d)
  /\ UNCHANGED got

Dequeue ==
  /\ queue # <<>>
  /\ got' = Append(got, Head(queue))
  /\ queue' = Tail(queue)
  /\ UNCHANGED sent

Next == Dequeue \/ \E d \in Item : Enqueue(d)

Spec == Init /\ [][Next]_vars
=============================================================================
