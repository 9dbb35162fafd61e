---------------------------- MODULE XsByteStream ----------------------------
(***************************************************************************)
(* What the write side of a connection promises: the bytes a caller of     *)
(* xs_conn_write was told are taken go to the socket in the order in which *)
(* they were taken, none twice and none left out; what the socket has not  *)
(* taken yet waits.  The promise ends (intact becomes FALSE) when the      *)
(* write cache reaches its limit; what comes then is not said.             *)
(* XsConn is shown to implement this module.                               *)
(***************************************************************************)
EXTENDS Sequences, SequencesExt

VARIABLES
  accepted,  \* everything taken from callers so far
  wire,      \* what the socket has taken
  waiting,   \* what has been accepted and not handed to the socket
  intact     \* whether the promise still stands

vars == <<accepted, wire, waiting, intact>>

Init ==
  /\ accepted = <<>> /\ wire = <<>> /\ waiting = <<>>
  /\ intact = TRUE

\* One call accepts some data, hands some of what waits to the socket, or both.
AcceptOrTransmit ==
  /\ intact /\ intact'
  /\ IsPrefix(accepted, accepted')
  /\ IsPrefix(wire, wire')
  /\ accepted' = wire' \o waiting'

Overflow == intact /\ ~intact'

AnythingGoes == ~intact /\ ~intact'

Next == AcceptOrTransmit \/ Overflow \/ AnythingGoes

Spec == Init /\ [][Next]_vars
=============================================================================
