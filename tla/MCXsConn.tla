------------------------------ MODULE MCXsConn ------------------------------
(* Scripts of messages for XsConn. *)
EXTENDS XsConn

Msg(kind) == [kind |-> kind, len |-> 0, keep |-> TRUE, op |-> 1, chunks |-> <<>>]
WithLen(kind, n) == [Msg(kind) EXCEPT !.len = n]
Fr(op, n) == [Msg("frame") EXCEPT !.op = op, !.len = n]

MCScripts == {
  <<WithLen("post", 3), WithLen("get", 4), Msg("missing")>>,
  <<[Msg("chunked") EXCEPT !.chunks = <<2, 1>>], Msg("missing"), WithLen("post", 1)>>,
  <<Msg("missing"), [WithLen("get", 3) EXCEPT !.keep = FALSE]>>,
  <<Msg("upgrade"), Fr(1, 3), Fr(9, 0)>>,
  <<Msg("upgrade"), Fr(2, 1), Fr(0, 1)>>}

\* They are as NotCutOff is meant for, and as NobodyCutOff assumes.
ASSUME InstanceIsOrderly == MaxHeader >= 3 /\ \A s \in MCScripts : Orderly(s)
=============================================================================
