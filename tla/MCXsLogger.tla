----------------------------- MODULE MCXsLogger -----------------------------
(***************************************************************************)
(* Scenarios for XsLogger: queues with room for one buffer, which are      *)
(* full at once; for two, so that the second may be handed over before the *)
(* thread created for the first begins, and q gets two writers; and one    *)
(* thread that logs as many lines as fill such a queue.                    *)
(***************************************************************************)
EXTENDS XsLogger

CONSTANTS a1, a2

MCScenarios == {
  [space |-> 1, appenders |-> {a1, a2}, lines |-> 2, destroyed |-> TRUE],
  [space |-> 2, appenders |-> {a1, a2}, lines |-> 2, destroyed |-> FALSE],
  [space |-> 2, appenders |-> {a1}, lines |-> 3, destroyed |-> TRUE]}
=============================================================================
