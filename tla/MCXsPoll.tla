------------------------------ MODULE MCXsPoll ------------------------------
(* Scenarios for XsPoll: a root without room for connections and as many   *)
(* of them as fill the accept queue; a listener that comes after a         *)
(* connection; a root with room, which takes elements from the pool.       *)
EXTENDS XsPoll

CONSTANTS l1, l2

MCScenarios == {
  [listen |-> <<l1>>, total |-> 1, clients |-> 4, quits |-> 0],
  [listen |-> <<l1, l2>>, total |-> 1, clients |-> 2, quits |-> 1],
  [listen |-> <<l1>>, total |-> 2, clients |-> 3, quits |-> 2]}
=============================================================================
