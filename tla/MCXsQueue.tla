----------------------------- MODULE MCXsQueue ------------------------------
(***************************************************************************)
(* Instances of XsQueue for TLC.                                           *)
(***************************************************************************)
EXTENDS XsQueue, TLC

\* Threads of a kind are interchangeable.
ThreadSymmetry == Permutations(Producers) \union Permutations(Consumers)
=============================================================================
