--------------------------- MODULE MCXsFileTable ----------------------------
(***************************************************************************)
(* Instances of XsFileTable for TLC.                                       *)
(***************************************************************************)
EXTENDS XsFileTable, TLC

ThreadSymmetry == Permutations(Threads) \union Permutations(Paths)
=============================================================================
