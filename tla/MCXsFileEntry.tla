--------------------------- MODULE MCXsFileEntry ----------------------------
(***************************************************************************)
(* Instances of XsFileEntry for TLC.                                       *)
(***************************************************************************)
EXTENDS XsFileEntry, TLC

ThreadSymmetry == Permutations(Servers)
=============================================================================
