----------------------------- MODULE MCPostLock -----------------------------
(***************************************************************************)
(* The post lock on small instances.                                       *)
(***************************************************************************)
EXTENDS PostLock, TLC

SessionSymmetry == Permutations(Sessions)
=============================================================================
