---------------------------- MODULE MCStateStore ----------------------------
(***************************************************************************)
(* StateStore for TLC: a few writers in one or two processes.              *)
(***************************************************************************)
EXTENDS StateStore, TLC

Symmetry == Permutations(Writer) \union Permutations(Process)
=============================================================================
