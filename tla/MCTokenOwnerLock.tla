---------------------------- MODULE MCTokenOwnerLock ----------------------------
(* Small instances of TokenOwnerLock. *)
EXTENDS TokenOwnerLock, TLC

Symmetry == Permutations(Procs)
================================================================================
