------------------------ MODULE MCCutoverRollback ------------------------
(* Model values of CutoverRollback for TLC.                                 *)
EXTENDS CutoverRollback, TLC

Symmetry == Permutations(Dirs)
=============================================================================
