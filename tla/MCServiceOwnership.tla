----------------------- MODULE MCServiceOwnership -----------------------
(* Model values for TLC. *)
EXTENDS ServiceOwnership, TLC

CONSTANTS t1, t2
Credentials == Permutations({t1, t2})
=============================================================================
