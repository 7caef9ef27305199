------------------------- MODULE MCBackendAttempt -------------------------
(* Two hosts that may claim the task, one after the other or at once.       *)
EXTENDS BackendAttempt

CONSTANTS h1, h2
=============================================================================
