---------------------------- MODULE MCSessionLedger ----------------------------
(* Two jobs, two attempt ids and two messages: a job can be retried by a second *)
(* attempt, and two jobs can draw the ids in either order.                      *)
EXTENDS SessionLedger, TLC

CONSTANTS j1, j2, a1, a2, m1, m2

MCJobs == {j1, j2}
MCAttempts == {a1, a2}
MCMessages == {m1, m2}

\* ids are opaque: nothing orders jobs, attempts or messages
Symmetry == Permutations(MCJobs) \cup Permutations(MCAttempts) \cup Permutations(MCMessages)
================================================================================
