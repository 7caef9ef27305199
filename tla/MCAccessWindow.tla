---------------------------- MODULE MCAccessWindow ----------------------------
(* The configurations the owner writes in the checked instance. *)
EXTENDS AccessWindow, TLC

\* Writable in a mutation window, on a backend with network access.
Windowed == [backend |-> "codex", trusted |-> FALSE, network |-> TRUE,
             allowed |-> {"reply", "write", "execute"}, approval |-> {},
             participant |-> {"reply", "write", "execute"}, operator |-> TRUE,
             hours |-> TRUE, policy |-> FALSE, autoRetry |-> TRUE]
\* The participant may only read; writing needs an approval nobody gives.
ReadOnly == [Windowed EXCEPT !.approval = {"write"}]
\* The same rights under a project policy.
Policed == [Windowed EXCEPT !.policy = TRUE]
\* Another backend, a trusted profile, no window and no automatic recovery.
Trusted == [Windowed EXCEPT !.backend = "grok", !.trusted = TRUE, !.hours = FALSE,
                            !.autoRetry = FALSE]

CONSTANT a1

MCConfigs == {Windowed, ReadOnly, Policed, Trusted}
=============================================================================
