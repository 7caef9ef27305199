---------------------------- MODULE MCDiscordService ----------------------------
(* Small instances of DiscordService for TLC. *)
EXTENDS DiscordService, TLC

CONSTANTS j1, j2, m1, m2, a1, a2, s1

\* both messages come from one conversation
OneScope == m1 :> s1 @@ m2 :> s1

Symmetry == Permutations(Jobs) \cup Permutations(Attempts) \cup Permutations(Messages)
=================================================================================
