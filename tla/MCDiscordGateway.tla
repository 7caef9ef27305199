---------------------------- MODULE MCDiscordGateway ----------------------------
(* Small instances of DiscordGateway. *)
EXTENDS DiscordGateway, TLC

Symmetry == Permutations(Conns) \cup Permutations(Messages)
================================================================================
