------------------------------ MODULE MCHostBridge ------------------------------
(* Two messages: one can be on its way to the host while the next is posted. *)
EXTENDS HostBridge

CONSTANTS m1, m2

MCMessages == {m1, m2}
================================================================================
