---------------------------- MODULE MCEventRing ----------------------------
(* EventRing for TLC: two queueing threads and a ring of three slots, so   *)
(* that two events fill it.                                                *)
EXTENDS EventRing
CONSTANTS t1, t2
=============================================================================
