-------------------------- MODULE MCBroadcastRing --------------------------
(* BroadcastRing for TLC: a listener the ring is large enough for, and one *)
(* that can be held up in the middle of a read for longer than the ring.   *)
EXTENDS BroadcastRing
CONSTANTS prompt, slow
MCStall == [l \in Listeners |-> IF l = prompt THEN 1 ELSE 3]
=============================================================================
