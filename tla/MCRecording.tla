---------------------------- MODULE MCRecording -----------------------------
(* Recording for TLC: two recordings and a thread that says norecord.      *)
EXTENDS Recording
CONSTANTS r1, r2, norecord
=============================================================================
