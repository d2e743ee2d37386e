----------------------------- MODULE MCPlayback -----------------------------
(* Playback for TLC: a caller and a buffer of one frame.                  *)
EXTENDS Playback
CONSTANTS c1
=============================================================================
