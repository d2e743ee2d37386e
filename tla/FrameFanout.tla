---------------------------- MODULE FrameFanout ----------------------------
(***************************************************************************)
(* What the audio ring promises to its listeners, with the ring left out:  *)
(* frames are published one after the other, and every listener hears      *)
(* whole frames, in order, skipping frames only when it had fallen at      *)
(* least MaxLag frames behind, until it joins again or is put elsewhere.   *)
(* A frame is its sequence number.                                         *)
(*                                                                         *)
(* BroadcastRing implements this specification (FanoutImplemented there).  *)
(***************************************************************************)
EXTENDS Integers

CONSTANTS Listeners,  \* members that may hold the listener role
          MaxLag      \* profile max-lag-frames

VARIABLES published,  \* how many frames have been published
          cursor,     \* [Listeners -> next frame the listener wants]
          heard       \* [Listeners -> frame last written to its channel]

vars == <<published, cursor, heard>>

Silence == -1

Init ==
  /\ published = 0
  /\ cursor = [l \in Listeners |-> 0]
  /\ heard = [l \in Listeners |-> Silence]

(* The producer publishes the next frame.                                  *)
Publish ==
  /\ published' = published + 1
  /\ UNCHANGED <<cursor, heard>>

(* A listener (re)joins somewhere in what has been published.              *)
Join(l) ==
  /\ \E c \in 0 .. published : cursor' = [cursor EXCEPT ![l] = c]
  /\ heard' = [heard EXCEPT ![l] = Silence]
  /\ UNCHANGED published

(* A listener that stays is put elsewhere in what has been published.      *)
Relist(l) ==
  /\ \E c \in 0 .. published : cursor' = [cursor EXCEPT ![l] = c]
  /\ UNCHANGED <<published, heard>>

(* A listener hears frame n, published already: the next one, or a later   *)
(* one if it was MaxLag behind.                                            *)
Hear(l) ==
  /\ \E n \in cursor[l] .. published - 1 :
       /\ n = cursor[l] \/ n - cursor[l] >= MaxLag
       /\ heard' = [heard EXCEPT ![l] = n]
       /\ cursor' = [cursor EXCEPT ![l] = n + 1]
  /\ UNCHANGED published

(* A listener that has heard everything hears silence.                     *)
Idle(l) ==
  /\ heard' = [heard EXCEPT ![l] = Silence]
  /\ UNCHANGED <<published, cursor>>

Next ==
  \/ Publish
  \/ \E l \in Listeners : Join(l) \/ Relist(l) \/ Hear(l) \/ Idle(l)

Spec == Init /\ [][Next]_vars
=============================================================================
