----------------------------- MODULE LossyQueue -----------------------------
(***************************************************************************)
(* What a room's event ring promises: events are fired in the order they   *)
(* were accepted, each at most once, and an event is lost only in an       *)
(* overflow, which costs two, the oldest waiting and the one offered, or   *)
(* when the room is gone.  Events are numbered by the order in which they  *)
(* are offered.                                                            *)
(*                                                                         *)
(* EventRing implements this specification.                                *)
(***************************************************************************)
EXTENDS Integers, Sequences

CONSTANT Capacity  \* events that may wait

VARIABLES offered,   \* events offered so far
          waiting,   \* the accepted events, oldest first
          inflight,  \* the event taken out and not fired yet, or 0
          lastFired  \* the last event fired, or 0

vars == <<offered, waiting, inflight, lastFired>>

Init ==
  /\ offered = 0
  /\ waiting = << >>
  /\ inflight = 0
  /\ lastFired = 0

Accept ==
  /\ Len(waiting) < Capacity
  /\ offered' = offered + 1
  /\ waiting' = Append(waiting, offered')
  /\ UNCHANGED <<inflight, lastFired>>

Overflow ==
  /\ Len(waiting) = Capacity
  /\ offered' = offered + 1
  /\ waiting' = Tail(waiting)
  /\ UNCHANGED <<inflight, lastFired>>

Take ==
  /\ waiting # << >>
  /\ inflight = 0
  /\ inflight' = Head(waiting)
  /\ waiting' = Tail(waiting)
  /\ UNCHANGED <<offered, lastFired>>

Fire ==
  /\ inflight # 0
  /\ lastFired' = inflight
  /\ inflight' = 0
  /\ UNCHANGED <<offered, waiting>>

Next == Accept \/ Overflow \/ Take \/ Fire

Spec == Init /\ [][Next]_vars
=============================================================================
