----------------------------- MODULE EventRing -----------------------------
(***************************************************************************)
(* The event ring of one room (broadcast_events.c): any thread of the room *)
(* queues events under event_mutex, the module's one emitter thread sweeps *)
(* the rooms of the hash, takes the events out one by one and fires them   *)
(* with the mutex released.  A destroyer marks the room, takes it out of   *)
(* the hash and fires the room's last event itself.                        *)
(*                                                                         *)
(* An event is abstracted to the number of the offer it came from.         *)
(***************************************************************************)
EXTENDS Integers, Sequences

CONSTANTS Threads,    \* threads that queue events
          Size,       \* b->event_ring_size
          MaxOffers   \* bound: events offered

ASSUME EventAssumption ==
  /\ Size \in Nat \ {0, 1}
  /\ MaxOffers \in Nat

VARIABLES slots,      \* b->event_ring
          prod,       \* b->event_prod_idx
          cons,       \* b->event_cons_idx
          dropped,    \* b->stat_events_dropped
          destroyed,  \* b->destroyed
          hashed,     \* the room is in broadcast_hash
          closed,     \* the DESTROY event has been fired
          qpc,        \* each queueing thread's next step
          epc,        \* the emitter's next step
          copy,       \* the emitter's copy of an event
          offered,    \* history: events offered to the ring
          fired,      \* history: how many the emitter fired
          lastFired   \* history: the last one it fired

ring == <<slots, prod, cons, dropped>>
room == <<destroyed, hashed, closed>>
history == <<offered, fired, lastFired>>
vars == <<ring, room, qpc, epc, copy, history>>

NoEvent == 0
Index(i) == i % Size

Init ==
  /\ slots = [i \in 0 .. Size - 1 |-> NoEvent]
  /\ prod = 0 /\ cons = 0 /\ dropped = 0
  /\ destroyed = FALSE /\ hashed = TRUE /\ closed = FALSE
  /\ qpc = [t \in Threads |-> "idle"]
  /\ epc = "idle"
  /\ copy = NoEvent
  /\ offered = 0 /\ fired = 0 /\ lastFired = 0
-----------------------------------------------------------------------------
(* broadcast_enqueue_event tests b->destroyed before it locks the mutex.   *)
CheckAlive(t) ==
  /\ qpc[t] = "idle"
  /\ ~ destroyed
  /\ qpc' = [qpc EXCEPT ![t] = "checked"]
  /\ UNCHANGED <<ring, room, epc, copy, history>>

(* prod - cons >= sz - 1 on unsigned indices.                              *)
Full == prod < cons \/ prod - cons >= Size - 1

Queue(t) ==
  /\ qpc[t] = "checked"
  /\ offered < MaxOffers
  /\ ~ Full
  /\ slots' = [slots EXCEPT ![Index(prod)] = offered + 1]
  /\ prod' = prod + 1
  /\ offered' = offered + 1
  /\ qpc' = [qpc EXCEPT ![t] = "idle"]
  /\ UNCHANGED <<cons, dropped, room, epc, copy, fired, lastFired>>

(* Fault: the overflow is taken back from the count.                       *)
DropOldestUncounts(t) ==
  /\ qpc[t] = "checked"
  /\ offered < MaxOffers
  /\ Full
  /\ dropped' = dropped - 1
  /\ cons' = cons + 1
  /\ offered' = offered + 1
  /\ qpc' = [qpc EXCEPT ![t] = "idle"]
  /\ UNCHANGED <<slots, prod, room, epc, copy, fired, lastFired>>

(* Fault: a full ring refuses the new event and keeps its oldest.          *)
DropNewest(t) ==
  /\ qpc[t] = "checked"
  /\ offered < MaxOffers
  /\ Full
  /\ dropped' = dropped + 1
  /\ offered' = offered + 1
  /\ qpc' = [qpc EXCEPT ![t] = "idle"]
  /\ UNCHANGED <<slots, prod, cons, room, epc, copy, fired, lastFired>>

(* A full ring skips its oldest event, and returns without queueing the    *)
(* new one.                                                                *)
DropOldest(t) ==
  /\ qpc[t] = "checked"
  /\ offered < MaxOffers
  /\ Full
  /\ dropped' = dropped + 1
  /\ cons' = cons + 1
  /\ offered' = offered + 1
  /\ qpc' = [qpc EXCEPT ![t] = "idle"]
  /\ UNCHANGED <<slots, prod, room, epc, copy, fired, lastFired>>
-----------------------------------------------------------------------------
(* The emitter, which holds hash_rwlock for reading throughout a sweep.    *)

SweepBegin ==
  /\ epc = "idle"
  /\ hashed
  /\ ~ destroyed
  /\ epc' = "drain"
  /\ UNCHANGED <<ring, room, qpc, copy, history>>

TakeEvent ==
  /\ epc = "drain"
  /\ cons < prod
  /\ copy' = slots[Index(cons)]
  /\ cons' = cons + 1
  /\ epc' = "fire"
  /\ UNCHANGED <<slots, prod, dropped, room, qpc, history>>

FireEvent ==
  /\ epc = "fire"
  /\ lastFired' = copy
  /\ fired' = fired + 1
  /\ copy' = NoEvent
  /\ epc' = "drain"
  /\ UNCHANGED <<ring, room, qpc, offered>>

(* Fault: a sweep ends with events waiting.                                *)
SweepEndEarly ==
  /\ epc = "drain"
  /\ epc' = "idle"
  /\ UNCHANGED <<ring, room, qpc, copy, history>>

SweepEnd ==
  /\ epc = "drain"
  /\ cons >= prod
  /\ epc' = "idle"
  /\ UNCHANGED <<ring, room, qpc, copy, history>>

Emitter == SweepBegin \/ TakeEvent \/ FireEvent \/ SweepEnd
-----------------------------------------------------------------------------
(* The steps of broadcast_destroy_ex the ring sees.                        *)

MarkDestroyed ==
  /\ ~ destroyed
  /\ destroyed' = TRUE
  /\ UNCHANGED <<ring, hashed, closed, qpc, epc, copy, history>>

(* Fault: the room is taken out without the lock.                          *)
UnhashUnlocked ==
  /\ destroyed
  /\ hashed
  /\ hashed' = FALSE
  /\ UNCHANGED <<ring, destroyed, closed, qpc, epc, copy, history>>

(* hash_rwlock for writing: no sweep is under way.                         *)
Unhash ==
  /\ destroyed
  /\ hashed
  /\ epc = "idle"
  /\ hashed' = FALSE
  /\ UNCHANGED <<ring, destroyed, closed, qpc, epc, copy, history>>

FireDestroy ==
  /\ ~ hashed
  /\ ~ closed
  /\ closed' = TRUE
  /\ UNCHANGED <<ring, destroyed, hashed, qpc, epc, copy, history>>

Destroyer == MarkDestroyed \/ Unhash \/ FireDestroy

Next ==
  \/ \E t \in Threads : CheckAlive(t) \/ Queue(t) \/ DropOldest(t)
  \/ Emitter
  \/ Destroyer

(* The emitter loops for as long as the module is loaded; a destroy that   *)
(* has started goes on.  Nothing forces a thread to queue an event or a    *)
(* destroy to start.                                                       *)
Fairness ==
  /\ WF_vars(Emitter)
  /\ WF_vars(Unhash)
  /\ WF_vars(FireDestroy)

Spec == Init /\ [][Next]_vars
FairSpec == Spec /\ Fairness
-----------------------------------------------------------------------------
TypeOK ==
  /\ slots \in [0 .. Size - 1 -> Nat]
  /\ prod \in Nat /\ cons \in Nat /\ dropped \in Nat
  /\ destroyed \in BOOLEAN /\ hashed \in BOOLEAN /\ closed \in BOOLEAN
  /\ qpc \in [Threads -> {"idle", "checked"}]
  /\ epc \in {"idle", "drain", "fire"}
  /\ copy \in Nat
  /\ offered \in Nat /\ fired \in Nat /\ lastFired \in Nat

InFlight == IF epc = "fire" THEN 1 ELSE 0

(* Every event offered is fired, waiting, being fired, or lost to an       *)
(* overflow, and every overflow loses two: nothing else loses an event and *)
(* nothing fires one twice.                                                *)
LossLedger ==
  offered = fired + InFlight + (prod - cons) + 2 * dropped

(* A spec's reader expects one event lost per count of                     *)
(* stat_events_dropped ("the oldest events are dropped and a counter is    *)
(* incremented").                                                          *)
EachLossCounted ==
  offered = fired + InFlight + (prod - cons) + dropped

(* The waiting slots hold, oldest first, increasing events newer than any  *)
(* taken out: the producer's index never catches up with the consumer's    *)
(* and overwrites one.                                                     *)
WaitingInOrder ==
  /\ cons <= prod /\ prod - cons <= Size - 1
  /\ \A i \in cons .. prod - 1 :
       /\ slots[Index(i)] \in 1 .. offered
       /\ slots[Index(i)] > lastFired
       /\ epc = "fire" => slots[Index(i)] > copy
       /\ \A j \in cons .. i - 1 : slots[Index(j)] < slots[Index(i)]
  /\ epc = "fire" => copy \in lastFired + 1 .. offered
  /\ lastFired <= offered

(* Events reach the outside in the order they were offered, each once.     *)
FiredInOrder ==
  [][lastFired' # lastFired => lastFired' > lastFired]_vars

(* The DESTROY event is the room's last: no queued event is fired after    *)
(* it, whatever the emitter was doing when the room was marked.            *)
NothingAfterDestroy ==
  [][closed => fired' = fired]_vars

(* An event accepted by a room that stays is fired, unless an overflow     *)
(* skips it: the emitter never leaves an event behind.                     *)
EventsMove ==
  \A i \in 0 .. MaxOffers - 1 :
    (prod > i /\ cons <= i) ~> (cons > i \/ destroyed)
-----------------------------------------------------------------------------
Queued ==
  [i \in 1 .. (IF prod >= cons THEN prod - cons ELSE 0)
     |-> slots[Index(cons + i - 1)]]

Lossy == INSTANCE LossyQueue
           WITH Capacity <- Size - 1,
                waiting <- Queued,
                inflight <- copy

(* The ring of slots and indices implements the lossy queue.               *)
LossyQueueImplemented == Lossy!Spec
=============================================================================
