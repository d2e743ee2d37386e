-------------------------- MODULE EventRingProofs --------------------------
(***************************************************************************)
(* Proofs about the event ring, for any number of threads, any ring of two *)
(* slots or more and any number of events.                                 *)
(***************************************************************************)
EXTENDS EventRing, RingArithmetic, SequenceTheorems

(* Two waiting events sit in different slots, and every event has one.     *)
LEMMA EventsApart ==
  ASSUME NEW i \in Nat, NEW j \in Nat, i < j, j < i + Size
  PROVE  Index(i) # Index(j)
BY SlotsDistinct, EventAssumption DEF Index

LEMMA EventHasSlot ==
  ASSUME NEW i \in Nat
  PROVE  Index(i) \in 0 .. Size - 1
BY SlotInRange, EventAssumption DEF Index

(* Types are preserved by the ring's steps.                                *)
THEOREM EventTypes == Spec => []TypeOK
<1>1. Init => TypeOK
  <2> SUFFICES ASSUME Init  PROVE TypeOK
    OBVIOUS
  <2>1. slots \in [0 .. Size - 1 -> Nat]
    BY DEF Init, NoEvent
  <2>2. qpc \in [Threads -> {"idle", "checked"}]
    BY DEF Init
  <2> QED
    BY <2>1, <2>2 DEF Init, TypeOK, NoEvent
<1>2. TypeOK /\ [Next]_vars => TypeOK'
  <2> SUFFICES ASSUME TypeOK, [Next]_vars  PROVE TypeOK'
    OBVIOUS
  <2> USE DEF TypeOK, ring, room, history
  <2>1. ASSUME NEW t \in Threads, CheckAlive(t)  PROVE TypeOK'
    BY <2>1 DEF CheckAlive
  <2>2. ASSUME NEW t \in Threads, Queue(t)  PROVE TypeOK'
    <3>0. slots' = [slots EXCEPT ![Index(prod)] = offered + 1]
      BY <2>2 DEF Queue
    <3>. offered + 1 \in Nat
      OBVIOUS
    <3>1. slots' \in [0 .. Size - 1 -> Nat]
      BY <3>0
    <3>2. qpc' \in [Threads -> {"idle", "checked"}]
      BY <2>2 DEF Queue
    <3> QED BY <2>2, <3>1, <3>2 DEF Queue
  <2>3. ASSUME NEW t \in Threads, DropOldest(t)  PROVE TypeOK'
    BY <2>3 DEF DropOldest
  <2>4. CASE SweepBegin
    BY <2>4 DEF SweepBegin
  <2>5. CASE TakeEvent
    <3>1. cons \in Nat
      OBVIOUS
    <3>2. Index(cons) \in 0 .. Size - 1
      BY <3>1, EventHasSlot
    <3>3. slots[Index(cons)] \in Nat
      BY <3>2
    <3>4. copy' \in Nat
      BY <2>5, <3>3 DEF TakeEvent
    <3> QED BY <2>5, <3>4 DEF TakeEvent
  <2>6. CASE FireEvent
    BY <2>6 DEF FireEvent, NoEvent
  <2>7. CASE SweepEnd
    BY <2>7 DEF SweepEnd
  <2>8. CASE Destroyer
    BY <2>8 DEF Destroyer, MarkDestroyed, Unhash, FireDestroy
  <2>9. CASE UNCHANGED vars
    BY <2>9 DEF vars
  <2> QED
    BY <2>1, <2>2, <2>3, <2>4, <2>5, <2>6, <2>7, <2>8, <2>9
    DEF Next, Emitter
<1> QED BY <1>1, <1>2, PTL DEF Spec
-----------------------------------------------------------------------------
(* The indices stay apart by at most Size - 1 and every loss is paid for.  *)
Bounds ==
  /\ cons <= prod
  /\ prod - cons <= Size - 1

(* Every event broadcast_event_enqueue accepted was fired, is waiting, is  *)
(* in the emitter's hands or was overwritten, and the ring never holds     *)
(* more than Size - 1: the two facts each other needs to be inductive.     *)
THEOREM LedgerBalances == Spec => [](Bounds /\ LossLedger)
<1>1. Init => Bounds /\ LossLedger
  BY EventAssumption DEF Init, Bounds, LossLedger, InFlight
<1>2. TypeOK /\ Bounds /\ LossLedger /\ [Next]_vars
        => (Bounds /\ LossLedger)'
  <2> SUFFICES ASSUME TypeOK, Bounds, LossLedger, [Next]_vars
               PROVE  (Bounds /\ LossLedger)'
    OBVIOUS
  <2> USE EventAssumption DEF TypeOK, Bounds, LossLedger, InFlight
  <2>1. ASSUME NEW t \in Threads, CheckAlive(t)
        PROVE  (Bounds /\ LossLedger)'
    BY <2>1 DEF CheckAlive, ring, history
  <2>2. ASSUME NEW t \in Threads, Queue(t)
        PROVE  (Bounds /\ LossLedger)'
    BY <2>2 DEF Queue, Full
  <2>3. ASSUME NEW t \in Threads, DropOldest(t)
        PROVE  (Bounds /\ LossLedger)'
    BY <2>3 DEF DropOldest, Full
  <2>4. CASE SweepBegin \/ SweepEnd
    BY <2>4 DEF SweepBegin, SweepEnd, ring, history
  <2>5. CASE TakeEvent
    BY <2>5 DEF TakeEvent, history
  <2>6. CASE FireEvent
    BY <2>6 DEF FireEvent, ring
  <2>7. CASE Destroyer
    BY <2>7 DEF Destroyer, MarkDestroyed, Unhash, FireDestroy, ring, history
  <2>8. CASE UNCHANGED vars
    BY <2>8 DEF vars, ring, history
  <2> QED
    BY <2>1, <2>2, <2>3, <2>4, <2>5, <2>6, <2>7, <2>8 DEF Next, Emitter
<1> QED BY <1>1, <1>2, EventTypes, PTL DEF Spec

(* Nothing but an overflow loses an event, and nothing fires one twice.    *)
THEOREM LossesLedgered == Spec => []LossLedger
BY LedgerBalances, PTL
-----------------------------------------------------------------------------
(* The waiting events stay in order: the slot a new event takes is none of *)
(* theirs, and its number is above theirs.                                 *)
THEOREM WaitingOrdered == Spec => []WaitingInOrder
<1>1. Init => WaitingInOrder
  BY EventAssumption DEF Init, WaitingInOrder, NoEvent
<1>2. TypeOK /\ WaitingInOrder /\ [Next]_vars => WaitingInOrder'
  <2> SUFFICES ASSUME TypeOK, WaitingInOrder, [Next]_vars
               PROVE  WaitingInOrder'
    OBVIOUS
  <2> USE EventAssumption DEF TypeOK
  <2>1. ASSUME NEW t \in Threads, CheckAlive(t)  PROVE WaitingInOrder'
    BY <2>1 DEF CheckAlive, WaitingInOrder, ring, history
  <2>2. ASSUME NEW t \in Threads, Queue(t)  PROVE WaitingInOrder'
    <3>1. /\ slots' = [slots EXCEPT ![Index(prod)] = offered + 1]
          /\ prod' = prod + 1 /\ offered' = offered + 1
          /\ UNCHANGED <<cons, epc, copy, lastFired>>
          /\ cons <= prod /\ prod - cons < Size - 1
      BY <2>2 DEF Queue, Full, WaitingInOrder
    <3>2. slots'[Index(prod)] = offered + 1
      BY <3>1, EventHasSlot
    <3>3. ASSUME NEW i \in cons .. prod - 1
          PROVE  slots'[Index(i)] = slots[Index(i)]
      <4>1. i \in Nat /\ i < prod /\ prod < i + Size
        BY <3>1
      <4>2. Index(i) # Index(prod)
        BY <4>1, EventsApart
      <4>3. Index(i) \in 0 .. Size - 1
        BY <4>1, EventHasSlot
      <4> QED BY <3>1, <4>2, <4>3
    <3>4. ASSUME NEW i \in cons .. prod - 1
          PROVE  /\ slots[Index(i)] \in 1 .. offered
                 /\ slots[Index(i)] > lastFired
                 /\ epc = "fire" => slots[Index(i)] > copy
                 /\ \A j \in cons .. i - 1 : slots[Index(j)] < slots[Index(i)]
      BY DEF WaitingInOrder
    <3>5. /\ lastFired <= offered
          /\ epc = "fire" => copy \in lastFired + 1 .. offered
      BY DEF WaitingInOrder
    <3>6. ASSUME NEW i \in cons .. prod
          PROVE  /\ slots'[Index(i)] \in 1 .. offered + 1
                 /\ slots'[Index(i)] > lastFired
                 /\ epc = "fire" => slots'[Index(i)] > copy
                 /\ \A j \in cons .. i - 1 :
                      slots'[Index(j)] < slots'[Index(i)]
      <4>1. CASE i = prod
        BY <4>1, <3>2, <3>3, <3>4, <3>5
      <4>2. CASE i # prod
        <5>1. i \in cons .. prod - 1
          BY <4>2
        <5>2. \A j \in cons .. i - 1 : j \in cons .. prod - 1
          BY <5>1
        <5> QED BY <5>1, <5>2, <3>3, <3>4
      <4> QED BY <4>1, <4>2
    <3>7. (cons .. prod - 1)' = cons .. prod
      BY <3>1
    <3> QED
      BY <3>1, <3>5, <3>6, <3>7 DEF WaitingInOrder, Index
  <2>3. ASSUME NEW t \in Threads, DropOldest(t)  PROVE WaitingInOrder'
    <3>1. /\ cons' = cons + 1 /\ offered' = offered + 1
          /\ UNCHANGED <<slots, prod, epc, copy, lastFired>>
          /\ cons < prod
      BY <2>3 DEF DropOldest, Full, WaitingInOrder
    <3>2. \A i \in (cons .. prod - 1)' : i \in cons .. prod - 1
      BY <3>1
    <3>3. \A i \in (cons .. prod - 1)' : \A j \in cons' .. i - 1 :
            j \in cons .. i - 1
      BY <3>1
    <3>4. \A i \in (cons .. prod - 1)' :
            /\ slots[Index(i)] \in 1 .. offered'
            /\ slots[Index(i)] > lastFired'
            /\ epc' = "fire" => slots[Index(i)] > copy'
            /\ \A j \in cons' .. i - 1 : slots[Index(j)] < slots[Index(i)]
      BY <3>1, <3>2, <3>3 DEF WaitingInOrder
    <3>5. /\ cons' <= prod' /\ prod' - cons' <= Size - 1
          /\ epc' = "fire" => copy' \in lastFired' + 1 .. offered'
          /\ lastFired' <= offered'
      BY <3>1 DEF WaitingInOrder
    <3> QED BY <3>1, <3>4, <3>5 DEF WaitingInOrder, Index
  <2>4. CASE SweepBegin \/ SweepEnd
    BY <2>4 DEF SweepBegin, SweepEnd, WaitingInOrder, ring, history
  <2>5. CASE TakeEvent
    <3>1. /\ cons' = cons + 1 /\ copy' = slots[Index(cons)]
          /\ UNCHANGED <<slots, prod, offered, lastFired>>
          /\ cons < prod /\ cons \in cons .. prod - 1
      BY <2>5 DEF TakeEvent, history
    <3>2. slots[Index(cons)] \in lastFired + 1 .. offered
      BY <3>1 DEF WaitingInOrder
    <3>3. \A i \in cons + 1 .. prod - 1 :
            slots[Index(cons)] < slots[Index(i)]
      BY <3>1 DEF WaitingInOrder
    <3>4. \A i \in (cons .. prod - 1)' :
            /\ i \in cons .. prod - 1 /\ i \in cons + 1 .. prod - 1
            /\ \A j \in cons' .. i - 1 : j \in cons .. i - 1
      BY <3>1
    <3>5. \A i \in (cons .. prod - 1)' :
            /\ slots[Index(i)] \in 1 .. offered'
            /\ slots[Index(i)] > lastFired'
            /\ slots[Index(i)] > copy'
            /\ \A j \in cons' .. i - 1 : slots[Index(j)] < slots[Index(i)]
      BY <3>1, <3>3, <3>4 DEF WaitingInOrder
    <3>6. /\ cons' <= prod' /\ prod' - cons' <= Size - 1
          /\ copy' \in lastFired' + 1 .. offered'
          /\ lastFired' <= offered'
      BY <3>1, <3>2 DEF WaitingInOrder
    <3> QED BY <3>1, <3>5, <3>6 DEF WaitingInOrder, Index
  <2>6. CASE FireEvent
    BY <2>6 DEF FireEvent, WaitingInOrder, ring
  <2>7. CASE Destroyer
    BY <2>7 DEF Destroyer, MarkDestroyed, Unhash, FireDestroy,
                WaitingInOrder, ring, history
  <2>8. CASE UNCHANGED vars
    BY <2>8 DEF vars, WaitingInOrder, ring, history
  <2> QED
    BY <2>1, <2>2, <2>3, <2>4, <2>5, <2>6, <2>7, <2>8 DEF Next, Emitter
<1> QED BY <1>1, <1>2, EventTypes, PTL DEF Spec

(* The emitter fires events in the order they were offered, each once.     *)
THEOREM OrderKept == Spec => FiredInOrder
<1>1. TypeOK /\ WaitingInOrder /\ [Next]_vars
        => [lastFired' # lastFired => lastFired' > lastFired]_vars
  BY DEF TypeOK, WaitingInOrder, Next, Emitter, Destroyer, CheckAlive, Queue,
         DropOldest, SweepBegin, TakeEvent, FireEvent, SweepEnd,
         MarkDestroyed, Unhash, FireDestroy, vars, history
<1> QED BY <1>1, EventTypes, WaitingOrdered, PTL DEF Spec, FiredInOrder
-----------------------------------------------------------------------------
(* A room out of the hash has no sweep under way, and its last event is    *)
(* fired after that.                                                       *)
Closing ==
  /\ closed => ~ hashed
  /\ ~ hashed => epc = "idle"

(* The DESTROY event is the last the room fires.                           *)
THEOREM DestroyIsLast == Spec => NothingAfterDestroy
<1>1. Init => Closing
  BY DEF Init, Closing
<1>2. Closing /\ [Next]_vars => Closing'
  BY DEF Closing, Next, Emitter, Destroyer, CheckAlive, Queue, DropOldest,
         SweepBegin, TakeEvent, FireEvent, SweepEnd, MarkDestroyed, Unhash,
         FireDestroy, vars, room
<1>3. Closing /\ [Next]_vars => [closed => fired' = fired]_vars
  BY DEF Closing, Next, Emitter, Destroyer, CheckAlive, Queue, DropOldest,
         SweepBegin, TakeEvent, FireEvent, SweepEnd, MarkDestroyed, Unhash,
         FireDestroy, vars, room, history
<1> QED BY <1>1, <1>2, <1>3, PTL DEF Spec, NothingAfterDestroy
-----------------------------------------------------------------------------
(* The ring implements the lossy queue: the slots between the indices,     *)
(* read as a sequence, are what is waiting.                                *)

(* A sequence from a description of its elements.                          *)
LEMMA SeqOf ==
  ASSUME NEW n \in Nat, NEW s \in [1 .. n -> Nat]
  PROVE  s \in Seq(Nat) /\ Len(s) = n
OBVIOUS

(* The events of a ring f from index c up to index p.                      *)
Window(f, c, p) ==
  [i \in 1 .. (IF p >= c THEN p - c ELSE 0) |-> f[Index(c + i - 1)]]

LEMMA WindowIs ==
  ASSUME NEW f \in [0 .. Size - 1 -> Nat], NEW c \in Nat, NEW p \in Nat,
         c <= p
  PROVE  /\ Window(f, c, p) \in Seq(Nat) /\ Len(Window(f, c, p)) = p - c
         /\ \A i \in 1 .. p - c : Window(f, c, p)[i] = f[Index(c + i - 1)]
<1>1. p - c \in Nat
  OBVIOUS
<1>2. Window(f, c, p) = [i \in 1 .. p - c |-> f[Index(c + i - 1)]]
  BY DEF Window
<1>3. \A i \in 1 .. p - c : f[Index(c + i - 1)] \in Nat
  <2> TAKE i \in 1 .. p - c
  <2>1. c + i - 1 \in Nat
    OBVIOUS
  <2>2. Index(c + i - 1) \in 0 .. Size - 1
    BY <2>1, EventHasSlot
  <2> QED BY <2>2
<1>4. Window(f, c, p) \in [1 .. p - c -> Nat]
  BY <1>2, <1>3
<1> QED BY <1>1, <1>2, <1>4, SeqOf

LEMMA QueuedIs ==
  ASSUME TypeOK, cons <= prod
  PROVE  /\ Queued \in Seq(Nat) /\ Len(Queued) = prod - cons
         /\ \A i \in 1 .. prod - cons :
              Queued[i] = slots[Index(cons + i - 1)]
<1>1. Queued = Window(slots, cons, prod)
  BY DEF Queued, Window
<1>2. /\ slots \in [0 .. Size - 1 -> Nat] /\ cons \in Nat /\ prod \in Nat
  BY DEF TypeOK
<1> QED BY <1>1, <1>2, WindowIs

LEMMA QueuedNext ==
  ASSUME TypeOK', cons' <= prod'
  PROVE  /\ Queued' \in Seq(Nat) /\ Len(Queued') = prod' - cons'
         /\ \A i \in 1 .. prod' - cons' :
              Queued'[i] = slots'[Index(cons' + i - 1)]
<1>1. Queued' = Window(slots', cons', prod')
  BY DEF Queued, Window, Index
<1>2. /\ slots' \in [0 .. Size - 1 -> Nat] /\ cons' \in Nat
      /\ prod' \in Nat
  BY DEF TypeOK
<1> QED BY <1>1, <1>2, WindowIs

(* What an event added behind, or taken from the front, does to a          *)
(* sequence given by its elements.                                         *)
LEMMA Appended ==
  ASSUME NEW s \in Seq(Nat), NEW t \in Seq(Nat), NEW e \in Nat,
         Len(t) = Len(s) + 1, \A i \in 1 .. Len(s) : t[i] = s[i],
         t[Len(s) + 1] = e
  PROVE  t = Append(s, e)
<1>1. /\ Append(s, e) \in Seq(Nat) /\ Len(Append(s, e)) = Len(s) + 1
      /\ \A i \in 1 .. Len(s) : Append(s, e)[i] = s[i]
      /\ Append(s, e)[Len(s) + 1] = e
  BY AppendProperties
<1>2. Len(s) \in Nat
  BY LenProperties
<1>3. \A i \in 1 .. Len(t) : t[i] = Append(s, e)[i]
  BY <1>1, <1>2
<1> QED BY <1>1, <1>3, SeqEqual

LEMMA Tailed ==
  ASSUME NEW s \in Seq(Nat), NEW t \in Seq(Nat), Len(s) = Len(t) + 1,
         \A i \in 1 .. Len(t) : t[i] = s[i + 1]
  PROVE  s # << >> /\ t = Tail(s) /\ Head(s) = s[1]
<1>1. s # << >>
  BY EmptySeq, LenProperties
<1>2. /\ Tail(s) \in Seq(Nat) /\ Len(Tail(s)) = Len(s) - 1
      /\ \A i \in 1 .. Len(Tail(s)) : Tail(s)[i] = s[i + 1]
  BY <1>1, HeadTailProperties
<1>3. Len(t) \in Nat
  BY LenProperties
<1>4. t = Tail(s)
  <2>1. Len(t) = Len(Tail(s))
    BY <1>2, <1>3
  <2>2. \A i \in 1 .. Len(t) : t[i] = Tail(s)[i]
    BY <1>2, <2>1
  <2> QED BY <1>2, <2>1, <2>2, SeqEqual
<1> QED BY <1>1, <1>4

(* Between events the emitter's copy is empty.                             *)
CopyInv == epc # "fire" => copy = NoEvent

LEMMA CopyKept == CopyInv /\ [Next]_vars => CopyInv'
BY DEF CopyInv, NoEvent, Next, Emitter, Destroyer, CheckAlive, Queue,
       DropOldest, SweepBegin, TakeEvent, FireEvent, SweepEnd,
       MarkDestroyed, Unhash, FireDestroy, vars

(* An event queued in a free slot is appended.                             *)
LEMMA QueueAccepts ==
  ASSUME TypeOK, TypeOK', WaitingInOrder, NEW t \in Threads, Queue(t)
  PROVE  Lossy!Accept
<1> USE EventAssumption
<1>1. /\ slots' = [slots EXCEPT ![Index(prod)] = offered + 1]
      /\ prod' = prod + 1 /\ offered' = offered + 1
      /\ UNCHANGED <<cons, copy, lastFired>>
      /\ cons <= prod /\ prod - cons < Size - 1
  BY DEF Queue, Full, WaitingInOrder, TypeOK
<1>t. /\ prod \in Nat /\ cons \in Nat /\ offered + 1 \in Nat
      /\ slots \in [0 .. Size - 1 -> Nat]
  BY DEF TypeOK
<1>2. /\ Queued \in Seq(Nat) /\ Len(Queued) = prod - cons
      /\ \A i \in 1 .. prod - cons : Queued[i] = slots[Index(cons + i - 1)]
  BY <1>1, QueuedIs
<1>3. /\ Queued' \in Seq(Nat) /\ Len(Queued') = prod - cons + 1
      /\ \A i \in 1 .. prod - cons + 1 :
           Queued'[i] = slots'[Index(cons + i - 1)]
  <2>1. (cons <= prod)'
    BY <1>1, <1>t
  <2>2. /\ Queued' \in Seq(Nat) /\ Len(Queued') = prod' - cons'
        /\ \A i \in 1 .. prod' - cons' :
             Queued'[i] = slots'[Index(cons' + i - 1)]
    BY <2>1, QueuedNext
  <2>3. prod' - cons' = prod - cons + 1 /\ cons' = cons
    BY <1>1, <1>t
  <2> QED BY <2>2, <2>3
<1>4. \A i \in 1 .. Len(Queued) : Queued'[i] = Queued[i]
  <2> TAKE i \in 1 .. Len(Queued)
  <2>1. /\ i \in 1 .. prod - cons /\ i \in 1 .. prod - cons + 1
        /\ cons + i - 1 \in Nat /\ cons + i - 1 < prod
        /\ prod < cons + i - 1 + Size
    BY <1>1, <1>2, <1>t
  <2>2. Index(cons + i - 1) # Index(prod)
    BY <1>t, <2>1, EventsApart
  <2>3. Index(cons + i - 1) \in 0 .. Size - 1
    BY <2>1, EventHasSlot
  <2>4. slots'[Index(cons + i - 1)] = slots[Index(cons + i - 1)]
    BY <1>1, <1>t, <2>2, <2>3
  <2> QED BY <1>2, <1>3, <2>1, <2>4
<1>5. Queued'[Len(Queued) + 1] = offered + 1
  <2>1. slots'[Index(prod)] = offered + 1
    BY <1>1, <1>t, EventHasSlot
  <2>2. /\ Len(Queued) + 1 \in 1 .. prod - cons + 1
        /\ cons + (Len(Queued) + 1) - 1 = prod
    BY <1>1, <1>2, <1>t
  <2> QED BY <1>3, <2>1, <2>2
<1>6. Queued' = Append(Queued, offered + 1)
  <2>1. Len(Queued') = Len(Queued) + 1
    BY <1>2, <1>3
  <2> QED BY <1>t, <1>2, <1>3, <1>4, <1>5, <2>1, Appended
<1> QED BY <1>1, <1>2, <1>6 DEF Lossy!Accept

(* Moving the consumer's index takes the oldest event off.                 *)
LEMMA ConsumerTails ==
  ASSUME TypeOK, TypeOK', cons < prod, cons' = cons + 1,
         UNCHANGED <<slots, prod>>
  PROVE  /\ Queued # << >> /\ Queued' = Tail(Queued)
         /\ Head(Queued) = slots[Index(cons)]
<1>t. prod \in Nat /\ cons \in Nat
  BY DEF TypeOK
<1>2. /\ Queued \in Seq(Nat) /\ Len(Queued) = prod - cons
      /\ \A i \in 1 .. prod - cons : Queued[i] = slots[Index(cons + i - 1)]
  BY <1>t, QueuedIs
<1>3. /\ Queued' \in Seq(Nat) /\ Len(Queued') = prod - cons - 1
      /\ \A i \in 1 .. prod - cons - 1 : Queued'[i] = slots[Index(cons + i)]
  <2>1. (cons <= prod)'
    BY <1>t
  <2>2. /\ Queued' \in Seq(Nat) /\ Len(Queued') = prod' - cons'
        /\ \A i \in 1 .. prod' - cons' :
             Queued'[i] = slots'[Index(cons' + i - 1)]
    BY <2>1, QueuedNext
  <2>3. prod' - cons' = prod - cons - 1
    BY <1>t
  <2>4. \A i \in 1 .. prod - cons - 1 : cons' + i - 1 = cons + i
    BY <1>t
  <2> QED BY <2>2, <2>3, <2>4
<1>4. \A i \in 1 .. Len(Queued') : Queued'[i] = Queued[i + 1]
  <2> TAKE i \in 1 .. Len(Queued')
  <2>1. /\ i \in 1 .. prod - cons - 1 /\ i + 1 \in 1 .. prod - cons
        /\ cons + (i + 1) - 1 = cons + i
    BY <1>3, <1>t
  <2> QED BY <1>2, <1>3, <2>1
<1>5. Len(Queued) = Len(Queued') + 1
  BY <1>2, <1>3, <1>t
<1>6. Queued # << >> /\ Queued' = Tail(Queued) /\ Head(Queued) = Queued[1]
  BY <1>2, <1>3, <1>4, <1>5, Tailed
<1>7. Queued[1] = slots[Index(cons)]
  <2>1. 1 \in 1 .. prod - cons /\ cons + 1 - 1 = cons
    BY <1>t
  <2> QED BY <1>2, <2>1
<1> QED BY <1>6, <1>7

(* Every step of the ring is a step of the queue, or one it does not see.  *)
LEMMA QueueSteps ==
  ASSUME TypeOK, TypeOK', WaitingInOrder, CopyInv, [Next]_vars
  PROVE  [Lossy!Next]_(Lossy!vars)
<1> USE EventAssumption
<1>1. ASSUME NEW t \in Threads, Queue(t)  PROVE Lossy!Next
  BY <1>1, QueueAccepts DEF Lossy!Next
<1>2. ASSUME NEW t \in Threads, DropOldest(t)  PROVE Lossy!Next
  <2>1. /\ cons' = cons + 1 /\ offered' = offered + 1
        /\ UNCHANGED <<slots, prod, copy, lastFired>>
        /\ cons < prod /\ prod - cons = Size - 1
    BY <1>2 DEF DropOldest, Full, WaitingInOrder, TypeOK
  <2>2. Queued' = Tail(Queued)
    BY <2>1, ConsumerTails
  <2>3. Len(Queued) = Size - 1
    BY <2>1, QueuedIs DEF TypeOK
  <2> QED BY <2>1, <2>2, <2>3 DEF Lossy!Next, Lossy!Overflow
<1>3. CASE TakeEvent
  <2>1. /\ cons' = cons + 1 /\ copy' = slots[Index(cons)] /\ copy = 0
        /\ UNCHANGED <<slots, prod, offered, lastFired>> /\ cons < prod
    BY <1>3 DEF TakeEvent, history, CopyInv, NoEvent
  <2>2. /\ Queued # << >> /\ Queued' = Tail(Queued)
        /\ Head(Queued) = slots[Index(cons)]
    BY <2>1, ConsumerTails
  <2> QED BY <2>1, <2>2 DEF Lossy!Next, Lossy!Take
<1>4. CASE FireEvent
  <2>1. /\ lastFired' = copy /\ copy' = 0
        /\ UNCHANGED <<slots, prod, cons, offered>>
        /\ copy \in lastFired + 1 .. offered
    BY <1>4 DEF FireEvent, ring, NoEvent, WaitingInOrder
  <2>2. copy # 0
    BY <2>1 DEF TypeOK
  <2>3. Queued' = Queued
    BY <2>1 DEF Queued, Index
  <2> QED BY <2>1, <2>2, <2>3 DEF Lossy!Next, Lossy!Fire
<1>5. CASE \/ \E t \in Threads : CheckAlive(t)
           \/ SweepBegin \/ SweepEnd \/ Destroyer \/ UNCHANGED vars
  <2>1. UNCHANGED <<slots, prod, cons, offered, copy, lastFired>>
    BY <1>5 DEF CheckAlive, SweepBegin, SweepEnd, Destroyer, MarkDestroyed,
                Unhash, FireDestroy, vars, ring, history
  <2>2. Queued' = Queued
    BY <2>1 DEF Queued, Index
  <2> QED BY <2>1, <2>2 DEF Lossy!vars
<1> QED BY <1>1, <1>2, <1>3, <1>4, <1>5 DEF Next, Emitter

(* The ring of slots and indices implements the lossy queue.               *)
THEOREM LossyQueueRefined == Spec => LossyQueueImplemented
<1>1. ASSUME Init  PROVE Lossy!Init /\ CopyInv
  <2>1. /\ prod = 0 /\ cons = 0 /\ offered = 0 /\ copy = 0 /\ lastFired = 0
        /\ epc = "idle"
    BY <1>1 DEF Init, NoEvent
  <2>2. Queued = << >>
    BY <2>1 DEF Queued
  <2> QED BY <2>1, <2>2 DEF Lossy!Init, CopyInv, NoEvent
<1>2. TypeOK /\ TypeOK' /\ WaitingInOrder /\ CopyInv /\ [Next]_vars
        => [Lossy!Next]_(Lossy!vars)
  BY QueueSteps
<1> QED
  BY <1>1, <1>2, CopyKept, EventTypes, WaitingOrdered, PTL
  DEF Spec, LossyQueueImplemented, Lossy!Spec
=============================================================================
