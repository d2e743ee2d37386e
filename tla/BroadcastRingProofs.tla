------------------------ MODULE BroadcastRingProofs ------------------------
(***************************************************************************)
(* Proofs about the audio ring, for any number of listeners and any sizes. *)
(* What concerns the cursors holds for every listener; what concerns the   *)
(* frames heard, for the prompt ones.                                      *)
(***************************************************************************)
EXTENDS BroadcastRing, RingArithmetic

(* Two frames less than a ring apart sit in different slots, and every     *)
(* frame has one.                                                          *)
LEMMA FramesApart ==
  ASSUME NEW a \in Nat, NEW b \in Nat, a < b, b < a + RingSize
  PROVE  Slot(a) # Slot(b)
BY SlotsDistinct, RingAssumption DEF Slot

LEMMA FrameHasSlot ==
  ASSUME NEW n \in Nat
  PROVE  Slot(n) \in Slots
BY SlotInRange, RingAssumption DEF Slot, Slots

(* The cursor a listener joins at, and the one a resync moves it to, name  *)
(* published frames or the next one.                                       *)
LEMMA JoinCursorRange ==
  ASSUME TypeOK
  PROVE  JoinCursor \in 0 .. producer_seq
BY RingAssumption DEF JoinCursor, TypeOK

LEMMA ResyncedRange ==
  ASSUME NEW c \in Nat, NEW p \in Nat, c < p
  PROVE  /\ Resynced(c, p) \in Nat
         /\ c <= Resynced(c, p)
         /\ Resynced(c, p) < p
         /\ p <= Resynced(c, p) + MaxLag
         /\ p - c <= MaxLag => Resynced(c, p) = c
         /\ Resynced(c, p) = c \/ Resynced(c, p) - c >= MaxLag
BY RingAssumption DEF Resynced
-----------------------------------------------------------------------------
(* Types are preserved by the code's steps.                                *)
THEOREM RingTypes == Spec => []TypeOK
<1>1. Init => TypeOK
  BY RingAssumption DEF Init, TypeOK, Tags, Silence, Reading, NoFrame
<1>2. TypeOK /\ [Next]_vars => TypeOK'
  <2> SUFFICES ASSUME TypeOK, [Next]_vars  PROVE TypeOK'
    OBVIOUS
  <2> USE DEF TypeOK, Tags, Reading
  <2>0. Slot(producer_seq) \in Slots
    BY FrameHasSlot
  <2>1. CASE WriteHeader
    BY <2>0, <2>1 DEF WriteHeader, lvars
  <2>2. CASE WriteLow
    BY <2>0, <2>2 DEF WriteLow, lvars
  <2>3. CASE WriteHigh
    BY <2>0, <2>3 DEF WriteHigh, lvars
  <2>4. CASE StoreSlotSeq
    BY <2>0, <2>4 DEF StoreSlotSeq, lvars
  <2>5. CASE Publish
    BY <2>5 DEF Publish, lvars
  <2>6. ASSUME NEW l \in Listeners, Join(l)  PROVE TypeOK'
    BY <2>6, JoinCursorRange DEF Join, Silence, NoFrame
  <2>7. ASSUME NEW l \in Listeners, Leave(l)  PROVE TypeOK'
    BY <2>7 DEF Leave
  <2>8. ASSUME NEW l \in Listeners, TickIdle(l)  PROVE TypeOK'
    BY <2>8 DEF TickIdle, Silence, NoFrame
  <2>9. ASSUME NEW l \in Listeners, TickRead(l)  PROVE TypeOK'
    <3>1. Resynced(consumer_seq[l], producer_seq) \in Nat
      BY <2>9, ResyncedRange DEF TickRead
    <3> QED BY <3>1, <2>9 DEF TickRead
  <2>10. ASSUME NEW l \in Listeners, CheckHit(l)  PROVE TypeOK'
    BY <2>10 DEF CheckHit
  <2>11. ASSUME NEW l \in Listeners, CheckMiss(l)  PROVE TypeOK'
    BY <2>11 DEF CheckMiss, EndRead, Silence, NoFrame
  <2>12. ASSUME NEW l \in Listeners, CopyLow(l)  PROVE TypeOK'
    BY <2>12, FrameHasSlot DEF CopyLow
  <2>13. ASSUME NEW l \in Listeners, CopyHigh(l)  PROVE TypeOK'
    BY <2>13, FrameHasSlot DEF CopyHigh
  <2>14. ASSUME NEW l \in Listeners, WriteFrame(l)  PROVE TypeOK'
    <3>1. heard' \in [Listeners -> [len : Tags, low : Tags, high : Tags]]
      BY <2>14, FrameHasSlot DEF WriteFrame
    <3> QED BY <3>1, <2>14 DEF WriteFrame, EndRead, Silence, NoFrame
  <2>16. ASSUME NEW l \in Listeners, RelistLoad(l)  PROVE TypeOK'
    BY <2>16, JoinCursorRange DEF RelistLoad
  <2>17. ASSUME NEW l \in Listeners, RelistStore(l)  PROVE TypeOK'
    BY <2>17 DEF RelistStore, NoFrame
  <2>15. CASE UNCHANGED vars
    BY <2>15 DEF vars, lvars
  <2> QED
    BY <2>1, <2>2, <2>3, <2>4, <2>5, <2>6, <2>7, <2>8, <2>9, <2>10, <2>11,
       <2>12, <2>13, <2>14, <2>15, <2>16, <2>17
    DEF Next, Producer, Listener, Relist, Tick
<1> QED BY <1>1, <1>2, PTL DEF Spec
-----------------------------------------------------------------------------
(* What CursorInv says of one listener.                                    *)
ListenerInv(l) ==
  /\ consumer_seq[l] <= producer_seq
  /\ rollback[l] <= producer_seq
  /\ lpc[l] \notin Reading => begun[l] = NoFrame
  /\ lpc[l] \in Reading =>
       /\ begun[l] \in 0 .. pseq[l] - 1
       /\ pseq[l] <= producer_seq
       /\ producer_seq <= pseq[l] + MaxStall[l]
       /\ cs[l] = Resynced(begun[l], pseq[l])

LEMMA CursorInvPointwise == CursorInv <=> \A l \in Listeners : ListenerInv(l)
BY DEF CursorInv, ListenerInv

(* A step that moves neither the producer nor this listener's cursors, and *)
(* neither begins nor ends its read, keeps that.                           *)
LEMMA ListenerInvFrame ==
  ASSUME NEW l \in Listeners, ListenerInv(l),
         producer_seq' = producer_seq,
         consumer_seq'[l] = consumer_seq[l], rollback'[l] = rollback[l],
         cs'[l] = cs[l], pseq'[l] = pseq[l], begun'[l] = begun[l],
         lpc'[l] \in Reading <=> lpc[l] \in Reading
  PROVE  ListenerInv(l)'
BY DEF ListenerInv, Resynced

(* A listener's step touches no other listener's part.                     *)
LEMMA OthersAlone ==
  ASSUME TypeOK, NEW l \in Listeners, Listener(l)
  PROVE  /\ producer_seq' = producer_seq
         /\ \A k \in Listeners \ {l} :
              /\ lpc'[k] = lpc[k] /\ consumer_seq'[k] = consumer_seq[k]
              /\ rollback'[k] = rollback[k] /\ cs'[k] = cs[k]
              /\ pseq'[k] = pseq[k] /\ scratch'[k] = scratch[k]
              /\ begun'[k] = begun[k] /\ heard'[k] = heard[k]
BY DEF Listener, Relist, Tick, Join, Leave, RelistLoad, RelistStore, TickIdle,
       TickRead, CheckHit, CheckMiss, CopyLow, CopyHigh, WriteFrame, EndRead,
       TypeOK

(* What a read under way looks for: a published frame, at or after the one *)
(* it began at, and at most MaxLag before its snapshot.                    *)
LEMMA ReadTarget ==
  ASSUME TypeOK, CursorInv, NEW l \in Listeners, lpc[l] \in Reading
  PROVE  /\ begun[l] \in Nat /\ cs[l] \in Nat /\ pseq[l] \in Nat
         /\ producer_seq \in Nat /\ MaxStall[l] \in Nat
         /\ Position(l) = begun[l]
         /\ begun[l] <= cs[l]
         /\ cs[l] < pseq[l]
         /\ pseq[l] <= cs[l] + MaxLag
         /\ pseq[l] <= producer_seq
         /\ producer_seq <= pseq[l] + MaxStall[l]
         /\ pseq[l] - begun[l] <= MaxLag => cs[l] = begun[l]
         /\ cs[l] = begun[l] \/ cs[l] - begun[l] >= MaxLag
<1>1. /\ cs[l] \in Nat /\ pseq[l] \in Nat /\ producer_seq \in Nat
      /\ MaxStall[l] \in Nat
  BY RingAssumption DEF TypeOK
<1>2. /\ begun[l] \in 0 .. pseq[l] - 1
      /\ pseq[l] <= producer_seq
      /\ producer_seq <= pseq[l] + MaxStall[l]
      /\ cs[l] = Resynced(begun[l], pseq[l])
  BY DEF CursorInv
<1>3. begun[l] \in Nat /\ begun[l] < pseq[l]
  BY <1>1, <1>2
<1>4. Position(l) = begun[l]
  BY <1>3 DEF Position, NoFrame
<1> QED BY <1>1, <1>2, <1>3, <1>4, ResyncedRange

(* Each step keeps every cursor behind the producer and every read within  *)
(* what was published when it began.                                       *)
LEMMA CursorInvStep ==
  ASSUME TypeOK, CursorInv, [Next]_vars
  PROVE  CursorInv'
<1>0. \A k \in Listeners : ListenerInv(k)
  BY CursorInvPointwise
<1> SUFFICES ASSUME NEW k \in Listeners
             PROVE  ListenerInv(k)'
  BY DEF CursorInv, ListenerInv
<1>00. /\ producer_seq \in Nat /\ consumer_seq[k] \in Nat
       /\ rollback[k] \in Tags /\ begun[k] \in Tags
       /\ cs[k] \in Nat /\ pseq[k] \in Nat
  BY DEF TypeOK
<1>1. CASE (WriteHeader \/ WriteLow \/ WriteHigh \/ StoreSlotSeq)
             \/ UNCHANGED vars
  BY <1>0, <1>1, ListenerInvFrame
  DEF WriteHeader, WriteLow, WriteHigh, StoreSlotSeq, vars, lvars
<1>2. CASE Publish
  <2>1. /\ producer_seq' = producer_seq + 1
        /\ consumer_seq' = consumer_seq /\ rollback' = rollback
        /\ cs' = cs /\ pseq' = pseq /\ begun' = begun /\ lpc' = lpc
        /\ lpc[k] \in Reading => producer_seq < pseq[k] + MaxStall[k]
    BY <1>2 DEF Publish, StallsBounded, lvars
  <2> QED
    BY <1>0, <1>00, <2>1, RingAssumption
    DEF ListenerInv, Resynced, Tags, NoFrame
<1>3. ASSUME NEW l \in Listeners, Listener(l), k # l
      PROVE  ListenerInv(k)'
  BY <1>0, <1>3, OthersAlone, ListenerInvFrame
<1>4. CASE Leave(k) \/ TickIdle(k) \/ CheckHit(k) \/ CopyLow(k)
             \/ CopyHigh(k)
  <2>1. /\ producer_seq' = producer_seq /\ consumer_seq' = consumer_seq
        /\ rollback' = rollback /\ cs' = cs /\ pseq' = pseq
        /\ begun' = begun
        /\ lpc'[k] \in Reading <=> lpc[k] \in Reading
    BY <1>4 DEF Leave, TickIdle, CheckHit, CopyLow, CopyHigh, TypeOK, Reading
  <2> QED BY <1>0, <2>1, ListenerInvFrame
<1>5. CASE Join(k) \/ RelistLoad(k) \/ RelistStore(k)
  <2>1. /\ producer_seq' = producer_seq /\ begun' = begun
        /\ cs' = cs /\ pseq' = pseq
        /\ lpc'[k] \in Reading <=> lpc[k] \in Reading
    BY <1>5 DEF Join, RelistLoad, RelistStore, TypeOK, Reading
  <2>2. /\ consumer_seq'[k] \in {consumer_seq[k], JoinCursor, rollback[k]}
        /\ rollback'[k] \in {rollback[k], JoinCursor, NoFrame}
    BY <1>5 DEF Join, RelistLoad, RelistStore, TypeOK
  <2>3. JoinCursor \in 0 .. producer_seq
    BY JoinCursorRange
  <2>4. /\ consumer_seq[k] <= producer_seq /\ rollback[k] <= producer_seq
    BY <1>0 DEF ListenerInv
  <2>5. consumer_seq'[k] <= producer_seq' /\ rollback'[k] <= producer_seq'
    BY <1>00, <2>1, <2>2, <2>3, <2>4 DEF NoFrame
  <2> QED BY <1>0, <2>1, <2>5 DEF ListenerInv, Resynced
<1>6. CASE TickRead(k)
  <2>1. /\ producer_seq' = producer_seq /\ consumer_seq' = consumer_seq
        /\ rollback' = rollback
        /\ begun'[k] = consumer_seq[k] /\ pseq'[k] = producer_seq
        /\ cs'[k] = Resynced(consumer_seq[k], producer_seq)
        /\ lpc'[k] = "check" /\ consumer_seq[k] < producer_seq
    BY <1>6 DEF TickRead, TypeOK
  <2>2. MaxStall[k] \in Nat
    BY RingAssumption
  <2> QED
    BY <1>0, <1>00, <2>1, <2>2 DEF ListenerInv, Resynced, Reading
<1>7. CASE CheckMiss(k) \/ WriteFrame(k)
  <2>1. /\ lpc[k] \in Reading /\ lpc'[k] = "tick" /\ begun'[k] = NoFrame
        /\ producer_seq' = producer_seq /\ rollback' = rollback
        /\ consumer_seq'[k] \in {pseq[k], cs[k] + 1}
    BY <1>7 DEF CheckMiss, WriteFrame, EndRead, TypeOK, Reading
  <2>2. consumer_seq'[k] <= producer_seq
    BY <1>00, <2>1, ReadTarget
  <2> QED BY <1>0, <2>1, <2>2 DEF ListenerInv, Reading
<1> QED
  BY <1>1, <1>2, <1>3, <1>4, <1>5, <1>6, <1>7
  DEF Next, Producer, Listener, Relist, Tick

LEMMA CursorInvAlways == Spec => []CursorInv
<1>1. Init => CursorInv
  <2> SUFFICES ASSUME Init, NEW l \in Listeners
               PROVE  CursorInv!(l)
    BY DEF CursorInv
  <2>1. /\ consumer_seq[l] = 0 /\ producer_seq = 0 /\ lpc[l] = "out"
        /\ rollback[l] = NoFrame /\ begun[l] = NoFrame
    BY DEF Init
  <2> QED BY <2>1 DEF Reading, NoFrame
<1> QED BY <1>1, CursorInvStep, RingTypes, PTL DEF Spec

(* No path moves a cursor past the frames published, however long the      *)
(* listener stalls.                                                        *)
THEOREM CursorsBehind == Spec => []CursorBehindProducer
<1>1. CursorInv => CursorBehindProducer
  BY DEF CursorInv, CursorBehindProducer
<1> QED BY <1>1, CursorInvAlways, PTL

(* No tick takes a listener back over frames it has passed; only the       *)
(* rollback of a promotion does, and only between two reads (NoReplay).    *)
THEOREM CursorsMonotone == Spec => NoReplay
<1> DEFINE Grows ==
      \A l \in Listeners :
        lpc[l] # "out" /\ Position(l)' < Position(l)
          => RelistStore(l) /\ lpc[l] = "tick"
<1>1. TypeOK /\ CursorInv /\ [Next]_vars => [Grows]_vars
  <2> SUFFICES ASSUME TypeOK, CursorInv, Next, NEW l \in Listeners,
                      lpc[l] # "out",
                      ~ (RelistStore(l) /\ lpc[l] = "tick")
               PROVE  ~ (Position(l)' < Position(l))
    BY DEF Grows
  <2>0. consumer_seq[l] \in Nat /\ begun[l] \in Tags /\ Position(l) \in Nat
    BY DEF TypeOK, Tags, Position, NoFrame
  <2>1. ASSUME consumer_seq'[l] = consumer_seq[l], begun'[l] = begun[l]
        PROVE  ~ (Position(l)' < Position(l))
    BY <2>0, <2>1 DEF Position
  <2>2. CASE CheckMiss(l) \/ WriteFrame(l)
    <3>1. /\ lpc[l] \in Reading
          /\ begun'[l] = NoFrame /\ consumer_seq'[l] \in {pseq[l], cs[l] + 1}
      BY <2>2 DEF CheckMiss, WriteFrame, EndRead, TypeOK, Reading
    <3>2. Position(l)' \in {pseq[l], cs[l] + 1}
      BY <3>1 DEF Position
    <3> QED BY <3>1, <3>2, ReadTarget
  <2>3. CASE RelistStore(l)
    <3>1. lpc[l] \in Reading /\ begun' = begun
      BY <2>3 DEF RelistStore, TypeOK
    <3>2. begun[l] # NoFrame
      BY <3>1, ReadTarget DEF NoFrame
    <3> QED BY <2>0, <3>1, <3>2 DEF Position
  <2>4. CASE TickRead(l)
    <3>1. lpc[l] \notin Reading /\ begun'[l] = consumer_seq[l]
      BY <2>4 DEF TickRead, TypeOK, Reading
    <3>2. begun[l] = NoFrame
      BY <3>1 DEF CursorInv
    <3>3. Position(l) = consumer_seq[l] /\ Position(l)' = consumer_seq[l]
      BY <2>0, <3>1, <3>2 DEF Position, NoFrame
    <3> QED BY <2>0, <3>3
  <2>5. CASE Leave(l) \/ RelistLoad(l) \/ TickIdle(l) \/ CheckHit(l)
               \/ CopyLow(l) \/ CopyHigh(l)
    BY <2>1, <2>5 DEF Leave, RelistLoad, TickIdle, CheckHit, CopyLow, CopyHigh
  <2>6. ~ Join(l)
    BY DEF Join
  <2>7. ASSUME NEW k \in Listeners, Listener(k), k # l
        PROVE  ~ (Position(l)' < Position(l))
    BY <2>1, <2>7, OthersAlone
  <2>8. CASE Producer
    BY <2>1, <2>8 DEF Producer, WriteHeader, WriteLow, WriteHigh, StoreSlotSeq,
                Publish, lvars
  <2> QED
    BY <2>2, <2>3, <2>4, <2>5, <2>6, <2>7, <2>8
    DEF Next, Listener, Relist, Tick
<1> QED
  BY <1>1, RingTypes, CursorInvAlways, PTL DEF Spec, NoReplay
-----------------------------------------------------------------------------
(* The producer's stores stay out of the window: it writes a slot that     *)
(* none of the last RingSize - 1 frames is in, and publishes it whole.     *)
LEMMA WindowStep ==
  ASSUME TypeOK, WindowInv, WriteInv, [Next]_vars
  PROVE  WindowInv' /\ WriteInv'
<1> USE RingAssumption
<1>0. /\ Slot(producer_seq) \in Slots
      /\ producer_seq \in Nat
  BY FrameHasSlot DEF TypeOK
<1>1. CASE WriteHeader \/ WriteLow \/ WriteHigh \/ StoreSlotSeq
  <2>1. /\ producer_seq' = producer_seq
        /\ \A i \in Slots \ {Slot(producer_seq)} : ring'[i] = ring[i]
    BY <1>1 DEF WriteHeader, WriteLow, WriteHigh, StoreSlotSeq, TypeOK
  <2>2. WindowInv'
    <3> SUFFICES ASSUME NEW n \in 0 .. producer_seq - 1,
                        producer_seq < n + RingSize
                 PROVE  ring'[Slot(n)] = Whole(n)
      BY <2>1 DEF WindowInv
    <3>1. n \in Nat /\ n < producer_seq
      BY <1>0
    <3>2. Slot(n) # Slot(producer_seq) /\ Slot(n) \in Slots
      BY <1>0, <3>1, FramesApart, FrameHasSlot
    <3>3. ring'[Slot(n)] = ring[Slot(n)]
      BY <2>1, <3>2
    <3> QED BY <3>3 DEF WindowInv
  <2>3. WriteInv'
    BY <1>0, <1>1, <2>1
    DEF WriteHeader, WriteLow, WriteHigh, StoreSlotSeq, TypeOK, WriteInv
  <2> QED BY <2>2, <2>3
<1>2. CASE Publish
  <2>1. /\ producer_seq' = producer_seq + 1
        /\ ppc' = "header" /\ ppc = "publish"
        /\ ring' = ring
    BY <1>2 DEF Publish
  <2>2. ring[Slot(producer_seq)] = Whole(producer_seq)
    BY <1>0, <2>1 DEF WriteInv, TypeOK, Whole
  <2>3. WindowInv'
    <3> SUFFICES ASSUME NEW n \in 0 .. producer_seq,
                        producer_seq + 1 < n + RingSize
                 PROVE  ring[Slot(n)] = Whole(n)
      BY <1>0, <2>1 DEF WindowInv
    <3>1. CASE n = producer_seq
      BY <2>2, <3>1
    <3>2. CASE n # producer_seq
      <4>1. n \in 0 .. producer_seq - 1 /\ producer_seq < n + RingSize
        BY <1>0, <3>2
      <4> QED BY <4>1 DEF WindowInv
    <3> QED BY <3>1, <3>2
  <2>4. WriteInv'
    BY <2>1 DEF WriteInv
  <2> QED BY <2>3, <2>4
<1>3. CASE \E l \in Listeners : Listener(l)
  <2>1. UNCHANGED <<ring, producer_seq, ppc>>
    BY <1>3 DEF Listener, Relist, Tick, Join, Leave, RelistLoad, RelistStore,
                TickIdle, TickRead, CheckHit, CheckMiss, CopyLow, CopyHigh,
                WriteFrame
  <2> QED BY <2>1 DEF WindowInv, WriteInv
<1>4. CASE UNCHANGED vars
  BY <1>4 DEF vars, WindowInv, WriteInv
<1> QED BY <1>1, <1>2, <1>3, <1>4 DEF Next, Producer

(* The frame a prompt listener is reading is in the window throughout the  *)
(* read.                                                                   *)
LEMMA ReadInWindow ==
  ASSUME TypeOK, CursorInv, WindowInv,
         NEW l \in PromptListeners, lpc[l] \in Reading
  PROVE  ring[Slot(cs[l])] = Whole(cs[l])
<1>0. l \in Listeners /\ MaxLag + MaxStall[l] < RingSize
  BY DEF PromptListeners
<1>1. /\ cs[l] \in Nat /\ pseq[l] \in Nat /\ MaxStall[l] \in Nat
      /\ producer_seq \in Nat
      /\ cs[l] < pseq[l] /\ pseq[l] <= cs[l] + MaxLag
      /\ pseq[l] <= producer_seq /\ producer_seq <= pseq[l] + MaxStall[l]
  BY <1>0, ReadTarget
<1>2. cs[l] \in 0 .. producer_seq - 1 /\ producer_seq < cs[l] + RingSize
  BY <1>0, <1>1, RingAssumption
<1> QED BY <1>2 DEF WindowInv

(* Hence the copy a prompt listener makes, and what it writes to its       *)
(* channel, is that frame.                                                 *)
LEMMA CopyStep ==
  ASSUME TypeOK, CursorInv, WindowInv, CopyInv, IntactFrames,
         [Next]_vars
  PROVE  CopyInv' /\ IntactFrames'
<1>0. /\ producer_seq \in Nat
      /\ producer_seq' \in {producer_seq, producer_seq + 1}
  BY DEF TypeOK, Next, Producer, WriteHeader, WriteLow, WriteHigh,
         StoreSlotSeq, Publish, Listener, Relist, Tick, Join, Leave,
         RelistLoad, RelistStore, TickIdle, TickRead, CheckHit, CheckMiss,
         CopyLow, CopyHigh, WriteFrame, vars
<1>00. /\ WholeFrames \subseteq WholeFrames'
       /\ Silence \in WholeFrames'
  <2>1. \A n \in 0 .. producer_seq - 1 : n \in 0 .. producer_seq' - 1
    <3>1. CASE producer_seq' = producer_seq
      BY <3>1
    <3>2. CASE producer_seq' = producer_seq + 1
      BY <1>0, <3>2
    <3> QED BY <1>0, <3>1, <3>2
  <2> QED BY <2>1, Zenon DEF WholeFrames, Silence, Frame
<1> DEFINE Copied(k) ==
      /\ lpc[k] \in {"high", "length"} => scratch[k].low = cs[k]
      /\ lpc[k] = "length" => scratch[k].high = cs[k]
<1> SUFFICES ASSUME NEW k \in PromptListeners
             PROVE  Copied(k)' /\ heard'[k] \in WholeFrames'
  BY DEF CopyInv, IntactFrames
<1>k. k \in Listeners
  BY DEF PromptListeners
<1>i. Copied(k) /\ heard[k] \in WholeFrames
  BY DEF CopyInv, IntactFrames
<1>1. CASE Producer \/ UNCHANGED vars
  BY <1>1, <1>i, <1>00
  DEF Producer, WriteHeader, WriteLow, WriteHigh, StoreSlotSeq, Publish, lvars,
      vars
<1>2. ASSUME NEW l \in Listeners, Listener(l), k # l
      PROVE  Copied(k)' /\ heard'[k] \in WholeFrames'
  BY <1>2, <1>k, <1>i, <1>00, OthersAlone
<1>3. CASE Join(k) \/ Leave(k) \/ RelistLoad(k) \/ RelistStore(k)
             \/ TickIdle(k)
  <2>1. /\ scratch' = scratch /\ cs' = cs
        /\ lpc'[k] \in {lpc[k], "out", "tick"}
        /\ heard'[k] \in {heard[k], Silence}
    BY <1>3, <1>k DEF Join, Leave, RelistLoad, RelistStore, TickIdle, TypeOK
  <2> QED BY <2>1, <1>i, <1>00
<1>4. CASE TickRead(k) \/ CheckHit(k)
  BY <1>4, <1>k, <1>i, <1>00 DEF TickRead, CheckHit, TypeOK
<1>5. CASE CheckMiss(k)
  BY <1>5, <1>k, <1>00 DEF CheckMiss, EndRead, TypeOK
<1>6. ASSUME CopyLow(k) \/ CopyHigh(k) \/ WriteFrame(k)
      PROVE  ring[Slot(cs[k])] = Whole(cs[k])
  <2>1. lpc[k] \in Reading
    BY <1>6 DEF CopyLow, CopyHigh, WriteFrame, Reading
  <2> QED BY <2>1, ReadInWindow
<1>7. CASE CopyLow(k)
  <2>1. ring[Slot(cs[k])].low = cs[k]
    BY <1>6, <1>7 DEF Whole
  <2> QED BY <1>7, <1>k, <1>i, <1>00, <2>1 DEF CopyLow, TypeOK
<1>8. CASE CopyHigh(k)
  <2>1. ring[Slot(cs[k])].high = cs[k]
    BY <1>6, <1>8 DEF Whole
  <2> QED BY <1>8, <1>k, <1>i, <1>00, <2>1 DEF CopyHigh, TypeOK
<1>9. CASE WriteFrame(k)
  <2>1. ring[Slot(cs[k])].len = cs[k]
    BY <1>6, <1>9 DEF Whole
  <2>2. scratch[k].low = cs[k] /\ scratch[k].high = cs[k]
    BY <1>9, <1>i DEF WriteFrame
  <2>3. heard'[k] = Frame(cs[k]) /\ lpc'[k] = "tick"
    BY <1>9, <1>k, <2>1, <2>2 DEF WriteFrame, EndRead, TypeOK, Frame
  <2>4. cs[k] \in 0 .. producer_seq - 1
    <3>1. lpc[k] \in Reading
      BY <1>9 DEF WriteFrame, Reading
    <3> QED BY <3>1, <1>k, ReadTarget
  <2>5. Frame(cs[k]) \in WholeFrames
    BY <2>4 DEF WholeFrames
  <2> QED BY <2>3, <2>5, <1>00
<1> QED
  BY <1>1, <1>2, <1>3, <1>4, <1>5, <1>7, <1>8, <1>9
  DEF Next, Listener, Relist, Tick

(* The whole inductive invariant, and with it the theorem the ring exists  *)
(* for: no torn frame ever reaches a channel.                              *)
THEOREM RingInvariant ==
  Spec => [](RingInv /\ IntactFrames)
<1> DEFINE IInv == WindowInv /\ WriteInv /\ CopyInv /\ IntactFrames
<1>1. Init => IInv
  <2> SUFFICES ASSUME Init  PROVE IInv
    OBVIOUS
  <2>1. WindowInv
    BY DEF Init, WindowInv
  <2>2. WriteInv /\ CopyInv /\ IntactFrames
    BY DEF Init, WriteInv, CopyInv, IntactFrames, WholeFrames, PromptListeners
  <2> QED BY <2>1, <2>2
<1>2. TypeOK /\ CursorInv /\ IInv /\ [Next]_vars => IInv'
  BY WindowStep, CopyStep
<1>3. IInv /\ CursorInv => RingInv /\ IntactFrames
  BY DEF RingInv
<1> QED
  BY <1>1, <1>2, <1>3, RingTypes, CursorInvAlways, PTL DEF Spec

(* All that a prompt listener hands to its channel is silence or one whole *)
(* frame of the producer, for every ring size and lag bound the assumption *)
(* allows: what the ring promises its readers (IntactFrames).              *)
THEOREM FramesIntact ==
  Spec => []IntactFrames
BY RingInvariant, PTL

(* A prompt listener's sequence check never fails.                         *)
THEOREM ChecksHit ==
  Spec => []CheckNeverMisses
<1>1. TypeOK /\ RingInv => CheckNeverMisses
  <2> SUFFICES ASSUME TypeOK, RingInv, NEW l \in PromptListeners,
                      lpc[l] = "check"
               PROVE  ring[Slot(cs[l])].seq = cs[l]
    BY DEF CheckNeverMisses
  <2>1. lpc[l] \in Reading
    BY DEF Reading
  <2>2. ring[Slot(cs[l])] = Whole(cs[l])
    BY <2>1, ReadInWindow DEF RingInv
  <2> QED BY <2>2 DEF Whole
<1> QED BY <1>1, RingTypes, RingInvariant, PTL

(* A prompt listener within MaxLag of the producer hears every frame: a    *)
(* read moves it forward by exactly one (NoGapWithinLag).                  *)
THEOREM NoGap ==
  Spec => NoGapWithinLag
<1> DEFINE Steps ==
      \A l \in PromptListeners :
        /\ lpc[l] \in Reading
        /\ Position(l)' # Position(l)
        /\ pseq[l] - Position(l) <= MaxLag
        => Position(l)' = Position(l) + 1
<1>1. TypeOK /\ CursorInv /\ CheckNeverMisses /\ [Next]_vars => [Steps]_vars
  <2> SUFFICES ASSUME TypeOK, CursorInv, CheckNeverMisses, Next,
                      NEW l \in PromptListeners, lpc[l] \in Reading,
                      Position(l)' # Position(l),
                      pseq[l] - Position(l) <= MaxLag
               PROVE  Position(l)' = Position(l) + 1
    BY DEF Steps
  <2>0. l \in Listeners
    BY DEF PromptListeners
  <2>1. Position(l) = begun[l] /\ begun[l] \in Nat /\ cs[l] = begun[l]
    BY <2>0, ReadTarget
  <2>2. begun'[l] # begun[l]
    BY <2>1 DEF Position, NoFrame
  <2>3. WriteFrame(l)
    <3>1. ~ Producer
      BY <2>2 DEF Producer, WriteHeader, WriteLow, WriteHigh, StoreSlotSeq,
             Publish, lvars
    <3>2. ~ CheckMiss(l) /\ ~ TickRead(l)
      BY DEF CheckMiss, CheckNeverMisses, TickRead, Reading
    <3>3. \A k \in Listeners : k # l => ~ Listener(k)
      BY <2>0, <2>2, OthersAlone
    <3>4. ~ (Join(l) \/ Leave(l) \/ RelistLoad(l) \/ RelistStore(l))
      BY <2>2 DEF Join, Leave, RelistLoad, RelistStore
    <3>5. ~ (TickIdle(l) \/ CheckHit(l) \/ CopyLow(l) \/ CopyHigh(l))
      BY <2>2 DEF TickIdle, CheckHit, CopyLow, CopyHigh
    <3> QED
      BY <2>0, <3>1, <3>2, <3>3, <3>4, <3>5 DEF Next, Listener, Relist, Tick
  <2>4. begun'[l] = NoFrame /\ consumer_seq'[l] = cs[l] + 1
    BY <2>0, <2>3 DEF WriteFrame, EndRead, TypeOK
  <2> QED BY <2>1, <2>4 DEF Position
<1> QED
  BY <1>1, RingTypes, CursorInvAlways, ChecksHit, PTL
  DEF Spec, NoGapWithinLag
-----------------------------------------------------------------------------
(* What the abstract specification sees of the listeners.                  *)
cursors == [k \in PromptListeners |-> Position(k)]
tags == [k \in PromptListeners |-> HeardTag(heard[k])]

(* A listener's step changes what is seen of that listener at most, and    *)
(* nothing if it is not a prompt one.                                      *)
LEMMA OthersUnseen ==
  ASSUME TypeOK, NEW l \in Listeners, Listener(l)
  PROVE  /\ producer_seq' = producer_seq
         /\ \A k \in PromptListeners \ {l} :
              Position(k)' = Position(k) /\ heard'[k] = heard[k]
         /\ l \notin PromptListeners => cursors' = cursors /\ tags' = tags
<1>1. \A k \in PromptListeners : k \in Listeners
  BY DEF PromptListeners
<1>2. /\ producer_seq' = producer_seq
      /\ \A k \in PromptListeners \ {l} :
           Position(k)' = Position(k) /\ heard'[k] = heard[k]
  BY <1>1, OthersAlone DEF Position
<1> QED BY <1>1, <1>2 DEF cursors, tags

(* A step of a prompt listener that moves neither its position nor what it *)
(* heard is not seen.                                                      *)
LEMMA Unseen ==
  ASSUME TypeOK, NEW l \in PromptListeners, Listener(l),
         Position(l)' = Position(l), heard'[l] = heard[l]
  PROVE  UNCHANGED <<producer_seq, cursors, tags>>
<1>1. l \in Listeners
  BY DEF PromptListeners
<1>2. /\ producer_seq' = producer_seq
      /\ \A k \in PromptListeners :
           Position(k)' = Position(k) /\ heard'[k] = heard[k]
  BY <1>1, OthersUnseen
<1> QED BY <1>2 DEF cursors, tags

(* Every step of the ring publishes, joins, lets one prompt listener hear  *)
(* one whole frame or silence, or is invisible.                            *)
LEMMA FanoutStep ==
  ASSUME TypeOK, CursorInv, WindowInv, CopyInv, [Next]_vars
  PROVE  [Fanout!Next]_(Fanout!vars)
<1>1. CASE Publish
  BY <1>1 DEF Publish, lvars, Fanout!Next, Fanout!Publish, Position
<1>2. CASE (WriteHeader \/ WriteLow \/ WriteHigh \/ StoreSlotSeq)
             \/ UNCHANGED vars
  BY <1>2 DEF WriteHeader, WriteLow, WriteHigh, StoreSlotSeq, vars, lvars,
              Fanout!vars, Position
<1> USE DEF cursors, tags
<1>3. ASSUME NEW l \in Listeners, Listener(l), l \notin PromptListeners
      PROVE  UNCHANGED Fanout!vars
  BY <1>3, OthersUnseen DEF Fanout!vars
<1>4. ASSUME NEW l \in PromptListeners, Listener(l)
      PROVE  /\ l \in Listeners
             /\ producer_seq' = producer_seq
             /\ \A k \in PromptListeners \ {l} :
                  Position(k)' = Position(k) /\ heard'[k] = heard[k]
  BY <1>4, OthersUnseen DEF PromptListeners
<1>5. ASSUME NEW l \in PromptListeners, Join(l)
      PROVE  Fanout!Join(l)
  <2>1. Listener(l) /\ l \in Listeners
    BY <1>5 DEF Listener, PromptListeners
  <2>2. JoinCursor \in 0 .. producer_seq
    BY JoinCursorRange
  <2>3. /\ consumer_seq'[l] = JoinCursor /\ heard'[l] = Silence
        /\ begun' = begun /\ lpc[l] \notin Reading
    BY <1>5, <2>1 DEF Join, TypeOK, Reading
  <2>4. begun'[l] = NoFrame
    BY <2>1, <2>3 DEF CursorInv
  <2>5. Position(l)' = JoinCursor
    BY <2>3, <2>4 DEF Position
  <2>6. cursors' = [cursors EXCEPT ![l] = JoinCursor]
    BY <1>4, <2>1, <2>5
  <2>7. HeardTag(heard'[l]) = Fanout!Silence
    BY <2>3 DEF HeardTag, Silence, NoFrame, Fanout!Silence
  <2>8. tags' = [tags EXCEPT ![l] = Fanout!Silence]
    BY <1>4, <2>1, <2>7
  <2> QED BY <1>4, <2>1, <2>2, <2>6, <2>8 DEF Fanout!Join
<1>6. ASSUME NEW l \in PromptListeners, RelistStore(l)
      PROVE  Fanout!Relist(l) \/ UNCHANGED Fanout!vars
  <2>1. Listener(l) /\ l \in Listeners
    BY <1>6 DEF Listener, Relist, PromptListeners
  <2>2. /\ consumer_seq'[l] = rollback[l] /\ begun' = begun
        /\ heard' = heard
    BY <1>6, <2>1 DEF RelistStore, TypeOK
  <2>3. CASE begun[l] # NoFrame
    <3>1. Position(l)' = Position(l)
      BY <2>2, <2>3 DEF Position
    <3> QED BY <2>1, <2>2, <3>1, Unseen DEF Fanout!vars
  <2>4. CASE begun[l] = NoFrame
    <3>1. rollback[l] \in 0 .. producer_seq
      BY <1>6, <2>1 DEF RelistStore, TypeOK, Tags, NoFrame, CursorInv
    <3>2. Position(l)' = rollback[l]
      BY <2>2, <2>4 DEF Position
    <3>3. cursors' = [cursors EXCEPT ![l] = rollback[l]]
      BY <1>4, <2>1, <3>2
    <3>4. tags' = tags
      BY <2>2
    <3> QED BY <1>4, <2>1, <3>1, <3>3, <3>4 DEF Fanout!Relist
  <2> QED BY <2>3, <2>4
<1>7. ASSUME NEW l \in PromptListeners,
             Leave(l) \/ RelistLoad(l) \/ TickRead(l) \/ CheckHit(l)
               \/ CopyLow(l) \/ CopyHigh(l)
      PROVE  UNCHANGED Fanout!vars
  <2>1. Listener(l) /\ l \in Listeners
    BY <1>7 DEF Listener, Relist, Tick, PromptListeners
  <2>2. consumer_seq' = consumer_seq /\ heard' = heard
    BY <1>7 DEF Leave, RelistLoad, TickRead, CheckHit, CopyLow, CopyHigh
  <2>3. CASE TickRead(l)
    <3>1. lpc[l] \notin Reading /\ begun'[l] = consumer_seq[l]
      BY <2>1, <2>3 DEF TickRead, TypeOK, Reading
    <3>2. begun[l] = NoFrame /\ consumer_seq[l] \in Nat
      BY <2>1, <3>1 DEF CursorInv, TypeOK
    <3>3. Position(l)' = Position(l)
      BY <3>1, <3>2 DEF Position, NoFrame
    <3> QED BY <2>1, <2>2, <3>3, Unseen DEF Fanout!vars
  <2>4. CASE ~ TickRead(l)
    <3>1. begun' = begun
      BY <1>7, <2>4 DEF Leave, RelistLoad, CheckHit, CopyLow, CopyHigh
    <3>2. Position(l)' = Position(l)
      BY <2>2, <3>1 DEF Position
    <3> QED BY <2>1, <2>2, <3>2, Unseen DEF Fanout!vars
  <2> QED BY <2>3, <2>4
<1>8. ASSUME NEW l \in PromptListeners, TickIdle(l)
      PROVE  Fanout!Idle(l)
  <2>1. Listener(l) /\ l \in Listeners
    BY <1>8 DEF Listener, Tick, PromptListeners
  <2>2. /\ consumer_seq' = consumer_seq /\ begun' = begun
        /\ heard'[l] = Silence
    BY <1>8, <2>1 DEF TickIdle, TypeOK
  <2>3. HeardTag(heard'[l]) = Fanout!Silence
    BY <2>2 DEF HeardTag, Silence, NoFrame, Fanout!Silence
  <2>4. tags' = [tags EXCEPT ![l] = Fanout!Silence]
    BY <1>4, <2>1, <2>3
  <2>5. cursors' = cursors
    BY <2>2 DEF Position
  <2> QED BY <1>4, <2>1, <2>4, <2>5 DEF Fanout!Idle
<1>9. ASSUME NEW l \in PromptListeners, CheckMiss(l)
      PROVE  FALSE
  <2>1. lpc[l] \in Reading
    BY <1>9 DEF CheckMiss, Reading
  <2>2. ring[Slot(cs[l])] = Whole(cs[l])
    BY <2>1, ReadInWindow
  <2> QED BY <1>9, <2>2 DEF CheckMiss, Whole
<1>10. ASSUME NEW l \in PromptListeners, WriteFrame(l)
       PROVE  Fanout!Hear(l)
  <2>1. /\ Listener(l) /\ l \in Listeners
        /\ lpc[l] \in Reading
    BY <1>10 DEF Listener, Tick, WriteFrame, Reading, PromptListeners
  <2>2. /\ begun[l] \in Nat /\ cs[l] \in Nat /\ producer_seq \in Nat
        /\ Position(l) = begun[l] /\ begun[l] <= cs[l]
        /\ cs[l] < producer_seq
        /\ cs[l] = begun[l] \/ cs[l] - begun[l] >= MaxLag
    BY <2>1, ReadTarget
  <2>3. cs[l] \in cursors[l] .. producer_seq - 1
    BY <2>2
  <2>4. ring[Slot(cs[l])].len = cs[l]
    <3>1. ring[Slot(cs[l])] = Whole(cs[l])
      BY <2>1, ReadInWindow
    <3> QED BY <3>1 DEF Whole
  <2>5. scratch[l].low = cs[l] /\ scratch[l].high = cs[l]
    BY <1>10 DEF WriteFrame, CopyInv
  <2>6. /\ heard'[l] = Frame(cs[l]) /\ consumer_seq'[l] = cs[l] + 1
        /\ begun'[l] = NoFrame
    BY <1>10, <2>1, <2>4, <2>5 DEF WriteFrame, EndRead, TypeOK, Frame
  <2>7. tags' = [tags EXCEPT ![l] = cs[l]]
    <3>1. HeardTag(heard'[l]) = cs[l]
      BY <2>6 DEF HeardTag, Frame
    <3> QED BY <1>4, <2>1, <3>1
  <2>8. cursors' = [cursors EXCEPT ![l] = cs[l] + 1]
    <3>1. Position(l)' = cs[l] + 1
      BY <2>6 DEF Position
    <3> QED BY <1>4, <2>1, <3>1
  <2>9. cs[l] = cursors[l] \/ cs[l] - cursors[l] >= MaxLag
    BY <2>2
  <2> QED
    BY <1>4, <2>1, <2>3, <2>7, <2>8, <2>9 DEF Fanout!Hear
<1> QED
  BY <1>1, <1>2, <1>3, <1>5, <1>6, <1>7, <1>8, <1>9, <1>10
  DEF Next, Producer, Listener, Relist, Tick, Fanout!Next

(* The refinement itself: what the unlocked ring shows its prompt listeners*)
(* is a fan-out of whole frames in order.                                  *)
THEOREM RingImplementsFanout ==
  Spec => FanoutImplemented
<1>1. Init => Fanout!Init
  <2> SUFFICES ASSUME Init  PROVE Fanout!Init
    OBVIOUS
  <2>1. \A l \in PromptListeners : l \in Listeners
    BY DEF PromptListeners
  <2>2. \A l \in PromptListeners :
          Position(l) = 0 /\ HeardTag(heard[l]) = Fanout!Silence
    BY <2>1 DEF Init, Position, HeardTag, Silence, NoFrame, Fanout!Silence
  <2> QED BY <2>2 DEF Init, Fanout!Init
<1>2. TypeOK /\ RingInv /\ [Next]_vars => [Fanout!Next]_(Fanout!vars)
  BY FanoutStep DEF RingInv
<1> QED
  BY <1>1, <1>2, RingTypes, RingInvariant, PTL
  DEF Spec, FanoutImplemented, Fanout!Spec
=============================================================================
