--------------------------- MODULE BroadcastRing ---------------------------
(***************************************************************************)
(* The audio ring of a room: one producer thread writes frames into        *)
(* ring[seq % ring_size], any number of listener threads read them with    *)
(* cursors of their own and no lock (broadcast_producer.c, the end of      *)
(* broadcast_producer_run; broadcast_listener.c, the read path of          *)
(* broadcast_listener_run; broadcast_member.c, where broadcast_listener_add*)
(* places the cursor; broadcast_speaker.c, where the API thread that gives *)
(* up a promotion calls broadcast_listener_add for a listener whose own    *)
(* thread is still in its loop).                                           *)
(*                                                                         *)
(* The bytes of a frame are abstracted to the number of the frame they     *)
(* belong to, kept separately for the slot's seq, its datalen and the two  *)
(* halves of its data, so that a slot, or a copy of it, can be torn.  Each *)
(* store and load of a slot is a step of its own.                          *)
(***************************************************************************)
EXTENDS Integers

CONSTANTS Listeners,  \* members that may hold the listener role
          RingSize,   \* b->ring_size
          MaxLag,     \* profile max_lag_frames
          PreBuffer,  \* listener_pre_buffer_ms / interval_ms, in frames
          MaxStall,   \* [Listeners -> frames published, at most, while the
                      \* listener is between loading producer_seq and the
                      \* end of its copy]
          Overdue,    \* listeners whose thread may take more than the 200 ms
                      \* an API thread waits for it to leave its loop
          MaxSeq      \* bound: the producer stops after MaxSeq frames

ASSUME RingAssumption ==
  /\ RingSize \in Nat \ {0}
  /\ MaxLag \in Nat \ {0}
  /\ PreBuffer \in Nat
  /\ MaxStall \in [Listeners -> Nat]
  /\ Overdue \subseteq Listeners
  /\ MaxSeq \in Nat

VARIABLES ring,          \* b->ring
          producer_seq,  \* b->producer_seq
          ppc,           \* the producer's next store
          lpc,           \* each listener's next step
          consumer_seq,  \* m->consumer_seq
          rollback,      \* the cursor an API thread that rolls a promotion
                         \* back has computed and not stored, or NoFrame
          cs,            \* the listener's local copy of it
          pseq,          \* the listener's local copy of producer_seq
          scratch,       \* encode_scratch and write_frame
          begun,         \* history: the cursor the read under way was
                         \* begun at, NoFrame outside a read
          heard          \* the last frame a listener wrote to its channel

lvars == <<lpc, consumer_seq, rollback, cs, pseq, scratch, begun, heard>>
vars == <<ring, producer_seq, ppc, lvars>>

NoFrame == -1
Slots == 0 .. RingSize - 1
Tags == Nat \cup {NoFrame}
Slot(n) == n % RingSize

Silence == [len |-> NoFrame, low |-> NoFrame, high |-> NoFrame]
Frame(n) == [len |-> n, low |-> n, high |-> n]

(* A slot that holds all of frame n.                                       *)
Whole(n) == [seq |-> n, len |-> n, low |-> n, high |-> n]

(* The steps of a read during which the slot under the cursor must keep    *)
(* its frame.                                                              *)
Reading == {"check", "low", "high", "length"}

(* switch_core_alloc returns zeroed memory: every slot carries seq 0.      *)
Init ==
  /\ ring = [i \in Slots |-> [seq |-> 0, len |-> NoFrame,
                              low |-> NoFrame, high |-> NoFrame]]
  /\ producer_seq = 0
  /\ ppc = "header"
  /\ lpc = [l \in Listeners |-> "out"]
  /\ consumer_seq = [l \in Listeners |-> 0]
  /\ rollback = [l \in Listeners |-> NoFrame]
  /\ cs = [l \in Listeners |-> 0]
  /\ pseq = [l \in Listeners |-> 0]
  /\ scratch = [l \in Listeners |-> Silence]
  /\ begun = [l \in Listeners |-> NoFrame]
  /\ heard = [l \in Listeners |-> Silence]
-----------------------------------------------------------------------------
(* The producer's tick, from the slot's header to the publishing store.    *)

WriteHeader ==
  /\ ppc = "header"
  /\ producer_seq < MaxSeq
  /\ ring' = [ring EXCEPT ![Slot(producer_seq)].len = producer_seq]
  /\ ppc' = "low"
  /\ UNCHANGED <<producer_seq, lvars>>

WriteLow ==
  /\ ppc = "low"
  /\ ring' = [ring EXCEPT ![Slot(producer_seq)].low = producer_seq]
  /\ ppc' = "high"
  /\ UNCHANGED <<producer_seq, lvars>>

WriteHigh ==
  /\ ppc = "high"
  /\ ring' = [ring EXCEPT ![Slot(producer_seq)].high = producer_seq]
  /\ ppc' = "seq"
  /\ UNCHANGED <<producer_seq, lvars>>

StoreSlotSeq ==
  /\ ppc = "seq"
  /\ ring' = [ring EXCEPT ![Slot(producer_seq)].seq = producer_seq]
  /\ ppc' = "publish"
  /\ UNCHANGED <<producer_seq, lvars>>

(* The scheduler's promise: a listener is not held up in the middle of a   *)
(* read for more than MaxStall[l] frames.                                  *)
StallsBounded ==
  \A l \in Listeners :
    lpc[l] \in Reading => producer_seq < pseq[l] + MaxStall[l]

Publish ==
  /\ ppc = "publish"
  /\ StallsBounded
  /\ producer_seq' = producer_seq + 1
  /\ ppc' = "header"
  /\ UNCHANGED <<ring, lvars>>

Producer == WriteHeader \/ WriteLow \/ WriteHigh \/ StoreSlotSeq \/ Publish
-----------------------------------------------------------------------------
(* A listener.                                                             *)

(* Fault: the pre-buffer is taken back without asking how many frames      *)
(* there are.                                                              *)
JoinCursorWraps ==
  IF PreBuffer < RingSize THEN producer_seq - PreBuffer ELSE producer_seq

(* Where broadcast_listener_add places the cursor: PreBuffer frames back,  *)
(* if the pre-buffer fits the ring and more than that many frames exist.   *)
JoinCursor ==
  IF PreBuffer < RingSize /\ producer_seq > PreBuffer
  THEN producer_seq - PreBuffer
  ELSE producer_seq

(* The listener's own thread joins.  listener_lock keeps it out while an   *)
(* API thread is between its load and its store below.                     *)
Join(l) ==
  /\ lpc[l] = "out"
  /\ rollback[l] = NoFrame
  /\ consumer_seq' = [consumer_seq EXCEPT ![l] = JoinCursor]
  /\ lpc' = [lpc EXCEPT ![l] = "tick"]
  /\ heard' = [heard EXCEPT ![l] = Silence]
  /\ UNCHANGED <<ring, producer_seq, ppc, rollback, cs, pseq, scratch, begun>>

Leave(l) ==
  /\ lpc[l] = "tick"
  /\ lpc' = [lpc EXCEPT ![l] = "out"]
  /\ UNCHANGED <<ring, producer_seq, ppc, consumer_seq, rollback, cs, pseq,
                 scratch, begun, heard>>

(* The rollback of a promotion the listener's thread did not answer in     *)
(* time: the API thread adds the listener again.  It last looked at        *)
(* in_listener_bridge some steps before, so the listener's thread may be   *)
(* anywhere: in its loop, between the load and the store of its cursor, or *)
(* out of it by now.                                                       *)
RelistLoad(l) ==
  /\ l \in Overdue
  /\ rollback[l] = NoFrame
  /\ rollback' = [rollback EXCEPT ![l] = JoinCursor]
  /\ UNCHANGED <<ring, producer_seq, ppc, lpc, consumer_seq, cs, pseq,
                 scratch, begun, heard>>

RelistStore(l) ==
  /\ rollback[l] # NoFrame
  /\ consumer_seq' = [consumer_seq EXCEPT ![l] = rollback[l]]
  /\ rollback' = [rollback EXCEPT ![l] = NoFrame]
  /\ UNCHANGED <<ring, producer_seq, ppc, lpc, cs, pseq, scratch, begun,
                 heard>>

(* Fault: a late listener is left where it is.                             *)
ResyncedNever(c, p) == c

(* The cursor a tick reads at: one frame before the newest for a listener  *)
(* more than max_lag behind.                                               *)
Resynced(c, p) == IF p - c > MaxLag THEN p - 1 ELSE c

(* The timer fired: load the cursor and producer_seq.  With no new frame   *)
(* the tick writes silence.                                                *)
TickIdle(l) ==
  /\ lpc[l] = "tick"
  /\ consumer_seq[l] >= producer_seq
  /\ heard' = [heard EXCEPT ![l] = Silence]
  /\ UNCHANGED <<ring, producer_seq, ppc, lpc, consumer_seq, rollback, cs,
                 pseq, scratch, begun>>

(* Fault: the newest frame does not count as one to read.                  *)
TickReadLagging(l) ==
  /\ lpc[l] = "tick"
  /\ consumer_seq[l] + 1 < producer_seq
  /\ pseq' = [pseq EXCEPT ![l] = producer_seq]
  /\ cs' = [cs EXCEPT ![l] = Resynced(consumer_seq[l], producer_seq)]
  /\ begun' = [begun EXCEPT ![l] = consumer_seq[l]]
  /\ lpc' = [lpc EXCEPT ![l] = "check"]
  /\ UNCHANGED <<ring, producer_seq, ppc, consumer_seq, rollback, scratch,
                 heard>>

TickRead(l) ==
  /\ lpc[l] = "tick"
  /\ consumer_seq[l] < producer_seq
  /\ pseq' = [pseq EXCEPT ![l] = producer_seq]
  /\ cs' = [cs EXCEPT ![l] = Resynced(consumer_seq[l], producer_seq)]
  /\ begun' = [begun EXCEPT ![l] = consumer_seq[l]]
  /\ lpc' = [lpc EXCEPT ![l] = "check"]
  /\ UNCHANGED <<ring, producer_seq, ppc, consumer_seq, rollback, scratch,
                 heard>>

(* The slot's seq is compared with the cursor before the copy, and not     *)
(* again after it.                                                         *)
CheckHit(l) ==
  /\ lpc[l] = "check"
  /\ ring[Slot(cs[l])].seq = cs[l]
  /\ lpc' = [lpc EXCEPT ![l] = "low"]
  /\ UNCHANGED <<ring, producer_seq, ppc, consumer_seq, rollback, cs, pseq,
                 scratch, begun, heard>>

(* A read ends: cs and pseq are locals of one tick, and every tick fills   *)
(* the scratch buffer anew.                                                *)
EndRead(l) ==
  /\ lpc' = [lpc EXCEPT ![l] = "tick"]
  /\ cs' = [cs EXCEPT ![l] = 0]
  /\ pseq' = [pseq EXCEPT ![l] = 0]
  /\ scratch' = [scratch EXCEPT ![l] = Silence]
  /\ begun' = [begun EXCEPT ![l] = NoFrame]

(* Fault: a mismatch rewinds the cursor by a ring.                         *)
CheckMissRewinds(l) ==
  /\ lpc[l] = "check"
  /\ ring[Slot(cs[l])].seq # cs[l]
  /\ heard' = [heard EXCEPT ![l] = Silence]
  /\ consumer_seq' = [consumer_seq EXCEPT ![l] = pseq[l] - RingSize]
  /\ EndRead(l)
  /\ UNCHANGED <<ring, producer_seq, ppc, rollback>>

(* On a mismatch the tick writes silence and the cursor jumps to pseq.     *)
CheckMiss(l) ==
  /\ lpc[l] = "check"
  /\ ring[Slot(cs[l])].seq # cs[l]
  /\ heard' = [heard EXCEPT ![l] = Silence]
  /\ consumer_seq' = [consumer_seq EXCEPT ![l] = pseq[l]]
  /\ EndRead(l)
  /\ UNCHANGED <<ring, producer_seq, ppc, rollback>>

CopyLow(l) ==
  /\ lpc[l] = "low"
  /\ scratch' = [scratch EXCEPT ![l].low = ring[Slot(cs[l])].low]
  /\ lpc' = [lpc EXCEPT ![l] = "high"]
  /\ UNCHANGED <<ring, producer_seq, ppc, consumer_seq, rollback, cs, pseq,
                 begun, heard>>

CopyHigh(l) ==
  /\ lpc[l] = "high"
  /\ scratch' = [scratch EXCEPT ![l].high = ring[Slot(cs[l])].high]
  /\ lpc' = [lpc EXCEPT ![l] = "length"]
  /\ UNCHANGED <<ring, producer_seq, ppc, consumer_seq, rollback, cs, pseq,
                 begun, heard>>

(* Fault: the frame is written with the length the buffer had before.      *)
WriteFrameStale(l) ==
  /\ lpc[l] = "length"
  /\ heard' = [heard EXCEPT ![l] = scratch[l]]
  /\ consumer_seq' = [consumer_seq EXCEPT ![l] = cs[l] + 1]
  /\ EndRead(l)
  /\ UNCHANGED <<ring, producer_seq, ppc, rollback>>

(* datalen is loaded again after the copy; then the cursor is stored and   *)
(* the frame written to the channel.                                       *)
WriteFrame(l) ==
  /\ lpc[l] = "length"
  /\ heard' = [heard EXCEPT
                 ![l] = [scratch[l] EXCEPT !.len = ring[Slot(cs[l])].len]]
  /\ consumer_seq' = [consumer_seq EXCEPT ![l] = cs[l] + 1]
  /\ EndRead(l)
  /\ UNCHANGED <<ring, producer_seq, ppc, rollback>>

Tick(l) == TickIdle(l) \/ TickRead(l) \/ CheckHit(l) \/ CheckMiss(l)
             \/ CopyLow(l) \/ CopyHigh(l) \/ WriteFrame(l)

Relist(l) == RelistLoad(l) \/ RelistStore(l)

Listener(l) == Join(l) \/ Leave(l) \/ Relist(l) \/ Tick(l)

Next == Producer \/ \E l \in Listeners : Listener(l)

(* Producer and listeners are paced by timers of their own: a thread that  *)
(* is due runs.  Nothing forces a listener to join or to leave, or an API  *)
(* thread to go on.                                                        *)
Fairness ==
  /\ WF_vars(Producer)
  /\ \A l \in Listeners : WF_vars(Tick(l))

Spec == Init /\ [][Next]_vars
FairSpec == Spec /\ Fairness
-----------------------------------------------------------------------------
TypeOK ==
  /\ ring \in [Slots -> [seq : Nat, len : Tags, low : Tags, high : Tags]]
  /\ producer_seq \in Nat
  /\ ppc \in {"header", "low", "high", "seq", "publish"}
  /\ lpc \in [Listeners -> {"out", "tick"} \cup Reading]
  /\ consumer_seq \in [Listeners -> Nat]
  /\ rollback \in [Listeners -> Tags]
  /\ cs \in [Listeners -> Nat]
  /\ pseq \in [Listeners -> Nat]
  /\ scratch \in [Listeners -> [len : Tags, low : Tags, high : Tags]]
  /\ begun \in [Listeners -> Tags]
  /\ heard \in [Listeners -> [len : Tags, low : Tags, high : Tags]]

(* The listeners the ring is large enough for: the lag they are allowed    *)
(* before a resync, plus the frames published while they copy, stays below *)
(* the ring's size.  Nothing in the configuration enforces it.             *)
PromptListeners == {l \in Listeners : MaxLag + MaxStall[l] < RingSize}

(* Where a listener is in the stream: the frame its next read looks for,   *)
(* or the one the read under way began at.  (A cursor another thread       *)
(* stores in the middle of a read is overwritten by the store that ends    *)
(* it, and is never read at.)                                              *)
Position(l) == IF begun[l] = NoFrame THEN consumer_seq[l] ELSE begun[l]

WholeFrames == {Silence} \cup {Frame(n) : n \in 0 .. producer_seq - 1}

(* Everything a prompt listener writes to its channel is silence or one    *)
(* whole published frame: its unlocked copy of a slot the producer may be  *)
(* rewriting never tears, whatever the other, slower listeners do and      *)
(* whoever moves its cursor meanwhile.                                     *)
IntactFrames == \A l \in PromptListeners : heard[l] \in WholeFrames

(* The same for every listener: what the sequence number in a slot is said *)
(* to ensure ("a torn-read detector").                                     *)
TornReadsDetected == \A l \in Listeners : heard[l] \in WholeFrames

(* The slot's sequence check never fails for a prompt listener: its tick   *)
(* finds the frame its cursor names still in the ring ("it should fire     *)
(* never or vanishingly rarely").                                          *)
CheckNeverMisses ==
  \A l \in PromptListeners :
    lpc[l] = "check" => ring[Slot(cs[l])].seq = cs[l]

(* A cursor never runs ahead of the frames published, whatever path moved  *)
(* it (join, resync, check failure, normal advance).                       *)
CursorBehindProducer ==
  \A l \in Listeners : consumer_seq[l] <= producer_seq

(* No tick takes a listener back to a frame it has been past, whether it   *)
(* reads, resyncs or misses, and however long it stalls.  A listener in    *)
(* its loop goes back only by an API thread's rollback of a promotion that *)
(* timed out, and only when that thread's store falls between two reads.   *)
NoReplay ==
  [][\A l \in Listeners :
       lpc[l] # "out" /\ Position(l)' < Position(l)
         => RelistStore(l) /\ lpc[l] = "tick"]_vars

(* A prompt listener that is not more than MaxLag behind when it looks     *)
(* misses no frame: a read moves it forward by exactly one.                *)
NoGapWithinLag ==
  [][\A l \in PromptListeners :
       /\ lpc[l] \in Reading
       /\ Position(l)' # Position(l)
       /\ pseq[l] - Position(l) <= MaxLag
       => Position(l)' = Position(l) + 1]_vars

(* Once the producer stops, every listener that stays, and that no API     *)
(* thread re-lists for ever, reads up to the last frame: a lag, or a       *)
(* cursor put back, never becomes permanent silence.                       *)
Drains ==
  \A l \in Listeners :
    <>[](rollback[l] = NoFrame) =>
      (producer_seq = MaxSeq ~>
         (consumer_seq[l] = producer_seq \/ lpc[l] = "out"))
-----------------------------------------------------------------------------
(* The inductive invariant behind these properties, in four parts.         *)

(* A read starts from the cursor and never from a frame not yet published; *)
(* the producer is at most MaxStall[l] frames past the snapshot it uses.   *)
(* begun is set exactly during a read.                                     *)
CursorInv ==
  \A l \in Listeners :
    /\ consumer_seq[l] <= producer_seq
    /\ rollback[l] <= producer_seq
    /\ lpc[l] \notin Reading => begun[l] = NoFrame
    /\ lpc[l] \in Reading =>
         /\ begun[l] \in 0 .. pseq[l] - 1
         /\ pseq[l] <= producer_seq
         /\ producer_seq <= pseq[l] + MaxStall[l]
         /\ cs[l] = Resynced(begun[l], pseq[l])

(* The last RingSize - 1 published frames are whole in their slots.        *)
WindowInv ==
  \A n \in 0 .. producer_seq - 1 :
    producer_seq < n + RingSize =>
      ring[Slot(n)] = Whole(n)

(* What the producer has stored so far of the frame it is writing.         *)
WriteInv ==
  LET s == ring[Slot(producer_seq)] IN
  /\ ppc \in {"low", "high", "seq", "publish"} => s.len = producer_seq
  /\ ppc \in {"high", "seq", "publish"} => s.low = producer_seq
  /\ ppc \in {"seq", "publish"} => s.high = producer_seq
  /\ ppc = "publish" => s.seq = producer_seq

(* What a prompt listener has copied so far of the frame it is reading.    *)
CopyInv ==
  \A l \in PromptListeners :
    /\ lpc[l] \in {"high", "length"} => scratch[l].low = cs[l]
    /\ lpc[l] = "length" => scratch[l].high = cs[l]

(* The four parts together: what makes the unlocked reads safe.            *)
RingInv == CursorInv /\ WindowInv /\ WriteInv /\ CopyInv
-----------------------------------------------------------------------------
(* What a listener heard, as the abstract specification tells it.          *)
HeardTag(f) ==
  IF f.low = f.len /\ f.high = f.len THEN f.len ELSE -2

Fanout == INSTANCE FrameFanout
            WITH Listeners <- PromptListeners,
                 published <- producer_seq,
                 cursor <- [l \in PromptListeners |-> Position(l)],
                 heard <- [l \in PromptListeners |-> HeardTag(heard[l])]

(* The ring with its slots, copies and races implements, for its prompt    *)
(* listeners, the fan-out of whole frames.                                 *)
FanoutImplemented == Fanout!Spec
=============================================================================
