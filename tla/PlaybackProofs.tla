--------------------------- MODULE PlaybackProofs ---------------------------
(***************************************************************************)
(* Proofs about Playback, for any number of callers, any buffer and any    *)
(* number of files: types, that no file but play_fh's stays open and none  *)
(* is closed twice, that a freed room has left none open unless one was    *)
(* played after the last stop, and that an order given before a tick is    *)
(* obeyed by its frame.                                                    *)
(***************************************************************************)
EXTENDS Playback, TLAPS

(* An order that has held since the tick began is still in force; a muted  *)
(* speaker may have left the slot.                                         *)
HeldInForce ==
  /\ "pause" \in held => paused
  /\ "stop" \in held => play_fh # "open"
  /\ "mute" \in held => muted \/ ~ speaker

(* What the tick under way has made of the orders that held all along.     *)
TickObeys ==
  /\ ppc = "play" => source = "none"
  /\ ppc \in {"speak", "fill"} /\ "pause" \in held => snap
  /\ ppc \in {"snap", "speak", "fill"} /\ "stop" \in held => source # "file"
  /\ ppc \in {"snap", "speak"} => source \in {"none", "file"}
  /\ ppc = "fill" /\ "mute" \in held => source # "speech"

(* A handle is given up when it is closed, and nothing but a late play     *)
(* opens one after the destroy's last stop.                                *)
HandleKept ==
  /\ files = IF play_fh = "open" THEN 1 ELSE 0
  /\ play_fh # "closed"
  /\ dpc \in Stopped /\ play_fh = "open" => lateplay

PlayInv == TypeOK /\ HandleKept /\ HeldInForce /\ TickObeys /\ OrdersObeyed

(* The Boolean variables.                                                  *)
Flags ==
  /\ playing \in BOOLEAN /\ paused \in BOOLEAN
  /\ moh_open \in BOOLEAN /\ moh \in BOOLEAN
  /\ speaker \in BOOLEAN /\ muted \in BOOLEAN
  /\ destroyed \in BOOLEAN /\ snap \in BOOLEAN /\ lateplay \in BOOLEAN

(* Each step of the producer's tick.                                       *)
LEMMA ProducerKeeps ==
  ASSUME PlayInv, Producer
  PROVE  PlayInv'
<1> USE PlaybackAssumption
    DEF PlayInv, TypeOK, HandleKept, HeldInForce, TickObeys,
        OrdersObeyed, Sources, Stopped, play, policy, speech, tick, ends
<1>1. CASE LoopTop
  BY <1>1 DEF LoopTop, InForce
<1>2. CASE ReadFile
  BY <1>2 DEF ReadFile
<1>3. CASE FileEnds
  <2>1. Flags'
    BY <1>3 DEF FileEnds, Closed, Flags
  <2>2. TypeOK'
    BY <1>3, <2>1 DEF FileEnds, Closed, Flags
  <2>3. HandleKept' /\ HeldInForce'
    BY <1>3 DEF FileEnds, Closed
  <2>4. TickObeys' /\ OrdersObeyed'
    BY <1>3 DEF FileEnds, Closed
  <2> QED BY <2>2, <2>3, <2>4
<1>4. CASE NoFile
  BY <1>4 DEF NoFile
<1>5. CASE Snapshot
  BY <1>5 DEF Snapshot
<1>6. CASE ReadSpeaker
  BY <1>6 DEF ReadSpeaker, TakesSpeech
<1>7. CASE Fill
  <2>1. Flags'
    BY <1>7 DEF Fill, IsSilent, Flags
  <2>2. TypeOK'
    BY <1>7, <2>1 DEF Fill, IsSilent, Flags
  <2>3. HandleKept' /\ HeldInForce'
    BY <1>7 DEF Fill, IsSilent
  <2>4. TickObeys' /\ OrdersObeyed'
    BY <1>7 DEF Fill, IsSilent
  <2> QED BY <2>2, <2>3, <2>4
<1>8. CASE Publish
  BY <1>8 DEF Publish
<1> QED BY <1>1, <1>2, <1>3, <1>4, <1>5, <1>6, <1>7, <1>8 DEF Producer

(* The API commands.                                                       *)
LEMMA CommandKeeps ==
  ASSUME PlayInv, NEW c \in Callers, Pin(c) \/ Command(c)
  PROVE  PlayInv'
<1> USE PlaybackAssumption
    DEF PlayInv, TypeOK, HandleKept, HeldInForce, TickObeys,
        OrdersObeyed, Sources, Stopped, play, policy, speech, tick, ends
<1>1. CASE Pin(c)
  BY <1>1 DEF Pin
<1>2. CASE Play(c)
  <2>1. Flags'
    BY <1>2 DEF Play, Lifted, Return, Flags
  <2>2. TypeOK'
    <3>1. files' \in Int /\ opens' \in 0 .. MaxOpens
      BY <1>2 DEF Play, Closed
    <3>2. held' \subseteq held /\ pinned' \in SUBSET Callers
      BY <1>2 DEF Play, Lifted, Return
    <3> QED BY <1>2, <2>1, <3>1, <3>2 DEF Play, Flags
  <2>3. HandleKept' /\ HeldInForce'
    <3>1. dpc \in Stopped => lateplay'
      BY <1>2, Zenon DEF Play
    <3>2. files' = 1 /\ play_fh' = "open" /\ dpc' = dpc
      BY <1>2 DEF Play, Closed
    <3>3. HandleKept'
      BY <3>1, <3>2
    <3> QED BY <1>2, <3>3 DEF Play, Lifted
  <2>4. TickObeys' /\ OrdersObeyed'
    BY <1>2 DEF Play, Lifted, Return
  <2> QED BY <2>2, <2>3, <2>4
<1>3. CASE PlayFails(c)
  BY <1>3 DEF PlayFails, Closed, Return
<1>4. CASE StopPlay(c)
  <2>1. Flags'
    BY <1>4 DEF StopPlay, StopFile, Closed, Return, Flags
  <2>2. TypeOK'
    BY <1>4, <2>1 DEF StopPlay, StopFile, Closed, Return, Flags
  <2>3. HandleKept' /\ HeldInForce'
    BY <1>4 DEF StopPlay, StopFile, Closed, Return
  <2>4. TickObeys' /\ OrdersObeyed'
    BY <1>4 DEF StopPlay, StopFile, Closed, Return
  <2> QED BY <2>2, <2>3, <2>4
<1>5. CASE Pause(c)
  BY <1>5 DEF Pause, Return
<1>6. CASE Resume(c)
  <2>1. Flags'
    BY <1>6 DEF Resume, Lifted, Return, Flags
  <2>2. TypeOK'
    BY <1>6, <2>1 DEF Resume, Lifted, Return, Flags
  <2>3. HandleKept' /\ HeldInForce'
    BY <1>6 DEF Resume, Lifted, Return
  <2>4. TickObeys' /\ OrdersObeyed'
    BY <1>6 DEF Resume, Lifted, Return
  <2> QED BY <2>2, <2>3, <2>4
<1> QED BY <1>1, <1>2, <1>3, <1>4, <1>5, <1>6 DEF Command

(* The speaker and its input thread.                                       *)
LEMMA SpeakerKeeps ==
  ASSUME PlayInv, Speaker
  PROVE  PlayInv'
<1> USE PlaybackAssumption
    DEF PlayInv, TypeOK, HandleKept, HeldInForce, TickObeys,
        OrdersObeyed, Sources, Stopped, play, policy, speech, tick, ends
<1>1. CASE SpeakerSet
  <2>1. Flags'
    BY <1>1 DEF SpeakerSet, Lifted, Flags
  <2>2. TypeOK'
    BY <1>1, <2>1 DEF SpeakerSet, Lifted, Flags
  <2>3. HandleKept' /\ HeldInForce'
    BY <1>1 DEF SpeakerSet, Lifted
  <2>4. TickObeys' /\ OrdersObeyed'
    BY <1>1 DEF SpeakerSet, Lifted
  <2> QED BY <2>2, <2>3, <2>4
<1>2. CASE SpeakerGone
  <2>1. Flags'
    BY <1>2 DEF SpeakerGone, Flags
  <2>2. TypeOK'
    BY <1>2, <2>1 DEF SpeakerGone, Flags
  <2>3. HandleKept' /\ HeldInForce'
    BY <1>2 DEF SpeakerGone
  <2>4. TickObeys' /\ OrdersObeyed'
    BY <1>2 DEF SpeakerGone
  <2> QED BY <2>2, <2>3, <2>4
<1>3. CASE Hear
  BY <1>3 DEF Hear
<1>4. CASE MuteToggle
  <2>1. Flags'
    BY <1>4 DEF MuteToggle, Lifted, Flags
  <2>2. TypeOK'
    BY <1>4, <2>1 DEF MuteToggle, Lifted, Flags
  <2>3. HandleKept' /\ HeldInForce'
    BY <1>4 DEF MuteToggle, Lifted
  <2>4. TickObeys' /\ OrdersObeyed'
    BY <1>4 DEF MuteToggle, Lifted
  <2> QED BY <2>2, <2>3, <2>4
<1> QED BY <1>1, <1>2, <1>3, <1>4 DEF Speaker

(* The steps of a destroy.                                                 *)
LEMMA DestroyerKeeps ==
  ASSUME PlayInv, Destroyer
  PROVE  PlayInv'
<1> USE PlaybackAssumption
    DEF PlayInv, TypeOK, HandleKept, HeldInForce, TickObeys,
        OrdersObeyed, Sources, Stopped, play, policy, speech, tick, ends
<1>1. CASE BeginDestroy
  BY <1>1 DEF BeginDestroy
<1>2. CASE Announce
  <2>1. Flags'
    BY <1>2 DEF Announce, Closed, Lifted, Flags
  <2>2. TypeOK'
    <3>1. files' \in Nat /\ opens' \in 0 .. MaxOpens
      BY <1>2 DEF Announce, Closed
    <3>2. play_fh' \in {"null", "unopened", "open"} /\ held' \subseteq held
      BY <1>2 DEF Announce, Lifted
    <3> QED BY <1>2, <2>1, <3>1, <3>2 DEF Announce, Flags
  <2>3. HandleKept' /\ HeldInForce'
    BY <1>2 DEF Announce, Closed, Lifted
  <2>4. TickObeys' /\ OrdersObeyed'
    BY <1>2 DEF Announce, Closed, Lifted
  <2> QED BY <2>2, <2>3, <2>4
<1>3. CASE EndGrace
  <2>1. Flags'
    BY <1>3 DEF EndGrace, StopFile, Closed, Flags
  <2>2. TypeOK'
    BY <1>3, <2>1 DEF EndGrace, StopFile, Closed, Flags
  <2>3. HandleKept' /\ HeldInForce'
    BY <1>3 DEF EndGrace, StopFile, Closed
  <2>4. TickObeys' /\ OrdersObeyed'
    BY <1>3 DEF EndGrace, StopFile, Closed
  <2> QED BY <2>2, <2>3, <2>4
<1>4. CASE MarkDestroyed
  BY <1>4 DEF MarkDestroyed
<1>5. CASE StopAgain
  <2>1. Flags'
    BY <1>5 DEF StopAgain, StopFile, Closed, Flags
  <2>2. TypeOK'
    BY <1>5, <2>1 DEF StopAgain, StopFile, Closed, Flags
  <2>3. HandleKept' /\ HeldInForce'
    BY <1>5 DEF StopAgain, StopFile, Closed
  <2>4. TickObeys' /\ OrdersObeyed'
    BY <1>5 DEF StopAgain, StopFile, Closed
  <2> QED BY <2>2, <2>3, <2>4
<1>6. CASE CloseMoh
  <2>1. Flags'
    BY <1>6 DEF CloseMoh, Flags
  <2>2. TypeOK'
    BY <1>6, <2>1 DEF CloseMoh, Flags
  <2>3. HandleKept' /\ HeldInForce'
    BY <1>6 DEF CloseMoh
  <2>4. TickObeys' /\ OrdersObeyed'
    BY <1>6 DEF CloseMoh
  <2> QED BY <2>2, <2>3, <2>4
<1>7. CASE Evict
  <2>1. Flags'
    BY <1>7 DEF Evict, Flags
  <2>2. TypeOK'
    BY <1>7, <2>1 DEF Evict, Flags
  <2>3. HandleKept' /\ HeldInForce'
    BY <1>7 DEF Evict
  <2>4. TickObeys' /\ OrdersObeyed'
    BY <1>7 DEF Evict
  <2> QED BY <2>2, <2>3, <2>4
<1>8. CASE Drain
  BY <1>8 DEF Drain
<1>9. CASE JoinProducer
  BY <1>9 DEF JoinProducer
<1> QED BY <1>1, <1>2, <1>3, <1>4, <1>5, <1>6, <1>7, <1>8, <1>9 DEF Destroyer

(* The inductive invariant: types, files, and how far the tick under way   *)
(* has obeyed.                                                             *)
THEOREM PlayInvariant == Spec => []PlayInv
<1>1. Init => PlayInv
  <2> SUFFICES ASSUME Init  PROVE PlayInv
    OBVIOUS
  <2>1. Flags
    BY DEF Init, Flags
  <2>2. TypeOK
    BY <2>1, PlaybackAssumption DEF Init, Flags, TypeOK, Sources
  <2>3. HandleKept /\ HeldInForce /\ TickObeys /\ OrdersObeyed
    BY DEF Init, HandleKept, HeldInForce, TickObeys, OrdersObeyed
  <2> QED BY <2>2, <2>3 DEF PlayInv
<1>2. PlayInv /\ [Next]_vars => PlayInv'
  <2> SUFFICES ASSUME PlayInv, [Next]_vars  PROVE PlayInv'
    OBVIOUS
  <2>1. CASE UNCHANGED vars
    BY <2>1
    DEF vars, play, policy, speech, tick, ends, PlayInv, TypeOK,
        HandleKept, HeldInForce, TickObeys, OrdersObeyed, Sources
  <2> QED BY <2>1, ProducerKeeps, CommandKeeps, SpeakerKeeps, DestroyerKeeps
       DEF Next
<1> QED BY <1>1, <1>2, PTL DEF Spec

(* The variables of what a room plays keep their types, and the speaker's  *)
(* buffer is never read below empty nor filled above its size.             *)
THEOREM PlaybackTypes == Spec => []TypeOK
<1>1. PlayInv => TypeOK
  BY DEF PlayInv
<1> QED BY <1>1, PlayInvariant, PTL

(* play, failed play, stop_play, the end of a file, the announcement and   *)
(* the destroy leave no file open but the one that play_fh refers to and   *)
(* close none twice; and that one is open in a freed room only if a caller *)
(* played it after the destroy's last stop.                                *)
THEOREM FilesOwned == Spec => []FilesAccounted
<1>1. PlayInv => FilesAccounted
  BY DEF PlayInv, HandleKept, FilesAccounted, Stopped
<1> QED BY <1>1, PlayInvariant, PTL

(* The frame of a tick obeys every pause, stop and mute that has been in   *)
(* force since the tick began.                                             *)
THEOREM FramesObey == Spec => []OrdersObeyed
<1>1. PlayInv => OrdersObeyed
  BY DEF PlayInv
<1> QED BY <1>1, PlayInvariant, PTL
=============================================================================
