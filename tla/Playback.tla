------------------------------ MODULE Playback ------------------------------
(***************************************************************************)
(* What a room plays: the producer's choice, tick by tick, between the     *)
(* file being played, the speaker and the silence policy                   *)
(* (broadcast_producer.c), against the API threads that play, stop, pause  *)
(* and resume (broadcast_api.c), the speaker's own thread that toggles its *)
(* mute, the input thread that fills the speaker's buffer, and a destroyer *)
(* that announces, stops and closes everything (broadcast_core.c).         *)
(*                                                                         *)
(* A frame is abstracted to what it was made of, a file handle to whether  *)
(* it is open.  API callers hold a pin from before the room began to die   *)
(* until they return.  switch_core_file_read and switch_core_file_close    *)
(* are taken to refuse a handle that was never opened, or is closed, with  *)
(* a status, and not to abort.                                             *)
(***************************************************************************)
EXTENDS Integers, Sequences, FiniteSets

CONSTANTS Callers,       \* threads in API commands
          BufferFrames,  \* frames the speaker's audio_buffer holds
          MaxOpens       \* bound: files that play and announce open

ASSUME PlaybackAssumption ==
  /\ BufferFrames \in Nat \ {0}
  /\ MaxOpens \in Nat

VARIABLES playing,    \* BFLAG_PLAY_FILE
          paused,     \* BFLAG_PAUSE
          play_fh,    \* the handle: "null", "unopened", "open" or "closed"
          moh_open,   \* b->moh_open
          moh,        \* silence-policy is moh:<file>
          speaker,    \* b->current_speaker is set
          muted,      \* the speaker's MFLAG_MUTED_SPEAKER
          buffer,     \* frames in the speaker's audio_buffer
          destroyed,  \* b->destroyed
          pinned,     \* the callers that hold a pin
          ppc,        \* the producer's next step
          source,     \* what the tick's frame is made of so far
          snap,       \* cflags_snap & BFLAG_PAUSE
          dpc,        \* the destroyer's next step
          files,      \* history: files opened less closes of such files
          opens,      \* history: files opened so far
          lateplay,   \* history: a play came after the destroy's last stop
          held        \* history: the orders in force since the tick began

play == <<playing, play_fh, files, opens, lateplay>>
policy == <<moh_open, moh>>
speech == <<speaker, muted, buffer>>
tick == <<ppc, source, snap>>
ends == <<destroyed, dpc, pinned>>
vars == <<play, paused, policy, speech, tick, ends, held>>

(* What a listener is owed: no sound, no file, or no speech.               *)
InForce ==
  (IF paused THEN {"pause"} ELSE {})
    \cup (IF play_fh # "open" THEN {"stop"} ELSE {})
    \cup (IF muted THEN {"mute"} ELSE {})

Lifted(order) == held' = held \ {order}

Init ==
  /\ playing = FALSE /\ paused = FALSE /\ play_fh = "null"
  /\ moh_open = FALSE /\ moh \in BOOLEAN
  /\ speaker = FALSE /\ muted = FALSE /\ buffer = 0
  /\ destroyed = FALSE /\ dpc = "none" /\ pinned = {}
  /\ ppc = "loop" /\ source = "none" /\ snap = FALSE
  /\ files = 0 /\ opens = 0 /\ lateplay = FALSE
  /\ held = {}
-----------------------------------------------------------------------------
(* The producer's tick.                                                    *)

LoopTop ==
  /\ ppc = "loop"
  /\ ppc' = IF destroyed THEN "gone" ELSE "play"
  /\ source' = "none"
  /\ held' = InForce
  /\ UNCHANGED <<play, paused, policy, speech, snap, ends>>

(* switch_core_file_close, counted whenever it is called on a handle that  *)
(* was opened once, be it closed by then.                                  *)
Closed(n) == IF play_fh \in {"open", "closed"} THEN n - 1 ELSE n

(* Under play_mutex: the file's next frame.                                *)
ReadFile ==
  /\ ppc = "play"
  /\ playing /\ play_fh = "open"
  /\ source' = "file"
  /\ ppc' = "snap"
  /\ UNCHANGED <<play, paused, policy, speech, snap, ends, held>>

(* Fault: the end of a file is left to the next play.                      *)
FileEndsKept ==
  /\ ppc = "play"
  /\ playing /\ play_fh # "null"
  /\ ppc' = "snap"
  /\ UNCHANGED <<play, paused, policy, speech, source, snap, ends, held>>

(* Under play_mutex: the file is at its end, cannot be read, or never was  *)
(* opened, a handle whose read and close the switch refuses.               *)
FileEnds ==
  /\ ppc = "play"
  /\ playing /\ play_fh # "null"
  /\ files' = Closed(files)
  /\ play_fh' = "null"
  /\ playing' = FALSE
  /\ ppc' = "snap"
  /\ UNCHANGED <<opens, lateplay, paused, policy, speech, source, snap, ends,
                 held>>

NoFile ==
  /\ ppc = "play"
  /\ ~ playing \/ play_fh = "null"
  /\ ppc' = "snap"
  /\ UNCHANGED <<play, paused, policy, speech, source, snap, ends, held>>

Snapshot ==
  /\ ppc = "snap"
  /\ snap' = paused
  /\ ppc' = "speak"
  /\ UNCHANGED <<play, paused, policy, speech, source, ends, held>>

(* The tick turns to the speaker.                                          *)
TakesSpeech == source = "none" /\ speaker /\ ~ snap

(* Fault: an empty buffer is read like another.                            *)
ReadSpeakerEmpty ==
  /\ ppc = "speak"
  /\ buffer' = IF TakesSpeech /\ ~ muted THEN buffer - 1 ELSE buffer
  /\ source' = IF TakesSpeech /\ ~ muted THEN "speech" ELSE source
  /\ ppc' = "fill"
  /\ UNCHANGED <<play, paused, policy, speaker, muted, snap, ends, held>>

(* Under speaker_lock and audio_in_mutex: a muted speaker's buffer is      *)
(* emptied, another's next frame is taken.                                 *)
ReadSpeaker ==
  /\ ppc = "speak"
  /\ buffer' = CASE ~ TakesSpeech -> buffer
                 [] TakesSpeech /\ muted -> 0
                 [] TakesSpeech /\ ~ muted -> IF buffer = 0 THEN 0
                                              ELSE buffer - 1
  /\ source' = IF TakesSpeech /\ ~ muted /\ buffer > 0 THEN "speech"
               ELSE source
  /\ ppc' = "fill"
  /\ UNCHANGED <<play, paused, policy, speaker, muted, snap, ends, held>>

(* Fault: silence only where there is nothing else.                        *)
IsSilentUnpaused == source = "none"

(* The frame is to be the silence policy's.                                *)
IsSilent == source = "none" \/ snap

(* b_apply_silence_policy, which opens the music under moh_mutex when it   *)
(* is not open and may fail to.                                            *)
Fill ==
  /\ ppc = "fill"
  /\ source' = IF IsSilent THEN "silence" ELSE source
  /\ moh_open' \in IF IsSilent /\ moh THEN {moh_open, TRUE} ELSE {moh_open}
  /\ ppc' = "publish"
  /\ UNCHANGED <<play, paused, moh, speech, snap, ends, held>>

Publish ==
  /\ ppc = "publish"
  /\ ppc' = "loop"
  /\ UNCHANGED <<play, paused, policy, speech, source, snap, ends, held>>

Producer ==
  \/ LoopTop \/ ReadFile \/ FileEnds \/ NoFile \/ Snapshot \/ ReadSpeaker
  \/ Fill \/ Publish
-----------------------------------------------------------------------------
(* The API commands, each one critical section under play_mutex or         *)
(* control_mutex by a caller that then returns its pin.                    *)

Pin(c) ==
  /\ dpc = "none"
  /\ pinned' = pinned \cup {c}
  /\ UNCHANGED <<play, paused, policy, speech, tick, destroyed, dpc, held>>

Return(c) == pinned' = pinned \ {c}

(* The destroy has stopped what is played for the last time.               *)
Stopped == {"moh", "evict", "drain", "join", "freed"}

(* play: the old file is closed and the new one opened, in a room that is  *)
(* dying too.                                                              *)
Play(c) ==
  /\ c \in pinned
  /\ opens < MaxOpens
  /\ opens' = opens + 1
  /\ files' = Closed(files) + 1
  /\ play_fh' = "open"
  /\ playing' = TRUE
  /\ lateplay' = (lateplay \/ dpc \in Stopped)
  /\ Lifted("stop")
  /\ Return(c)
  /\ UNCHANGED <<paused, policy, speech, tick, destroyed, dpc>>

(* play of a file that does not open: the handle stays in play_fh, and     *)
(* BFLAG_PLAY_FILE as it was.                                              *)
PlayFails(c) ==
  /\ c \in pinned
  /\ files' = Closed(files)
  /\ play_fh' = "unopened"
  /\ Return(c)
  /\ UNCHANGED <<playing, opens, lateplay, paused, policy, speech, tick,
                 destroyed, dpc, held>>

(* Fault: the handle that has been closed is kept.                         *)
StopFileKeeps ==
  /\ files' = Closed(files)
  /\ play_fh' = IF play_fh = "open" THEN "closed" ELSE play_fh
  /\ playing' = FALSE
  /\ UNCHANGED <<opens, lateplay>>

StopFile ==
  /\ files' = Closed(files)
  /\ play_fh' = "null"
  /\ playing' = FALSE
  /\ UNCHANGED <<opens, lateplay>>

StopPlay(c) ==
  /\ c \in pinned
  /\ StopFile
  /\ Return(c)
  /\ UNCHANGED <<paused, policy, speech, tick, destroyed, dpc, held>>

Pause(c) ==
  /\ c \in pinned
  /\ paused' = TRUE
  /\ Return(c)
  /\ UNCHANGED <<play, policy, speech, tick, destroyed, dpc, held>>

Resume(c) ==
  /\ c \in pinned
  /\ paused' = FALSE
  /\ Lifted("pause")
  /\ Return(c)
  /\ UNCHANGED <<play, policy, speech, tick, destroyed, dpc>>

Command(c) ==
  \/ Play(c) \/ PlayFails(c) \/ StopPlay(c) \/ Pause(c) \/ Resume(c)
-----------------------------------------------------------------------------
(* The speaker: who takes and leaves the slot is Membership's matter, here *)
(* one comes unmuted, with what its input thread has heard by then, and    *)
(* goes.                                                                   *)

SpeakerSet ==
  /\ ~ destroyed
  /\ speaker' = TRUE /\ muted' = FALSE /\ buffer' \in 0 .. BufferFrames
  /\ Lifted("mute")
  /\ UNCHANGED <<play, paused, policy, tick, ends>>

SpeakerGone ==
  /\ speaker
  /\ speaker' = FALSE /\ muted' = FALSE /\ buffer' = 0
  /\ UNCHANGED <<play, paused, policy, tick, ends, held>>

(* The input thread writes a frame; switch_buffer_write drops it when the  *)
(* buffer is full.                                                         *)
Hear ==
  /\ speaker
  /\ buffer < BufferFrames
  /\ buffer' = buffer + 1
  /\ UNCHANGED <<play, paused, policy, speaker, muted, tick, ends, held>>

(* The caller control mute-toggle, on the speaker's session thread.        *)
MuteToggle ==
  /\ speaker
  /\ muted' = ~ muted
  /\ IF muted THEN Lifted("mute") ELSE UNCHANGED held
  /\ UNCHANGED <<play, paused, policy, speaker, buffer, tick, ends>>

Speaker == SpeakerSet \/ SpeakerGone \/ Hear \/ MuteToggle
-----------------------------------------------------------------------------
(* broadcast_destroy_ex.                                                   *)

(* BFLAG_DESTRUCT refuses new pins; then the grace period, if one is asked *)
(* for.                                                                    *)
BeginDestroy ==
  /\ dpc = "none"
  /\ dpc' \in {"announce", "grace", "mark"}
  /\ UNCHANGED <<play, paused, policy, speech, tick, destroyed, pinned, held>>

(* The announcement takes the place of what is played; a handle that does  *)
(* not open is not kept.                                                   *)
Announce ==
  /\ dpc = "announce"
  /\ \/ /\ opens < MaxOpens
        /\ opens' = opens + 1
        /\ files' = Closed(files) + 1
        /\ play_fh' = "open"
        /\ playing' = TRUE
        /\ UNCHANGED lateplay
        /\ Lifted("stop")
     \/ /\ files' = Closed(files)
        /\ play_fh' = "null"
        /\ UNCHANGED <<playing, opens, lateplay, held>>
  /\ dpc' = "grace"
  /\ UNCHANGED <<paused, policy, speech, tick, destroyed, pinned>>

EndGrace ==
  /\ dpc = "grace"
  /\ StopFile
  /\ dpc' = "mark"
  /\ UNCHANGED <<paused, policy, speech, tick, destroyed, pinned, held>>

MarkDestroyed ==
  /\ dpc = "mark"
  /\ destroyed' = TRUE
  /\ dpc' = "stop"
  /\ UNCHANGED <<play, paused, policy, speech, tick, pinned, held>>

StopAgain ==
  /\ dpc = "stop"
  /\ StopFile
  /\ dpc' = "moh"
  /\ UNCHANGED <<paused, policy, speech, tick, destroyed, pinned, held>>

CloseMoh ==
  /\ dpc = "moh"
  /\ moh_open' = FALSE
  /\ dpc' = "evict"
  /\ UNCHANGED <<play, paused, moh, speech, tick, destroyed, pinned, held>>

Evict ==
  /\ dpc = "evict"
  /\ speaker' = FALSE /\ muted' = FALSE /\ buffer' = 0
  /\ dpc' = "drain"
  /\ UNCHANGED <<play, paused, policy, tick, destroyed, pinned, held>>

(* The pins are drained; that a pin may outlast the drain's 10 s is        *)
(* RoomLifetime's matter.                                                  *)
Drain ==
  /\ dpc = "drain"
  /\ pinned = {} /\ ~ speaker
  /\ dpc' = "join"
  /\ UNCHANGED <<play, paused, policy, speech, tick, destroyed, pinned, held>>

JoinProducer ==
  /\ dpc = "join"
  /\ ppc = "gone"
  /\ dpc' = "freed"
  /\ UNCHANGED <<play, paused, policy, speech, tick, destroyed, pinned, held>>

Destroyer ==
  \/ BeginDestroy \/ Announce \/ EndGrace \/ MarkDestroyed \/ StopAgain
  \/ CloseMoh \/ Evict \/ Drain \/ JoinProducer

Next ==
  \/ Producer
  \/ \E c \in Callers : Pin(c) \/ Command(c)
  \/ Speaker
  \/ Destroyer

(* The producer's timer goes on.  Nothing forces a command, a speaker or a *)
(* destroy.                                                                *)
Fairness == WF_vars(Producer)

Spec == Init /\ [][Next]_vars
FairSpec == Spec /\ Fairness
-----------------------------------------------------------------------------
Sources == {"none", "file", "speech", "silence"}

TypeOK ==
  /\ playing \in BOOLEAN /\ paused \in BOOLEAN
  /\ play_fh \in {"null", "unopened", "open", "closed"}
  /\ moh_open \in BOOLEAN /\ moh \in BOOLEAN
  /\ speaker \in BOOLEAN /\ muted \in BOOLEAN /\ buffer \in 0 .. BufferFrames
  /\ destroyed \in BOOLEAN /\ pinned \in SUBSET Callers
  /\ ppc \in {"loop", "play", "snap", "speak", "fill", "publish", "gone"}
  /\ source \in Sources /\ snap \in BOOLEAN
  /\ dpc \in {"none", "announce", "grace", "mark", "stop", "moh", "evict",
              "drain", "join", "freed"}
  /\ files \in Int /\ opens \in 0 .. MaxOpens /\ lateplay \in BOOLEAN
  /\ held \subseteq {"pause", "stop", "mute"}

(* Whatever order play, failed play, stop_play, the end of a file, the     *)
(* announcement and the destroy come in, the one file that is open is the  *)
(* one play_fh refers to: no other is left open and none is closed twice.  *)
(* A room is freed with no file open, unless a caller that had pinned it   *)
(* before it began to die has played one after the destroy's last stop.    *)
FilesAccounted ==
  /\ files = IF play_fh = "open" THEN 1 ELSE 0
  /\ dpc = "freed" => files = 0 \/ lateplay

(* An order is obeyed by every frame of a tick that begins after it: a     *)
(* paused room is silent even while a file plays or somebody speaks, and a *)
(* stopped file and a muted speaker are not heard, whatever else is        *)
(* ordered, announced or destroyed while the tick is under way.            *)
OrdersObeyed ==
  ppc = "publish" =>
    /\ "pause" \in held => source = "silence"
    /\ "stop" \in held => source # "file"
    /\ "mute" \in held => source # "speech"

(* A play that fails after one that worked leaves the flag set on a handle *)
(* that was never opened; the producer finds out and clears both, so that  *)
(* the speaker is heard again, unless the room is destroyed first.  That   *)
(* the read of such a handle fails, and does not abort, is the switch's.   *)
FailedPlayHeals ==
  (playing /\ play_fh = "unopened") ~> (play_fh # "unopened" \/ destroyed)

-----------------------------------------------------------------------------
(* "All resource releases must be deterministic": a freed room leaves no   *)
(* file open.  The code does not keep it: the producer's tick under way    *)
(* may open the music again after the destroy has closed it, and a caller  *)
(* pinned before the destroy may play after its last stop.                 *)
NoFileLeft == dpc = "freed" => files = 0 /\ ~ moh_open
=============================================================================
