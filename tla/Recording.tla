----------------------------- MODULE Recording ------------------------------
(***************************************************************************)
(* The recordings of a room (broadcast_record.c): API threads that start   *)
(* one each, API threads and a destroyer that stop them all, and one       *)
(* writer thread per recording, over a linked list under recording_lock.   *)
(*                                                                         *)
(* A recording is the memory of one rec_consumer_t, used once.  The frames *)
(* it writes are BroadcastRing's matter: here a writer is in its loop,     *)
(* where it reads the room, or closing its file, or done.                  *)
(***************************************************************************)
CONSTANTS Recs,       \* rec_consumer_t's there may be, each with its starter
          Stoppers,   \* API threads that say norecord
          destroyer,  \* the thread in broadcast_destroy_ex
          Null        \* a NULL pointer

ASSUME RecordingAssumption ==
  /\ destroyer \notin Stoppers
  /\ Null \notin Recs

VARIABLES head,       \* b->recording_head
          next,       \* rec->next
          flag,       \* BFLAG_RECORDING
          memory,     \* the recording's pool: unused, live, freed
          file,       \* rec->fh is open
          running,    \* rec->running
          writer,     \* the writer thread: none, born, loop, close, done
          start,      \* the starter's next step
          stop,       \* the next step of each thread that stops
          stopped,    \* its local list of recordings to wind up
          room,       \* open, refusing, destroyed, freed
          timerless,  \* history: writers that could not create their timer
          orphans,    \* history: recordings lost from the list
          late,       \* history: recordings listed in a stopped room
          overrun     \* history: a recording was stopped under its starter,
                      \* or its start failed when it was off the list

list == <<head, next, flag>>
recs == <<memory, file, running, writer>>
threads == <<start, stop, stopped>>
history == <<timerless, orphans, late, overrun>>
vars == <<list, recs, threads, room, history>>

Enders == Stoppers \cup {destroyer}

Init ==
  /\ head = Null /\ next = [r \in Recs |-> Null] /\ flag = FALSE
  /\ memory = [r \in Recs |-> "unused"]
  /\ file = [r \in Recs |-> FALSE]
  /\ running = [r \in Recs |-> FALSE]
  /\ writer = [r \in Recs |-> "none"]
  /\ start = [r \in Recs |-> "idle"]
  /\ stop = [s \in Enders |-> "idle"]
  /\ stopped = [s \in Enders |-> Null]
  /\ room = "open"
  /\ timerless = {} /\ orphans = {} /\ late = {} /\ overrun = FALSE

(* Links nx do not lead from pointer p out of the set S.                   *)
Closed(S, nx, p) ==
  p \in S \cup {Null} /\ \A r \in S : nx[r] \in S \cup {Null}

(* The recordings a walk from pointer p along the links nx meets.          *)
Walk(nx, p) ==
  {r \in Recs : \A S \in SUBSET Recs : Closed(S, nx, p) => r \in S}

From(p) == Walk(next, p)
Listed == From(head)
-----------------------------------------------------------------------------
(* broadcast_record_start, called with a pin or by the room's creator.     *)

(* The file is opened; when it cannot be, nothing is left behind.          *)
Open(r) ==
  /\ start[r] = "idle"
  /\ room = "open"
  /\ memory' = [memory EXCEPT ![r] = "live"]
  /\ file' = [file EXCEPT ![r] = TRUE]
  /\ running' = [running EXCEPT ![r] = TRUE]
  /\ start' = [start EXCEPT ![r] = "insert"]
  /\ UNCHANGED <<list, writer, stop, stopped, room, history>>

Insert(r) ==
  /\ start[r] = "insert"
  /\ next' = [next EXCEPT ![r] = head]
  /\ head' = r
  /\ late' = IF stop[destroyer] \in {"wind", "done"} THEN late \cup {r}
             ELSE late
  /\ start' = [start EXCEPT ![r] = "create"]
  /\ UNCHANGED <<flag, recs, stop, stopped, room, timerless, orphans,
                 overrun>>

CreateThread(r) ==
  /\ start[r] = "create"
  /\ writer' = [writer EXCEPT ![r] = "born"]
  /\ start' = [start EXCEPT ![r] = "flag"]
  /\ UNCHANGED <<list, memory, file, running, stop, stopped, room, history>>

(* The rollback sets the head to whatever followed the recording, with it  *)
(* the recordings listed since are off the list.  It sets it so too when   *)
(* the recording is off the list itself: taken by a stop, which frees it   *)
(* as well, or orphaned by another's rollback.                             *)
CreateFails(r) ==
  /\ start[r] = "create"
  /\ head' = next[r]
  /\ orphans' = orphans \cup (Listed \ From(r))
  /\ overrun' = (overrun \/ r \notin Listed)
  /\ file' = [file EXCEPT ![r] = FALSE]
  /\ memory' = [memory EXCEPT ![r] = "freed"]
  /\ start' = [start EXCEPT ![r] = "done"]
  /\ UNCHANGED <<next, flag, running, writer, stop, stopped, room, timerless,
                 late>>

SetFlag(r) ==
  /\ start[r] = "flag"
  /\ flag' = TRUE
  /\ start' = [start EXCEPT ![r] = "done"]
  /\ UNCHANGED <<head, next, recs, stop, stopped, room, history>>

Starter(r) ==
  \/ Insert(r) \/ CreateThread(r) \/ CreateFails(r) \/ SetFlag(r)
-----------------------------------------------------------------------------
(* broadcast_record_stop of all recordings.                                *)

Norecord(s) ==
  /\ s \in Stoppers
  /\ stop[s] = "idle"
  /\ room = "open"
  /\ stop' = [stop EXCEPT ![s] = "unlink"]
  /\ UNCHANGED <<list, recs, start, stopped, room, history>>

(* The list is emptied into a local one, in reverse order.                 *)
TakeList(s) ==
  /\ next' = [r \in Recs |-> IF r \in Listed \ {head}
                             THEN CHOOSE p \in Listed : next[p] = r
                             ELSE IF r = head THEN Null ELSE next[r]]
  /\ stopped' = [stopped EXCEPT ![s] =
                   IF head = Null THEN Null
                   ELSE CHOOSE r \in Listed : next[r] = Null]
  /\ head' = Null /\ flag' = FALSE

(* Fault: the recordings are taken off the list and not told to stop.      *)
UnlinkAllRunning(s) ==
  /\ stop[s] = "unlink"
  /\ TakeList(s)
  /\ stop' = [stop EXCEPT ![s] = "wind"]
  /\ UNCHANGED <<recs, start, room, history>>

(* Under recording_lock: every recording is taken off the list and told to *)
(* stop.                                                                   *)
UnlinkAll(s) ==
  /\ stop[s] = "unlink"
  /\ TakeList(s)
  /\ running' = [r \in Recs |-> running[r] /\ r \notin Listed]
  /\ stop' = [stop EXCEPT ![s] = "wind"]
  /\ UNCHANGED <<memory, file, writer, start, room, history>>

(* Outside the lock: the next of them is joined, if it has a thread yet,   *)
(* and freed.                                                              *)
Joined(r) == writer[r] \in {"none", "done"}

Wind(s) ==
  LET r == stopped[s] IN
  /\ stop[s] = "wind"
  /\ r # Null
  /\ Joined(r)
  /\ stopped' = [stopped EXCEPT ![s] = next[r]]
  /\ next' = [next EXCEPT ![r] = Null]
  /\ memory' = [memory EXCEPT ![r] = "freed"]
  /\ overrun' = (overrun \/ start[r] = "create")
  /\ UNCHANGED <<head, flag, file, running, writer, start, stop, room,
                 timerless, orphans, late>>

(* A caller returns its pin and may come again, the destroyer goes on.     *)
After(s) == IF s = destroyer THEN "done" ELSE "idle"

(* Fault: the flag is cleared by whoever is through with stopping.         *)
WindEndClears(s) ==
  /\ stop[s] = "wind"
  /\ stopped[s] = Null
  /\ flag' = FALSE
  /\ stop' = [stop EXCEPT ![s] = After(s)]
  /\ UNCHANGED <<head, next, recs, start, stopped, room, history>>

WindEnd(s) ==
  /\ stop[s] = "wind"
  /\ stopped[s] = Null
  /\ stop' = [stop EXCEPT ![s] = After(s)]
  /\ UNCHANGED <<list, recs, start, stopped, room, history>>

Ender(s) == UnlinkAll(s) \/ Wind(s) \/ WindEnd(s)
-----------------------------------------------------------------------------
(* broadcast_record_writer_run.                                            *)

WriterBegin(r) ==
  /\ writer[r] = "born"
  /\ writer' = [writer EXCEPT ![r] = "loop"]
  /\ UNCHANGED <<list, memory, file, running, threads, room, history>>

(* Without a timer the file stays open.                                    *)
TimerFails(r) ==
  /\ writer[r] = "born"
  /\ running' = [running EXCEPT ![r] = FALSE]
  /\ writer' = [writer EXCEPT ![r] = "done"]
  /\ timerless' = timerless \cup {r}
  /\ UNCHANGED <<list, memory, file, threads, room, orphans, late, overrun>>

WriteError(r) ==
  /\ writer[r] = "loop"
  /\ running[r]
  /\ running' = [running EXCEPT ![r] = FALSE]
  /\ writer' = [writer EXCEPT ![r] = "close"]
  /\ UNCHANGED <<list, memory, file, threads, room, history>>

LoopEnds(r) ==
  /\ writer[r] = "loop"
  /\ ~ running[r] \/ room \in {"destroyed", "freed"}
  /\ writer' = [writer EXCEPT ![r] = "close"]
  /\ UNCHANGED <<list, memory, file, running, threads, room, history>>

(* Fault: the file is left to the recording's pool.                        *)
CloseFileNot(r) ==
  /\ writer[r] = "close"
  /\ writer' = [writer EXCEPT ![r] = "done"]
  /\ UNCHANGED <<list, memory, file, running, threads, room, history>>

CloseFile(r) ==
  /\ writer[r] = "close"
  /\ file' = [file EXCEPT ![r] = FALSE]
  /\ writer' = [writer EXCEPT ![r] = "done"]
  /\ UNCHANGED <<list, memory, running, threads, room, history>>

Writer(r) ==
  WriterBegin(r) \/ TimerFails(r) \/ WriteError(r) \/ LoopEnds(r)
    \/ CloseFile(r)
-----------------------------------------------------------------------------
(* broadcast_destroy_ex: new pins are refused, the room is marked and its  *)
(* recordings stopped; with the pins drained and the producer joined it is *)
(* freed.                                                                  *)

Refuse ==
  /\ room = "open"
  /\ room' = "refusing"
  /\ UNCHANGED <<list, recs, threads, history>>

(* Fault: the writers are left to find out for themselves.                 *)
MarkDestroyedOnly ==
  /\ room = "refusing"
  /\ room' = "destroyed"
  /\ stop' = [stop EXCEPT ![destroyer] = "done"]
  /\ UNCHANGED <<list, recs, start, stopped, history>>

MarkDestroyed ==
  /\ room = "refusing"
  /\ room' = "destroyed"
  /\ stop' = [stop EXCEPT ![destroyer] = "unlink"]
  /\ UNCHANGED <<list, recs, start, stopped, history>>

FreeRoom ==
  /\ room = "destroyed"
  /\ stop[destroyer] = "done"
  /\ \A r \in Recs : start[r] \in {"idle", "done"}
  /\ \A s \in Stoppers : stop[s] = "idle"
  /\ room' = "freed"
  /\ UNCHANGED <<list, recs, threads, history>>

Next ==
  \/ \E r \in Recs : Open(r) \/ Starter(r) \/ Writer(r)
  \/ \E s \in Enders : Norecord(s) \/ Ender(s)
  \/ Refuse \/ MarkDestroyed \/ FreeRoom

(* Calls under way go on, and so do the writers, which a timer wakes.      *)
Fairness ==
  /\ \A r \in Recs :
       /\ WF_vars(Starter(r))
       /\ WF_vars(WriterBegin(r) \/ LoopEnds(r) \/ CloseFile(r))
  /\ \A s \in Enders : WF_vars(Ender(s))
  /\ WF_vars(MarkDestroyed) /\ WF_vars(FreeRoom)

Spec == Init /\ [][Next]_vars
FairSpec == Spec /\ Fairness
-----------------------------------------------------------------------------
TypeOK ==
  /\ head \in Recs \cup {Null} /\ next \in [Recs -> Recs \cup {Null}]
  /\ flag \in BOOLEAN
  /\ memory \in [Recs -> {"unused", "live", "freed"}]
  /\ file \in [Recs -> BOOLEAN] /\ running \in [Recs -> BOOLEAN]
  /\ writer \in [Recs -> {"none", "born", "loop", "close", "done"}]
  /\ start \in [Recs -> {"idle", "insert", "create", "flag", "done"}]
  /\ stop \in [Enders -> {"idle", "unlink", "wind", "done"}]
  /\ stopped \in [Enders -> Recs \cup {Null}]
  /\ room \in {"open", "refusing", "destroyed", "freed"}
  /\ timerless \subseteq Recs /\ orphans \subseteq Recs
  /\ late \subseteq Recs /\ overrun \in BOOLEAN

(* The threads that use the room.                                          *)
InRoom == {r \in Recs : writer[r] \in {"born", "loop"}}

(* A room is freed under no writer, whoever else starts and stops          *)
(* recordings meanwhile, but for two: one listed after the destroy had     *)
(* emptied the list, and one a failed start has taken off it.              *)
WritersInside ==
  room = "freed" /\ ~ overrun => InRoom \subseteq late \cup orphans

(* A recording is wound up before its memory goes: its writer is done and  *)
(* its file closed, unless it had no timer.                                *)
RecordingWound ==
  ~ overrun =>
    \A r \in Recs :
      memory[r] = "freed" =>
        writer[r] \in {"none", "done"} /\ (file[r] => r \in timerless)

(* A recording whose start has returned and that is on the list shows in   *)
(* BFLAG_RECORDING, with other recordings started and stopped meanwhile.   *)
FlagCovers ==
  \A r \in Listed : start[r] = "done" /\ ~ overrun => flag

(* Whoever stops recordings comes back, through write errors, failed       *)
(* starts and another thread that stops them too.                          *)
StopsEnd ==
  \A s \in Enders : stop[s] = "wind" ~> stop[s] # "wind"
-----------------------------------------------------------------------------
(* "Never destroy the pool while a thread is still reading from it": the   *)
(* code does, when a caller pinned before the destroy lists a recording    *)
(* after it, which nobody joins.                                           *)
WritersJoined == room = "freed" => InRoom = {}
=============================================================================
