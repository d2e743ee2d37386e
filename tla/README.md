# mod_broadcast in TLA+

A verification project for `mod_broadcast`, a FreeSWITCH module in which one
speaker (or a played file) is heard by many listeners. Seven parts of the module
are modelled and model-checked with TLC: the lock-free audio ring, the event ring,
the membership of a room (speaker slot, listener list, promotion), the life of the
rooms and of the module, what a room plays, its recordings, and the configuration
with the caller controls in it. Every safety property and both refinements that
the runs check are also proved with TLAPS, for every value of the constants.

Every definition is translated from the C sources under `src/`; `PROJECT.json`
says which lines each one stands for.

## The system

### Threads

| thread | code | per |
|---|---|---|
| session thread | `broadcast_app_function`, `broadcast_listener_run`, `broadcast_speaker_main_wait` | member |
| speaker input | `broadcast_speaker_input_run` | speaker |
| producer | `broadcast_producer_run` | room |
| event emitter | `broadcast_event_emitter_run` | module |
| housekeeping | `broadcast_runtime_housekeeping`, from the module's runtime loop | module |
| API | `broadcast_api.c` | call |
| recorder | `broadcast_record_writer_run` | recording |

### Locks

`hash_rwlock` (name to room), `config_rwlock` (profiles, control groups),
`speaker_lock` (the slot; the producer reads, whoever sets or clears the speaker
writes), `listener_lock` (the list), `recording_lock`, `event_mutex`,
`play_mutex`. The audio ring has none: producer and listeners meet in
`producer_seq` and in each slot's `seq`. A room is kept in memory by the count
`live_refs`, a member by its session's read lock.

### Components

| component | state | operations | what makes it correct | module |
|---|---|---|---|---|
| audio ring (`broadcast_producer.c`, `_listener.c`, `_member.c`) | `ring`, `producer_seq`, a cursor per listener | write and publish a frame; join; read, resync, check the slot | whole frames, in order, no gap within the allowed lag, a lag never permanent | `BroadcastRing` |
| event ring and emitter (`broadcast_events.c`) | `event_ring`, two indices, `stat_events_dropped` | enqueue, overflow, sweep, fire | order kept, every loss explained, nothing after DESTROY, nothing left behind | `EventRing` |
| speaker slot (`broadcast_speaker.c`, `mod_broadcast.c`, `broadcast_core.c`) | `current_speaker`, the member's role, codecs, buffer, input thread | set, replace, clear, clear-if-current, evict, stop input, wait | the producer never uses a member that is gone; no input thread leaks | `Membership` |
| listener list and promotion (`broadcast_member.c`, `broadcast_speaker.c`, `broadcast_listener.c`) | `listener_head`, counters, `MFLAG_*`, `in_listener_bridge` | add, delete, run, promote, time out, roll back, kick, disperse | nobody lost, nobody listed when gone, counters explain the list | `Membership` |
| room lifetime (`broadcast_core.c`, `mod_broadcast.c`) | hash, `active_broadcasts`, `live_refs`, `BFLAG_DESTRUCT`, `destroyed` | create, find and pin, release, destroy, sweep, unload | no use after free, exact counts, every destroy ends | `RoomLifetime` |
| source of a frame (`broadcast_producer.c`, `_api.c`, `_core.c`) | `play_fh`, `BFLAG_PLAY_FILE`, `BFLAG_PAUSE`, the speaker's mute, music | play, stop, pause, resume, mute, announce, choose | every file has one owner, an order is obeyed from the next tick on, a failed play heals | `Playback` |
| recording (`broadcast_record.c`) | list of recordings, `BFLAG_RECORDING`, a writer thread each | start, fail to start, stop all, write, destroy | a writer is joined before its recording and its room go, stopping ends | `Recording` |
| configuration (`broadcast_config.c`) | pool, profiles, control groups, `default_profile_name` | reload, look up, clone | no reader of a replaced pool; no lock cycle | `ConfigReload` |
| caller controls (`broadcast_listener.c`) | digit buffer | collect, match, dispatch | what is dialled is run | `ConfigReload`; mute in `Playback`, leave and hangup in `Membership` |
| API commands (`broadcast_api.c`) | none | all of the above | as above | all, but for commands that print |
| housekeeping (`broadcast_core.c`) | heartbeats | hang up wedged listeners | its sweep is in `RoomLifetime`, the hangup in `Membership` | in part |
| load and unload (`mod_broadcast.c`, `broadcast_events.c`) | `running`, `emitter_running`, the two threads | load, shut down | nobody sweeps what is destroyed, unloading ends | `RoomLifetime` |
| channel variables (`mod_broadcast.c`) | `speaker_since_us` and others | write call-record variables | no stale read | not modelled |

### How they interact

A session thread pins its room (`RoomLifetime`), joins it as listener or speaker
and leaves through one clean-up (`Membership`), reading the ring in between
(`BroadcastRing`). Membership changes, promotions and speaker changes queue
events (`EventRing`), which the emitter fires on a sweep of the hash. A destroy
marks the room, evicts the speaker, disperses the list, waits for the members and
the pins, joins the producer, takes the room out of the hash, fires DESTROY and
frees the pool. What each part sees of a destroy is in its module: the eviction
and dispersal in `Membership`, files and announcement in `Playback`, the stopped
recordings in `Recording`, the drains and the freeing in `RoomLifetime`, the last
event in `EventRing`. The modules share no variable; where one needs another's
promise it says so (`Playback` and `Recording` take the drained pins from
`RoomLifetime`, whose exception, a pin that outlasts 10 s, is checked there).

What is hard to test in this: checks and the actions they guard in different
critical sections (`main_wait`, the speaker join, `find_and_ref`); the 200 ms
promotion timeout against a listener leaving just then; teardown of one member by
several threads at once; two destroyers; a creator's late store; a copy racing
the producer; overflow while the emitter fires; a failed open that leaves its
handle behind; recordings started and stopped at once; an application that runs
under the configuration's lock. `PROJECT.json` lists every such
hazard at its line, with the properties that watch it.

## The modules

| module | models | size of its state |
|---|---|---|
| `FrameFanout` | abstract: published frames, a cursor per listener, the frame last heard | - |
| `BroadcastRing` | each store of the producer and each load of a listener | slot = seq, len and two halves of data |
| `RingArithmetic` | two lemmas on `%`, behind the ring proofs | - |
| `LossyQueue` | abstract: a queue that loses two events per overflow | - |
| `EventRing` | queueing threads, emitter, destroyer | slots and two indices |
| `Membership` | session threads, input threads, producer's read, one API thread | per member: flags, codecs, input, program counter |
| `RoomLifetime` | session and API threads, producers, the two sweeping threads, the unload | per room: flags, count; per thread: room, program counter |
| `Playback` | the producer's tick, API callers, the speaker, a destroyer | flags, handle, buffer, program counters |
| `Recording` | starters, stoppers, writers, a destroyer | the linked list, per recording: memory, file, thread |
| `ConfigReload` | a reloading thread, session threads | generations of the tables, per session: pointers, digits |
| `*Proofs` | the theorems about the module they extend | - |
| `MC*` | the constants TLC uses | - |

Definitions named in a comment as a *Fault* are deliberately wrong versions of
the definition that follows them. No specification uses them; they are what shows
that each property can fail (`mutants` in `PROJECT.json`).

### BroadcastRing

`WriteHeader`, `WriteLow`, `WriteHigh`, `StoreSlotSeq`, `Publish` are the stores
at the end of the producer's tick, in program order. A tick is `TickIdle` (nothing
new), or `TickRead` (load `producer_seq`, resync if more than `max_lag_frames`
behind), `CheckHit`/`CheckMiss` (the slot's `seq` against the cursor), `CopyLow`,
`CopyHigh`, `WriteFrame` (which loads `datalen` again). Bytes are the number of
the frame they come from, so a torn copy is a record with two numbers in it. The
load of `datalen` that bounds the copy is not separated from the copy.

Two threads place a cursor with `broadcast_listener_add`, `JoinCursor` in the
model, with the pre-buffer. The listener's own does when it joins (`Join`). An API
thread does when it gives up a promotion after 200 ms and puts the listener back
on the list (`broadcast_speaker.c:203`): `RelistLoad` and `RelistStore`, for the
listeners in `Overdue`. The listener's thread, which the API thread did not see
leave, may then be anywhere, between the load of its cursor and its store of the
next one included. A store in the middle of a read is lost, as the read's own
store follows; one between two reads takes a listener that hears the room back by
the pre-buffer. `NoReplay` says that this is the only way back: `Position` is the
cursor the read under way was begun at (`begun`), or the cursor.

How far the producer can run during one read is a property of the scheduler, not
of the code: `MaxStall[l]` frames. The producer's `Publish` waits for that bound,
which states the assumption and is not in the code. A listener is *prompt* if
`MaxLag + MaxStall[l] < RingSize`. The configuration does not relate ring size and
`max_lag_frames`, so for a deployment this is the condition to look at.

`Drains` speaks of the time after the producer has stopped, and of listeners not
put back for ever. While frames keep coming, a listener that is always too slow
may go on alternating between a resync and silence; no property forbids it.

### EventRing

`CheckAlive` is the unlocked test of `b->destroyed` in
`broadcast_enqueue_event`, `Queue` and `DropOldest` its two outcomes under
`event_mutex`. The emitter takes and fires one event per critical section and
holds `hash_rwlock` for its whole sweep, so `Unhash` waits for it. Critical events
bypass the ring; the one the ring must be ordered with is DESTROY, `FireDestroy`.
Sizes of 2 and more are assumed; the configuration also admits 1 (a listed
hazard). Indices are unbounded: they are 64-bit in the code.

### Membership

One session thread per member, with one action per critical section or unlocked
store. A listener is listed under the lock (`JoinAsListener`) and counted and
flagged as running after it (`CountJoin`); the rollback of a promotion goes the
same two steps (`Relink`, `CountRelinked`), so a member may be listed again by the
API thread, leave, and be counted as gone before it is counted as joined, for
which `AudienceLedger` has `Uncounted`. Members in `Ghosts` (`ghost=true`) are
listed and never counted; room for them is taken like for others.

A member takes the slot through `JoinAsSpeaker` or `TakePromotion`, then
`StartInput` and `Publish`; leaves it through `EndWait`, `CheckSlot`, `ClearSlot`,
`Exit`, `ClearIfCurrent`. Whoever takes a member out of the slot goes through
`StopInput` (an atomic exchange of the handle decides who joins) and `JoinInput`.
Promotion runs on the API thread: `Promote`, `Unlink`, `RaiseTransition`,
`StopLoop`, then `BridgeLeft` or `PromotionTimeout`, `Withdraw`, `Relink`,
`CountRelinked`.

Abstractions: a room found locked is a refusal that may come at any time, since
`BFLAG_LOCKED` is changed by the API at any time and read at one place;
`MFLAG_KICKED` and the hangup that follows it are one step, since either ends the
loop; a member that fails to prepare never joins; the exit variables and the audio
are left out; API calls come one at a time. `Slow` members may outlast the
promotion's 200 ms, the others react in time. `Timerless` members may fail to
create their timer, on which the code returns with `in_listener_bridge` still set.

Three limits of the properties: `SpeakerUsable` says that whoever is in the slot
can be read, not that a new owner stays there (`LeaverClearsOwn`, below, does, and
the code does not keep it); `PromptUnlisted` leaves out the `Slow` members, whose
case is `ListedAlive`; and a listener added after the destroy has dispersed the
list is not kicked, but `Departs`: its loop sees `destroyed`.

In the states TLC visits, the branch of `ClearIfCurrent` that finds the slot its
own and the branch of `StopInput` that finds no handle are never taken, which
agrees with the source's remark that the former is a "no-op on the normal path".

### RoomLifetime

A room is the memory of one `broadcast_obj_t`, so a name created again is another
room. `broadcast_find_and_ref` is two steps under the read lock (`Find` tests the
flags, `Ref` adds the pin); `broadcast_create` is `Allocate`, `Insert` under the
write lock, and `StoreRef`, the store of the creator's pin after the unlock.
`broadcast_destroy_ex` is `MarkDestruct` to `Free`. The wait for the members to
leave is contained in the wait for the pins, since every member holds one. The
history variables `early`, `late` and `twice` record the three circumstances under
which the properties are conditional: a pin wiped out by the creator's store, a
pin taken of a room already dying, a room destroyed by two threads.

A thread can be left with a room that another has freed: a caller that was not
waited for, or the second of two destroyers, which then reads `b->name`
(`core.c:575`) and destroys `b->pool` (`core.c:581`) in freed memory, whatever
that is by now. The model takes none of that thread's further steps, since all of
them are guarded by `Intact`; `UseFreed` notes in `wild` that it has come to one.
The properties hold up to then and claim nothing of what follows. They do speak of
two destroyers as long as both still have the room: both drain, and both wait for
the producer (joining one thread twice is undefined for `pthread_join`, and taken
here to return to both). `active` is compared as an unsigned number, so a count
below zero refuses a create.

Each of the two sweeping threads, emitter and housekeeping, is asleep, in a sweep
under the read lock, or gone. The unload tells the housekeeping (`Unload`), waits
for it, at most 10 s (`AwaitHousekeeping`, which may go on during a sweep that
takes longer, and not while the thread is between sweeps: it then looks at
`running` every 100 ms), tells and joins the emitter (`JoinEmitter`), destroys
the rooms one by one and then the hash and its lock (`CloseNext`, `CloseDone`).

### Playback

The producer's tick is `LoopTop`, one of `ReadFile`, `FileEnds`, `NoFile` under
`play_mutex`, `Snapshot` of the flags, `ReadSpeaker` under `speaker_lock`, `Fill`
(the silence policy, which may open the music) and `Publish`. A frame is what it
was made of: a file, speech or silence. `play_fh` is NULL, a handle that never
opened, one that is open, or one that has been closed; that the last does not
occur is part of what is checked. `files` is the number of files opened less the
number of closes of a handle that was once opened, so that a second close shows
as much as a lost one. `lateplay` notes a play that comes after the destroy's
last stop (`core.c:440-446`), by a caller that pinned the room before: its file
is closed by nobody. API commands are single critical sections by callers with a
pin. Which speaker is in the slot is `Membership`'s matter: here one comes,
unmuted and with whatever its input thread has heard before it was published, and
goes. The history variable `held` has the orders (pause, stop, mute) that have
been in force since the tick began.

After a failed `play` the code reads and closes a handle it never opened. The
model takes `switch_core_file_read` and `switch_core_file_close` to refuse such a
handle with a status; an assertion in them would stop the program instead, and
`FailedPlayHeals` rests on there being none.

### Recording

The list is the linked list of the code, with `head` and `next`, so that the
failed start's `head = rec->next` does what it does. What a loop over the list
meets is `Walk`, the least set that holds the pointer it starts from and that the
links do not leave. Each recording has a starter
(`Open`, `Insert`, `CreateThread` or `CreateFails`, `SetFlag`) and a writer; a
stopper empties the list under the lock into its own list (`UnlinkAll`) and joins
and frees one recording after another outside it (`Wind`). A writer without a
timer returns with its file open. Three history variables name the windows the
code leaves open: `late` (listed after the destroy had emptied the list),
`orphans` (taken off the list by another's failed start), `overrun` (off the list
before its start has come to its end: stopped between its listing and the creation
of its thread, or orphaned and then failing to start itself). `FlagCovers` is
about recordings on the list; an orphan may be written with the flag off. Frames
written are not modelled.

### ConfigReload

Each load is a generation, which stands for its pool and everything in it; a
pointer is the generation it points into. `ClearTables` frees the old one,
`LoadSettings` sets the default name and `LoadTables` the tables, all under the
write lock; a load that fails leaves the tables empty. Readers are sessions that
create a room (`NameProfile`, then the lock, then `CloneProfile`) and sessions in
a room whose digit is matched under the lock (`Press`, `Match`, `NoMatch`).
`dialled` is not the program's: it is what the caller means to dial, a control or
the beginning of one, or `Lost` after a mistype. A control counts as dialled when
its last digit is pressed, whatever shorter one the code has matched before. That no binding begins another (`PrefixFree`) is therefore a condition of
`ControlsHeard`: with `1` and `12` bound, `12` is never run.

An action bound to an application keeps the lock while it runs, may take it again
(`AppCreates`), and need never end. The lock is the platform's, which
prefers readers: with a lock that prefers a waiting writer, `LookupsEnd` fails,
which is the mutant of that property.

## What the runs check

`tlc -workers 2 -config X.cfg M` in this directory. Times are for two workers.

| run | instance | states | checks |
|---|---|---|---|
| `ring` | 3 slots, lag 1, pre-buffer 1, 4 frames, a prompt (stall 1) listener that is put back by an API thread and a slow (stall 3) one | 367,592 | intact frames, no replay, refinement of `FrameFanout`, draining |
| `events` | 3 slots, 7 offers, 2 threads | 2,632 | loss ledger, nothing after DESTROY, refinement of `LossyQueue`, no event left behind |
| `membership` | a prompt member that is a ghost and a slow one, no override, room for one listener, 2 promotions | 3,060,276 | the speaker is usable, inputs accounted for, list and counters |
| `membership_live` | a prompt and a slow member, override, room for one listener; `QuietSpec`: promotions and a destroy only while one of them is there | 91,790 | whoever is replaced, kicked, hung up or destroyed leaves and is freed, API calls return, promotions settle |
| `lifetime` | two rooms of one name, two callers (one stuck), the two sweeps, the unload | 372,422 | up to a use of freed memory: nothing freed is found, pinned or swept, counts, own entry deleted |
| `lifetime_live` | one room, the same threads | 33,180 | every destroy and the unload end, or come to a use of freed memory |
| `playback` | one caller, a buffer of one frame, two files opened | 220,444 | files accounted for, orders obeyed, a failed play heals |
| `recording` | two recordings, one norecord thread, the destroyer | 52,476 | writers and recordings wound up in order, the flag, stops end |
| `config` | two sessions, a quick control and an application of two digits each, a buffer of 4, one reload | 43,482 | live tables, controls heard, nobody waits for ever |

Every property of these runs is broken by one of the *Fault* definitions.

### Why the bounds are enough

- `ring`: with three slots and four frames the first slot is overwritten while a
  listener may be copying it, a listener can be lapped, resynced, and joined with a
  pre-buffer before and after enough frames exist. The prompt listener is at the
  edge of the condition (1 + 1 < 3), and the one the API thread puts back. A fifth
  frame would do to the second slot what the fourth does to the first.
- `events`: two waiting events fill the ring; seven offers overflow it repeatedly
  at every position of both indices.
- `membership`: one listener fills the room, so joins, rejections and refused
  roll-backs all happen; two members suffice for a replaced and a replacing
  speaker with a third thread clearing; two promotions give one after a
  roll-back. Without override a speaker is refused. The ghost is listed, promoted
  in time and leaves uncounted; the counted member is also put back.
- `membership_live`: with override two members replace each other in the slot, so
  a member, the one that replaces it and the API are three threads that may stop
  and join one input thread. `QuietSpec` (`MCMembership`) lets one of the two stay
  away from a room with a promotion or a destroy in it, since all of them together
  are more than a temporal check gets through. The promotion's waits are between
  the API and its target, and the destroy's eviction swaps the slot as
  `ClearSpeaker` does, so what is left out is two speakers in a destroyed room;
  the safety run has both. Coming, promoting and destroying are nobody's duty, so
  the behaviours of `QuietSpec` are behaviours of `FairSpec`.
- `lifetime`: two rooms of a name make the reuse of a name, and two callers with
  the closer make two destroyers of one room with a third thread at the room. The
  two rooms are interchangeable, which is the symmetry used.

- `playback`: a play over a play, a failed play over one that worked and an
  announcement over a file all fit in two opens; a buffer of one frame is empty
  and full in turn. A second caller adds nothing but states: commands are atomic.
- `recording`: two recordings give a list of two, a failed start under and over
  the other, and a late one; the destroyer and norecord race for one list.
- `config`: one reload against two sessions gives a writer that waits for a
  running application while another session queues behind; a buffer of four is
  overrun by mistyped digits.

Deadlock is checked for the ring, which never stops. The other systems really may
stop (all members gone, the room destroyed, the module unloaded), or make no more
than a bounded number of reloads.

### Fairness

- Ring: producer and listener ticks are paced by timers, so a thread that is due
  runs (weak fairness). Joining and leaving are nobody's duty.
- Events: the emitter loops while the module is loaded; a destroy under way goes
  on.
- Membership: weak fairness for threads in the middle of something; strong
  fairness for a speaker's and the API thread's steps, some of which write-lock
  `speaker_lock`, which the producer read-locks for a fraction of each tick and
  releases again. Input failures, hangups and API calls are not fair.
- Room lifetime: `[]<> WriteLockFree`, since the sweeps sleep 5 ms and 5 s between
  passes and a lookup is a few instructions; without it a reader-preferring lock
  could starve a destroy. A destroyer goes on, if only to its use of freed memory
  (strong fairness, for the lock). A pin of a destroyed room is released unless its thread
  is stuck. A stuck thread, a find, a create and the beginning of an unload are not
  fair; an unload under way goes on, and a sweep ends.
- Playback: the producer's timer goes on. Commands, speakers and a destroy are
  nobody's duty.
- Recording: calls under way and writers go on; starting, failing and destroying
  are nobody's duty.
- Configuration: who waits for the lock gets it if it is free again and again
  (strong fairness on both ways to take it), a lookup and a load are finite.
  Applications need not end: a reload is only promised its end if again and again
  nobody reads.

### Disagreements found

Three runs end in a violation, each of something the repository itself says; the
quotations are under `findings` in `PROJECT.json`.

| run | property | what happens |
|---|---|---|
| `relink` | `ListedAlive` | a promotion that times out re-lists a member that is already leaving; it stays listed when freed |
| `pin` | `PinKeepsRoom` | a pin is lost under the creator's store, or taken of a room whose destroy has begun: the room is freed under its holder |
| `lookup` | `LookupsProtected` | a join reads `default_profile_name` without the lock; a reload frees it before the create compares names with it |

Six more have a definition and no standing run: with the definition as the only
`INVARIANT` of the module's cfg (a `PROPERTY` for `LeaverClearsOwn`), TLC shows
the behaviour in seconds.

| definition | what the repository says | what happens |
|---|---|---|
| `TornReadsDetected` (`BroadcastRing`) | `mod_broadcast_spec.md:764` "This is a torn-read detector." | the slot's `seq` is compared before the copy and not after it: a listener held up for longer than the ring lasts writes a torn frame |
| `EachLossCounted` (`EventRing`) | `mod_broadcast_spec.md:1594` "the oldest events are dropped and a counter `stat_events_dropped` is incremented" | an overflow loses two events (oldest and newest) and counts one |
| `LeaverClearsOwn` (`Membership`) | `broadcast_speaker.c:339` "If we were demoted, current_speaker is already someone else — do not clear_speaker(b)." | `main_wait` compares under the read lock and clears after releasing it: a new speaker is thrown out |
| `InputJoinedFirst` (`Membership`) | `broadcast_speaker.c:46` the teardown "must wait until we stop reading anyway (stop_input joins us first)" | a replaced speaker's thread destroys its codec while its input thread still reads |
| `NoFileLeft` (`Playback`) | `mod_broadcast_spec.md:163` "All resource releases must be deterministic" | a tick under way opens the music again after the destroy has closed it, or a caller pinned before the destroy plays a file after its last stop |
| `WritersJoined` (`Recording`) | `mod_broadcast_spec.md:1824` "never destroy the pool while a thread is still reading from it" | a caller pinned before the destroy lists a recording after it; nobody joins its writer |

Two more were met and are not stated as properties. The wait of an unload is
"bounded ~10s so a wedged thread can't hang unload" (`mod_broadcast.c:386`), but
`broadcast_destroy_all` then takes the write lock, so a housekeeping pass that
never ends does hang it: `UnloadEnds` rests on the fairness of the sweeps. And
control groups are global, so that a reload changes the controls of running rooms,
where the comment at `broadcast_config.c:333` says "Running broadcasts keep their
snapshot profile pointers".

The passing runs say what holds all the same: `PromptUnlisted` for members that
react in time, `SpeakerUsable` for what the producer reads, `PinnedAlive` outside
the two windows of `pin`, `IntactFrames` for prompt listeners, `WritersInside` and
`RecordingWound` outside the windows their history variables name, `FilesAccounted`
for a room without a late play, `TablesLive` for everything that is read under the
lock.

That two threads may destroy one room, with all the second then does in freed
memory, is not listed as a disagreement, as nothing in the repository says they
may not; it is a hazard at `core.c:398`.

## What is proved

The theorems hold for every value of the constants that the named assumptions
allow (`RingAssumption`, `EventAssumption`, `MembershipAssumption`,
`LifetimeAssumption`, `PlaybackAssumption`, `RecordingAssumption`,
`ConfigAssumption`); the members and the recordings of a room may be infinitely
many, callers are finite because they are counted.

**BroadcastRingProofs.** `RingInvariant` is the inductive invariant. `CursorInv`: a
read starts at or behind its snapshot, and the producer is at most `MaxStall` past
it. `WindowInv`: the last `RingSize - 1` published frames are whole in their slots.
`WriteInv`: what the producer has stored of the next one. `CopyInv`: what a prompt
listener has copied. `WindowInv` is needed because "the slot has my number" says
nothing of its other fields, and `CursorInv` because only the distance between
cursor and producer keeps the slot in the window. From them: `FramesIntact`,
`ChecksHit`, `NoGap`, and `RingImplementsFanout`, the step-by-step refinement of
`FrameFanout` for the prompt listeners. `CursorsBehind` and `CursorsMonotone`
hold for every listener, however long it stalls and however often an API thread
puts it back; the latter names that thread's store, between two reads, as the only
step that takes a listener in its loop back. The distance argument rests on `SlotsDistinct` of
`RingArithmetic`: numbers less than a ring apart have different slots.

**EventRingProofs.** `LossesLedgered` and `WaitingOrdered` are inductive with the
bounds on the two indices; `OrderKept` follows from `WaitingInOrder`, which says
that what waits is newer than what was fired; `DestroyIsLast` from: a closed room
is out of the hash and the emitter idle. `LossyQueueRefined` is the refinement of
`LossyQueue`: the abstract queue is the `Window` of slots between the indices, so
a step is shown to append to it, to take its head, or, on an overflow, to lose two
(`QueueAccepts`, `ConsumerTails`, `QueueSteps`). The lemmas on windows are stated
for any slots and indices, since the map is needed before and after a step; that a
store leaves the rest of the window alone is `SlotsDistinct` again.

**MembershipProofs.** `SlotSafe` is inductive: who is in the slot, or is read by
the producer, is live and at a step from which its own thread must still pass the
slot; nobody else's thread can be past it. It carries the pin of the API's target.
`SpeakerNeverDangles` and `InputsAccounted` follow, for any number of members and
either override policy. The listener list has an invariant of its own, `ListInv`:
a member on its way to the list is not on it and not in transition, a member that
runs unlisted is the target of a promotion about to stop it, the target of a
promotion past its unlinking is unlisted, and only a `Slow` one is put back.
`PromptStayUnlisted` and `ListenersStayManaged` follow from it and `SlotSafe`.
`AudienceLedgered` uses that a join finds its member unlisted, so that every step
that lists, counts or unlists moves one member between `Uncounted`, the listed
that are not ghosts and the counters (`LedgerMoves`); it holds for any set of
ghosts.

**RoomLifetimeProofs.** `LifeInvariant` combines what a room's memory, flags and
producer are at each step of creation and teardown; what is hashed is live because
every destroyer of a room still has to pass the deletion of its name before any
frees it. `SweepsStayInside` carries that an unloading thread past the wait and
the join finds the emitter gone and the housekeeping gone or in its last sweep,
which the write lock then waits for. `PinsCounted` has the count as an inductive
equality of `refs` with the cardinality of the holders; `PinsHold` adds that a destroyer past its drain has
seen every prompt pin that is not `late` released. All six hold up to the first
use of freed memory and for any number of threads, so of two destroyers until the
first has freed the room. `EntriesDeletedByOwner`, an
action property, needs `OnceInv`: while no room is destroyed twice, the name of a
room under destruction leads to that room until it is deleted, since a new room is
inserted only under a free name, and no two destroyers are in one room.

**PlaybackProofs.** `OrdersObeyed` speaks of the end of a tick, so `PlayInvariant`
adds what holds on the way: `HeldInForce`, that an order in `held` is in force (a
muted speaker may have left), and `TickObeys`, what the tick has made of it so far
(a pause that held is in the snapshot, a stopped file was not read, a muted
speaker not heard). `FilesOwned` rests on `HandleKept`: from the destroy's last
stop on the handle is not an open one unless a late caller has played, and at no
step is it one that has been closed. `PlaybackTypes` needs no more than
types.

**RecordingProofs.** The list changes by insertion, by the rollback of a failed
start, by a reversal and by cutting off its first element, and the properties are
about what is on it, so the module first proves what each change does to a walk.
Since a walk is the least closed set, that a walk stays within a set follows by
showing the set closed, without induction along the list: a walk unfolds
(`WalkUnfold`), changes only with links on it (`WalkUntouched`), meets things one
behind the other (`WalkLinear`), and the reversal of an acyclic list, walked from
its former end, meets the same recordings (`ReversedWhole`). `ListsKeepShape` is
inductive from that and unconditional: links stay acyclic and every walk has an
end, so the loops of `broadcast_record_stop` terminate. `RecordingSafe` adds, as
long as no recording was freed under its starter, that the room's list and the
lists being wound up are disjoint (`Apart`: otherwise one thread's cut or reversal
would change another's list), that a live recording is on one of them or an orphan
(`Held`), that a list emptied by the destroyer holds late recordings only
(`Emptied`), and that a freed recording's start is past the listing and its writer
not at work (`Unused`). `RecordingsWound`, `FlagsCover` and `WritersStayInside`
follow; the last one because in a freed room nobody has a list of his own any
more (`CalmInv`). `JoinedAreTold` is what `StopsEnd` needs besides fairness: a
recording that is waited for has been told to stop, and no step turns it on again.

**ConfigReloadProofs.** `ReloadInv` says which generation is live and which one
the tables are at each step of a reload, `LockInv` that a writer is alone;
`TablesStay` follows since what a reader takes is live and cannot be freed before
it lets go. `DialInv`, that the buffer is the word being dialled unless that is
mistyped, gives `DialledIsHeard`; it rests on the digits of a binding being
shorter than the buffer, as they are in the code (both are `char[16]`), and on
`PrefixFree`, its hypothesis: only then does no shorter control empty the buffer
in the middle of a longer one.

**Only model-checked.** All liveness (`Drains`, `EventsMove`, `Departs`,
`ApiReturns`, `PromotionSettles`, `DestroyEnds`, `UnloadEnds`, `FailedPlayHeals`,
`StopsEnd`, `LookupsEnd`), which is out of the prover's reach under fairness, and
so is `ENABLED`. `TypeOK` of `Recording` is proved (`ListsKeepShape`) and not
checked separately by its run.

## Not modelled

Audio (resampling, gain, energy detection, the frame's bytes), durations (the
unit of `grace_ms` is a listed hazard), statistics, the heartbeat and the 5 s after
which a listener counts as wedged, the wording of events and API answers, XML
parsing and the values of settings, channel variables. The stop of a single
recording has no caller. A composition of `EventRing` with `Membership` would add
only the emitter's lookup of a member's fields for the text of an event, a listed
hazard. The FreeSWITCH core is external: sessions are freed when unlocked, an
rwlock admits readers together and a writer alone, `switch_core_alloc` zeroes,
reading or closing a handle that is not open returns a status and neither aborts
nor closes anything, joining a thread that is gone returns.

## Plan

1. Theorems that need no fairness and come close to the liveness properties, as
   `JoinedAreTold` does: what a destroyer that drains waits for, and a promotion
   that waits for a bridge.
2. The windows named by history variables (`twice`, `late`, `overrun`) one by one:
   what still holds inside each of them.
3. Concurrent API calls in `Membership`; the heartbeat and the wedge detection.
