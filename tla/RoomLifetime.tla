---------------------------- MODULE RoomLifetime ----------------------------
(***************************************************************************)
(* The life of the rooms (broadcast_core.c): created by a session that     *)
(* finds none of the name, found and pinned by sessions and API calls      *)
(* (live_refs), swept by the emitter and the housekeeping thread under     *)
(* hash_rwlock, and destroyed by an API call or by the unloading module,   *)
(* which frees the room's pool.                                            *)
(*                                                                         *)
(* A room is the memory of one broadcast_obj_t: a name that is created     *)
(* again is another room.  What a pinned room is used for is left out: the *)
(* other modules are about it.  A thread may be left with a freed room: a  *)
(* holder that was not waited for, or a second destroyer, which would read *)
(* b->name and destroy b->pool once more.  What that does nobody can say,  *)
(* so the model notes in wild that it has come to it, takes none of that   *)
(* thread's further steps, and claims nothing of what comes after.         *)
(***************************************************************************)
EXTENDS Integers, FiniteSets

CONSTANTS Rooms,          \* broadcast_obj_t's there may be
          Names,          \* their names
          NameOf,         \* [Rooms -> Names]
          Callers,        \* session and API threads
          Stuck,          \* those that may keep a pin for more than 10 s
          closer,         \* the thread that unloads the module
          MaxBroadcasts,  \* max-broadcasts
          NoRoom          \* a NULL pointer

ASSUME LifetimeAssumption ==
  /\ NameOf \in [Rooms -> Names]
  /\ IsFiniteSet(Callers)
  /\ Stuck \subseteq Callers
  /\ closer \notin Callers
  /\ MaxBroadcasts \in Nat
  /\ NoRoom \notin Rooms

VARIABLES hash,       \* broadcast_globals.broadcast_hash
          active,     \* broadcast_globals.active_broadcasts
          sweeping,   \* the emitter and the housekeeping: asleep, in a
                      \* sweep under hash_rwlock, or gone
          memory,     \* the room's pool: unused, live, freed
          destruct,   \* BFLAG_DESTRUCT
          destroyed,  \* b->destroyed
          producer,   \* the producer thread: none, running, gone
          refs,       \* b->live_refs
          pc,         \* each thread's next step
          room,       \* the room each thread works on
          early,      \* history: rooms whose first count lost a pin
          late,       \* history: threads that pinned a room already dying
          twice,      \* history: rooms destroyed more than once
          wild        \* history: a thread has used freed memory

globals == <<hash, active, sweeping>>
flags == <<memory, destruct, destroyed, producer>>
control == <<pc, room>>
history == <<early, late, twice, wild>>
vars == <<globals, flags, refs, control, history>>

Threads == Callers \cup {closer}
Sweepers == {"emitter", "housekeeping"}

Init ==
  /\ hash = [n \in Names |-> NoRoom] /\ active = 0
  /\ sweeping = [w \in Sweepers |-> "asleep"]
  /\ memory = [r \in Rooms |-> "unused"]
  /\ destruct = [r \in Rooms |-> FALSE]
  /\ destroyed = [r \in Rooms |-> FALSE]
  /\ producer = [r \in Rooms |-> "none"]
  /\ refs = [r \in Rooms |-> 0]
  /\ pc = [t \in Threads |-> IF t = closer THEN "loaded" ELSE "idle"]
  /\ room = [t \in Threads |-> NoRoom]
  /\ early = {} /\ late = {} /\ twice = {} /\ wild = FALSE

Goto(t, label) == pc' = [pc EXCEPT ![t] = label]
Keep(t, r) == room' = [room EXCEPT ![t] = r]

(* Fault: the thread keeps the pointer.                                    *)
ReturnKeeps(t) == Goto(t, "idle") /\ UNCHANGED room

(* The thread is through with its room.                                    *)
Return(t) == Goto(t, "idle") /\ Keep(t, NoRoom)

(* The thread's room has not been freed under it.                          *)
Intact(t) == memory[room[t]] # "freed"

(* Nobody holds hash_rwlock for reading: broadcast_find_and_ref does from  *)
(* its look at the room to the pin.                                        *)
WriteLockFree ==
  /\ \A w \in Sweepers : sweeping[w] # "sweep"
  /\ \A t \in Threads : pc[t] # "ref"
-----------------------------------------------------------------------------
(* broadcast_find_and_ref and broadcast_release.                           *)

Usable(r) == r # NoRoom /\ ~ destroyed[r] /\ ~ destruct[r]

Find(t, n) ==
  /\ pc[t] = "idle"
  /\ t \in Callers
  /\ Usable(hash[n])
  /\ Keep(t, hash[n])
  /\ Goto(t, "ref")
  /\ UNCHANGED <<globals, flags, refs, history>>

Ref(t) ==
  /\ pc[t] = "ref"
  /\ refs' = [refs EXCEPT ![room[t]] = @ + 1]
  /\ late' = IF destruct[room[t]] THEN late \cup {t} ELSE late
  /\ Goto(t, "hold")
  /\ UNCHANGED <<globals, flags, room, early, twice, wild>>

(* Fault: an early return forgets the release.                             *)
ReleaseNot(t) ==
  /\ pc[t] = "hold"
  /\ Intact(t)
  /\ refs' = refs
  /\ late' = late \ {t}
  /\ Return(t)
  /\ UNCHANGED <<globals, flags, early, twice, wild>>

Release(t) ==
  /\ pc[t] = "hold"
  /\ Intact(t)
  /\ refs' = [refs EXCEPT ![room[t]] = @ - 1]
  /\ late' = late \ {t}
  /\ Return(t)
  /\ UNCHANGED <<globals, flags, early, twice, wild>>
-----------------------------------------------------------------------------
(* broadcast_create, by a session that found no room it could use.         *)

Allocate(t, r) ==
  /\ pc[t] = "idle"
  /\ t \in Callers
  /\ ~ Usable(hash[NameOf[r]])
  /\ memory[r] = "unused"
  /\ memory' = [memory EXCEPT ![r] = "live"]
  /\ Keep(t, r)
  /\ Goto(t, "insert")
  /\ UNCHANGED <<globals, destruct, destroyed, producer, refs, history>>

(* The count is compared as an unsigned number.                            *)
Insert(t) ==
  LET r == room[t] IN
  /\ pc[t] = "insert"
  /\ WriteLockFree
  /\ hash[NameOf[r]] = NoRoom
  /\ active \in 0 .. MaxBroadcasts - 1
  /\ hash' = [hash EXCEPT ![NameOf[r]] = r]
  /\ active' = active + 1
  /\ producer' = [producer EXCEPT ![r] = "running"]
  /\ Goto(t, "store")
  /\ UNCHANGED <<sweeping, memory, destruct, destroyed, refs, room, history>>

(* Fault: the failed creation cleans up by name.                           *)
InsertFailsUnhashes(t) ==
  /\ pc[t] = "insert"
  /\ WriteLockFree
  /\ hash' = [hash EXCEPT ![NameOf[room[t]]] = NoRoom]
  /\ memory' = [memory EXCEPT ![room[t]] = "freed"]
  /\ Return(t)
  /\ UNCHANGED <<active, sweeping, destruct, destroyed, producer, refs,
                 history>>

(* The name exists by now, there are too many rooms, or no thread can be   *)
(* created.                                                                *)
InsertFails(t) ==
  /\ pc[t] = "insert"
  /\ WriteLockFree
  /\ memory' = [memory EXCEPT ![room[t]] = "freed"]
  /\ Return(t)
  /\ UNCHANGED <<globals, destruct, destroyed, producer, refs, history>>

(* The creator's pin is stored, not added, after the lock is released.     *)
StoreRef(t) ==
  /\ pc[t] = "store"
  /\ Intact(t)
  /\ refs' = [refs EXCEPT ![room[t]] = 1]
  /\ early' = IF refs[room[t]] # 0 THEN early \cup {room[t]} ELSE early
  /\ late' = IF destruct[room[t]] THEN late \cup {t} ELSE late
  /\ Goto(t, "hold")
  /\ UNCHANGED <<globals, flags, room, twice, wild>>
-----------------------------------------------------------------------------
(* broadcast_destroy_ex, on a pin that is never released.                  *)

Destroying == {"begin", "mark", "drain", "join", "unhash", "free"}

(* Nothing keeps a second thread from destroying the same room.            *)
Note(t, r) ==
  twice' = IF \/ destruct[r]
              \/ \E u \in Threads \ {t} : pc[u] \in Destroying /\ room[u] = r
           THEN twice \cup {r}
           ELSE twice

(* The API's destroy command.                                              *)
Destroy(t) ==
  /\ pc[t] = "hold"
  /\ Intact(t)
  /\ Note(t, room[t])
  /\ Goto(t, "begin")
  /\ UNCHANGED <<globals, flags, refs, room, early, late, wild>>

(* BFLAG_DESTRUCT is set before the grace period, b->destroyed after it.   *)
MarkDestruct(t) ==
  /\ pc[t] = "begin"
  /\ Intact(t)
  /\ destruct' = [destruct EXCEPT ![room[t]] = TRUE]
  /\ Goto(t, "mark")
  /\ UNCHANGED <<globals, memory, destroyed, producer, refs, room, history>>

MarkDestroyed(t) ==
  /\ pc[t] = "mark"
  /\ Intact(t)
  /\ destroyed' = [destroyed EXCEPT ![room[t]] = TRUE]
  /\ Goto(t, "drain")
  /\ UNCHANGED <<globals, memory, destruct, producer, refs, room, history>>

(* Fault: the destroyer forgets that it holds a pin itself.                *)
DrainedLate(t) ==
  /\ pc[t] = "drain"
  /\ Intact(t)
  /\ refs[room[t]] <= 2
  /\ Goto(t, "join")
  /\ UNCHANGED <<globals, flags, refs, room, history>>

(* The wait for the members is contained in the wait for the pins: every   *)
(* member's session holds one.                                             *)
Drained(t) ==
  /\ pc[t] = "drain"
  /\ Intact(t)
  /\ refs[room[t]] <= 1
  /\ Goto(t, "join")
  /\ UNCHANGED <<globals, flags, refs, room, history>>

(* Fault: the wait for the pins has no end.                                *)
DrainTimeoutNever(t) ==
  /\ pc[t] = "drain"
  /\ Intact(t)
  /\ refs[room[t]] < 0
  /\ Goto(t, "join")
  /\ UNCHANGED <<globals, flags, refs, room, history>>

(* Ten seconds have passed, and with them every pin but those of stuck     *)
(* threads and of other destroyers.                                        *)
DrainTimeout(t) ==
  /\ pc[t] = "drain"
  /\ Intact(t)
  /\ refs[room[t]] > 1
  /\ \A u \in Threads \ {t} :
       pc[u] = "hold" /\ room[u] = room[t] => u \in Stuck
  /\ Goto(t, "join")
  /\ UNCHANGED <<globals, flags, refs, room, history>>

(* Fault: the producer is told to stop and not waited for.                 *)
JoinNot(t) ==
  /\ pc[t] = "join"
  /\ Intact(t)
  /\ Goto(t, "unhash")
  /\ UNCHANGED <<globals, flags, refs, room, history>>

JoinProducer(t) ==
  /\ pc[t] = "join"
  /\ Intact(t)
  /\ producer[room[t]] = "gone"
  /\ Goto(t, "unhash")
  /\ UNCHANGED <<globals, flags, refs, room, history>>

(* Fault: the room is left in the hash.                                    *)
UnhashNot(t) ==
  /\ pc[t] = "unhash"
  /\ Intact(t)
  /\ WriteLockFree
  /\ hash' = hash
  /\ active' = active - 1
  /\ Goto(t, "free")
  /\ UNCHANGED <<sweeping, flags, refs, room, history>>

(* The entry is deleted by the room's name, whoever has it by now.         *)
Unhash(t) ==
  /\ pc[t] = "unhash"
  /\ Intact(t)
  /\ WriteLockFree
  /\ hash' = [hash EXCEPT ![NameOf[room[t]]] = NoRoom]
  /\ active' = active - 1
  /\ Goto(t, "free")
  /\ UNCHANGED <<sweeping, flags, refs, room, history>>

Free(t) ==
  /\ pc[t] = "free"
  /\ Intact(t)
  /\ memory' = [memory EXCEPT ![room[t]] = "freed"]
  /\ late' = late \ {t}
  /\ Return(t)
  /\ UNCHANGED <<globals, destruct, destroyed, producer, refs, early, twice,
                 wild>>

DestroyStep(t) ==
  \/ MarkDestruct(t) \/ MarkDestroyed(t) \/ Drained(t) \/ DrainTimeout(t)
  \/ JoinProducer(t) \/ Unhash(t) \/ Free(t)

Holding == {"hold"} \cup Destroying

(* A thread goes on with its room when another has freed it: a holder that *)
(* was not waited for, the creator with its first count, or a second       *)
(* destroyer.                                                              *)
UseFreed(t) ==
  /\ pc[t] \in Holding \cup {"store"}
  /\ ~ Intact(t)
  /\ wild' = TRUE
  /\ UNCHANGED <<globals, flags, refs, control, early, late, twice>>

(* The producer gives up when it cannot create its timer.                  *)
ProducerFails(r) ==
  /\ producer[r] = "running"
  /\ producer' = [producer EXCEPT ![r] = "gone"]
  /\ UNCHANGED <<globals, memory, destruct, destroyed, refs, control,
                 history>>

(* The producer leaves its loop when it sees the room destroyed.           *)
ProducerExit(r) ==
  /\ producer[r] = "running"
  /\ destroyed[r]
  /\ producer' = [producer EXCEPT ![r] = "gone"]
  /\ UNCHANGED <<globals, memory, destruct, destroyed, refs, control,
                 history>>
-----------------------------------------------------------------------------
(* The emitter's and the housekeeping's sweeps, which touch every room of  *)
(* the hash, and the unloading of the module, which tells first the one    *)
(* and then the other to end.                                              *)

Unloading == {"await", "stop", "idle", "unloaded"} \cup Destroying

(* Fault: nobody clears emitter_running.                                   *)
ToldHousekeeping(w) == w = "housekeeping" /\ pc[closer] \in Unloading

(* The thread's flag, running or emitter_running, is cleared.              *)
Told(w) ==
  pc[closer] \in IF w = "emitter" THEN Unloading \ {"await"} ELSE Unloading

SweepBegin(w) ==
  /\ sweeping[w] = "asleep"
  /\ ~ Told(w)
  /\ sweeping' = [sweeping EXCEPT ![w] = "sweep"]
  /\ UNCHANGED <<hash, active, flags, refs, control, history>>

SweepEnd(w) ==
  /\ sweeping[w] = "sweep"
  /\ sweeping' = [sweeping EXCEPT ![w] = "asleep"]
  /\ UNCHANGED <<hash, active, flags, refs, control, history>>

SweeperExit(w) ==
  /\ sweeping[w] = "asleep"
  /\ Told(w)
  /\ sweeping' = [sweeping EXCEPT ![w] = "gone"]
  /\ UNCHANGED <<hash, active, flags, refs, control, history>>

Sweep ==
  \E w \in Sweepers : SweepBegin(w) \/ SweepEnd(w) \/ SweeperExit(w)

Unload ==
  /\ pc[closer] = "loaded"
  /\ Goto(closer, "await")
  /\ UNCHANGED <<globals, flags, refs, room, history>>

(* The housekeeping is gone; or 10 s have passed, which only a sweep that  *)
(* is held up outlasts.                                                    *)
AwaitHousekeeping ==
  /\ pc[closer] = "await"
  /\ sweeping["housekeeping"] \in {"gone", "sweep"}
  /\ Goto(closer, "stop")
  /\ UNCHANGED <<globals, flags, refs, room, history>>

(* broadcast_event_emitter_stop.                                           *)
JoinEmitter ==
  /\ pc[closer] = "stop"
  /\ sweeping["emitter"] = "gone"
  /\ Goto(closer, "idle")
  /\ UNCHANGED <<globals, flags, refs, room, history>>

UnloadStep == Unload \/ AwaitHousekeeping \/ JoinEmitter

(* broadcast_destroy_all pins whatever room it finds first.                *)
CloseNext ==
  /\ pc[closer] = "idle"
  /\ WriteLockFree
  /\ \E n \in Names :
       /\ hash[n] # NoRoom
       /\ refs' = [refs EXCEPT ![hash[n]] = @ + 1]
       /\ Keep(closer, hash[n])
       /\ Note(closer, hash[n])
  /\ Goto(closer, "begin")
  /\ UNCHANGED <<globals, flags, early, late, wild>>

(* Fault: the look for the last room does without the lock.                *)
CloseDoneUnlocked ==
  /\ pc[closer] = "idle"
  /\ \A n \in Names : hash[n] = NoRoom
  /\ Goto(closer, "unloaded")
  /\ UNCHANGED <<globals, flags, refs, room, history>>

(* Without a room left, the hash and its lock are destroyed.               *)
CloseDone ==
  /\ pc[closer] = "idle"
  /\ WriteLockFree
  /\ \A n \in Names : hash[n] = NoRoom
  /\ Goto(closer, "unloaded")
  /\ UNCHANGED <<globals, flags, refs, room, history>>
-----------------------------------------------------------------------------
Next ==
  \/ \E t \in Threads :
       \/ \E n \in Names : Find(t, n)
       \/ \E r \in Rooms : Allocate(t, r)
       \/ Ref(t) \/ Release(t) \/ Insert(t) \/ InsertFails(t) \/ StoreRef(t)
       \/ Destroy(t) \/ DestroyStep(t) \/ UseFreed(t)
  \/ \E r \in Rooms : ProducerExit(r) \/ ProducerFails(r)
  \/ Sweep \/ UnloadStep \/ CloseNext \/ CloseDone

(* A call under way goes on; a member leaves a destroyed room unless it is *)
(* stuck.  hash_rwlock is free of readers again and again, since the       *)
(* sweeps sleep in between and a lookup is short, and is then had in the   *)
(* end.  Nothing forces a call, a destroy or an unload to be made.         *)
Fairness ==
  /\ []<> WriteLockFree
  /\ \A t \in Threads :
       /\ WF_vars(Ref(t)) /\ WF_vars(StoreRef(t))
       /\ SF_vars(DestroyStep(t) \/ (pc[t] \in Destroying /\ UseFreed(t)))
       /\ WF_vars(Release(t) /\ t \notin Stuck /\ destroyed[room[t]])
  /\ \A r \in Rooms : WF_vars(ProducerExit(r))
  /\ \A w \in Sweepers : WF_vars(SweepEnd(w)) /\ WF_vars(SweeperExit(w))
  /\ WF_vars(AwaitHousekeeping) /\ WF_vars(JoinEmitter)
  /\ SF_vars(CloseNext) /\ SF_vars(CloseDone)

Spec == Init /\ [][Next]_vars
FairSpec == Spec /\ Fairness
-----------------------------------------------------------------------------
Holders(r) == {t \in Threads : pc[t] \in Holding /\ room[t] = r}

TypeOK ==
  /\ hash \in [Names -> Rooms \cup {NoRoom}]
  /\ active \in Int
  /\ sweeping \in [Sweepers -> {"asleep", "sweep", "gone"}]
  /\ memory \in [Rooms -> {"unused", "live", "freed"}]
  /\ destruct \in [Rooms -> BOOLEAN]
  /\ destroyed \in [Rooms -> BOOLEAN]
  /\ producer \in [Rooms -> {"none", "running", "gone"}]
  /\ refs \in [Rooms -> Int]
  /\ pc \in [Threads -> {"idle", "ref", "insert", "store", "loaded", "await",
                         "stop", "unloaded"} \cup Holding]
  /\ room \in [Threads -> Rooms \cup {NoRoom}]
  /\ \A t \in Threads :
       room[t] = NoRoom <=>
         pc[t] \in {"idle", "loaded", "await", "stop", "unloaded"}
  /\ early \subseteq Rooms /\ late \subseteq Threads /\ twice \subseteq Rooms
  /\ wild \in BOOLEAN

(* Whoever looks a room up or sweeps the hash under hash_rwlock finds      *)
(* memory that is still there, up to the first use of freed memory: by     *)
(* then a thread that was not waited for, or a second destroyer of a room  *)
(* that the first has freed, may have done anything.                       *)
HashedAlive ==
  \A n \in Names : hash[n] # NoRoom => wild \/ memory[hash[n]] = "live"

(* live_refs counts the pins of a room, through creation, early returns    *)
(* and destroys, unless the creator's store has wiped out a pin, and up to *)
(* the first use of freed memory.                                          *)
RefsCounted ==
  \A r \in Rooms :
    memory[r] = "live" /\ r \notin early /\ ~ wild =>
      refs[r] = Cardinality(Holders(r))

(* A pin taken of a room not yet dying keeps it, unless the creator's      *)
(* store has wiped out a pin: neither the 10 s timeout that gives up on    *)
(* stuck threads nor a second destroyer frees it under a prompt one, up to *)
(* the first use of freed memory.                                          *)
PinnedAlive ==
  \A t \in Callers \ Stuck :
    pc[t] = "hold" /\ t \notin late /\ room[t] \notin early /\ ~ wild =>
      memory[room[t]] = "live"

(* The producer never runs in a room that is freed, up to the first use of *)
(* freed memory.  That two destroyers of one room may join one thread at   *)
(* the same time, which POSIX leaves undefined, is taken to end well.      *)
ProducerInside ==
  \A r \in Rooms : producer[r] = "running" => wild \/ memory[r] = "live"

(* A room leaves the hash only when it is itself destroyed, although the   *)
(* entry is deleted by name and names are used again, as long as no room   *)
(* is destroyed twice and no freed memory has been used.                   *)
OwnEntryDeleted ==
  [][\A n \in Names :
       /\ twice = {} /\ ~ wild
       /\ hash[n] # NoRoom /\ hash'[n] # hash[n]
       => destroyed[hash[n]]]_vars

(* The hash and its lock are not destroyed under a sweep, not even under   *)
(* one that the unloading thread has given up on after 10 s, up to the     *)
(* first use of freed memory.                                              *)
SweepsInside ==
  pc[closer] = "unloaded" /\ ~ wild =>
    \A w \in Sweepers : sweeping[w] # "sweep"

(* A destroy comes to its end: neither stuck members, nor another          *)
(* destroyer, nor the sweeps hold it up for ever.  It may come to its end  *)
(* in a room that the other destroyer has freed by then.                   *)
DestroyEnds ==
  \A t \in Threads : pc[t] \in Destroying ~> pc[t] \notin Destroying \/ wild

(* An unload that has begun comes to its end, with sweeps under way, rooms *)
(* to destroy, members that are stuck in them and callers that destroy     *)
(* them too, unless freed memory is used on the way.                       *)
UnloadEnds == pc[closer] = "await" ~> pc[closer] = "unloaded" \/ wild
-----------------------------------------------------------------------------
(* broadcast_find_and_ref "holds a live reference until broadcast_release" *)
(* and is "refused while destroy/teardown is in progress so callers never  *)
(* pin a dying broadcast_obj_t": not even while the module stays loaded    *)
(* does the code keep it.                                                  *)
PinKeepsRoom ==
  pc[closer] = "loaded" =>
    \A t \in Callers \ Stuck : pc[t] = "hold" => memory[room[t]] = "live"
=============================================================================
