----------------------------- MODULE Membership -----------------------------
(***************************************************************************)
(* The members of one room, its speaker slot and its listener list.        *)
(*                                                                         *)
(* Every member runs broadcast_app_function on its own session thread      *)
(* (mod_broadcast.c): as a listener through broadcast_listener_add and     *)
(* broadcast_listener_run, as a speaker through broadcast_set_speaker and  *)
(* broadcast_speaker_main_wait.  A speaker has an input thread that reads  *)
(* its session.  An API thread promotes, kicks, clears, locks and destroys *)
(* from outside, and the producer reads the speaker's buffer every tick.   *)
(*                                                                         *)
(* A member's record lives in its session's pool: it is freed when the     *)
(* session thread has left and nobody holds the session read-locked.       *)
(***************************************************************************)
EXTENDS Integers, FiniteSets

CONSTANTS Members,       \* the sessions that run the application
          Slow,          \* those that may outlast the promotion's 200 ms
                         \* wait (a blocked write, an application run by a
                         \* DTMF control)
          Ghosts,        \* those that joined with ghost=true: MFLAG_GHOST
          Timerless,     \* the slow ones that may fail to create their timer
          MaxListeners,  \* profile max_listeners
          Override,      \* profile speaker_override
          MaxPromotions, \* bound: listeners unlinked for a promotion
          api,           \* the API thread
          NoOne          \* a NULL pointer

ASSUME MembershipAssumption ==
  /\ Slow \subseteq Members /\ Timerless \subseteq Slow
  /\ Ghosts \subseteq Members
  /\ MaxListeners \in Nat
  /\ Override \in BOOLEAN
  /\ MaxPromotions \in Nat
  /\ api \notin Members
  /\ NoOne \notin Members \cup {api}

VARIABLES speaker,     \* b->current_speaker
          list,        \* the members linked from b->listener_head
          destroyed,   \* b->destroyed
          draining,    \* the speaker the producer reads, under speaker_lock
          role,        \* m->role
          running,     \* MFLAG_RUNNING
          transition,  \* MFLAG_ROLE_TRANSITION_TO_SPEAKER
          ready,       \* switch_channel_ready(m->channel)
          inBridge,    \* m->in_listener_bridge
          audio,       \* read codec and audio buffer: none, live, destroyed
          handle,      \* m->input_thread is set
          inRun,       \* m->input_running
          input,       \* the input thread: none, created, reading, gone
          pc,          \* the next step of each thread
          victim,      \* the member whose input the thread is stopping
          then,        \* where the thread goes on after that
          target,      \* the member the API thread holds pinned
          joined,      \* b->stat_listeners_joined
          left,        \* b->stat_listeners_left
          unlinked,    \* history: listeners unlinked for a promotion, but
                       \* for ghosts
          promotions   \* how many promotions have unlinked their member

Threads == Members \cup {api}

room == <<speaker, list, destroyed, draining>>
flags == <<role, running, transition, ready, inBridge>>
media == <<audio, handle, inRun, input>>
control == <<pc, victim, then, target>>
counts == <<joined, left, unlinked, promotions>>
vars == <<room, flags, media, control, counts>>

Init ==
  /\ speaker = NoOne /\ list = {} /\ destroyed = FALSE
  /\ draining = NoOne
  /\ role = [m \in Members |-> "listener"]
  /\ running = [m \in Members |-> FALSE]
  /\ transition = [m \in Members |-> FALSE]
  /\ ready = [m \in Members |-> TRUE]
  /\ inBridge = [m \in Members |-> FALSE]
  /\ audio = [m \in Members |-> "none"]
  /\ handle = [m \in Members |-> FALSE]
  /\ inRun = [m \in Members |-> FALSE]
  /\ input = [m \in Members |-> "none"]
  /\ pc = [t \in Threads |-> IF t = api THEN "idle" ELSE "new"]
  /\ victim = [t \in Threads |-> NoOne]
  /\ then = [t \in Threads |-> "idle"]
  /\ target = NoOne
  /\ joined = 0 /\ left = 0 /\ unlinked = 0 /\ promotions = 0

Set(f, x, v) == [f EXCEPT ![x] = v]
Goto(t, label) == pc' = Set(pc, t, label)
-----------------------------------------------------------------------------
(* broadcast_speaker_stop_input: what every path that empties or replaces  *)
(* the speaker slot does to the member it took out.                        *)

(* Fault: the member taken out of the slot keeps its input.                *)
StopNobodyThen(t, old, next) ==
  /\ Goto(t, next)
  /\ UNCHANGED <<victim, then>>

(* Once speaker_lock is written, stop the input of the member that was in  *)
(* the slot and go on at next.                                             *)
StopOldThen(t, old, next) ==
  IF old = NoOne
  THEN /\ Goto(t, next)
       /\ UNCHANGED <<victim, then>>
  ELSE /\ Goto(t, "stop")
       /\ victim' = Set(victim, t, old)
       /\ then' = Set(then, t, next)

(* broadcast_set_speaker's locked swap.  The write lock waits for the      *)
(* producer's read lock.                                                   *)
SwapSpeaker(t, new, next) ==
  /\ draining = NoOne
  /\ speaker' = new
  /\ StopOldThen(t, IF speaker = new THEN NoOne ELSE speaker, next)

StopDone(t) ==
  /\ Goto(t, then[t])
  /\ victim' = Set(victim, t, NoOne)
  /\ then' = Set(then, t, "idle")
  /\ UNCHANGED <<room, flags, audio, input, target, counts>>

(* input_running := 0, then an atomic exchange takes the thread's handle.  *)
StopInput(t) ==
  /\ pc[t] = "stop"
  /\ inRun' = Set(inRun, victim[t], FALSE)
  /\ handle' = Set(handle, victim[t], FALSE)
  /\ IF handle[victim[t]]
     THEN /\ Goto(t, "join")
          /\ UNCHANGED <<room, flags, audio, input, victim, then, target,
                         counts>>
     ELSE StopDone(t)

JoinInput(t) ==
  /\ pc[t] = "join"
  /\ input[victim[t]] = "gone"
  /\ StopDone(t)
  /\ UNCHANGED <<handle, inRun>>
-----------------------------------------------------------------------------
(* The speaker branch of the application, shared by promoted listeners     *)
(* from broadcast_set_speaker on.                                          *)

SlotOpen == speaker = NoOne \/ Override

(* The slot is looked at here and taken later, in Publish.                 *)
JoinAsSpeaker(m) ==
  /\ pc[m] = "new"
  /\ SlotOpen
  /\ role' = Set(role, m, "speaker")
  /\ audio' = Set(audio, m, "live")
  /\ running' = Set(running, m, TRUE)
  /\ Goto(m, "install")
  /\ UNCHANGED <<room, transition, ready, inBridge, handle, inRun, input,
                 victim, then, target, counts>>

RejectSpeaker(m) ==
  /\ pc[m] = "new"
  /\ ~ SlotOpen
  /\ role' = Set(role, m, "speaker")
  /\ audio' = Set(audio, m, "live")
  /\ ready' = Set(ready, m, FALSE)
  /\ Goto(m, "cleanup")
  /\ UNCHANGED <<room, running, transition, inBridge, handle, inRun, input,
                 victim, then, target, counts>>

(* set_speaker makes sure of the audio path and starts the input thread    *)
(* before it publishes the member.                                         *)
StartInput(m) ==
  /\ pc[m] \in {"install", "promote"}
  /\ ~ inBridge[m]
  /\ audio' = Set(audio, m, "live")
  /\ role' = Set(role, m, "speaker")
  /\ handle' = Set(handle, m, TRUE)
  /\ inRun' = Set(inRun, m, TRUE)
  /\ input' = Set(input, m, "created")
  /\ Goto(m, "publish")
  /\ UNCHANGED <<room, running, transition, ready, inBridge, victim, then,
                 target, counts>>

(* It refuses a member still in its bridge, and fails without a codec or a *)
(* buffer, or later, with the role taken, without a thread.                *)
InstallFails(m) ==
  /\ pc[m] \in {"install", "promote"}
  /\ \/ UNCHANGED <<role, audio>>
     \/ /\ ~ inBridge[m]
        /\ role' = Set(role, m, "speaker")
        /\ audio' = Set(audio, m, "live")
  /\ Goto(m, IF pc[m] = "install" THEN "cleanup" ELSE "exit")
  /\ UNCHANGED <<room, running, transition, ready, inBridge, handle, inRun,
                 input, victim, then, target, counts>>

Publish(m) ==
  /\ pc[m] = "publish"
  /\ SwapSpeaker(m, m, "wait")
  /\ UNCHANGED <<list, destroyed, draining, flags, media, target, counts>>

(* Fault: the wait is left without a look at the slot.                     *)
EndWaitReturns(m) ==
  /\ pc[m] = "wait"
  /\ ~ running[m] \/ ~ ready[m] \/ destroyed \/ speaker # m
  /\ Goto(m, "cleanup")
  /\ UNCHANGED <<room, flags, media, victim, then, target, counts>>

(* Fault: the wait does not look at the slot.                              *)
EndWaitBlind(m) ==
  /\ pc[m] = "wait"
  /\ ~ running[m] \/ ~ ready[m] \/ destroyed
  /\ Goto(m, "check")
  /\ UNCHANGED <<room, flags, media, victim, then, target, counts>>

(* broadcast_speaker_main_wait: the loop's conditions.                     *)
EndWait(m) ==
  /\ pc[m] = "wait"
  /\ ~ running[m] \/ ~ ready[m] \/ destroyed \/ speaker # m
  /\ Goto(m, "check")
  /\ UNCHANGED <<room, flags, media, victim, then, target, counts>>

(* Under the read lock: is the slot still ours?  The lock is released      *)
(* before broadcast_clear_speaker empties the slot.                        *)
CheckSlot(m) ==
  /\ pc[m] = "check"
  /\ Goto(m, IF speaker = m THEN "clear" ELSE "exit")
  /\ UNCHANGED <<room, flags, media, victim, then, target, counts>>

ClearSlot(m) ==
  /\ pc[m] = "clear"
  /\ SwapSpeaker(m, NoOne, "exit")
  /\ UNCHANGED <<list, destroyed, draining, flags, media, target, counts>>

(* After the wait.                                                         *)
Exit(m) ==
  /\ pc[m] = "exit"
  /\ running' = Set(running, m, FALSE)
  /\ Goto(m, "clear_if")
  /\ UNCHANGED <<room, role, transition, ready, inBridge, media, victim,
                 then, target, counts>>

(* broadcast_clear_speaker_if_current compares and clears under the lock.  *)
ClearIfCurrent(m) ==
  /\ pc[m] = "clear_if"
  /\ IF speaker = m
     THEN SwapSpeaker(m, NoOne, "cleanup")
     ELSE /\ draining = NoOne
          /\ Goto(m, "cleanup")
          /\ UNCHANGED <<speaker, victim, then>>
  /\ UNCHANGED <<list, destroyed, draining, flags, media, target, counts>>

(* Codecs destroyed, the room released: the application returns.           *)
Cleanup(m) ==
  /\ pc[m] = "cleanup"
  /\ audio' = Set(audio, m, IF audio[m] = "live" THEN "destroyed"
                                                 ELSE audio[m])
  /\ Goto(m, "released")
  /\ UNCHANGED <<room, flags, handle, inRun, input, victim, then, target,
                 counts>>

(* The core frees the session and its pool once no read lock is left.      *)
Free(m) ==
  /\ pc[m] = "released"
  /\ input[m] # "reading"
  /\ target # m
  /\ Goto(m, "gone")
  /\ ready' = Set(ready, m, FALSE)
  /\ UNCHANGED <<room, role, running, transition, inBridge, media, victim,
                 then, target, counts>>

SpeakerStep(m) ==
  \/ StartInput(m) \/ InstallFails(m) \/ Publish(m) \/ EndWait(m)
  \/ CheckSlot(m) \/ ClearSlot(m) \/ Exit(m) \/ ClearIfCurrent(m)
  \/ Cleanup(m) \/ Free(m)
-----------------------------------------------------------------------------
(* The listener branch.                                                    *)

HasRoom == Cardinality(list) < MaxListeners

(* What broadcast_listener_add does with listener_lock written.            *)
AddListener(m) ==
  /\ list' = list \cup {m}
  /\ role' = Set(role, m, "listener")

(* Ghosts are listed, and counted by nothing but the list.                 *)
CountUp(n, m) == IF m \in Ghosts THEN n ELSE n + 1

(* Fault: the counter goes the wrong way.                                  *)
StartListenerDown(m) ==
  /\ joined' = joined - 1
  /\ running' = Set(running, m, TRUE)

(* What it does when the lock is released: it counts the listener (nobody  *)
(* reads the counter) and raises MFLAG_RUNNING.                            *)
StartListener(m) ==
  /\ joined' = CountUp(joined, m)
  /\ running' = Set(running, m, TRUE)

(* broadcast_listener_add looks at the room's flags before it locks the    *)
(* list.  BFLAG_LOCKED is set and cleared by the API at any time and read  *)
(* here only: a room may be found locked whenever a listener is added.     *)
CheckRoom(m) ==
  /\ pc[m] = "new"
  /\ ~ destroyed
  /\ Goto(m, "add")
  /\ UNCHANGED <<room, flags, media, victim, then, target, counts>>

JoinAsListener(m) ==
  /\ pc[m] = "add"
  /\ HasRoom
  /\ AddListener(m)
  /\ Goto(m, "count")
  /\ UNCHANGED <<speaker, destroyed, draining, running, transition, ready,
                 inBridge, media, victim, then, target, counts>>

CountJoin(m) ==
  /\ pc[m] = "count"
  /\ StartListener(m)
  /\ Goto(m, "bridge")
  /\ UNCHANGED <<room, role, transition, ready, inBridge, media, victim,
                 then, target, left, unlinked, promotions>>

(* The room is locked or destroyed, or then turns out to be full.          *)
RejectListener(m) ==
  /\ pc[m] = "new" \/ (pc[m] = "add" /\ ~ HasRoom)
  /\ ready' = Set(ready, m, FALSE)
  /\ Goto(m, "cleanup")
  /\ UNCHANGED <<room, role, running, transition, inBridge, media, victim,
                 then, target, counts>>

EnterBridge(m) ==
  /\ pc[m] = "bridge"
  /\ inBridge' = Set(inBridge, m, TRUE)
  /\ Goto(m, "loop")
  /\ UNCHANGED <<room, role, running, transition, ready, media, victim, then,
                 target, counts>>

(* Without a timer broadcast_listener_run returns as it is.                *)
TimerFails(m) ==
  /\ pc[m] = "loop"
  /\ m \in Timerless
  /\ Goto(m, "returned")
  /\ UNCHANGED <<room, flags, media, victim, then, target, counts>>

EndLoop(m) ==
  /\ pc[m] = "loop"
  /\ ~ running[m] \/ ~ ready[m] \/ destroyed
  /\ running' = Set(running, m, FALSE)
  /\ Goto(m, "leaving")
  /\ UNCHANGED <<room, role, transition, ready, inBridge, media, victim,
                 then, target, counts>>

LeaveBridge(m) ==
  /\ pc[m] = "leaving"
  /\ inBridge' = Set(inBridge, m, FALSE)
  /\ Goto(m, "returned")
  /\ UNCHANGED <<room, role, running, transition, ready, media, victim, then,
                 target, counts>>

(* Back in the application: the role transition decides the branch.        *)
TakePromotion(m) ==
  /\ pc[m] = "returned"
  /\ transition[m]
  /\ transition' = Set(transition, m, FALSE)
  /\ running' = Set(running, m, TRUE)
  /\ Goto(m, "promote")
  /\ UNCHANGED <<room, role, ready, inBridge, media, victim, then, target,
                 counts>>

Depart(m) ==
  /\ pc[m] = "returned"
  /\ ~ transition[m]
  /\ Goto(m, "unlist")
  /\ UNCHANGED <<room, flags, media, victim, then, target, counts>>

(* Fault: a leave is counted for a ghost.                                  *)
UnlistGhost(m) ==
  /\ pc[m] = "unlist"
  /\ list' = list \ {m}
  /\ left' = IF m \in list THEN left + 1 ELSE left
  /\ Goto(m, "clear_if")
  /\ UNCHANGED <<speaker, destroyed, draining, flags, media, victim, then,
                 target, joined, unlinked, promotions>>

(* broadcast_listener_del counts a leave, with the lock held, only for a   *)
(* member it finds that is no ghost.                                       *)
Unlist(m) ==
  /\ pc[m] = "unlist"
  /\ list' = list \ {m}
  /\ left' = IF m \in list THEN CountUp(left, m) ELSE left
  /\ Goto(m, "clear_if")
  /\ UNCHANGED <<speaker, destroyed, draining, flags, media, victim, then,
                 target, joined, unlinked, promotions>>

ListenerStep(m) ==
  \/ CountJoin(m) \/ EnterBridge(m) \/ EndLoop(m) \/ LeaveBridge(m)
  \/ TakePromotion(m) \/ Depart(m) \/ Unlist(m)
-----------------------------------------------------------------------------
(* What may happen to a member in a call.                                  *)

Hangup(m) ==
  /\ pc[m] # "gone"
  /\ ready[m]
  /\ ready' = Set(ready, m, FALSE)
  /\ UNCHANGED <<room, role, running, transition, inBridge, media, control,
                 counts>>

(* The DTMF control "leave", dispatched on the member's own thread; a      *)
(* frame the listener's loop cannot read or write ends it the same way.    *)
SelfLeave(m) ==
  /\ pc[m] \in {"loop", "wait"}
  /\ running[m]
  /\ running' = Set(running, m, FALSE)
  /\ UNCHANGED <<room, role, transition, ready, inBridge, media, control,
                 counts>>

(* The input thread read-locks the session for as long as it reads, and    *)
(* gives up if the session is going.                                       *)
InputBegin(m) ==
  /\ input[m] = "created"
  /\ IF ready[m]
     THEN input' = Set(input, m, "reading") /\ UNCHANGED inRun
     ELSE input' = Set(input, m, "gone") /\ inRun' = Set(inRun, m, FALSE)
  /\ UNCHANGED <<room, flags, audio, handle, control, counts>>

InputEnd(m) ==
  /\ input[m] = "reading"
  /\ ~ inRun[m] \/ ~ running[m] \/ ~ ready[m]
  /\ input' = Set(input, m, "gone")
  /\ inRun' = Set(inRun, m, FALSE)
  /\ UNCHANGED <<room, flags, audio, handle, control, counts>>

(* A frame cannot be read, in a call that goes on.                         *)
InputFails(m) ==
  /\ input[m] = "reading"
  /\ input' = Set(input, m, "gone")
  /\ inRun' = Set(inRun, m, FALSE)
  /\ UNCHANGED <<room, flags, audio, handle, control, counts>>

InputStep(m) == InputBegin(m) \/ InputEnd(m)

(* The producer's tick holds speaker_lock for reading while it takes a     *)
(* frame out of the speaker's buffer.                                      *)
DrainBegin ==
  /\ draining = NoOne
  /\ speaker # NoOne
  /\ draining' = speaker
  /\ UNCHANGED <<speaker, list, destroyed, flags, media, control, counts>>

DrainEnd ==
  /\ draining # NoOne
  /\ draining' = NoOne
  /\ UNCHANGED <<speaker, list, destroyed, flags, media, control, counts>>
-----------------------------------------------------------------------------
(* The API thread.                                                         *)

(* b_find_member_pinned finds a listed member or the speaker, and pins its *)
(* session.                                                                *)
Found(m) == m \in list \cup {speaker} /\ ready[m]

ApiDone == Goto(api, "idle") /\ target' = NoOne

(* broadcast_request_promotion: an active listener only.                   *)
Promote(m) ==
  /\ pc[api] = "idle"
  /\ promotions < MaxPromotions
  /\ Found(m)
  /\ inBridge[m]
  /\ target' = m
  /\ Goto(api, "unlink")
  /\ UNCHANGED <<room, flags, media, victim, then, counts>>

(* Fault: the member stays on the list.                                    *)
UnlinkNot ==
  /\ pc[api] = "unlink"
  /\ IF target \in list
     THEN /\ list' = list
          /\ unlinked' = CountUp(unlinked, target)
          /\ promotions' = promotions + 1
          /\ Goto(api, "flag")
          /\ UNCHANGED target
     ELSE ApiDone /\ UNCHANGED <<list, unlinked, promotions>>
  /\ UNCHANGED <<speaker, destroyed, draining, flags, media, victim, then,
                 joined, left>>

Unlink ==
  /\ pc[api] = "unlink"
  /\ IF target \in list
     THEN /\ list' = list \ {target}
          /\ unlinked' = CountUp(unlinked, target)
          /\ promotions' = promotions + 1
          /\ Goto(api, "flag")
          /\ UNCHANGED target
     ELSE ApiDone /\ UNCHANGED <<list, unlinked, promotions>>
  /\ UNCHANGED <<speaker, destroyed, draining, flags, media, victim, then,
                 joined, left>>

RaiseTransition ==
  /\ pc[api] = "flag"
  /\ transition' = Set(transition, target, TRUE)
  /\ Goto(api, "stop_loop")
  /\ UNCHANGED <<room, role, running, ready, inBridge, media, victim, then,
                 target, counts>>

(* Fault: MFLAG_RUNNING stays up.                                          *)
StopLoopNot ==
  /\ pc[api] = "stop_loop"
  /\ Goto(api, "await")
  /\ UNCHANGED <<room, flags, media, victim, then, target, counts>>

StopLoop ==
  /\ pc[api] = "stop_loop"
  /\ running' = Set(running, target, FALSE)
  /\ Goto(api, "await")
  /\ UNCHANGED <<room, role, transition, ready, inBridge, media, victim,
                 then, target, counts>>

BridgeLeft ==
  /\ pc[api] = "await"
  /\ ~ inBridge[target]
  /\ ApiDone
  /\ UNCHANGED <<room, flags, media, victim, then, counts>>

(* Fault: the wait for the bridge has no deadline.                         *)
PromotionTimeoutNever ==
  /\ pc[api] = "await"
  /\ target = NoOne
  /\ Goto(api, "withdraw")
  /\ UNCHANGED <<room, flags, media, victim, then, target, counts>>

(* 200 ms have passed and the member is still in its bridge.               *)
PromotionTimeout ==
  /\ pc[api] = "await"
  /\ target \in Slow
  /\ inBridge[target]
  /\ Goto(api, "withdraw")
  /\ UNCHANGED <<room, flags, media, victim, then, target, counts>>

Withdraw ==
  /\ pc[api] = "withdraw"
  /\ transition' = Set(transition, target, FALSE)
  /\ Goto(api, "relink")
  /\ UNCHANGED <<room, role, running, ready, inBridge, media, victim, then,
                 target, counts>>

(* Fault: the loop is restarted, the list forgotten.                       *)
RelinkNot ==
  /\ pc[api] = "relink"
  /\ ApiDone
  /\ running' = Set(running, target, TRUE)
  /\ UNCHANGED <<room, role, transition, ready, inBridge, media, victim,
                 then, counts>>

(* The rollback's broadcast_listener_add, refused by a locked, a full or a *)
(* destroyed room.                                                         *)
Relink ==
  /\ pc[api] = "relink"
  /\ \/ /\ ~ destroyed
        /\ HasRoom
        /\ AddListener(target)
        /\ Goto(api, "recount")
        /\ UNCHANGED target
     \/ ApiDone /\ UNCHANGED <<list, role>>
  /\ UNCHANGED <<speaker, destroyed, draining, running, transition, ready,
                 inBridge, media, victim, then, counts>>

(* By now the member's own thread may have left its loop, or the room.     *)
CountRelinked ==
  /\ pc[api] = "recount"
  /\ StartListener(target)
  /\ ApiDone
  /\ UNCHANGED <<room, role, transition, ready, inBridge, media, victim,
                 then, left, unlinked, promotions>>

ClearSpeaker ==
  /\ pc[api] = "idle"
  /\ SwapSpeaker(api, NoOne, "idle")
  /\ UNCHANGED <<list, destroyed, draining, flags, media, target, counts>>

(* broadcast_kick_listener: only a member in the listener role.            *)
Kick(m) ==
  /\ pc[api] = "idle"
  /\ Found(m)
  /\ role[m] = "listener"
  /\ ready' = Set(ready, m, FALSE)
  /\ UNCHANGED <<room, role, running, transition, inBridge, media, control,
                 counts>>

(* MFLAG_KICKED is raised and the session hung up: either one ends the     *)
(* member's loop.                                                          *)
KickListed == ready' = [m \in Members |-> m \notin list /\ ready[m]]

KickAll ==
  /\ pc[api] = "idle"
  /\ KickListed
  /\ UNCHANGED <<room, role, running, transition, inBridge, media, control,
                 counts>>

(* broadcast_destroy_ex, the steps its members see.                        *)
Destroy ==
  /\ pc[api] = "idle"
  /\ ~ destroyed
  /\ destroyed' = TRUE
  /\ Goto(api, "evict")
  /\ UNCHANGED <<speaker, list, draining, flags, media, victim, then, target,
                 counts>>

EvictSpeaker ==
  /\ pc[api] = "evict"
  /\ SwapSpeaker(api, NoOne, "disperse")
  /\ UNCHANGED <<list, destroyed, draining, flags, media, target, counts>>

Disperse ==
  /\ pc[api] = "disperse"
  /\ KickListed
  /\ Goto(api, "closed")
  /\ UNCHANGED <<room, role, running, transition, inBridge, media, victim,
                 then, target, counts>>

ApiCall ==
  \/ \E m \in Members : Promote(m) \/ Kick(m)
  \/ ClearSpeaker \/ KickAll \/ Destroy

ApiStep ==
  \/ Unlink \/ RaiseTransition \/ StopLoop \/ BridgeLeft \/ PromotionTimeout
  \/ Withdraw \/ Relink \/ CountRelinked \/ EvictSpeaker \/ Disperse

Stop(t) == StopInput(t) \/ JoinInput(t)
-----------------------------------------------------------------------------
Next ==
  \/ \E m \in Members :
       \/ JoinAsSpeaker(m) \/ RejectSpeaker(m)
       \/ CheckRoom(m) \/ JoinAsListener(m) \/ RejectListener(m)
       \/ SpeakerStep(m) \/ ListenerStep(m) \/ TimerFails(m)
       \/ Hangup(m) \/ SelfLeave(m) \/ InputStep(m) \/ InputFails(m)
  \/ \E t \in Threads : Stop(t)
  \/ DrainBegin \/ DrainEnd
  \/ ApiCall \/ ApiStep

(* Every thread in the middle of something is scheduled; a write lock that *)
(* is free again and again is had in the end (the producer holds           *)
(* speaker_lock for a fraction of each tick).  Nothing forces a member to  *)
(* join or hang up, or the API to be called.                               *)
Fairness ==
  /\ \A m \in Members :
       /\ SF_vars(SpeakerStep(m))
       /\ WF_vars(ListenerStep(m) \/ Stop(m)
                    \/ (pc[m] = "add" /\ (JoinAsListener(m)
                                             \/ RejectListener(m))))
       /\ WF_vars(InputStep(m))
  /\ WF_vars(DrainEnd)
  /\ SF_vars(ApiStep \/ Stop(api))

Spec == Init /\ [][Next]_vars
FairSpec == Spec /\ Fairness
-----------------------------------------------------------------------------
MemberSteps == {"new", "add", "install", "publish", "wait", "check", "clear",
                "exit", "clear_if", "cleanup", "released", "gone", "stop",
                "join", "count", "bridge", "loop", "leaving", "returned",
                "promote", "unlist"}
ApiSteps == {"idle", "unlink", "flag", "stop_loop", "await", "withdraw",
             "relink", "recount", "evict", "disperse", "closed", "stop",
             "join"}

TypeOK ==
  /\ speaker \in Members \cup {NoOne} /\ list \subseteq Members
  /\ destroyed \in BOOLEAN
  /\ draining \in Members \cup {NoOne}
  /\ role \in [Members -> {"listener", "speaker"}]
  /\ running \in [Members -> BOOLEAN]
  /\ transition \in [Members -> BOOLEAN]
  /\ ready \in [Members -> BOOLEAN]
  /\ inBridge \in [Members -> BOOLEAN]
  /\ audio \in [Members -> {"none", "live", "destroyed"}]
  /\ handle \in [Members -> BOOLEAN]
  /\ inRun \in [Members -> BOOLEAN]
  /\ input \in [Members -> {"none", "created", "reading", "gone"}]
  /\ pc \in [Threads -> MemberSteps \cup ApiSteps]
  /\ victim \in [Threads -> Members \cup {NoOne}]
  /\ then \in [Threads -> MemberSteps \cup ApiSteps]
  /\ target \in Members \cup {NoOne}
  /\ joined \in Nat /\ left \in Nat /\ unlinked \in Nat
  /\ promotions \in Nat

(* What the producer reads under speaker_lock is a member whose session is *)
(* not freed and whose codecs are not destroyed, whichever thread emptied  *)
(* or took the slot last: the "systemic lifetime rule".                    *)
SpeakerUsable ==
  \A m \in Members :
    speaker = m \/ draining = m => audio[m] = "live" /\ pc[m] # "gone"

(* An input thread not yet joined belongs to the member about to take the  *)
(* slot, to the one that has it, or to one whose input some thread is on   *)
(* its way to stop: no way out of the slot leaks it.                       *)
InputAccounted ==
  \A m \in Members :
    handle[m] => \/ pc[m] = "publish"
                 \/ speaker = m
                 \/ \E t \in Threads : pc[t] = "stop" /\ victim[t] = m

(* A member that reacts to a promotion in time is never listed once its    *)
(* session thread is past unlinking it, nor while it speaks.               *)
PromptUnlisted ==
  \A m \in Members \ Slow :
    m \in list => /\ pc[m] \in {"count", "bridge", "loop", "leaving",
                                "returned", "unlist"}
                  /\ speaker # m

(* Nobody listens unseen: a member in its listening loop is listed, and so *)
(* can be counted and dispersed, unless a promotion has just unlinked it   *)
(* and is about to stop its loop.                                          *)
ListenersManaged ==
  \A m \in Members :
    pc[m] = "loop" /\ running[m] /\ m \notin list =>
      pc[api] \in {"flag", "stop_loop"} /\ target = m

(* A listener has been listed and is not counted as joined yet.            *)
Uncounted ==
  {m \in Members \ Ghosts : pc[m] = "count"}
    \cup (IF pc[api] = "recount" /\ target \notin Ghosts THEN {api} ELSE {})

(* The room's counters explain its list, but for the ghosts on it, through *)
(* promotions, failed promotions and departures in any order: even one     *)
(* whose leave is counted before the API thread that listed it again       *)
(* counts its joining.                                                     *)
AudienceLedger ==
  joined + Cardinality(Uncounted)
    = left + Cardinality(list \ Ghosts) + unlinked

(* A member that is hung up, kicked or replaced as speaker, or whose room  *)
(* is destroyed, leaves and is freed, even one that joined while the room  *)
(* was being destroyed: nothing it waits for on its way out fails to come. *)
Departs ==
  \A m \in Members :
    (\/ pc[m] = "wait" /\ speaker # m
     \/ pc[m] # "new" /\ (~ ready[m] \/ destroyed)) ~> pc[m] = "gone"

(* An API call ends: neither its wait for the bridge nor its join of an    *)
(* input thread goes on for ever.                                          *)
ApiReturns ==
  pc[api] \notin {"idle", "closed"} ~> pc[api] \in {"idle", "closed"}

(* Nobody is lost in a promotion: a listener unlinked for one speaks, is   *)
(* listed again, or leaves.                                                *)
PromotionSettles ==
  \A m \in Members :
    (pc[api] = "flag" /\ target = m)
      ~> (speaker = m \/ m \in list \/ pc[m] = "gone")
-----------------------------------------------------------------------------
(* What the sources say and the code does not keep.                        *)

(* "Never re-link a departing member": whoever is on the list is there.    *)
ListedAlive == \A m \in list : pc[m] # "gone"

(* A member that leaves empties the slot only if the slot is its own: "if  *)
(* we were demoted, current_speaker is already someone else - do not       *)
(* clear_speaker(b)".                                                      *)
LeaverClearsOwn ==
  [][\A m \in Members :
       pc[m] = "clear" /\ pc'[m] # "clear" => speaker \in {m, NoOne}]_vars

(* "stop_input joins us first": no codec is destroyed under a reader.      *)
InputJoinedFirst ==
  \A m \in Members : audio[m] = "destroyed" => input[m] # "reading"
=============================================================================
