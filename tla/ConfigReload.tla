---------------------------- MODULE ConfigReload ----------------------------
(***************************************************************************)
(* The configuration under config_rwlock (broadcast_config.c): an API      *)
(* thread that reloads it, sessions that clone a profile out of it when    *)
(* they create a room, and sessions in a room whose digits are matched     *)
(* against the control groups in it and run an action while they hold the  *)
(* lock.                                                                   *)
(*                                                                         *)
(* Each load is a generation, which stands for its memory pool and for the *)
(* tables in it.  Every generation has the same controls: what a reload    *)
(* changes in them is left out, that it takes them away is not.            *)
(***************************************************************************)
EXTENDS Integers, Sequences

CONSTANTS Sessions,    \* session threads
          Digits,      \* keys a caller may press
          Quick,       \* digit strings bound to an action that is short
          Apps,        \* those bound to an application or a script
          BufSize,     \* sizeof(m->dtmf_buf)
          MaxReloads   \* bound: reloads that load something

(* What the generation in a pointer may be: none is a NULL pointer, own a  *)
(* string that is not of the configuration.                                *)
None == 0
Own == -1
Generations == 1 .. (MaxReloads + 1)

(* A binding's digits and the buffer are arrays of one size.               *)
ASSUME ConfigAssumption ==
  /\ Quick \subseteq Seq(Digits) /\ Apps \subseteq Seq(Digits)
  /\ \A b \in Quick \cup Apps : Len(b) < BufSize
  /\ Own \notin Digits
  /\ BufSize \in Nat \ {0, 1}
  /\ MaxReloads \in Nat

VARIABLES tables,        \* the generation of profiles and control_groups
          default_name,  \* that of default_profile_name
          live,          \* the generations whose pool is not destroyed
          loaded,        \* the last generation
          rpc,           \* the reloading thread's next step
          pc,            \* each session's next step
          walked,        \* the generation a session holds pointers into
          name,          \* that of the profile name it creates a room with
          dtmf_buf,      \* m->dtmf_buf
          idle,          \* 1.5 s have passed since the last digit
          dialled        \* history: the digits of the control being dialled

config == <<tables, default_name, live, loaded>>
digits == <<dtmf_buf, idle, dialled>>
lookup == <<pc, walked, name>>
vars == <<config, rpc, lookup, digits>>

Lost == <<Own>>

Init ==
  /\ tables = 1 /\ default_name = 1 /\ live = {1} /\ loaded = 1
  /\ rpc = "idle"
  /\ pc = [c \in Sessions |-> "out"]
  /\ walked = [c \in Sessions |-> None]
  /\ name = [c \in Sessions |-> None]
  /\ dtmf_buf = [c \in Sessions |-> <<>>]
  /\ idle = [c \in Sessions |-> TRUE]
  /\ dialled = [c \in Sessions |-> <<>>]

Goto(c, label) == pc' = [pc EXCEPT ![c] = label]

(* Fault: the lock is released before the action is run.                   *)
HoldsRdlockShort(c) == pc[c] \in {"match", "clone", "nested"}

(* The session holds config_rwlock for reading.                            *)
HoldsRdlock(c) == pc[c] \in {"match", "app", "again", "clone", "nested"}

(* The lock is released, and what was looked up with it let go.            *)
Unlock(c, label) ==
  /\ Goto(c, label)
  /\ walked' = [walked EXCEPT ![c] = None]

Writing == rpc \notin {"idle", "wait"}
-----------------------------------------------------------------------------
(* broadcast_config_reload.                                                *)

Reload ==
  /\ rpc = "idle"
  /\ loaded <= MaxReloads
  /\ rpc' = "wait"
  /\ UNCHANGED <<config, lookup, digits>>

WrlockConfig ==
  /\ rpc = "wait"
  /\ \A c \in Sessions : ~ HoldsRdlock(c)
  /\ rpc' = "clear"
  /\ UNCHANGED <<config, lookup, digits>>

ClearTables ==
  /\ rpc = "clear"
  /\ tables' = None /\ default_name' = None
  /\ live' = {}
  /\ rpc' = "load"
  /\ UNCHANGED <<loaded, lookup, digits>>

(* There is no pool, or the file cannot be read: the tables stay empty.    *)
LoadFails ==
  /\ rpc = "load"
  /\ rpc' = "idle"
  /\ UNCHANGED <<config, lookup, digits>>

(* broadcast_config_load: the settings come before the tables.             *)
LoadSettings ==
  /\ rpc = "load"
  /\ loaded' = loaded + 1
  /\ live' = {loaded'}
  /\ default_name' = loaded'
  /\ rpc' = "tables"
  /\ UNCHANGED <<tables, lookup, digits>>

LoadTables ==
  /\ rpc = "tables"
  /\ tables' = loaded
  /\ rpc' = "idle"
  /\ UNCHANGED <<default_name, live, loaded, lookup, digits>>

Reloading ==
  WrlockConfig \/ ClearTables \/ LoadFails \/ LoadSettings \/ LoadTables
-----------------------------------------------------------------------------
(* The read lock.                                                          *)

(* Fault: a writer that waits goes first.                                  *)
RdlockFreeOfWaiting == rpc = "idle"

(* The rwlock prefers readers: only a writer that holds it keeps them out, *)
(* and a thread may take it again.                                         *)
RdlockFree == ~ Writing

(* What each wait for the lock leads to.                                   *)
Granted == [control |-> "match", create |-> "clone", again |-> "nested"]

RdlockConfig(c) ==
  /\ pc[c] \in DOMAIN Granted
  /\ RdlockFree
  /\ Goto(c, Granted[pc[c]])
  /\ walked' = [walked EXCEPT ![c] = IF pc[c] = "again" THEN @ ELSE tables]
  /\ UNCHANGED <<config, rpc, name, digits>>
-----------------------------------------------------------------------------
(* Joining a room: one that exists, or a new one, for which the session    *)
(* takes default_profile_name without the lock, or a name it was given.    *)

Join(c) ==
  /\ pc[c] = "out"
  /\ Goto(c, "in")
  /\ UNCHANGED <<config, rpc, walked, name, digits>>

NameProfile(c) ==
  /\ pc[c] = "out"
  /\ name' \in {[name EXCEPT ![c] = default_name], [name EXCEPT ![c] = Own]}
  /\ Goto(c, "create")
  /\ UNCHANGED <<config, rpc, walked, digits>>

(* A profile of that name, the one called default, or the first: none only *)
(* if there are none.                                                      *)
FindProfile(c) == walked[c] # None

(* broadcast_create under the lock: without a profile there is no room,    *)
(* and with one it may still not come to it.                               *)
CloneProfile(c) ==
  /\ pc[c] = "clone"
  /\ \/ FindProfile(c) /\ Unlock(c, "in")
     \/ Unlock(c, "out")
  /\ name' = [name EXCEPT ![c] = None]
  /\ UNCHANGED <<config, rpc, digits>>
-----------------------------------------------------------------------------
(* broadcast_listener_handle_dtmf and b_listener_match_controls.           *)

(* Fault: the terminator is forgotten.                                     *)
KeptFull(c) ==
  IF idle[c] \/ Len(dtmf_buf[c]) >= BufSize THEN <<>> ELSE dtmf_buf[c]

(* What is left of the buffer when a digit comes.                          *)
Kept(c) ==
  IF idle[c] \/ Len(dtmf_buf[c]) + 1 >= BufSize THEN <<>> ELSE dtmf_buf[c]

Bound == Quick \cup Apps

Begins(w) ==
  \E b \in Bound : Len(w) <= Len(b) /\ SubSeq(b, 1, Len(w)) = w

(* What the caller's next digit belongs to.  The caller knows nothing of   *)
(* the buffer: begins a control after a pause or at once after the last,   *)
(* goes on with one, which may be a control by itself and the beginning of *)
(* a longer one, and may mistype.                                          *)
SoFar(c) ==
  IF idle[c] THEN {<<>>}
  ELSE {dialled[c]} \cup {w \in {<<>>} : dialled[c] \in Bound}

Dial(c, d) ==
  \E w \in SoFar(c) :
    dialled' = [dialled EXCEPT ![c] = IF Begins(Append(w, d))
                                      THEN Append(w, d) ELSE Lost]

Press(c, d) ==
  /\ pc[c] = "in"
  /\ dtmf_buf' = [dtmf_buf EXCEPT ![c] = Append(Kept(c), d)]
  /\ idle' = [idle EXCEPT ![c] = FALSE]
  /\ Dial(c, d)
  /\ Goto(c, "control")
  /\ UNCHANGED <<config, rpc, walked, name>>

PauseDialling(c) ==
  /\ pc[c] = "in"
  /\ idle' = [idle EXCEPT ![c] = TRUE]
  /\ UNCHANGED <<config, rpc, lookup, dtmf_buf, dialled>>

Matches(c) == walked[c] # None /\ dtmf_buf[c] \in Bound

(* b_listener_dispatch_control: an action that sets a flag, a gain or a    *)
(* threshold, queues an event or ends the call is over at once, an         *)
(* application or a script is not.                                         *)
Dispatch(c) ==
  IF dtmf_buf[c] \in Apps THEN Goto(c, "app") /\ UNCHANGED walked
  ELSE Unlock(c, "in")

(* Fault: the digits of a match stay in the buffer.                        *)
MatchKeeps(c) ==
  /\ pc[c] = "match"
  /\ Matches(c)
  /\ Dispatch(c)
  /\ UNCHANGED <<config, rpc, name, digits>>

(* The buffer is emptied before the action is run, under the lock, which   *)
(* an application keeps as long as it runs.                                *)
Match(c) ==
  /\ pc[c] = "match"
  /\ Matches(c)
  /\ dtmf_buf' = [dtmf_buf EXCEPT ![c] = <<>>]
  /\ Dispatch(c)
  /\ UNCHANGED <<config, rpc, name, idle, dialled>>

(* A control that is dialled while there are none stays in the buffer and  *)
(* spoils the next.                                                        *)
NoMatch(c) ==
  /\ pc[c] = "match"
  /\ ~ Matches(c)
  /\ dialled' = [dialled EXCEPT ![c] = IF @ \in Bound THEN Lost ELSE @]
  /\ Unlock(c, "in")
  /\ UNCHANGED <<config, rpc, name, dtmf_buf, idle>>

(* The application may create a room itself, and need not end.             *)
AppCreates(c) ==
  /\ pc[c] = "app"
  /\ Goto(c, "again")
  /\ UNCHANGED <<config, rpc, walked, name, digits>>

AppCreated(c) ==
  /\ pc[c] = "nested"
  /\ Goto(c, "app")
  /\ UNCHANGED <<config, rpc, walked, name, digits>>

AppEnds(c) ==
  /\ pc[c] = "app"
  /\ Unlock(c, "in")
  /\ UNCHANGED <<config, rpc, name, digits>>

Control(c) ==
  \/ Match(c) \/ NoMatch(c) \/ AppCreates(c) \/ AppCreated(c) \/ AppEnds(c)
  \/ PauseDialling(c) \/ \E d \in Digits : Press(c, d)
-----------------------------------------------------------------------------
Next ==
  \/ Reload \/ Reloading
  \/ \E c \in Sessions :
       RdlockConfig(c) \/ Join(c) \/ NameProfile(c) \/ CloneProfile(c)
         \/ Control(c)

(* Who waits for the lock gets it if it is free again and again, who has   *)
(* it for writing goes on, and a lookup is finite.  Nothing forces an      *)
(* application to end.                                                     *)
Fairness ==
  /\ WF_vars(Reloading) /\ SF_vars(WrlockConfig)
  /\ \A c \in Sessions :
       /\ SF_vars(RdlockConfig(c))
       /\ WF_vars(Match(c) \/ NoMatch(c) \/ CloneProfile(c) \/ AppCreated(c))

Spec == Init /\ [][Next]_vars
FairSpec == Spec /\ Fairness
-----------------------------------------------------------------------------
Walking == {"match", "app", "again", "clone", "nested"}

TypeOK ==
  /\ tables \in Generations \cup {None}
  /\ default_name \in Generations \cup {None}
  /\ live \subseteq Generations /\ loaded \in Generations
  /\ rpc \in {"idle", "wait", "clear", "load", "tables"}
  /\ pc \in [Sessions -> {"out", "in", "create", "control"} \cup Walking]
  /\ walked \in [Sessions -> Generations \cup {None}]
  /\ name \in [Sessions -> Generations \cup {None, Own}]
  /\ dtmf_buf \in [Sessions -> Seq(Digits)]
  /\ \A c \in Sessions : Len(dtmf_buf[c]) < BufSize
  /\ idle \in [Sessions -> BOOLEAN]
  /\ dialled \in [Sessions -> Seq(Digits) \cup {Lost}]

(* Whoever looks up a profile or a control, or runs the action of one,     *)
(* which reads the binding, has tables no reload has freed, though the     *)
(* action takes its time and may look up another profile.                  *)
TablesLive ==
  \A c \in Sessions : pc[c] \in Walking => walked[c] \in live \cup {None}

(* No control is the beginning of another.  Nothing in the code asks for   *)
(* it: of two such controls the longer one can never be dialled, since the *)
(* shorter one is run on the way and empties the buffer.                   *)
PrefixFree ==
  \A a, b \in Bound : Len(a) < Len(b) => SubSeq(b, 1, Len(a)) # a

(* A caller who dials one control after another without a pause, or after  *)
(* a pause that ends what was mistyped, has each of them, and no other,    *)
(* run with its last digit, as long as there are controls and none is the  *)
(* beginning of another.                                                   *)
ControlsHeard ==
  \A c \in Sessions :
    pc[c] = "match" /\ walked[c] # None /\ dialled[c] \in Bound =>
      dtmf_buf[c] = dialled[c]

(* Nobody waits for ever to read the configuration, not even an action     *)
(* that looks it up again while a reload waits for that action; and a      *)
(* reload comes to its end if there is time and again nobody reading.      *)
LookupsEnd ==
  /\ \A c \in Sessions :
       pc[c] \in DOMAIN Granted ~> pc[c] \notin DOMAIN Granted
  /\ []<> (\A c \in Sessions : ~ HoldsRdlock(c)) =>
       (rpc = "wait" ~> rpc = "idle")
-----------------------------------------------------------------------------
(* "Config lookups during reload are protected so concurrent create does   *)
(* not read freed profile memory": the name of the profile is looked up    *)
(* before the lock is taken, and may be of a generation that is gone.      *)
LookupsProtected ==
  \A c \in Sessions :
    pc[c] = "clone" /\ FindProfile(c) => name[c] \in live \cup {None, Own}
=============================================================================
