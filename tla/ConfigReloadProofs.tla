------------------------- MODULE ConfigReloadProofs -------------------------
(***************************************************************************)
(* Proofs about ConfigReload, for any number of sessions, any controls and *)
(* any number of reloads: whoever holds config_rwlock has tables that are  *)
(* not freed; and what a caller dials is heard, if no control is the       *)
(* beginning of another.                                                   *)
(***************************************************************************)
EXTENDS ConfigReload, SequenceTheorems, TLAPS

(* What the reloading thread leaves behind at each of its steps.           *)
ReloadInv ==
  /\ tables \in live \cup {None}
  /\ rpc \in {"load", "tables"} => tables = None
  /\ rpc = "tables" => loaded \in live
  /\ rpc \in {"wait", "clear", "load"} => loaded <= MaxReloads

(* A writer is alone.                                                      *)
LockInv == Writing => \A c \in Sessions : pc[c] \notin Walking

(* The buffer holds what is being dialled, and is empty once a control has *)
(* been run, unless the caller has mistyped.                               *)
Dialling(c) ==
  /\ dialled[c] = dtmf_buf[c]
  /\ dialled[c] \in Bound =>
       pc[c] \in {"control", "match"} \/ dtmf_buf[c] = <<>>

Dialled(c) ==
  /\ dialled[c] \in Bound /\ dtmf_buf[c] = <<>>
  /\ pc[c] \notin {"control", "match"}

DialInv ==
  PrefixFree =>
    \A c \in Sessions : dialled[c] = Lost \/ Dialling(c) \/ Dialled(c)

ConfigInv ==
  TypeOK /\ ReloadInv /\ LockInv /\ TablesLive /\ DialInv

(* Steps of the reloading thread.                                          *)
LEMMA ReloadKeeps ==
  ASSUME ConfigInv, Reload \/ Reloading
  PROVE  ConfigInv'
<1> USE ConfigAssumption
    DEF ConfigInv, TypeOK, ReloadInv, LockInv, TablesLive, DialInv, Writing,
        Dialling, Dialled, Walking, Generations, None, config, lookup, digits
<1>1. CASE Reload
  BY <1>1 DEF Reload
<1>2. CASE WrlockConfig
  BY <1>2 DEF WrlockConfig, HoldsRdlock
<1>3. CASE ClearTables
  BY <1>3 DEF ClearTables
<1>4. CASE LoadFails
  BY <1>4 DEF LoadFails
<1>5. CASE LoadSettings
  BY <1>5 DEF LoadSettings
<1>6. CASE LoadTables
  BY <1>6 DEF LoadTables
<1> QED BY <1>1, <1>2, <1>3, <1>4, <1>5, <1>6 DEF Reloading

(* A session that takes, keeps or gives back the lock, or is elsewhere:    *)
(* what it then walks is live.                                             *)
LEMMA SessionMoves ==
  ASSUME ConfigInv, NEW c \in Sessions, NEW p, NEW g,
         p \in {"out", "in", "create", "control"} \cup Walking,
         g \in Generations \cup {None},
         p \in Walking => ~ Writing /\ g \in live \cup {None},
         pc' = [pc EXCEPT ![c] = p], walked' = [walked EXCEPT ![c] = g],
         UNCHANGED <<config, rpc>>
  PROVE  /\ ReloadInv' /\ LockInv' /\ TablesLive'
         /\ pc' \in [Sessions -> {"out", "in", "create", "control"}
                                    \cup Walking]
         /\ walked' \in [Sessions -> Generations \cup {None}]
<1>1. ReloadInv'
  BY DEF ConfigInv, ReloadInv, config
<1>2. /\ pc' \in [Sessions -> {"out", "in", "create", "control"}
                                \cup Walking]
      /\ walked' \in [Sessions -> Generations \cup {None}]
  BY DEF ConfigInv, TypeOK
<1>3. LockInv' /\ TablesLive'
  BY DEF ConfigInv, TypeOK, LockInv, TablesLive, Writing, config
<1> QED BY <1>1, <1>2, <1>3

(* The same for a session that dials nothing meanwhile.                    *)
LEMMA SilentMoves ==
  ASSUME ConfigInv, NEW c \in Sessions, NEW p, NEW g,
         p \in {"out", "in", "create", "control"} \cup Walking,
         g \in Generations \cup {None},
         p \in Walking => ~ Writing /\ g \in live \cup {None},
         p \in {"control", "match"} <=> pc[c] \in {"control", "match"},
         pc' = [pc EXCEPT ![c] = p], walked' = [walked EXCEPT ![c] = g],
         name' \in [Sessions -> Generations \cup {None, Own}],
         UNCHANGED <<config, rpc, digits>>
  PROVE  ConfigInv'
<1>1. UNCHANGED <<config, rpc>>
  OBVIOUS
<1>2. /\ ReloadInv' /\ LockInv' /\ TablesLive'
      /\ pc' \in [Sessions -> {"out", "in", "create", "control"}
                                \cup Walking]
      /\ walked' \in [Sessions -> Generations \cup {None}]
  BY <1>1, SessionMoves
<1>3. DialInv'
  BY DEF ConfigInv, TypeOK, DialInv, Dialling, Dialled, digits
<1> QED BY <1>2, <1>3 DEF ConfigInv, TypeOK, config, digits

(* A session keeps the pointers it has, and under the lock they are live.  *)
LEMMA Keeps ==
  ASSUME ConfigInv, NEW c \in Sessions, UNCHANGED walked
  PROVE  /\ walked' = [walked EXCEPT ![c] = walked[c]]
         /\ walked[c] \in Generations \cup {None}
         /\ pc[c] \in Walking => ~ Writing /\ walked[c] \in live \cup {None}
BY DEF ConfigInv, TypeOK, LockInv, TablesLive

(* Joining, creating and taking the lock.                                  *)
LEMMA LookupKeeps ==
  ASSUME ConfigInv, NEW c \in Sessions,
         RdlockConfig(c) \/ Join(c) \/ NameProfile(c) \/ CloneProfile(c)
  PROVE  ConfigInv'
<1> DEFINE Rest ==
      /\ UNCHANGED <<config, rpc, digits>>
      /\ name' \in [Sessions -> Generations \cup {None, Own}]
<1>1. CASE RdlockConfig(c)
  <2> DEFINE g == IF pc[c] = "again" THEN walked[c] ELSE tables
  <2>1. PICK p \in {"match", "clone", "nested"} :
          /\ Goto(c, p)
          /\ p \in {"control", "match"} <=> pc[c] \in {"control", "match"}
    BY <1>1 DEF RdlockConfig, Granted
  <2>2. /\ pc' = [pc EXCEPT ![c] = p] /\ walked' = [walked EXCEPT ![c] = g]
        /\ ~ Writing /\ Rest
    BY <1>1, <2>1 DEF RdlockConfig, RdlockFree, Goto, ConfigInv, TypeOK
  <2>3. g \in Generations \cup {None} /\ g \in live \cup {None}
    BY DEF ConfigInv, TypeOK, TablesLive, Walking, ReloadInv
  <2>4. p \in Walking
    BY <2>1 DEF Walking
  <2> HIDE DEF g
  <2> QED BY <2>1, <2>2, <2>3, <2>4, SilentMoves
<1>2. CASE Join(c)
  <2>1. /\ pc' = [pc EXCEPT ![c] = "in"] /\ UNCHANGED walked /\ Rest
        /\ pc[c] = "out"
    BY <1>2 DEF Join, Goto, ConfigInv, TypeOK
  <2> QED BY <2>1, Keeps, SilentMoves DEF Walking
<1>3. CASE NameProfile(c)
  <2>1. /\ pc' = [pc EXCEPT ![c] = "create"] /\ UNCHANGED walked /\ Rest
        /\ pc[c] = "out"
    BY <1>3 DEF NameProfile, Goto, ConfigInv, TypeOK
  <2> QED BY <2>1, Keeps, SilentMoves DEF Walking
<1>4. CASE CloneProfile(c)
  <2>1. PICK p \in {"in", "out"} : Unlock(c, p)
    BY <1>4 DEF CloneProfile
  <2>2. pc' = [pc EXCEPT ![c] = p] /\ walked' = [walked EXCEPT ![c] = None]
    BY <2>1 DEF Unlock, Goto
  <2>3. Rest /\ pc[c] = "clone"
    BY <1>4 DEF CloneProfile, ConfigInv, TypeOK
  <2> QED BY <2>2, <2>3, SilentMoves DEF Walking
<1> QED BY <1>1, <1>2, <1>3, <1>4

(* A mistyped word begins with what is no digit.                           *)
LEMMA LostFirst ==
  Lost \in Seq(Digits \cup {Own}) /\ Len(Lost) = 1 /\ Lost[1] = Own
BY DEF Lost

(* No control is a mistyped word.                                          *)
LEMMA LostUnbound == Lost \notin Bound
<1> SUFFICES ASSUME Lost \in Seq(Digits)  PROVE FALSE
  BY ConfigAssumption DEF Bound
<1>1. 1 \in 1 .. Len(Lost)
  BY LostFirst
<1>2. Lost[1] \in Digits
  BY <1>1, ElementOfSeq
<1> QED BY <1>2, LostFirst, ConfigAssumption

(* What a caller has dialled, digits or not.                               *)
LEMMA SoFarTyped ==
  ASSUME ConfigInv, NEW c \in Sessions, NEW w \in SoFar(c)
  PROVE  w \in Seq(Digits \cup {Own})
<1>1. Digits \subseteq Digits \cup {Own}
  OBVIOUS
<1>2. Seq(Digits) \subseteq Seq(Digits \cup {Own})
  BY <1>1, SeqMonotonic
<1>3. dialled[c] \in Seq(Digits) \cup {Lost}
  BY DEF ConfigInv, TypeOK
<1>4. w = dialled[c] \/ w = <<>>
  BY DEF SoFar
<1>5. <<>> \in Seq(Digits \cup {Own})
  OBVIOUS
<1> QED BY <1>2, <1>3, <1>4, <1>5, LostFirst

(* What begins a control is made of digits, and fits the buffer.           *)
LEMMA BeginsTyped ==
  ASSUME NEW w, Len(w) \in Nat, Begins(w)
  PROVE  w \in Seq(Digits) /\ Len(w) < BufSize
<1>1. PICK b \in Bound : Len(w) <= Len(b) /\ SubSeq(b, 1, Len(w)) = w
  BY DEF Begins
<1>2. b \in Seq(Digits) /\ Len(b) < BufSize
  BY ConfigAssumption DEF Bound
<1> QED BY <1>1, <1>2, ConfigAssumption

(* Nobody goes on with a control that is complete, if none begins another. *)
LEMMA NoLonger ==
  ASSUME PrefixFree, NEW a \in Bound, NEW d \in Digits
  PROVE  ~ Begins(Append(a, d))
<1> DEFINE w == Append(a, d)
<1> SUFFICES ASSUME NEW b \in Bound, Len(w) <= Len(b),
                    SubSeq(b, 1, Len(w)) = w
             PROVE  FALSE
  BY DEF Begins
<1>1. a \in Seq(Digits) /\ b \in Seq(Digits)
  BY ConfigAssumption DEF Bound
<1>2. Len(w) = Len(a) + 1 /\ \A i \in 1 .. Len(a) : w[i] = a[i]
  BY <1>1
<1>3. \A i \in 1 .. Len(a) : b[i] = a[i]
  BY <1>1, <1>2
<1>4. SubSeq(b, 1, Len(a)) = a
  <2>1. /\ SubSeq(b, 1, Len(a)) \in Seq(Digits)
        /\ Len(SubSeq(b, 1, Len(a))) = Len(a)
        /\ \A i \in 1 .. Len(a) : SubSeq(b, 1, Len(a))[i] = b[i]
    BY <1>1, <1>2
  <2> QED BY <1>1, <1>3, <2>1, SeqEqual
<1> QED BY <1>1, <1>2, <1>4 DEF PrefixFree

(* A digit more, as far as the buffer and the caller's word go.            *)
LEMMA DigitKept ==
  ASSUME ConfigInv, NEW c \in Sessions, NEW d \in Digits, pc[c] = "in"
  PROVE  LET buf == Append(Kept(c), d)
         IN  /\ buf \in Seq(Digits) /\ Len(buf) < BufSize
             /\ PrefixFree => \A w \in SoFar(c) :
                  Begins(Append(w, d)) => Append(w, d) = buf
<1> DEFINE buf == Append(Kept(c), d)
<1> USE ConfigAssumption
<1>1. dtmf_buf[c] \in Seq(Digits) /\ Len(dtmf_buf[c]) < BufSize
  BY DEF ConfigInv, TypeOK
<1>2. buf \in Seq(Digits) /\ Len(buf) < BufSize
  BY <1>1 DEF Kept
<1>3. ASSUME PrefixFree, NEW w \in SoFar(c), Begins(Append(w, d))
      PROVE  Append(w, d) = buf
  <2>1. dialled[c] = Lost \/ Dialling(c) \/ Dialled(c)
    BY <1>3 DEF ConfigInv, DialInv
  <2>2. CASE idle[c]
    BY <2>2 DEF Kept, SoFar
  <2>3. CASE ~ idle[c] /\ dialled[c] \in Bound
    <3>1. w = <<>>
      BY <1>3, <2>3, NoLonger DEF SoFar
    <3>2. dialled[c] # Lost
      BY <2>3, LostUnbound
    <3>3. dtmf_buf[c] = <<>>
      BY <2>1, <2>3, <3>2 DEF Dialling, Dialled
    <3>4. Kept(c) = <<>>
      BY <3>3 DEF Kept
    <3> QED BY <3>1, <3>4
  <2>4. CASE ~ idle[c] /\ dialled[c] \notin Bound
    <3>1. w = dialled[c]
      BY <2>4 DEF SoFar
    <3>2. dialled[c] \in Seq(Digits) \cup {Lost}
      BY DEF ConfigInv, TypeOK
    <3>3. CASE w = Lost
      <4>1. Len(Append(w, d)) = 2 /\ Append(w, d)[1] = Own
        BY <3>3 DEF Lost
      <4>2. Len(Append(w, d)) \in Nat
        BY <4>1
      <4>3. Append(w, d) \in Seq(Digits)
        BY <1>3, <4>2, BeginsTyped
      <4>4. 1 \in 1 .. Len(Append(w, d))
        BY <4>1
      <4>5. Append(w, d)[1] \in Digits
        BY <4>3, <4>4, ElementOfSeq
      <4> QED BY <4>1, <4>5
    <3>4. CASE w = dtmf_buf[c]
      <4>1. Len(Append(w, d)) \in Nat /\ Len(Append(w, d)) = Len(w) + 1
        BY <1>1, <3>4
      <4>2. Len(Append(w, d)) < BufSize
        BY <1>3, <4>1, BeginsTyped
      <4> QED BY <1>1, <2>4, <3>4, <4>1, <4>2 DEF Kept
    <3> QED BY <2>1, <2>4, <3>1, <3>3, <3>4 DEF Dialling, Dialled
  <2> QED BY <2>2, <2>3, <2>4
<1> QED BY <1>2, <1>3

(* Digits, matches and actions.                                            *)
LEMMA ControlKeeps ==
  ASSUME ConfigInv, NEW c \in Sessions, Control(c)
  PROVE  ConfigInv'
<1> DEFINE Rest ==
      /\ UNCHANGED <<config, rpc>>
      /\ name' \in [Sessions -> Generations \cup {None, Own}]
<1>1. ASSUME NEW d \in Digits, Press(c, d)  PROVE ConfigInv'
  <2> DEFINE buf == Append(Kept(c), d)
  <2>1. /\ pc[c] = "in"
        /\ pc' = [pc EXCEPT ![c] = "control"] /\ UNCHANGED walked /\ Rest
        /\ dtmf_buf' = [dtmf_buf EXCEPT ![c] = buf]
        /\ idle' = [idle EXCEPT ![c] = FALSE]
    BY <1>1 DEF Press, Goto, ConfigInv, TypeOK
  <2>2. PICK v \in Seq(Digits) \cup {Lost} :
          /\ dialled' = [dialled EXCEPT ![c] = v]
          /\ PrefixFree => v \in {buf, Lost}
    <3>1. PICK w \in SoFar(c) :
            dialled' = [dialled EXCEPT ![c] = IF Begins(Append(w, d))
                                              THEN Append(w, d) ELSE Lost]
      BY <1>1 DEF Press, Dial
    <3>2. w \in Seq(Digits \cup {Own})
      BY SoFarTyped
    <3>3. Len(Append(w, d)) \in Nat
      BY <3>2
    <3>4. CASE Begins(Append(w, d))
      BY <2>1, <3>1, <3>3, <3>4, BeginsTyped, DigitKept
    <3> QED BY <3>1, <3>4
  <2>3. buf \in Seq(Digits) /\ Len(buf) < BufSize
    BY <2>1, DigitKept
  <2>4. /\ ReloadInv' /\ LockInv' /\ TablesLive'
        /\ pc' \in [Sessions -> {"out", "in", "create", "control"}
                                  \cup Walking]
        /\ walked' \in [Sessions -> Generations \cup {None}]
    BY <2>1, Keeps, SessionMoves DEF Walking
  <2> HIDE DEF buf
  <2>5. idle' \in [Sessions -> BOOLEAN]
    BY <2>1 DEF ConfigInv, TypeOK
  <2>6. TypeOK'
    BY <2>1, <2>2, <2>3, <2>4, <2>5 DEF ConfigInv, TypeOK, config
  <2>7. DialInv'
    BY <2>1, <2>2 DEF ConfigInv, TypeOK, DialInv, Dialling, Dialled
  <2> QED BY <2>4, <2>6, <2>7 DEF ConfigInv
<1>2. CASE PauseDialling(c)
  <2>1. idle' \in [Sessions -> BOOLEAN]
    BY <1>2 DEF PauseDialling, ConfigInv, TypeOK
  <2> QED BY <1>2, <2>1
       DEF PauseDialling, ConfigInv, TypeOK, ReloadInv, LockInv, TablesLive,
           DialInv, Dialling, Dialled, Writing, config, lookup
<1>3. CASE Match(c)
  <2>1. /\ dtmf_buf' = [dtmf_buf EXCEPT ![c] = <<>>]
        /\ UNCHANGED <<idle, dialled>> /\ Rest
        /\ pc[c] = "match" /\ dtmf_buf[c] \in Bound
    BY <1>3 DEF Match, Matches, ConfigInv, TypeOK
  <2>2. /\ ReloadInv' /\ LockInv' /\ TablesLive'
        /\ pc' \in [Sessions -> {"out", "in", "create", "control"}
                                  \cup Walking]
        /\ walked' \in [Sessions -> Generations \cup {None}]
    <3>1. CASE pc' = [pc EXCEPT ![c] = "app"] /\ UNCHANGED walked
      BY <2>1, <3>1, Keeps, SessionMoves DEF Walking
    <3>2. CASE /\ pc' = [pc EXCEPT ![c] = "in"]
               /\ walked' = [walked EXCEPT ![c] = None]
      BY <2>1, <3>2, SessionMoves DEF Walking
    <3> QED BY <1>3, <3>1, <3>2 DEF Match, Dispatch, Unlock, Goto
  <2>3. pc'[c] \in {"app", "in"} /\ \A u \in Sessions \ {c} : pc'[u] = pc[u]
    BY <1>3 DEF Match, Dispatch, Unlock, Goto, ConfigInv, TypeOK
  <2>4. TypeOK'
    <3>1. <<>> \in Seq(Digits) /\ Len(<<>>) < BufSize
      BY ConfigAssumption
    <3>2. /\ dtmf_buf' \in [Sessions -> Seq(Digits)]
          /\ \A u \in Sessions : Len(dtmf_buf'[u]) < BufSize
      BY <2>1, <3>1 DEF ConfigInv, TypeOK
    <3> QED BY <2>1, <2>2, <3>2 DEF ConfigInv, TypeOK, config
  <2>5. DialInv'
    BY <2>1, <2>3 DEF ConfigInv, TypeOK, DialInv, Dialling, Dialled
  <2> QED BY <2>2, <2>4, <2>5 DEF ConfigInv
<1>4. CASE NoMatch(c)
  <2>1. /\ pc[c] = "match" /\ pc' = [pc EXCEPT ![c] = "in"]
        /\ walked' = [walked EXCEPT ![c] = None]
        /\ dialled' = [dialled EXCEPT ![c] = IF @ \in Bound THEN Lost ELSE @]
        /\ UNCHANGED <<dtmf_buf, idle>> /\ Rest
    BY <1>4 DEF NoMatch, Unlock, Goto, ConfigInv, TypeOK
  <2>2. /\ ReloadInv' /\ LockInv' /\ TablesLive'
        /\ pc' \in [Sessions -> {"out", "in", "create", "control"}
                                  \cup Walking]
        /\ walked' \in [Sessions -> Generations \cup {None}]
    BY <2>1, SessionMoves DEF Walking
  <2>3. TypeOK'
    BY <2>1, <2>2 DEF ConfigInv, TypeOK, config
  <2>4. DialInv'
    BY <2>1 DEF ConfigInv, TypeOK, DialInv, Dialling, Dialled
  <2> QED BY <2>2, <2>3, <2>4 DEF ConfigInv
<1>5. CASE AppEnds(c)
  <2>1. /\ pc[c] = "app" /\ pc' = [pc EXCEPT ![c] = "in"]
        /\ walked' = [walked EXCEPT ![c] = None]
        /\ UNCHANGED digits /\ Rest
    BY <1>5 DEF AppEnds, Unlock, Goto, ConfigInv, TypeOK
  <2> QED BY <2>1, SilentMoves DEF Walking
<1>6. CASE AppCreates(c) \/ AppCreated(c)
  <2>1. PICK p \in {"again", "app"} : pc' = [pc EXCEPT ![c] = p]
    BY <1>6 DEF AppCreates, AppCreated, Goto
  <2>2. /\ UNCHANGED <<walked, digits>> /\ Rest
        /\ pc[c] \in Walking \ {"match"}
    BY <1>6 DEF AppCreates, AppCreated, Walking, ConfigInv, TypeOK
  <2> QED BY <2>1, <2>2, Keeps, SilentMoves DEF Walking
<1> QED BY <1>1, <1>2, <1>3, <1>4, <1>5, <1>6 DEF Control

(* The inductive invariant: the generations at each step of a reload, the  *)
(* lock, the pointers of its readers and the digits.                       *)
THEOREM ConfigInvariant == Spec => []ConfigInv
<1>1. Init => ConfigInv
  <2> SUFFICES ASSUME Init  PROVE ConfigInv
    OBVIOUS
  <2>1. idle \in [Sessions -> BOOLEAN]
    BY DEF Init
  <2>2. TypeOK
    BY <2>1, ConfigAssumption DEF Init, TypeOK, Generations, None
  <2> QED BY <2>2
       DEF Init, ConfigInv, ReloadInv, LockInv, TablesLive, DialInv, Dialling,
           Writing, Walking, None
<1>2. ConfigInv /\ [Next]_vars => ConfigInv'
  <2> SUFFICES ASSUME ConfigInv, [Next]_vars  PROVE ConfigInv'
    OBVIOUS
  <2>1. CASE UNCHANGED vars
    BY <2>1
    DEF vars, config, lookup, digits, ConfigInv, TypeOK, ReloadInv, LockInv,
        TablesLive, DialInv, Dialling, Dialled, Writing
  <2> QED BY <2>1, ReloadKeeps, LookupKeeps, ControlKeeps DEF Next
<1> QED BY <1>1, <1>2, PTL DEF Spec

(* The configuration's variables keep their types; a member's dtmf_buf     *)
(* always has room for its terminator.                                     *)
THEOREM ConfigTypes == Spec => []TypeOK
<1>1. ConfigInv => TypeOK
  BY DEF ConfigInv
<1> QED BY <1>1, ConfigInvariant, PTL

(* No reload frees tables that a session walks or whose binding it runs.   *)
THEOREM TablesStay == Spec => []TablesLive
<1>1. ConfigInv => TablesLive
  BY DEF ConfigInv
<1> QED BY <1>1, ConfigInvariant, PTL

(* Each control a caller dials is run with its last digit, and no other,   *)
(* for any controls of which none is the beginning of another: of two that *)
(* begin alike b_listener_match_controls runs the shorter one on the way.  *)
THEOREM DialledIsHeard == PrefixFree => (Spec => []ControlsHeard)
<1> SUFFICES ASSUME PrefixFree  PROVE Spec => []ControlsHeard
  OBVIOUS
<1>1. ConfigInv => ControlsHeard
  <2> SUFFICES ASSUME ConfigInv, NEW c \in Sessions, pc[c] = "match",
                      dialled[c] \in Bound
               PROVE  dtmf_buf[c] = dialled[c]
    BY DEF ControlsHeard
  <2> QED BY LostUnbound DEF ConfigInv, DialInv, Dialling, Dialled
<1> QED BY <1>1, ConfigInvariant, PTL
=============================================================================
