-------------------------- MODULE MembershipProofs --------------------------
(***************************************************************************)
(* Proofs about the members of a room, for any set of members, any of them *)
(* slow or ghosts, any limit on listeners and any number of promotions.    *)
(***************************************************************************)
EXTENDS Membership, FiniteSetTheorems, TLAPS

(* An update keeps a function's type.                                      *)
LEMMA UpdatesTyped ==
  ASSUME TypeOK
  PROVE  /\ \A m, v : v \in {"listener", "speaker"} =>
              Set(role, m, v) \in [Members -> {"listener", "speaker"}]
         /\ \A m, v : v \in {"none", "live", "destroyed"} =>
              Set(audio, m, v) \in [Members -> {"none", "live", "destroyed"}]
         /\ \A m, v : v \in {"none", "created", "reading", "gone"} =>
              Set(input, m, v)
                \in [Members -> {"none", "created", "reading", "gone"}]
         /\ \A t, v : v \in MemberSteps \cup ApiSteps =>
              /\ Set(pc, t, v) \in [Threads -> MemberSteps \cup ApiSteps]
              /\ Set(then, t, v) \in [Threads -> MemberSteps \cup ApiSteps]
         /\ \A t, v : v \in Members \cup {NoOne} =>
              Set(victim, t, v) \in [Threads -> Members \cup {NoOne}]
<1>1. ASSUME NEW S, NEW T, NEW f \in [S -> T], NEW x, NEW v \in T
      PROVE  Set(f, x, v) \in [S -> T]
  BY DEF Set
<1> QED BY <1>1 DEF TypeOK

LEMMA FlagsTyped ==
  ASSUME TypeOK, NEW m, NEW v \in BOOLEAN
  PROVE  /\ Set(running, m, v) \in [Members -> BOOLEAN]
         /\ Set(transition, m, v) \in [Members -> BOOLEAN]
         /\ Set(ready, m, v) \in [Members -> BOOLEAN]
         /\ Set(inBridge, m, v) \in [Members -> BOOLEAN]
         /\ Set(handle, m, v) \in [Members -> BOOLEAN]
         /\ Set(inRun, m, v) \in [Members -> BOOLEAN]
BY DEF TypeOK, Set

(* While the API thread is in a promotion it holds a member's session.     *)
Promoting == {"unlink", "flag", "stop_loop", "await", "withdraw", "relink",
              "recount"}

Pinned ==
  /\ pc[api] \in Promoting => target \in Members
  /\ then[api] \notin Promoting

(* Types are preserved by every thread's steps.                            *)
LEMMA TypesAtStart == Init => TypeOK
<1> SUFFICES ASSUME Init  PROVE TypeOK
  OBVIOUS
<1>1. pc \in [Threads -> MemberSteps \cup ApiSteps]
  BY DEF Init, MemberSteps, ApiSteps
<1>2. /\ victim \in [Threads -> Members \cup {NoOne}]
      /\ then \in [Threads -> MemberSteps \cup ApiSteps]
  BY DEF Init, MemberSteps, ApiSteps
<1>3. /\ role \in [Members -> {"listener", "speaker"}]
      /\ running \in [Members -> BOOLEAN]
      /\ transition \in [Members -> BOOLEAN]
  BY DEF Init
<1>4. /\ ready \in [Members -> BOOLEAN]
      /\ inBridge \in [Members -> BOOLEAN]
      /\ audio \in [Members -> {"none", "live", "destroyed"}]
  BY DEF Init
<1>5. /\ handle \in [Members -> BOOLEAN]
      /\ inRun \in [Members -> BOOLEAN]
      /\ input \in [Members -> {"none", "created", "reading", "gone"}]
  BY DEF Init
<1> QED
  BY <1>1, <1>2, <1>3, <1>4, <1>5 DEF Init, TypeOK

LEMMA CountUpTyped ==
  ASSUME NEW n \in Nat, NEW m
  PROVE  CountUp(n, m) \in Nat
BY DEF CountUp

LEMMA TypesKept ==
  ASSUME TypeOK, Pinned, [Next]_vars
  PROVE  TypeOK'
<1> USE UpdatesTyped, FlagsTyped
    DEF TypeOK, MemberSteps, ApiSteps, Goto, room, flags, media, control,
        counts
<1>1. ASSUME NEW m \in Members, JoinAsSpeaker(m) \/ RejectSpeaker(m)
      PROVE  TypeOK'
  <2>1. CASE JoinAsSpeaker(m)
    BY <2>1 DEF JoinAsSpeaker
  <2>2. CASE RejectSpeaker(m)
    BY <2>2 DEF RejectSpeaker
  <2> QED
    BY <1>1, <2>1, <2>2
<1>2. ASSUME NEW m \in Members,
             CheckRoom(m) \/ JoinAsListener(m) \/ RejectListener(m)
      PROVE  TypeOK'
  <2>1. CASE JoinAsListener(m)
    <3>1. list' \subseteq Members
      BY <2>1 DEF JoinAsListener, AddListener
    <3>2. role' \in [Members -> {"listener", "speaker"}]
      BY <2>1 DEF JoinAsListener, AddListener
    <3> QED BY <2>1, <3>1, <3>2 DEF JoinAsListener
  <2>2. CASE RejectListener(m)
    BY <2>2 DEF RejectListener
  <2>3. CASE CheckRoom(m)
    BY <2>3 DEF CheckRoom
  <2> QED
    BY <1>2, <2>1, <2>2, <2>3
<1>3. ASSUME NEW m \in Members, SpeakerStep(m)  PROVE TypeOK'
  <2>1. CASE StartInput(m)
    BY <2>1 DEF StartInput
  <2>2. CASE InstallFails(m)
    <3>1. CASE UNCHANGED <<role, audio>>
      BY <2>2, <3>1 DEF InstallFails
    <3>2. CASE /\ role' = Set(role, m, "speaker")
               /\ audio' = Set(audio, m, "live")
      BY <2>2, <3>2 DEF InstallFails
    <3> QED BY <2>2, <3>1, <3>2 DEF InstallFails
  <2>3. CASE Publish(m)
    BY <2>3 DEF Publish, SwapSpeaker, StopOldThen
  <2>4. CASE EndWait(m) \/ CheckSlot(m)
    BY <2>4 DEF EndWait, CheckSlot
  <2>5. CASE ClearSlot(m)
    BY <2>5 DEF ClearSlot, SwapSpeaker, StopOldThen
  <2>6. CASE Exit(m)
    BY <2>6 DEF Exit
  <2>7. CASE ClearIfCurrent(m)
    BY <2>7 DEF ClearIfCurrent, SwapSpeaker, StopOldThen
  <2>8. CASE Cleanup(m)
    BY <2>8 DEF Cleanup
  <2>9. CASE Free(m)
    BY <2>9 DEF Free
  <2> QED
    BY <1>3, <2>1, <2>2, <2>3, <2>4, <2>5, <2>6, <2>7, <2>8, <2>9
    DEF SpeakerStep
<1>4. ASSUME NEW m \in Members, ListenerStep(m) \/ TimerFails(m)
      PROVE  TypeOK'
  <2>1. CASE EnterBridge(m)
    BY <2>1 DEF EnterBridge
  <2>2. CASE EndLoop(m)
    BY <2>2 DEF EndLoop
  <2>3. CASE LeaveBridge(m)
    BY <2>3 DEF LeaveBridge
  <2>4. CASE TakePromotion(m)
    BY <2>4 DEF TakePromotion
  <2>5. CASE Depart(m)
    BY <2>5 DEF Depart
  <2>6. CASE Unlist(m)
    BY <2>6, CountUpTyped DEF Unlist
  <2>7. CASE TimerFails(m)
    BY <2>7 DEF TimerFails
  <2>8. CASE CountJoin(m)
    BY <2>8, CountUpTyped DEF CountJoin, StartListener
  <2> QED
    BY <1>4, <2>1, <2>2, <2>3, <2>4, <2>5, <2>6, <2>7, <2>8 DEF ListenerStep
<1>5. ASSUME NEW m \in Members,
             Hangup(m) \/ SelfLeave(m) \/ InputStep(m) \/ InputFails(m)
      PROVE  TypeOK'
  <2>1. CASE Hangup(m)
    BY <2>1 DEF Hangup
  <2>2. CASE SelfLeave(m)
    BY <2>2 DEF SelfLeave
  <2>3. CASE InputBegin(m)
    <3>1. CASE ready[m]
      BY <2>3, <3>1 DEF InputBegin
    <3>2. CASE ~ ready[m]
      <4>1. /\ input' = Set(input, m, "gone")
            /\ inRun' = Set(inRun, m, FALSE)
            /\ UNCHANGED <<room, flags, audio, handle, control, counts>>
        BY <2>3, <3>2 DEF InputBegin
      <4> QED BY <4>1
    <3> QED BY <3>1, <3>2
  <2>4. CASE InputEnd(m)
    BY <2>4 DEF InputEnd
  <2>5. CASE InputFails(m)
    BY <2>5 DEF InputFails
  <2> QED
    BY <1>5, <2>1, <2>2, <2>3, <2>4, <2>5 DEF InputStep
<1>6. ASSUME NEW t \in Threads, Stop(t)  PROVE TypeOK'
  <2>1. CASE StopInput(t)
    <3>1. /\ inRun' \in [Members -> BOOLEAN]
          /\ handle' \in [Members -> BOOLEAN]
      BY <2>1 DEF StopInput
    <3>2. pc' \in [Threads -> MemberSteps \cup ApiSteps]
      BY <2>1 DEF StopInput, StopDone
    <3>3. /\ victim' \in [Threads -> Members \cup {NoOne}]
          /\ then' \in [Threads -> MemberSteps \cup ApiSteps]
      BY <2>1 DEF StopInput, StopDone
    <3>4. UNCHANGED <<room, flags, audio, input, target, counts>>
      BY <2>1 DEF StopInput, StopDone
    <3> QED BY <3>1, <3>2, <3>3, <3>4
  <2>2. CASE JoinInput(t)
    BY <2>2 DEF JoinInput, StopDone
  <2> QED
    BY <1>6, <2>1, <2>2 DEF Stop
<1>7. CASE DrainBegin \/ DrainEnd
  BY <1>7 DEF DrainBegin, DrainEnd
<1>8. CASE ApiCall
  <2>1. ASSUME NEW m \in Members, Promote(m)  PROVE TypeOK'
    BY <2>1 DEF Promote
  <2>2. ASSUME NEW m \in Members, Kick(m)  PROVE TypeOK'
    BY <2>2 DEF Kick
  <2>3. CASE ClearSpeaker
    BY <2>3 DEF ClearSpeaker, SwapSpeaker, StopOldThen
  <2>4. CASE KickAll
    <3>1. ready' \in [Members -> BOOLEAN]
      BY <2>4 DEF KickAll, KickListed
    <3> QED BY <2>4, <3>1 DEF KickAll
  <2>5. CASE Destroy
    BY <2>5 DEF Destroy
  <2> QED BY <1>8, <2>1, <2>2, <2>3, <2>4, <2>5 DEF ApiCall
<1>9. CASE ApiStep
  <2>1. CASE Unlink
    BY <2>1, CountUpTyped DEF Unlink, ApiDone
  <2>2. CASE RaiseTransition
    BY <2>2 DEF RaiseTransition
  <2>3. CASE StopLoop
    BY <2>3 DEF StopLoop
  <2>4. CASE BridgeLeft
    BY <2>4 DEF BridgeLeft, ApiDone
  <2>5. CASE PromotionTimeout
    BY <2>5 DEF PromotionTimeout
  <2>6. CASE Withdraw
    BY <2>6 DEF Withdraw
  <2>7. CASE Relink
    <3>1. target \in Members
      BY <2>7 DEF Relink, Pinned, Promoting
    <3>2. CASE AddListener(target) /\ Goto(api, "recount")
                 /\ UNCHANGED target
      BY <2>7, <3>1, <3>2 DEF Relink, AddListener
    <3>3. CASE ApiDone /\ UNCHANGED <<list, role>>
      BY <2>7, <3>3 DEF Relink, ApiDone
    <3> QED BY <2>7, <3>2, <3>3 DEF Relink
  <2>8. CASE EvictSpeaker
    BY <2>8 DEF EvictSpeaker, SwapSpeaker, StopOldThen
  <2>9. CASE Disperse
    <3>1. ready' \in [Members -> BOOLEAN]
      BY <2>9 DEF Disperse, KickListed
    <3> QED BY <2>9, <3>1 DEF Disperse
  <2>10. CASE CountRelinked
    BY <2>10, CountUpTyped DEF CountRelinked, StartListener, ApiDone
  <2> QED
    BY <1>9, <2>1, <2>2, <2>3, <2>4, <2>5, <2>6, <2>7, <2>8, <2>9, <2>10
    DEF ApiStep
<1>10. CASE UNCHANGED vars
  BY <1>10 DEF vars
<1> QED
  BY <1>1, <1>2, <1>3, <1>4, <1>5, <1>6, <1>7, <1>8, <1>9, <1>10 DEF Next

-----------------------------------------------------------------------------
(* Whose step it is: a thread moves no other thread's control.             *)

LEMMA SetAt ==
  ASSUME TypeOK, NEW t \in Threads, NEW s \in Threads, NEW v
  PROVE  /\ Set(pc, t, v)[s] = IF s = t THEN v ELSE pc[s]
         /\ Set(then, t, v)[s] = IF s = t THEN v ELSE then[s]
         /\ Set(victim, t, v)[s] = IF s = t THEN v ELSE victim[s]
BY DEF TypeOK, Set

MemberMove(m) ==
  \/ JoinAsSpeaker(m) \/ RejectSpeaker(m)
  \/ CheckRoom(m) \/ JoinAsListener(m) \/ RejectListener(m)
  \/ SpeakerStep(m) \/ ListenerStep(m) \/ TimerFails(m)
  \/ Hangup(m) \/ SelfLeave(m) \/ InputStep(m) \/ InputFails(m)

Stands(t) == pc'[t] = pc[t] /\ then'[t] = then[t] /\ victim'[t] = victim[t]

LEMMA OthersStand ==
  ASSUME TypeOK, NEW m \in Members, MemberMove(m)
  PROVE  /\ \A t \in Threads \ {m} : Stands(t)
         /\ target' = target
<1> USE SetAt DEF Stands, Goto, Threads, control
<1>1. CASE JoinAsSpeaker(m)
  BY <1>1 DEF JoinAsSpeaker
<1>2. CASE RejectSpeaker(m)
  BY <1>2 DEF RejectSpeaker
<1>3. CASE CheckRoom(m) \/ JoinAsListener(m)
  BY <1>3 DEF CheckRoom, JoinAsListener
<1>4. CASE RejectListener(m)
  BY <1>4 DEF RejectListener
<1>5. CASE SpeakerStep(m)
  <2>1. CASE StartInput(m)
    BY <2>1 DEF StartInput
  <2>2. CASE InstallFails(m)
    BY <2>2 DEF InstallFails
  <2>3. CASE Publish(m)
    BY <2>3 DEF Publish, SwapSpeaker, StopOldThen
  <2>4. CASE EndWait(m)
    BY <2>4 DEF EndWait
  <2>5. CASE CheckSlot(m)
    BY <2>5 DEF CheckSlot
  <2>6. CASE ClearSlot(m)
    BY <2>6 DEF ClearSlot, SwapSpeaker, StopOldThen
  <2>7. CASE Exit(m)
    BY <2>7 DEF Exit
  <2>8. CASE ClearIfCurrent(m)
    BY <2>8 DEF ClearIfCurrent, SwapSpeaker, StopOldThen
  <2>9. CASE Cleanup(m)
    BY <2>9 DEF Cleanup
  <2>10. CASE Free(m)
    BY <2>10 DEF Free
  <2> QED
    BY <1>5, <2>1, <2>2, <2>3, <2>4, <2>5, <2>6, <2>7, <2>8, <2>9, <2>10
    DEF SpeakerStep
<1>6. CASE ListenerStep(m)
  <2>1. CASE EnterBridge(m)
    BY <2>1 DEF EnterBridge
  <2>2. CASE EndLoop(m)
    BY <2>2 DEF EndLoop
  <2>3. CASE LeaveBridge(m)
    BY <2>3 DEF LeaveBridge
  <2>4. CASE TakePromotion(m)
    BY <2>4 DEF TakePromotion
  <2>5. CASE Depart(m)
    BY <2>5 DEF Depart
  <2>6. CASE Unlist(m)
    BY <2>6 DEF Unlist
  <2>7. CASE CountJoin(m)
    BY <2>7 DEF CountJoin
  <2> QED
    BY <1>6, <2>1, <2>2, <2>3, <2>4, <2>5, <2>6, <2>7 DEF ListenerStep
<1>7. CASE TimerFails(m)
  BY <1>7 DEF TimerFails
<1>8. CASE Hangup(m) \/ SelfLeave(m)
  BY <1>8 DEF Hangup, SelfLeave
<1>9. CASE InputStep(m) \/ InputFails(m)
  BY <1>9 DEF InputStep, InputBegin, InputEnd, InputFails
<1> QED
  BY <1>1, <1>2, <1>3, <1>4, <1>5, <1>6, <1>7, <1>8, <1>9 DEF MemberMove

LEMMA StopStands ==
  ASSUME TypeOK, NEW t \in Threads, Stop(t)
  PROVE  /\ \A s \in Threads \ {t} : Stands(s)
         /\ target' = target
         /\ pc[t] \in {"stop", "join"}
         /\ \/ pc'[t] = "join" /\ then'[t] = then[t]
            \/ pc'[t] = then[t] /\ then'[t] = "idle"
<1> USE SetAt DEF Stands, Goto
<1>1. CASE StopInput(t)
  BY <1>1 DEF StopInput, StopDone
<1>2. CASE JoinInput(t)
  BY <1>2 DEF JoinInput, StopDone
<1> QED BY <1>1, <1>2 DEF Stop

LEMMA ApiStands ==
  ASSUME TypeOK, ApiCall \/ ApiStep, NEW m \in Members
  PROVE  Stands(m)
<1> USE SetAt, MembershipAssumption DEF Stands, Goto, Threads, control
<1>1. CASE ApiCall
  <2>1. ASSUME NEW q \in Members, Promote(q)  PROVE Stands(m)
    BY <2>1 DEF Promote
  <2>2. ASSUME NEW q \in Members, Kick(q)  PROVE Stands(m)
    BY <2>2 DEF Kick
  <2>3. CASE ClearSpeaker
    BY <2>3 DEF ClearSpeaker, SwapSpeaker, StopOldThen
  <2>4. CASE KickAll
    BY <2>4 DEF KickAll
  <2>5. CASE Destroy
    BY <2>5 DEF Destroy
  <2> QED BY <1>1, <2>1, <2>2, <2>3, <2>4, <2>5 DEF ApiCall
<1>2. CASE ApiStep
  <2>1. CASE Unlink
    BY <2>1 DEF Unlink, ApiDone
  <2>2. CASE RaiseTransition
    BY <2>2 DEF RaiseTransition
  <2>3. CASE StopLoop
    BY <2>3 DEF StopLoop
  <2>4. CASE BridgeLeft
    BY <2>4 DEF BridgeLeft, ApiDone
  <2>5. CASE PromotionTimeout
    BY <2>5 DEF PromotionTimeout
  <2>6. CASE Withdraw
    BY <2>6 DEF Withdraw
  <2>7. CASE Relink
    BY <2>7 DEF Relink, ApiDone
  <2>8. CASE EvictSpeaker
    BY <2>8 DEF EvictSpeaker, SwapSpeaker, StopOldThen
  <2>9. CASE Disperse
    BY <2>9 DEF Disperse
  <2>10. CASE CountRelinked
    BY <2>10 DEF CountRelinked, ApiDone
  <2> QED
    BY <1>2, <2>1, <2>2, <2>3, <2>4, <2>5, <2>6, <2>7, <2>8, <2>9, <2>10
    DEF ApiStep
<1> QED BY <1>1, <1>2

LEMMA NextMoves ==
  ASSUME [Next]_vars
  PROVE  \/ \E m \in Members : MemberMove(m)
         \/ \E t \in Threads : Stop(t)
         \/ DrainBegin \/ DrainEnd \/ ApiCall \/ ApiStep \/ UNCHANGED vars
BY DEF Next, MemberMove

LEMMA PinKept ==
  ASSUME TypeOK, Pinned, [Next]_vars
  PROVE  Pinned'
<1> USE MembershipAssumption DEF Pinned, Promoting
<1> api \in Threads
  BY DEF Threads
<1>1. ASSUME NEW m \in Members, MemberMove(m)  PROVE Pinned'
  BY <1>1, OthersStand DEF Stands
<1>2. ASSUME NEW t \in Threads, Stop(t)  PROVE Pinned'
  <2>1. CASE t = api
    BY <1>2, <2>1, StopStands
  <2>2. CASE t # api
    BY <1>2, <2>2, StopStands DEF Stands
  <2> QED BY <2>1, <2>2
<1>3. CASE DrainBegin \/ DrainEnd \/ UNCHANGED vars
  BY <1>3 DEF DrainBegin, DrainEnd, vars, control
<1>4. CASE ApiCall
  <2>1. ASSUME NEW q \in Members, Promote(q)  PROVE Pinned'
    BY SetAt, <2>1 DEF Goto, control, Promote
  <2>2. ASSUME NEW q \in Members, Kick(q)  PROVE Pinned'
    BY SetAt, <2>2 DEF Goto, control, Kick
  <2>3. CASE ClearSpeaker
    BY SetAt, <2>3 DEF Goto, control, ClearSpeaker, SwapSpeaker, StopOldThen
  <2>4. CASE KickAll
    BY SetAt, <2>4 DEF Goto, control, KickAll
  <2>5. CASE Destroy
    BY SetAt, <2>5 DEF Goto, control, Destroy
  <2> QED BY <1>4, <2>1, <2>2, <2>3, <2>4, <2>5 DEF ApiCall
<1>5. CASE ApiStep
  <2>1. CASE Unlink
    BY SetAt, <2>1 DEF Goto, control, Unlink, ApiDone
  <2>2. CASE RaiseTransition
    BY SetAt, <2>2 DEF Goto, control, RaiseTransition
  <2>3. CASE StopLoop
    BY SetAt, <2>3 DEF Goto, control, StopLoop
  <2>4. CASE BridgeLeft
    BY SetAt, <2>4 DEF Goto, control, BridgeLeft, ApiDone
  <2>5. CASE PromotionTimeout
    BY SetAt, <2>5 DEF Goto, control, PromotionTimeout
  <2>6. CASE Withdraw
    BY SetAt, <2>6 DEF Goto, control, Withdraw
  <2>7. CASE Relink
    BY SetAt, <2>7 DEF Goto, control, Relink, ApiDone
  <2>8. CASE EvictSpeaker
    BY SetAt, <2>8 DEF Goto, control, EvictSpeaker, SwapSpeaker, StopOldThen
  <2>9. CASE Disperse
    BY SetAt, <2>9 DEF Goto, control, Disperse
  <2>10. CASE CountRelinked
    BY SetAt, <2>10 DEF Goto, control, CountRelinked, ApiDone
  <2> QED
    BY <1>5, <2>1, <2>2, <2>3, <2>4, <2>5, <2>6, <2>7, <2>8, <2>9, <2>10
    DEF ApiStep
<1> QED BY <1>1, <1>2, <1>3, <1>4, <1>5, NextMoves

(* Every variable keeps its type, and a promotion under way its member.    *)
THEOREM MembershipTypes == Spec => [](TypeOK /\ Pinned)
<1>1. Init => TypeOK /\ Pinned
  <2>1. Init => Pinned
    BY DEF Init, Pinned, Promoting, Threads
  <2> QED BY <2>1, TypesAtStart
<1>2. TypeOK /\ Pinned /\ [Next]_vars => (TypeOK /\ Pinned)'
  BY TypesKept, PinKept
<1> QED BY <1>1, <1>2, PTL DEF Spec
-----------------------------------------------------------------------------
(* The speaker slot: who is in it has its audio and is still on the way    *)
(* between taking the slot and comparing it for the last time; and while   *)
(* the producer reads, nobody writes.                                      *)
InSlot == {"wait", "check", "clear", "exit", "clear_if"}

Installed(m) ==
  \/ pc[m] \in InSlot
  \/ pc[m] \in {"stop", "join"} /\ then[m] \in InSlot

SlotInv ==
  /\ \A m \in Members :
       /\ then[m] # "publish"
       /\ pc[m] = "publish" => audio[m] = "live"
       /\ speaker = m => audio[m] = "live" /\ Installed(m)
  /\ draining # NoOne => draining = speaker

LEMMA SetMember ==
  ASSUME TypeOK, NEW m \in Members, NEW q \in Members, NEW v
  PROVE  /\ Set(audio, q, v)[m] = IF m = q THEN v ELSE audio[m]
         /\ Set(handle, q, v)[m] = IF m = q THEN v ELSE handle[m]
BY DEF TypeOK, Set

(* What a member's step does to the slot and to its input's handle.        *)
LEMMA SlotMoves ==
  ASSUME TypeOK, NEW m \in Members, MemberMove(m)
  PROVE  /\ draining' = draining
         /\ \A q \in Members \ {m} :
              audio'[q] = audio[q] /\ handle'[q] = handle[q]
         /\ handle'[m] = handle[m] \/ pc'[m] = "publish"
         /\ \/ speaker' = speaker
            \/ /\ draining = NoOne
               /\ \/ speaker' = NoOne
                  \/ speaker' = m /\ pc[m] = "publish"
               /\ speaker # NoOne =>
                    pc'[m] = "stop" /\ victim'[m] = speaker
         /\ pc[m] = "publish" => Stands(m) \/ speaker' = m
         /\ pc[m] \in {"stop", "join"} => Stands(m)
<1> m \in Threads
  BY DEF Threads
<1> USE SetAt, SetMember DEF Goto, room, media, control, Stands
<1>1. CASE JoinAsSpeaker(m)
  BY <1>1 DEF JoinAsSpeaker
<1>2. CASE RejectSpeaker(m)
  BY <1>2 DEF RejectSpeaker
<1>3. CASE CheckRoom(m) \/ JoinAsListener(m)
  BY <1>3 DEF CheckRoom, JoinAsListener, AddListener
<1>4. CASE RejectListener(m)
  BY <1>4 DEF RejectListener
<1>5. CASE StartInput(m)
  <2>1. /\ handle' = Set(handle, m, TRUE) /\ audio' = Set(audio, m, "live")
        /\ UNCHANGED <<speaker, draining>>
        /\ pc' = Set(pc, m, "publish")
        /\ pc[m] \in {"install", "promote"}
    BY <1>5 DEF StartInput
  <2>2. pc'[m] = "publish"
    BY <2>1
  <2>3. \A q \in Members \ {m} :
          audio'[q] = audio[q] /\ handle'[q] = handle[q]
    <3> TAKE q \in Members \ {m}
    <3>1. Set(audio, m, "live")[q] = audio[q]
      BY SetMember
    <3>2. Set(handle, m, TRUE)[q] = handle[q]
      BY Zenon DEF Set, TypeOK
    <3> QED BY <2>1, <3>1, <3>2
  <2> QED BY <2>1, <2>2, <2>3
<1>6. CASE InstallFails(m)
  BY <1>6 DEF InstallFails
<1>7. CASE Publish(m)
  BY <1>7 DEF Publish, SwapSpeaker, StopOldThen
<1>8. CASE EndWait(m)
  BY <1>8 DEF EndWait
<1>9. CASE CheckSlot(m)
  BY <1>9 DEF CheckSlot
<1>10. CASE ClearSlot(m)
  BY <1>10 DEF ClearSlot, SwapSpeaker, StopOldThen
<1>11. CASE Exit(m)
  BY <1>11 DEF Exit
<1>12. CASE ClearIfCurrent(m)
  BY <1>12 DEF ClearIfCurrent, SwapSpeaker, StopOldThen
<1>13. CASE Cleanup(m)
  BY <1>13 DEF Cleanup
<1>14. CASE Free(m)
  BY <1>14 DEF Free
<1>15. CASE ListenerStep(m)
  BY <1>15 DEF ListenerStep, CountJoin, EnterBridge, EndLoop, LeaveBridge,
         TakePromotion, Depart, Unlist
<1>16. CASE TimerFails(m)
  BY <1>16 DEF TimerFails
<1>17. CASE Hangup(m) \/ SelfLeave(m)
  BY <1>17 DEF Hangup, SelfLeave
<1>18. CASE InputStep(m) \/ InputFails(m)
  BY <1>18 DEF InputStep, InputBegin, InputEnd, InputFails
<1> QED
  BY <1>1, <1>2, <1>3, <1>4, <1>5, <1>6, <1>7, <1>8, <1>9, <1>10,
     <1>11, <1>12, <1>13, <1>14, <1>15, <1>16, <1>17, <1>18
  DEF MemberMove, SpeakerStep

(* A member's own step keeps its part of the invariant.                    *)
LEMMA OwnSlot ==
  ASSUME TypeOK, SlotInv, NEW m \in Members, MemberMove(m)
  PROVE  /\ then'[m] # "publish"
         /\ (pc[m] = "publish" => audio[m] = "live")'
         /\ (speaker = m => audio[m] = "live" /\ Installed(m))'
<1> m \in Threads /\ m # NoOne
  BY MembershipAssumption DEF Threads
<1> USE SetAt, SetMember
    DEF Goto, room, media, control, SlotInv, Installed, InSlot
<1>1. CASE JoinAsSpeaker(m)
  BY <1>1 DEF JoinAsSpeaker
<1>2. CASE RejectSpeaker(m)
  BY <1>2 DEF RejectSpeaker
<1>3. CASE CheckRoom(m) \/ JoinAsListener(m)
  <2>1. CASE CheckRoom(m)
    BY <2>1 DEF CheckRoom
  <2>2. CASE JoinAsListener(m)
    BY <2>2 DEF JoinAsListener, AddListener
  <2> QED BY <1>3, <2>1, <2>2
<1>4. CASE RejectListener(m)
  BY <1>4 DEF RejectListener
<1>5. CASE StartInput(m)
  BY <1>5 DEF StartInput
<1>6. CASE InstallFails(m)
  BY <1>6 DEF InstallFails
<1>7. CASE Publish(m)
  BY <1>7 DEF Publish, SwapSpeaker, StopOldThen
<1>8. CASE EndWait(m)
  BY <1>8 DEF EndWait
<1>9. CASE CheckSlot(m)
  BY <1>9 DEF CheckSlot
<1>10. CASE ClearSlot(m)
  BY <1>10 DEF ClearSlot, SwapSpeaker, StopOldThen
<1>11. CASE Exit(m)
  BY <1>11 DEF Exit
<1>12. CASE ClearIfCurrent(m)
  BY <1>12 DEF ClearIfCurrent, SwapSpeaker, StopOldThen
<1>13. CASE Cleanup(m)
  BY <1>13 DEF Cleanup
<1>14. CASE Free(m)
  BY <1>14 DEF Free
<1>15. CASE ListenerStep(m)
  <2>1. CASE EnterBridge(m)
    BY <2>1 DEF EnterBridge
  <2>2. CASE EndLoop(m)
    BY <2>2 DEF EndLoop
  <2>3. CASE LeaveBridge(m)
    BY <2>3 DEF LeaveBridge
  <2>4. CASE TakePromotion(m)
    BY <2>4 DEF TakePromotion
  <2>5. CASE Depart(m)
    BY <2>5 DEF Depart
  <2>6. CASE Unlist(m)
    BY <2>6 DEF Unlist
  <2>7. CASE CountJoin(m)
    BY <2>7 DEF CountJoin
  <2> QED
    BY <1>15, <2>1, <2>2, <2>3, <2>4, <2>5, <2>6, <2>7 DEF ListenerStep
<1>16. CASE TimerFails(m)
  BY <1>16 DEF TimerFails
<1>17. CASE Hangup(m) \/ SelfLeave(m)
  BY <1>17 DEF Hangup, SelfLeave
<1>18. CASE InputStep(m) \/ InputFails(m)
  BY <1>18 DEF InputStep, InputBegin, InputEnd, InputFails
<1> QED
  BY <1>1, <1>2, <1>3, <1>4, <1>5, <1>6, <1>7, <1>8, <1>9, <1>10,
     <1>11, <1>12, <1>13, <1>14, <1>15, <1>16, <1>17, <1>18
  DEF MemberMove, SpeakerStep

(* The invariant of the speaker slot.                                      *)
THEOREM SlotSafe == Spec => []SlotInv
<1>1. Init => SlotInv
  BY MembershipAssumption DEF Init, SlotInv, Threads
<1>2. TypeOK /\ SlotInv /\ [Next]_vars => SlotInv'
  <2> SUFFICES ASSUME TypeOK, SlotInv, [Next]_vars  PROVE SlotInv'
    OBVIOUS
  <2>1. ASSUME NEW q \in Members, MemberMove(q)  PROVE SlotInv'
    <3>1. ASSUME NEW m \in Members
          PROVE  /\ then'[m] # "publish"
         /\ (pc[m] = "publish" => audio[m] = "live")'
                 /\ (speaker = m => audio[m] = "live" /\ Installed(m))'
      <4>1. CASE m = q
        BY <2>1, <4>1, OwnSlot
      <4>2. CASE m # q
        <5>1. Stands(m) /\ audio'[m] = audio[m]
          BY <2>1, <4>2, OthersStand, SlotMoves DEF Threads
        <5>2. speaker' = m => speaker = m
          BY <2>1, <4>2, SlotMoves, MembershipAssumption
        <5> QED BY <5>1, <5>2 DEF SlotInv, Installed, Stands
      <4> QED BY <4>1, <4>2
    <3>2. draining' # NoOne => draining' = speaker'
      BY <2>1, SlotMoves DEF SlotInv
    <3> QED BY <3>1, <3>2 DEF SlotInv
  <2>2. ASSUME NEW t \in Threads, Stop(t)  PROVE SlotInv'
    <3>1. UNCHANGED <<speaker, audio, draining>>
      BY <2>2 DEF Stop, StopInput, JoinInput, StopDone, room
    <3>2. ASSUME NEW m \in Members
          PROVE  /\ then'[m] # "publish"
                 /\ pc'[m] = "publish" => audio[m] = "live"
                 /\ speaker = m => Installed(m)'
      <4>1. CASE m = t
        <5>1. pc[m] \in {"stop", "join"}
          BY <2>2, <4>1 DEF Stop, StopInput, JoinInput
        <5>2. \/ pc'[m] = "join" /\ then'[m] = then[m]
              \/ pc'[m] = then[m] /\ then'[m] = "idle"
          BY <2>2, <4>1, StopStands
        <5> QED BY <5>1, <5>2 DEF SlotInv, Installed, InSlot
      <4>2. CASE m # t
        BY <2>2, <4>2, StopStands DEF SlotInv, Installed, Stands, Threads
      <4> QED BY <4>1, <4>2
    <3> QED BY <3>1, <3>2 DEF SlotInv
  <2>3. CASE DrainBegin \/ DrainEnd \/ UNCHANGED vars
    BY <2>3 DEF DrainBegin, DrainEnd, vars, control, media, room, SlotInv,
                Installed
  <2>4. CASE ApiCall \/ ApiStep
    <3>1. \A m \in Members : Stands(m)
      BY <2>4, ApiStands
    <3>2. /\ speaker' \in {speaker, NoOne}
          /\ speaker' # speaker => draining = NoOne
          /\ UNCHANGED <<audio, draining>>
      BY <2>4 DEF ApiCall, Promote, Kick, ClearSpeaker, KickAll, Destroy,
                  ApiStep, Unlink, RaiseTransition, StopLoop, BridgeLeft,
                  PromotionTimeout, Withdraw, Relink, CountRelinked,
                  EvictSpeaker, Disperse, SwapSpeaker, room, media
    <3> QED
      BY <3>1, <3>2, MembershipAssumption DEF SlotInv, Installed, Stands
  <2> QED BY <2>1, <2>2, <2>3, <2>4, NextMoves
<1> QED BY <1>1, <1>2, MembershipTypes, PTL DEF Spec

(* The producer never reads a speaker that is freed or cleaned up.         *)
THEOREM SpeakerNeverDangles == Spec => []SpeakerUsable
<1>1. SlotInv => SpeakerUsable
  BY MembershipAssumption DEF SlotInv, SpeakerUsable, Installed, InSlot
<1> QED BY <1>1, SlotSafe, PTL
-----------------------------------------------------------------------------
(* What a step of the API does to the slot.                                *)
LEMMA ApiMoves ==
  ASSUME TypeOK, ApiCall \/ ApiStep
  PROVE  /\ handle' = handle
         /\ pc[api] # "stop"
         /\ speaker' # speaker => pc'[api] = "stop" /\ victim'[api] = speaker
<1> api \in Threads
  BY DEF Threads
<1> USE SetAt DEF Goto, room, media, control
<1>1. CASE ApiCall
  <2>1. ASSUME NEW q \in Members, Promote(q)
        PROVE  UNCHANGED <<handle, speaker>> /\ pc[api] = "idle"
    BY <2>1 DEF Promote
  <2>2. ASSUME NEW q \in Members, Kick(q)
        PROVE  UNCHANGED <<handle, speaker>> /\ pc[api] = "idle"
    BY <2>2 DEF Kick
  <2>3. CASE ClearSpeaker
    BY <2>3 DEF ClearSpeaker, SwapSpeaker, StopOldThen
  <2>4. CASE KickAll
    BY <2>4 DEF KickAll
  <2>5. CASE Destroy
    BY <2>5 DEF Destroy
  <2> QED BY <1>1, <2>1, <2>2, <2>3, <2>4, <2>5 DEF ApiCall
<1>2. CASE ApiStep
  <2>1. CASE EvictSpeaker
    BY <2>1 DEF EvictSpeaker, SwapSpeaker, StopOldThen
  <2>2. CASE Unlink \/ RaiseTransition \/ StopLoop \/ BridgeLeft
    BY <2>2 DEF Unlink, RaiseTransition, StopLoop, BridgeLeft
  <2>3. CASE PromotionTimeout \/ Withdraw \/ Relink \/ Disperse
    BY <2>3 DEF PromotionTimeout, Withdraw, Relink, Disperse
  <2>4. CASE CountRelinked
    BY <2>4 DEF CountRelinked
  <2> QED BY <1>2, <2>1, <2>2, <2>3, <2>4 DEF ApiStep
<1> QED BY <1>1, <1>2

(* Whoever stops an input takes its handle, and nobody else's.             *)
LEMMA StopMoves ==
  ASSUME TypeOK, NEW t \in Threads, Stop(t)
  PROVE  /\ speaker' = speaker
         /\ \A m \in Members : handle'[m] => handle[m]
         /\ pc[t] = "stop" => ~ handle'[victim[t]] \/ victim[t] \notin Members
<1>1. CASE StopInput(t)
  <2>1. speaker' = speaker /\ handle' = Set(handle, victim[t], FALSE)
    BY <1>1 DEF StopInput, StopDone, room
  <2>2. \A m \in Members : handle'[m] => handle[m]
    BY <2>1, Zenon DEF Set, TypeOK
  <2>3. victim[t] \in Members => ~ handle'[victim[t]]
    BY <2>1, Zenon DEF Set, TypeOK
  <2> QED BY <2>1, <2>2, <2>3
<1>2. CASE JoinInput(t)
  BY <1>2 DEF JoinInput, StopDone, room
<1> QED BY <1>1, <1>2 DEF Stop

(* No way out of the slot leaks an input thread.  The witness changes from *)
(* the slot to the thread that emptied it, in the step that empties it.    *)
THEOREM InputsAccounted == Spec => []InputAccounted
<1>1. Init => InputAccounted
  BY DEF Init, InputAccounted
<1>2. TypeOK /\ InputAccounted /\ [Next]_vars => InputAccounted'
  <2> SUFFICES ASSUME TypeOK, InputAccounted, [Next]_vars,
                      NEW m \in Members, handle'[m]
               PROVE  \/ pc'[m] = "publish"
                      \/ speaker' = m
                      \/ \E t \in Threads : pc'[t] = "stop" /\ victim'[t] = m
    BY DEF InputAccounted
  <2> m \in Threads /\ m # NoOne
    BY MembershipAssumption DEF Threads
  <2>1. ASSUME NEW q \in Members, MemberMove(q)
        PROVE  \/ pc'[m] = "publish"
               \/ speaker' = m
               \/ \E t \in Threads : pc'[t] = "stop" /\ victim'[t] = m
    <3> q \in Threads
      BY DEF Threads
    <3>1. CASE pc'[m] = "publish"
      BY <3>1
    <3>2. CASE pc'[m] # "publish"
      <4>1. handle[m]
        <5>1. CASE m = q
          BY <2>1, <3>2, <5>1, SlotMoves
        <5>2. CASE m # q
          BY <2>1, <5>2, SlotMoves
        <5> QED BY <5>1, <5>2
      <4>2. CASE pc[m] = "publish"
        BY <2>1, <3>2, <4>2, SlotMoves, OthersStand DEF Stands
      <4>3. CASE speaker = m
        BY <2>1, <4>3, SlotMoves
      <4>4. ASSUME NEW t \in Threads, pc[t] = "stop", victim[t] = m
            PROVE  pc'[t] = "stop" /\ victim'[t] = m
        BY <2>1, <4>4, SlotMoves, OthersStand DEF Stands
      <4> QED BY <4>1, <4>2, <4>3, <4>4 DEF InputAccounted
    <3> QED BY <3>1, <3>2
  <2>2. ASSUME NEW s \in Threads, Stop(s)
        PROVE  \/ pc'[m] = "publish"
               \/ speaker' = m
               \/ \E t \in Threads : pc'[t] = "stop" /\ victim'[t] = m
    <3>1. handle[m]
      BY <2>2, StopMoves
    <3>2. CASE pc[m] = "publish"
      BY <2>2, <3>2, StopStands DEF Stands
    <3>3. CASE speaker = m
      BY <2>2, <3>3, StopMoves
    <3>4. ASSUME NEW t \in Threads, pc[t] = "stop", victim[t] = m
          PROVE  pc'[t] = "stop" /\ victim'[t] = m
      <4>1. t # s
        BY <2>2, <3>4, StopMoves
      <4> QED BY <2>2, <3>4, <4>1, StopStands DEF Stands
    <3> QED BY <3>1, <3>2, <3>3, <3>4 DEF InputAccounted
  <2>3. CASE DrainBegin \/ DrainEnd \/ UNCHANGED vars
    BY <2>3 DEF DrainBegin, DrainEnd, vars, control, media, room,
                InputAccounted
  <2>4. CASE ApiCall \/ ApiStep
    <3>1. handle[m] /\ Stands(m)
      BY <2>4, ApiMoves, ApiStands
    <3>2. CASE pc[m] = "publish"
      BY <3>1, <3>2 DEF Stands
    <3>3. CASE speaker = m
      BY <2>4, <3>3, ApiMoves DEF Threads
    <3>4. ASSUME NEW t \in Threads, pc[t] = "stop", victim[t] = m
          PROVE  pc'[t] = "stop" /\ victim'[t] = m
      <4>1. t \in Members
        BY <2>4, <3>4, ApiMoves DEF Threads
      <4> QED BY <2>4, <3>4, <4>1, ApiStands DEF Stands
    <3> QED BY <3>1, <3>2, <3>3, <3>4 DEF InputAccounted
  <2> QED BY <2>1, <2>2, <2>3, <2>4, NextMoves
<1> QED BY <1>1, <1>2, MembershipTypes, PTL DEF Spec
-----------------------------------------------------------------------------
(* The listener list.  Early is a member's way to the list, Arriving its   *)
(* way to the loop, Listening its way from the list back to the            *)
(* application.                                                            *)
Early == {"new", "add"}
Arriving == Early \cup {"count", "bridge"}
Listening == {"count", "bridge", "loop", "leaving", "returned", "unlist"}

(* A member is listed by its own join only, and again by the rollback of a *)
(* promotion that took too long, which may raise MFLAG_RUNNING only once   *)
(* the member has left its loop; who has been unlinked for a promotion is  *)
(* stopped before anything else happens to it.                             *)
MemberListInv(m) ==
  /\ then[m] \notin Arriving \cup Listening
  /\ pc[m] \in Arriving => ~ transition[m] /\ ~ inBridge[m]
  /\ pc[m] \in Early => m \notin list
  /\ pc[m] \in {"count", "bridge"} => m \in list
  /\ pc[m] = "loop" /\ running[m] /\ m \notin list =>
       pc[api] \in {"flag", "stop_loop"} /\ target = m
  /\ m \notin Slow /\ m \in list => pc[m] \in Listening /\ ~ transition[m]

PromotionInv ==
  /\ pc[api] \in Promoting => pc[target] \notin Arriving
  /\ pc[api] \in Promoting \ {"unlink", "recount"} => target \notin list
  /\ pc[api] = "recount" => target \in list \/ pc[target] # "loop"
  /\ pc[api] \in {"withdraw", "relink", "recount"} => target \in Slow

ListInv ==
  /\ \A m \in Members : MemberListInv(m)
  /\ PromotionInv

LEMMA SetFlag ==
  ASSUME TypeOK, NEW q \in Members
  PROVE  /\ ~ Set(running, q, FALSE)[q] /\ Set(running, q, TRUE)[q]
         /\ ~ Set(transition, q, FALSE)[q] /\ Set(transition, q, TRUE)[q]
         /\ ~ Set(inBridge, q, FALSE)[q]
         /\ \A m \in Members \ {q} :
              /\ Set(running, q, FALSE)[m] = running[m]
              /\ Set(running, q, TRUE)[m] = running[m]
              /\ Set(transition, q, FALSE)[m] = transition[m]
              /\ Set(transition, q, TRUE)[m] = transition[m]
              /\ Set(inBridge, q, FALSE)[m] = inBridge[m]
              /\ Set(inBridge, q, TRUE)[m] = inBridge[m]
BY Zenon DEF TypeOK, Set

(* A member's step lists, unlists, flags and stops nobody but itself.      *)
LEMMA OthersListed ==
  ASSUME TypeOK, NEW q \in Members, MemberMove(q), NEW m \in Members, m # q
  PROVE  /\ running'[m] = running[m] /\ transition'[m] = transition[m]
         /\ inBridge'[m] = inBridge[m]
         /\ m \in list' <=> m \in list
<1> USE SetFlag DEF room, flags
<1>1. CASE JoinAsSpeaker(q)
  BY <1>1 DEF JoinAsSpeaker
<1>2. CASE RejectSpeaker(q)
  BY <1>2 DEF RejectSpeaker
<1>3. CASE CheckRoom(q)
  BY <1>3 DEF CheckRoom
<1>4. CASE JoinAsListener(q)
  BY <1>4 DEF JoinAsListener, AddListener
<1>5. CASE RejectListener(q)
  BY <1>5 DEF RejectListener
<1>6. CASE StartInput(q)
  BY <1>6 DEF StartInput
<1>7. CASE InstallFails(q)
  BY <1>7 DEF InstallFails
<1>8. CASE Publish(q)
  BY <1>8 DEF Publish, SwapSpeaker, StopOldThen
<1>9. CASE EndWait(q)
  BY <1>9 DEF EndWait
<1>10. CASE CheckSlot(q)
  BY <1>10 DEF CheckSlot
<1>11. CASE ClearSlot(q)
  BY <1>11 DEF ClearSlot, SwapSpeaker, StopOldThen
<1>12. CASE Exit(q)
  BY <1>12 DEF Exit
<1>13. CASE ClearIfCurrent(q)
  BY <1>13 DEF ClearIfCurrent, SwapSpeaker, StopOldThen
<1>14. CASE Cleanup(q)
  BY <1>14 DEF Cleanup
<1>15. CASE Free(q)
  BY <1>15 DEF Free
<1>16. CASE EnterBridge(q)
  BY <1>16 DEF EnterBridge
<1>17. CASE EndLoop(q)
  BY <1>17 DEF EndLoop
<1>18. CASE LeaveBridge(q)
  BY <1>18 DEF LeaveBridge
<1>19. CASE TakePromotion(q)
  BY <1>19 DEF TakePromotion
<1>20. CASE Depart(q)
  BY <1>20 DEF Depart
<1>21. CASE Unlist(q)
  BY <1>21 DEF Unlist
<1>22. CASE TimerFails(q)
  BY <1>22 DEF TimerFails
<1>23. CASE Hangup(q)
  BY <1>23 DEF Hangup
<1>24. CASE SelfLeave(q)
  BY <1>24 DEF SelfLeave
<1>25. CASE InputBegin(q)
  BY <1>25 DEF InputBegin
<1>26. CASE InputEnd(q)
  BY <1>26 DEF InputEnd
<1>27. CASE InputFails(q)
  BY <1>27 DEF InputFails
<1>28. CASE CountJoin(q)
  BY <1>28 DEF CountJoin, StartListener
<1> QED
  BY <1>1, <1>2, <1>3, <1>4, <1>5, <1>6, <1>7, <1>8, <1>9, <1>10, <1>11,
     <1>12, <1>13, <1>14, <1>15, <1>16, <1>17, <1>18, <1>19, <1>20,
     <1>21, <1>22, <1>23, <1>24, <1>25, <1>26, <1>27, <1>28
  DEF MemberMove, SpeakerStep, ListenerStep, InputStep

(* What a member's step does to its own place on the list.                 *)
LEMMA OwnListed ==
  ASSUME TypeOK, NEW q \in Members, MemberMove(q),
         then[q] \notin Arriving \cup Listening
  PROVE  /\ then'[q] \notin Arriving \cup Listening
         /\ pc'[q] \in Early => pc[q] \in Early
         /\ pc'[q] \in Arriving =>
              pc[q] \in Arriving /\ (inBridge'[q] => inBridge[q])
         /\ transition'[q] => transition[q]
         /\ q \in list' => q \in list \/ (pc[q] = "add" /\ pc'[q] = "count")
         /\ q \in list /\ q \notin list' =>
              pc[q] = "unlist" /\ pc'[q] = "clear_if"
         /\ pc'[q] \in {"count", "bridge"} =>
              pc[q] \in {"count", "bridge"} \/ q \in list'
         /\ pc'[q] = "loop" =>
              /\ pc[q] \in {"bridge", "loop"}
              /\ running'[q] => running[q]
         /\ q \in list' /\ pc[q] \in Listening =>
              pc'[q] \in Listening \/ transition[q]
         /\ \/ JoinAsListener(q) \/ CountJoin(q)
            \/ pc'[q] = "count" <=> pc[q] = "count"
<1> q \in Threads
  BY DEF Threads
<1> USE SetAt, SetFlag
    DEF room, flags, control, Goto, Early, Arriving, Listening
<1>1. CASE JoinAsSpeaker(q)
  BY <1>1 DEF JoinAsSpeaker
<1>2. CASE RejectSpeaker(q)
  BY <1>2 DEF RejectSpeaker
<1>3. CASE CheckRoom(q)
  BY <1>3 DEF CheckRoom
<1>4. CASE JoinAsListener(q)
  BY <1>4 DEF JoinAsListener, AddListener
<1>5. CASE RejectListener(q)
  BY <1>5 DEF RejectListener
<1>6. CASE StartInput(q)
  BY <1>6 DEF StartInput
<1>7. CASE InstallFails(q)
  BY <1>7 DEF InstallFails
<1>8. CASE Publish(q)
  BY <1>8 DEF Publish, SwapSpeaker, StopOldThen
<1>9. CASE EndWait(q)
  BY <1>9 DEF EndWait
<1>10. CASE CheckSlot(q)
  BY <1>10 DEF CheckSlot
<1>11. CASE ClearSlot(q)
  BY <1>11 DEF ClearSlot, SwapSpeaker, StopOldThen
<1>12. CASE Exit(q)
  BY <1>12 DEF Exit
<1>13. CASE ClearIfCurrent(q)
  BY <1>13 DEF ClearIfCurrent, SwapSpeaker, StopOldThen
<1>14. CASE Cleanup(q)
  BY <1>14 DEF Cleanup
<1>15. CASE Free(q)
  BY <1>15 DEF Free
<1>16. CASE EnterBridge(q)
  <2>1. /\ pc[q] = "bridge" /\ pc'[q] = "loop" /\ then' = then
        /\ UNCHANGED <<list, running, transition>>
    BY <1>16 DEF EnterBridge
  <2> QED BY <2>1
<1>17. CASE EndLoop(q)
  <2>1. /\ pc[q] = "loop" /\ pc'[q] = "leaving" /\ then' = then
        /\ UNCHANGED <<list, transition>>
    BY <1>17 DEF EndLoop
  <2> QED BY <2>1
<1>18. CASE LeaveBridge(q)
  BY <1>18 DEF LeaveBridge
<1>19. CASE TakePromotion(q)
  BY <1>19 DEF TakePromotion
<1>20. CASE Depart(q)
  BY <1>20 DEF Depart
<1>21. CASE Unlist(q)
  BY <1>21 DEF Unlist
<1>22. CASE TimerFails(q)
  BY <1>22 DEF TimerFails
<1>23. CASE Hangup(q)
  BY <1>23 DEF Hangup
<1>24. CASE SelfLeave(q)
  BY <1>24 DEF SelfLeave
<1>25. CASE InputBegin(q)
  BY <1>25 DEF InputBegin
<1>26. CASE InputEnd(q)
  BY <1>26 DEF InputEnd
<1>27. CASE InputFails(q)
  BY <1>27 DEF InputFails
<1>28. CASE CountJoin(q)
  BY <1>28 DEF CountJoin, StartListener
<1> QED
  BY <1>1, <1>2, <1>3, <1>4, <1>5, <1>6, <1>7, <1>8, <1>9, <1>10, <1>11,
     <1>12, <1>13, <1>14, <1>15, <1>16, <1>17, <1>18, <1>19, <1>20,
     <1>21, <1>22, <1>23, <1>24, <1>25, <1>26, <1>27, <1>28
  DEF MemberMove, SpeakerStep, ListenerStep, InputStep

(* The calls and the rest of the API's steps, which change no list and no  *)
(* flag of a promotion.                                                    *)
LEMMA ApiKeepsList ==
  ASSUME TypeOK, Pinned, ListInv,
         UNCHANGED <<list, transition, running, inBridge>>,
         \A m \in Members : Stands(m),
         pc'[api] = pc[api] \/ pc[api] \notin {"flag", "stop_loop"},
         pc'[api] \in Promoting =>
           /\ target' \in Members /\ pc[target'] \notin Arriving
           /\ pc'[api] # "unlink" => target' = target /\ pc[api] \in Promoting
           /\ pc[api] \in Promoting => target' = target
           /\ pc[api] = "unlink" => pc'[api] = "unlink"
           /\ pc[api] = "recount" <=> pc'[api] = "recount"
           /\ pc'[api] \in {"withdraw", "relink", "recount"} =>
                target \in Slow
  PROVE  ListInv'
<1>1. \A m \in Members : then'[m] = then[m] /\ pc'[m] = pc[m]
  BY DEF Stands
<1>2. ASSUME NEW m \in Members  PROVE MemberListInv(m)'
  BY <1>1 DEF ListInv, MemberListInv, Promoting
<1>3. PromotionInv'
  BY <1>1 DEF ListInv, PromotionInv, Promoting
<1> QED BY <1>2, <1>3 DEF ListInv

LEMMA ApiCallsList ==
  ASSUME TypeOK, Pinned, ListInv, ApiCall
  PROVE  ListInv'
<1> api \in Threads
  BY DEF Threads
<1>1. \A m \in Members : Stands(m)
  BY ApiStands
<1>2. UNCHANGED <<list, transition, running, inBridge>>
  BY DEF ApiCall, Promote, Kick, ClearSpeaker, KickAll, Destroy, room, flags
<1>3. ASSUME NEW q \in Members, Promote(q)
      PROVE  ListInv'
  <2>1. pc[api] = "idle" /\ target' = q /\ pc'[api] = "unlink"
    BY <1>3, SetAt DEF Promote, Goto
  <2>2. pc[q] \notin Arriving
    BY <1>3 DEF Promote, ListInv, MemberListInv
  <2> QED BY <1>1, <1>2, <2>1, <2>2, ApiKeepsList DEF Promoting
<1>4. ASSUME NEW q \in Members, Kick(q)
      PROVE  ListInv'
  <2>1. pc[api] = "idle" /\ pc' = pc
    BY <1>4 DEF Kick, control
  <2> QED BY <1>1, <1>2, <2>1, ApiKeepsList DEF Promoting
<1>5. CASE ClearSpeaker \/ KickAll \/ Destroy
  <2>1. pc[api] = "idle" /\ pc'[api] \in {"idle", "stop", "evict"}
    BY <1>5, SetAt DEF ClearSpeaker, KickAll, Destroy, SwapSpeaker,
                       StopOldThen, Goto, control
  <2> QED BY <1>1, <1>2, <2>1, ApiKeepsList DEF Promoting
<1> QED BY <1>3, <1>4, <1>5 DEF ApiCall

LEMMA ApiStepsList ==
  ASSUME TypeOK, Pinned, ListInv, ApiStep
  PROVE  ListInv'
<1> api \in Threads
  BY DEF Threads
<1>1. \A m \in Members : Stands(m)
  BY ApiStands
<1>2. \A m \in Members : pc'[m] = pc[m] /\ then'[m] = then[m]
  BY <1>1 DEF Stands
<1> USE DEF ListInv, MemberListInv, PromotionInv, Promoting
<1>3. CASE Unlink
  <2>1. CASE target \in list
    <3>1. /\ pc[api] = "unlink" /\ pc'[api] = "flag"
          /\ list' = list \ {target} /\ target' = target
          /\ UNCHANGED <<transition, running, inBridge>>
      BY <1>3, <2>1, SetAt DEF Unlink, Goto, flags
    <3>2. target \in Members /\ pc[target] \notin Arriving
      BY <3>1 DEF Pinned
    <3>3. pc[target] \notin {"new", "add", "count", "bridge"}
      BY <3>2 DEF Arriving, Early
    <3> QED BY <1>2, <3>1, <3>2, <3>3
  <2>2. CASE target \notin list
    <3>1. /\ pc[api] = "unlink" /\ pc'[api] = "idle"
          /\ UNCHANGED <<list, transition, running, inBridge>>
      BY <1>3, <2>2, SetAt DEF Unlink, ApiDone, Goto, flags
    <3> QED BY <1>1, <3>1, ApiKeepsList
  <2> QED BY <2>1, <2>2
<1>4. CASE RaiseTransition
  <2>1. /\ pc[api] = "flag" /\ pc'[api] = "stop_loop" /\ target' = target
        /\ transition' = Set(transition, target, TRUE)
        /\ UNCHANGED <<list, running, inBridge>>
    BY <1>4, SetAt DEF RaiseTransition, Goto, room
  <2>2. /\ target \in Members /\ pc[target] \notin Arriving
        /\ target \notin list
    BY <2>1 DEF Pinned
  <2>3. \A m \in Members \ {target} : transition'[m] = transition[m]
    BY <2>1, <2>2, SetFlag
  <2> QED BY <1>2, <2>1, <2>2, <2>3
<1>5. CASE StopLoop
  <2>1. /\ pc[api] = "stop_loop" /\ pc'[api] = "await" /\ target' = target
        /\ running' = Set(running, target, FALSE)
        /\ UNCHANGED <<list, transition, inBridge>>
    BY <1>5, SetAt DEF StopLoop, Goto, room
  <2>2. target \in Members
    BY <2>1 DEF Pinned
  <2>3. /\ \A m \in Members \ {target} : running'[m] = running[m]
        /\ ~ running'[target]
    BY <2>1, <2>2, SetFlag
  <2> QED BY <1>2, <2>1, <2>2, <2>3
<1>6. CASE BridgeLeft \/ EvictSpeaker \/ Disperse
  <2>1. /\ pc[api] \in {"await", "evict", "disperse"}
        /\ pc'[api] \in {"idle", "stop", "disperse", "closed"}
        /\ UNCHANGED <<list, transition, running, inBridge>>
    BY <1>6, SetAt DEF BridgeLeft, EvictSpeaker, Disperse, ApiDone, Goto,
                       SwapSpeaker, StopOldThen, room, flags
  <2> QED BY <1>1, <2>1, ApiKeepsList
<1>7. CASE PromotionTimeout
  <2>1. /\ pc[api] = "await" /\ pc'[api] = "withdraw" /\ target' = target
        /\ target \in Slow
        /\ UNCHANGED <<list, transition, running, inBridge>>
    BY <1>7, SetAt DEF PromotionTimeout, Goto, room, flags
  <2>2. target \in Members /\ pc[target] \notin Arriving
    BY <2>1 DEF Pinned
  <2> QED BY <1>1, <2>1, <2>2, ApiKeepsList
<1>8. CASE Withdraw
  <2>1. /\ pc[api] = "withdraw" /\ pc'[api] = "relink" /\ target' = target
        /\ transition' = Set(transition, target, FALSE)
        /\ UNCHANGED <<list, running, inBridge>>
    BY <1>8, SetAt DEF Withdraw, Goto, room
  <2>2. /\ target \in Members /\ pc[target] \notin Arriving
        /\ target \notin list /\ target \in Slow
    BY <2>1 DEF Pinned
  <2>3. /\ \A m \in Members \ {target} : transition'[m] = transition[m]
        /\ ~ transition'[target]
    BY <2>1, <2>2, SetFlag
  <2> QED BY <1>2, <2>1, <2>2, <2>3
<1>9. CASE Relink
  <2>1. pc[api] = "relink" /\ UNCHANGED <<transition, running, inBridge>>
    BY <1>9 DEF Relink
  <2>2. target \in Members /\ pc[target] \notin Arriving /\ target \in Slow
    BY <2>1 DEF Pinned
  <2>3. CASE AddListener(target) /\ Goto(api, "recount") /\ UNCHANGED target
    <3>1. list' = list \cup {target} /\ pc'[api] = "recount"
      BY <2>3, SetAt DEF AddListener, Goto
    <3>2. pc[target] \notin {"new", "add", "count", "bridge"}
      BY <2>2 DEF Arriving, Early
    <3> QED BY <1>2, <2>1, <2>2, <2>3, <3>1, <3>2 DEF Early
  <2>4. CASE ApiDone /\ UNCHANGED <<list, role>>
    <3>1. pc'[api] = "idle"
      BY <2>4, SetAt DEF ApiDone, Goto
    <3> QED BY <1>1, <2>1, <2>4, <3>1, ApiKeepsList
  <2> QED BY <1>9, <2>3, <2>4 DEF Relink
<1>10. CASE CountRelinked
  <2>1. /\ pc[api] = "recount" /\ pc'[api] = "idle"
        /\ running' = Set(running, target, TRUE)
        /\ UNCHANGED <<list, transition, inBridge>>
    BY <1>10, SetAt DEF CountRelinked, StartListener, ApiDone, Goto, room
  <2>2. /\ target \in Members
        /\ target \in list \/ pc[target] # "loop"
    BY <2>1 DEF Pinned
  <2>3. \A m \in Members \ {target} : running'[m] = running[m]
    BY <2>1, <2>2, SetFlag
  <2> QED BY <1>2, <2>1, <2>2, <2>3
<1> QED
  BY <1>3, <1>4, <1>5, <1>6, <1>7, <1>8, <1>9, <1>10 DEF ApiStep

(* The invariant of the listener list.                                     *)
THEOREM ListSafe == Spec => []ListInv
<1>1. Init => ListInv
  BY MembershipAssumption
  DEF Init, ListInv, MemberListInv, PromotionInv, Threads, Early, Arriving,
      Listening, Promoting
<1>2. TypeOK /\ Pinned /\ ListInv /\ [Next]_vars => ListInv'
  <2> SUFFICES ASSUME TypeOK, Pinned, ListInv, [Next]_vars
               PROVE  ListInv'
    OBVIOUS
  <2> api \in Threads /\ api \notin Members
    BY MembershipAssumption DEF Threads
  <2>1. ASSUME NEW q \in Members, MemberMove(q)  PROVE ListInv'
    <3>1. /\ pc'[api] = pc[api] /\ target' = target
          /\ \A m \in Members \ {q} : pc'[m] = pc[m] /\ then'[m] = then[m]
      BY <2>1, OthersStand DEF Stands, Threads
    <3>2. \A m \in Members \ {q} :
            /\ running'[m] = running[m] /\ transition'[m] = transition[m]
            /\ inBridge'[m] = inBridge[m]
            /\ m \in list' <=> m \in list
      BY <2>1, OthersListed
    <3>3. then[q] \notin Arriving \cup Listening
      BY DEF ListInv, MemberListInv
    <3>4. ASSUME NEW m \in Members  PROVE MemberListInv(m)'
      <4>1. CASE m # q
        BY <3>1, <3>2, <4>1 DEF ListInv, MemberListInv
      <4>2. CASE m = q
        <5>1. MemberListInv(q)
          BY DEF ListInv
        <5>2. /\ then'[q] \notin Arriving \cup Listening
              /\ pc'[q] \in Arriving => ~ transition'[q] /\ ~ inBridge'[q]
          BY <2>1, <3>3, <5>1, OwnListed DEF MemberListInv
        <5>3. pc'[q] \in Early => q \notin list'
          BY <2>1, <3>3, <5>1, OwnListed DEF MemberListInv, Early
        <5>4. pc'[q] \in {"count", "bridge"} => q \in list'
          BY <2>1, <3>3, <5>1, OwnListed DEF MemberListInv
        <5>5. pc'[q] = "loop" /\ running'[q] /\ q \notin list' =>
                pc'[api] \in {"flag", "stop_loop"} /\ target' = q
          BY <2>1, <3>1, <3>3, <5>1, OwnListed DEF MemberListInv
        <5>6. q \notin Slow /\ q \in list' =>
                pc'[q] \in Listening /\ ~ transition'[q]
          BY <2>1, <3>3, <5>1, OwnListed
             DEF MemberListInv, Early, Arriving, Listening
        <5> QED BY <4>2, <5>2, <5>3, <5>4, <5>5, <5>6 DEF MemberListInv
      <4> QED BY <4>1, <4>2
    <3>5. PromotionInv'
      <4>1. CASE pc[api] \notin Promoting
        BY <3>1, <4>1 DEF PromotionInv, Promoting
      <4>2. CASE pc[api] \in Promoting /\ target # q
        BY <3>1, <3>2, <4>2 DEF ListInv, PromotionInv, Pinned
      <4>3. CASE pc[api] \in Promoting /\ target = q
        <5>1. pc[q] \notin {"new", "add", "count", "bridge"}
          BY <4>3 DEF ListInv, PromotionInv, Arriving, Early
        <5>2. /\ pc'[q] \notin Arriving
              /\ q \in list' => q \in list
              /\ q \in list /\ q \notin list' => pc'[q] = "clear_if"
              /\ pc'[q] = "loop" => pc[q] = "loop"
          BY <2>1, <3>3, <5>1, OwnListed DEF Arriving, Early
        <5> QED BY <3>1, <4>3, <5>2 DEF ListInv, PromotionInv
      <4> QED BY <4>1, <4>2, <4>3
    <3> QED BY <3>4, <3>5 DEF ListInv
  <2>2. ASSUME NEW t \in Threads, Stop(t)  PROVE ListInv'
    <3>1. UNCHANGED <<list, transition, running, inBridge, target>>
      BY <2>2 DEF Stop, StopInput, JoinInput, StopDone, room, flags
    <3>2. \A m \in Members :
            \/ pc'[m] = pc[m] /\ then'[m] = then[m]
            \/ /\ pc[m] \in {"stop", "join"}
               /\ pc'[m] \notin Arriving \cup Listening
               /\ then'[m] \notin Arriving \cup Listening
      BY <2>2, StopStands
      DEF Stands, Threads, ListInv, MemberListInv, Early, Arriving, Listening
    <3>3. \/ pc'[api] = pc[api]
          \/ /\ pc[api] \in {"stop", "join"}
             /\ pc'[api] \notin Promoting
      BY <2>2, StopStands DEF Stands, Pinned, Promoting
    <3>4. ASSUME NEW m \in Members  PROVE MemberListInv(m)'
      BY <3>1, <3>2, <3>3
      DEF ListInv, MemberListInv, Early, Arriving, Listening
    <3>5. PromotionInv'
      BY <3>1, <3>2, <3>3
      DEF ListInv, PromotionInv, Pinned, Promoting, Early, Arriving,
          Listening
    <3> QED BY <3>4, <3>5 DEF ListInv
  <2>3. CASE DrainBegin \/ DrainEnd \/ UNCHANGED vars
    BY <2>3
    DEF DrainBegin, DrainEnd, vars, control, flags, room, ListInv,
        MemberListInv, PromotionInv
  <2> QED BY <2>1, <2>2, <2>3, ApiCallsList, ApiStepsList, NextMoves
<1> QED BY <1>1, <1>2, MembershipTypes, PTL DEF Spec

(* A listener that reacts in time is unlinked on its way out or up.        *)
THEOREM PromptStayUnlisted == Spec => []PromptUnlisted
<1>1. SlotInv /\ ListInv => PromptUnlisted
  BY DEF SlotInv, Installed, InSlot, ListInv, MemberListInv, Listening,
         PromptUnlisted
<1> QED BY <1>1, SlotSafe, ListSafe, PTL

(* Nobody listens unseen.                                                  *)
THEOREM ListenersStayManaged == Spec => []ListenersManaged
<1>1. ListInv => ListenersManaged
  BY DEF ListInv, MemberListInv, ListenersManaged
<1> QED BY <1>1, ListSafe, PTL
-----------------------------------------------------------------------------
(* The room's counters.  A listener that is no ghost is listed first and   *)
(* counted later; a step moves one thread into Uncounted or out of it, and *)
(* one member onto the list or off it.                                     *)
Audience == list \ Ghosts

LedgerInv ==
  IsFiniteSet(Audience) /\ IsFiniteSet(Uncounted) /\ AudienceLedger

Listed(m, t) ==
  /\ m \notin Audience /\ Audience' = Audience \cup {m}
  /\ t \notin Uncounted /\ Uncounted' = Uncounted \cup {t}
  /\ UNCHANGED <<joined, left, unlinked>>

Counted(t) ==
  /\ UNCHANGED <<Audience, left, unlinked>>
  /\ t \in Uncounted /\ Uncounted' = Uncounted \ {t}
  /\ joined' = joined + 1

Departed(m) ==
  /\ m \in Audience /\ Audience' = Audience \ {m}
  /\ UNCHANGED <<Uncounted, joined, unlinked>>
  /\ left' = left + 1

Promoted(m) ==
  /\ m \in Audience /\ Audience' = Audience \ {m}
  /\ UNCHANGED <<Uncounted, joined, left>>
  /\ unlinked' = unlinked + 1

Uncounting == UNCHANGED <<Audience, Uncounted, joined, left, unlinked>>

LedgerMove ==
  \/ \E m \in Members, t \in Threads : Listed(m, t)
  \/ \E t \in Threads : Counted(t)
  \/ \E m \in Members : Departed(m) \/ Promoted(m)
  \/ Uncounting

(* Who is uncounted is told by where the threads are.                      *)
LEMMA UncountedKept ==
  ASSUME \A m \in Members : pc'[m] = "count" <=> pc[m] = "count",
         pc'[api] = "recount" <=> pc[api] = "recount",
         pc[api] = "recount" => target' = target
  PROVE  Uncounted' = Uncounted
BY DEF Uncounted

LEMMA MembersLedger ==
  ASSUME TypeOK, ListInv, NEW q \in Members, MemberMove(q)
  PROVE  LedgerMove
<1> q \in Threads /\ api \notin Members /\ api \in Threads
  BY MembershipAssumption DEF Threads
<1>1. /\ pc'[api] = pc[api] /\ target' = target
      /\ \A m \in Members \ {q} : pc'[m] = pc[m]
  BY OthersStand DEF Stands, Threads
<1>2. MemberListInv(q)
  BY DEF ListInv
<1>3. CASE JoinAsListener(q)
  <2>1. /\ pc[q] = "add" /\ pc'[q] = "count"
        /\ list' = list \cup {q} /\ UNCHANGED <<joined, left, unlinked>>
    BY <1>3, SetAt DEF JoinAsListener, AddListener, Goto, counts
  <2>2. q \notin list
    BY <1>2, <2>1 DEF MemberListInv, Early
  <2>3. CASE q \in Ghosts
    <3>1. Audience' = Audience /\ Uncounted' = Uncounted
      BY <1>1, <2>1, <2>3 DEF Audience, Uncounted
    <3> QED BY <2>1, <3>1 DEF LedgerMove, Uncounting
  <2>4. CASE q \notin Ghosts
    <3>1. q \notin Audience /\ Audience' = Audience \cup {q}
      BY <2>1, <2>2, <2>4 DEF Audience
    <3>2. q \notin Uncounted /\ Uncounted' = Uncounted \cup {q}
      BY <1>1, <2>1, <2>4 DEF Uncounted
    <3> QED BY <2>1, <3>1, <3>2 DEF LedgerMove, Listed
  <2> QED BY <2>3, <2>4
<1>4. CASE CountJoin(q)
  <2>1. /\ pc[q] = "count" /\ pc'[q] = "bridge"
        /\ joined' = CountUp(joined, q) /\ UNCHANGED <<list, left, unlinked>>
    BY <1>4, SetAt DEF CountJoin, StartListener, Goto, room
  <2>2. Audience' = Audience
    BY <2>1 DEF Audience
  <2>3. CASE q \in Ghosts
    <3>1. Uncounted' = Uncounted
      BY <1>1, <2>1, <2>3 DEF Uncounted
    <3> QED BY <2>1, <2>2, <2>3, <3>1 DEF LedgerMove, Uncounting, CountUp
  <2>4. CASE q \notin Ghosts
    <3>1. q \in Uncounted /\ Uncounted' = Uncounted \ {q}
      BY <1>1, <2>1, <2>4 DEF Uncounted
    <3> QED BY <2>1, <2>2, <2>4, <3>1 DEF LedgerMove, Counted, CountUp
  <2> QED BY <2>3, <2>4
<1>5. CASE ~ JoinAsListener(q) /\ ~ CountJoin(q)
  <2>1. then[q] \notin Arriving \cup Listening
    BY <1>2 DEF MemberListInv
  <2>2. pc'[q] = "count" <=> pc[q] = "count"
    BY <1>5, <2>1, OwnListed
  <2>3. Uncounted' = Uncounted
    BY <1>1, <2>2, UncountedKept
  <2>4. \/ UNCHANGED <<list, counts>>
        \/ /\ UNCHANGED <<joined, unlinked>>
           /\ list' = list \ {q}
           /\ left' = IF q \in list THEN CountUp(left, q) ELSE left
    <3>1. CASE Unlist(q)
      BY <3>1 DEF Unlist
    <3>2. CASE SpeakerStep(q)
      BY <3>2 DEF SpeakerStep, StartInput, InstallFails, Publish, EndWait,
                  CheckSlot, ClearSlot, Exit, ClearIfCurrent, Cleanup, Free,
                  room
    <3>3. CASE EnterBridge(q) \/ EndLoop(q) \/ LeaveBridge(q)
                 \/ TakePromotion(q) \/ Depart(q) \/ TimerFails(q)
      BY <3>3 DEF EnterBridge, EndLoop, LeaveBridge, TakePromotion, Depart,
                  TimerFails, room
    <3>4. CASE JoinAsSpeaker(q) \/ RejectSpeaker(q) \/ CheckRoom(q)
                 \/ RejectListener(q)
      BY <3>4 DEF JoinAsSpeaker, RejectSpeaker, CheckRoom, RejectListener,
                  room
    <3>5. CASE Hangup(q) \/ SelfLeave(q) \/ InputStep(q) \/ InputFails(q)
      BY <3>5 DEF Hangup, SelfLeave, InputStep, InputBegin, InputEnd,
                  InputFails, room
    <3> QED
      BY <1>5, <3>1, <3>2, <3>3, <3>4, <3>5 DEF MemberMove, ListenerStep
  <2>5. CASE UNCHANGED <<list, counts>>
    BY <2>3, <2>5 DEF LedgerMove, Uncounting, Audience, counts
  <2>6. CASE /\ UNCHANGED <<joined, unlinked>>
             /\ list' = list \ {q}
             /\ left' = IF q \in list THEN CountUp(left, q) ELSE left
    <3>1. CASE q \in Audience
      <4>1. Audience' = Audience \ {q} /\ left' = left + 1
        BY <2>6, <3>1 DEF Audience, CountUp
      <4> QED BY <2>3, <2>6, <3>1, <4>1 DEF LedgerMove, Departed
    <3>2. CASE q \notin Audience
      <4>1. Audience' = Audience /\ left' = left
        BY <2>6, <3>2 DEF Audience, CountUp
      <4> QED BY <2>3, <2>6, <4>1 DEF LedgerMove, Uncounting
    <3> QED BY <3>1, <3>2
  <2> QED BY <2>4, <2>5, <2>6
<1> QED BY <1>3, <1>4, <1>5

LEMMA ApiLedger ==
  ASSUME TypeOK, Pinned, ListInv, ApiCall \/ ApiStep
  PROVE  LedgerMove
<1> api \notin Members /\ api \in Threads
  BY MembershipAssumption DEF Threads
<1>1. \A m \in Members : pc'[m] = pc[m]
  BY ApiStands DEF Stands
<1>2. CASE Unlink
  <2>1. /\ target \in Members /\ pc[api] = "unlink"
        /\ pc'[api] # "recount"
    BY <1>2, SetAt DEF Unlink, ApiDone, Goto, Pinned, Promoting
  <2>2. Uncounted' = Uncounted
    BY <1>1, <2>1, UncountedKept
  <2>3. UNCHANGED <<joined, left>>
    BY <1>2 DEF Unlink
  <2>4. CASE target \in Audience
    <3>1. /\ Audience' = Audience \ {target}
          /\ unlinked' = unlinked + 1
      BY <1>2, <2>4 DEF Unlink, Audience, CountUp
    <3> QED BY <2>1, <2>2, <2>3, <2>4, <3>1 DEF LedgerMove, Promoted
  <2>5. CASE target \notin Audience
    <3>1. Audience' = Audience /\ unlinked' = unlinked
      BY <1>2, <2>5 DEF Unlink, Audience, CountUp
    <3> QED BY <2>2, <2>3, <3>1 DEF LedgerMove, Uncounting
  <2> QED BY <2>4, <2>5
<1>3. CASE Relink
  <2>1. /\ target \in Members /\ target \notin list /\ pc[api] = "relink"
        /\ UNCHANGED <<joined, left, unlinked>>
    BY <1>3 DEF Relink, Pinned, ListInv, PromotionInv, Promoting, counts
  <2>2. CASE AddListener(target) /\ Goto(api, "recount") /\ UNCHANGED target
    <3>1. /\ list' = list \cup {target} /\ pc'[api] = "recount"
          /\ target' = target
      BY <2>2, SetAt DEF AddListener, Goto
    <3>2. CASE target \in Ghosts
      <4>1. Audience' = Audience /\ Uncounted' = Uncounted
        BY <1>1, <2>1, <3>1, <3>2 DEF Audience, Uncounted
      <4> QED BY <2>1, <4>1 DEF LedgerMove, Uncounting
    <3>3. CASE target \notin Ghosts
      <4>1. target \notin Audience /\ Audience' = Audience \cup {target}
        BY <2>1, <3>1, <3>3 DEF Audience
      <4>2. api \notin Uncounted /\ Uncounted' = Uncounted \cup {api}
        BY <1>1, <2>1, <3>1, <3>3 DEF Uncounted
      <4> QED BY <2>1, <4>1, <4>2 DEF LedgerMove, Listed
    <3> QED BY <3>2, <3>3
  <2>3. CASE ApiDone /\ UNCHANGED <<list, role>>
    <3>1. pc'[api] = "idle"
      BY <2>3, SetAt DEF ApiDone, Goto
    <3>2. Uncounted' = Uncounted
      BY <1>1, <2>1, <3>1, UncountedKept
    <3> QED BY <2>1, <2>3, <3>2 DEF LedgerMove, Uncounting, Audience
  <2> QED BY <1>3, <2>2, <2>3 DEF Relink
<1>4. CASE CountRelinked
  <2>1. /\ pc[api] = "recount" /\ pc'[api] = "idle"
        /\ joined' = CountUp(joined, target)
        /\ UNCHANGED <<list, left, unlinked>>
    BY <1>4, SetAt DEF CountRelinked, StartListener, ApiDone, Goto, room
  <2>2. Audience' = Audience
    BY <2>1 DEF Audience
  <2>3. CASE target \in Ghosts
    <3>1. Uncounted' = Uncounted
      BY <1>1, <2>1, <2>3 DEF Uncounted
    <3> QED BY <2>1, <2>2, <2>3, <3>1 DEF LedgerMove, Uncounting, CountUp
  <2>4. CASE target \notin Ghosts
    <3>1. api \in Uncounted /\ Uncounted' = Uncounted \ {api}
      BY <1>1, <2>1, <2>4 DEF Uncounted
    <3> QED BY <2>1, <2>2, <2>4, <3>1 DEF LedgerMove, Counted, CountUp
  <2> QED BY <2>3, <2>4
<1>5. ASSUME UNCHANGED <<list, counts>>,
             pc[api] # "recount", pc'[api] # "recount"
      PROVE  LedgerMove
  <2>1. Uncounted' = Uncounted
    BY <1>1, <1>5, UncountedKept
  <2> QED BY <1>5, <2>1 DEF LedgerMove, Uncounting, Audience, counts
<1>6. CASE ApiCall
  <2>1. UNCHANGED <<list, counts>>
    BY <1>6 DEF ApiCall, Promote, Kick, ClearSpeaker, KickAll, Destroy, room
  <2>2. pc[api] = "idle" /\ pc'[api] \in {"unlink", "idle", "stop", "evict"}
    <3>1. ASSUME NEW m \in Members, Promote(m)
          PROVE  pc[api] = "idle" /\ pc'[api] = "unlink"
      BY <3>1, SetAt DEF Promote, Goto
    <3>2. ASSUME NEW m \in Members, Kick(m)
          PROVE  pc[api] = "idle" /\ pc'[api] = "idle"
      BY <3>2 DEF Kick, control
    <3>3. CASE ClearSpeaker \/ KickAll \/ Destroy
      BY <3>3, SetAt DEF ClearSpeaker, KickAll, Destroy, SwapSpeaker,
                         StopOldThen, Goto, control
    <3> QED BY <1>6, <3>1, <3>2, <3>3 DEF ApiCall
  <2> QED BY <1>5, <2>1, <2>2
<1>7. CASE RaiseTransition \/ StopLoop \/ BridgeLeft \/ PromotionTimeout
             \/ Withdraw
  <2>1. UNCHANGED <<list, counts>>
    BY <1>7 DEF RaiseTransition, StopLoop, BridgeLeft, PromotionTimeout,
                Withdraw, room, counts
  <2>2. pc[api] # "recount" /\ pc'[api] # "recount"
    <3>1. CASE RaiseTransition
      BY <3>1, SetAt DEF RaiseTransition, Goto
    <3>2. CASE StopLoop
      BY <3>2, SetAt DEF StopLoop, Goto
    <3>3. CASE BridgeLeft
      BY <3>3, SetAt DEF BridgeLeft, ApiDone, Goto
    <3>4. CASE PromotionTimeout
      BY <3>4, SetAt DEF PromotionTimeout, Goto
    <3>5. CASE Withdraw
      BY <3>5, SetAt DEF Withdraw, Goto
    <3> QED BY <1>7, <3>1, <3>2, <3>3, <3>4, <3>5
  <2> QED BY <1>5, <2>1, <2>2
<1>8. CASE EvictSpeaker \/ Disperse
  <2>1. /\ UNCHANGED <<list, counts>>
        /\ pc[api] # "recount" /\ pc'[api] # "recount"
    BY <1>8, SetAt DEF EvictSpeaker, Disperse, SwapSpeaker, StopOldThen,
                       Goto, room
  <2> QED BY <1>5, <2>1
<1> QED
  BY <1>2, <1>3, <1>4, <1>6, <1>7, <1>8 DEF ApiStep

LEMMA LedgerMoves ==
  ASSUME TypeOK, Pinned, ListInv, [Next]_vars
  PROVE  LedgerMove
<1> api \in Threads /\ api \notin Members
  BY MembershipAssumption DEF Threads
<1>1. ASSUME NEW t \in Threads, Stop(t)  PROVE LedgerMove
  <2>1. UNCHANGED <<list, counts, target>>
    BY <1>1 DEF Stop, StopInput, JoinInput, StopDone, room
  <2>2. \A m \in Members : pc'[m] = "count" <=> pc[m] = "count"
    BY <1>1, StopStands
    DEF Stands, Threads, ListInv, MemberListInv, Arriving
  <2>3. pc'[api] = "recount" <=> pc[api] = "recount"
    BY <1>1, StopStands DEF Stands, Pinned, Promoting
  <2>4. Uncounted' = Uncounted
    BY <2>1, <2>2, <2>3, UncountedKept
  <2> QED BY <2>1, <2>4 DEF LedgerMove, Uncounting, Audience, counts
<1>2. CASE DrainBegin \/ DrainEnd \/ UNCHANGED vars
  BY <1>2 DEF DrainBegin, DrainEnd, vars, room, control, counts, LedgerMove,
              Uncounting, Audience, Uncounted
<1> QED BY <1>1, <1>2, MembersLedger, ApiLedger, NextMoves

(* The room's counters explain its list, but for the ghosts on it.         *)
THEOREM AudienceLedgered == Spec => []AudienceLedger
<1>1. Init => LedgerInv
  <2> SUFFICES ASSUME Init  PROVE LedgerInv
    OBVIOUS
  <2>1. Audience = {} /\ Uncounted = {}
    BY MembershipAssumption DEF Init, Audience, Uncounted, Threads
  <2>2. joined = 0 /\ left = 0 /\ unlinked = 0
    BY DEF Init
  <2> QED
    BY <2>1, <2>2, FS_EmptySet DEF LedgerInv, AudienceLedger, Audience
<1>2. TypeOK /\ Pinned /\ ListInv /\ LedgerInv /\ [Next]_vars => LedgerInv'
  <2> SUFFICES ASSUME TypeOK, Pinned, ListInv, LedgerInv, [Next]_vars
               PROVE  LedgerInv'
    OBVIOUS
  <2> DEFINE A == Cardinality(Audience)
             U == Cardinality(Uncounted)
  <2>1. /\ IsFiniteSet(Audience) /\ A \in Nat
        /\ IsFiniteSet(Uncounted) /\ U \in Nat
        /\ joined \in Nat /\ left \in Nat /\ unlinked \in Nat
        /\ joined + U = left + A + unlinked
    BY FS_CardinalityType DEF LedgerInv, AudienceLedger, TypeOK, Audience
  <2>2. SUFFICES /\ IsFiniteSet(Audience') /\ IsFiniteSet(Uncounted')
                 /\ joined' + Cardinality(Uncounted')
                      = left' + Cardinality(Audience') + unlinked'
    BY <2>2 DEF LedgerInv, AudienceLedger, Audience
  <2>3. ASSUME NEW m \in Members, NEW t \in Threads, Listed(m, t)
        PROVE  /\ IsFiniteSet(Audience') /\ IsFiniteSet(Uncounted')
               /\ joined' + Cardinality(Uncounted')
                    = left' + Cardinality(Audience') + unlinked'
    <3>1. /\ IsFiniteSet(Audience') /\ Cardinality(Audience') = A + 1
          /\ IsFiniteSet(Uncounted') /\ Cardinality(Uncounted') = U + 1
      BY <2>1, <2>3, FS_AddElement DEF Listed
    <3> QED BY <2>1, <2>3, <3>1 DEF Listed
  <2>4. ASSUME NEW t \in Threads, Counted(t)
        PROVE  /\ IsFiniteSet(Audience') /\ IsFiniteSet(Uncounted')
               /\ joined' + Cardinality(Uncounted')
                    = left' + Cardinality(Audience') + unlinked'
    <3>1. /\ IsFiniteSet(Uncounted') /\ Cardinality(Uncounted') = U - 1
      BY <2>1, <2>4, FS_RemoveElement DEF Counted
    <3> QED BY <2>1, <2>4, <3>1 DEF Counted
  <2>5. ASSUME NEW m \in Members, Departed(m) \/ Promoted(m)
        PROVE  /\ IsFiniteSet(Audience') /\ IsFiniteSet(Uncounted')
               /\ joined' + Cardinality(Uncounted')
                    = left' + Cardinality(Audience') + unlinked'
    <3>1. /\ IsFiniteSet(Audience') /\ Cardinality(Audience') = A - 1
      BY <2>1, <2>5, FS_RemoveElement DEF Departed, Promoted
    <3> QED BY <2>1, <2>5, <3>1 DEF Departed, Promoted
  <2>6. CASE Uncounting
    BY <2>1, <2>6 DEF Uncounting
  <2> QED BY <2>3, <2>4, <2>5, <2>6, LedgerMoves DEF LedgerMove
<1>3. LedgerInv => AudienceLedger
  BY DEF LedgerInv
<1> QED BY <1>1, <1>2, <1>3, MembershipTypes, ListSafe, PTL DEF Spec
=============================================================================
