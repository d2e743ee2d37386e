------------------------- MODULE RoomLifetimeProofs -------------------------
(***************************************************************************)
(* Proofs about RoomLifetime, for any number of rooms, names and threads:  *)
(* up to the first use of freed memory, what the hash and the producers    *)
(* refer to is never freed memory, live_refs counts the pins, and a pin    *)
(* keeps its room.                                                         *)
(***************************************************************************)
EXTENDS RoomLifetime, FiniteSetTheorems, TLAPS

Pcs ==
  {"idle", "ref", "insert", "store", "loaded", "await", "stop", "unloaded"}
    \cup Holding
Roomless == {"idle", "loaded", "await", "stop", "unloaded"}

(* Updates of the threads' and the rooms' functions.                       *)
LEMMA Updates ==
  ASSUME TypeOK, NEW t \in Threads
  PROVE  /\ \A p : Goto(t, p) =>
              /\ pc'[t] = p
              /\ \A u \in Threads \ {t} : pc'[u] = pc[u]
              /\ p \in Pcs => pc' \in [Threads -> Pcs]
         /\ \A r : Keep(t, r) =>
              /\ room'[t] = r
              /\ \A u \in Threads \ {t} : room'[u] = room[u]
              /\ r \in Rooms \cup {NoRoom} =>
                   room' \in [Threads -> Rooms \cup {NoRoom}]
BY DEF TypeOK, Goto, Keep, Pcs

(* A thread in the middle of something has a room.                         *)
LEMMA HasRoom ==
  ASSUME TypeOK, NEW t \in Threads, pc[t] \notin Roomless
  PROVE  room[t] \in Rooms
BY DEF TypeOK, Roomless

LEMMA TypesKept ==
  ASSUME TypeOK, [Next]_vars
  PROVE  TypeOK'
<1> USE DEF globals, flags, control, history
<1>1. CASE UNCHANGED vars
  BY <1>1 DEF vars, TypeOK
<1>2. ASSUME NEW t \in Threads, NEW n \in Names, Find(t, n)
      PROVE  TypeOK'
  <2>1. hash[n] \in Rooms
    BY <1>2 DEF Find, Usable, TypeOK
  <2> QED BY <1>2, <2>1, Updates, LifetimeAssumption
       DEF Find, TypeOK, Pcs, Holding
<1>3. ASSUME NEW t \in Threads, NEW r \in Rooms, Allocate(t, r)
      PROVE  TypeOK'
  BY <1>3, Updates, LifetimeAssumption DEF Allocate, TypeOK, Pcs, Holding
<1>4. ASSUME NEW t \in Threads, Ref(t)  PROVE TypeOK'
  BY <1>4, Updates, HasRoom DEF Ref, TypeOK, Pcs, Holding, Roomless
<1>5. ASSUME NEW t \in Threads, Release(t)  PROVE TypeOK'
  BY <1>5, Updates, HasRoom, LifetimeAssumption
  DEF Release, Return, TypeOK, Pcs, Holding, Roomless
<1>6. ASSUME NEW t \in Threads, Insert(t)  PROVE TypeOK'
  <2>1. room[t] \in Rooms
    BY <1>6, HasRoom DEF Insert, Roomless
  <2>2. /\ hash' = [hash EXCEPT ![NameOf[room[t]]] = room[t]]
        /\ active' = active + 1
        /\ producer' = [producer EXCEPT ![room[t]] = "running"]
        /\ Goto(t, "store")
        /\ UNCHANGED <<sweeping, memory, destruct, destroyed, refs, room,
                       history>>
    BY <1>6 DEF Insert
  <2>3. hash' \in [Names -> Rooms \cup {NoRoom}]
    BY <2>1, <2>2 DEF TypeOK
  <2>4. producer' \in [Rooms -> {"none", "running", "gone"}]
    BY <2>1, <2>2 DEF TypeOK
  <2>5. /\ pc' \in [Threads -> Pcs] /\ pc'[t] = "store"
        /\ \A u \in Threads \ {t} : pc'[u] = pc[u]
    BY <2>2, Updates DEF Pcs
  <2> QED BY <2>1, <2>2, <2>3, <2>4, <2>5, LifetimeAssumption
       DEF TypeOK, Pcs
<1>7. ASSUME NEW t \in Threads, InsertFails(t)  PROVE TypeOK'
  BY <1>7, Updates, HasRoom, LifetimeAssumption
  DEF InsertFails, Return, TypeOK, Pcs, Holding, Roomless
<1>8. ASSUME NEW t \in Threads, StoreRef(t)  PROVE TypeOK'
  BY <1>8, Updates, HasRoom DEF StoreRef, TypeOK, Pcs, Holding, Roomless
<1>9. ASSUME NEW t \in Threads, Destroy(t)  PROVE TypeOK'
  BY <1>9, Updates, HasRoom
  DEF Destroy, Note, TypeOK, Pcs, Holding, Destroying, Roomless
<1>10. ASSUME NEW t \in Threads, DestroyStep(t)  PROVE TypeOK'
  <2> USE Updates, HasRoom, LifetimeAssumption
      DEF TypeOK, Pcs, Holding, Destroying, Roomless
  <2>1. CASE MarkDestruct(t)
    BY <2>1 DEF MarkDestruct
  <2>2. CASE MarkDestroyed(t)
    BY <2>2 DEF MarkDestroyed
  <2>3. CASE Drained(t)
    BY <2>3 DEF Drained
  <2>4. CASE DrainTimeout(t)
    BY <2>4 DEF DrainTimeout
  <2>5. CASE JoinProducer(t)
    BY <2>5 DEF JoinProducer
  <2>6. CASE Unhash(t)
    BY <2>6 DEF Unhash
  <2>7. CASE Free(t)
    BY <2>7 DEF Free, Return
  <2> QED BY <1>10, <2>1, <2>2, <2>3, <2>4, <2>5, <2>6, <2>7
       DEF DestroyStep
<1>11. ASSUME NEW r \in Rooms, ProducerExit(r) \/ ProducerFails(r)
       PROVE  TypeOK'
  BY <1>11 DEF ProducerExit, ProducerFails, TypeOK
<1>12. CASE Sweep
  BY <1>12 DEF Sweep, SweepBegin, SweepEnd, SweeperExit, TypeOK
<1> closer \in Threads
  BY DEF Threads
<1>13. CASE UnloadStep
  BY <1>13, Updates
  DEF UnloadStep, Unload, AwaitHousekeeping, JoinEmitter, TypeOK, Pcs
<1>14. CASE CloseNext
  <2>1. PICK n \in Names :
          /\ hash[n] # NoRoom
          /\ refs' = [refs EXCEPT ![hash[n]] = @ + 1]
          /\ Keep(closer, hash[n])
          /\ Note(closer, hash[n])
    BY <1>14 DEF CloseNext
  <2>2. hash[n] \in Rooms
    BY <2>1 DEF TypeOK
  <2> QED BY <1>14, <2>1, <2>2, Updates
       DEF CloseNext, Note, TypeOK, Pcs, Holding, Destroying
<1>15. CASE CloseDone
  BY <1>15, Updates DEF CloseDone, TypeOK, Pcs
<1>16. ASSUME NEW t \in Threads, UseFreed(t)  PROVE TypeOK'
  BY <1>16 DEF UseFreed, TypeOK
<1> QED
  BY <1>1, <1>2, <1>3, <1>4, <1>5, <1>6, <1>7, <1>8, <1>9, <1>10, <1>11,
     <1>12, <1>13, <1>14, <1>15, <1>16 DEF Next

(* Every variable keeps its type, and a thread its room exactly as long as *)
(* it works on one.                                                        *)
THEOREM LifetimeTypes == Spec => []TypeOK
<1>1. ASSUME Init  PROVE TypeOK
  <2>1. hash \in [Names -> Rooms \cup {NoRoom}] /\ active \in Int
    BY <1>1 DEF Init
  <2>6. sweeping \in [Sweepers -> {"asleep", "sweep", "gone"}]
    BY <1>1 DEF Init
  <2>2. /\ memory \in [Rooms -> {"unused", "live", "freed"}]
        /\ producer \in [Rooms -> {"none", "running", "gone"}]
        /\ refs \in [Rooms -> Int]
    BY <1>1 DEF Init
  <2>3. destruct \in [Rooms -> BOOLEAN] /\ destroyed \in [Rooms -> BOOLEAN]
    BY <1>1 DEF Init
  <2>4. /\ pc \in [Threads -> Pcs] /\ room \in [Threads -> Rooms \cup {NoRoom}]
        /\ \A t \in Threads :
             room[t] = NoRoom <=> pc[t] \in Roomless
    BY <1>1 DEF Init, Pcs, Roomless
  <2>5. /\ early \subseteq Rooms /\ late \subseteq Threads
        /\ twice \subseteq Rooms /\ wild \in BOOLEAN
    BY <1>1 DEF Init
  <2> QED BY <2>1, <2>2, <2>3, <2>4, <2>5, <2>6 DEF TypeOK, Pcs, Roomless
<1>2. TypeOK /\ [Next]_vars => TypeOK'
  BY TypesKept
<1> QED BY <1>1, <1>2, PTL DEF Spec
-----------------------------------------------------------------------------
(* What the hash holds is there, under its own name.                       *)
HashInv ==
  \A n \in Names :
    hash[n] # NoRoom => memory[hash[n]] = "live" /\ NameOf[hash[n]] = n

(* A room that is not allocated is nobody's.                               *)
UnusedInv ==
  \A r \in Rooms :
    memory[r] = "unused" =>
      producer[r] = "none" /\ \A t \in Threads : room[t] # r

(* A room on its way into the hash is its creator's alone.                 *)
FreshInv ==
  \A u \in Threads :
    pc[u] = "insert" =>
      /\ memory[room[u]] = "live" /\ producer[room[u]] = "none"
      /\ \A t \in Threads \ {u} : room[t] # room[u]
      /\ \A n \in Names : hash[n] # room[u]

(* A room about to be freed is out of the hash and its producer gone.      *)
TeardownInv ==
  \A t \in Threads :
    /\ pc[t] = "free" => hash[NameOf[room[t]]] # room[t]
    /\ pc[t] \in {"unhash", "free"} => producer[room[t]] # "running"

(* A running producer's room is there.                                     *)
ProducerLives ==
  \A r \in Rooms : producer[r] = "running" => memory[r] = "live"

LifeInv ==
  HashInv /\ UnusedInv /\ FreshInv /\ TeardownInv /\ ProducerLives

(* A step that touches neither the hash nor the rooms and moves one thread *)
(* on, with the room it has or with none, keeps the invariant.             *)
LEMMA MoveOn ==
  ASSUME TypeOK, LifeInv, NEW t \in Threads,
         UNCHANGED <<hash, memory, producer>>,
         NEW p, pc'[t] = p, p \notin {"insert", "unhash", "free"},
         \A u \in Threads \ {t} : pc'[u] = pc[u] /\ room'[u] = room[u],
         \/ room'[t] \in {room[t], NoRoom}
         \/ \E n \in Names : room'[t] = hash[n]
  PROVE  LifeInv'
<1>1. HashInv' /\ ProducerLives'
  BY DEF LifeInv, HashInv, ProducerLives
<1>2. UnusedInv'
  <2> SUFFICES ASSUME NEW r \in Rooms, memory[r] = "unused",
                      NEW u \in Threads
               PROVE  producer[r] = "none" /\ room'[u] # r
    BY DEF UnusedInv
  <2>1. producer[r] = "none" /\ room[u] # r /\ room[t] # r
    BY DEF LifeInv, UnusedInv
  <2>2. \A n \in Names : hash[n] # r
    BY LifetimeAssumption DEF LifeInv, HashInv
  <2> QED BY <2>1, <2>2, LifetimeAssumption
<1>3. FreshInv'
  <2> SUFFICES ASSUME NEW u \in Threads, pc'[u] = "insert"
               PROVE  /\ memory[room'[u]] = "live"
                      /\ producer[room'[u]] = "none"
                      /\ \A s \in Threads \ {u} : room'[s] # room'[u]
                      /\ \A n \in Names : hash[n] # room'[u]
    BY DEF FreshInv
  <2>1. u # t /\ pc[u] = "insert" /\ room'[u] = room[u]
    OBVIOUS
  <2>2. room[u] \in Rooms
    BY <2>1, HasRoom DEF Roomless
  <2> QED BY <2>1, <2>2, LifetimeAssumption DEF LifeInv, FreshInv
<1>4. TeardownInv'
  BY DEF LifeInv, TeardownInv
<1> QED BY <1>1, <1>2, <1>3, <1>4 DEF LifeInv

LEMMA LifeKept ==
  ASSUME TypeOK, LifeInv, [Next]_vars
  PROVE  LifeInv'
<1> USE DEF globals, flags, control, history
<1>1. CASE UNCHANGED vars
  BY <1>1 DEF vars, LifeInv, HashInv, UnusedInv, FreshInv, TeardownInv,
              ProducerLives
<1>2. ASSUME NEW t \in Threads, NEW n \in Names, Find(t, n)
      PROVE  LifeInv'
  BY <1>2, MoveOn, Updates DEF Find
<1>3. ASSUME NEW t \in Threads, NEW q \in Rooms, Allocate(t, q)
      PROVE  LifeInv'
  <2>1. /\ memory[q] = "unused" /\ memory' = [memory EXCEPT ![q] = "live"]
        /\ pc'[t] = "insert" /\ room'[t] = q
        /\ \A u \in Threads \ {t} : pc'[u] = pc[u] /\ room'[u] = room[u]
        /\ UNCHANGED <<hash, producer>>
    BY <1>3, Updates DEF Allocate
  <2>2. /\ memory'[q] = "live"
        /\ \A r \in Rooms \ {q} : memory'[r] = memory[r]
    BY <2>1 DEF TypeOK
  <2>3. /\ producer[q] = "none" /\ \A u \in Threads : room[u] # q
        /\ \A n \in Names : hash[n] # q
    BY <2>1, LifetimeAssumption DEF LifeInv, UnusedInv, HashInv
  <2>4. HashInv' /\ ProducerLives'
    BY <2>1, <2>2, <2>3 DEF LifeInv, HashInv, ProducerLives, TypeOK
  <2>5. UnusedInv'
    BY <2>1, <2>2, <2>3 DEF LifeInv, UnusedInv
  <2>6. FreshInv'
    <3> SUFFICES ASSUME NEW u \in Threads, pc'[u] = "insert"
                 PROVE  /\ memory'[room'[u]] = "live"
                        /\ producer[room'[u]] = "none"
                        /\ \A s \in Threads \ {u} : room'[s] # room'[u]
                        /\ \A n \in Names : hash[n] # room'[u]
      BY <2>1 DEF FreshInv
    <3>1. CASE u = t
      BY <2>1, <2>2, <2>3, <3>1
    <3>2. CASE u # t
      <4>1. pc[u] = "insert" /\ room'[u] = room[u] /\ room[u] \in Rooms
        BY <2>1, <3>2, HasRoom DEF Roomless
      <4> QED BY <2>1, <2>2, <2>3, <3>2, <4>1 DEF LifeInv, FreshInv
    <3> QED BY <3>1, <3>2
  <2>7. TeardownInv'
    BY <2>1, <2>3 DEF LifeInv, TeardownInv
  <2> QED BY <2>4, <2>5, <2>6, <2>7 DEF LifeInv
<1>4. ASSUME NEW t \in Threads, Ref(t)  PROVE LifeInv'
  BY <1>4, MoveOn, Updates DEF Ref
<1>5. ASSUME NEW t \in Threads, Release(t)  PROVE LifeInv'
  BY <1>5, MoveOn, Updates DEF Release, Return
<1>6. ASSUME NEW t \in Threads, Insert(t)  PROVE LifeInv'
  <2> DEFINE q == room[t]
  <2>1. /\ pc[t] = "insert" /\ q \in Rooms /\ NameOf[q] \in Names
        /\ hash' = [hash EXCEPT ![NameOf[q]] = q]
        /\ producer' = [producer EXCEPT ![q] = "running"]
        /\ pc'[t] = "store"
        /\ \A u \in Threads \ {t} : pc'[u] = pc[u]
        /\ UNCHANGED <<memory, room>>
    BY <1>6, HasRoom, Updates, LifetimeAssumption DEF Insert, Roomless
  <2>2. /\ memory[q] = "live" /\ \A u \in Threads \ {t} : room[u] # q
        /\ \A n \in Names : hash[n] # q
    BY <2>1 DEF LifeInv, FreshInv
  <2>3. /\ \A n \in Names : hash'[n] = IF n = NameOf[q] THEN q ELSE hash[n]
        /\ \A r \in Rooms \ {q} : producer'[r] = producer[r]
    BY <2>1 DEF TypeOK
  <2> HIDE DEF q
  <2>4. HashInv' /\ ProducerLives'
    BY <2>1, <2>2, <2>3 DEF LifeInv, HashInv, ProducerLives
  <2>5. UnusedInv'
    BY <2>1, <2>2, <2>3 DEF LifeInv, UnusedInv
  <2>6. FreshInv'
    <3> SUFFICES ASSUME NEW u \in Threads, pc'[u] = "insert"
                 PROVE  /\ memory[room[u]] = "live"
                        /\ producer'[room[u]] = "none"
                        /\ \A s \in Threads \ {u} : room[s] # room[u]
                        /\ \A n \in Names : hash'[n] # room[u]
      BY <2>1 DEF FreshInv
    <3>1. u # t /\ pc[u] = "insert" /\ room[u] \in Rooms
      BY <2>1, HasRoom DEF Roomless
    <3> QED BY <2>1, <2>2, <2>3, <3>1 DEF LifeInv, FreshInv
  <2>7. TeardownInv'
    <3> SUFFICES ASSUME NEW u \in Threads, pc'[u] \in {"unhash", "free"}
                 PROVE  /\ pc'[u] = "free" =>
                             hash'[NameOf[room[u]]] # room[u]
                        /\ producer'[room[u]] # "running"
      BY <2>1 DEF TeardownInv
    <3>1. u # t /\ pc[u] = pc'[u] /\ room[u] \in Rooms
      BY <2>1, HasRoom DEF Roomless
    <3> QED
      BY <2>1, <2>2, <2>3, <3>1, LifetimeAssumption DEF LifeInv, TeardownInv
  <2> QED BY <2>4, <2>5, <2>6, <2>7 DEF LifeInv
<1>7. ASSUME NEW t \in Threads, InsertFails(t) \/ Free(t)  PROVE LifeInv'
  <2> DEFINE q == room[t]
  <2>1. /\ pc[t] \in {"insert", "free"} /\ q \in Rooms /\ NameOf[q] \in Names
        /\ memory' = [memory EXCEPT ![q] = "freed"]
        /\ pc'[t] = "idle" /\ room'[t] = NoRoom
        /\ \A u \in Threads \ {t} : pc'[u] = pc[u] /\ room'[u] = room[u]
        /\ UNCHANGED <<hash, producer>>
    BY <1>7, HasRoom, Updates, LifetimeAssumption
    DEF InsertFails, Free, Return, Roomless
  <2>2. /\ memory'[q] = "freed"
        /\ \A r \in Rooms \ {q} : memory'[r] = memory[r]
    BY <2>1 DEF TypeOK
  <2>3. \A n \in Names : hash[n] # q
    BY <2>1, LifetimeAssumption
    DEF LifeInv, FreshInv, TeardownInv, HashInv
  <2>4. producer[q] # "running"
    BY <2>1 DEF LifeInv, FreshInv, TeardownInv
  <2>5. \A u \in Threads \ {t} : pc[u] = "insert" => room[u] # q
    BY <2>1 DEF LifeInv, FreshInv
  <2> HIDE DEF q
  <2>6. HashInv' /\ ProducerLives'
    BY <2>1, <2>2, <2>3, <2>4 DEF LifeInv, HashInv, ProducerLives, TypeOK
  <2>7. UnusedInv'
    BY <2>1, <2>2, LifetimeAssumption DEF LifeInv, UnusedInv
  <2>8. FreshInv'
    <3> SUFFICES ASSUME NEW u \in Threads, pc'[u] = "insert"
                 PROVE  /\ memory'[room'[u]] = "live"
                        /\ producer[room'[u]] = "none"
                        /\ \A s \in Threads \ {u} : room'[s] # room'[u]
                        /\ \A n \in Names : hash[n] # room'[u]
      BY <2>1 DEF FreshInv
    <3>1. /\ u # t /\ pc[u] = "insert" /\ room[u] \in Rooms
          /\ room'[u] = room[u]
      BY <2>1, HasRoom DEF Roomless
    <3> QED BY <2>1, <2>2, <2>5, <3>1, LifetimeAssumption
         DEF LifeInv, FreshInv
  <2>9. TeardownInv'
    BY <2>1 DEF LifeInv, TeardownInv
  <2> QED BY <2>6, <2>7, <2>8, <2>9 DEF LifeInv
<1>8. ASSUME NEW t \in Threads, StoreRef(t)  PROVE LifeInv'
  BY <1>8, MoveOn, Updates DEF StoreRef
<1>9. ASSUME NEW t \in Threads, Destroy(t)  PROVE LifeInv'
  BY <1>9, MoveOn, Updates DEF Destroy
<1>10. ASSUME NEW t \in Threads, DestroyStep(t)  PROVE LifeInv'
  <2>1. CASE MarkDestruct(t)
    BY <2>1, MoveOn, Updates DEF MarkDestruct
  <2>2. CASE MarkDestroyed(t)
    BY <2>2, MoveOn, Updates DEF MarkDestroyed
  <2>3. CASE Drained(t)
    BY <2>3, MoveOn, Updates DEF Drained
  <2>4. CASE DrainTimeout(t)
    BY <2>4, MoveOn, Updates DEF DrainTimeout
  <2>5. CASE JoinProducer(t)
    <3>1. /\ producer[room[t]] = "gone" /\ pc'[t] = "unhash"
          /\ \A u \in Threads \ {t} : pc'[u] = pc[u]
          /\ UNCHANGED <<hash, memory, producer, room>>
      BY <2>5, Updates DEF JoinProducer
    <3> QED BY <3>1 DEF LifeInv, HashInv, UnusedInv, FreshInv, TeardownInv,
                        ProducerLives
  <2>6. CASE Unhash(t)
    <3>1. /\ pc[t] = "unhash" /\ room[t] \in Rooms
          /\ NameOf[room[t]] \in Names
          /\ hash' = [hash EXCEPT ![NameOf[room[t]]] = NoRoom]
          /\ pc'[t] = "free" /\ \A u \in Threads \ {t} : pc'[u] = pc[u]
          /\ UNCHANGED <<memory, producer, room>>
      BY <2>6, HasRoom, Updates, LifetimeAssumption DEF Unhash, Roomless
    <3>2. \A n \in Names :
            hash'[n] = IF n = NameOf[room[t]] THEN NoRoom ELSE hash[n]
      BY <3>1 DEF TypeOK
    <3>3. \A n \in Names : hash'[n] \in {hash[n], NoRoom}
      BY <3>2
    <3>4. HashInv' /\ ProducerLives' /\ UnusedInv'
      BY <3>1, <3>3 DEF LifeInv, HashInv, ProducerLives, UnusedInv
    <3>5. FreshInv'
      <4> SUFFICES ASSUME NEW u \in Threads, pc'[u] = "insert"
                   PROVE  /\ memory[room[u]] = "live"
                          /\ producer[room[u]] = "none"
                          /\ \A s \in Threads \ {u} : room[s] # room[u]
                          /\ \A n \in Names : hash'[n] # room[u]
        BY <3>1 DEF FreshInv
      <4>1. u # t /\ pc[u] = "insert" /\ room[u] \in Rooms
        BY <3>1, HasRoom DEF Roomless
      <4> QED BY <3>3, <4>1, LifetimeAssumption DEF LifeInv, FreshInv
    <3>6. TeardownInv'
      <4> SUFFICES ASSUME NEW u \in Threads, pc'[u] \in {"unhash", "free"}
                   PROVE  /\ pc'[u] = "free" =>
                               hash'[NameOf[room[u]]] # room[u]
                          /\ producer[room[u]] # "running"
        BY <3>1 DEF TeardownInv
      <4>1. CASE u = t
        BY <3>1, <3>2, <4>1, LifetimeAssumption DEF LifeInv, TeardownInv
      <4>2. CASE u # t
        <5>1. pc[u] = pc'[u] /\ room[u] \in Rooms /\ NameOf[room[u]] \in Names
          BY <3>1, <4>2, HasRoom, LifetimeAssumption DEF Roomless
        <5> QED BY <3>3, <5>1, LifetimeAssumption DEF LifeInv, TeardownInv
      <4> QED BY <4>1, <4>2
    <3> QED BY <3>4, <3>5, <3>6 DEF LifeInv
  <2> QED BY <1>7, <1>10, <2>1, <2>2, <2>3, <2>4, <2>5, <2>6
       DEF DestroyStep
<1>11. ASSUME NEW q \in Rooms, ProducerExit(q) \/ ProducerFails(q)
       PROVE  LifeInv'
  <2>1. /\ producer[q] = "running" /\ producer'[q] = "gone"
        /\ \A r \in Rooms \ {q} : producer'[r] = producer[r]
        /\ UNCHANGED <<hash, memory, pc, room>>
    BY <1>11 DEF ProducerExit, ProducerFails, TypeOK
  <2>2. HashInv' /\ UnusedInv' /\ ProducerLives'
    BY <2>1 DEF LifeInv, HashInv, UnusedInv, ProducerLives
  <2>3. FreshInv'
    <3>1. \A u \in Threads : pc[u] = "insert" => room[u] \in Rooms
      BY HasRoom DEF Roomless
    <3> QED BY <2>1, <3>1 DEF LifeInv, FreshInv
  <2>4. TeardownInv'
    <3>1. \A u \in Threads :
            pc[u] \in {"unhash", "free"} => room[u] \in Rooms
      BY HasRoom DEF Roomless
    <3> QED BY <2>1, <3>1 DEF LifeInv, TeardownInv
  <2> QED BY <2>2, <2>3, <2>4 DEF LifeInv
<1>12. CASE Sweep
  BY <1>12
  DEF Sweep, SweepBegin, SweepEnd, SweeperExit, LifeInv, HashInv, UnusedInv,
      FreshInv,
               TeardownInv, ProducerLives
<1> closer \in Threads
  BY DEF Threads
<1>13. CASE UnloadStep
  BY <1>13, MoveOn, Updates
  DEF UnloadStep, Unload, AwaitHousekeeping, JoinEmitter
<1>14. CASE CloseNext
  <2>1. PICK n \in Names : Keep(closer, hash[n])
    BY <1>14 DEF CloseNext
  <2> QED BY <1>14, <2>1, MoveOn, Updates DEF CloseNext
<1>15. CASE CloseDone
  BY <1>15, MoveOn, Updates DEF CloseDone
<1>16. ASSUME NEW t \in Threads, UseFreed(t)  PROVE LifeInv'
  BY <1>16
  DEF UseFreed, LifeInv, HashInv, UnusedInv, FreshInv, TeardownInv,
      ProducerLives
<1> QED
  BY <1>1, <1>2, <1>3, <1>4, <1>5, <1>6, <1>7, <1>8, <1>9, <1>10, <1>11,
     <1>12, <1>13, <1>14, <1>15, <1>16 DEF Next

(* The invariant behind the two theorems that follow: what is in the hash, *)
(* unused, on its way in or on its way out.                                *)
THEOREM LifeInvariant == Spec => []LifeInv
<1>1. Init => LifeInv
  BY LifetimeAssumption
  DEF Init, LifeInv, HashInv, UnusedInv, FreshInv, TeardownInv,
      ProducerLives
<1>2. TypeOK /\ LifeInv /\ [Next]_vars => LifeInv'
  BY LifeKept
<1> QED BY <1>1, <1>2, LifetimeTypes, PTL DEF Spec

(* A lookup or a sweep under hash_rwlock never meets freed memory, as long *)
(* as no thread has used it: several may destroy one room, but nothing is  *)
(* claimed once the second reads b->name or frees b->pool after the first. *)
THEOREM HashNeverDangles == Spec => []HashedAlive
<1>1. LifeInv => HashedAlive
  BY DEF LifeInv, HashInv, HashedAlive
<1> QED BY <1>1, LifeInvariant, PTL

(* A producer thread never outlives its room, up to the first use of freed *)
(* memory.                                                                 *)
THEOREM ProducersInside == Spec => []ProducerInside
<1>1. LifeInv => ProducerInside
  BY DEF LifeInv, ProducerLives, ProducerInside
<1> QED BY <1>1, LifeInvariant, PTL
-----------------------------------------------------------------------------
(* live_refs counts the pins.                                              *)

LEMMA HoldersFinite ==
  ASSUME NEW r
  PROVE  IsFiniteSet(Holders(r)) /\ Cardinality(Holders(r)) \in Nat
<1>1. IsFiniteSet(Threads)
  BY LifetimeAssumption, FS_AddElement DEF Threads
<1>2. Holders(r) \subseteq Threads
  BY DEF Holders
<1> QED BY <1>1, <1>2, FS_Subset, FS_CardinalityType

(* A room nobody has allocated has no pins counted.                        *)
Counted ==
  \A r \in Rooms :
    memory[r] = "live" /\ r \notin early => refs[r] = Cardinality(Holders(r))

CountInv ==
  /\ Counted
  /\ \A r \in Rooms : memory[r] = "unused" => refs[r] = 0

(* A step that changes no count, no pin and no room's memory.              *)
LEMMA CountsStand ==
  ASSUME TypeOK, CountInv, UNCHANGED <<memory, refs, early>>,
         NEW t \in Threads,
         \A u \in Threads \ {t} : pc'[u] = pc[u] /\ room'[u] = room[u],
         \/ pc[t] \in Holding /\ pc'[t] \in Holding /\ room'[t] = room[t]
         \/ pc[t] \notin Holding /\ pc'[t] \notin Holding
  PROVE  CountInv'
<1>1. \A r \in Rooms : Holders(r)' = Holders(r)
  BY DEF Holders
<1> QED BY <1>1 DEF CountInv, Counted

LEMMA PinCounted ==
  ASSUME TypeOK, CountInv, NEW t \in Threads, NEW q \in Rooms,
         memory' = memory, early' = early,
         refs' = [refs EXCEPT ![q] = @ + 1], memory[q] # "unused",
         \A u \in Threads \ {t} : pc'[u] = pc[u] /\ room'[u] = room[u],
         pc[t] \notin Holding, pc'[t] \in Holding, room'[t] = q
  PROVE  CountInv'
<1>1. \A r \in Rooms \ {q} : Holders(r)' = Holders(r) /\ refs'[r] = refs[r]
  BY DEF Holders, TypeOK
<1>2. Holders(q)' = Holders(q) \cup {t} /\ t \notin Holders(q)
  BY DEF Holders
<1>3. refs'[q] = refs[q] + 1
  BY DEF TypeOK
<1>4. Cardinality(Holders(q)') = Cardinality(Holders(q)) + 1
  BY <1>2, HoldersFinite, FS_AddElement
<1> QED BY <1>1, <1>3, <1>4 DEF CountInv, Counted

LEMMA CountsKept ==
  ASSUME TypeOK, LifeInv, CountInv, [Next]_vars
  PROVE  CountInv'
<1> USE DEF globals, flags, control, history
<1>a. Destroying \subseteq Holding /\ "hold" \in Holding
      /\ \A p \in {"idle", "ref", "insert", "store", "loaded",
                   "await", "stop", "unloaded"} :
           p \notin Holding
  BY DEF Holding, Destroying
<1>b. ASSUME NEW t \in Threads, pc[t] \notin Roomless
      PROVE  room[t] \in Rooms /\ memory[room[t]] # "unused"
  BY <1>b, HasRoom DEF LifeInv, UnusedInv
<1>1. CASE UNCHANGED vars
  BY <1>1 DEF vars, CountInv, Counted, Holders
<1>2. ASSUME NEW t \in Threads, NEW n \in Names, Find(t, n)
      PROVE  CountInv'
  BY <1>2, <1>a, CountsStand, Updates DEF Find
<1>3. ASSUME NEW t \in Threads, NEW q \in Rooms, Allocate(t, q)
      PROVE  CountInv'
  <2>1. /\ memory[q] = "unused" /\ memory' = [memory EXCEPT ![q] = "live"]
        /\ pc[t] = "idle" /\ pc'[t] = "insert" /\ room'[t] = q
        /\ \A u \in Threads \ {t} : pc'[u] = pc[u] /\ room'[u] = room[u]
        /\ UNCHANGED <<refs, early>>
    BY <1>3, Updates DEF Allocate
  <2>2. \A r \in Rooms : Holders(r)' = Holders(r)
    BY <1>a, <2>1 DEF Holders
  <2>3. Holders(q) = {} /\ refs[q] = 0
    BY <2>1 DEF LifeInv, UnusedInv, CountInv, Holders
  <2>4. Cardinality(Holders(q)') = 0
    BY <2>2, <2>3, FS_EmptySet
  <2>5. \A r \in Rooms \ {q} : memory'[r] = memory[r]
    BY <2>1 DEF TypeOK
  <2>6. memory'[q] = "live"
    BY <2>1 DEF TypeOK
  <2> QED BY <2>1, <2>2, <2>3, <2>4, <2>5, <2>6 DEF CountInv, Counted
<1>4. ASSUME NEW t \in Threads, Ref(t)  PROVE CountInv'
  <2>1. PICK q \in Rooms : q = room[t] /\ memory[q] # "unused"
    BY <1>4, <1>b DEF Ref, Roomless
  <2>2. /\ pc[t] \notin Holding /\ pc'[t] \in Holding
        /\ refs' = [refs EXCEPT ![q] = @ + 1]
        /\ UNCHANGED <<memory, early, room>>
        /\ \A u \in Threads \ {t} : pc'[u] = pc[u]
    BY <1>4, <1>a, <2>1, Updates DEF Ref
  <2> QED BY <2>1, <2>2, PinCounted
<1>5. ASSUME NEW t \in Threads, Release(t)  PROVE CountInv'
  <2>0. PICK q \in Rooms : q = room[t] /\ memory[q] # "unused"
    BY <1>5, <1>b DEF Release, Roomless
  <2>1. /\ pc[t] = "hold" /\ q = room[t] /\ memory[q] # "unused"
        /\ refs' = [refs EXCEPT ![q] = @ - 1]
        /\ pc'[t] = "idle" /\ room'[t] = NoRoom
        /\ \A u \in Threads \ {t} : pc'[u] = pc[u] /\ room'[u] = room[u]
        /\ UNCHANGED <<memory, early>>
    BY <1>5, <2>0, Updates DEF Release, Return
  <2>2. t \in Holders(q)
    BY <1>a, <2>1 DEF Holders
  <2>3. /\ refs'[q] = refs[q] - 1
        /\ \A r \in Rooms \ {q} : refs'[r] = refs[r]
    BY <2>1 DEF TypeOK
  <2>4. Holders(q)' = Holders(q) \ {t}
    BY <1>a, <2>1 DEF Holders
  <2>5. \A r \in Rooms \ {q} : Holders(r)' = Holders(r)
    BY <1>a, <2>1 DEF Holders
  <2>6. Cardinality(Holders(q)') = Cardinality(Holders(q)) - 1
    BY <2>2, <2>4, HoldersFinite, FS_RemoveElement
  <2> QED BY <2>1, <2>3, <2>5, <2>6 DEF CountInv, Counted
<1>6. ASSUME NEW t \in Threads, Insert(t)  PROVE CountInv'
  BY <1>6, <1>a, CountsStand, Updates DEF Insert
<1>7. ASSUME NEW t \in Threads, InsertFails(t) \/ Free(t)  PROVE CountInv'
  <2>0. PICK q \in Rooms : q = room[t]
    BY <1>7, <1>b DEF InsertFails, Free, Roomless
  <2>1. /\ q = room[t]
        /\ memory' = [memory EXCEPT ![q] = "freed"]
        /\ pc'[t] = "idle"
        /\ \A u \in Threads \ {t} : pc'[u] = pc[u] /\ room'[u] = room[u]
        /\ UNCHANGED <<refs, early>>
    BY <1>7, <2>0, Updates DEF InsertFails, Free, Return
  <2>2. \A r \in Rooms \ {q} : Holders(r)' = Holders(r)
    BY <1>a, <2>1 DEF Holders
  <2>3. /\ memory'[q] = "freed"
        /\ \A r \in Rooms \ {q} : memory'[r] = memory[r]
    BY <2>1 DEF TypeOK
  <2> QED BY <2>1, <2>2, <2>3 DEF CountInv, Counted
<1>8. ASSUME NEW t \in Threads, StoreRef(t)  PROVE CountInv'
  <2>0. PICK q \in Rooms : q = room[t] /\ memory[q] # "unused"
    BY <1>8, <1>b DEF StoreRef, Roomless
  <2>1. /\ pc[t] = "store" /\ q = room[t] /\ memory[q] # "unused"
        /\ refs' = [refs EXCEPT ![q] = 1]
        /\ early' = IF refs[q] # 0 THEN early \cup {q} ELSE early
        /\ pc'[t] = "hold" /\ UNCHANGED <<memory, room>>
        /\ \A u \in Threads \ {t} : pc'[u] = pc[u]
    BY <1>8, <2>0, Updates DEF StoreRef
  <2>2. Holders(q)' = Holders(q) \cup {t} /\ t \notin Holders(q)
    BY <1>a, <2>1 DEF Holders
  <2>3. \A r \in Rooms \ {q} : Holders(r)' = Holders(r)
    BY <1>a, <2>1 DEF Holders
  <2>4. /\ refs'[q] = 1
        /\ \A r \in Rooms \ {q} : refs'[r] = refs[r]
    BY <2>1 DEF TypeOK
  <2>5. Cardinality(Holders(q)') = Cardinality(Holders(q)) + 1
    BY <2>2, HoldersFinite, FS_AddElement
  <2>6. ASSUME memory[q] = "live", q \notin early'
        PROVE  refs'[q] = Cardinality(Holders(q)')
    <3>1. refs[q] = 0 /\ q \notin early
      BY <2>1, <2>6
    <3> QED BY <2>4, <2>5, <2>6, <3>1, <2>1 DEF CountInv, Counted
  <2> QED BY <2>1, <2>3, <2>4, <2>6 DEF CountInv, Counted
<1>9. ASSUME NEW t \in Threads, Destroy(t)  PROVE CountInv'
  <2>1. "begin" \in Holding
    BY DEF Holding, Destroying
  <2> QED BY <1>9, <1>a, <2>1, CountsStand, Updates DEF Destroy
<1>10. ASSUME NEW t \in Threads, DestroyStep(t)  PROVE CountInv'
  <2>0. {"begin", "mark", "drain", "join", "unhash", "free"} \subseteq Holding
    BY DEF Holding, Destroying
  <2>1. CASE MarkDestruct(t)
    BY <2>0, <2>1, CountsStand, Updates DEF MarkDestruct
  <2>2. CASE MarkDestroyed(t)
    BY <2>0, <2>2, CountsStand, Updates DEF MarkDestroyed
  <2>3. CASE Drained(t)
    BY <2>0, <2>3, CountsStand, Updates DEF Drained
  <2>4. CASE DrainTimeout(t)
    BY <2>0, <2>4, CountsStand, Updates DEF DrainTimeout
  <2>5. CASE JoinProducer(t)
    BY <2>0, <2>5, CountsStand, Updates DEF JoinProducer
  <2>6. CASE Unhash(t)
    BY <2>0, <2>6, CountsStand, Updates DEF Unhash
  <2> QED BY <1>7, <1>10, <2>1, <2>2, <2>3, <2>4, <2>5, <2>6
       DEF DestroyStep
<1>11. CASE \/ Sweep
            \/ \E r \in Rooms : ProducerExit(r) \/ ProducerFails(r)
  <2>1. UNCHANGED <<memory, refs, early, pc, room>>
    BY <1>11
    DEF Sweep, SweepBegin, SweepEnd, SweeperExit, ProducerExit, ProducerFails
  <2> QED BY <2>1 DEF CountInv, Counted, Holders
<1> closer \in Threads
  BY DEF Threads
<1>12. CASE UnloadStep
  BY <1>12, <1>a, CountsStand, Updates
  DEF UnloadStep, Unload, AwaitHousekeeping, JoinEmitter
<1>13. CASE CloseNext
  <2>1. PICK n \in Names :
          /\ hash[n] # NoRoom
          /\ refs' = [refs EXCEPT ![hash[n]] = @ + 1]
          /\ Keep(closer, hash[n])
    BY <1>13 DEF CloseNext
  <2>2. hash[n] \in Rooms /\ memory[hash[n]] = "live"
    BY <2>1 DEF TypeOK, LifeInv, HashInv
  <2>3. "begin" \in Holding
    BY DEF Holding, Destroying
  <2>4. PICK q \in Rooms : q = hash[n]
    BY <2>2
  <2>5. /\ pc[closer] = "idle" /\ Goto(closer, "begin")
        /\ UNCHANGED <<memory, early>>
    BY <1>13 DEF CloseNext
  <2>6. /\ pc[closer] \notin Holding /\ pc'[closer] \in Holding
        /\ room'[closer] = q /\ memory[q] # "unused"
        /\ \A u \in Threads \ {closer} : pc'[u] = pc[u] /\ room'[u] = room[u]
        /\ refs' = [refs EXCEPT ![q] = @ + 1]
    BY <1>a, <2>1, <2>2, <2>3, <2>4, <2>5, Updates
  <2> QED BY <2>5, <2>6, PinCounted
<1>14. CASE CloseDone
  BY <1>14, <1>a, CountsStand, Updates DEF CloseDone
<1>15. ASSUME NEW t \in Threads, UseFreed(t)  PROVE CountInv'
  BY <1>15 DEF UseFreed, CountInv, Counted, Holders
<1> QED
  BY <1>1, <1>2, <1>3, <1>4, <1>5, <1>6, <1>7, <1>8, <1>9, <1>10, <1>11,
     <1>12, <1>13, <1>14, <1>15 DEF Next

(* live_refs is the number of pins, unless the creator's store wiped one   *)
(* out, up to the first use of freed memory.                               *)
THEOREM PinsCounted == Spec => [](CountInv /\ RefsCounted)
<1>1. ASSUME Init  PROVE CountInv
  BY <1>1 DEF Init, CountInv, Counted
<1>2. TypeOK /\ LifeInv /\ CountInv /\ [Next]_vars => CountInv'
  BY CountsKept
<1>3. CountInv => RefsCounted
  BY DEF CountInv, Counted, RefsCounted
<1> QED BY <1>1, <1>2, <1>3, LifetimeTypes, LifeInvariant, PTL DEF Spec
-----------------------------------------------------------------------------
(* A destroyer past its wait, and a freed room, leave no prompt pin but    *)
(* those taken of a room already dying.                                    *)
Past == {"join", "unhash", "free"}

Doomed(r) ==
  memory[r] = "freed" \/ \E t \in Threads : room[t] = r /\ pc[t] \in Past

DyingInv ==
  /\ \A t \in Threads :
       pc[t] \in {"mark", "drain"} \cup Past => destruct[room[t]]
  /\ \A r \in Rooms :
       memory[r] = "freed" => destruct[r] \/ \A t \in Threads : room[t] # r

LatePinInv ==
  \A u \in Callers \ Stuck :
    pc[u] = "hold" /\ room[u] \notin early /\ Doomed(room[u]) => u \in late

LEMMA DyingKept ==
  ASSUME TypeOK, LifeInv, DyingInv, [Next]_vars
  PROVE  DyingInv'
<1> USE DEF globals, flags, control, history
<1>0. ASSUME NEW t \in Threads, UNCHANGED <<memory, destruct>>,
             \A u \in Threads \ {t} : pc'[u] = pc[u] /\ room'[u] = room[u],
             \/ pc'[t] \notin {"mark", "drain"} \cup Past
             \/ pc[t] \in {"mark", "drain"} \cup Past /\ room'[t] = room[t],
             \/ room'[t] \in {room[t], NoRoom}
             \/ room'[t] \in Rooms /\ memory[room'[t]] = "live"
      PROVE  DyingInv'
  BY <1>0, LifetimeAssumption DEF DyingInv
<1>1. CASE UNCHANGED vars
  BY <1>1 DEF vars, DyingInv
<1>2. ASSUME NEW t \in Threads, NEW n \in Names, Find(t, n)
      PROVE  DyingInv'
  <2>1. hash[n] \in Rooms /\ memory[hash[n]] = "live"
    BY <1>2 DEF Find, Usable, TypeOK, LifeInv, HashInv
  <2> QED BY <1>2, <2>1, <1>0, Updates DEF Find, Past
<1>3. ASSUME NEW t \in Threads, NEW q \in Rooms, Allocate(t, q)
      PROVE  DyingInv'
  <2>1. /\ memory' = [memory EXCEPT ![q] = "live"] /\ destruct' = destruct
        /\ pc'[t] = "insert" /\ room'[t] = q
        /\ \A u \in Threads \ {t} : pc'[u] = pc[u] /\ room'[u] = room[u]
    BY <1>3, Updates DEF Allocate
  <2>2. \A r \in Rooms : memory'[r] = "freed" => memory[r] = "freed" /\ r # q
    BY <2>1 DEF TypeOK
  <2> QED BY <2>1, <2>2 DEF DyingInv, Past
<1>4. ASSUME NEW t \in Threads,
             Ref(t) \/ Release(t) \/ Insert(t) \/ StoreRef(t) \/ Destroy(t)
      PROVE  DyingInv'
  <2>1. /\ UNCHANGED <<memory, destruct>>
        /\ \A u \in Threads \ {t} : pc'[u] = pc[u] /\ room'[u] = room[u]
        /\ pc'[t] \in {"hold", "idle", "store", "begin"}
        /\ room'[t] \in {room[t], NoRoom}
    BY <1>4, Updates DEF Ref, Release, Return, Insert, StoreRef, Destroy
  <2> QED BY <1>0, <2>1 DEF Past
<1>5. ASSUME NEW t \in Threads, InsertFails(t) \/ Free(t)  PROVE DyingInv'
  <2>0. PICK q \in Rooms : q = room[t]
    BY <1>5, HasRoom DEF InsertFails, Free, Roomless
  <2>1. /\ memory' = [memory EXCEPT ![q] = "freed"] /\ destruct' = destruct
        /\ pc'[t] = "idle" /\ room'[t] = NoRoom
        /\ \A u \in Threads \ {t} : pc'[u] = pc[u] /\ room'[u] = room[u]
        /\ pc[t] \in {"insert", "free"}
    BY <1>5, <2>0, Updates DEF InsertFails, Free, Return
  <2>2. destruct[q] \/ \A u \in Threads \ {t} : room[u] # q
    BY <2>0, <2>1 DEF DyingInv, Past, LifeInv, FreshInv
  <2>3. \A r \in Rooms : memory'[r] = "freed" => memory[r] = "freed" \/ r = q
    BY <2>1 DEF TypeOK
  <2> QED BY <2>1, <2>2, <2>3, LifetimeAssumption DEF DyingInv, Past
<1>6. ASSUME NEW t \in Threads, MarkDestruct(t)  PROVE DyingInv'
  <2>0. PICK q \in Rooms : q = room[t]
    BY <1>6, HasRoom DEF MarkDestruct, Roomless
  <2>1. /\ UNCHANGED <<memory, room>>
        /\ destruct' = [destruct EXCEPT ![q] = TRUE]
        /\ \A u \in Threads \ {t} : pc'[u] = pc[u]
    BY <1>6, <2>0, Updates DEF MarkDestruct
  <2>2. destruct'[q] /\ \A r \in Rooms : destruct[r] => destruct'[r]
    BY <2>1, Zenon DEF TypeOK
  <2>3. \A u \in Threads :
          pc[u] \in {"mark", "drain"} \cup Past => room[u] \in Rooms
    BY HasRoom DEF Roomless, Past
  <2> QED BY <2>0, <2>1, <2>2, <2>3 DEF DyingInv
<1>7. ASSUME NEW t \in Threads, DestroyStep(t)  PROVE DyingInv'
  <2>1. CASE \/ MarkDestroyed(t) \/ Drained(t) \/ DrainTimeout(t)
             \/ JoinProducer(t) \/ Unhash(t)
    <3>1. /\ UNCHANGED <<memory, destruct, room>>
          /\ \A u \in Threads \ {t} : pc'[u] = pc[u]
          /\ pc[t] \in {"mark", "drain", "join", "unhash"}
      BY <2>1, Updates
      DEF MarkDestroyed, Drained, DrainTimeout, JoinProducer, Unhash
    <3> QED BY <1>0, <3>1 DEF Past
  <2> QED BY <1>5, <1>6, <1>7, <2>1 DEF DestroyStep
<1>8. CASE \/ Sweep
           \/ \E r \in Rooms : ProducerExit(r) \/ ProducerFails(r)
  <2>1. UNCHANGED <<memory, destruct, pc, room>>
    BY <1>8
    DEF Sweep, SweepBegin, SweepEnd, SweeperExit, ProducerExit, ProducerFails
  <2> QED BY <2>1 DEF DyingInv
<1> closer \in Threads
  BY DEF Threads
<1>9. CASE UnloadStep \/ CloseDone
  <2>1. /\ UNCHANGED <<memory, destruct, room>>
        /\ \A u \in Threads \ {closer} : pc'[u] = pc[u]
        /\ pc'[closer] \in {"await", "stop", "idle", "unloaded"}
    BY <1>9, Updates
    DEF UnloadStep, Unload, AwaitHousekeeping, JoinEmitter, CloseDone
  <2> QED BY <1>0, <2>1 DEF Past
<1>10. CASE CloseNext
  <2>1. PICK n \in Names : hash[n] # NoRoom /\ Keep(closer, hash[n])
    BY <1>10 DEF CloseNext
  <2>2. hash[n] \in Rooms /\ memory[hash[n]] = "live"
    BY <2>1 DEF TypeOK, LifeInv, HashInv
  <2>3. Goto(closer, "begin") /\ UNCHANGED <<memory, destruct>>
    BY <1>10 DEF CloseNext
  <2> QED BY <1>0, <2>1, <2>2, <2>3, Updates DEF Past
<1>11. ASSUME NEW t \in Threads, UseFreed(t)  PROVE DyingInv'
  BY <1>11 DEF UseFreed, DyingInv
<1> QED
  BY <1>1, <1>2, <1>3, <1>4, <1>5, <1>7, <1>8, <1>9, <1>10, <1>11 DEF Next

(* The prompt threads other than t that are in the middle of a pin.        *)
PromptPins(t) == {u \in Callers \ Stuck : u # t /\ pc[u] = "hold"}

LEMMA LatePinsKept ==
  ASSUME TypeOK, LifeInv, CountInv, DyingInv, LatePinInv, TypeOK', [Next]_vars
  PROVE  LatePinInv'
<1> USE DEF globals, flags, control, history
<1>a. Callers \subseteq Threads
  BY DEF Threads
<1>b. \A u \in Threads : pc[u] \notin Roomless => room[u] \in Rooms
  BY HasRoom
<1>0. ASSUME NEW t \in Threads,
             early \subseteq early', late \ {t} \subseteq late',
             \A u \in Threads \ {t} : pc'[u] = pc[u] /\ room'[u] = room[u],
             \A r \in Rooms :
               Doomed(r)' =>
                 Doomed(r) \/ \A u \in PromptPins(t) : room[u] # r,
             pc'[t] = "hold" =>
               t \in late' \/ \A r \in Rooms : room'[t] = r => ~ Doomed(r)'
      PROVE  LatePinInv'
  <2>1. ASSUME NEW u \in Callers \ Stuck, NEW r \in Rooms, pc'[u] = "hold",
               room'[u] = r, r \notin early', Doomed(r)'
        PROVE  u \in late'
    <3>1. CASE u = t
      BY <1>0, <2>1, <3>1
    <3>2. CASE u # t
      <4>1. u \in PromptPins(t) /\ room[u] = r /\ pc[u] = "hold"
        BY <1>0, <1>a, <2>1, <3>2 DEF PromptPins
      <4>2. Doomed(r)
        BY <1>0, <2>1, <4>1
      <4>3. u \in late
        BY <1>0, <2>1, <4>1, <4>2 DEF LatePinInv
      <4> QED BY <1>0, <3>2, <4>3
    <3> QED BY <3>1, <3>2
  <2>2. \A u \in Threads : pc'[u] = "hold" => room'[u] \in Rooms
    BY LifetimeAssumption DEF TypeOK
  <2> QED BY <1>a, <2>1, <2>2 DEF LatePinInv, Doomed
<1>1. CASE UNCHANGED vars
  BY <1>1 DEF vars, LatePinInv, Doomed
<1>2. ASSUME NEW t \in Threads, NEW n \in Names, Find(t, n)
      PROVE  LatePinInv'
  <2>1. /\ UNCHANGED <<memory, early, late>> /\ pc'[t] = "ref"
        /\ \A u \in Threads \ {t} : pc'[u] = pc[u] /\ room'[u] = room[u]
    BY <1>2, Updates DEF Find
  <2> QED BY <1>0, <2>1 DEF Doomed, Past
<1>3. ASSUME NEW t \in Threads, NEW q \in Rooms, Allocate(t, q)
      PROVE  LatePinInv'
  <2>1. /\ memory' = [memory EXCEPT ![q] = "live"]
        /\ UNCHANGED <<early, late>> /\ pc'[t] = "insert"
        /\ \A u \in Threads \ {t} : pc'[u] = pc[u] /\ room'[u] = room[u]
    BY <1>3, Updates DEF Allocate
  <2>2. \A r \in Rooms : memory'[r] = "freed" => memory[r] = "freed"
    BY <2>1 DEF TypeOK
  <2> QED BY <1>0, <2>1, <2>2 DEF Doomed, Past
<1>4. ASSUME NEW t \in Threads, Ref(t) \/ StoreRef(t)  PROVE LatePinInv'
  <2>0. PICK q \in Rooms : q = room[t]
    BY <1>4, <1>b DEF Ref, StoreRef, Roomless
  <2>1. /\ UNCHANGED <<memory, room>> /\ pc'[t] = "hold"
        /\ early \subseteq early' /\ late \subseteq late'
        /\ destruct[q] => t \in late'
        /\ \A u \in Threads \ {t} : pc'[u] = pc[u]
        /\ pc[t] \in {"ref", "store"}
    BY <1>4, <2>0, Updates DEF Ref, StoreRef
  <2>2. \A r \in Rooms : Doomed(r)' => Doomed(r)
    BY <2>1 DEF Doomed, Past
  <2>3. Doomed(q) => destruct[q]
    BY <2>0 DEF Doomed, DyingInv
  <2> QED BY <1>0, <2>0, <2>1, <2>2, <2>3
<1>5. ASSUME NEW t \in Threads,
             Release(t) \/ Insert(t) \/ Destroy(t) \/ MarkDestruct(t)
               \/ MarkDestroyed(t)
      PROVE  LatePinInv'
  <2>1. /\ UNCHANGED <<memory, early>> /\ late \ {t} \subseteq late'
        /\ pc'[t] \in {"idle", "store", "begin", "mark", "drain"}
        /\ \A u \in Threads \ {t} : pc'[u] = pc[u] /\ room'[u] = room[u]
    BY <1>5, Updates
    DEF Release, Return, Insert, Destroy, MarkDestruct, MarkDestroyed
  <2> QED BY <1>0, <2>1 DEF Doomed, Past
<1>6. ASSUME NEW t \in Threads, InsertFails(t) \/ Free(t)
      PROVE  LatePinInv'
  <2>0. PICK q \in Rooms : q = room[t]
    BY <1>6, <1>b DEF InsertFails, Free, Roomless
  <2>1. /\ memory' = [memory EXCEPT ![q] = "freed"]
        /\ early' = early /\ late \ {t} \subseteq late' /\ pc'[t] = "idle"
        /\ \A u \in Threads \ {t} : pc'[u] = pc[u] /\ room'[u] = room[u]
        /\ pc[t] \in {"insert", "free"}
    BY <1>6, <2>0, Updates DEF InsertFails, Free, Return
  <2>2. \A r \in Rooms \ {q} : memory'[r] = memory[r]
    BY <2>1 DEF TypeOK
  <2>3. Doomed(q) \/ \A u \in PromptPins(t) : room[u] # q
    BY <1>a, <2>0, <2>1 DEF Doomed, Past, LifeInv, FreshInv, PromptPins
  <2>4. ASSUME NEW r \in Rooms, r # q, Doomed(r)'  PROVE Doomed(r)
    BY <2>1, <2>2, <2>4 DEF Doomed, Past
  <2> QED BY <1>0, <2>1, <2>3, <2>4
<1>7. ASSUME NEW t \in Threads, Drained(t) \/ DrainTimeout(t)
      PROVE  LatePinInv'
  <2>0. PICK q \in Rooms : q = room[t]
    BY <1>7, <1>b DEF Drained, DrainTimeout, Roomless
  <2>1. /\ UNCHANGED <<memory, early, late, room>>
        /\ pc[t] = "drain" /\ pc'[t] = "join"
        /\ \A u \in Threads \ {t} : pc'[u] = pc[u]
    BY <1>7, Updates DEF Drained, DrainTimeout
  <2>2. ASSUME NEW r \in Rooms, r # q, Doomed(r)'  PROVE Doomed(r)
    BY <2>0, <2>1, <2>2 DEF Doomed
  <2>3. ASSUME NEW u \in PromptPins(t), room[u] = q, q \notin early
        PROVE  Doomed(q)
    <3>1. u \in Threads /\ u # t /\ pc[u] = "hold" /\ u \notin Stuck
      BY <1>a, <2>3 DEF PromptPins
    <3>2. Drained(t)
      BY <1>7, <2>0, <2>3, <3>1 DEF DrainTimeout
    <3>3. {t, u} \subseteq Holders(q)
      BY <2>0, <2>1, <2>3, <3>1 DEF Holders, Holding, Destroying
    <3>4. Cardinality({t, u}) = 2
      <4>1. IsFiniteSet({t}) /\ Cardinality({t}) = 1
        BY FS_Singleton
      <4>2. u \notin {t}
        BY <3>1
      <4>3. Cardinality({t} \cup {u}) = Cardinality({t}) + 1
        BY <4>1, <4>2, FS_AddElement
      <4>4. {t, u} = {t} \cup {u}
        OBVIOUS
      <4> QED BY <4>1, <4>3, <4>4
    <3>5. Cardinality(Holders(q)) >= 2
      BY <3>3, <3>4, HoldersFinite, FS_Subset
    <3>6. refs[q] <= 1
      BY <2>0, <3>2 DEF Drained
    <3>7. memory[q] # "live"
      BY <2>3, <3>5, <3>6, HoldersFinite DEF CountInv, Counted, TypeOK
    <3>8. memory[q] # "unused"
      BY <2>0 DEF LifeInv, UnusedInv
    <3> QED BY <3>7, <3>8 DEF Doomed, TypeOK
  <2>4. ASSUME NEW u \in Callers \ Stuck, NEW r \in Rooms, pc'[u] = "hold",
               room[u] = r, r \notin early, Doomed(r)'
        PROVE  u \in late
    <3>1. u \in PromptPins(t) /\ pc[u] = "hold"
      BY <1>a, <2>1, <2>4 DEF PromptPins
    <3>2. Doomed(r)
      BY <2>2, <2>3, <2>4, <3>1
    <3> QED BY <2>4, <3>1, <3>2 DEF LatePinInv
  <2>5. \A u \in Threads : pc'[u] = "hold" => room[u] \in Rooms
    BY <2>1, LifetimeAssumption DEF TypeOK
  <2> QED BY <1>a, <2>1, <2>4, <2>5 DEF LatePinInv, Doomed
<1>8. ASSUME NEW t \in Threads, JoinProducer(t) \/ Unhash(t)
      PROVE  LatePinInv'
  <2>1. /\ UNCHANGED <<memory, early, late, room>>
        /\ pc[t] \in Past /\ pc'[t] \in {"unhash", "free"}
        /\ \A u \in Threads \ {t} : pc'[u] = pc[u]
    BY <1>8, Updates DEF JoinProducer, Unhash, Past
  <2>2. \A r \in Rooms : Doomed(r)' => Doomed(r)
    BY <2>1 DEF Doomed, Past
  <2> QED BY <1>0, <2>1, <2>2
<1>9. CASE \/ Sweep
           \/ \E r \in Rooms : ProducerExit(r) \/ ProducerFails(r)
  <2>1. UNCHANGED <<memory, early, late, pc, room>>
    BY <1>9
    DEF Sweep, SweepBegin, SweepEnd, SweeperExit, ProducerExit, ProducerFails
  <2> QED BY <2>1 DEF LatePinInv, Doomed
<1> closer \in Threads
  BY DEF Threads
<1>10. CASE UnloadStep \/ CloseDone \/ CloseNext
  <2>1. /\ UNCHANGED <<memory, early, late>>
        /\ \A u \in Threads \ {closer} : pc'[u] = pc[u]
        /\ pc'[closer] \in {"await", "stop", "idle", "unloaded", "begin"}
    BY <1>10, Updates
    DEF UnloadStep, Unload, AwaitHousekeeping, JoinEmitter, CloseDone,
        CloseNext
  <2>2. \A u \in Threads \ {closer} : room'[u] = room[u]
    BY <1>10, Updates
    DEF UnloadStep, Unload, AwaitHousekeeping, JoinEmitter, CloseDone,
        CloseNext
  <2> QED BY <1>0, <2>1, <2>2 DEF Doomed, Past
<1>11. ASSUME NEW t \in Threads, UseFreed(t)  PROVE LatePinInv'
  BY <1>11 DEF UseFreed, LatePinInv, Doomed
<1> QED
  BY <1>1, <1>2, <1>3, <1>4, <1>5, <1>6, <1>7, <1>8, <1>9, <1>10, <1>11
  DEF Next, DestroyStep

(* A pin of a room not yet dying keeps the room, unless the creator's      *)
(* store wiped one out, up to the first use of freed memory.               *)
THEOREM PinsHold == Spec => []PinnedAlive
<1>1. ASSUME Init  PROVE DyingInv /\ LatePinInv
  BY <1>1, LifetimeAssumption
  DEF Init, DyingInv, LatePinInv, Past, Threads
<1>2. TypeOK /\ LifeInv /\ DyingInv /\ [Next]_vars => DyingInv'
  BY DyingKept
<1>3. TypeOK /\ TypeOK' /\ LifeInv /\ CountInv /\ DyingInv /\ LatePinInv
        /\ [Next]_vars => LatePinInv'
  BY LatePinsKept
<1>4. TypeOK /\ LifeInv /\ LatePinInv => PinnedAlive
  <2> SUFFICES ASSUME TypeOK, LifeInv, LatePinInv,
                      NEW t \in Callers \ Stuck, pc[t] = "hold",
                      t \notin late, room[t] \notin early
               PROVE  memory[room[t]] = "live"
    BY DEF PinnedAlive
  <2>1. t \in Threads /\ room[t] \in Rooms
    BY HasRoom DEF Threads, Roomless
  <2>2. memory[room[t]] # "freed"
    BY DEF LatePinInv, Doomed
  <2>3. memory[room[t]] # "unused"
    BY <2>1 DEF LifeInv, UnusedInv
  <2> QED BY <2>1, <2>2, <2>3 DEF TypeOK
<1> QED
  BY <1>1, <1>2, <1>3, <1>4, LifetimeTypes, LifeInvariant, PinsCounted, PTL
  DEF Spec
-----------------------------------------------------------------------------
(* Nobody sweeps any more once the module is unloaded.                     *)
SweepsOver ==
  pc[closer] = "unloaded" => \A w \in Sweepers : sweeping[w] # "sweep"

(* The hash and its lock outlive every sweep, the one included that the    *)
(* unloading thread has given up on, up to the first use of freed memory.  *)
THEOREM SweepsStayInside == Spec => []SweepsInside
<1> closer \in Threads
  BY DEF Threads
<1>1. ASSUME Init  PROVE SweepsOver
  BY <1>1 DEF Init, SweepsOver
<1>2. ASSUME TypeOK, SweepsOver, [Next]_vars
      PROVE  SweepsOver'
  <2> USE DEF globals, flags, control, history
  <2>1. CASE Sweep
    <3>1. UNCHANGED pc
      BY <2>1 DEF Sweep, SweepBegin, SweepEnd, SweeperExit
    <3>2. pc[closer] = "unloaded" => \A w \in Sweepers : Told(w)
      BY DEF Told, Unloading, Sweepers
    <3> QED BY <1>2, <2>1, <3>1, <3>2
         DEF Sweep, SweepBegin, SweepEnd, SweeperExit, SweepsOver, TypeOK
  <2>2. CASE CloseDone
    BY <1>2, <2>2 DEF CloseDone, WriteLockFree, SweepsOver
  <2>3. CASE UnloadStep \/ CloseNext
    <3>1. pc'[closer] \in {"await", "stop", "idle", "begin"}
      BY <1>2, <2>3, Updates
      DEF UnloadStep, Unload, AwaitHousekeeping, JoinEmitter, CloseNext
    <3> QED BY <3>1 DEF SweepsOver
  <2>4. CASE UNCHANGED vars
    BY <1>2, <2>4 DEF vars, SweepsOver
  <2>5. ASSUME NEW r \in Rooms, ProducerExit(r) \/ ProducerFails(r)
        PROVE  SweepsOver'
    BY <1>2, <2>5 DEF ProducerExit, ProducerFails, SweepsOver
  <2>6. ASSUME NEW t \in Threads,
               \/ \E n \in Names : Find(t, n)
               \/ \E r \in Rooms : Allocate(t, r)
               \/ Ref(t) \/ Release(t) \/ Insert(t) \/ InsertFails(t)
               \/ StoreRef(t) \/ Destroy(t) \/ DestroyStep(t)
        PROVE  SweepsOver'
    <3>1. /\ UNCHANGED sweeping
          /\ \E p \in Pcs : Goto(t, p) /\ p # "unloaded"
      BY <2>6
      DEF Find, Allocate, Ref, Release, Insert, InsertFails, StoreRef,
          Destroy, DestroyStep, MarkDestruct, MarkDestroyed, Drained,
          DrainTimeout, JoinProducer, Unhash, Free, Return, Pcs, Holding,
          Destroying
    <3>2. pc'[closer] = "unloaded" => pc[closer] = "unloaded"
      BY <1>2, <3>1, Updates
    <3> QED BY <1>2, <3>1, <3>2 DEF SweepsOver
  <2>7. ASSUME NEW t \in Threads, UseFreed(t)  PROVE SweepsOver'
    BY <1>2, <2>7 DEF UseFreed, SweepsOver
  <2> QED BY <1>2, <2>1, <2>2, <2>3, <2>4, <2>5, <2>6, <2>7 DEF Next
<1>3. SweepsOver => SweepsInside
  BY DEF SweepsOver, SweepsInside
<1> QED BY <1>1, <1>2, <1>3, LifetimeTypes, PTL DEF Spec
-----------------------------------------------------------------------------
(* Entries of the hash are deleted by name.  As long as no room is         *)
(* destroyed twice, the name of a room under destruction still leads to    *)
(* it, and a pinned room is in the hash unless it is dying.                *)
Pinning == {"ref", "store", "hold"}

EntryInv ==
  \A t \in Threads :
    /\ pc[t] \in Destroying \ {"free"} => hash[NameOf[room[t]]] = room[t]
    /\ pc[t] \in Pinning =>
         hash[NameOf[room[t]]] = room[t] \/ destruct[room[t]]
    /\ pc[t] \in Destroying =>
         \A u \in Threads \ {t} : pc[u] \in Destroying => room[u] # room[t]

OnceInv ==
  /\ \A t \in Threads : pc[t] \in {"drain"} \cup Past => destroyed[room[t]]
  /\ twice = {} => EntryInv

(* A step of one thread that leaves the hash alone and takes back no mark. *)
LEMMA OnceStands ==
  ASSUME TypeOK, OnceInv, NEW t \in Threads, UNCHANGED hash,
         twice' = {} => twice = {},
         \A r \in Rooms : destruct[r] => destruct'[r],
         \A r \in Rooms : destroyed[r] => destroyed'[r],
         \A u \in Threads \ {t} : pc'[u] = pc[u] /\ room'[u] = room[u],
         pc'[t] \in {"drain"} \cup Past => destroyed'[room'[t]],
         twice' = {} =>
           /\ pc'[t] \in Destroying \ {"free"} =>
                hash[NameOf[room'[t]]] = room'[t]
           /\ pc'[t] \in Pinning =>
                hash[NameOf[room'[t]]] = room'[t] \/ destruct'[room'[t]]
           /\ pc'[t] \in Destroying =>
                \A u \in Threads \ {t} :
                  pc[u] \in Destroying => room[u] # room'[t]
  PROVE  OnceInv'
<1>1. \A u \in Threads :
        pc[u] \in {"drain"} \cup Past \cup Destroying \cup Pinning =>
          room[u] \in Rooms
  BY HasRoom DEF Roomless, Past, Destroying, Pinning
<1>2. \A u \in Threads : pc'[u] \in {"drain"} \cup Past => destroyed'[room'[u]]
  BY <1>1 DEF OnceInv
<1>3. ASSUME twice' = {}  PROVE EntryInv'
  <2>1. EntryInv
    BY <1>3 DEF OnceInv
  <2>2. ASSUME NEW u \in Threads \ {t}
        PROVE  /\ pc'[u] \in Destroying \ {"free"} =>
                    hash'[NameOf[room'[u]]] = room'[u]
               /\ pc'[u] \in Pinning =>
                    hash'[NameOf[room'[u]]] = room'[u] \/ destruct'[room'[u]]
    BY <1>1, <2>1 DEF EntryInv
  <2>3. ASSUME NEW u \in Threads \ {t}, pc'[u] \in Destroying,
               NEW v \in Threads \ {u}, pc'[v] \in Destroying
        PROVE  room'[v] # room'[u]
    BY <1>3, <2>1, <2>3 DEF EntryInv
  <2> QED BY <1>3, <2>2, <2>3 DEF EntryInv
<1> QED BY <1>2, <1>3 DEF OnceInv

LEMMA OnceKept ==
  ASSUME TypeOK, LifeInv, DyingInv, OnceInv, [Next]_vars
  PROVE  OnceInv'
<1> USE DEF globals, flags, control, history
<1>r. \A u \in Threads : pc[u] \notin Roomless => room[u] \in Rooms
  BY HasRoom
<1>1. CASE UNCHANGED vars
  BY <1>1 DEF vars, OnceInv, EntryInv
<1>2. ASSUME NEW t \in Threads, NEW n \in Names, Find(t, n)
      PROVE  OnceInv'
  <2>1. /\ UNCHANGED <<hash, destruct, destroyed, twice>>
        /\ pc'[t] = "ref" /\ room'[t] = hash[n] /\ hash[n] # NoRoom
        /\ \A u \in Threads \ {t} : pc'[u] = pc[u] /\ room'[u] = room[u]
    BY <1>2, Updates DEF Find, Usable
  <2>2. NameOf[hash[n]] = n
    BY <2>1 DEF LifeInv, HashInv
  <2> QED BY <2>1, <2>2, OnceStands DEF Past, Destroying
<1>3. ASSUME NEW t \in Threads, NEW q \in Rooms, Allocate(t, q)
      PROVE  OnceInv'
  <2>1. /\ UNCHANGED <<hash, destruct, destroyed, twice>> /\ pc'[t] = "insert"
        /\ \A u \in Threads \ {t} : pc'[u] = pc[u] /\ room'[u] = room[u]
    BY <1>3, Updates DEF Allocate
  <2> QED BY <2>1, OnceStands DEF Past, Destroying, Pinning
<1>4. ASSUME NEW t \in Threads, Ref(t) \/ StoreRef(t)
      PROVE  OnceInv'
  <2>1. /\ UNCHANGED <<hash, destruct, destroyed, twice>>
        /\ pc[t] \in Pinning /\ pc'[t] = "hold" /\ room' = room
        /\ \A u \in Threads \ {t} : pc'[u] = pc[u]
    BY <1>4, Updates DEF Ref, StoreRef, Pinning
  <2>2. twice = {} =>
          hash[NameOf[room[t]]] = room[t] \/ destruct[room[t]]
    BY <2>1 DEF OnceInv, EntryInv
  <2> QED BY <2>1, <2>2, OnceStands DEF Past, Destroying
<1>5. ASSUME NEW t \in Threads, Release(t) \/ InsertFails(t) \/ Free(t)
      PROVE  OnceInv'
  <2>1. /\ UNCHANGED <<hash, destruct, destroyed, twice>> /\ pc'[t] = "idle"
        /\ \A u \in Threads \ {t} : pc'[u] = pc[u] /\ room'[u] = room[u]
    BY <1>5, Updates DEF Release, InsertFails, Free, Return
  <2> QED BY <2>1, OnceStands DEF Past, Destroying, Pinning
<1>6. ASSUME NEW t \in Threads, Insert(t)  PROVE OnceInv'
  <2>0. PICK q \in Rooms : q = room[t]
    BY <1>6, <1>r DEF Insert, Roomless
  <2>1. /\ UNCHANGED <<destruct, destroyed, twice, room>>
        /\ hash[NameOf[q]] = NoRoom
        /\ hash' = [hash EXCEPT ![NameOf[q]] = q] /\ pc'[t] = "store"
        /\ \A u \in Threads \ {t} : pc'[u] = pc[u]
    BY <1>6, <2>0, Updates DEF Insert
  <2>2. NameOf[q] \in Names /\ hash'[NameOf[q]] = q
    BY <2>1, LifetimeAssumption DEF TypeOK
  <2>3. \A n \in Names : hash[n] # NoRoom => hash'[n] = hash[n]
    BY <2>1 DEF TypeOK
  <2>4. \A u \in Threads :
          pc[u] \in {"drain"} \cup Past \cup Destroying \cup Pinning =>
            room[u] \in Rooms /\ room[u] # NoRoom /\ NameOf[room[u]] \in Names
    BY <1>r, LifetimeAssumption DEF Roomless, Past, Destroying, Pinning
  <2>5. ASSUME twice = {}  PROVE EntryInv'
    <3>1. EntryInv
      BY <2>5 DEF OnceInv
    <3>2. ASSUME NEW u \in Threads
          PROVE  /\ pc'[u] \in Destroying \ {"free"} =>
                      hash'[NameOf[room[u]]] = room[u]
                 /\ pc'[u] \in Pinning =>
                      hash'[NameOf[room[u]]] = room[u] \/ destruct[room[u]]
      <4>1. CASE u = t
        BY <2>0, <2>1, <2>2, <4>1 DEF Destroying
      <4>2. CASE u # t
        BY <2>1, <2>3, <2>4, <3>1, <4>2 DEF EntryInv
      <4> QED BY <4>1, <4>2
    <3>3. \A u \in Threads : pc'[u] \in Destroying => pc[u] \in Destroying
      BY <2>1 DEF Destroying
    <3> QED BY <2>1, <3>1, <3>2, <3>3 DEF EntryInv
  <2> QED BY <2>1, <2>5 DEF OnceInv, Past
<1>7. ASSUME NEW t \in Threads, Destroy(t)  PROVE OnceInv'
  <2>1. /\ UNCHANGED <<hash, destruct, destroyed, room>>
        /\ Note(t, room[t])
        /\ pc[t] = "hold" /\ pc'[t] = "begin"
        /\ \A u \in Threads \ {t} : pc'[u] = pc[u]
    BY <1>7, Updates DEF Destroy
  <2>2. ASSUME twice' = {}
        PROVE  /\ twice = {} /\ ~ destruct[room[t]]
               /\ \A u \in Threads \ {t} :
                    pc[u] \in Destroying => room[u] # room[t]
    BY <2>1, <2>2 DEF Note
  <2>3. twice' = {} => hash[NameOf[room[t]]] = room[t]
    BY <2>1, <2>2 DEF OnceInv, EntryInv, Pinning
  <2> QED BY <2>1, <2>2, <2>3, OnceStands DEF Past, Pinning
<1>8. ASSUME NEW t \in Threads, MarkDestruct(t)  PROVE OnceInv'
  <2>0. PICK q \in Rooms : q = room[t]
    BY <1>8, <1>r DEF MarkDestruct, Roomless
  <2>1. /\ UNCHANGED <<hash, destroyed, twice, room>>
        /\ destruct' = [destruct EXCEPT ![q] = TRUE]
        /\ pc[t] = "begin" /\ pc'[t] = "mark"
        /\ \A u \in Threads \ {t} : pc'[u] = pc[u]
    BY <1>8, <2>0, Updates DEF MarkDestruct
  <2>2. \A r \in Rooms : destruct[r] => destruct'[r]
    BY <2>1, Zenon DEF TypeOK
  <2>3. twice = {} =>
          /\ hash[NameOf[room[t]]] = room[t]
          /\ \A u \in Threads \ {t} :
               pc[u] \in Destroying => room[u] # room[t]
    BY <2>1 DEF OnceInv, EntryInv, Destroying
  <2> QED BY <2>1, <2>2, <2>3, OnceStands DEF Past, Pinning
<1>9. ASSUME NEW t \in Threads, MarkDestroyed(t)  PROVE OnceInv'
  <2>0. PICK q \in Rooms : q = room[t]
    BY <1>9, <1>r DEF MarkDestroyed, Roomless
  <2>1. /\ UNCHANGED <<hash, destruct, twice, room>>
        /\ destroyed' = [destroyed EXCEPT ![q] = TRUE]
        /\ pc[t] = "mark" /\ pc'[t] = "drain"
        /\ \A u \in Threads \ {t} : pc'[u] = pc[u]
    BY <1>9, <2>0, Updates DEF MarkDestroyed
  <2>2. destroyed'[q] /\ \A r \in Rooms : destroyed[r] => destroyed'[r]
    BY <2>1, Zenon DEF TypeOK
  <2>3. twice = {} =>
          /\ hash[NameOf[room[t]]] = room[t]
          /\ \A u \in Threads \ {t} :
               pc[u] \in Destroying => room[u] # room[t]
    BY <2>1 DEF OnceInv, EntryInv, Destroying
  <2> QED BY <2>0, <2>1, <2>2, <2>3, OnceStands DEF Past, Pinning
<1>10. ASSUME NEW t \in Threads,
              Drained(t) \/ DrainTimeout(t) \/ JoinProducer(t)
       PROVE  OnceInv'
  <2>1. /\ UNCHANGED <<hash, destruct, destroyed, twice, room>>
        /\ pc[t] \in {"drain", "join"} /\ pc'[t] \in {"join", "unhash"}
        /\ \A u \in Threads \ {t} : pc'[u] = pc[u]
    BY <1>10, Updates DEF Drained, DrainTimeout, JoinProducer
  <2>2. destroyed[room[t]]
    BY <2>1 DEF OnceInv, Past
  <2>3. twice = {} =>
          /\ hash[NameOf[room[t]]] = room[t]
          /\ \A u \in Threads \ {t} :
               pc[u] \in Destroying => room[u] # room[t]
    BY <2>1 DEF OnceInv, EntryInv, Destroying
  <2> QED BY <2>1, <2>2, <2>3, OnceStands DEF Pinning
<1>11. ASSUME NEW t \in Threads, Unhash(t)  PROVE OnceInv'
  <2>0. PICK q \in Rooms : q = room[t]
    BY <1>11, <1>r DEF Unhash, Roomless
  <2>1. /\ UNCHANGED <<destruct, destroyed, twice, room>>
        /\ hash' = [hash EXCEPT ![NameOf[q]] = NoRoom]
        /\ pc[t] = "unhash" /\ pc'[t] = "free"
        /\ \A u \in Threads \ {t} : pc'[u] = pc[u]
    BY <1>11, <2>0, Updates DEF Unhash
  <2>2. destroyed[q] /\ destruct[q]
    BY <2>0, <2>1 DEF OnceInv, DyingInv, Past
  <2>3. \A n \in Names : n # NameOf[q] => hash'[n] = hash[n]
    BY <2>1 DEF TypeOK
  <2>4. \A u \in Threads :
          pc[u] \in {"drain"} \cup Past \cup Destroying \cup Pinning =>
            room[u] \in Rooms /\ NameOf[room[u]] \in Names
    BY <1>r, LifetimeAssumption DEF Roomless, Past, Destroying, Pinning
  <2>5. ASSUME twice = {}  PROVE EntryInv'
    <3>1. EntryInv /\ hash[NameOf[q]] = q
      BY <2>0, <2>1, <2>5 DEF OnceInv, EntryInv, Destroying
    <3>2. ASSUME NEW u \in Threads
          PROVE  /\ pc'[u] \in Destroying \ {"free"} =>
                      hash'[NameOf[room[u]]] = room[u]
                 /\ pc'[u] \in Pinning =>
                      hash'[NameOf[room[u]]] = room[u] \/ destruct[room[u]]
      <4>1. CASE u = t
        BY <2>1, <4>1 DEF Pinning
      <4>2. CASE u # t /\ pc[u] \in Destroying \ {"free"}
        <5>1. hash[NameOf[room[u]]] = room[u] /\ room[u] # q
          BY <2>0, <2>1, <3>1, <4>2 DEF EntryInv, Destroying
        <5> QED
          BY <2>1, <2>3, <2>4, <3>1, <4>2, <5>1 DEF Destroying, Pinning
      <4>3. CASE u # t /\ pc[u] \in Pinning
        <5>1. hash[NameOf[room[u]]] = room[u] \/ destruct[room[u]]
          BY <3>1, <4>3 DEF EntryInv
        <5> QED
          BY <2>1, <2>2, <2>3, <2>4, <3>1, <4>3, <5>1
          DEF Destroying, Pinning
      <4> QED BY <2>1, <4>1, <4>2, <4>3
    <3>3. \A u \in Threads : pc'[u] \in Destroying => pc[u] \in Destroying
      BY <2>1 DEF Destroying
    <3> QED BY <2>1, <3>1, <3>2, <3>3 DEF EntryInv
  <2> QED BY <2>0, <2>1, <2>2, <2>5 DEF OnceInv
<1>12. CASE \/ Sweep
            \/ \E r \in Rooms : ProducerExit(r) \/ ProducerFails(r)
  <2>1. UNCHANGED <<hash, destruct, destroyed, twice, pc, room>>
    BY <1>12
    DEF Sweep, SweepBegin, SweepEnd, SweeperExit, ProducerExit, ProducerFails
  <2> QED BY <2>1 DEF OnceInv, EntryInv
<1> closer \in Threads
  BY DEF Threads
<1>13. CASE UnloadStep \/ CloseDone
  <2>1. /\ UNCHANGED <<hash, destruct, destroyed, twice, room>>
        /\ \A u \in Threads \ {closer} : pc'[u] = pc[u]
        /\ pc'[closer] \in {"await", "stop", "idle", "unloaded"}
    BY <1>13, Updates
    DEF UnloadStep, Unload, AwaitHousekeeping, JoinEmitter, CloseDone
  <2> QED BY <2>1, OnceStands DEF Past, Destroying, Pinning
<1>14. CASE CloseNext
  <2>1. PICK n \in Names : /\ hash[n] # NoRoom /\ Keep(closer, hash[n])
                           /\ Note(closer, hash[n])
    BY <1>14 DEF CloseNext
  <2>2. NameOf[hash[n]] = n
    BY <2>1 DEF LifeInv, HashInv
  <2>3. /\ Goto(closer, "begin") /\ UNCHANGED <<hash, destruct, destroyed>>
    BY <1>14 DEF CloseNext
  <2>4. ASSUME twice' = {}
        PROVE  /\ twice = {}
               /\ \A u \in Threads \ {closer} :
                    pc[u] \in Destroying => room[u] # hash[n]
    BY <2>1, <2>4 DEF Note
  <2>5. /\ pc'[closer] = "begin" /\ room'[closer] = hash[n]
        /\ \A u \in Threads \ {closer} : pc'[u] = pc[u] /\ room'[u] = room[u]
    BY <2>1, <2>3, Updates
  <2> QED BY <2>2, <2>3, <2>4, <2>5, OnceStands DEF Past, Pinning
<1>15. ASSUME NEW t \in Threads, UseFreed(t)  PROVE OnceInv'
  BY <1>15 DEF UseFreed, OnceInv, EntryInv
<1> QED
  BY <1>1, <1>2, <1>3, <1>4, <1>5, <1>6, <1>7, <1>8, <1>9, <1>10, <1>11,
     <1>12, <1>13, <1>14, <1>15
  DEF Next, DestroyStep

(* A room leaves the hash only when it is itself destroyed, as long as no  *)
(* room is destroyed twice and no freed memory has been used.              *)
THEOREM EntriesDeletedByOwner == Spec => OwnEntryDeleted
<1>1. ASSUME Init  PROVE DyingInv /\ OnceInv
  BY <1>1, LifetimeAssumption
  DEF Init, DyingInv, OnceInv, EntryInv, Past, Pinning, Destroying, Threads
<1>2. TypeOK /\ LifeInv /\ DyingInv /\ [Next]_vars => DyingInv'
  BY DyingKept
<1>3. TypeOK /\ LifeInv /\ DyingInv /\ OnceInv /\ [Next]_vars => OnceInv'
  BY OnceKept
<1>4. ASSUME TypeOK, OnceInv, [Next]_vars
      PROVE  [\A n \in Names :
                /\ twice = {} /\ ~ wild
                /\ hash[n] # NoRoom /\ hash'[n] # hash[n]
                => destroyed[hash[n]]]_vars
  <2> SUFFICES ASSUME NEW n \in Names, twice = {}, hash[n] # NoRoom,
                      hash'[n] # hash[n]
               PROVE  destroyed[hash[n]]
    OBVIOUS
  <2>1. PICK t \in Threads : Insert(t) \/ Unhash(t)
    BY <1>4
    DEF Next, vars, globals, Find, Allocate, Ref, Release, InsertFails,
        StoreRef, Destroy, DestroyStep, MarkDestruct, MarkDestroyed,
        Drained, DrainTimeout, JoinProducer, Free, ProducerExit,
        ProducerFails, Sweep, SweepBegin, SweepEnd, SweeperExit,
        UnloadStep, Unload, AwaitHousekeeping, JoinEmitter, CloseNext,
        CloseDone, UseFreed
  <2>2. ~ Insert(t)
    BY <1>4 DEF Insert, TypeOK
  <2>3. pc[t] = "unhash" /\ n = NameOf[room[t]]
    BY <1>4, <2>1, <2>2 DEF Unhash, TypeOK
  <2>4. hash[n] = room[t] /\ destroyed[room[t]]
    BY <1>4, <2>3 DEF OnceInv, EntryInv, Destroying, Past
  <2> QED BY <2>4
<1> QED
  BY <1>1, <1>2, <1>3, <1>4, LifetimeTypes, LifeInvariant, PTL
  DEF Spec, OwnEntryDeleted
=============================================================================
