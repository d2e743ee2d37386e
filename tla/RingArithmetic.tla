--------------------------- MODULE RingArithmetic ---------------------------
(***************************************************************************)
(* The one fact about slots that both rings rest on: the audio ring        *)
(* addresses ring[seq % ring_size], the event ring                         *)
(* event_ring[prod % event_ring_size].                                     *)
(***************************************************************************)
EXTENDS Integers, TLAPS

(* Two indices less than a ring apart fall in different slots.             *)
LEMMA SlotsDistinct ==
  ASSUME NEW R \in Nat \ {0}, NEW a \in Nat, NEW b \in Nat, a < b, b < a + R
  PROVE  a % R # b % R
<1>1. a = (R * (a \div R)) + (a % R) /\ b = (R * (b \div R)) + (b % R)
  OBVIOUS
<1>2. a \div R \in Int /\ b \div R \in Int /\ a % R \in Int
  OBVIOUS
<1>3. SUFFICES ASSUME a % R = b % R  PROVE FALSE
  OBVIOUS
<1> DEFINE k == (b \div R) - (a \div R)
<1>4. k \in Int
  BY <1>2
<1>5. b - a = R * k
  BY <1>1, <1>2, <1>3
<1> HIDE DEF k
<1>6. CASE k <= 0
  <2>1. R * k <= 0
    BY <1>4, <1>6
  <2> QED BY <2>1, <1>5
<1>7. CASE k >= 1
  <2>1. R * k >= R
    BY <1>4, <1>7
  <2> QED BY <2>1, <1>5
<1> QED BY <1>4, <1>6, <1>7

(* Every index has a slot.                                                 *)
LEMMA SlotInRange ==
  ASSUME NEW R \in Nat \ {0}, NEW a \in Nat
  PROVE  a % R \in 0 .. R - 1
OBVIOUS
=============================================================================
