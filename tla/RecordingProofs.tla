-------------------------- MODULE RecordingProofs ---------------------------
(***************************************************************************)
(* Proofs about a room's recordings, for any number of them and of threads *)
(* that stop them: the list keeps its shape through starts, failed starts  *)
(* and stops in any order, and no recording is freed or left behind under  *)
(* its writer but in the cases the history variables name.                 *)
(***************************************************************************)
EXTENDS Recording, TLAPS

Pointers == Recs \cup {Null}
Links == [Recs -> Pointers]

(* Walks along links.  A walk is the least set that contains its start and *)
(* that the links do not leave, so what it stays in is shown by naming a   *)
(* closed set.                                                             *)
LEMMA WalkLeast ==
  ASSUME NEW nx, NEW p, NEW S \in SUBSET Recs, Closed(S, nx, p)
  PROVE  Walk(nx, p) \subseteq S
BY DEF Walk

LEMMA WalkRecs ==
  ASSUME NEW nx, NEW p
  PROVE  Walk(nx, p) \in SUBSET Recs
BY DEF Walk

LEMMA WalkStep ==
  ASSUME NEW nx \in Links, NEW p, NEW x \in Walk(nx, p), nx[x] # Null
  PROVE  nx[x] \in Walk(nx, p)
BY DEF Walk, Closed, Links, Pointers

LEMMA WalkStart ==
  ASSUME NEW nx, NEW p \in Recs
  PROVE  p \in Walk(nx, p)
BY RecordingAssumption DEF Walk, Closed

LEMMA WalkNull ==
  ASSUME NEW nx
  PROVE  Walk(nx, Null) = {}
<1>1. Closed({}, nx, Null)
  BY DEF Closed
<1> QED BY <1>1, WalkLeast

LEMMA WalkClosed ==
  ASSUME NEW nx \in Links, NEW p \in Pointers
  PROVE  Closed(Walk(nx, p), nx, p)
BY WalkStep, WalkStart DEF Closed, Pointers

LEMMA WalkInside ==
  ASSUME NEW nx \in Links, NEW p \in Pointers, NEW x \in Walk(nx, p)
  PROVE  Walk(nx, x) \subseteq Walk(nx, p)
<1>1. Closed(Walk(nx, p), nx, x)
  BY WalkClosed DEF Closed
<1> QED BY <1>1, WalkLeast, WalkRecs

LEMMA WalkUnfold ==
  ASSUME NEW nx \in Links, NEW p \in Recs
  PROVE  Walk(nx, p) = {p} \cup Walk(nx, nx[p])
<1>1. nx[p] \in Pointers
  BY DEF Links
<1>2. Closed({p} \cup Walk(nx, nx[p]), nx, p)
  BY <1>1, WalkClosed DEF Closed
<1>3. Walk(nx, p) \subseteq {p} \cup Walk(nx, nx[p])
  BY <1>2, WalkLeast, WalkRecs
<1>4. p \in Walk(nx, p)
  BY WalkStart
<1>5. Walk(nx, nx[p]) \subseteq Walk(nx, p)
  <2>1. CASE nx[p] = Null
    BY <2>1, WalkNull
  <2>2. CASE nx[p] # Null
    <3>1. nx[p] \in Walk(nx, p)
      BY <1>4, <2>2, WalkStep
    <3> QED BY <3>1, WalkInside DEF Pointers
  <2> QED BY <2>1, <2>2
<1> QED BY <1>3, <1>4, <1>5

(* Whatever a walk meets after its start it meets from behind.             *)
LEMMA WalkBehind ==
  ASSUME NEW nx \in Links, NEW p \in Pointers, NEW x \in Walk(nx, p), x # p
  PROVE  \E y \in Walk(nx, p) : nx[y] = x
<1> SUFFICES ASSUME \A y \in Walk(nx, p) : nx[y] # x
             PROVE  FALSE
  OBVIOUS
<1>1. Closed(Walk(nx, p) \ {x}, nx, p)
  BY WalkClosed DEF Closed
<1> QED BY <1>1, WalkLeast, WalkRecs

(* Links changed off a walk do not change the walk.                        *)
LEMMA WalkUntouched ==
  ASSUME NEW nx \in Links, NEW my \in Links, NEW p \in Pointers,
         \A x \in Walk(nx, p) : my[x] = nx[x]
  PROVE  Walk(my, p) = Walk(nx, p)
<1>1. Closed(Walk(nx, p), my, p)
  BY WalkClosed DEF Closed
<1>2. Walk(my, p) \subseteq Walk(nx, p)
  BY <1>1, WalkLeast, WalkRecs
<1>3. Closed(Walk(my, p), nx, p)
  BY <1>2, WalkClosed DEF Closed
<1> QED BY <1>2, <1>3, WalkLeast, WalkRecs
-----------------------------------------------------------------------------
(* Lists: links without a cycle, on which every walk comes to an end.      *)
Acyclic(nx) == \A r \in Recs : r \notin Walk(nx, nx[r])
Ended(nx) == \A r \in Recs : \E e \in Walk(nx, r) : nx[e] = Null

(* Of two recordings on a list one comes after the other.                  *)
LEMMA WalkLinear ==
  ASSUME NEW nx \in Links, NEW h \in Pointers,
         NEW x \in Walk(nx, h), NEW y \in Walk(nx, h)
  PROVE  x \in Walk(nx, y) \/ y \in Walk(nx, x)
<1> DEFINE T == {z \in Walk(nx, h) : z \in Walk(nx, y) \/ y \in Walk(nx, z)}
<1>1. h \in T \cup {Null}
  BY WalkClosed DEF Closed
<1>2. ASSUME NEW z \in T, nx[z] # Null  PROVE nx[z] \in T
  <2>1. z \in Recs /\ nx[z] \in Walk(nx, h)
    BY <1>2, WalkStep, WalkRecs
  <2>2. CASE z \in Walk(nx, y)
    BY <1>2, <2>1, <2>2, WalkStep
  <2>3. CASE y \in Walk(nx, z)
    <3>1. y = z \/ y \in Walk(nx, nx[z])
      BY <2>1, <2>3, WalkUnfold
    <3>2. y = z => nx[z] \in Walk(nx, y)
      BY <1>2, <2>1, WalkStep, WalkStart
    <3> QED BY <2>1, <3>1, <3>2
  <2> QED BY <2>2, <2>3
<1>3. Closed(T, nx, h) /\ T \in SUBSET Recs
  BY <1>1, <1>2, WalkRecs DEF Closed
<1>4. Walk(nx, h) \subseteq T
  BY <1>3, WalkLeast
<1> QED BY <1>4

(* On a list without a cycle one recording at most is behind another.      *)
LEMMA OneBehind ==
  ASSUME NEW nx \in Links, Acyclic(nx), NEW h \in Pointers,
         NEW x \in Walk(nx, h), NEW y \in Walk(nx, h),
         nx[x] = nx[y], nx[x] # Null
  PROVE  x = y
<1>1. x \in Recs /\ y \in Recs
  BY WalkRecs
<1>2. ASSUME NEW a \in Recs, NEW b \in Recs, nx[a] = nx[b],
             a \in Walk(nx, b)
      PROVE  a = b
  <2>1. a \in Walk(nx, nx[b]) => FALSE
    BY <1>2 DEF Acyclic
  <2> QED BY <1>2, <2>1, WalkUnfold
<1> QED BY <1>1, <1>2, WalkLinear

(* Nothing on a list without a cycle leads back to its head.               *)
LEMMA HeadFirst ==
  ASSUME NEW nx \in Links, Acyclic(nx), NEW h \in Recs,
         NEW x \in Walk(nx, h)
  PROVE  nx[x] # h
<1>1. x \in Recs
  BY WalkRecs
<1>2. nx[x] = h => x \in Walk(nx, nx[x])
  OBVIOUS
<1> QED BY <1>1, <1>2 DEF Acyclic
-----------------------------------------------------------------------------
(* The reversal of the list at h, as broadcast_record_stop leaves it.      *)
Reversed(nx, h) ==
  [r \in Recs |-> IF r \in Walk(nx, h) \ {h}
                  THEN CHOOSE p \in Walk(nx, h) : nx[p] = r
                  ELSE IF r = h THEN Null ELSE nx[r]]

LEMMA ReversedLinks ==
  ASSUME NEW nx \in Links, NEW h \in Pointers
  PROVE  /\ Reversed(nx, h) \in Links
         /\ h \in Recs => Reversed(nx, h)[h] = Null
         /\ \A r \in Walk(nx, h) \ {h} :
              /\ Reversed(nx, h)[r] \in Walk(nx, h)
              /\ nx[Reversed(nx, h)[r]] = r
         /\ \A r \in Recs \ Walk(nx, h) : Reversed(nx, h)[r] = nx[r]
<1> DEFINE W == Walk(nx, h)
<1>0. W \subseteq Recs /\ (h \in Recs => h \in W)
  BY WalkRecs, WalkStart
<1>1. ASSUME NEW r \in W \ {h}
      PROVE  /\ Reversed(nx, h)[r] \in W
             /\ nx[Reversed(nx, h)[r]] = r
  <2>1. \E p \in W : nx[p] = r
    BY <1>1, WalkBehind
  <2>2. Reversed(nx, h)[r] = CHOOSE p \in W : nx[p] = r
    BY <1>0, <1>1 DEF Reversed
  <2> QED BY <2>1, <2>2
<1>2. h \in Recs => Reversed(nx, h)[h] = Null
  BY DEF Reversed
<1>3. \A r \in Recs \ W : Reversed(nx, h)[r] = nx[r]
  <2> TAKE r \in Recs \ W
  <2>1. r # h
    BY <1>0
  <2> QED BY <2>1 DEF Reversed
<1>4. \A r \in Recs : Reversed(nx, h)[r] \in Pointers
  <2> TAKE r \in Recs
  <2>1. CASE r \in W \ {h}
    BY <1>0, <1>1, <2>1 DEF Pointers
  <2>2. CASE r = h
    BY <1>2, <2>2 DEF Pointers
  <2>3. CASE r \notin W
    BY <1>3, <2>3 DEF Links
  <2> QED BY <2>1, <2>2, <2>3
<1>5. Reversed(nx, h) \in Links
  BY <1>4 DEF Links, Reversed
<1> QED BY <1>1, <1>2, <1>3, <1>5

(* The reversed list stays what it was, as a set.                          *)
LEMMA ReversedStays ==
  ASSUME NEW nx \in Links, NEW h \in Pointers, NEW x \in Walk(nx, h)
  PROVE  Walk(Reversed(nx, h), x) \subseteq Walk(nx, h)
<1>1. Closed(Walk(nx, h), Reversed(nx, h), x)
  <2> SUFFICES ASSUME NEW r \in Walk(nx, h)
               PROVE  Reversed(nx, h)[r] \in Walk(nx, h) \cup {Null}
    BY DEF Closed
  <2>1. CASE r = h
    BY <2>1, WalkRecs, ReversedLinks
  <2>2. CASE r # h
    BY <2>2, ReversedLinks
  <2> QED BY <2>1, <2>2
<1> QED BY <1>1, WalkLeast, WalkRecs

(* A walk on the reversed list goes back along the list.                   *)
LEMMA ReversedBack ==
  ASSUME NEW nx \in Links, Acyclic(nx), NEW h \in Pointers,
         NEW x \in Walk(nx, h), NEW y \in Walk(nx, x)
  PROVE  x \in Walk(Reversed(nx, h), y)
<1> DEFINE my == Reversed(nx, h)
           T == {z \in Walk(nx, h) : x \in Walk(my, z)}
<1>0. x \in Recs /\ my \in Links /\ h \in Recs /\ x \in Pointers
  BY WalkRecs, WalkNull, ReversedLinks DEF Pointers
<1>1. x \in T
  BY <1>0, WalkStart
<1>2. ASSUME NEW z \in T, nx[z] # Null  PROVE nx[z] \in T
  <2>1. z \in Recs /\ nx[z] \in Walk(nx, h) /\ nx[z] \in Recs
    BY <1>2, WalkStep, WalkRecs
  <2>2. nx[z] # h
    BY <1>0, <1>2, HeadFirst
  <2>3. my[nx[z]] \in Walk(nx, h) /\ nx[my[nx[z]]] = nx[z]
    BY <2>1, <2>2, ReversedLinks
  <2>4. my[nx[z]] = z
    BY <1>2, <2>3, OneBehind
  <2>5. Walk(my, nx[z]) = {nx[z]} \cup Walk(my, z)
    BY <1>0, <2>1, <2>4, WalkUnfold
  <2> QED BY <2>1, <2>5
<1>3. Closed(T, nx, x) /\ T \in SUBSET Recs
  BY <1>1, <1>2, WalkRecs DEF Closed
<1> HIDE DEF T, my
<1>4. Walk(nx, x) \subseteq T
  BY <1>3, WalkLeast
<1> QED BY <1>4 DEF T, my

(* From the end of a list the reversed links meet all of it.               *)
LEMMA ReversedWhole ==
  ASSUME NEW nx \in Links, Acyclic(nx), NEW h \in Pointers,
         NEW e \in Walk(nx, h), nx[e] = Null
  PROVE  Walk(Reversed(nx, h), e) = Walk(nx, h)
<1>1. e \in Recs /\ Walk(nx, e) = {e}
  BY WalkRecs, WalkUnfold, WalkNull
<1>2. ASSUME NEW x \in Walk(nx, h)  PROVE x \in Walk(Reversed(nx, h), e)
  <2>1. e \in Walk(nx, x)
    BY <1>1, <1>2, WalkLinear
  <2> QED BY <1>2, <2>1, ReversedBack
<1> QED BY <1>2, ReversedStays

LEMMA ReversedAcyclic ==
  ASSUME NEW nx \in Links, Acyclic(nx), NEW h \in Pointers
  PROVE  Acyclic(Reversed(nx, h))
<1> DEFINE my == Reversed(nx, h)
           W == Walk(nx, h)
<1>0. my \in Links /\ W \in SUBSET Recs
  BY ReversedLinks, WalkRecs
<1> SUFFICES ASSUME NEW r \in Recs, r \in Walk(my, my[r])
             PROVE  FALSE
  BY DEF Acyclic
<1>1. CASE r \in W
  (* The recordings before r.                                              *)
  <2> DEFINE T == {z \in W : r \in Walk(nx, nx[z])}
  <2>1. ASSUME NEW z \in W, my[z] # Null
        PROVE  my[z] \in W /\ nx[my[z]] = z
    <3>1. z # h
      BY <2>1, <1>0, ReversedLinks
    <3> QED BY <2>1, <3>1, ReversedLinks
  <2>2. my[r] \in T \cup {Null}
    <3>1. CASE my[r] # Null
      <4>1. my[r] \in W /\ nx[my[r]] = r
        BY <1>1, <2>1, <3>1
      <4> QED BY <4>1, WalkStart
    <3> QED BY <3>1
  <2>3. ASSUME NEW z \in T  PROVE my[z] \in T \cup {Null}
    <3>1. CASE my[z] # Null
      <4>1. my[z] \in W /\ nx[my[z]] = z /\ z \in Recs
        BY <1>0, <2>1, <2>3, <3>1
      <4>2. r \in Walk(nx, z)
        BY <2>3, <4>1, WalkUnfold
      <4> QED BY <4>1, <4>2
    <3> QED BY <3>1
  <2>4. Closed(T, my, my[r]) /\ T \in SUBSET Recs
    BY <1>0, <2>2, <2>3 DEF Closed
  <2>5. r \notin T
    BY DEF Acyclic
  <2> HIDE DEF T
  <2> QED BY <2>4, <2>5, WalkLeast
<1>2. CASE r \notin W
  <2> DEFINE T == Walk(nx, nx[r]) \cup W
  <2>1. my[r] = nx[r] /\ nx[r] \in Pointers
    BY <1>2, ReversedLinks DEF Links
  <2>2. my[r] \in T \cup {Null}
    BY <2>1, WalkClosed DEF Closed
  <2>3. ASSUME NEW z \in T  PROVE my[z] \in T \cup {Null}
    <3>1. CASE z \in W
      BY <1>0, <3>1, ReversedLinks
    <3>2. CASE z \notin W
      <4>1. z \in Recs /\ my[z] = nx[z]
        BY <2>3, <3>2, ReversedLinks, WalkRecs
      <4> QED BY <2>1, <2>3, <3>2, <4>1, WalkClosed DEF Closed
    <3> QED BY <3>1, <3>2
  <2>4. Closed(T, my, my[r]) /\ T \in SUBSET Recs
    BY <1>0, <2>2, <2>3, WalkRecs DEF Closed
  <2>5. r \notin T
    BY <1>2 DEF Acyclic
  <2> HIDE DEF T
  <2> QED BY <2>4, <2>5, WalkLeast
<1> QED BY <1>1, <1>2

LEMMA ReversedEnded ==
  ASSUME NEW nx \in Links, Acyclic(nx), Ended(nx), NEW h \in Pointers
  PROVE  Ended(Reversed(nx, h))
<1> DEFINE my == Reversed(nx, h)
           W == Walk(nx, h)
<1>0. my \in Links /\ W \in SUBSET Recs
  BY ReversedLinks, WalkRecs
<1> SUFFICES ASSUME NEW q \in Recs
             PROVE  \E e \in Walk(my, q) : my[e] = Null
  BY DEF Ended
<1>1. CASE \E y \in Walk(my, q) : y \in W
  <2>1. PICK y \in Walk(my, q) : y \in W
    BY <1>1
  <2>2. h \in Recs /\ my[h] = Null /\ h \in W
    BY <2>1, WalkNull, WalkStart, ReversedLinks DEF Pointers
  <2>3. h \in Walk(my, y)
    BY <2>1, <2>2, ReversedBack
  <2>4. h \in Walk(my, q)
    BY <1>0, <2>1, <2>3, WalkInside DEF Pointers
  <2> QED BY <2>2, <2>4
<1>2. CASE \A y \in Walk(my, q) : y \notin W
  <2>1. \A y \in Walk(my, q) : my[y] = nx[y]
    BY <1>2, ReversedLinks, WalkRecs
  <2>2. Walk(nx, q) = Walk(my, q)
    BY <1>0, <2>1, WalkUntouched DEF Pointers
  <2> QED BY <2>1, <2>2 DEF Ended
<1> QED BY <1>1, <1>2
-----------------------------------------------------------------------------
(* Links changed at one recording do not change a walk that misses it.     *)
LEMMA WalkApart ==
  ASSUME NEW nx \in Links, NEW my \in Links, NEW r \in Recs,
         \A x \in Recs \ {r} : my[x] = nx[x],
         NEW p \in Pointers, r \notin Walk(nx, p)
  PROVE  Walk(my, p) = Walk(nx, p)
<1>1. \A x \in Walk(nx, p) : my[x] = nx[x]
  BY WalkRecs
<1> QED BY <1>1, WalkUntouched

LEMMA WalkMisses ==
  ASSUME NEW nx \in Links, NEW r \in Recs, \A x \in Recs : nx[x] # r,
         NEW p \in Pointers, p # r
  PROVE  r \notin Walk(nx, p)
BY WalkBehind, WalkRecs

(* A recording to which nothing points is put before a list.               *)
LEMMA LinkAhead ==
  ASSUME NEW nx \in Links, NEW my \in Links, NEW r \in Recs, my[r] # r,
         \A x \in Recs : nx[x] # r, \A x \in Recs \ {r} : my[x] = nx[x],
         Acyclic(nx), Ended(nx)
  PROVE  Acyclic(my) /\ Ended(my)
<1>1. \A p \in Pointers \ {r} :
        Walk(my, p) = Walk(nx, p) /\ r \notin Walk(nx, p)
  BY WalkApart, WalkMisses
<1>2. ASSUME NEW x \in Recs  PROVE x \notin Walk(my, my[x])
  <2>1. my[x] \in Pointers \ {r}
    BY DEF Links
  <2>2. CASE x = r
    BY <1>1, <2>1, <2>2
  <2>3. CASE x # r
    BY <1>1, <2>1, <2>3 DEF Acyclic
  <2> QED BY <2>2, <2>3
<1>3. ASSUME NEW p \in Recs \ {r}
      PROVE  \E e \in Walk(my, p) : my[e] = Null
  <2>1. Walk(my, p) = Walk(nx, p) /\ r \notin Walk(nx, p)
    BY <1>1, <1>3 DEF Pointers
  <2>2. PICK e \in Walk(nx, p) : nx[e] = Null
    BY <1>3 DEF Ended
  <2>3. e \in Recs \ {r}
    BY <2>1, <2>2, WalkRecs
  <2> QED BY <2>1, <2>2, <2>3
<1>4. \E e \in Walk(my, r) : my[e] = Null
  <2>1. Walk(my, r) = {r} \cup Walk(my, my[r])
    BY WalkUnfold
  <2>2. my[r] # Null => my[r] \in Recs \ {r}
    BY DEF Links, Pointers
  <2> QED BY <1>3, <2>1, <2>2
<1> QED BY <1>2, <1>3, <1>4 DEF Acyclic, Ended

(* A recording is cut from what follows it.                                *)
LEMMA LinkCut ==
  ASSUME NEW nx \in Links, NEW my \in Links, NEW r \in Recs, my[r] = Null,
         \A x \in Recs \ {r} : my[x] = nx[x],
         Acyclic(nx), Ended(nx)
  PROVE  Acyclic(my) /\ Ended(my)
<1>1. ASSUME NEW p \in Pointers  PROVE Walk(my, p) \subseteq Walk(nx, p)
  <2>1. Closed(Walk(nx, p), nx, p) /\ Walk(nx, p) \in SUBSET Recs
    BY <1>1, WalkClosed, WalkRecs
  <2>2. Closed(Walk(nx, p), my, p)
    BY <2>1 DEF Closed
  <2> QED BY <2>1, <2>2, WalkLeast
<1>2. ASSUME NEW x \in Recs  PROVE x \notin Walk(my, my[x])
  <2>1. CASE x = r
    BY <2>1, WalkNull
  <2>2. CASE x # r
    <3>1. my[x] = nx[x] /\ nx[x] \in Pointers
      BY <2>2 DEF Links
    <3> QED BY <1>1, <3>1 DEF Acyclic
  <2> QED BY <2>1, <2>2
<1>3. ASSUME NEW q \in Recs  PROVE \E e \in Walk(my, q) : my[e] = Null
  <2>1. CASE r \in Walk(my, q)
    BY <2>1
  <2>2. CASE r \notin Walk(my, q)
    <3>1. Walk(nx, q) = Walk(my, q)
      BY <2>2, WalkApart DEF Pointers
    <3>2. \A x \in Walk(my, q) : nx[x] = my[x]
      BY <2>2, WalkRecs
    <3> QED BY <3>1, <3>2 DEF Ended
  <2> QED BY <2>1, <2>2
<1> QED BY <1>2, <1>3 DEF Acyclic, Ended
-----------------------------------------------------------------------------
(* The recordings that have been on the list.                              *)
Inserted == {r \in Recs : start[r] \notin {"idle", "insert"}}

(* The head, the links and the lists of the threads that stop lead to      *)
(* recordings that have been listed, and the links form lists.             *)
Shape ==
  /\ head \in Inserted \cup {Null}
  /\ \A r \in Recs : next[r] \in Inserted \cup {Null}
  /\ \A s \in Enders : stopped[s] \in Inserted \cup {Null}
  /\ Acyclic(next) /\ Ended(next)

LEMMA ListedInserted ==
  ASSUME TypeOK, Shape, NEW p \in Inserted \cup {Null}
  PROVE  From(p) \subseteq Inserted
<1>1. Closed(Inserted, next, p) /\ Inserted \in SUBSET Recs
  BY DEF Shape, Closed, Inserted
<1> QED BY <1>1, WalkLeast DEF From

(* A list that is taken is the one at the head, reversed, and begins with  *)
(* the list's end.                                                         *)
LEMMA ListTaken ==
  ASSUME TypeOK, Shape, NEW s \in Enders, TakeList(s)
  PROVE  /\ next' = Reversed(next, head) /\ next' \in Links
         /\ head' = Null /\ flag' = FALSE
         /\ stopped' = [stopped EXCEPT ![s] = stopped'[s]]
         /\ head = Null => stopped'[s] = Null
         /\ head # Null => stopped'[s] \in Listed /\ next[stopped'[s]] = Null
<1>1. next \in Links /\ head \in Pointers
  BY DEF TypeOK, Links, Pointers
<1>2. next' = Reversed(next, head)
  BY DEF TakeList, Reversed, Listed, From
<1>3. next' \in Links
  BY <1>1, <1>2, ReversedLinks
<1>4. stopped' = [stopped EXCEPT ![s] = stopped'[s]]
  BY DEF TakeList, TypeOK
<1>5. stopped'[s] = IF head = Null THEN Null
                    ELSE CHOOSE r \in Listed : next[r] = Null
  BY DEF TakeList, TypeOK
<1>6. head # Null => \E r \in Listed : next[r] = Null
  BY DEF TypeOK, Shape, Ended, Listed, From
<1>7. head # Null => stopped'[s] \in Listed /\ next[stopped'[s]] = Null
  BY <1>5, <1>6
<1> QED BY <1>2, <1>3, <1>4, <1>5, <1>7 DEF TakeList

LEMMA FlagsTyped ==
  ASSUME TypeOK, [Next]_vars
  PROVE  /\ flag' \in BOOLEAN /\ file' \in [Recs -> BOOLEAN]
         /\ running' \in [Recs -> BOOLEAN] /\ overrun' \in BOOLEAN
<1>1. ASSUME NEW r \in Recs, Open(r) \/ CreateFails(r) \/ CloseFile(r)
      PROVE  file' \in [Recs -> BOOLEAN]
  BY <1>1, Zenon DEF TypeOK, Open, CreateFails, CloseFile
<1>2. ASSUME NEW r \in Recs, Open(r) \/ TimerFails(r) \/ WriteError(r)
      PROVE  running' \in [Recs -> BOOLEAN]
  BY <1>2, Zenon DEF TypeOK, Open, TimerFails, WriteError
<1>3. ASSUME NEW s \in Enders, UnlinkAll(s)
      PROVE  running' \in [Recs -> BOOLEAN] /\ flag' \in BOOLEAN
  <2>1. \A r \in Recs : (running[r] /\ r \notin Listed) \in BOOLEAN
    OBVIOUS
  <2> QED BY <1>3, <2>1, Zenon DEF UnlinkAll, TakeList
<1> QED BY <1>1, <1>2, <1>3 DEF TypeOK, Next, vars, list, recs, threads,
      history, Starter, Writer, Ender, Open, Insert, CreateThread, CreateFails,
      SetFlag, Norecord, UnlinkAll, Wind, WindEnd, WriterBegin, TimerFails,
      WriteError, LoopEnds, CloseFile, Refuse, MarkDestroyed, FreeRoom,
      TakeList

LEMMA StepsTyped ==
  ASSUME TypeOK, [Next]_vars
  PROVE  /\ memory' \in [Recs -> {"unused", "live", "freed"}]
         /\ writer' \in [Recs -> {"none", "born", "loop", "close", "done"}]
         /\ start' \in [Recs -> {"idle", "insert", "create", "flag", "done"}]
         /\ stop' \in [Enders -> {"idle", "unlink", "wind", "done"}]
         /\ room' \in {"open", "refusing", "destroyed", "freed"}
         /\ timerless' \subseteq Recs /\ orphans' \subseteq Recs
         /\ late' \subseteq Recs
<1>1. Listed \subseteq Recs /\ destroyer \in Enders
  BY WalkRecs DEF Listed, From, Enders
<1>2. CASE UNCHANGED vars
  BY <1>2 DEF TypeOK, vars, recs, threads, history
<1>3. ASSUME NEW r \in Recs, Open(r) \/ Starter(r)
      PROVE  /\ memory' \in [Recs -> {"unused", "live", "freed"}]
             /\ writer' \in [Recs -> {"none", "born", "loop", "close", "done"}]
             /\ start' \in
                  [Recs -> {"idle", "insert", "create", "flag", "done"}]
             /\ stop' = stop /\ room' = room /\ timerless' = timerless
             /\ orphans' \subseteq Recs /\ late' \subseteq Recs
  BY <1>1, <1>3 DEF TypeOK, Starter, Open, Insert, CreateThread, CreateFails,
       SetFlag, recs, history
<1>4. ASSUME NEW r \in Recs, Writer(r)
      PROVE  /\ writer' \in [Recs -> {"none", "born", "loop", "close", "done"}]
             /\ timerless' \subseteq Recs
             /\ UNCHANGED <<memory, start, stop, room, orphans, late>>
  BY <1>4 DEF TypeOK, Writer, WriterBegin, TimerFails, WriteError, LoopEnds,
       CloseFile, threads, history
<1>5. ASSUME NEW s \in Enders, Norecord(s) \/ Ender(s)
      PROVE  /\ memory' \in [Recs -> {"unused", "live", "freed"}]
             /\ stop' \in [Enders -> {"idle", "unlink", "wind", "done"}]
             /\ UNCHANGED <<writer, start, room, timerless, orphans, late>>
  BY <1>5 DEF TypeOK, Ender, Norecord, UnlinkAll, Wind, WindEnd, After, recs,
       history
<1>6. CASE Refuse \/ MarkDestroyed \/ FreeRoom
  BY <1>1, <1>6 DEF TypeOK, Refuse, MarkDestroyed, FreeRoom, recs, threads,
       history
<1> QED BY <1>2, <1>3, <1>4, <1>5, <1>6 DEF Next, TypeOK

(* Links that lead to recordings that have been listed go on doing so.     *)
LEMMA InsertedStay ==
  ASSUME TypeOK, [Next]_vars
  PROVE  Inserted \subseteq Inserted'
BY DEF TypeOK, Inserted, Next, vars, recs, threads, Starter, Writer, Ender,
     Open, Insert, CreateThread, CreateFails, SetFlag, Norecord, UnlinkAll,
     Wind, WindEnd, WriterBegin, TimerFails, WriteError, LoopEnds, CloseFile,
     Refuse, MarkDestroyed, FreeRoom

LEMMA ShapeKept ==
  ASSUME TypeOK, Shape, [Next]_vars
  PROVE  TypeOK' /\ Shape'
<1>1. next \in Links /\ head \in Pointers /\ stopped \in [Enders -> Pointers]
  BY DEF TypeOK, Links, Pointers
<1>2. Inserted \subseteq Recs /\ Inserted \subseteq Inserted'
        /\ Inserted' \subseteq Recs
  BY InsertedStay DEF Inserted
<1> DEFINE Kept == /\ head' \in Inserted' \cup {Null}
                   /\ next' \in Links
                   /\ \A r \in Recs : next'[r] \in Inserted' \cup {Null}
                   /\ stopped' \in [Enders -> Pointers]
                   /\ \A s \in Enders : stopped'[s] \in Inserted' \cup {Null}
                   /\ Acyclic(next') /\ Ended(next')
<1> SUFFICES Kept
  <2>1. head' \in Recs \cup {Null}
    BY <1>2
  <2>2. TypeOK'
    BY <2>1, FlagsTyped, StepsTyped DEF TypeOK, Links, Pointers
  <2>3. Shape'
    BY DEF Shape
  <2> QED BY <2>2, <2>3
<1>3. CASE UNCHANGED <<head, next, stopped>>
  BY <1>1, <1>2, <1>3 DEF Shape
<1>4. ASSUME NEW r \in Recs, Insert(r)  PROVE Kept
  <2>1. r \notin Inserted /\ r \in Inserted' /\ head' = r
          /\ next' = [next EXCEPT ![r] = head] /\ stopped' = stopped
    BY <1>4 DEF Insert, Inserted, TypeOK
  <2>2. head # r /\ \A x \in Recs : next[x] # r
    BY <2>1, RecordingAssumption DEF Shape
  <2>3. next' \in Links /\ next'[r] # r
          /\ \A x \in Recs \ {r} : next'[x] = next[x]
    BY <1>1, <2>1, <2>2 DEF Links
  <2>4. Acyclic(next') /\ Ended(next')
    BY <1>1, <2>2, <2>3, LinkAhead DEF Shape
  <2>5. \A x \in Recs : next'[x] \in Inserted \cup {Null}
    BY <1>1, <2>1 DEF Shape, Links
  <2> QED BY <1>1, <1>2, <2>1, <2>3, <2>4, <2>5 DEF Shape
<1>5. ASSUME NEW r \in Recs, CreateFails(r)  PROVE Kept
  BY <1>1, <1>2, <1>5 DEF Shape, CreateFails
<1>6. ASSUME NEW s \in Enders, UnlinkAll(s)  PROVE Kept
  <2>1. TakeList(s)
    BY <1>6 DEF UnlinkAll
  <2>2. Listed \subseteq Inserted
    BY ListedInserted DEF Shape, Listed
  <2>3. /\ next' = Reversed(next, head) /\ next' \in Links /\ head' = Null
        /\ stopped' = [stopped EXCEPT ![s] = stopped'[s]]
        /\ stopped'[s] \in Listed \cup {Null}
    BY <2>1, ListTaken
  <2>4. Acyclic(next') /\ Ended(next')
    BY <1>1, <2>3, ReversedAcyclic, ReversedEnded DEF Shape
  <2>5. \A u \in Enders : stopped'[u] \in Inserted \cup {Null}
    BY <1>1, <2>2, <2>3 DEF Shape
  <2>6. stopped' \in [Enders -> Pointers]
    BY <1>1, <1>2, <2>2, <2>3 DEF Pointers
  <2>7. ASSUME NEW r \in Recs  PROVE next'[r] \in Inserted \cup {Null}
    <3>1. CASE r \in Listed
      BY <1>1, <2>2, <2>3, <3>1, WalkRecs, ReversedLinks DEF Listed, From
    <3>2. CASE r \notin Listed
      BY <1>1, <2>3, <2>7, <3>2, ReversedLinks DEF Listed, From, Shape
    <3> QED BY <3>1, <3>2
  <2> QED BY <1>2, <2>3, <2>4, <2>5, <2>6, <2>7
<1>7. ASSUME NEW s \in Enders, Wind(s)  PROVE Kept
  <2>1. /\ stopped[s] \in Recs
        /\ next' = [next EXCEPT ![stopped[s]] = Null]
        /\ stopped' = [stopped EXCEPT ![s] = next[stopped[s]]]
        /\ head' = head
    BY <1>1, <1>7 DEF Wind, Pointers
  <2>2. next' \in Links /\ Acyclic(next') /\ Ended(next')
    <3>1. next' \in Links /\ next'[stopped[s]] = Null
            /\ \A x \in Recs \ {stopped[s]} : next'[x] = next[x]
      BY <1>1, <2>1 DEF Links, Pointers
    <3> QED BY <1>1, <2>1, <3>1, LinkCut DEF Shape
  <2>3. next[stopped[s]] \in Inserted \cup {Null}
    BY <2>1 DEF Shape
  <2>4. /\ \A r \in Recs : next'[r] \in Inserted \cup {Null}
        /\ \A u \in Enders : stopped'[u] \in Inserted \cup {Null}
    BY <1>1, <2>1, <2>3 DEF Shape, Links
  <2>5. stopped' \in [Enders -> Pointers]
    BY <1>1, <1>2, <2>1, <2>3 DEF Pointers
  <2> QED BY <1>2, <2>1, <2>2, <2>4, <2>5 DEF Shape
<1> QED BY <1>3, <1>4, <1>5, <1>6, <1>7 DEF Next, vars, list, threads,
      Starter, Writer, Ender, Open, CreateThread, SetFlag, Norecord, WindEnd,
      WriterBegin, TimerFails, WriteError, LoopEnds, CloseFile, Refuse,
      MarkDestroyed, FreeRoom

LEMMA ShapeAtFirst ==
  ASSUME Init
  PROVE  TypeOK /\ Shape
<1>1. TypeOK
  BY Zenon DEF Init, TypeOK
<1>2. \A r \in Recs : next[r] = Null
  BY DEF Init
<1>3. Acyclic(next) /\ Ended(next)
  BY <1>2, WalkNull, WalkStart DEF Acyclic, Ended
<1> QED BY <1>1, <1>2, <1>3 DEF Init, Shape

(* The variables of a room's recordings keep their types, and its links    *)
(* stay lists that end, through every order of starts, failed starts and   *)
(* stops: no loop of broadcast_record_stop over them runs for ever or      *)
(* meets a recording that was never listed, freed under its starter or     *)
(* not.                                                                    *)
THEOREM ListsKeepShape == Spec => [](TypeOK /\ Shape)
<1>1. Init => TypeOK /\ Shape
  BY ShapeAtFirst
<1>2. TypeOK /\ Shape /\ [Next]_vars => TypeOK' /\ Shape'
  BY ShapeKept
<1> QED BY <1>1, <1>2, PTL DEF Spec
-----------------------------------------------------------------------------
(* How far a start has come tells of its recording's memory, writer and    *)
(* file.                                                                   *)
StageInv ==
  \A r \in Recs :
    /\ start[r] = "idle" <=> memory[r] = "unused"
    /\ start[r] \in {"idle", "insert", "create"} => writer[r] = "none"
    /\ start[r] = "flag" => writer[r] # "none"
    /\ start[r] = "done" /\ writer[r] = "none" => ~ file[r]
    /\ writer[r] = "done" /\ file[r] => r \in timerless

LEMMA StageKept ==
  ASSUME TypeOK, Shape, StageInv, [Next]_vars
  PROVE  StageInv'
<1>1. ASSUME NEW r \in Recs, Open(r)  PROVE StageInv'
  <2>1. \A x \in Recs \ {r} : file'[x] = file[x]
    BY <1>1 DEF Open, TypeOK
  <2> QED BY <1>1, <2>1 DEF Open, TypeOK, StageInv, history
<1>2. ASSUME NEW r \in Recs, Starter(r)  PROVE StageInv'
  <2>1. CreateFails(r) =>
          ~ file'[r] /\ \A x \in Recs \ {r} : file'[x] = file[x]
    BY DEF CreateFails, TypeOK
  <2> QED BY <1>2, <2>1 DEF Starter, Insert, CreateThread, CreateFails,
             SetFlag, TypeOK, StageInv, recs, history
<1>3. ASSUME NEW r \in Recs, Writer(r)  PROVE StageInv'
  <2>1. CloseFile(r) => ~ file'[r] /\ \A x \in Recs \ {r} : file'[x] = file[x]
    BY DEF CloseFile, TypeOK
  <2> QED BY <1>3, <2>1 DEF Writer, WriterBegin, TimerFails, WriteError,
             LoopEnds, CloseFile, TypeOK, StageInv, threads, history
<1>4. ASSUME NEW s \in Enders, Wind(s)  PROVE StageInv'
  <2>1. start[stopped[s]] # "idle"
    BY <1>4 DEF Wind, Shape, Inserted
  <2> QED BY <1>4, <2>1 DEF Wind, TypeOK, StageInv
<1> QED BY <1>1, <1>2, <1>3, <1>4 DEF StageInv, Next, vars, list, recs,
      threads, history, Ender, Norecord, UnlinkAll, WindEnd, Refuse,
      MarkDestroyed, FreeRoom

(* A thread that is not winding up has nothing to wind up, and a room is   *)
(* freed when nobody starts or stops a recording.                          *)
CalmInv ==
  /\ \A s \in Enders : stop[s] # "wind" => stopped[s] = Null
  /\ room \in {"open", "refusing"} => stop[destroyer] = "idle"
  /\ room = "freed" =>
       /\ stop[destroyer] = "done" /\ \A s \in Stoppers : stop[s] = "idle"
       /\ \A r \in Recs : start[r] \in {"idle", "done"}

LEMMA CalmKept ==
  ASSUME TypeOK, CalmInv, [Next]_vars
  PROVE  CalmInv'
<1>1. destroyer \in Enders /\ Enders = Stoppers \cup {destroyer}
        /\ destroyer \notin Stoppers
  BY RecordingAssumption DEF Enders
<1>2. ASSUME NEW r \in Recs, Open(r) \/ Starter(r)  PROVE CalmInv'
  BY <1>2 DEF CalmInv, TypeOK, Starter, Open, Insert, CreateThread,
       CreateFails, SetFlag
<1>3. ASSUME NEW s \in Enders, Norecord(s) \/ Ender(s)  PROVE CalmInv'
  BY <1>1, <1>3 DEF CalmInv, TypeOK, Ender, Norecord, UnlinkAll, TakeList,
       Wind, WindEnd, After
<1>4. CASE MarkDestroyed
  BY <1>1, <1>4 DEF CalmInv, TypeOK, MarkDestroyed
<1> QED BY <1>2, <1>3, <1>4 DEF CalmInv, Next, vars, threads, Writer,
      WriterBegin, TimerFails, WriteError, LoopEnds, CloseFile, Refuse,
      FreeRoom
-----------------------------------------------------------------------------
(* The recordings a thread has still to wind up.                           *)
Chain(s) == From(stopped[s])

LEMMA WalksOnInsert ==
  ASSUME TypeOK, Shape, NEW r \in Recs, Insert(r)
  PROVE  /\ Listed' = {r} \cup Listed
         /\ \A s \in Enders : Chain(s)' = Chain(s)
<1>1. next \in Links /\ head \in Pointers /\ \A s \in Enders :
        stopped[s] \in Pointers \ {r}
  BY RecordingAssumption
     DEF TypeOK, Shape, Insert, Inserted, Links, Pointers
<1>2. head # r /\ \A x \in Recs : next[x] # r
  BY RecordingAssumption DEF Shape, Insert, Inserted
<1>3. next' = [next EXCEPT ![r] = head] /\ head' = r /\ stopped' = stopped
  BY DEF Insert
<1>4. next' \in Links /\ next'[r] = head
        /\ \A x \in Recs \ {r} : next'[x] = next[x]
  BY <1>1, <1>3 DEF Links
<1>5. \A p \in Pointers \ {r} : Walk(next', p) = Walk(next, p)
  BY <1>1, <1>2, <1>4, WalkApart, WalkMisses
<1>6. Walk(next', r) = {r} \cup Walk(next', head)
  BY <1>4, WalkUnfold
<1> QED BY <1>1, <1>2, <1>3, <1>5, <1>6 DEF Listed, Chain, From

LEMMA WalksOnRollback ==
  ASSUME TypeOK, Shape, NEW r \in Recs, CreateFails(r), r \in Listed
  PROVE  /\ Listed' \subseteq Listed /\ r \notin Listed'
         /\ From(r) = {r} \cup Listed'
         /\ \A s \in Enders : Chain(s)' = Chain(s)
<1>1. next \in Links /\ head \in Pointers
  BY DEF TypeOK, Links, Pointers
<1>2. next' = next /\ head' = next[r] /\ stopped' = stopped
  BY DEF CreateFails
<1>3. From(r) = {r} \cup Listed'
  BY <1>1, <1>2, WalkUnfold DEF From, Listed
<1>4. From(r) \subseteq Listed
  BY <1>1, WalkInside DEF From, Listed
<1>5. r \notin Listed'
  BY <1>2 DEF Shape, Acyclic, From, Listed
<1> QED BY <1>2, <1>3, <1>4, <1>5 DEF Chain, From

LEMMA WalksOnUnlink ==
  ASSUME TypeOK, Shape, NEW s \in Enders, UnlinkAll(s),
         \A u \in Enders : Chain(u) \cap Listed = {}
  PROVE  /\ Listed' = {} /\ Chain(s)' = Listed
         /\ \A u \in Enders \ {s} : Chain(u)' = Chain(u)
<1>1. next \in Links /\ head \in Pointers /\ stopped \in [Enders -> Pointers]
  BY DEF TypeOK, Links, Pointers
<1>2. TakeList(s)
  BY DEF UnlinkAll
<1>3. /\ next' = Reversed(next, head) /\ next' \in Links /\ head' = Null
      /\ stopped' = [stopped EXCEPT ![s] = stopped'[s]]
      /\ head = Null => stopped'[s] = Null
      /\ head # Null => stopped'[s] \in Listed /\ next[stopped'[s]] = Null
  BY <1>2, ListTaken
<1>4. Listed' = {}
  BY <1>3, WalkNull DEF Listed, From
<1>5. Chain(s)' = Listed
  <2>1. CASE head = Null
    BY <1>3, <2>1, WalkNull DEF Chain, Listed, From
  <2>2. CASE head # Null
    BY <1>1, <1>3, <2>2, ReversedWhole DEF Chain, Listed, From, Shape
  <2> QED BY <2>1, <2>2
<1>6. ASSUME NEW u \in Enders \ {s}  PROVE Chain(u)' = Chain(u)
  <2>1. stopped'[u] = stopped[u] /\ stopped[u] \in Pointers
    BY <1>1, <1>3, <1>6
  <2>2. \A x \in Chain(u) : next'[x] = next[x]
    BY <1>1, <1>3, <1>6, WalkRecs, ReversedLinks DEF Chain, Listed, From
  <2> QED BY <1>1, <1>3, <2>1, <2>2, WalkUntouched DEF Chain, From
<1> QED BY <1>4, <1>5, <1>6

LEMMA WalksOnWind ==
  ASSUME TypeOK, Shape, NEW s \in Enders, Wind(s),
         Chain(s) \cap Listed = {},
         \A u \in Enders \ {s} : Chain(s) \cap Chain(u) = {}
  PROVE  /\ Listed' = Listed
         /\ Chain(s) = {stopped[s]} \cup Chain(s)'
         /\ \A u \in Enders \ {s} : Chain(u)' = Chain(u)
<1> DEFINE r == stopped[s]
<1>1. next \in Links /\ head \in Pointers /\ stopped \in [Enders -> Pointers]
  BY DEF TypeOK, Links, Pointers
<1>2. /\ r \in Recs /\ next' = [next EXCEPT ![r] = Null] /\ head' = head
      /\ stopped' = [stopped EXCEPT ![s] = next[r]]
  BY <1>1 DEF Wind, Pointers
<1>3. Chain(s) = {r} \cup Walk(next, next[r])
  BY <1>1, <1>2, WalkUnfold DEF Chain, From
<1>4. \A p \in Pointers :
        r \notin Walk(next, p) => Walk(next', p) = Walk(next, p)
  <2>1. next' \in Links /\ \A x \in Recs \ {r} : next'[x] = next[x]
    BY <1>1, <1>2 DEF Links, Pointers
  <2> HIDE DEF r
  <2> QED BY <1>1, <1>2, <2>1, WalkApart
<1>5. next[r] \in Pointers /\ r \notin Walk(next, next[r])
  BY <1>1, <1>2 DEF Links, Shape, Acyclic
<1>6. Chain(s)' = Walk(next, next[r])
  BY <1>1, <1>2, <1>4, <1>5 DEF Chain, From
<1>7. Listed' = Listed
  BY <1>1, <1>2, <1>3, <1>4 DEF Listed, From
<1>8. ASSUME NEW u \in Enders \ {s}  PROVE Chain(u)' = Chain(u)
  <2>1. stopped'[u] = stopped[u] /\ stopped[u] \in Pointers
    BY <1>1, <1>2, <1>8
  <2>2. r \notin Chain(u)
    BY <1>3, <1>8
  <2> QED BY <1>4, <2>1, <2>2 DEF Chain, From
<1> QED BY <1>3, <1>6, <1>7, <1>8

-----------------------------------------------------------------------------
(* The room's list and the lists being wound up share no recording.        *)
Apart ==
  /\ \A s \in Enders : Chain(s) \cap Listed = {}
  /\ \A s \in Enders, u \in Enders : s # u => Chain(s) \cap Chain(u) = {}

(* A recording that has memory is on one of them, or is lost.              *)
Held ==
  \A r \in Inserted :
    memory[r] = "live" =>
      r \in Listed \cup orphans \/ \E s \in Enders : r \in Chain(s)

(* What is listed once the destroyer has emptied the list came late.       *)
Emptied == stop[destroyer] \in {"wind", "done"} => Listed \subseteq late

(* The start of a recording that is freed is past the list, its writer is  *)
(* not at work.                                                            *)
Unused ==
  \A r \in Recs :
    memory[r] = "freed" =>
      start[r] \in {"flag", "done"} /\ writer[r] \in {"none", "done"}

ListsInv == ~ overrun => Apart /\ Held /\ Emptied /\ Unused /\ FlagCovers

LEMMA ListsKept ==
  ASSUME TypeOK, Shape, StageInv, CalmInv, ListsInv, [Next]_vars, ~ overrun'
  PROVE  Apart' /\ Held' /\ Emptied' /\ Unused' /\ FlagCovers'
<1>1. Apart /\ Held /\ Emptied /\ Unused /\ FlagCovers
  <2>1. overrun => overrun'
    BY DEF TypeOK, Next, vars, history, Starter, Writer, Ender, Open, Insert,
         CreateThread, CreateFails, SetFlag, Norecord, UnlinkAll, Wind,
         WindEnd, WriterBegin, TimerFails, WriteError, LoopEnds, CloseFile,
         Refuse, MarkDestroyed, FreeRoom
  <2> QED BY <2>1 DEF ListsInv
<1>2. destroyer \in Enders /\ Listed \subseteq Recs
  BY WalkRecs DEF Enders, Listed, From
(* Most steps leave the lists alone.                                       *)
<1> DEFINE Still == UNCHANGED <<head, next, stopped>>
<1>3. Still => Listed' = Listed /\ \A s \in Enders : Chain(s)' = Chain(s)
  BY DEF Listed, Chain, From
<1>4. CASE UNCHANGED vars
  BY <1>1, <1>3, <1>4 DEF vars, list, recs, threads, history, Apart, Held,
       Emptied, Unused, FlagCovers, Inserted
<1>5. ASSUME NEW r \in Recs, Open(r) \/ CreateThread(r) \/ SetFlag(r)
      PROVE  Apart' /\ Held' /\ Emptied' /\ Unused' /\ FlagCovers'
  <2>1. Listed' = Listed /\ \A s \in Enders : Chain(s)' = Chain(s)
    BY <1>3, <1>5 DEF Open, CreateThread, SetFlag, list, threads
  <2>2. Apart' /\ Emptied'
    BY <1>1, <1>5, <2>1 DEF Apart, Emptied, Open, CreateThread, SetFlag,
         history
  <2>3. Held'
    BY <1>1, <1>5, <2>1 DEF Held, Inserted, TypeOK, StageInv, Open,
         CreateThread, SetFlag, history, recs
  <2>4. Unused'
    BY <1>1, <1>5 DEF Unused, TypeOK, StageInv, Open, CreateThread, SetFlag,
         history, recs
  <2>5. FlagCovers'
    BY <1>1, <1>2, <1>5, <2>1 DEF FlagCovers, TypeOK, Open, CreateThread,
         SetFlag, history, list
  <2> QED BY <2>2, <2>3, <2>4, <2>5
<1>6. ASSUME NEW r \in Recs, Insert(r)
      PROVE  Apart' /\ Held' /\ Emptied' /\ Unused' /\ FlagCovers'
  <2>1. Listed' = {r} \cup Listed /\ \A s \in Enders : Chain(s)' = Chain(s)
    BY <1>6, WalksOnInsert
  <2>2. r \notin Inserted /\ \A s \in Enders : Chain(s) \subseteq Inserted
    BY <1>6, ListedInserted DEF Insert, Inserted, Shape, Chain
  <2>3. Apart'
    BY <1>1, <2>1, <2>2 DEF Apart
  <2>4. Held'
    BY <1>1, <1>6, <2>1 DEF Held, Inserted, TypeOK, Insert, recs
  <2>5. Emptied'
    BY <1>1, <1>6, <2>1 DEF Emptied, Insert
  <2>6. Unused'
    BY <1>1, <1>6 DEF Unused, TypeOK, Insert, recs
  <2>7. FlagCovers'
    BY <1>1, <1>2, <1>6, <2>1 DEF FlagCovers, TypeOK, Insert
  <2> QED BY <2>3, <2>4, <2>5, <2>6, <2>7
<1>7. ASSUME NEW r \in Recs, CreateFails(r)
      PROVE  Apart' /\ Held' /\ Emptied' /\ Unused' /\ FlagCovers'
  <2>1. /\ Listed' \subseteq Listed /\ r \notin Listed'
        /\ From(r) = {r} \cup Listed'
        /\ \A s \in Enders : Chain(s)' = Chain(s)
    BY <1>7, WalksOnRollback DEF CreateFails
  <2>2. Apart'
    BY <1>1, <2>1 DEF Apart
  <2>3. Held'
    BY <1>1, <1>7, <2>1 DEF Held, Inserted, TypeOK, CreateFails
  <2>4. Emptied'
    BY <1>1, <1>7, <2>1 DEF Emptied, CreateFails
  <2>5. Unused'
    BY <1>1, <1>7 DEF Unused, TypeOK, StageInv, CreateFails
  <2>6. FlagCovers'
    BY <1>1, <1>2, <1>7, <2>1 DEF FlagCovers, TypeOK, CreateFails
  <2> QED BY <2>2, <2>3, <2>4, <2>5, <2>6
<1>8. ASSUME NEW r \in Recs, Writer(r)
      PROVE  Apart' /\ Held' /\ Emptied' /\ Unused' /\ FlagCovers'
  <2>1. UNCHANGED <<list, memory, threads, orphans, late, overrun>>
    BY <1>8 DEF Writer, WriterBegin, TimerFails, WriteError, LoopEnds,
         CloseFile, history
  <2>2. Listed' = Listed /\ \A s \in Enders : Chain(s)' = Chain(s)
    BY <1>3, <2>1 DEF list, threads
  <2>3. Apart' /\ Emptied' /\ Held' /\ FlagCovers'
    BY <1>1, <2>1, <2>2 DEF Apart, Emptied, Held, FlagCovers, Inserted, list,
         threads
  <2>4. Unused'
    BY <1>1, <1>8, <2>1 DEF Unused, TypeOK, Writer, WriterBegin, TimerFails,
         WriteError, LoopEnds, CloseFile, threads
  <2> QED BY <2>3, <2>4
<1>9. ASSUME NEW s \in Enders, UnlinkAll(s)
      PROVE  Apart' /\ Held' /\ Emptied' /\ Unused' /\ FlagCovers'
  <2>1. /\ Listed' = {} /\ Chain(s)' = Listed
        /\ \A u \in Enders \ {s} : Chain(u)' = Chain(u)
    BY <1>1, <1>9, WalksOnUnlink DEF Apart
  <2>2. Chain(s) = {}
    BY <1>9, WalkNull DEF UnlinkAll, CalmInv, Chain, From
  <2>3. Apart'
    BY <1>1, <2>1 DEF Apart
  <2>4. Held'
    <3> SUFFICES ASSUME NEW r \in Inserted', memory'[r] = "live"
                 PROVE  \/ r \in Listed' \cup orphans'
                        \/ \E u \in Enders : r \in Chain(u)'
      BY DEF Held
    <3>1. r \in Inserted /\ memory[r] = "live" /\ orphans' = orphans
      BY <1>9 DEF UnlinkAll, Inserted, history
    <3> QED BY <1>1, <2>1, <2>2, <3>1 DEF Held
  <2>5. Emptied' /\ FlagCovers'
    BY <2>1 DEF Emptied, FlagCovers
  <2>6. Unused'
    BY <1>1, <1>9 DEF Unused, UnlinkAll
  <2> QED BY <2>3, <2>4, <2>5, <2>6
<1>10. ASSUME NEW s \in Enders, Wind(s)
       PROVE  Apart' /\ Held' /\ Emptied' /\ Unused' /\ FlagCovers'
  <2>1. /\ Listed' = Listed
        /\ Chain(s) = {stopped[s]} \cup Chain(s)'
        /\ \A u \in Enders \ {s} : Chain(u)' = Chain(u)
    BY <1>1, <1>10, WalksOnWind DEF Apart
  <2>2. stopped[s] \in Inserted /\ start[stopped[s]] # "create"
    BY <1>10 DEF Wind, Shape
  <2>3. Apart'
    BY <1>1, <2>1 DEF Apart
  <2>4. Held'
    <3> SUFFICES ASSUME NEW r \in Inserted', memory'[r] = "live"
                 PROVE  \/ r \in Listed' \cup orphans'
                        \/ \E u \in Enders : r \in Chain(u)'
      BY DEF Held
    <3>1. r \in Inserted /\ memory[r] = "live" /\ orphans' = orphans
            /\ r # stopped[s]
      BY <1>10 DEF Wind, Inserted, TypeOK
    <3> QED BY <1>1, <2>1, <3>1 DEF Held
  <2>5. Emptied' /\ FlagCovers'
    BY <1>1, <1>10, <2>1 DEF Emptied, FlagCovers, Wind
  <2>6. Unused'
    BY <1>1, <1>10, <2>2 DEF Unused, Wind, Joined, Inserted, TypeOK
  <2> QED BY <2>3, <2>4, <2>5, <2>6
<1>11. ASSUME NEW s \in Enders, Norecord(s) \/ WindEnd(s)
       PROVE  Apart' /\ Held' /\ Emptied' /\ Unused' /\ FlagCovers'
  <2>1. UNCHANGED <<list, recs, start, stopped, history>>
    BY <1>11 DEF Norecord, WindEnd
  <2>2. Listed' = Listed /\ \A u \in Enders : Chain(u)' = Chain(u)
    BY <1>3, <2>1 DEF list
  <2>3. Apart' /\ Held' /\ Unused' /\ FlagCovers'
    BY <1>1, <2>1, <2>2 DEF Apart, Held, Unused, FlagCovers, Inserted, list,
         recs, history
  <2>4. stop'[destroyer] \in {"wind", "done"} =>
          stop[destroyer] \in {"wind", "done"}
    BY <1>2, <1>11, RecordingAssumption DEF Norecord, WindEnd, TypeOK
  <2> QED BY <1>1, <2>1, <2>2, <2>3, <2>4 DEF Emptied, history
<1>12. ASSUME Refuse \/ MarkDestroyed \/ FreeRoom
       PROVE  Apart' /\ Held' /\ Emptied' /\ Unused' /\ FlagCovers'
  <2>1. UNCHANGED <<list, recs, start, stopped, history>>
    BY <1>12 DEF Refuse, MarkDestroyed, FreeRoom, threads
  <2>2. Listed' = Listed /\ \A u \in Enders : Chain(u)' = Chain(u)
    BY <1>3, <2>1 DEF list
  <2>3. Apart' /\ Held' /\ Unused' /\ FlagCovers'
    BY <1>1, <2>1, <2>2 DEF Apart, Held, Unused, FlagCovers, Inserted, list,
         recs, history
  <2>4. stop'[destroyer] \in {"wind", "done"} =>
          stop[destroyer] \in {"wind", "done"}
    BY <1>2, <1>12 DEF Refuse, MarkDestroyed, FreeRoom, TypeOK, threads
  <2> QED BY <1>1, <2>1, <2>2, <2>3, <2>4 DEF Emptied, history
<1> QED BY <1>4, <1>5, <1>6, <1>7, <1>8, <1>9, <1>10, <1>11, <1>12
        DEF Next, Starter, Ender

-----------------------------------------------------------------------------
RecordingInv == TypeOK /\ Shape /\ StageInv /\ CalmInv /\ ListsInv

(* What holds of a room's list, of the lists its stopping threads wind up  *)
(* and of each recording's memory, start and writer, together.             *)
THEOREM RecordingSafe == Spec => []RecordingInv
<1>1. Init => RecordingInv
  <2> SUFFICES ASSUME Init  PROVE RecordingInv
    OBVIOUS
  <2>1. StageInv /\ CalmInv
    BY DEF Init, StageInv, CalmInv, Enders
  <2>2. Listed = {} /\ \A s \in Enders : Chain(s) = {}
    BY WalkNull DEF Init, Listed, Chain, From
  <2>3. ListsInv
    BY <2>2 DEF Init, ListsInv, Apart, Held, Emptied, Unused, FlagCovers,
         Inserted
  <2> QED BY <2>1, <2>3, ShapeAtFirst DEF RecordingInv
<1>2. RecordingInv /\ [Next]_vars => RecordingInv'
  <2> SUFFICES ASSUME RecordingInv, [Next]_vars  PROVE RecordingInv'
    OBVIOUS
  <2>1. TypeOK' /\ Shape' /\ StageInv' /\ CalmInv'
    BY ShapeKept, StageKept, CalmKept DEF RecordingInv
  <2>2. ListsInv'
    <3>1. ~ overrun' => Apart' /\ Held' /\ Emptied' /\ Unused' /\ FlagCovers'
      BY ListsKept DEF RecordingInv
    <3> QED BY <3>1 DEF ListsInv
  <2> QED BY <2>1, <2>2 DEF RecordingInv
<1> QED BY <1>1, <1>2, PTL DEF Spec

(* A recording's memory goes only when its writer is done and its file     *)
(* closed, unless it had no timer: broadcast_record_stop and a failed      *)
(* broadcast_record_start, for any number of recordings and of threads     *)
(* that stop them at once.                                                 *)
THEOREM RecordingsWound == Spec => []RecordingWound
<1>1. RecordingInv => RecordingWound
  <2> SUFFICES ASSUME RecordingInv, ~ overrun, NEW r \in Recs,
                      memory[r] = "freed"
               PROVE  /\ writer[r] \in {"none", "done"}
                      /\ file[r] => r \in timerless
    BY DEF RecordingWound
  <2>1. start[r] \in {"flag", "done"} /\ writer[r] \in {"none", "done"}
    BY DEF RecordingInv, ListsInv, Unused
  <2>2. file[r] => r \in timerless
    BY <2>1 DEF RecordingInv, StageInv
  <2> QED BY <2>1, <2>2
<1> QED BY <1>1, RecordingSafe, PTL

(* BFLAG_RECORDING shows every listed recording whose start has returned:  *)
(* a stop clears the flag with the list in one critical section, and a     *)
(* start sets it after listing.                                            *)
THEOREM FlagsCover == Spec => []FlagCovers
<1>1. RecordingInv => FlagCovers
  BY DEF RecordingInv, ListsInv, FlagCovers
<1> QED BY <1>1, RecordingSafe, PTL

(* A room is freed under no writer but one listed after the destroyer had  *)
(* emptied the list and one that a failed start took off the list: what    *)
(* broadcast_destroy_ex joins, and what it cannot.                         *)
THEOREM WritersStayInside == Spec => []WritersInside
<1>1. RecordingInv => WritersInside
  <2> SUFFICES ASSUME RecordingInv, room = "freed", ~ overrun,
                      NEW r \in Recs, writer[r] \in {"born", "loop"}
               PROVE  r \in late \cup orphans
    BY DEF WritersInside, InRoom
  <2>1. r \in Inserted /\ memory[r] = "live"
    BY DEF RecordingInv, TypeOK, StageInv, ListsInv, Unused, Inserted
  <2>2. \A s \in Enders : Chain(s) = {}
    <3>1. \A s \in Enders : stop[s] # "wind"
      BY DEF RecordingInv, CalmInv, Enders
    <3> QED BY <3>1, WalkNull DEF RecordingInv, CalmInv, Chain, From
  <2>3. r \in Listed \cup orphans
    BY <2>1, <2>2 DEF RecordingInv, ListsInv, Held
  <2>4. Listed \subseteq late
    BY DEF RecordingInv, CalmInv, ListsInv, Emptied
  <2> QED BY <2>3, <2>4
<1> QED BY <1>1, RecordingSafe, PTL

-----------------------------------------------------------------------------
(* Whatever a thread has still to join has been told to stop.              *)
Told ==
  ~ overrun => \A s \in Enders : \A r \in Chain(s) : ~ running[r]

LEMMA ToldKept ==
  ASSUME RecordingInv, Told, [Next]_vars, ~ overrun',
         NEW s \in Enders, NEW r \in Chain(s)'
  PROVE  ~ running'[r]
<1>1. TypeOK /\ Shape /\ Chain(s) \subseteq Inserted /\ Inserted \subseteq Recs
  BY ListedInserted DEF RecordingInv, Shape, Chain, Inserted
<1>2. ~ overrun /\ Apart
  <2>1. overrun => overrun'
    BY <1>1 DEF TypeOK, Next, vars, history, Starter, Writer, Ender, Open,
         Insert, CreateThread, CreateFails, SetFlag, Norecord, UnlinkAll, Wind,
         WindEnd, WriterBegin, TimerFails, WriteError, LoopEnds, CloseFile,
         Refuse, MarkDestroyed, FreeRoom
  <2> QED BY <2>1 DEF RecordingInv, ListsInv
<1>3. r \in Chain(s) => ~ running[r] /\ r \in Inserted
  BY <1>1, <1>2 DEF Told
<1>4. UNCHANGED <<next, stopped>> => r \in Chain(s)
  BY DEF Chain, From
<1>5. CASE UNCHANGED <<next, stopped, running>>
  BY <1>3, <1>4, <1>5
<1>6. ASSUME NEW q \in Recs, Open(q)  PROVE ~ running'[r]
  <2>1. q \notin Inserted /\ UNCHANGED <<next, stopped>>
    BY <1>6 DEF Open, Inserted, list
  <2>2. r # q => running'[r] = running[r]
    BY <1>1, <1>6 DEF Open, TypeOK
  <2> QED BY <1>3, <1>4, <2>1, <2>2
<1>7. ASSUME NEW q \in Recs, Insert(q)  PROVE ~ running'[r]
  <2>1. r \in Chain(s) /\ running' = running
    BY <1>1, <1>7, WalksOnInsert DEF Insert, recs
  <2> QED BY <1>3, <2>1
<1>8. ASSUME NEW q \in Recs, TimerFails(q) \/ WriteError(q)
      PROVE  ~ running'[r]
  <2>1. r \in Chain(s) /\ running' = [running EXCEPT ![q] = FALSE]
    BY <1>4, <1>8 DEF TimerFails, WriteError, list, threads
  <2> QED BY <1>1, <1>3, <2>1 DEF TypeOK
<1>9. ASSUME NEW u \in Enders, UnlinkAll(u)  PROVE ~ running'[r]
  <2>1. /\ Chain(u)' = Listed
        /\ \A x \in Enders \ {u} : Chain(x)' = Chain(x)
    BY <1>1, <1>2, <1>9, WalksOnUnlink DEF Apart
  <2>2. r \in Recs /\ (r \in Listed \/ ~ running[r])
    BY <1>1, <1>3, <2>1, WalkRecs DEF Listed, From
  <2>3. running'[r] = (running[r] /\ r \notin Listed)
    BY <1>9, <2>2 DEF UnlinkAll
  <2> QED BY <2>2, <2>3
<1>10. ASSUME NEW u \in Enders, Wind(u)  PROVE ~ running'[r]
  <2>1. /\ Chain(u)' \subseteq Chain(u)
        /\ \A x \in Enders \ {u} : Chain(x)' = Chain(x)
    BY <1>1, <1>2, <1>10, WalksOnWind DEF Apart
  <2>2. r \in Chain(s) /\ running' = running
    BY <1>10, <2>1 DEF Wind
  <2> QED BY <1>3, <2>2
<1> QED BY <1>5, <1>6, <1>7, <1>8, <1>9, <1>10 DEF Next, vars, list, recs,
      threads, Starter, Writer, Ender, CreateThread, CreateFails, SetFlag,
      Norecord, WindEnd, WriterBegin, LoopEnds, CloseFile, Refuse,
      MarkDestroyed, FreeRoom

(* A writer that broadcast_record_stop joins has been told to stop, and    *)
(* nothing turns it on again while it is waited for: what StopsEnd needs   *)
(* besides fairness.                                                       *)
THEOREM JoinedAreTold == Spec => []Told
<1>1. Init => Told
  BY WalkNull DEF Init, Told, Chain, From
<1>2. RecordingInv /\ Told /\ [Next]_vars => Told'
  <2> SUFFICES ASSUME RecordingInv, Told, [Next]_vars  PROVE Told'
    OBVIOUS
  <2>1. ~ overrun' => \A s \in Enders : \A r \in Chain(s)' : ~ running'[r]
    BY ToldKept
  <2> QED BY <2>1 DEF Told
<1> QED BY <1>1, <1>2, RecordingSafe, PTL DEF Spec
=============================================================================
