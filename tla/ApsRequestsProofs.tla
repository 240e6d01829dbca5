-------------------------- MODULE ApsRequestsProofs --------------------------
(***************************************************************************)
(* The queue of APS requests, for any number of ids and nodes, any limits  *)
(* and any device: its type, the uniqueness of ids, the limits of what is  *)
(* busy per node, and that the queue implements ApsService.                *)
(***************************************************************************)
EXTENDS ApsRequests, NumberLemmas

----------------------------------------------------------------------------
(* What is left of a sequence after Erased: the elements at the other      *)
(* places, each once.                                                      *)

\* The places of left below i, and how many they are.
Below(left, i) == {j \in left : j < i}

LEMMA BelowFinite ==
  ASSUME NEW n \in Nat, NEW left, left \subseteq 1 .. n, NEW i \in Nat
  PROVE  /\ IsFiniteSet(left) /\ Cardinality(left) \in Nat
         /\ IsFiniteSet(Below(left, i)) /\ Cardinality(Below(left, i)) \in Nat
         /\ Cardinality(Below(left, i)) <= Cardinality(left)
<1>1. IsFiniteSet(left)
  <2>1. IsFiniteSet(1 .. n)
    BY FS_Interval
  <2> QED BY <2>1, FS_Subset
<1>2. Below(left, i) \in SUBSET left
  BY DEF Below
<1> QED BY <1>1, <1>2, FS_Subset, FS_CardinalityType

\* One place further there is one more, or as many.
LEMMA BelowNext ==
  ASSUME NEW n \in Nat, NEW left, left \subseteq 1 .. n, NEW i \in Nat
  PROVE  Cardinality(Below(left, i + 1)) =
           IF i \in left THEN Cardinality(Below(left, i)) + 1 ELSE Cardinality(Below(left, i))
<1>1. IsFiniteSet(Below(left, i))
  BY BelowFinite
<1>0. \A j \in left : j < i + 1 <=> (j < i \/ j = i)
  OBVIOUS
<1>2. CASE i \in left
  <2>1. Below(left, i + 1) = Below(left, i) \cup {i}
    BY <1>2, <1>0 DEF Below
  <2>2. i \notin Below(left, i)
    BY DEF Below
  <2> QED BY <1>1, <1>2, <2>1, <2>2, FS_AddElement
<1>3. CASE i \notin left
  <2>1. Below(left, i + 1) = Below(left, i)
    BY <1>3, <1>0 DEF Below
  <2> QED BY <1>3, <2>1
<1> QED BY <1>2, <1>3

\* Of two places of left, the later one has more below it.
LEMMA BelowLess ==
  ASSUME NEW n \in Nat, NEW left, left \subseteq 1 .. n, NEW i \in left, NEW j \in left, i < j
  PROVE  Cardinality(Below(left, i)) < Cardinality(Below(left, j))
<1>1. i \in Nat /\ j \in Nat
  OBVIOUS
<1>2. Below(left, i + 1) \in SUBSET Below(left, j)
  <2>1. \A h \in left : h < i + 1 => h < j
    BY <1>1
  <2> QED BY <2>1 DEF Below
<1>3. Cardinality(Below(left, i + 1)) <= Cardinality(Below(left, j))
  BY <1>1, <1>2, BelowFinite, FS_Subset
<1>4. Cardinality(Below(left, i + 1)) = Cardinality(Below(left, i)) + 1
  BY <1>1, BelowNext
<1>5. Cardinality(Below(left, i)) \in Nat /\ Cardinality(Below(left, j)) \in Nat
  BY <1>1, BelowFinite
<1> QED BY <1>3, <1>4, <1>5

\* The places of left can be counted through.
LEMMA PlaceExists ==
  ASSUME NEW n \in Nat, NEW left, left \subseteq 1 .. n, NEW k \in 1 .. Cardinality(left)
  PROVE  \E i \in left : Cardinality(Below(left, i)) = k - 1
<1> DEFINE M == {m \in Nat : Cardinality(Below(left, m)) >= k}
<1>1. k \in Nat /\ k >= 1
  BY BelowFinite
<1>2. n + 1 \in M
  <2>1. \A j \in left : j < n + 1
    OBVIOUS
  <2>2. Below(left, n + 1) = left
    BY <2>1 DEF Below
  <2> QED BY <2>2, <1>1, BelowFinite
<1>3. PICK m \in M : \A x \in M : m <= x
  <2>1. M \in SUBSET Nat /\ M # {}
    BY <1>2
  <2> HIDE DEF M
  <2> QED BY <2>1, NatMin
<1>4. m \in Nat /\ Cardinality(Below(left, m)) >= k
  BY <1>3
<1>5. m # 0
  <2>0. \A j \in left : ~ (j < 0)
    OBVIOUS
  <2>1. Below(left, 0) = {}
    BY <2>0 DEF Below
  <2>2. Cardinality(Below(left, 0)) = 0
    BY <2>1, FS_EmptySet
  <2> QED BY <2>2, <1>4, <1>1
<1>6. m - 1 \in Nat /\ m - 1 + 1 = m
  BY <1>4, <1>5
<1>7. ~ (Cardinality(Below(left, m - 1)) >= k)
  BY <1>3, <1>6
<1>8. Cardinality(Below(left, m)) =
        IF m - 1 \in left THEN Cardinality(Below(left, m - 1)) + 1
        ELSE Cardinality(Below(left, m - 1))
  <2>1. Cardinality(Below(left, m - 1 + 1)) =
          IF m - 1 \in left THEN Cardinality(Below(left, m - 1)) + 1
          ELSE Cardinality(Below(left, m - 1))
    BY <1>6, BelowNext
  <2> QED BY <1>6, <2>1
<1>9. Cardinality(Below(left, m - 1)) \in Nat
  BY <1>6, BelowFinite
<1>10. m - 1 \in left /\ Cardinality(Below(left, m - 1)) = k - 1
  BY <1>1, <1>4, <1>7, <1>8, <1>9
<1> QED BY <1>10

LEMMA ErasedIs ==
  ASSUME NEW T, NEW s \in Seq(T), NEW S
  PROVE  /\ Erased(s, S) \in Seq(T)
         /\ \A k \in DOMAIN Erased(s, S) : \E i \in DOMAIN s \ S : Erased(s, S)[k] = s[i]
         /\ \A i \in DOMAIN s \ S : \E k \in DOMAIN Erased(s, S) : Erased(s, S)[k] = s[i]
         /\ (\A i, j \in DOMAIN s \ S : s[i] = s[j] => i = j)
            => \A k, l \in DOMAIN Erased(s, S) : Erased(s, S)[k] = Erased(s, S)[l] => k = l
<1> DEFINE left == DOMAIN s \ S
           Place(k) == CHOOSE i \in left : Cardinality({j \in left : j < i}) = k - 1
           n == Cardinality(left)
           f == [k \in 1 .. n |-> s[Place(k)]]
<1>1. /\ Len(s) \in Nat /\ left \subseteq 1 .. Len(s) /\ n \in Nat
      /\ \A i \in left : s[i] \in T
  <2>1. Len(s) \in Nat /\ DOMAIN s = 1 .. Len(s) /\ \A i \in 1 .. Len(s) : s[i] \in T
    BY LenProperties, ElementOfSeq
  <2> QED BY <2>1, BelowFinite
<1>2. \A k \in 1 .. n : Place(k) \in left /\ Cardinality(Below(left, Place(k))) = k - 1
  <2> TAKE k \in 1 .. n
  <2>1. \E i \in left : Cardinality({j \in left : j < i}) = k - 1
    <3> HIDE DEF left
    <3> QED BY <1>1, PlaceExists DEF Below
  <2>2. Place(k) \in left /\ Cardinality({j \in left : j < Place(k)}) = k - 1
    <3> HIDE DEF left
    <3> QED BY <2>1
  <2> QED BY <2>2 DEF Below
<1>3. \A i \in left : \E k \in 1 .. n : Place(k) = i
  <2> TAKE i \in left
  <2> DEFINE k == Cardinality(Below(left, i)) + 1
  <2>1. i \in Nat
    BY <1>1
  <2>2. Cardinality(Below(left, i)) \in Nat /\ k \in Nat
    <3>1. Cardinality(Below(left, i)) \in Nat
      BY <1>1, <2>1, BelowFinite
    <3> QED BY <3>1
  <2>3. k <= n
    <3>1. Below(left, i + 1) \in SUBSET left /\ i + 1 \in Nat
      BY <2>1 DEF Below
    <3>2. Cardinality(Below(left, i + 1)) <= n
      BY <1>1, <3>1, BelowFinite
    <3>3. Cardinality(Below(left, i + 1)) = k
      BY <1>1, <2>1, BelowNext
    <3> QED BY <3>2, <3>3
  <2>4. k \in 1 .. n
    BY <1>1, <2>2, <2>3
  <2>5. Place(k) \in left /\ Cardinality(Below(left, Place(k))) = Cardinality(Below(left, i))
    <3>1. k - 1 = Cardinality(Below(left, i))
      BY <2>2
    <3> QED BY <1>2, <2>4, <3>1
  <2>6. Place(k) \in Nat
    BY <1>1, <2>5
  <2> HIDE DEF Place, k, left
  <2>7. ~ (Place(k) < i)
    <3>1. Place(k) < i => Cardinality(Below(left, Place(k))) < Cardinality(Below(left, i))
      BY <1>1, <2>5, BelowLess
    <3> QED BY <3>1, <2>2, <2>5
  <2>8. ~ (i < Place(k))
    <3>1. i < Place(k) => Cardinality(Below(left, i)) < Cardinality(Below(left, Place(k)))
      BY <1>1, <2>5, BelowLess
    <3> QED BY <3>1, <2>2, <2>5
  <2> QED BY <2>1, <2>4, <2>6, <2>7, <2>8
<1>4. \A k, l \in 1 .. n : Place(k) = Place(l) => k = l
  <2> SUFFICES ASSUME NEW k \in 1 .. n, NEW l \in 1 .. n, Place(k) = Place(l) PROVE k = l
    OBVIOUS
  <2>1. k - 1 = l - 1
    BY <1>2
  <2>2. k \in Int /\ l \in Int
    BY <1>1
  <2> QED BY <2>1, <2>2
<1>5. Erased(s, S) = f
  BY DEF Erased
<1> HIDE DEF Place
<1>6. f \in [1 .. n -> T]
  BY <1>1, <1>2
<1>7. f \in Seq(T) /\ DOMAIN f = 1 .. n
  BY <1>1, <1>6, FcnIsSeq
<1>8. \A k \in 1 .. n : f[k] = s[Place(k)]
  OBVIOUS
<1> HIDE DEF f, n, left
<1>9. \A k \in DOMAIN f : \E i \in left : f[k] = s[i]
  BY <1>2, <1>7, <1>8
<1>10. \A i \in left : \E k \in DOMAIN f : f[k] = s[i]
  BY <1>3, <1>7, <1>8
<1>11. (\A i, j \in left : s[i] = s[j] => i = j) => \A k, l \in DOMAIN f : f[k] = f[l] => k = l
  BY <1>2, <1>4, <1>7, <1>8
<1> QED BY <1>5, <1>7, <1>9, <1>10, <1>11 DEF left

----------------------------------------------------------------------------
(* Queues.                                                                 *)
Good(q) ==
  /\ q \in Seq(Requests)
  /\ \A i, j \in DOMAIN q : q[i].id = q[j].id => i = j

\* The places of what is busy for node n, and of those that do not get ahead.
BusyFor(q, n)  == {i \in InState(q, "Busy") : q[i].dst = n}
PlainFor(q, n) == {i \in BusyFor(q, n) : q[i].kind \notin {"OTA", "DEFAULT_RSP"}}
Limits(q) ==
  \A n \in Nodes :
    /\ Cardinality(BusyFor(q, n)) <= MaxBusyApsPerNode + 1
    /\ Cardinality(PlainFor(q, n)) <= IF n \in Strict THEN 1 ELSE MaxBusyApsPerNode

\* The user of each request that counts as confirmed was told.
ToldOf(q, t) == \A i \in DOMAIN q : q[i].confirmed => q[i].id \in t

Sound(q, t) == Good(q) /\ Limits(q) /\ ToldOf(q, t)

LEMMA QueueIs ==
  ASSUME NEW q, Good(q)
  PROVE  /\ Len(q) \in Nat /\ DOMAIN q = 1 .. Len(q) /\ IsFiniteSet(DOMAIN q)
         /\ \A i \in DOMAIN q : q[i] \in Requests
<1>1. Len(q) \in Nat /\ DOMAIN q = 1 .. Len(q) /\ \A i \in 1 .. Len(q) : q[i] \in Requests
  BY LenProperties, ElementOfSeq DEF Good
<1> QED BY <1>1, FS_Interval

(* Places are compared by the ids at them.                                 *)
LEMMA FewerPlaces ==
  ASSUME NEW p, NEW q, Good(p), Good(q), NEW A \in SUBSET DOMAIN p, NEW B \in SUBSET DOMAIN q,
         \A i \in A : \E j \in B : p[i].id = q[j].id
  PROVE  Cardinality(A) <= Cardinality(B)
<1> DEFINE f == [i \in A |-> CHOOSE j \in B : p[i].id = q[j].id]
<1>1. \A i \in A : f[i] \in B /\ p[i].id = q[f[i]].id
  OBVIOUS
<1> HIDE DEF f
<1>2. f \in [A -> B]
  BY <1>1 DEF f
<1>3. \A i, j \in A : f[i] = f[j] => i = j
  BY <1>1 DEF Good
<1>4. f \in Injection(A, B)
  BY <1>2, <1>3 DEF Injection, IsInjective
<1>5. IsFiniteSet(B)
  BY QueueIs, FS_Subset
<1> QED BY <1>4, <1>5, FS_Injection

(* A queue in which nothing is busy that was not busy before.              *)
LEMMA FewerBusy ==
  ASSUME NEW p, NEW q, Good(p), Good(q), Limits(q),
         \A i \in DOMAIN p : p[i].state = "Busy" =>
           \E j \in DOMAIN q : /\ q[j].state = "Busy" /\ p[i].id = q[j].id
                              /\ p[i].dst = q[j].dst /\ p[i].kind = q[j].kind
  PROVE  Limits(p)
<1> SUFFICES ASSUME NEW n \in Nodes
             PROVE  /\ Cardinality(BusyFor(p, n)) <= MaxBusyApsPerNode + 1
                    /\ Cardinality(PlainFor(p, n)) <= IF n \in Strict THEN 1 ELSE MaxBusyApsPerNode
  BY DEF Limits
<1>1. /\ BusyFor(p, n) \in SUBSET DOMAIN p /\ PlainFor(p, n) \in SUBSET DOMAIN p
      /\ BusyFor(q, n) \in SUBSET DOMAIN q /\ PlainFor(q, n) \in SUBSET DOMAIN q
  BY DEF BusyFor, PlainFor, InState
<1>2. \A i \in BusyFor(p, n) : \E j \in BusyFor(q, n) : p[i].id = q[j].id
  BY DEF BusyFor, InState
<1>3. \A i \in PlainFor(p, n) : \E j \in PlainFor(q, n) : p[i].id = q[j].id
  BY DEF PlainFor, BusyFor, InState
<1>4. Cardinality(BusyFor(p, n)) <= Cardinality(BusyFor(q, n))
  BY <1>1, <1>2, FewerPlaces
<1>5. Cardinality(PlainFor(p, n)) <= Cardinality(PlainFor(q, n))
  BY <1>1, <1>3, FewerPlaces
<1>6. /\ Cardinality(BusyFor(p, n)) \in Nat /\ Cardinality(BusyFor(q, n)) \in Nat
      /\ Cardinality(PlainFor(p, n)) \in Nat /\ Cardinality(PlainFor(q, n)) \in Nat
  BY <1>1, QueueIs, FS_Subset, FS_CardinalityType
<1>7. /\ Cardinality(BusyFor(q, n)) <= MaxBusyApsPerNode + 1
      /\ Cardinality(PlainFor(q, n)) <= IF n \in Strict THEN 1 ELSE MaxBusyApsPerNode
  BY DEF Limits
<1> QED BY <1>4, <1>5, <1>6, <1>7 DEF MaxBusyApsPerNode

(* Requests that are changed where they are and keep their ids.            *)
LEMMA Remade ==
  ASSUME NEW q, NEW p, Good(q), p \in [DOMAIN q -> Requests],
         \A i \in DOMAIN q : p[i].id = q[i].id
  PROVE  Good(p) /\ DOMAIN p = DOMAIN q /\ QueuedIds(p) = QueuedIds(q)
<1>1. p \in Seq(Requests) /\ DOMAIN p = DOMAIN q
  BY QueueIs, FcnIsSeq
<1> QED BY <1>1 DEF Good, QueuedIds

LEMMA RemadeSound ==
  ASSUME NEW q, NEW p, NEW t, NEW u, Sound(q, t), t \subseteq u, p \in [DOMAIN q -> Requests],
         \A i \in DOMAIN q :
           /\ p[i].id = q[i].id
           /\ p[i].state = "Busy" => /\ q[i].state = "Busy"
                                     /\ p[i].dst = q[i].dst /\ p[i].kind = q[i].kind
           /\ p[i].confirmed => q[i].confirmed \/ q[i].id \in u
  PROVE  Sound(p, u) /\ DOMAIN p = DOMAIN q /\ QueuedIds(p) = QueuedIds(q)
<1>1. Good(p) /\ DOMAIN p = DOMAIN q /\ QueuedIds(p) = QueuedIds(q)
  BY Remade DEF Sound
<1>2. Limits(p)
  BY <1>1, FewerBusy DEF Sound
<1>3. ToldOf(p, u)
  BY <1>1 DEF Sound, ToldOf
<1> QED BY <1>1, <1>2, <1>3 DEF Sound

(* A queue that is a part of one.                                          *)
LEMMA PartSound ==
  ASSUME NEW q, NEW p, NEW t, Sound(q, t), Good(p),
         \A i \in DOMAIN p : \E j \in DOMAIN q : p[i] = q[j]
  PROVE  Sound(p, t)
<1>1. Limits(p)
  BY FewerBusy DEF Sound
<1>2. ToldOf(p, t)
  BY DEF Sound, ToldOf
<1> QED BY <1>1, <1>2 DEF Sound

LEMMA RemoveOK ==
  ASSUME NEW q, NEW t, Sound(q, t), NEW k \in DOMAIN q
  PROVE  Sound(RemoveAt(q, k), t) /\ QueuedIds(RemoveAt(q, k)) = QueuedIds(q) \ {q[k].id}
<1> DEFINE p == RemoveAt(q, k)
<1>1. Good(q) /\ Len(q) \in Nat /\ DOMAIN q = 1 .. Len(q)
  BY QueueIs DEF Sound
<1>2. /\ p \in Seq(Requests) /\ Len(p) = Len(q) - 1
      /\ \A i \in 1 .. Len(q) - 1 : p[i] = IF i < k THEN q[i] ELSE q[i + 1]
  <2>1. q \in Seq(Requests) /\ k \in 1 .. Len(q)
    BY <1>1 DEF Good
  <2> QED BY <2>1, RemoveAtProperties
<1>3. DOMAIN p = 1 .. Len(q) - 1
  BY <1>2, LenProperties
<1> HIDE DEF p
<1>4. \A i \in DOMAIN p : \E j \in DOMAIN q : j # k /\ p[i] = q[j]
  BY <1>1, <1>2, <1>3
<1>5. \A j \in DOMAIN q : j # k => \E i \in DOMAIN p : p[i] = q[j]
  <2> SUFFICES ASSUME NEW j \in DOMAIN q, j # k PROVE \E i \in DOMAIN p : p[i] = q[j]
    OBVIOUS
  <2>1. CASE j < k
    BY <1>1, <1>2, <1>3, <2>1
  <2>2. CASE k < j
    <3>1. j - 1 \in DOMAIN p /\ ~ (j - 1 < k) /\ j - 1 + 1 = j
      BY <1>1, <1>3, <2>2
    <3> QED BY <1>2, <1>3, <3>1
  <2> QED BY <1>1, <2>1, <2>2
<1>6. Good(p)
  <2>1. \A i, j \in DOMAIN p : p[i].id = p[j].id => i = j
    <3> SUFFICES ASSUME NEW i \in DOMAIN p, NEW j \in DOMAIN p, p[i].id = p[j].id PROVE i = j
      OBVIOUS
    <3> DEFINE a == IF i < k THEN i ELSE i + 1
               b == IF j < k THEN j ELSE j + 1
    <3>1. a \in DOMAIN q /\ b \in DOMAIN q
      BY <1>1, <1>3
    <3>2. p[i] = q[a] /\ p[j] = q[b]
      BY <1>2, <1>3
    <3>3. a = b
      BY <1>1, <3>1, <3>2 DEF Good
    <3> QED BY <1>1, <1>3, <3>3
  <2> QED BY <1>2, <2>1 DEF Good
<1>7. Sound(p, t)
  BY <1>4, <1>6, PartSound
<1>8. QueuedIds(p) = QueuedIds(q) \ {q[k].id}
  BY <1>1, <1>4, <1>5 DEF QueuedIds, Good
<1> QED BY <1>7, <1>8 DEF p

LEMMA EraseOK ==
  ASSUME NEW q, NEW t, Sound(q, t), NEW S
  PROVE  /\ Sound(Erased(q, S), t)
         /\ QueuedIds(Erased(q, S)) = {q[i].id : i \in DOMAIN q \ S}
<1> DEFINE p == Erased(q, S)
<1>1. q \in Seq(Requests)
  BY DEF Sound, Good
<1>2. \A i, j \in DOMAIN q \ S : q[i] = q[j] => i = j
  BY DEF Sound, Good
<1>3. /\ p \in Seq(Requests)
      /\ \A k \in DOMAIN p : \E i \in DOMAIN q \ S : p[k] = q[i]
      /\ \A i \in DOMAIN q \ S : \E k \in DOMAIN p : p[k] = q[i]
      /\ \A k, l \in DOMAIN p : p[k] = p[l] => k = l
  BY <1>1, <1>2, ErasedIs
<1> HIDE DEF p
<1>4. Good(p)
  BY <1>3 DEF Sound, Good
<1>5. Sound(p, t)
  BY <1>3, <1>4, PartSound
<1>6. QueuedIds(p) = {q[i].id : i \in DOMAIN q \ S}
  BY <1>3 DEF QueuedIds
<1> QED BY <1>5, <1>6 DEF p

----------------------------------------------------------------------------
(* sendNextApsdeDataRequest.                                               *)
LEMMA LeastIn ==
  ASSUME NEW S, S \in SUBSET Nat, S # {}
  PROVE  Least(S) \in S /\ \A j \in S : Least(S) <= j
BY NatMin DEF Least

LEMMA ChosenIs ==
  ASSUME NEW q, Good(q), NEW ids, NEW dsts, NEW window, NEW group
  PROVE  \/ Chosen(q, ids, dsts, window, group) = {}
         \/ \E k \in DOMAIN q : /\ Chosen(q, ids, dsts, window, group) = {k}
                               /\ MaySend(q, k, group) /\ Len(ids) < QApsLen
<1> DEFINE S == SendableTo(q, dsts, group)
<1>1. S \subseteq DOMAIN q /\ \A i \in S : MaySend(q, i, group)
  BY DEF SendableTo
<1>2. S \in SUBSET Nat
  BY <1>1, QueueIs
<1> HIDE DEF S
<1>3. S # {} => Least(S) \in S
  BY <1>2, LeastIn
<1> QED BY <1>1, <1>3 DEF Chosen, HasFreeApsRequest, S

(* One more is busy: the limit of its node was not reached.                *)
LEMMA BusiedLimits ==
  ASSUME NEW q, NEW p, Good(q), Limits(q), NEW group, NEW k \in DOMAIN q, MaySend(q, k, group),
         p = Busied(q, {k})
  PROVE  Limits(p)
<1> USE DEF MaxBusyApsPerNode
<1>1. /\ DOMAIN p = DOMAIN q /\ \A i \in DOMAIN q : q[i] \in Requests
      /\ \A i \in DOMAIN q : i # k => p[i] = q[i]
      /\ p[k].state = "Busy" /\ p[k].dst = q[k].dst /\ p[k].kind = q[k].kind
      /\ q[k].state = "Idle"
  BY QueueIs DEF Busied, MaySend, Requests
<1> SUFFICES ASSUME NEW n \in Nodes
             PROVE  /\ Cardinality(BusyFor(p, n)) <= 3
                    /\ Cardinality(PlainFor(p, n)) <= IF n \in Strict THEN 1 ELSE 2
  BY DEF Limits
<1>2. /\ Cardinality(BusyFor(q, n)) <= 3
      /\ Cardinality(PlainFor(q, n)) <= IF n \in Strict THEN 1 ELSE 2
  BY DEF Limits
<1>3. /\ BusyFor(q, n) \in SUBSET DOMAIN q
      /\ PlainFor(q, n) \in SUBSET BusyFor(q, n)
      /\ k \notin BusyFor(q, n)
  BY <1>1 DEF BusyFor, PlainFor, InState
<1>4. /\ IsFiniteSet(BusyFor(q, n)) /\ IsFiniteSet(PlainFor(q, n))
      /\ Cardinality(BusyFor(q, n)) \in Nat /\ Cardinality(PlainFor(q, n)) \in Nat
      /\ Cardinality(PlainFor(q, n)) <= Cardinality(BusyFor(q, n))
  BY <1>3, QueueIs, FS_Subset, FS_CardinalityType
<1>5. CASE q[k].dst # n
  <2>1. BusyFor(p, n) = BusyFor(q, n) /\ PlainFor(p, n) = PlainFor(q, n)
    BY <1>1, <1>5 DEF BusyFor, PlainFor, InState
  <2> QED BY <1>2, <2>1
<1>6. CASE q[k].dst = n
  <2>1. Cardinality(BusyFor(q, n)) < BusyLimit(q[k])
    <3>1. n \notin Casts
      BY RequestsAssumption
    <3> QED BY <1>6, <3>1 DEF MaySend, BusyTo, BusyFor
  <2>2. Cardinality(BusyFor(p, n)) = Cardinality(BusyFor(q, n)) + 1
    <3>1. BusyFor(p, n) = BusyFor(q, n) \cup {k}
      BY <1>1, <1>6 DEF BusyFor, InState
    <3>2. Cardinality(BusyFor(q, n) \cup {k}) = Cardinality(BusyFor(q, n)) + 1
      BY <1>3, <1>4, FS_AddElement
    <3> QED BY <3>1, <3>2
  <2>3. CASE q[k].kind \in {"OTA", "DEFAULT_RSP"}
    <3>1. BusyLimit(q[k]) = 3
      BY <2>3 DEF BusyLimit
    <3>2. PlainFor(p, n) = PlainFor(q, n)
      BY <1>1, <2>3 DEF PlainFor, BusyFor, InState
    <3> QED BY <1>2, <1>4, <2>1, <2>2, <3>1, <3>2
  <2>4. CASE q[k].kind \notin {"OTA", "DEFAULT_RSP"}
    <3>1. BusyLimit(q[k]) = IF n \in Strict THEN 1 ELSE 2
      BY <2>4, <1>6 DEF BusyLimit, Strict
    <3>2. PlainFor(p, n) = PlainFor(q, n) \cup {k}
      BY <1>1, <1>6, <2>4 DEF PlainFor, BusyFor, InState
    <3>3. Cardinality(PlainFor(p, n)) = Cardinality(PlainFor(q, n)) + 1
      BY <1>3, <1>4, <3>2, FS_AddElement
    <3> QED BY <1>4, <2>1, <2>2, <3>1, <3>3
  <2> QED BY <2>3, <2>4
<1> QED BY <1>5, <1>6

LEMMA SendOK ==
  ASSUME NEW q, NEW t, Sound(q, t), NEW ids \in Seq(Ids), Len(ids) <= QApsLen,
         NEW dsts, NEW window, NEW group,
         NEW S, S = Chosen(q, ids, dsts, window, group)
  PROVE  /\ Sound(Busied(q, S), t) /\ QueuedIds(Busied(q, S)) = QueuedIds(q)
         /\ DOMAIN Busied(q, S) = DOMAIN q
         /\ Handed(q, ids, S) \in Seq(Ids) /\ Len(Handed(q, ids, S)) <= QApsLen
<1> DEFINE p == Busied(q, S)
<1>1. Good(q) /\ Limits(q) /\ ToldOf(q, t) /\ \A i \in DOMAIN q : q[i] \in Requests
  BY QueueIs DEF Sound
<1>2. CASE S = {}
  <2>1. p \in [DOMAIN q -> Requests] /\ \A i \in DOMAIN q : p[i] = q[i]
    BY <1>1, <1>2 DEF Busied
  <2> HIDE DEF p
  <2>2. Good(p) /\ DOMAIN p = DOMAIN q /\ QueuedIds(p) = QueuedIds(q)
    BY <1>1, <2>1, Remade
  <2>3. Sound(p, t)
    BY <2>1, <2>2, PartSound
  <2>4. Handed(q, ids, S) = ids
    BY <1>2 DEF Handed
  <2> QED BY <2>2, <2>3, <2>4 DEF p
<1>3. ASSUME NEW k \in DOMAIN q, S = {k}, MaySend(q, k, group), Len(ids) < QApsLen
      PROVE  /\ Sound(p, t) /\ QueuedIds(p) = QueuedIds(q) /\ DOMAIN p = DOMAIN q
             /\ Handed(q, ids, S) \in Seq(Ids) /\ Len(Handed(q, ids, S)) <= QApsLen
  <2>1. /\ p \in [DOMAIN q -> Requests]
        /\ \A i \in DOMAIN q : p[i].id = q[i].id /\ p[i].confirmed = q[i].confirmed
    <3>1. \A i \in DOMAIN q : [q[i] EXCEPT !.state = "Busy"] \in Requests
      BY <1>1 DEF Requests, States
    <3>2. \A i \in DOMAIN q : /\ [q[i] EXCEPT !.state = "Busy"].id = q[i].id
                             /\ [q[i] EXCEPT !.state = "Busy"].confirmed = q[i].confirmed
      BY <1>1 DEF Requests
    <3> QED BY <1>1, <3>1, <3>2 DEF Busied
  <2>2. Limits(p)
    BY <1>1, <1>3, BusiedLimits
  <2> HIDE DEF p
  <2>3. Good(p) /\ DOMAIN p = DOMAIN q /\ QueuedIds(p) = QueuedIds(q)
    BY <1>1, <2>1, Remade
  <2>4. ToldOf(p, t)
    BY <1>1, <2>1, <2>3 DEF ToldOf
  <2>5. Least(S) = k
    <3>1. k \in Nat
      BY <1>1, QueueIs
    <3> QED BY <1>3, <3>1, LeastIn
  <2>6. q[k].id \in Ids
    BY <1>1 DEF Requests
  <2>7. Handed(q, ids, S) = Append(ids, q[k].id)
    BY <1>3, <2>5 DEF Handed
  <2>8. Len(ids) \in Nat /\ QApsLen \in Nat
    BY LenProperties, RequestsAssumption
  <2>9. Handed(q, ids, S) \in Seq(Ids) /\ Len(Handed(q, ids, S)) = Len(ids) + 1
    BY <2>6, <2>7, AppendProperties
  <2> QED BY <1>3, <2>2, <2>3, <2>4, <2>8, <2>9 DEF Sound
<1>4. S = {} \/ \E k \in DOMAIN q : S = {k} /\ MaySend(q, k, group) /\ Len(ids) < QApsLen
  BY <1>1, ChosenIs
<1> QED BY <1>2, <1>3, <1>4

----------------------------------------------------------------------------
(* What the handlers do to the queue before they send.                     *)
LEMMA SoundMore ==
  ASSUME NEW q, NEW t, NEW u, Sound(q, t), t \subseteq u
  PROVE  Sound(q, u)
BY DEF Sound, ToldOf

LEMMA AppendOK ==
  ASSUME NEW q, NEW t, Sound(q, t), NEW r \in Requests, r.id \notin QueuedIds(q),
         r.state = "Idle", r.confirmed = FALSE
  PROVE  /\ Sound(Append(q, r), t \ {r.id})
         /\ QueuedIds(Append(q, r)) = QueuedIds(q) \cup {r.id}
<1> DEFINE p == Append(q, r)
<1>1. Good(q) /\ q \in Seq(Requests) /\ Len(q) \in Nat /\ DOMAIN q = 1 .. Len(q)
  BY QueueIs DEF Sound, Good
<1>2. /\ p \in Seq(Requests) /\ Len(p) = Len(q) + 1
      /\ \A i \in 1 .. Len(q) : p[i] = q[i]
      /\ p[Len(q) + 1] = r
  BY <1>1, AppendProperties
<1>3. DOMAIN p = 1 .. Len(q) + 1
  BY <1>2, LenProperties
<1> HIDE DEF p
<1>4. \A i \in DOMAIN p : \/ i \in DOMAIN q /\ p[i] = q[i]
                          \/ i = Len(q) + 1 /\ p[i] = r
  BY <1>1, <1>2, <1>3
<1>5. \A i \in DOMAIN q : i \in DOMAIN p /\ p[i] = q[i] /\ q[i].id # r.id
  BY <1>1, <1>2, <1>3 DEF QueuedIds
<1>6. Good(p)
  BY <1>1, <1>2, <1>4, <1>5 DEF Good
<1>7. Limits(p)
  BY <1>1, <1>4, <1>6, FewerBusy DEF Sound
<1>8. ToldOf(p, t \ {r.id})
  BY <1>4, <1>5 DEF ToldOf, Sound
<1>9. QueuedIds(p) = QueuedIds(q) \cup {r.id}
  <2>1. Len(q) + 1 \in DOMAIN p
    BY <1>1, <1>3
  <2> QED BY <1>2, <1>4, <1>5, <2>1 DEF QueuedIds
<1> QED BY <1>6, <1>7, <1>8, <1>9 DEF Sound, p

LEMMA FailAllOK ==
  ASSUME NEW q, NEW t, Sound(q, t), NEW S
  PROVE  /\ Sound(FailAll(q, S), t \cup FailedNow(q, S))
         /\ QueuedIds(FailAll(q, S)) = QueuedIds(q)
         /\ FailedNow(q, S) \subseteq QueuedIds(q)
<1> DEFINE p == FailAll(q, S)
           u == t \cup FailedNow(q, S)
<1>1. \A i \in DOMAIN q : q[i] \in Requests
  BY QueueIs DEF Sound
<1>2. \A i \in DOMAIN q :
        LET r == [q[i] EXCEPT !.state = "Failure", !.confirmed = TRUE, !.due = FALSE]
        IN r \in Requests /\ r.id = q[i].id /\ r.state = "Failure"
  BY <1>1 DEF Requests, States
<1>3. p \in [DOMAIN q -> Requests]
  BY <1>1, <1>2 DEF FailAll
<1>4. \A i \in DOMAIN q : \/ p[i] = q[i]
                          \/ q[i].id \in S /\ p[i].id = q[i].id /\ p[i].state = "Failure"
  BY <1>2 DEF FailAll
<1>5. \A i \in DOMAIN q : q[i].id \in S => q[i].confirmed \/ q[i].id \in u
  BY DEF FailedNow
<1>6. FailedNow(q, S) \subseteq QueuedIds(q)
  BY DEF FailedNow, QueuedIds
<1>7. t \subseteq u
  OBVIOUS
<1> HIDE DEF p, u
<1>8. \A i \in DOMAIN q :
        /\ p[i].id = q[i].id
        /\ p[i].state = "Busy" => /\ q[i].state = "Busy"
                                  /\ p[i].dst = q[i].dst /\ p[i].kind = q[i].kind
        /\ p[i].confirmed => q[i].confirmed \/ q[i].id \in u
  BY <1>4, <1>5
<1>9. Sound(p, u) /\ QueuedIds(p) = QueuedIds(q)
  BY <1>3, <1>7, <1>8, RemadeSound
<1> QED BY <1>6, <1>9 DEF p, u

\* Who was told of a failure does not depend on what was sent before.
LEMMA FailedBusied ==
  ASSUME NEW q, Good(q), NEW S, NEW F
  PROVE  FailedNow(Busied(q, S), F) = FailedNow(q, F)
<1>1. \A i \in DOMAIN q : /\ [q[i] EXCEPT !.state = "Busy"].id = q[i].id
                         /\ [q[i] EXCEPT !.state = "Busy"].confirmed = q[i].confirmed
  BY QueueIs DEF Requests
<1>2. DOMAIN Busied(q, S) = DOMAIN q
  BY DEF Busied
<1>3. \A i \in DOMAIN q : /\ Busied(q, S)[i].id = q[i].id
                         /\ Busied(q, S)[i].confirmed = q[i].confirmed
  BY <1>1 DEF Busied
<1> QED BY <1>2, <1>3 DEF FailedNow

LEMMA ConfirmInOK ==
  ASSUME NEW q, NEW t, Sound(q, t), NEW c, NEW ok \in BOOLEAN,
         NEW u, u = t \cup ({c.id} \cap QueuedIds(q))
  PROVE  /\ Sound(ConfirmIn(q, c, ok), u)
         /\ \/ QueuedIds(ConfirmIn(q, c, ok)) = QueuedIds(q)
            \/ /\ c.id \in QueuedIds(q)
               /\ QueuedIds(ConfirmIn(q, c, ok)) = QueuedIds(q) \ {c.id}
<1> DEFINE p == ConfirmIn(q, c, ok)
           k == Least(Matches(q, c))
<1>1. Good(q) /\ DOMAIN q = 1 .. Len(q) /\ Len(q) \in Nat /\ \A i \in DOMAIN q : q[i] \in Requests
  BY QueueIs DEF Sound
<1>2. t \subseteq u
  OBVIOUS
<1>3. CASE Matches(q, c) = {}
  BY <1>2, <1>3, SoundMore DEF ConfirmIn
<1>4. CASE Matches(q, c) # {}
  <2>1. k \in DOMAIN q /\ q[k].id = c.id
    <3>1. Matches(q, c) \in SUBSET Nat /\ Matches(q, c) \in SUBSET DOMAIN q
      BY <1>1 DEF Matches, InState
    <3>2. k \in Matches(q, c)
      BY <1>4, <3>1, LeastIn
    <3> QED BY <3>1, <3>2 DEF Matches
  <2>2. c.id \in QueuedIds(q) /\ c.id \in u
    BY <2>1 DEF QueuedIds
  <2> HIDE DEF k
  <2>3. CASE ok
    <3>1. p = [q EXCEPT ![k] = Delivered(q[k])]
      BY <1>4, <2>3 DEF ConfirmIn, k
    <3>2. Delivered(q[k]) \in Requests /\ Delivered(q[k]).id = q[k].id
          /\ Delivered(q[k]).state # "Busy"
      BY <1>1, <2>1 DEF Delivered, Requests, States
    <3> HIDE DEF p
    <3>3. p \in [DOMAIN q -> Requests]
      BY <1>1, <3>1, <3>2
    <3>4. \A i \in DOMAIN q : IF i = k THEN p[i] = Delivered(q[k]) ELSE p[i] = q[i]
      BY <1>1, <3>1
    <3>5. \A i \in DOMAIN q :
            /\ p[i].id = q[i].id
            /\ p[i].state = "Busy" => /\ q[i].state = "Busy"
                                      /\ p[i].dst = q[i].dst /\ p[i].kind = q[i].kind
            /\ p[i].confirmed => q[i].confirmed \/ q[i].id \in u
      BY <2>1, <2>2, <3>2, <3>4
    <3> QED BY <1>2, <3>3, <3>5, RemadeSound DEF p
  <2>4. CASE ~ ok
    <3>1. p = RemoveAt(q, k)
      BY <1>4, <2>4 DEF ConfirmIn, k
    <3>2. Sound(RemoveAt(q, k), t) /\ QueuedIds(RemoveAt(q, k)) = QueuedIds(q) \ {c.id}
      BY <2>1, RemoveOK
    <3> QED BY <1>2, <2>2, <3>1, <3>2, SoundMore
  <2> QED BY <2>3, <2>4
<1> QED BY <1>3, <1>4

\* timeoutTick: nothing becomes busy, nothing counts as confirmed.
LEMMA ExpiredOK ==
  ASSUME NEW q, NEW t, Sound(q, t), NEW k \in Nat,
         NEW p, p = [i \in DOMAIN q |-> IF i < k THEN Expired(q[i]) ELSE q[i]]
  PROVE  /\ Sound(p, t) /\ DOMAIN p = DOMAIN q /\ QueuedIds(p) = QueuedIds(q)
         /\ \A i \in DOMAIN q : p[i].id = q[i].id /\ p[i].confirmed = q[i].confirmed
         /\ p \in [DOMAIN q -> Requests] /\ \A i \in DOMAIN q : i >= k => p[i] = q[i]
<1>1. DOMAIN q \subseteq Nat /\ \A i \in DOMAIN q : q[i] \in Requests
  BY QueueIs DEF Sound
<1>2. \A i \in DOMAIN q :
        /\ Expired(q[i]) \in Requests /\ Expired(q[i]).id = q[i].id
        /\ Expired(q[i]).confirmed = q[i].confirmed
        /\ Expired(q[i]) = q[i] \/ Expired(q[i]).state # "Busy"
  BY <1>1 DEF Expired, Requests, States
<1>3. p \in [DOMAIN q -> Requests]
  BY <1>1, <1>2
<1>4. \A i \in DOMAIN q : p[i] = IF i < k THEN Expired(q[i]) ELSE q[i]
  OBVIOUS
<1>5. \A i \in DOMAIN q :
        /\ p[i].id = q[i].id /\ p[i].confirmed = q[i].confirmed
        /\ p[i].state = "Busy" => /\ q[i].state = "Busy"
                                  /\ p[i].dst = q[i].dst /\ p[i].kind = q[i].kind
  BY <1>2, <1>4
<1>6. Sound(p, t) /\ DOMAIN p = DOMAIN q /\ QueuedIds(p) = QueuedIds(q)
  BY <1>3, <1>5, RemadeSound
<1>7. \A i \in DOMAIN q : i >= k => p[i] = q[i]
  BY <1>1, <1>4
<1> QED BY <1>3, <1>5, <1>6, <1>7

\* onApsdeDataIndication: a response is noted, what is over is erased.
LEMMA AnsweredOK ==
  ASSUME NEW q, NEW t, Sound(q, t), NEW i \in DOMAIN q, q[i].state \in {"Busy", "Confirmed"},
         NEW p, p = [j \in DOMAIN q |-> p[j]],
         \A j \in DOMAIN q : p[j] = IF j = i THEN AnswerTo(q[i]) ELSE q[j]
  PROVE  /\ Sound(p, t) /\ DOMAIN p = DOMAIN q /\ QueuedIds(p) = QueuedIds(q)
<1>1. \A j \in DOMAIN q : q[j] \in Requests
  BY QueueIs DEF Sound
<1>2. /\ AnswerTo(q[i]) \in Requests /\ AnswerTo(q[i]).id = q[i].id
      /\ AnswerTo(q[i]).dst = q[i].dst /\ AnswerTo(q[i]).kind = q[i].kind
      /\ AnswerTo(q[i]).confirmed = q[i].confirmed
      /\ AnswerTo(q[i]).state = q[i].state \/ AnswerTo(q[i]).state = "Finish"
  BY <1>1 DEF AnswerTo, Requests, States
<1>3. p \in [DOMAIN q -> Requests] /\ \A j \in DOMAIN q : p[j] = IF j = i THEN AnswerTo(q[i]) ELSE q[j]
  BY <1>1, <1>2
<1>4. \A j \in DOMAIN q :
        /\ p[j].id = q[j].id
        /\ p[j].state = "Busy" => /\ q[j].state = "Busy"
                                  /\ p[j].dst = q[j].dst /\ p[j].kind = q[j].kind
        /\ p[j].confirmed => q[j].confirmed \/ q[j].id \in t
  BY <1>2, <1>3
<1>5. t \subseteq t
  OBVIOUS
<1> QED BY <1>3, <1>4, <1>5, RemadeSound

LEMMA LateOK ==
  ASSUME NEW q, NEW t, Sound(q, t), NEW p, p = [j \in DOMAIN q |-> p[j]],
         \A j \in DOMAIN q : \/ p[j] = q[j]
                             \/ p[j] = [q[j] EXCEPT !.state = "Finish", !.due = FALSE]
  PROVE  Sound(p, t) /\ QueuedIds(p) = QueuedIds(q)
<1>1. \A j \in DOMAIN q : q[j] \in Requests
  BY QueueIs DEF Sound
<1>2. \A j \in DOMAIN q :
        LET r == [q[j] EXCEPT !.state = "Finish", !.due = FALSE]
        IN r \in Requests /\ r.id = q[j].id /\ r.state # "Busy" /\ r.confirmed = q[j].confirmed
  BY <1>1 DEF Requests, States
<1>3. p \in [DOMAIN q -> Requests]
  BY <1>1, <1>2
<1>4. \A j \in DOMAIN q :
        /\ p[j].id = q[j].id
        /\ p[j].state = "Busy" => /\ q[j].state = "Busy"
                                  /\ p[j].dst = q[j].dst /\ p[j].kind = q[j].kind
        /\ p[j].confirmed => q[j].confirmed \/ q[j].id \in t
  BY <1>2
<1> QED BY <1>3, <1>4, RemadeSound

\* The queue q without its requests at S has lost the ids of users in t alone.
Drops(q, S, t) == \E F \in SUBSET (QueuedIds(q) \cap t) :
                    {q[j].id : j \in DOMAIN q \ S} = QueuedIds(q) \ F

\* The users of requests that are over were told.
LEMMA OverIsTold ==
  ASSUME NEW q, NEW t, Sound(q, t), NEW S \in SUBSET DOMAIN q, \A j \in S : IsOver(q[j])
  PROVE  Drops(q, S, t)
<1> DEFINE F == {q[j].id : j \in S}
<1>1. F \subseteq QueuedIds(q) \cap t
  BY DEF QueuedIds, IsOver, Sound, ToldOf
<1>2. {q[j].id : j \in DOMAIN q \ S} = QueuedIds(q) \ F
  BY DEF QueuedIds, Sound, Good
<1> QED BY <1>1, <1>2 DEF Drops

----------------------------------------------------------------------------
(* The inductive invariant: the queue is sound, and what it hands over     *)
(* fits.                                                                   *)
IInv ==
  /\ Sound(queue, told)
  /\ qaps \in Seq(Ids) /\ Len(qaps) <= QApsLen
  /\ cmds \subseteq Frames /\ air \subseteq Frames
  /\ {online, otau, grouped} \subseteq BOOLEAN
  /\ told \subseteq Ids

\* What a step does to the two variables of ApsService.
Promise == [Service!Next]_(Service!vars)

LEMMA PromiseIs ==
  ASSUME IInv,
         \/ QueuedIds(queue') = QueuedIds(queue) /\ told' = told
         \/ \E id \in Ids : /\ id \notin QueuedIds(queue)
                            /\ QueuedIds(queue') = QueuedIds(queue) \cup {id}
                            /\ told' = told \ {id}
         \/ \E S \in SUBSET QueuedIds(queue) : /\ QueuedIds(queue') = QueuedIds(queue)
                                               /\ told' = told \cup S
         \/ \E S \in SUBSET (QueuedIds(queue) \cap told) :
               QueuedIds(queue') = QueuedIds(queue) \ S /\ told' = told
         \/ \E id \in QueuedIds(queue) : /\ QueuedIds(queue') = QueuedIds(queue) \ {id}
                                         /\ told' = told \cup {id}
  PROVE  Promise
<1>1. QueuedIds(queue) \subseteq Ids
  BY QueueIs DEF IInv, Sound, QueuedIds, Requests
<1>2. CASE QueuedIds(queue') = QueuedIds(queue) /\ told' = told
  BY <1>2 DEF Promise, Service!vars
<1>3. ASSUME NEW id \in Ids, id \notin QueuedIds(queue),
             QueuedIds(queue') = QueuedIds(queue) \cup {id}, told' = told \ {id}
      PROVE  Promise
  <2>1. Service!Accept(id)
    BY <1>3 DEF Service!Accept
  <2> QED BY <2>1 DEF Promise, Service!Next
<1>4. ASSUME NEW S \in SUBSET QueuedIds(queue), QueuedIds(queue') = QueuedIds(queue),
             told' = told \cup S
      PROVE  Promise
  <2>1. Service!Tell(S) /\ S \in SUBSET Ids
    BY <1>1, <1>4 DEF Service!Tell
  <2> QED BY <2>1 DEF Promise, Service!Next
<1>5. ASSUME NEW S \in SUBSET (QueuedIds(queue) \cap told),
             QueuedIds(queue') = QueuedIds(queue) \ S, told' = told
      PROVE  Promise
  <2>1. Service!Forget(S) /\ S \in SUBSET Ids
    BY <1>1, <1>5 DEF Service!Forget
  <2> QED BY <2>1 DEF Promise, Service!Next
<1>6. ASSUME NEW id \in QueuedIds(queue), QueuedIds(queue') = QueuedIds(queue) \ {id},
             told' = told \cup {id}
      PROVE  Promise
  <2>1. Service!TellAndForget(id) /\ id \in Ids
    BY <1>1, <1>6 DEF Service!TellAndForget
  <2> QED BY <2>1 DEF Promise, Service!Next
<1> QED BY <1>2, <1>3, <1>4, <1>5, <1>6

----------------------------------------------------------------------------
(* The actions.                                                            *)

\* A handler that changes the queue to q and the history to t, then sends.
LEMMA ThenSends ==
  ASSUME IInv, NEW q, NEW t, Sound(q, t), t \subseteq Ids, NEW ids \in Seq(Ids), Len(ids) <= QApsLen,
         NEW dsts, NEW window, NEW group \in BOOLEAN,
         SendNextApsdeDataRequest(q, ids, dsts, window, group), told' = t,
         cmds' \subseteq Frames, air' \subseteq Frames, online' \in BOOLEAN, otau' \in BOOLEAN
  PROVE  IInv' /\ QueuedIds(queue') = QueuedIds(q)
<1> DEFINE S == Chosen(q, ids, dsts, window, group)
<1>1. /\ queue' = Busied(q, S) /\ qaps' = Handed(q, ids, S)
      /\ grouped' = (group \/ \E i \in S : q[i].dst \in Casts)
  BY DEF SendNextApsdeDataRequest
<1> HIDE DEF S
<1>2. /\ Sound(Busied(q, S), t) /\ QueuedIds(Busied(q, S)) = QueuedIds(q)
      /\ Handed(q, ids, S) \in Seq(Ids) /\ Len(Handed(q, ids, S)) <= QApsLen
  BY SendOK DEF S
<1>3. grouped' \in BOOLEAN
  BY <1>1
<1> QED BY <1>1, <1>2, <1>3 DEF IInv

LEMMA SubmitOK ==
  ASSUME IInv, Submit
  PROVE  IInv' /\ Promise
<1>1. PICK id \in Ids, kind \in Kinds, dst \in Nodes \cup Casts, wait \in Delays :
        ApsdeDataRequest(id, kind, dst, wait)
  BY DEF Submit
<1> DEFINE r == [id |-> id, kind |-> kind, dst |-> dst, state |-> "Idle", confirmed |-> FALSE,
                 answered |-> FALSE, due |-> FALSE, wait |-> wait]
<1>2. PICK window \in BOOLEAN :
        SendNextApsdeDataRequest(Append(queue, r), qaps, Anyone, window, grouped)
  BY <1>1 DEF ApsdeDataRequest
<1>3. /\ id \notin QueuedIds(queue) /\ told' = told \ {id} /\ otau' = (otau \/ kind = "OTA")
      /\ UNCHANGED <<cmds, air, online>>
  BY <1>1 DEF ApsdeDataRequest, CheckIdOverFlow
<1>4. /\ r \in Requests /\ r.id = id /\ r.state = "Idle" /\ r.confirmed = FALSE
  BY RequestsAssumption DEF Requests, States
<1> HIDE DEF r
<1>5. Sound(Append(queue, r), told') /\ QueuedIds(Append(queue, r)) = QueuedIds(queue) \cup {id}
  BY <1>3, <1>4, AppendOK DEF IInv
<1>6. /\ told' \subseteq Ids /\ qaps \in Seq(Ids) /\ Len(qaps) <= QApsLen /\ grouped \in BOOLEAN
      /\ cmds' \subseteq Frames /\ air' \subseteq Frames /\ online' \in BOOLEAN
  BY <1>3 DEF IInv
<1>7. otau' \in BOOLEAN
  BY <1>3
<1>8. IInv' /\ QueuedIds(queue') = QueuedIds(queue) \cup {id}
  BY <1>2, <1>5, <1>6, <1>7, ThenSends
<1>9. Promise
  BY <1>3, <1>8, PromiseIs
<1> QED BY <1>8, <1>9

LEMMA ClearAllOK ==
  ASSUME IInv, NEW n \in Nodes, ClearAllApsRequestsToNode(n)
  PROVE  IInv' /\ Promise
<1>1. \A i \in DOMAIN queue : queue[i] \in Requests
  BY QueueIs DEF IInv, Sound
<1>2. \A i \in DOMAIN queue :
        LET r == [queue[i] EXCEPT !.state = "Finish", !.due = FALSE]
        IN r \in Requests /\ r.id = queue[i].id /\ r.state # "Busy" /\ r.confirmed = queue[i].confirmed
  BY <1>1 DEF Requests, States
<1>3. queue' = [i \in DOMAIN queue |->
                  IF queue[i].dst = n THEN [queue[i] EXCEPT !.state = "Finish", !.due = FALSE]
                  ELSE queue[i]]
  BY DEF ClearAllApsRequestsToNode
<1>4. queue' \in [DOMAIN queue -> Requests]
  BY <1>1, <1>2, <1>3
<1>5. \A i \in DOMAIN queue :
        /\ queue'[i].id = queue[i].id
        /\ queue'[i].state = "Busy" => /\ queue[i].state = "Busy"
                                       /\ queue'[i].dst = queue[i].dst /\ queue'[i].kind = queue[i].kind
        /\ queue'[i].confirmed => queue[i].confirmed \/ queue[i].id \in told
  BY <1>2, <1>3
<1>6. Sound(queue', told) /\ QueuedIds(queue') = QueuedIds(queue)
  BY <1>4, <1>5, RemadeSound DEF IInv
<1>7. UNCHANGED <<qaps, cmds, air, online, otau, grouped, told>>
  BY DEF ClearAllApsRequestsToNode
<1> QED BY <1>6, <1>7, PromiseIs DEF IInv

LEMMA SendNextOK ==
  ASSUME IInv, SendNext
  PROVE  IInv' /\ Promise
<1>1. PICK window \in BOOLEAN : SendNextApsdeDataRequest(queue, qaps, Anyone, window, grouped)
  BY DEF SendNext
<1>2. UNCHANGED <<cmds, air, online, otau, told>>
  BY DEF SendNext
<1>3. IInv' /\ QueuedIds(queue') = QueuedIds(queue)
  BY <1>1, <1>2, ThenSends DEF IInv
<1> QED BY <1>2, <1>3, PromiseIs

LEMMA TimeoutTickOK ==
  ASSUME IInv, TimeoutTick
  PROVE  IInv' /\ Promise
<1> DEFINE ends == InState(queue, "Finish") \cup InState(queue, "Failure")
           k    == IF ends = {} THEN Len(queue) + 1 ELSE Least(ends)
           seen == [i \in DOMAIN queue |-> IF i < k THEN Expired(queue[i]) ELSE queue[i]]
<1>1. /\ DOMAIN queue \subseteq Nat /\ Len(queue) \in Nat
      /\ \A i \in DOMAIN queue : queue[i] \in Requests
  BY QueueIs DEF IInv, Sound
<1>2. ends \subseteq DOMAIN queue /\ ends \in SUBSET Nat
      /\ \A i \in ends : queue[i].state \in {"Finish", "Failure"}
  BY <1>1 DEF InState
<1>3. UNCHANGED <<qaps, cmds, air, online, otau, grouped>>
  BY DEF TimeoutTick
<1>4. \/ ends = {} /\ queue' = seen /\ told' = told
      \/ ends # {} /\ queue[k].confirmed /\ queue' = RemoveAt(seen, k) /\ told' = told
      \/ /\ ends # {} /\ ~ queue[k].confirmed
         /\ queue' = [seen EXCEPT ![k] = [seen[k] EXCEPT !.confirmed = TRUE]]
         /\ told' = told \cup {queue[k].id}
  BY DEF TimeoutTick, MayErase
<1> HIDE DEF ends
<1>5. /\ k \in Nat /\ (ends # {} => k \in ends)
  BY <1>1, <1>2, LeastIn
<1> HIDE DEF k
<1>6. /\ Sound(seen, told) /\ DOMAIN seen = DOMAIN queue /\ QueuedIds(seen) = QueuedIds(queue)
      /\ \A i \in DOMAIN queue : seen[i].id = queue[i].id /\ seen[i].confirmed = queue[i].confirmed
      /\ seen \in [DOMAIN queue -> Requests] /\ \A i \in DOMAIN queue : i >= k => seen[i] = queue[i]
  BY <1>5, ExpiredOK DEF IInv
<1> HIDE DEF seen
<1>7. CASE ends = {} /\ queue' = seen /\ told' = told
  BY <1>3, <1>6, <1>7, PromiseIs DEF IInv
<1>8. CASE ends # {} /\ queue[k].confirmed /\ queue' = RemoveAt(seen, k) /\ told' = told
  <2>1. k \in DOMAIN seen /\ seen[k].id = queue[k].id
    BY <1>2, <1>5, <1>6, <1>8
  <2>2. Sound(queue', told') /\ QueuedIds(queue') = QueuedIds(queue) \ {queue[k].id}
    BY <1>6, <1>8, <2>1, RemoveOK
  <2>3. queue[k].id \in QueuedIds(queue) /\ queue[k].id \in told
    BY <1>2, <1>5, <1>8 DEF IInv, Sound, ToldOf, QueuedIds
  <2>4. \E S \in SUBSET (QueuedIds(queue) \cap told) : QueuedIds(queue') = QueuedIds(queue) \ S
    BY <2>2, <2>3
  <2>5. Promise
    BY <1>8, <2>4, PromiseIs
  <2> QED BY <1>3, <1>8, <2>2, <2>5 DEF IInv
<1>9. CASE /\ ends # {} /\ ~ queue[k].confirmed
           /\ queue' = [seen EXCEPT ![k] = [seen[k] EXCEPT !.confirmed = TRUE]]
           /\ told' = told \cup {queue[k].id}
  <2>1. /\ k \in DOMAIN queue /\ seen[k] = queue[k] /\ queue[k].state # "Busy"
    BY <1>1, <1>2, <1>5, <1>6, <1>9
  <2> DEFINE r == [seen[k] EXCEPT !.confirmed = TRUE]
  <2>2. r \in Requests /\ r.id = queue[k].id /\ r.state # "Busy"
    BY <1>1, <2>1 DEF Requests
  <2>3. queue' = [seen EXCEPT ![k] = r]
    BY <1>9
  <2> HIDE DEF r
  <2>4. /\ queue' \in [DOMAIN seen -> Requests]
        /\ \A i \in DOMAIN seen : queue'[i] = IF i = k THEN r ELSE seen[i]
    BY <1>6, <2>2, <2>3
  <2>5. told \subseteq told' /\ queue[k].id \in told' /\ queue[k].id \in Ids
    BY <1>1, <1>9, <2>1 DEF Requests
  <2>6. \A i \in DOMAIN seen :
          /\ queue'[i].id = seen[i].id
          /\ queue'[i].state = "Busy" => /\ seen[i].state = "Busy"
                                         /\ queue'[i].dst = seen[i].dst /\ queue'[i].kind = seen[i].kind
          /\ queue'[i].confirmed => seen[i].confirmed \/ seen[i].id \in told'
    BY <1>6, <2>1, <2>2, <2>4, <2>5
  <2>7. Sound(queue', told') /\ QueuedIds(queue') = QueuedIds(seen)
    BY <1>6, <2>4, <2>5, <2>6, RemadeSound
  <2>8. {queue[k].id} \in SUBSET QueuedIds(queue)
    BY <2>1 DEF QueuedIds
  <2>9. Promise
    BY <1>6, <1>9, <2>7, <2>8, PromiseIs
  <2> QED BY <1>3, <1>9, <2>5, <2>7, <2>9 DEF IInv
<1> QED BY <1>4, <1>7, <1>8, <1>9

\* The clock sets or clears a mark of a request.
LEMMA DueIs ==
  ASSUME NEW r \in Requests, NEW b \in BOOLEAN, NEW s, s = [r EXCEPT !.due = b]
  PROVE  /\ s \in Requests /\ s.id = r.id /\ s.state = r.state
         /\ s.dst = r.dst /\ s.kind = r.kind /\ s.confirmed = r.confirmed
BY DEF Requests

LEMMA TickOK ==
  ASSUME IInv, Tick
  PROVE  IInv' /\ Promise
<1>1. \A i \in DOMAIN queue : queue[i] \in Requests
  BY QueueIs DEF IInv, Sound
<1>2. /\ queue' = [i \in DOMAIN queue |->
                     [queue[i] EXCEPT !.due = queue[i].state \in {"Busy", "Confirmed"}]]
      /\ UNCHANGED <<qaps, cmds, air, online, otau, grouped, told>>
  BY DEF Tick
<1>3. \A i \in DOMAIN queue :
        LET r == [queue[i] EXCEPT !.due = queue[i].state \in {"Busy", "Confirmed"}]
        IN /\ r \in Requests /\ r.id = queue[i].id /\ r.state = queue[i].state
           /\ r.dst = queue[i].dst /\ r.kind = queue[i].kind /\ r.confirmed = queue[i].confirmed
  <2> TAKE i \in DOMAIN queue
  <2>1. (queue[i].state \in {"Busy", "Confirmed"}) \in BOOLEAN
    OBVIOUS
  <2> QED BY <1>1, <2>1, DueIs
<1>4. queue' \in [DOMAIN queue -> Requests]
  BY <1>2, <1>3
<1>5. \A i \in DOMAIN queue :
        /\ queue'[i].id = queue[i].id
        /\ queue'[i].state = "Busy" => /\ queue[i].state = "Busy"
                                       /\ queue'[i].dst = queue[i].dst /\ queue'[i].kind = queue[i].kind
        /\ queue'[i].confirmed => queue[i].confirmed \/ queue[i].id \in told
  BY <1>2, <1>3
<1>6. Sound(queue', told) /\ QueuedIds(queue') = QueuedIds(queue)
  BY <1>4, <1>5, RemadeSound DEF IInv
<1> QED BY <1>2, <1>6, PromiseIs DEF IInv

LEMMA TailOK ==
  ASSUME IInv, qaps # <<>>
  PROVE  Tail(qaps) \in Seq(Ids) /\ Len(Tail(qaps)) <= QApsLen
<1>1. qaps \in Seq(Ids) /\ Len(qaps) <= QApsLen /\ QApsLen \in Nat
  BY RequestsAssumption DEF IInv
<1>2. Tail(qaps) \in Seq(Ids) /\ Len(Tail(qaps)) = Len(qaps) - 1 /\ Len(qaps) \in Nat
  BY <1>1, HeadTailProperties, LenProperties
<1> QED BY <1>1, <1>2

LEMMA QueNextOK ==
  ASSUME IInv, QueNextApsDataRequest
  PROVE  IInv' /\ Promise
<1>1. /\ SendNextApsdeDataRequest(queue, Tail(qaps), Anyone, TRUE, grouped)
      /\ cmds' = cmds \cup {[id |-> queue[i].id, dst |-> queue[i].dst] :
                              i \in {j \in DOMAIN queue : queue[j].id = Head(qaps)}}
      /\ UNCHANGED <<air, online, otau, told>> /\ qaps # <<>>
  BY DEF QueNextApsDataRequest
<1>2. cmds' \subseteq Frames
  <2>1. \A i \in DOMAIN queue : queue[i] \in Requests
    BY QueueIs DEF IInv, Sound
  <2>2. \A i \in DOMAIN queue : [id |-> queue[i].id, dst |-> queue[i].dst] \in Frames
    BY <2>1 DEF Requests, Frames
  <2> QED BY <1>1, <2>2 DEF IInv
<1>3. Tail(qaps) \in Seq(Ids) /\ Len(Tail(qaps)) <= QApsLen
  BY <1>1, TailOK
<1>4. IInv' /\ QueuedIds(queue') = QueuedIds(queue)
  BY <1>1, <1>2, <1>3, ThenSends DEF IInv
<1> QED BY <1>1, <1>4, PromiseIs

LEMMA QueNextFailsOK ==
  ASSUME IInv, QueNextFails
  PROVE  IInv' /\ Promise
<1> DEFINE S == Chosen(queue, Tail(qaps), Anyone, TRUE, grouped)
           q == Busied(queue, S)
           F == FailedNow(queue, {Head(qaps)})
<1>1. /\ qaps # <<>>
      /\ queue' = FailAll(q, {Head(qaps)}) /\ qaps' = Handed(queue, Tail(qaps), S)
      /\ grouped' = (grouped \/ \E i \in S : queue[i].dst \in Casts)
      /\ told' = told \cup F
      /\ UNCHANGED <<cmds, air, online, otau>>
  BY DEF QueNextFails
<1>2. Tail(qaps) \in Seq(Ids) /\ Len(Tail(qaps)) <= QApsLen
  BY <1>1, TailOK
<1> HIDE DEF S
<1>3. /\ Sound(q, told) /\ QueuedIds(q) = QueuedIds(queue)
      /\ qaps' \in Seq(Ids) /\ Len(qaps') <= QApsLen
  <2>1. S = Chosen(queue, Tail(qaps), Anyone, TRUE, grouped)
    BY DEF S
  <2>2. Sound(queue, told)
    BY DEF IInv
  <2>3. \A ids \in Seq(Ids) : \A window, group, C :
          Len(ids) <= QApsLen /\ C = Chosen(queue, ids, Anyone, window, group)
          => /\ Sound(Busied(queue, C), told) /\ QueuedIds(Busied(queue, C)) = QueuedIds(queue)
             /\ Handed(queue, ids, C) \in Seq(Ids) /\ Len(Handed(queue, ids, C)) <= QApsLen
    BY <2>2, SendOK
  <2> QED BY <1>1, <1>2, <2>1, <2>3
<1>4. FailedNow(q, {Head(qaps)}) = F
  BY FailedBusied DEF IInv, Sound
<1> HIDE DEF q, F
<1>5. /\ Sound(queue', told') /\ QueuedIds(queue') = QueuedIds(queue)
      /\ F \in SUBSET QueuedIds(queue)
  BY <1>1, <1>3, <1>4, FailAllOK
<1>6. QueuedIds(queue) \subseteq Ids
  BY QueueIs DEF IInv, Sound, QueuedIds, Requests
<1>7. grouped' \in BOOLEAN
  BY <1>1
<1>8. IInv'
  BY <1>1, <1>3, <1>5, <1>6, <1>7 DEF IInv
<1>9. Promise
  BY <1>1, <1>5, PromiseIs
<1> QED BY <1>8, <1>9

\* The two ways in which zmMaster drops what it holds.
LEMMA DropOK ==
  ASSUME IInv, NEW F, queue' = FailAll(queue, F), told' = told \cup FailedNow(queue, F),
         qaps' \in Seq(Ids), Len(qaps') <= QApsLen, cmds' \subseteq cmds, online' \in BOOLEAN,
         UNCHANGED <<air, otau, grouped>>
  PROVE  IInv' /\ Promise
<1>1. /\ Sound(queue', told') /\ QueuedIds(queue') = QueuedIds(queue)
      /\ FailedNow(queue, F) \in SUBSET QueuedIds(queue)
  BY FailAllOK DEF IInv
<1>2. QueuedIds(queue) \subseteq Ids
  BY QueueIs DEF IInv, Sound, QueuedIds, Requests
<1>3. IInv'
  BY <1>1, <1>2 DEF IInv
<1>4. Promise
  BY <1>1, PromiseIs
<1> QED BY <1>3, <1>4

LEMMA KillOK ==
  ASSUME IInv, KillCommandQueue
  PROVE  IInv' /\ Promise
<1> DEFINE F == {c.id : c \in cmds} \cup {qaps[i] : i \in DOMAIN qaps}
<1>1. /\ queue' = FailAll(queue, F) /\ told' = told \cup FailedNow(queue, F)
      /\ qaps' = <<>> /\ cmds' = {} /\ online' = FALSE /\ UNCHANGED <<air, otau, grouped>>
  BY DEF KillCommandQueue
<1>2. qaps' \in Seq(Ids) /\ Len(qaps') <= QApsLen
  <2>1. <<>> \in Seq(Ids) /\ Len(<<>>) = 0
    BY EmptySeq
  <2> QED BY <1>1, <2>1, RequestsAssumption
<1> HIDE DEF F
<1>3. cmds' \subseteq cmds /\ online' \in BOOLEAN
  BY <1>1
<1> QED BY <1>1, <1>2, <1>3, DropOK

LEMMA GiveUpOK ==
  ASSUME IInv, NEW c \in cmds, GiveUp(c)
  PROVE  IInv' /\ Promise
<1>1. /\ queue' = FailAll(queue, {c.id}) /\ told' = told \cup FailedNow(queue, {c.id})
      /\ cmds' = cmds \ {c} /\ UNCHANGED <<qaps, air, online, otau, grouped>>
  BY DEF GiveUp
<1>2. qaps' \in Seq(Ids) /\ Len(qaps') <= QApsLen /\ cmds' \subseteq cmds /\ online' \in BOOLEAN
  BY <1>1 DEF IInv
<1> QED BY <1>1, <1>2, DropOK

LEMMA ConfirmOK ==
  ASSUME IInv, NEW c \in air, NEW ok \in BOOLEAN, OnApsdeDataConfirm(c, ok)
  PROVE  IInv' /\ Promise
<1> DEFINE q == ConfirmIn(queue, c, ok)
<1>1. /\ air' = air \ {c} /\ told' = told \cup ({c.id} \cap QueuedIds(queue))
      /\ UNCHANGED <<cmds, online, otau>>
  BY DEF OnApsdeDataConfirm
<1>2. PICK window \in BOOLEAN : SendNextApsdeDataRequest(q, qaps, Anyone, window, grouped)
  BY DEF OnApsdeDataConfirm
<1>3. /\ Sound(q, told')
      /\ \/ QueuedIds(q) = QueuedIds(queue)
         \/ c.id \in QueuedIds(queue) /\ QueuedIds(q) = QueuedIds(queue) \ {c.id}
  BY <1>1, ConfirmInOK DEF IInv
<1> HIDE DEF q
<1>4. QueuedIds(queue) \subseteq Ids
  BY QueueIs DEF IInv, Sound, QueuedIds, Requests
<1>5. /\ told' \subseteq Ids /\ qaps \in Seq(Ids) /\ Len(qaps) <= QApsLen /\ grouped \in BOOLEAN
      /\ cmds' \subseteq Frames /\ air' \subseteq Frames /\ online' \in BOOLEAN /\ otau' \in BOOLEAN
  BY <1>1, <1>4 DEF IInv
<1>6. IInv' /\ QueuedIds(queue') = QueuedIds(q)
  BY <1>2, <1>3, <1>5, ThenSends
<1>7. CASE QueuedIds(q) = QueuedIds(queue)
  <2>1. {c.id} \cap QueuedIds(queue) \in SUBSET QueuedIds(queue)
    OBVIOUS
  <2>2. Promise
    BY <1>1, <1>6, <1>7, <2>1, PromiseIs
  <2> QED BY <1>6, <2>2
<1>8. CASE c.id \in QueuedIds(queue) /\ QueuedIds(q) = QueuedIds(queue) \ {c.id}
  <2>1. told' = told \cup {c.id}
    BY <1>1, <1>8
  <2>2. Promise
    BY <1>6, <1>8, <2>1, PromiseIs
  <2> QED BY <1>6, <2>2
<1> QED BY <1>3, <1>7, <1>8

LEMMA IndicationOK ==
  ASSUME IInv, NEW n \in Nodes, NEW i \in DOMAIN queue \cup {0}, OnApsdeDataIndication(n, i)
  PROVE  IInv' /\ Promise
<1>1. PICK hidden \in BOOLEAN, window \in BOOLEAN, cast \in BOOLEAN :
       LET seen == IF i = 0 \/ hidden THEN queue ELSE [queue EXCEPT ![i] = AnswerTo(queue[i])]
           kept == Erased(seen, {j \in DOMAIN seen : IsOver(seen[j])})
           late == [j \in DOMAIN kept |->
                      IF i # 0 /\ hidden THEN AnsweredLate(kept[j], queue[i].id) ELSE kept[j]]
       IN SendNextApsdeDataRequest(late, qaps, {n}, window, grouped \/ cast)
  BY DEF OnApsdeDataIndication
<1> DEFINE seen == IF i = 0 \/ hidden THEN queue ELSE [queue EXCEPT ![i] = AnswerTo(queue[i])]
           over == {j \in DOMAIN seen : IsOver(seen[j])}
           kept == Erased(seen, over)
           late == [j \in DOMAIN kept |->
                      IF i # 0 /\ hidden THEN AnsweredLate(kept[j], queue[i].id) ELSE kept[j]]
<1>2. UNCHANGED <<cmds, air, online, otau, told>> /\ (i # 0 => Answers(queue[i], n))
  BY DEF OnApsdeDataIndication
<1>3. SendNextApsdeDataRequest(late, qaps, {n}, window, grouped \/ cast)
  BY <1>1
<1>4. Sound(seen, told) /\ QueuedIds(seen) = QueuedIds(queue)
  <2>1. CASE i = 0 \/ hidden
    BY <2>1 DEF IInv
  <2>2. CASE ~ (i = 0 \/ hidden)
    <3>1. i \in DOMAIN queue /\ queue[i].state \in {"Busy", "Confirmed"}
      BY <1>2, <2>2 DEF Answers
    <3>2. seen = [queue EXCEPT ![i] = AnswerTo(queue[i])]
      BY <2>2
    <3> HIDE DEF seen
    <3>3. Sound(queue, told)
      BY DEF IInv
    <3>4. /\ DOMAIN seen = DOMAIN queue /\ seen = [j \in DOMAIN seen |-> seen[j]]
          /\ \A j \in DOMAIN queue : seen[j] = IF j = i THEN AnswerTo(queue[i]) ELSE queue[j]
      BY <3>2
    <3>5. seen = [j \in DOMAIN queue |-> seen[j]]
      BY <3>4
    <3> QED BY <3>1, <3>3, <3>4, <3>5, AnsweredOK
  <2> QED BY <2>1, <2>2
<1> HIDE DEF seen
<1>5. /\ Sound(kept, told) /\ QueuedIds(kept) = {seen[j].id : j \in DOMAIN seen \ over}
  BY <1>4, EraseOK
<1>6. PICK F \in SUBSET (QueuedIds(queue) \cap told) :
        {seen[j].id : j \in DOMAIN seen \ over} = QueuedIds(queue) \ F
  <2>1. over \in SUBSET DOMAIN seen /\ \A j \in over : IsOver(seen[j])
    OBVIOUS
  <2> HIDE DEF over
  <2>2. Drops(seen, over, told)
    BY <1>4, <2>1, OverIsTold
  <2> QED BY <1>4, <2>2 DEF Drops
<1> HIDE DEF kept, over
<1>7. Sound(late, told) /\ QueuedIds(late) = QueuedIds(kept)
  <2>1. /\ late = [j \in DOMAIN kept |-> late[j]]
        /\ \A j \in DOMAIN kept :
             \/ late[j] = kept[j]
             \/ late[j] = [kept[j] EXCEPT !.state = "Finish", !.due = FALSE]
    BY DEF AnsweredLate
  <2> HIDE DEF late
  <2> QED BY <1>5, <2>1, LateOK
<1> HIDE DEF late
<1>8. (grouped \/ cast) \in BOOLEAN
  OBVIOUS
<1>9. IInv' /\ QueuedIds(queue') = QueuedIds(late)
  BY <1>2, <1>3, <1>7, <1>8, ThenSends DEF IInv
<1>10. Promise
  BY <1>2, <1>5, <1>6, <1>7, <1>9, PromiseIs
<1> QED BY <1>9, <1>10

\* The clock: it sets a mark of one request.
LEMMA ClockOK ==
  ASSUME IInv, NEW i \in DOMAIN queue, NEW r \in Requests, queue' = [queue EXCEPT ![i] = r],
         r.id = queue[i].id, r.state = queue[i].state, r.dst = queue[i].dst,
         r.kind = queue[i].kind, r.confirmed = queue[i].confirmed,
         UNCHANGED <<qaps, cmds, air, online, otau, grouped, told>>
  PROVE  IInv' /\ Promise
<1>1. \A j \in DOMAIN queue : queue[j] \in Requests
  BY QueueIs DEF IInv, Sound
<1>2. /\ queue' \in [DOMAIN queue -> Requests]
      /\ \A j \in DOMAIN queue : queue'[j] = IF j = i THEN r ELSE queue[j]
  BY <1>1
<1>3. \A j \in DOMAIN queue :
        /\ queue'[j].id = queue[j].id
        /\ queue'[j].state = "Busy" => /\ queue[j].state = "Busy"
                                       /\ queue'[j].dst = queue[j].dst /\ queue'[j].kind = queue[j].kind
        /\ queue'[j].confirmed => queue[j].confirmed \/ queue[j].id \in told
  BY <1>2
<1>4. Sound(queue', told) /\ QueuedIds(queue') = QueuedIds(queue)
  BY <1>2, <1>3, RemadeSound DEF IInv
<1> QED BY <1>4, PromiseIs DEF IInv

LEMMA TimeRunsOutOK ==
  ASSUME IInv, NEW id \in Ids, TimeRunsOut(id)
  PROVE  IInv' /\ Promise
<1>1. PICK i \in InState(queue, "Busy") \cup InState(queue, "Confirmed") :
        queue' = [queue EXCEPT ![i] = [queue[i] EXCEPT !.due = TRUE]]
  BY DEF TimeRunsOut
<1> DEFINE r == [queue[i] EXCEPT !.due = TRUE]
<1>2. i \in DOMAIN queue /\ queue[i] \in Requests
  BY QueueIs DEF InState, IInv, Sound
<1>3. /\ r \in Requests /\ r.id = queue[i].id /\ r.state = queue[i].state /\ r.dst = queue[i].dst
      /\ r.kind = queue[i].kind /\ r.confirmed = queue[i].confirmed
  BY <1>2 DEF Requests
<1>4. UNCHANGED <<qaps, cmds, air, online, otau, grouped, told>>
  BY DEF TimeRunsOut
<1> HIDE DEF r
<1> QED BY <1>1, <1>2, <1>3, <1>4, ClockOK DEF r

LEMMA DelayPassesOK ==
  ASSUME IInv, NEW id \in Ids, DelayPasses(id)
  PROVE  IInv' /\ Promise
<1>1. PICK i \in DOMAIN queue : queue' = [queue EXCEPT ![i] = [queue[i] EXCEPT !.wait = FALSE]]
  BY DEF DelayPasses
<1> DEFINE r == [queue[i] EXCEPT !.wait = FALSE]
<1>2. queue[i] \in Requests
  BY QueueIs DEF IInv, Sound
<1>3. /\ r \in Requests /\ r.id = queue[i].id /\ r.state = queue[i].state /\ r.dst = queue[i].dst
      /\ r.kind = queue[i].kind /\ r.confirmed = queue[i].confirmed
  BY <1>2 DEF Requests
<1>4. UNCHANGED <<qaps, cmds, air, online, otau, grouped, told>>
  BY DEF DelayPasses
<1> HIDE DEF r
<1> QED BY <1>1, <1>2, <1>3, <1>4, ClockOK DEF r

\* Steps that leave the queue alone.
LEMMA QuietOK ==
  ASSUME IInv, queue' = queue, told' = told, qaps' = qaps, cmds' \subseteq Frames,
         air' \subseteq Frames, {online', otau', grouped'} \subseteq BOOLEAN
  PROVE  IInv' /\ Promise
BY PromiseIs DEF IInv

LEMMA NextOK ==
  ASSUME IInv, Next
  PROVE  IInv' /\ Promise
<1>1. CASE Submit
  BY <1>1, SubmitOK
<1>2. CASE \E n \in Nodes : ClearAllApsRequestsToNode(n)
  BY <1>2, ClearAllOK
<1>3. CASE SendNext \/ TimeoutTick \/ Tick
  BY <1>3, SendNextOK, TimeoutTickOK, TickOK
<1>4. CASE QueNextApsDataRequest \/ QueNextFails \/ KillCommandQueue
  BY <1>4, QueNextOK, QueNextFailsOK, KillOK
<1>5. ASSUME NEW c \in cmds, Reach(c) \/ GiveUp(c) \/ Answered(c)
      PROVE  IInv' /\ Promise
  <2>1. CASE Reach(c)
    <3>1. /\ UNCHANGED <<queue, qaps, cmds, online, otau, grouped, told>> /\ air' = air \cup {c}
      BY <2>1 DEF Reach
    <3> QED BY <3>1, QuietOK DEF IInv
  <2>2. CASE GiveUp(c)
    BY <2>2, GiveUpOK
  <2>3. CASE Answered(c)
    <3>1. /\ UNCHANGED <<queue, qaps, air, online, otau, grouped, told>> /\ cmds' = cmds \ {c}
      BY <2>3 DEF Answered
    <3> QED BY <3>1, QuietOK DEF IInv
  <2> QED BY <1>5, <2>1, <2>2, <2>3
<1>6. CASE \E c \in air, ok \in BOOLEAN : OnApsdeDataConfirm(c, ok)
  BY <1>6, ConfirmOK
<1>7. CASE \E n \in Nodes : OnApsdeDataIndication(n, 0)
  BY <1>7, IndicationOK
<1>8. CASE \E n \in Nodes, i \in DOMAIN queue : OnApsdeDataIndication(n, i)
  BY <1>8, IndicationOK
<1>9. CASE NetChanges
  <2>1. /\ UNCHANGED <<queue, qaps, cmds, air, otau, grouped, told>> /\ online' \in BOOLEAN
    BY <1>9 DEF NetChanges
  <2> QED BY <2>1, QuietOK DEF IInv
<1>10. CASE \E id \in Ids : TimeRunsOut(id) \/ DelayPasses(id)
  BY <1>10, TimeRunsOutOK, DelayPassesOK
<1>11. CASE GroupDelayPasses
  <2>1. UNCHANGED <<queue, qaps, cmds, air, online, otau, told>> /\ grouped' \in BOOLEAN
    BY <1>11 DEF GroupDelayPasses
  <2> QED BY <2>1, QuietOK DEF IInv
<1>12. CASE UpdateEnds
  <2>1. UNCHANGED <<queue, qaps, cmds, air, online, grouped, told>> /\ otau' \in BOOLEAN
    BY <1>12 DEF UpdateEnds
  <2> QED BY <2>1, QuietOK DEF IInv
<1> QED BY <1>1, <1>2, <1>3, <1>4, <1>5, <1>6, <1>7, <1>8, <1>9, <1>10, <1>11, <1>12 DEF Next

LEMMA InitOK ==
  ASSUME Init
  PROVE  IInv
<1>1. /\ queue = <<>> /\ qaps = <<>> /\ cmds = {} /\ air = {} /\ told = {}
      /\ online = FALSE /\ otau = FALSE /\ grouped = FALSE
  BY DEF Init
<1>2. <<>> \in Seq(Ids) /\ <<>> \in Seq(Requests) /\ Len(<<>>) = 0
  BY EmptySeq
<1>3. DOMAIN queue = {}
  BY <1>1
<1>4. Good(queue) /\ ToldOf(queue, told)
  BY <1>1, <1>2, <1>3 DEF Good, ToldOf
<1>5. Limits(queue)
  <2>1. \A n \in Nodes : BusyFor(queue, n) = {} /\ PlainFor(queue, n) = {}
    BY <1>3 DEF BusyFor, PlainFor, InState
  <2>2. Cardinality({}) = 0
    BY FS_EmptySet
  <2> QED BY <2>1, <2>2 DEF Limits, MaxBusyApsPerNode
<1>6. Len(qaps) <= QApsLen /\ qaps \in Seq(Ids)
  BY <1>1, <1>2, RequestsAssumption
<1> QED BY <1>1, <1>4, <1>5, <1>6 DEF IInv, Sound

\* A step is one of Next, or leaves all variables alone.
LEMMA StepOK ==
  ASSUME IInv, [Next]_vars
  PROVE  IInv' /\ Promise
<1>1. CASE Next
  BY <1>1, NextOK
<1>2. CASE UNCHANGED vars
  <2>1. UNCHANGED <<queue, qaps, cmds, air, online, otau, grouped, told>>
    BY <1>2 DEF vars
  <2> QED BY <2>1, QuietOK DEF IInv
<1> QED BY <1>1, <1>2

----------------------------------------------------------------------------
(* IInv holds in every state that can be reached.                          *)
THEOREM QueueIsSound == Spec => []IInv
<1>1. Init => IInv
  BY InitOK
<1>2. IInv /\ [Next]_vars => IInv'
  BY StepOK
<1> QED BY <1>1, <1>2, PTL DEF Spec

(* Requests never share an id, whatever is accepted while others are       *)
(* confirmed, fail, time out or are erased: the searches for an id in      *)
(* onApsdeDataConfirm, apsdeDataRequestDone and queNextApsDataRequest find *)
(* the request that is meant.                                              *)
THEOREM IdsAreUnique == Spec => []UniqueIds
<1>1. IInv => UniqueIds
  BY DEF IInv, Sound, Good, UniqueIds, TypeOK
<1> QED BY <1>1, QueueIsSound, PTL

(* The limits of sendNextApsdeDataRequest hold per node, however many      *)
(* nodes there are and however many requests wait.                         *)
THEOREM BusyIsLimited == Spec => []BusyPerNode
<1>1. ASSUME IInv PROVE BusyPerNode
  <2> SUFFICES ASSUME NEW n \in Nodes
               PROVE  LET busy == {i \in InState(queue, "Busy") : queue[i].dst = n}
                      IN /\ Cardinality(busy) <= MaxBusyApsPerNode + 1
                         /\ Cardinality({i \in busy : queue[i].kind \notin {"OTA", "DEFAULT_RSP"}})
                              <= IF n \in Strict THEN 1 ELSE MaxBusyApsPerNode
    BY DEF BusyPerNode
  <2>1. /\ Cardinality(BusyFor(queue, n)) <= MaxBusyApsPerNode + 1
        /\ Cardinality(PlainFor(queue, n)) <= IF n \in Strict THEN 1 ELSE MaxBusyApsPerNode
    BY <1>1 DEF IInv, Sound, Limits
  <2> QED BY <2>1 DEF BusyFor, PlainFor
<1> QED BY <1>1, QueueIsSound, PTL

(* The queue implements ApsService: each step of it accepts, tells or      *)
(* forgets what that allows, or is none of its business; nothing is        *)
(* forgotten whose user was not told.                                      *)
THEOREM QueueImplementsService == Spec => ToldBeforeForgotten
<1>1. Init => Service!Init
  <2>1. ASSUME Init PROVE Service!Init
    <3>1. queue = <<>> /\ told = {}
      BY <2>1 DEF Init
    <3>2. DOMAIN queue = {}
      BY <3>1
    <3> QED BY <3>1, <3>2 DEF Service!Init, QueuedIds
  <2> QED BY <2>1
<1>2. IInv /\ [Next]_vars => [Service!Next]_(Service!vars)
  BY StepOK DEF Promise
<1> QED BY <1>1, <1>2, QueueIsSound, PTL DEF Spec, ToldBeforeForgotten, Service!Spec
=============================================================================
