---------------------------- MODULE NumberLemmas ----------------------------
(***************************************************************************)
(* Facts about natural numbers, finite sets and sequences that the proofs  *)
(* of more than one component rest on.                                     *)
(***************************************************************************)
EXTENDS Integers, Sequences, SequencesExt, FiniteSets, FiniteSetsExt, TLAPS, FiniteSetTheorems,
        WellFoundedInduction, SequenceTheorems

----------------------------------------------------------------------------
(* A set of natural numbers that is not empty has a least element.         *)
LEMMA NatMin ==
  ASSUME NEW T \in SUBSET Nat, T # {}
  PROVE  \E x \in T : \A y \in T : x <= y
<1> DEFINE R == {ss \in Nat \X Nat : ss[1] < ss[2]}
<1>1. IsWellFoundedOn(R, Nat)
  BY NatLessThanWellFounded DEF OpToRel
<1>2. PICK x \in T : \A y \in T : ~ (<<y, x>> \in R)
  <2> HIDE DEF R
  <2> QED BY <1>1, WFMin
<1>3. ASSUME NEW y \in T PROVE x <= y
  <2>1. x \in Nat /\ y \in Nat
    OBVIOUS
  <2>2. ~ (<<y, x>> \in R)
    BY <1>2
  <2>3. ~ (y < x)
    BY <2>1, <2>2
  <2> QED BY <2>1, <2>3
<1> QED BY <1>3

(* The least number in 0 .. n with a property is the one CHOOSE finds.     *)
LEMMA LeastChosen ==
  ASSUME NEW lo \in Nat, NEW n \in Nat, NEW P, P \subseteq lo .. n, P # {}
  PROVE  \E d \in lo .. n : d \in P /\ \A e \in lo .. d - 1 : e \notin P
<1>1. P \in SUBSET Nat
  OBVIOUS
<1>2. PICK x \in P : \A y \in P : x <= y
  BY <1>1, NatMin
<1>3. \A e \in lo .. x - 1 : e \notin P
  BY <1>1, <1>2
<1> QED BY <1>2, <1>3

(* A function has no more values than arguments.                           *)
LEMMA FewValues ==
  ASSUME NEW S, IsFiniteSet(S), NEW f, f \in [S -> {f[x] : x \in S}]
  PROVE  /\ IsFiniteSet({f[x] : x \in S})
         /\ Cardinality({f[x] : x \in S}) <= Cardinality(S)
<1>1. f \in Surjection(S, {f[x] : x \in S})
  BY DEF Surjection
<1> QED BY <1>1, FS_Surjection

\* The smaller and the larger of two, and the largest of a bounded set.
LEMMA MinOfTwo ==
  ASSUME NEW a \in Int, NEW b \in Int
  PROVE  Min({a, b}) = IF a <= b THEN a ELSE b
<1>1. PICK x \in {a, b} : \A y \in {a, b} : x <= y
  OBVIOUS
<1>2. /\ Min({a, b}) \in {a, b} /\ \A y \in {a, b} : Min({a, b}) <= y
  BY <1>1 DEF Min
<1> QED BY <1>2

LEMMA MaxOfTwo ==
  ASSUME NEW a \in Int, NEW b \in Int
  PROVE  Max({a, b}) = IF a >= b THEN a ELSE b
<1>1. PICK x \in {a, b} : \A y \in {a, b} : x >= y
  OBVIOUS
<1>2. /\ Max({a, b}) \in {a, b} /\ \A y \in {a, b} : Max({a, b}) >= y
  BY <1>1 DEF Max
<1> QED BY <1>2

LEMMA MaxIsIn ==
  ASSUME NEW n \in Nat, NEW S \in SUBSET (1 .. n), S # {}
  PROVE  Max(S) \in S /\ \A y \in S : y <= Max(S)
<1> DEFINE T == {n - x : x \in S}
<1>0. \A x \in S : x \in 1 .. n /\ n - x \in Nat
  OBVIOUS
<1>1. T \in SUBSET Nat /\ T # {}
  BY <1>0
<1>2. PICK m \in T : \A y \in T : m <= y
  BY <1>1, NatMin
<1>3. PICK x \in S : m = n - x
  BY <1>2
<1>4. ASSUME NEW y \in S PROVE x >= y
  <2>1. n - y \in T
    OBVIOUS
  <2>2. n - x <= n - y
    BY <1>2, <1>3, <2>1
  <2> QED BY <1>0, <2>2
<1> QED BY <1>3, <1>4 DEF Max

----------------------------------------------------------------------------
(* Remainders: what a division leaves, and when two numbers leave the same.  *)
LEMMA DivMod ==
  ASSUME NEW T \in Nat \ {0}, NEW a \in Int
  PROVE  a \div T \in Int /\ a = T * (a \div T) + (a % T) /\ a % T \in 0 .. T - 1
OBVIOUS

LEMMA Gap ==
  ASSUME NEW T \in Nat \ {0}, NEW q \in Int, q >= 1
  PROVE  T * q >= T
OBVIOUS

LEMMA MultiplesApart ==
  ASSUME NEW T \in Int, NEW p \in Int, NEW q \in Int, NEW a \in Int, NEW b \in Int, NEW r \in Int,
         a = T * p + r, b = T * q + r
  PROVE  T * (q - p) = b - a
OBVIOUS

LEMMA RestOfMultiple ==
  ASSUME NEW T \in Nat \ {0}, NEW q \in Int, NEW r \in 0 .. T - 1
  PROVE  (T * q + r) % T = r
OBVIOUS

\* Two numbers with the same remainder differ by a multiple of T.
LEMMA SameRest ==
  ASSUME NEW T \in Nat \ {0}, NEW a \in Int, NEW b \in Int, a % T = b % T
  PROVE  (b \div T) - (a \div T) \in Int /\ T * ((b \div T) - (a \div T)) = b - a
<1> DEFINE q == b \div T
           p == a \div T
           r == a % T
<1>1. q \in Int /\ p \in Int /\ a = T * p + r /\ b = T * q + r /\ r \in Int
  BY DivMod
<1>2. q - p \in Int /\ T * (q - p) = b - a
  <2> HIDE DEF q, p, r
  <2> QED BY <1>1, MultiplesApart
<1> QED BY <1>2

\* Fewer than T numbers in a row have different remainders.
LEMMA RestsApart ==
  ASSUME NEW T \in Nat \ {0}, NEW a \in Int, NEW b \in Int, a < b, b - a < T
  PROVE  a % T # b % T
<1> SUFFICES ASSUME a % T = b % T PROVE FALSE
  OBVIOUS
<1> DEFINE k == (b \div T) - (a \div T)
<1>1. k \in Int /\ T * k = b - a
  BY SameRest
<1> HIDE DEF k
<1>2. CASE k >= 1
  BY <1>2, <1>1, Gap
<1>3. CASE k <= 0
  <2>1. T * k <= 0
    BY <1>3, <1>1
  <2> QED BY <2>1, <1>1
<1> QED BY <1>1, <1>2, <1>3

\* Multiples of T leave the remainder as it is.
LEMMA RestPlus ==
  ASSUME NEW T \in Nat \ {0}, NEW a \in Int, NEW k \in Int
  PROVE  (a + T * k) % T = a % T
<1> DEFINE p == a \div T
           r == a % T
<1>1. p \in Int /\ a = T * p + r /\ r \in 0 .. T - 1
  BY DivMod
<1>2. (a + T * k) % T = r
  <2> HIDE DEF p, r
  <2>1. a + T * k = T * (p + k) + r /\ p + k \in Int
    BY <1>1
  <2>2. (T * (p + k) + r) % T = r
    BY <1>1, <2>1, RestOfMultiple
  <2> QED BY <2>1, <2>2
<1> QED BY <1>2

LEMMA RestAround ==
  ASSUME NEW T \in Nat \ {0}, NEW C \in Int, C % T = 0, NEW a \in Int
  PROVE  (a + C) % T = a % T /\ (a - C) % T = a % T /\ (a + T) % T = a % T
<1> DEFINE k == C \div T
<1>1. k \in Int /\ C = T * k
  BY DivMod
<1> HIDE DEF k
<1>2. (a + T * k) % T = a % T
  BY <1>1, RestPlus
<1>0. 0 - k \in Int /\ 1 \in Int
  BY <1>1
<1>3. (a + T * (0 - k)) % T = a % T
  BY <1>0, RestPlus, Zenon
<1>4. T * (0 - k) = 0 - T * k
  BY <1>1
<1>5. a + T * (0 - k) = a - C
  BY <1>1, <1>4
<1>6. (a + T * 1) % T = a % T
  BY <1>0, RestPlus, Zenon
<1>7. T * 1 = T
  OBVIOUS
<1> QED BY <1>1, <1>2, <1>3, <1>5, <1>6, <1>7

----------------------------------------------------------------------------
(* A function on 1 .. n is a sequence of n elements.                       *)
LEMMA FcnIsSeq ==
  ASSUME NEW T, NEW n \in Nat, NEW f \in [1 .. n -> T]
  PROVE  f \in Seq(T) /\ Len(f) = n /\ DOMAIN f = 1 .. n
<1>1. f \in Seq(T)
  BY SeqDef
<1>2. DOMAIN f = 1 .. Len(f) /\ Len(f) \in Nat
  BY <1>1, LenProperties
<1>3. DOMAIN f = 1 .. n
  OBVIOUS
<1> QED BY <1>1, <1>2, <1>3

(* RemoveAt takes out one element and moves those behind it by one place.  *)
LEMMA RemoveAtProperties ==
  ASSUME NEW T, NEW s \in Seq(T), NEW k \in 1 .. Len(s)
  PROVE  /\ RemoveAt(s, k) \in Seq(T)
         /\ Len(RemoveAt(s, k)) = Len(s) - 1
         /\ \A i \in 1 .. Len(s) - 1 :
              RemoveAt(s, k)[i] = IF i < k THEN s[i] ELSE s[i + 1]
<1> DEFINE a == SubSeq(s, 1, k - 1)
           b == SubSeq(s, k + 1, Len(s))
<1>1. Len(s) \in Nat /\ \A i \in 1 .. Len(s) : s[i] \in T
  BY LenProperties, ElementOfSeq
<1>2. a \in Seq(T) /\ Len(a) = k - 1 /\ \A i \in 1 .. k - 1 : a[i] = s[i]
  <2>1. \A i \in 1 .. k - 1 : s[i] \in T
    BY <1>1
  <2>2. /\ a \in Seq(T) /\ Len(a) = IF 1 <= k - 1 THEN k - 1 - 1 + 1 ELSE 0
        /\ \A i \in 1 .. k - 1 - 1 + 1 : a[i] = s[1 + i - 1]
    BY <2>1, <1>1, SubSeqProperties
  <2> QED BY <2>2, <1>1
<1>3. /\ b \in Seq(T) /\ Len(b) = Len(s) - k
      /\ \A i \in 1 .. Len(s) - k : b[i] = s[k + i]
  <2>1. \A i \in k + 1 .. Len(s) : s[i] \in T
    BY <1>1
  <2>2. /\ b \in Seq(T) /\ Len(b) = IF k + 1 <= Len(s) THEN Len(s) - (k + 1) + 1 ELSE 0
        /\ \A i \in 1 .. Len(s) - (k + 1) + 1 : b[i] = s[k + 1 + i - 1]
    BY <2>1, <1>1, SubSeqProperties
  <2> QED BY <2>2, <1>1
<1>4. RemoveAt(s, k) = a \o b
  BY DEF RemoveAt
<1> HIDE DEF a, b
<1>5. /\ a \o b \in Seq(T) /\ Len(a \o b) = Len(a) + Len(b)
      /\ \A i \in 1 .. Len(a) + Len(b) :
           (a \o b)[i] = IF i <= Len(a) THEN a[i] ELSE b[i - Len(a)]
  BY <1>2, <1>3, ConcatProperties
<1> QED BY <1>1, <1>2, <1>3, <1>4, <1>5

----------------------------------------------------------------------------
(* Passes over a sequence.                                                 *)

\* What is true at first, and stays true with each step, is true after n steps.
LEMMA Passed ==
  ASSUME NEW n \in Nat, NEW S \in SUBSET (0 .. n), 0 \in S, \A k \in 1 .. n : k - 1 \in S => k \in S
  PROVE  n \in S
<1> SUFFICES ASSUME n \notin S PROVE FALSE
  OBVIOUS
<1> DEFINE T == (0 .. n) \ S
<1>1. T \in SUBSET Nat /\ n \in T
  OBVIOUS
<1>2. PICK x \in T : \A y \in T : x <= y
  <2> HIDE DEF T
  <2> QED BY <1>1, NatMin
<1>3. x \in 1 .. n /\ x - 1 \in 0 .. n /\ x \notin S
  <2>1. x \in 0 .. n /\ x # 0 /\ x \notin S
    OBVIOUS
  <2> QED BY <2>1
<1>4. x - 1 \in S
  <2> SUFFICES ASSUME x - 1 \notin S PROVE FALSE
    OBVIOUS
  <2>1. x - 1 \in T
    BY <1>3
  <2>2. x <= x - 1
    <3> HIDE DEF T
    <3> QED BY <1>2, <2>1
  <2> QED BY <1>3, <2>2
<1> QED BY <1>3, <1>4

\* What a pass from b has made of it after each step: g says what step k does.
IsPass(f, n, b, g) == f = [k \in 0 .. n |-> IF k = 0 THEN b ELSE g[k][f[k - 1]]]

\* A pass of n steps has a result.
LEMMA PassExists ==
  ASSUME NEW n \in Nat, NEW T, NEW b \in T, NEW g, g \in [1 .. n -> [T -> T]]
  PROVE  \E f : f \in [0 .. n -> T] /\ IsPass(f, n, b, g)
<1> DEFINE Is(f, m) == f \in [0 .. m -> T] /\ f[0] = b /\ \A k \in 1 .. m : f[k] = g[k][f[k - 1]]
           S == {m \in 0 .. n : \E f : Is(f, m)}
<1>1. 0 \in S
  <2> DEFINE h == [i \in 0 .. 0 |-> b]
  <2>1. h \in [0 .. 0 -> T] /\ h[0] = b /\ \A k \in 1 .. 0 : h[k] = g[k][h[k - 1]]
    OBVIOUS
  <2> HIDE DEF h
  <2>2. 0 \in 0 .. n
    OBVIOUS
  <2> QED BY <2>1, <2>2
<1>2. ASSUME NEW k \in 1 .. n, k - 1 \in S PROVE k \in S
  <2>1. PICK f : Is(f, k - 1)
    BY <1>2
  <2> DEFINE h == [i \in 0 .. k |-> IF i = k THEN g[k][f[k - 1]] ELSE f[i]]
  <2>2. f[k - 1] \in T /\ g[k] \in [T -> T]
    BY <2>1
  <2>3. h \in [0 .. k -> T]
    <3> SUFFICES ASSUME NEW i \in 0 .. k PROVE (IF i = k THEN g[k][f[k - 1]] ELSE f[i]) \in T
      OBVIOUS
    <3>1. CASE i = k
      BY <2>2, <3>1
    <3>2. CASE i # k
      <4>1. i \in 0 .. k - 1
        BY <3>2
      <4> QED BY <2>1, <3>2, <4>1
    <3> QED BY <3>1, <3>2
  <2>4. h[0] = b
    BY <2>1
  <2>5. ASSUME NEW i \in 1 .. k PROVE h[i] = g[i][h[i - 1]]
    <3>1. i - 1 \in 0 .. k /\ i - 1 # k /\ i \in 0 .. k
      OBVIOUS
    <3>2. h[i - 1] = f[i - 1]
      BY <3>1
    <3>3. CASE i = k
      BY <3>1, <3>2, <3>3
    <3>4. CASE i # k
      <4>1. i \in 1 .. k - 1
        BY <3>4
      <4>2. h[i] = f[i]
        BY <3>1, <3>4
      <4> HIDE DEF h
      <4> QED BY <2>1, <3>2, <4>1, <4>2
    <3> QED BY <3>3, <3>4
  <2> HIDE DEF h
  <2>6. Is(h, k) /\ k \in 0 .. n
    BY <2>3, <2>4, <2>5
  <2> QED BY <2>6
<1>3. n \in S
  <2>1. S \in SUBSET (0 .. n)
    OBVIOUS
  <2> HIDE DEF S
  <2> QED BY <1>1, <1>2, <2>1, Passed
<1>4. PICK f : Is(f, n)
  BY <1>3
<1>5. f = [k \in 0 .. n |-> IF k = 0 THEN b ELSE g[k][f[k - 1]]]
  <2>1. \A k \in 0 .. n : k = 0 \/ k \in 1 .. n
    OBVIOUS
  <2>2. \A k \in 0 .. n : f[k] = IF k = 0 THEN b ELSE g[k][f[k - 1]]
    BY <1>4, <2>1
  <2> QED BY <1>4, <2>2
<1> QED BY <1>4, <1>5 DEF IsPass
=============================================================================
