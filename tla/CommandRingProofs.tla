-------------------------- MODULE CommandRingProofs --------------------------
(***************************************************************************)
(* What the QItem_* functions do to a ring that satisfies RingInv: each of *)
(* them, called the way zm_master.cpp calls it, leaves such a ring behind. *)
(***************************************************************************)
EXTENDS CommandRing, NumberLemmas

----------------------------------------------------------------------------
(* The slots are finitely many, and so are the items in any state.         *)
LEMMA SlotsFinite == IsFiniteSet(Slots) /\ Cardinality(Slots) = NSlots
BY RingAssumption, FS_Interval DEF Slots

LEMMA StatesFinite ==
  ASSUME NEW r
  PROVE  /\ IsFiniteSet(ToSend(r)) /\ IsFiniteSet(InFlight(r)) /\ IsFiniteSet(Active(r))
         /\ Cardinality(ToSend(r)) \in Nat /\ Cardinality(InFlight(r)) \in Nat
         /\ Cardinality(Active(r)) <= NSlots /\ Cardinality(Active(r)) \in Nat
<1>1. ToSend(r) \in SUBSET Slots /\ InFlight(r) \in SUBSET Slots /\ Active(r) \in SUBSET Slots
  BY DEF ToSend, InFlight, Active, InState
<1> QED BY <1>1, SlotsFinite, FS_Subset, FS_CardinalityType

(* Steps around the ring stay on it, and reach every slot.                 *)
LEMMA AfterSlot ==
  ASSUME NEW s \in Slots, NEW d \in Nat
  PROVE  After(s, d) \in Slots
BY RingAssumption DEF After, Slots

LEMMA AfterReaches ==
  ASSUME NEW s \in Slots, NEW t \in Slots
  PROVE  \E d \in 0 .. NSlots - 1 : After(s, d) = t
<1> DEFINE d == IF s <= t THEN t - s ELSE t + NSlots - s
<1>1. s \in 0 .. NSlots - 1 /\ t \in 0 .. NSlots - 1 /\ NSlots \in Nat \ {0}
  BY RingAssumption DEF Slots
<1>2. d \in 0 .. NSlots - 1
  BY <1>1
<1>3. CASE s <= t
  <2>1. s + d = t
    BY <1>1, <1>3
  <2>2. t % NSlots = t
    BY <1>1
  <2> QED BY <1>2, <2>1, <2>2 DEF After
<1>4. CASE ~ (s <= t)
  <2>1. s + d = t + NSlots
    BY <1>1, <1>4
  <2>2. (t + NSlots) % NSlots = t
    BY <1>1
  <2> QED BY <1>2, <2>1, <2>2 DEF After
<1> QED BY <1>3, <1>4

----------------------------------------------------------------------------
(* QItem_NextSeq: the number is one no active item carries.                *)
LEMMA UsedSeqsFew ==
  ASSUME NEW r, r \in Rings
  PROVE  /\ IsFiniteSet(UsedSeqs(r)) /\ UsedSeqs(r) \subseteq Seqs
         /\ Cardinality(UsedSeqs(r)) <= NSlots /\ Cardinality(UsedSeqs(r)) \in Nat
<1> DEFINE f == [s \in Active(r) |-> r.items[s].seq]
<1>1. UsedSeqs(r) = {f[s] : s \in Active(r)}
  BY DEF UsedSeqs
<1>2. f \in [Active(r) -> {f[s] : s \in Active(r)}]
  OBVIOUS
<1>3. /\ IsFiniteSet({f[s] : s \in Active(r)})
      /\ Cardinality({f[s] : s \in Active(r)}) <= Cardinality(Active(r))
  <2> HIDE DEF f
  <2> QED BY <1>2, StatesFinite, FewValues
<1>4. UsedSeqs(r) \subseteq Seqs
  BY DEF UsedSeqs, Active, ToSend, InFlight, InState, Rings, Items
<1>5. IsFiniteSet(UsedSeqs(r)) /\ Cardinality(UsedSeqs(r)) <= Cardinality(Active(r))
  BY <1>1, <1>3
<1>6. Cardinality(UsedSeqs(r)) \in Nat
  BY <1>5, FS_CardinalityType
<1> QED BY <1>4, <1>5, <1>6, StatesFinite, RingAssumption

LEMMA SeqFree ==
  ASSUME NEW r, r \in Rings
  PROVE  \E q \in Seqs : q \notin UsedSeqs(r)
<1>1. Cardinality(Seqs) = SeqSpace /\ IsFiniteSet(Seqs)
  BY RingAssumption, FS_Interval DEF Seqs
<1>2. SUFFICES ASSUME \A q \in Seqs : q \in UsedSeqs(r) PROVE FALSE
  OBVIOUS
<1>3. UsedSeqs(r) = Seqs
  BY <1>2, UsedSeqsFew
<1> QED BY <1>1, <1>3, UsedSeqsFew, RingAssumption

LEMMA NextSeqReaches ==
  ASSUME NEW r, r \in Rings, NEW q \in Seqs
  PROVE  \E d \in 1 .. SeqSpace : NextSeq(r, d) = q
<1>1. r.seq \in 0 .. SeqSpace - 1 /\ q \in 0 .. SeqSpace - 1 /\ SeqSpace \in Nat \ {0}
  BY RingAssumption DEF Rings, Seqs
<1>2. CASE r.seq < q
  <2>1. q - r.seq \in 1 .. SeqSpace /\ r.seq + (q - r.seq) = q /\ q % SeqSpace = q
    BY <1>1, <1>2
  <2> QED BY <2>1 DEF NextSeq
<1>3. CASE ~ (r.seq < q)
  <2>1. /\ q + SeqSpace - r.seq \in 1 .. SeqSpace
        /\ r.seq + (q + SeqSpace - r.seq) = q + SeqSpace
        /\ (q + SeqSpace) % SeqSpace = q
    BY <1>1, <1>3
  <2> QED BY <2>1 DEF NextSeq
<1> QED BY <1>2, <1>3

LEMMA NextSeqFresh ==
  ASSUME NEW r, RingInv(r)
  PROVE  QItem_NextSeq(r) \in Seqs \ UsedSeqs(r)
<1> USE DEF RingInv
<1>0. ASSUME NEW d \in 1 .. SeqSpace PROVE NextSeq(r, d) \in Seqs
  BY RingAssumption DEF NextSeq, Seqs, Rings
<1>1. CASE QItems_Empty(r)
  <2>1. ToSend(r) = {} /\ InFlight(r) = {}
    BY <1>1, StatesFinite, FS_EmptySet DEF QItems_Empty, CountersExact
  <2>2. UsedSeqs(r) = {}
    BY <2>1 DEF UsedSeqs, Active
  <2>3. QItem_NextSeq(r) = NextSeq(r, 1) /\ 1 \in 1 .. SeqSpace
    BY <1>1, RingAssumption DEF QItem_NextSeq
  <2> QED BY <2>2, <2>3, <1>0
<1>2. CASE ~ QItems_Empty(r)
  <2> DEFINE P == {d \in 1 .. SeqSpace : NextSeq(r, d) \notin UsedSeqs(r)}
  <2>1. P # {}
    <3>1. PICK q \in Seqs : q \notin UsedSeqs(r)
      BY SeqFree
    <3>2. PICK d \in 1 .. SeqSpace : NextSeq(r, d) = q
      BY NextSeqReaches
    <3> QED BY <3>1, <3>2
  <2>2. \E d \in 1 .. SeqSpace : d \in P /\ \A e \in 1 .. d - 1 : e \notin P
    <3>1. P \subseteq 1 .. SeqSpace /\ 1 \in Nat /\ SeqSpace \in Nat
      BY RingAssumption
    <3> HIDE DEF P
    <3> QED BY <3>1, <2>1, LeastChosen
  <2>3. \E d \in 1 .. SeqSpace : /\ NextSeq(r, d) \notin UsedSeqs(r)
                                 /\ \A e \in 1 .. d - 1 : NextSeq(r, e) \in UsedSeqs(r)
    <3>1. PICK d \in 1 .. SeqSpace : d \in P /\ \A e \in 1 .. d - 1 : e \notin P
      BY <2>2
    <3>2. \A e \in 1 .. d - 1 : e \in 1 .. SeqSpace
      BY RingAssumption
    <3> QED BY <3>1, <3>2
  <2>4. PICK d \in 1 .. SeqSpace : /\ QItem_NextSeq(r) = NextSeq(r, d)
                                   /\ NextSeq(r, d) \notin UsedSeqs(r)
    BY <1>2, <2>3 DEF QItem_NextSeq
  <2> QED BY <2>4, <1>0
<1> QED BY <1>1, <1>2

----------------------------------------------------------------------------
(* Changing one item moves it from one state to another and no other item. *)
LEMMA ItemMoves ==
  ASSUME NEW r, r \in Rings, NEW s \in Slots, NEW i \in Items, NEW t,
         t.items = [r.items EXCEPT ![s] = i], NEW st
  PROVE  /\ InState(t, st) = IF i.state = st THEN InState(r, st) \cup {s}
                                             ELSE InState(r, st) \ {s}
         /\ s \in InState(r, st) <=> r.items[s].state = st
BY DEF InState, Rings

LEMMA ItemCounted ==
  ASSUME NEW r, r \in Rings, NEW s \in Slots, NEW i \in Items, NEW t,
         t.items = [r.items EXCEPT ![s] = i], NEW st
  PROVE  Cardinality(InState(t, st)) =
           Cardinality(InState(r, st))
           + (IF i.state = st THEN 1 ELSE 0) - (IF r.items[s].state = st THEN 1 ELSE 0)
<1> DEFINE S == InState(r, st)
<1>1. IsFiniteSet(S) /\ Cardinality(S) \in Nat
  <2>1. S \in SUBSET Slots
    BY DEF InState
  <2> QED BY <2>1, SlotsFinite, FS_Subset, FS_CardinalityType
<1>2. /\ InState(t, st) = IF i.state = st THEN S \cup {s} ELSE S \ {s}
      /\ s \in S <=> r.items[s].state = st
  BY ItemMoves
<1>3. Cardinality(S \cup {s}) = IF s \in S THEN Cardinality(S) ELSE Cardinality(S) + 1
  BY <1>1, FS_AddElement
<1>4. Cardinality(S \ {s}) = IF s \in S THEN Cardinality(S) - 1 ELSE Cardinality(S)
  BY <1>1, FS_RemoveElement
<1> DEFINE n == Cardinality(S)
<1>5. /\ i.state = st => Cardinality(InState(t, st)) = IF s \in S THEN n ELSE n + 1
      /\ i.state # st => Cardinality(InState(t, st)) = IF s \in S THEN n - 1 ELSE n
  BY <1>2, <1>3, <1>4
<1>6. n \in Nat /\ n = Cardinality(InState(r, st))
  BY <1>1
<1> HIDE DEF n
<1>7. CASE i.state = st /\ s \in S
  BY <1>2, <1>5, <1>6, <1>7
<1>8. CASE i.state = st /\ s \notin S
  BY <1>2, <1>5, <1>6, <1>8
<1>9. CASE i.state # st /\ s \in S
  BY <1>2, <1>5, <1>6, <1>9
<1>10. CASE i.state # st /\ s \notin S
  BY <1>2, <1>5, <1>6, <1>10
<1> QED BY <1>7, <1>8, <1>9, <1>10

(* Sequence numbers stay apart if the item is freed, keeps its number or   *)
(* gets one that no active item carries.                                   *)
LEMMA ItemApart ==
  ASSUME NEW r, r \in Rings, SeqsDiffer(r), NEW s \in Slots, NEW i \in Items, NEW t,
         t.items = [r.items EXCEPT ![s] = i],
         \/ i.state = "INIT"
         \/ s \in Active(r) /\ i.seq = r.items[s].seq
         \/ i.seq \notin UsedSeqs(r)
  PROVE  SeqsDiffer(t)
<1> SUFFICES ASSUME NEW a \in Active(t), NEW b \in Active(t), a # b
             PROVE  t.items[a].seq # t.items[b].seq
  BY DEF SeqsDiffer
<1>1. a \in Slots /\ b \in Slots /\ r.items \in [Slots -> Items]
  BY DEF Active, ToSend, InFlight, InState, Rings
<1>2. ASSUME NEW c \in Active(t), c # s PROVE c \in Active(r) /\ t.items[c] = r.items[c]
  BY <1>1, <1>2 DEF Active, ToSend, InFlight, InState
<1>3. t.items[s] = i
  BY <1>1
<1>4. s \in Active(t) => i.state # "INIT"
  BY <1>3 DEF Active, ToSend, InFlight, InState
<1>5. CASE a # s /\ b # s
  BY <1>2, <1>5 DEF SeqsDiffer
<1>6. ASSUME NEW c \in Active(t), c # s, s \in Active(t) PROVE t.items[c].seq # i.seq
  <2>1. r.items[c].seq \in UsedSeqs(r)
    BY <1>2, <1>6 DEF UsedSeqs
  <2> QED BY <2>1, <1>2, <1>4, <1>6 DEF SeqsDiffer
<1> QED BY <1>3, <1>5, <1>6

----------------------------------------------------------------------------
(* QItem_Init of everything: the ring is empty.                            *)
LEMMA ClearedOK ==
  ASSUME NEW r, r \in Rings
  PROVE  RingInv(Cleared(r)) /\ Active(Cleared(r)) = {} /\ Cleared(r).waitConfirm = 0
<1>1. Blank \in Items
  BY RingAssumption DEF Blank, Items, Seqs, MaxSendRetry
<1>2. 0 \in Slots /\ r.seq \in Seqs
  BY RingAssumption DEF Slots, Rings
<1>3. Cleared(r) = [items |-> [s \in Slots |-> Blank], sp |-> 0, wp |-> 0, seq |-> r.seq,
                    waitSend |-> 0, waitConfirm |-> 0]
  BY DEF Cleared, EmptyRing
<1>4. Cleared(r) \in Rings
  BY <1>1, <1>2, <1>3 DEF Rings
<1>5. ToSend(Cleared(r)) = {} /\ InFlight(Cleared(r)) = {} /\ Active(Cleared(r)) = {}
  BY <1>3 DEF ToSend, InFlight, InState, Blank, Active
<1>6. Cardinality({}) = 0
  BY FS_EmptySet
<1>7. Cleared(r).waitSend = 0 /\ Cleared(r).waitConfirm = 0
  BY <1>3
<1>8. CountersExact(Cleared(r))
  BY <1>5, <1>6, <1>7 DEF CountersExact
<1>9. SeqsDiffer(Cleared(r))
  BY <1>5 DEF SeqsDiffer
<1> QED BY <1>4, <1>5, <1>7, <1>8, <1>9 DEF RingInv

LEMMA EmptyOK == RingInv(EmptyRing) /\ EmptyRing.waitConfirm = 0
<1>1. Blank \in Items /\ 0 \in Slots /\ 0 \in Seqs
  BY RingAssumption DEF Blank, Items, Seqs, MaxSendRetry, Slots
<1>2. EmptyRing \in Rings
  BY <1>1 DEF Rings, EmptyRing
<1>3. Cleared(EmptyRing) = EmptyRing
  BY DEF Cleared, EmptyRing
<1> QED BY <1>2, <1>3, ClearedOK

(* QItem_Alloc: the write pointer is at a free item, whose number will be  *)
(* one that no active item carries; the items are as before.               *)
LEMMA AllocOK ==
  ASSUME NEW r, RingInv(r), HasFreeItem(r)
  PROVE  /\ RingInv(QItem_Alloc(r))
         /\ QItem_Alloc(r).items = r.items
         /\ QItem_Alloc(r).items[QItem_Alloc(r).wp].state = "INIT"
         /\ QItem_Alloc(r).seq \notin UsedSeqs(r)
         /\ QItem_Alloc(r).waitConfirm = r.waitConfirm
         /\ QItem_Alloc(r).waitSend = r.waitSend
<1> DEFINE P == {k \in 0 .. NSlots - 1 : r.items[After(r.wp, k)].state = "INIT"}
           a == QItem_Alloc(r)
<1>1. r \in Rings /\ r.wp \in Slots
  BY DEF RingInv, Rings
<1>2. P # {}
  <2>1. PICK s \in Slots : r.items[s].state = "INIT"
    BY DEF HasFreeItem
  <2>2. PICK d \in 0 .. NSlots - 1 : After(r.wp, d) = s
    BY <1>1, <2>1, AfterReaches
  <2> QED BY <2>1, <2>2
<1>3. PICK d \in 0 .. NSlots - 1 : d \in P /\ \A j \in 0 .. d - 1 : j \notin P
  <2>1. P \subseteq 0 .. NSlots - 1 /\ NSlots - 1 \in Nat /\ 0 \in Nat
    BY RingAssumption
  <2> HIDE DEF P
  <2> QED BY <2>1, <1>2, LeastChosen
<1>4. \A j \in 0 .. d - 1 : j \in 0 .. NSlots - 1
  BY RingAssumption
<1>5. \E k \in 0 .. NSlots - 1 :
        /\ r.items[After(r.wp, k)].state = "INIT"
        /\ \A j \in 0 .. k - 1 : r.items[After(r.wp, j)].state # "INIT"
  BY <1>3, <1>4
<1>6. PICK k \in 0 .. NSlots - 1 :
        /\ r.items[After(r.wp, k)].state = "INIT"
        /\ a = [r EXCEPT !.wp = After(r.wp, k), !.seq = QItem_NextSeq(r)]
  BY <1>5 DEF QItem_Alloc
<1>7. After(r.wp, k) \in Slots
  BY <1>1, AfterSlot
<1>8. QItem_NextSeq(r) \in Seqs /\ QItem_NextSeq(r) \notin UsedSeqs(r)
  BY NextSeqFresh
<1>9. /\ a \in Rings /\ a.items = r.items /\ a.wp = After(r.wp, k) /\ a.seq = QItem_NextSeq(r)
      /\ a.waitConfirm = r.waitConfirm /\ a.waitSend = r.waitSend
  BY <1>1, <1>6, <1>7, <1>8 DEF Rings
<1>10. CountersExact(a) /\ SeqsDiffer(a)
  BY <1>9 DEF RingInv, CountersExact, SeqsDiffer, Active, ToSend, InFlight, InState
<1> QED BY <1>6, <1>8, <1>9, <1>10 DEF RingInv

----------------------------------------------------------------------------
(* A step that changes one item and counts both states right keeps what    *)
(* the code relies on.                                                     *)
Ind(st, x) == IF st = x THEN 1 ELSE 0
RingShaped(t) == t = [items |-> t.items, sp |-> t.sp, wp |-> t.wp, seq |-> t.seq,
                      waitSend |-> t.waitSend, waitConfirm |-> t.waitConfirm]

LEMMA ItemReplaced ==
  ASSUME NEW r, RingInv(r), NEW t, NEW s \in Slots, NEW i \in Items,
         RingShaped(t), t.items = [r.items EXCEPT ![s] = i],
         t.sp \in Slots, t.wp \in Slots, t.seq \in Seqs,
         t.waitSend = r.waitSend + Ind(i.state, "WAIT_SEND") - Ind(r.items[s].state, "WAIT_SEND"),
         t.waitConfirm = r.waitConfirm + Ind(i.state, "WAIT_CONFIRM")
                                       - Ind(r.items[s].state, "WAIT_CONFIRM"),
         \/ i.state = "INIT"
         \/ s \in Active(r) /\ i.seq = r.items[s].seq
         \/ i.seq \notin UsedSeqs(r)
  PROVE  RingInv(t)
<1>1. r \in Rings /\ SeqsDiffer(r) /\ t.items = [r.items EXCEPT ![s] = i]
  BY DEF RingInv
<1>2. SeqsDiffer(t)
  BY <1>1, ItemApart
<1>3. t.waitSend = Cardinality(ToSend(t))
  <2>1. Cardinality(InState(t, "WAIT_SEND")) = Cardinality(InState(r, "WAIT_SEND"))
          + Ind(i.state, "WAIT_SEND") - Ind(r.items[s].state, "WAIT_SEND")
    BY <1>1, ItemCounted DEF Ind
  <2> QED BY <2>1 DEF ToSend, RingInv, CountersExact
<1>4. t.waitConfirm = Cardinality(InFlight(t))
  <2>1. Cardinality(InState(t, "WAIT_CONFIRM")) = Cardinality(InState(r, "WAIT_CONFIRM"))
          + Ind(i.state, "WAIT_CONFIRM") - Ind(r.items[s].state, "WAIT_CONFIRM")
    BY <1>1, ItemCounted DEF Ind
  <2> QED BY <2>1 DEF InFlight, RingInv, CountersExact
<1>5. t \in Rings
  <2>1. t.waitSend \in Nat /\ t.waitConfirm \in Nat
    BY <1>3, <1>4, StatesFinite
  <2>2. t.items \in [Slots -> Items]
    BY <1>1 DEF Rings
  <2> QED BY <2>1, <2>2 DEF Rings, RingShaped
<1> QED BY <1>2, <1>3, <1>4, <1>5 DEF RingInv, CountersExact

LEMMA EnqueueOK ==
  ASSUME NEW r, RingInv(r), r.items[r.wp].state = "INIT", r.seq \notin UsedSeqs(r),
         NEW c \in Cmds
  PROVE  RingInv(QItem_Enqueue(r, c)) /\ QItem_Enqueue(r, c).waitConfirm = r.waitConfirm
<1> DEFINE i == [state |-> "WAIT_SEND", cmd |-> c, seq |-> r.seq, retries |-> 0, late |-> FALSE]
           t == QItem_Enqueue(r, c)
<1>1. r \in Rings /\ r.wp \in Slots /\ r.sp \in Slots /\ r.seq \in Seqs
      /\ r.waitSend \in Nat /\ r.waitConfirm \in Nat
  BY DEF RingInv, Rings
<1>2. i \in Items
  BY <1>1 DEF Items, MaxSendRetry
<1>3. t = [r EXCEPT !.items[r.wp] = i, !.waitSend = r.waitSend + 1, !.wp = After(r.wp, 1)]
  BY DEF QItem_Enqueue
<1>4. After(r.wp, 1) \in Slots
  BY <1>1, AfterSlot
<1>5. /\ Ind(i.state, "WAIT_SEND") = 1 /\ Ind(r.items[r.wp].state, "WAIT_SEND") = 0
      /\ Ind(i.state, "WAIT_CONFIRM") = 0 /\ Ind(r.items[r.wp].state, "WAIT_CONFIRM") = 0
      /\ i.seq = r.seq
  BY DEF Ind
<1> HIDE DEF i, t
<1>6. /\ t.items = [r.items EXCEPT ![r.wp] = i] /\ t.sp = r.sp /\ t.wp = After(r.wp, 1)
      /\ t.seq = r.seq /\ t.waitSend = r.waitSend + 1 /\ t.waitConfirm = r.waitConfirm
  BY <1>1, <1>3 DEF Rings
<1>7. RingShaped(t)
  BY <1>1, <1>3 DEF Rings, RingShaped
<1>8. RingInv(t)
  <2>1. /\ t.sp \in Slots /\ t.wp \in Slots /\ t.seq \in Seqs
        /\ t.waitSend = r.waitSend + 1 - 0 /\ t.waitConfirm = r.waitConfirm + 0 - 0
    BY <1>1, <1>4, <1>6
  <2> QED BY <1>1, <1>2, <1>5, <1>6, <1>7, <2>1, ItemReplaced
<1> QED BY <1>6, <1>8 DEF t

(* What every producer does: nothing, if no item is free.                  *)
LEMMA QueueOK ==
  ASSUME NEW r, RingInv(r), NEW c \in Cmds
  PROVE  RingInv(Queue(r, c)) /\ Queue(r, c).waitConfirm = r.waitConfirm
<1>1. CASE HasFreeItem(r)
  <2>1. r \in Rings
    BY DEF RingInv
  <2>2. UsedSeqs(QItem_Alloc(r)) = UsedSeqs(r)
    BY <1>1, AllocOK DEF UsedSeqs, Active, ToSend, InFlight, InState
  <2>3. RingInv(QItem_Enqueue(QItem_Alloc(r), c))
        /\ QItem_Enqueue(QItem_Alloc(r), c).waitConfirm = QItem_Alloc(r).waitConfirm
    BY <1>1, <2>2, AllocOK, EnqueueOK
  <2> QED BY <1>1, <2>3, AllocOK DEF Queue
<1>2. CASE ~ HasFreeItem(r)
  BY <1>2 DEF Queue
<1> QED BY <1>1, <1>2
(* sendNextCommand: the waiting item found from the send pointer on.       *)
LEMMA NextToSendOK ==
  ASSUME NEW r, RingInv(r), ToSend(r) # {}
  PROVE  QItem_NextToSend(r) \in ToSend(r)
<1> DEFINE P == {k \in 0 .. NSlots - 1 : After(r.sp, k) \in ToSend(r)}
<1>1. r.sp \in Slots
  BY DEF RingInv, Rings
<1>2. P # {}
  <2>1. PICK s \in Slots : s \in ToSend(r)
    BY DEF ToSend, InState
  <2>2. PICK d \in 0 .. NSlots - 1 : After(r.sp, d) = s
    BY <1>1, AfterReaches
  <2> QED BY <2>1, <2>2
<1>3. PICK d \in 0 .. NSlots - 1 : d \in P /\ \A j \in 0 .. d - 1 : j \notin P
  <2>1. P \subseteq 0 .. NSlots - 1 /\ NSlots - 1 \in Nat /\ 0 \in Nat
    BY RingAssumption
  <2> HIDE DEF P
  <2> QED BY <2>1, <1>2, LeastChosen
<1>4. \A j \in 0 .. d - 1 : j \in 0 .. NSlots - 1
  BY RingAssumption
<1>5. \E k \in 0 .. NSlots - 1 : /\ After(r.sp, k) \in ToSend(r)
                                 /\ \A j \in 0 .. k - 1 : After(r.sp, j) \notin ToSend(r)
  BY <1>3, <1>4
<1> QED BY <1>5 DEF QItem_NextToSend

(* QItem_Send, once the serial port took the command.                      *)
LEMMA SentOK ==
  ASSUME NEW r, RingInv(r), NEW s \in ToSend(r)
  PROVE  RingInv(QItem_Sent(r, s)) /\ QItem_Sent(r, s).waitConfirm = r.waitConfirm + 1
<1> DEFINE i == [r.items[s] EXCEPT !.state = "WAIT_CONFIRM", !.late = FALSE]
           t == QItem_Sent(r, s)
           p == IF r.sp = s THEN After(s, 1) ELSE r.sp
<1>1. /\ r \in Rings /\ s \in Slots /\ r.items[s] \in Items /\ r.items[s].state = "WAIT_SEND"
      /\ r.wp \in Slots /\ r.seq \in Seqs /\ r.waitSend \in Nat /\ r.waitConfirm \in Nat
  BY DEF RingInv, Rings, ToSend, InState
<1>2. i \in Items /\ i.state = "WAIT_CONFIRM" /\ i.seq = r.items[s].seq
  BY <1>1 DEF Items
<1>3. t = [r EXCEPT !.items[s] = i, !.sp = p, !.waitSend = r.waitSend - 1,
                    !.waitConfirm = r.waitConfirm + 1]
  BY DEF QItem_Sent
<1>4. p \in Slots
  BY <1>1, AfterSlot DEF Rings
<1>7. /\ Ind(i.state, "WAIT_SEND") = 0 /\ Ind(r.items[s].state, "WAIT_SEND") = 1
      /\ Ind(i.state, "WAIT_CONFIRM") = 1 /\ Ind(r.items[s].state, "WAIT_CONFIRM") = 0
  BY <1>1, <1>2 DEF Ind
<1>8. s \in Active(r)
  BY DEF Active
<1> HIDE DEF i, t, p
<1>5. t.items = [r.items EXCEPT ![s] = i] /\ t.sp = p /\ t.wp = r.wp /\ t.seq = r.seq
      /\ t.waitSend = r.waitSend - 1 /\ t.waitConfirm = r.waitConfirm + 1
  BY <1>1, <1>3 DEF Rings
<1>6. RingShaped(t)
  BY <1>1, <1>3 DEF Rings, RingShaped
<1>9. RingInv(t)
  <2>1. t.waitSend = r.waitSend + 0 - 1 /\ t.waitConfirm = r.waitConfirm + 1 - 0
    BY <1>1, <1>5
  <2>2. t.sp \in Slots /\ t.wp \in Slots /\ t.seq \in Seqs
    BY <1>1, <1>4, <1>5
  <2> QED BY <1>1, <1>2, <1>5, <1>6, <1>7, <1>8, <2>1, <2>2, ItemReplaced
<1> QED BY <1>5, <1>9 DEF t

(* The item is given back, by its answer or because it is given up.        *)
LEMMA FreeOK ==
  ASSUME NEW r, RingInv(r), NEW s \in Active(r)
  PROVE  /\ RingInv(QItem_Free(r, s))
         /\ QItem_Free(r, s).waitConfirm = r.waitConfirm - Ind(r.items[s].state, "WAIT_CONFIRM")
<1> DEFINE t == QItem_Free(r, s)
           ws == r.waitSend - Ind(r.items[s].state, "WAIT_SEND")
           wc == r.waitConfirm - Ind(r.items[s].state, "WAIT_CONFIRM")
<1>1. /\ r \in Rings /\ s \in Slots /\ r.items[s] \in Items
      /\ r.items[s].state \in {"WAIT_SEND", "WAIT_CONFIRM"}
      /\ r.sp \in Slots /\ r.wp \in Slots /\ r.seq \in Seqs
      /\ r.waitSend \in Nat /\ r.waitConfirm \in Nat
  BY DEF RingInv, Rings, Active, ToSend, InFlight, InState
<1>2. Blank \in Items /\ Blank.state = "INIT"
  BY RingAssumption DEF Blank, Items, Seqs, MaxSendRetry
<1>3. t = [r EXCEPT !.items[s] = Blank, !.waitSend = ws, !.waitConfirm = wc]
  <2>1. ws = IF r.items[s].state = "WAIT_SEND" THEN r.waitSend - 1 ELSE r.waitSend
    BY <1>1 DEF Ind
  <2>2. wc = IF r.items[s].state = "WAIT_CONFIRM" THEN r.waitConfirm - 1 ELSE r.waitConfirm
    BY <1>1 DEF Ind
  <2> HIDE DEF ws, wc
  <2> QED BY <2>1, <2>2 DEF QItem_Free
<1>6. /\ Ind(Blank.state, "WAIT_SEND") = 0 /\ Ind(Blank.state, "WAIT_CONFIRM") = 0
      /\ Ind(r.items[s].state, "WAIT_SEND") \in Nat /\ Ind(r.items[s].state, "WAIT_CONFIRM") \in Nat
  BY <1>2 DEF Ind
<1>4. ws = r.waitSend + 0 - Ind(r.items[s].state, "WAIT_SEND")
      /\ wc = r.waitConfirm + 0 - Ind(r.items[s].state, "WAIT_CONFIRM")
  BY <1>1, <1>6
<1> HIDE DEF t, ws, wc
<1>5. /\ t.items = [r.items EXCEPT ![s] = Blank] /\ t.sp = r.sp /\ t.wp = r.wp /\ t.seq = r.seq
      /\ t.waitSend = ws /\ t.waitConfirm = wc
      /\ RingShaped(t)
  <2>1. RingShaped(t)
    BY <1>1, <1>3 DEF Rings, RingShaped
  <2> QED BY <1>1, <1>3, <2>1 DEF Rings
<1>7. RingInv(t)
  <2>1. /\ t.waitSend = r.waitSend + 0 - Ind(r.items[s].state, "WAIT_SEND")
        /\ t.waitConfirm = r.waitConfirm + 0 - Ind(r.items[s].state, "WAIT_CONFIRM")
    BY <1>4, <1>5
  <2>2. t.sp \in Slots /\ t.wp \in Slots /\ t.seq \in Seqs
    BY <1>1, <1>5
  <2> QED BY <1>1, <1>2, <1>5, <1>6, <2>1, <2>2, ItemReplaced
<1> QED BY <1>5, <1>7 DEF t, wc

\* A response that fits some command in flight frees one of them.
LEMMA FirstConfirmed ==
  ASSUME NEW r, NEW op, NEW q, Confirms(r, op, q) # {}
  PROVE  \E s \in Confirms(r, op, q) : QItem_Confirm(r, op, q) = QItem_Free(r, s)
<1>1. Confirms(r, op, q) \in SUBSET Nat
  BY RingAssumption DEF Confirms, InFlight, InState, Slots
<1>2. \E s \in Confirms(r, op, q) : \A t \in Confirms(r, op, q) : s <= t
  BY <1>1, NatMin
<1> QED BY <1>2 DEF QItem_Confirm

LEMMA ConfirmOK ==
  ASSUME NEW r, RingInv(r), NEW op, NEW q
  PROVE  /\ RingInv(QItem_Confirm(r, op, q))
         /\ QItem_Confirm(r, op, q).waitConfirm <= r.waitConfirm
<1>0. r.waitConfirm \in Nat
  BY DEF RingInv, Rings
<1>1. CASE Confirms(r, op, q) = {}
  BY <1>0, <1>1 DEF QItem_Confirm
<1>2. CASE Confirms(r, op, q) # {}
  <2>3. PICK s \in Confirms(r, op, q) : QItem_Confirm(r, op, q) = QItem_Free(r, s)
    BY <1>2, FirstConfirmed
  <2>4. s \in Active(r)
    BY DEF Confirms, Active
  <2>5. Ind(r.items[s].state, "WAIT_CONFIRM") \in Nat
    BY DEF Ind
  <2> QED BY <1>0, <2>3, <2>4, <2>5, FreeOK
<1> QED BY <1>1, <1>2

(* handleTimeouts takes an item out of flight again.                       *)
LEMMA RequeueOK ==
  ASSUME NEW r, RingInv(r), NEW s \in InFlight(r), r.items[s].retries < MaxSendRetry
  PROVE  /\ RingInv(Requeue(r, s)) /\ s \in ToSend(Requeue(r, s))
         /\ Requeue(r, s).waitConfirm = r.waitConfirm - 1
<1> DEFINE i == [r.items[s] EXCEPT !.state = "WAIT_SEND", !.retries = r.items[s].retries + 1]
           t == Requeue(r, s)
<1>1. /\ r \in Rings /\ s \in Slots /\ r.items[s] \in Items /\ r.items[s].state = "WAIT_CONFIRM"
      /\ r.sp \in Slots /\ r.wp \in Slots /\ r.seq \in Seqs
      /\ r.waitSend \in Nat /\ r.waitConfirm \in Nat
  BY DEF RingInv, Rings, InFlight, InState
<1>2. i \in Items /\ i.state = "WAIT_SEND" /\ i.seq = r.items[s].seq
  <2>1. r.items[s].retries + 1 \in 0 .. MaxSendRetry
    BY <1>1 DEF Items, MaxSendRetry
  <2> QED BY <1>1, <2>1 DEF Items
<1>3. t = [r EXCEPT !.items[s] = i, !.waitSend = r.waitSend + 1, !.waitConfirm = r.waitConfirm - 1]
  BY DEF Requeue
<1>6. /\ Ind(i.state, "WAIT_SEND") = 1 /\ Ind(r.items[s].state, "WAIT_SEND") = 0
      /\ Ind(i.state, "WAIT_CONFIRM") = 0 /\ Ind(r.items[s].state, "WAIT_CONFIRM") = 1
  BY <1>1, <1>2 DEF Ind
<1>7. s \in Active(r)
  BY DEF Active
<1> HIDE DEF i, t
<1>4. t.items = [r.items EXCEPT ![s] = i] /\ t.sp = r.sp /\ t.wp = r.wp /\ t.seq = r.seq
      /\ t.waitSend = r.waitSend + 1 /\ t.waitConfirm = r.waitConfirm - 1
  BY <1>1, <1>3 DEF Rings
<1>5. RingShaped(t)
  BY <1>1, <1>3 DEF Rings, RingShaped
<1>8. s \in ToSend(t)
  BY <1>1, <1>2, <1>4 DEF ToSend, InState, Rings
<1>9. RingInv(t)
  <2>1. t.waitSend = r.waitSend + 1 - 0 /\ t.waitConfirm = r.waitConfirm + 0 - 1
    BY <1>1, <1>4
  <2>2. t.sp \in Slots /\ t.wp \in Slots /\ t.seq \in Seqs
    BY <1>1, <1>4
  <2> QED BY <1>1, <1>2, <1>4, <1>5, <1>6, <1>7, <2>1, <2>2, ItemReplaced
<1> QED BY <1>4, <1>8, <1>9 DEF t
=============================================================================
