-------------------------- MODULE RingMachineProofs --------------------------
(***************************************************************************)
(* Whatever its callers do, the ring keeps exact counters, sequence        *)
(* numbers that differ, and at most MaxUnconfirmed commands in flight; and *)
(* until something disturbs the order, commands are sent in the order they *)
(* were queued.                                                            *)
(***************************************************************************)
EXTENDS RingMachine, CommandRingProofs

Inv == RingInv(ring) /\ FewUnconfirmed

LEMMA InitOK == Init => Inv
BY EmptyOK DEF Init, Inv, FewUnconfirmed, MaxUnconfirmed

LEMMA NextOK == Inv /\ [Next]_vars => Inv'
<1> SUFFICES ASSUME Inv, [Next]_vars PROVE Inv'
  OBVIOUS
<1> USE DEF Inv, FewUnconfirmed
<1>0. ring.waitConfirm \in Nat /\ ring \in Rings
  BY DEF RingInv, Rings
<1>1. CASE Produce
  BY <1>1, QueueOK DEF Produce
<1>2. CASE AllocateInVain
  BY <1>2, AllocOK DEF AllocateInVain
<1>3. CASE SendNext
  <2>1. QItem_NextToSend(ring) \in ToSend(ring)
    BY <1>3, NextToSendOK DEF SendNext
  <2>2. ring' = QItem_Sent(ring, QItem_NextToSend(ring)) /\ ring.waitConfirm < MaxUnconfirmed
    BY <1>3 DEF SendNext
  <2> QED BY <1>0, <2>1, <2>2, SentOK DEF MaxUnconfirmed
<1>4. ASSUME NEW s \in Slots, Retry(s) PROVE Inv'
  <2>1. s \in InFlight(ring) /\ ring.items[s].retries < MaxSendRetry
    BY <1>4 DEF Retry
  <2>2. /\ RingInv(Requeue(ring, s)) /\ s \in ToSend(Requeue(ring, s))
        /\ Requeue(ring, s).waitConfirm = ring.waitConfirm - 1
    BY <2>1, RequeueOK
  <2>3. /\ RingInv(QItem_Sent(Requeue(ring, s), s))
        /\ QItem_Sent(Requeue(ring, s), s).waitConfirm = Requeue(ring, s).waitConfirm + 1
    BY <2>2, SentOK
  <2>4. ring' = Requeue(ring, s) \/ ring' = QItem_Sent(Requeue(ring, s), s)
    BY <1>4 DEF Retry
  <2> QED BY <1>0, <2>2, <2>3, <2>4 DEF MaxUnconfirmed
<1>5. ASSUME NEW s \in Slots, Drop(s) PROVE Inv'
  <2>1. s \in Active(ring) /\ ring' = QItem_Free(ring, s)
    BY <1>5 DEF Drop, Active
  <2>2. Ind(ring.items[s].state, "WAIT_CONFIRM") \in Nat
    BY DEF Ind
  <2> QED BY <1>0, <2>1, <2>2, FreeOK DEF MaxUnconfirmed
<1>6. CASE Response
  <2>1. PICK op \in Ops, q \in Seqs : ring' = QItem_Confirm(ring, op, q)
    BY <1>6 DEF Response
  <2>2. RingInv(ring') /\ ring'.waitConfirm <= ring.waitConfirm
    BY <2>1, ConfirmOK
  <2>3. ring'.waitConfirm \in Nat
    BY <2>2 DEF RingInv, Rings
  <2> QED BY <1>0, <2>2, <2>3 DEF MaxUnconfirmed
<1>7. CASE Clear
  BY <1>0, <1>7, ClearedOK DEF Clear, MaxUnconfirmed
<1>8. CASE UNCHANGED vars
  BY <1>8 DEF vars
<1> QED BY <1>1, <1>2, <1>3, <1>4, <1>5, <1>6, <1>7, <1>8 DEF Next

(* The ring is a well-formed ring with exact counters and sequence numbers *)
(* that tell its commands apart, after any calls of the QItem_* functions. *)
THEOREM RingIsSound == Spec => []Inv
BY InitOK, NextOK, PTL DEF Spec

(* q_items_wait_send and q_items_wait_confirm never drift from the items.  *)
THEOREM CountersNeverDrift == Spec => []CountersCount
<1>1. Inv => CountersCount
  BY DEF Inv, RingInv, CountersCount
<1> QED BY <1>1, RingIsSound, PTL

(* A response can confirm one command at most.                             *)
THEOREM SeqsNeverClash == Spec => []SeqsUnique
<1>1. Inv => SeqsUnique
  BY DEF Inv, RingInv, SeqsUnique
<1> QED BY <1>1, RingIsSound, PTL

----------------------------------------------------------------------------
(* The order.  Undisturbed, the waiting commands are those from the send   *)
(* pointer to the write pointer, without a gap, and in the order in which  *)
(* they were queued.                                                       *)

Lined(o, r) ==
  /\ o \in Seq(Slots) /\ Len(o) <= NSlots
  /\ \A k \in 1 .. Len(o) : o[k] = After(r.sp, k - 1)
  /\ r.wp = After(r.sp, Len(o))
  /\ ToSend(r) = {o[k] : k \in 1 .. Len(o)}

\* The inductive invariant of the order.
Straight == strayed \in BOOLEAN /\ (~strayed => overtaken = {} /\ Lined(order, ring))

\* Slots after a slot: going on, going all around, and not meeting again before that.
LEMMA AfterSum ==
  ASSUME NEW s \in Slots, NEW d \in Nat, NEW e \in Nat
  PROVE  After(After(s, d), e) = After(s, d + e)
<1> DEFINE q == (s + d) \div NSlots
           r == (s + d) % NSlots
<1>1. NSlots \in Nat \ {0} /\ s \in Int /\ s + d \in Int
  BY RingAssumption DEF Slots
<1>2. q \in Int /\ s + d = NSlots * q + r /\ r \in Int
  BY <1>1, DivMod
<1> HIDE DEF q, r
<1>3. (r + e) + NSlots * q = s + (d + e) /\ r + e \in Int
  BY <1>1, <1>2
<1>4. ((r + e) + NSlots * q) % NSlots = (r + e) % NSlots
  BY <1>1, <1>2, <1>3, RestPlus
<1> QED BY <1>3, <1>4 DEF After, r

LEMMA AfterAround ==
  ASSUME NEW s \in Slots
  PROVE  After(s, 0) = s /\ After(s, NSlots) = s
<1>1. NSlots \in Nat \ {0} /\ s \in 0 .. NSlots - 1 /\ NSlots * 1 = NSlots
  BY RingAssumption DEF Slots
<1>2. s % NSlots = s /\ s + 0 = s
  BY <1>1
<1>3. s \in Int /\ 1 \in Int
  BY <1>1
<1>4. (s + NSlots * 1) % NSlots = s % NSlots
  BY <1>1, <1>3, RestPlus, Zenon
<1> QED BY <1>1, <1>2, <1>4 DEF After

LEMMA AfterApart ==
  ASSUME NEW s \in Slots, NEW d \in 0 .. NSlots - 1, NEW e \in 0 .. NSlots - 1, d < e
  PROVE  After(s, d) # After(s, e)
<1>1. /\ NSlots \in Nat \ {0} /\ s + d \in Int /\ s + e \in Int
      /\ s + d < s + e /\ (s + e) - (s + d) < NSlots
  BY RingAssumption DEF Slots
<1> QED BY <1>1, RestsApart DEF After

\* The order is empty when the ring is.
LEMMA EmptyLined ==
  ASSUME NEW r, r \in Rings, ToSend(r) = {}, r.wp = r.sp
  PROVE  Lined(<<>>, r)
<1>1. r.sp \in Slots /\ NSlots \in Nat
  BY RingAssumption DEF Rings
<1>2. <<>> \in Seq(Slots) /\ Len(<<>>) = 0
  OBVIOUS
<1> QED BY <1>1, <1>2, AfterAround DEF Lined

\* A ring with the same waiting items and cursors.
LEMMA LinedStays ==
  ASSUME NEW o, NEW r, NEW t, Lined(o, r), ToSend(t) = ToSend(r), t.sp = r.sp, t.wp = r.wp
  PROVE  Lined(o, t)
BY DEF Lined

\* What waits behind all others is at the write pointer.
LEMMA ProduceStraight ==
  ASSUME Inv, Straight, Produce
  PROVE  Straight'
<1> DEFINE a == QItem_Alloc(ring)
           n == Len(order)
<1>1. PICK c \in Cmds : ring' = Queue(ring, c)
  BY DEF Produce
<1>2. /\ HasFreeItem(ring) /\ order' = Append(order, a.wp) /\ overtaken' = overtaken \ {a.wp}
      /\ strayed' = (strayed \/ a.wp # ring.wp)
  BY DEF Produce, Waits
<1> SUFFICES ASSUME ~strayed' PROVE overtaken' = {} /\ Lined(order, ring)'
  BY <1>2 DEF Straight
<1>3. /\ ~strayed /\ a.wp = ring.wp /\ overtaken' = {} /\ ring \in Rings
      /\ order \in Seq(Slots) /\ n <= NSlots /\ ring.wp = After(ring.sp, n)
      /\ \A k \in 1 .. n : order[k] = After(ring.sp, k - 1)
      /\ ToSend(ring) = {order[k] : k \in 1 .. n}
  BY <1>2 DEF Straight, Lined, Inv, RingInv
<1>4. /\ RingInv(a) /\ a.items = ring.items /\ ring.items[ring.wp].state = "INIT"
  BY <1>2, <1>3, AllocOK DEF Inv
<1>5. /\ a.sp = ring.sp /\ a.seq \in Seqs /\ a \in Rings
  BY <1>2, <1>4 DEF QItem_Alloc, RingInv, Rings
<1>6. n \in Nat /\ NSlots \in Nat \ {0} /\ ring.sp \in Slots /\ ring.wp \in Slots
  BY <1>3, RingAssumption, LenProperties DEF Rings
<1>7. n + 1 <= NSlots /\ n + 1 \in Nat
  <2>1. CASE n = NSlots
    <3>1. 1 \in 1 .. n /\ order[1] = After(ring.sp, 0)
      BY <1>3, <1>6, <2>1
    <3>2. ring.wp = ring.sp /\ After(ring.sp, 0) = ring.sp
      BY <1>3, <1>6, <2>1, AfterAround
    <3>3. ring.wp \in ToSend(ring)
      BY <1>3, <3>1, <3>2
    <3> QED BY <1>4, <3>3 DEF ToSend, InState
  <2>2. CASE n # NSlots
    BY <1>3, <1>6, <2>2
  <2> QED BY <2>1, <2>2
<1>8. DEFINE i == [state |-> "WAIT_SEND", cmd |-> c, seq |-> a.seq, retries |-> 0, late |-> FALSE]
<1>9. /\ ring' = QItem_Enqueue(a, c) /\ ring'.items = [ring.items EXCEPT ![ring.wp] = i]
      /\ ring'.sp = ring.sp /\ ring'.wp = After(ring.wp, 1)
  <2>1. ring' = QItem_Enqueue(a, c)
    BY <1>1, <1>2 DEF Queue
  <2> HIDE DEF a
  <2> QED BY <2>1, <1>3, <1>4, <1>5 DEF QItem_Enqueue, Rings
<1>10. i \in Items /\ i.state = "WAIT_SEND"
  BY <1>5 DEF Items, MaxSendRetry
<1> HIDE DEF i, a
<1>11. ToSend(ring') = ToSend(ring) \cup {ring.wp}
  BY <1>3, <1>6, <1>9, <1>10, ItemMoves DEF ToSend
<1>12. ring'.wp = After(ring.sp, n + 1)
  <2>1. 1 \in Nat
    OBVIOUS
  <2>2. After(After(ring.sp, n), 1) = After(ring.sp, n + 1)
    BY <1>6, <2>1, AfterSum, Zenon
  <2> QED BY <1>3, <1>9, <2>2, Zenon
<1>13. /\ order' \in Seq(Slots) /\ Len(order') = n + 1 /\ order'[n + 1] = ring.wp
       /\ \A k \in 1 .. n : order'[k] = order[k]
  BY <1>2, <1>3, <1>6, AppendProperties
<1>14. \A k \in 1 .. n + 1 : order'[k] = After(ring.sp, k - 1)
  <2> TAKE k \in 1 .. n + 1
  <2>1. CASE k = n + 1
    BY <1>3, <1>6, <1>13, <2>1
  <2>2. CASE k # n + 1
    BY <1>3, <1>6, <1>13, <2>2
  <2> QED BY <2>1, <2>2
<1>15. ToSend(ring') = {order'[k] : k \in 1 .. n + 1}
  <2>1. 1 .. n + 1 = (1 .. n) \cup {n + 1}
    BY <1>6
  <2>2. {order'[k] : k \in 1 .. n + 1} = {order'[k] : k \in 1 .. n} \cup {order'[n + 1]}
    BY <2>1
  <2>3. {order'[k] : k \in 1 .. n} = {order[k] : k \in 1 .. n}
    BY <1>13
  <2> QED BY <1>3, <1>11, <1>13, <2>2, <2>3
<1>16. Lined(order', ring')
  BY <1>7, <1>9, <1>12, <1>13, <1>14, <1>15 DEF Lined
<1> QED BY <1>3, <1>16

\* Undisturbed, the next command to send is the one at the send pointer.
LEMMA NextIsFirst ==
  ASSUME NEW r, r \in Rings, NEW o, Lined(o, r), ToSend(r) # {}
  PROVE  /\ Len(o) \in Nat \ {0} /\ o[1] = r.sp /\ r.sp \in Slots
         /\ QItem_NextToSend(r) = r.sp
         /\ \A k \in 1 .. Len(o) : o[k] = r.sp => k = 1
<1>1. r.sp \in Slots /\ NSlots \in Nat \ {0} /\ Len(o) \in Nat
  BY RingAssumption, LenProperties DEF Rings, Lined
<1>2. Len(o) # 0
  BY <1>1 DEF Lined
<1>3. 1 \in 1 .. Len(o) /\ After(r.sp, 0) = r.sp
  BY <1>1, <1>2, AfterAround
<1>4. o[1] = r.sp
  <2>1. o[1] = After(r.sp, 1 - 1)
    BY <1>3 DEF Lined
  <2> QED BY <1>3, <2>1
<1>5. After(r.sp, 0) \in ToSend(r)
  BY <1>3, <1>4 DEF Lined
<1>6. \A k \in 1 .. Len(o) : o[k] = r.sp => k = 1
  <2> SUFFICES ASSUME NEW k \in 1 .. Len(o), k # 1 PROVE o[k] # r.sp
    OBVIOUS
  <2>1. Len(o) <= NSlots /\ o[k] = After(r.sp, k - 1)
    BY DEF Lined
  <2>2. 0 \in 0 .. NSlots - 1 /\ k - 1 \in 0 .. NSlots - 1 /\ 0 < k - 1
    BY <1>1, <2>1
  <2>3. After(r.sp, 0) # After(r.sp, k - 1)
    BY <1>1, <2>2, AfterApart
  <2> QED BY <1>3, <2>1, <2>3
<1>7. QItem_NextToSend(r) = r.sp
  <2> DEFINE P(k) == /\ After(r.sp, k) \in ToSend(r)
                     /\ \A j \in 0 .. k - 1 : After(r.sp, j) \notin ToSend(r)
  <2>1. 0 \in 0 .. NSlots - 1 /\ P(0)
    BY <1>1, <1>5
  <2>2. \A k \in 0 .. NSlots - 1 : P(k) => k = 0
    <3> SUFFICES ASSUME NEW k \in 0 .. NSlots - 1, P(k), k # 0 PROVE FALSE
      OBVIOUS
    <3>1. 0 \in 0 .. k - 1
      BY <1>1
    <3> QED BY <1>5, <3>1
  <2>3. (CHOOSE k \in 0 .. NSlots - 1 : P(k)) = 0
    <3> HIDE DEF P
    <3> QED BY <2>1, <2>2
  <2> QED BY <1>3, <2>3 DEF QItem_NextToSend
<1> QED BY <1>1, <1>2, <1>4, <1>6, <1>7

LEMMA SendNextStraight ==
  ASSUME Inv, Straight, SendNext
  PROVE  Straight'
<1> DEFINE s == QItem_NextToSend(ring)
           n == Len(order)
<1>1. /\ ToSend(ring) # {} /\ ring' = QItem_Sent(ring, s) /\ strayed' = strayed
      /\ order' = RemoveAt(order, Place(s))
      /\ overtaken' = (overtaken \cup {order[k] : k \in 1 .. Place(s) - 1}) \ {s}
  BY DEF SendNext
<1> SUFFICES ASSUME ~strayed PROVE overtaken' = {} /\ Lined(order, ring)'
  BY <1>1 DEF Straight
<1>2. /\ overtaken = {} /\ Lined(order, ring) /\ ring \in Rings
      /\ order \in Seq(Slots) /\ n <= NSlots /\ ring.wp = After(ring.sp, n)
      /\ \A k \in 1 .. n : order[k] = After(ring.sp, k - 1)
      /\ ToSend(ring) = {order[k] : k \in 1 .. n}
  BY DEF Straight, Lined, Inv, RingInv
<1>3. /\ n \in Nat \ {0} /\ order[1] = ring.sp /\ ring.sp \in Slots /\ s = ring.sp
      /\ \A k \in 1 .. n : order[k] = ring.sp => k = 1
  BY <1>1, <1>2, NextIsFirst
<1> HIDE DEF s
<1>4. Place(s) = 1
  <2>1. DOMAIN order = 1 .. n /\ 1 \in 1 .. n
    BY <1>2, <1>3, LenProperties
  <2> QED BY <1>3, <2>1 DEF Place
<1>5. overtaken' = {}
  BY <1>1, <1>2, <1>4
<1>6. /\ order' \in Seq(Slots) /\ Len(order') = n - 1
      /\ \A k \in 1 .. n - 1 : order'[k] = order[k + 1]
  <2>1. 1 \in 1 .. n
    BY <1>3
  <2>2. /\ RemoveAt(order, 1) \in Seq(Slots) /\ Len(RemoveAt(order, 1)) = n - 1
        /\ \A k \in 1 .. n - 1 : RemoveAt(order, 1)[k] = IF k < 1 THEN order[k] ELSE order[k + 1]
    BY <1>2, <2>1, RemoveAtProperties
  <2> QED BY <1>1, <1>4, <2>2
<1>7. DEFINE i == [ring.items[s] EXCEPT !.state = "WAIT_CONFIRM", !.late = FALSE]
<1>8. ring.items[s] \in Items /\ ring.items \in [Slots -> Items] /\ s \in Slots
  BY <1>2, <1>3 DEF Rings
<1>9. i \in Items /\ i.state = "WAIT_CONFIRM"
  BY <1>8 DEF Items
<1>10. /\ ring'.items = [ring.items EXCEPT ![s] = i]
       /\ ring'.sp = After(ring.sp, 1) /\ ring'.wp = ring.wp
  BY <1>1, <1>2, <1>3 DEF QItem_Sent, Rings
<1> HIDE DEF i
<1>11. ToSend(ring') = ToSend(ring) \ {s}
  BY <1>2, <1>8, <1>9, <1>10, ItemMoves DEF ToSend
<1>12. \A k \in 1 .. n - 1 : order'[k] = After(ring'.sp, k - 1)
  <2> TAKE k \in 1 .. n - 1
  <2>1. k + 1 \in 1 .. n /\ k - 1 \in Nat /\ 1 + (k - 1) = (k + 1) - 1
    BY <1>3
  <2>2. order'[k] = After(ring.sp, (k + 1) - 1)
    BY <1>2, <1>6, <2>1
  <2>3. After(After(ring.sp, 1), k - 1) = After(ring.sp, 1 + (k - 1))
    BY <1>3, <2>1, AfterSum
  <2> QED BY <1>10, <2>1, <2>2, <2>3
<1>13. ring'.wp = After(ring'.sp, n - 1)
  <2>1. n - 1 \in Nat /\ 1 + (n - 1) = n
    BY <1>3
  <2>2. After(After(ring.sp, 1), n - 1) = After(ring.sp, 1 + (n - 1))
    BY <1>3, <2>1, AfterSum
  <2> QED BY <1>2, <1>10, <2>1, <2>2
<1>14. ToSend(ring') = {order'[k] : k \in 1 .. n - 1}
  <2>1. ASSUME NEW x \in ToSend(ring) \ {s} PROVE x \in {order'[k] : k \in 1 .. n - 1}
    <3>1. PICK k \in 1 .. n : order[k] = x
      BY <1>2
    <3>2. k # 1
      BY <1>3, <3>1
    <3>3. k - 1 \in 1 .. n - 1 /\ (k - 1) + 1 = k
      BY <1>3, <3>2
    <3>4. order'[k - 1] = order[(k - 1) + 1]
      BY <1>6, <3>3
    <3> QED BY <3>1, <3>3, <3>4
  <2>2. ASSUME NEW k \in 1 .. n - 1 PROVE order'[k] \in ToSend(ring) \ {s}
    <3>1. k + 1 \in 1 .. n /\ k + 1 # 1
      BY <1>3
    <3>2. order[k + 1] \in ToSend(ring) /\ order[k + 1] # s
      BY <1>2, <1>3, <3>1
    <3> QED BY <1>6, <3>2
  <2> QED BY <1>11, <2>1, <2>2
<1>15. Lined(order', ring')
  <2>1. Len(order') <= NSlots
    BY <1>2, <1>3, <1>6, RingAssumption
  <2> QED BY <1>6, <1>12, <1>13, <1>14, <2>1 DEF Lined
<1> QED BY <1>5, <1>15

\* A retry that is sent leaves what waits alone; if it moves the send pointer it strays.
LEMMA RetryStraight ==
  ASSUME Inv, Straight, NEW s \in Slots, Retry(s)
  PROVE  Straight'
<1> DEFINE t == Requeue(ring, s)
           u == QItem_Sent(t, s)
<1>1. CASE strayed' = TRUE
  BY <1>1 DEF Straight
<1>2. CASE strayed' # TRUE
  <2>1. /\ ring' = u /\ strayed' = (strayed \/ u.sp # ring.sp)
        /\ order' = order /\ overtaken' = overtaken
    BY <1>2 DEF Retry
  <2>2. /\ strayed \in BOOLEAN /\ ~strayed /\ u.sp = ring.sp /\ strayed' = FALSE
        /\ overtaken = {} /\ Lined(order, ring)
    BY <1>2, <2>1 DEF Straight
  <2>3. ring \in Rings /\ s \in InFlight(ring)
    BY DEF Inv, RingInv, Retry
  <2>4. t.items = [ring.items EXCEPT ![s] = [@ EXCEPT !.state = "WAIT_SEND", !.retries = ring.items[s].retries + 1]]
    BY <2>3 DEF Requeue, Rings
  <2>5. u.items = [t.items EXCEPT ![s] = [@ EXCEPT !.state = "WAIT_CONFIRM", !.late = FALSE]]
    BY <2>3 DEF Requeue, QItem_Sent, Rings
  <2>6. u.wp = ring.wp
    BY <2>3 DEF Requeue, QItem_Sent, Rings
  <2>7. ring.items \in [Slots -> Items] /\ ring.items[s].state = "WAIT_CONFIRM"
    BY <2>3 DEF Rings, InFlight, InState
  <2> HIDE DEF t, u
  <2>8. t.items[s].state = "WAIT_SEND" /\ DOMAIN t.items = Slots
    BY <2>4, <2>7 DEF Items
  <2>9. \A x \in Slots : x # s => u.items[x].state = ring.items[x].state
    BY <2>4, <2>5, <2>7, <2>8
  <2>10. u.items[s].state = "WAIT_CONFIRM"
    <3>1. t.items[s] = [ring.items[s] EXCEPT !.state = "WAIT_SEND", !.retries = ring.items[s].retries + 1]
      BY <2>4, <2>7
    <3>2. u.items[s] = [t.items[s] EXCEPT !.state = "WAIT_CONFIRM", !.late = FALSE]
      BY <2>5, <2>8
    <3> QED BY <2>7, <3>1, <3>2 DEF Items
  <2>11. ToSend(u) = ToSend(ring)
    BY <2>7, <2>9, <2>10 DEF ToSend, InState
  <2>12. Lined(order, u)
    BY <2>2, <2>6, <2>11, LinedStays
  <2> QED BY <2>1, <2>2, <2>12 DEF Straight
<1> QED BY <1>1, <1>2

\* A command in flight that is freed leaves what waits alone.
LEMMA FreeStraight ==
  ASSUME Inv, Straight, NEW s \in InFlight(ring), ring' = QItem_Free(ring, s), UNCHANGED ghosts
  PROVE  Straight'
<1>1. ring \in Rings /\ s \in Slots /\ ring.items[s].state = "WAIT_CONFIRM" /\ Blank \in Items
  BY RingAssumption DEF Inv, RingInv, InFlight, InState, Blank, Items, Seqs, MaxSendRetry
<1>2. /\ ring'.items = [ring.items EXCEPT ![s] = Blank]
      /\ ring'.sp = ring.sp /\ ring'.wp = ring.wp
  BY <1>1 DEF QItem_Free, Rings
<1>3. ToSend(ring') = ToSend(ring)
  <2>1. Blank.state = "INIT" /\ ring.items \in [Slots -> Items]
    BY <1>1 DEF Blank, Rings
  <2>2. ring'.items[s].state = "INIT"
    BY <1>1, <1>2, <2>1
  <2>3. \A x \in Slots : x # s => ring'.items[x].state = ring.items[x].state
    BY <1>1, <1>2, <2>1
  <2> QED BY <1>1, <2>2, <2>3 DEF ToSend, InState
<1>4. Lined(order, ring) => Lined(order, ring')
  BY <1>2, <1>3, LinedStays
<1> QED BY <1>4 DEF Straight, ghosts

LEMMA StraightInit == Init => Straight
<1> SUFFICES ASSUME Init PROVE Straight
  OBVIOUS
<1>1. ring \in Rings /\ ToSend(ring) = {} /\ ring.wp = ring.sp
  BY EmptyOK DEF Init, RingInv, EmptyRing, ToSend, InState, Blank
<1> QED BY <1>1, EmptyLined DEF Init, Straight

LEMMA StraightNext == Inv /\ Straight /\ [Next]_vars => Straight'
<1> SUFFICES ASSUME Inv, Straight, [Next]_vars PROVE Straight'
  OBVIOUS
<1>1. CASE Produce
  BY <1>1, ProduceStraight
<1>2. CASE AllocateInVain
  <2>1. /\ ring' = QItem_Alloc(ring) /\ HasFreeItem(ring) /\ RingInv(ring)
        /\ strayed' = (strayed \/ ring'.wp # ring.wp) /\ order' = order /\ overtaken' = overtaken
    BY <1>2 DEF AllocateInVain, Inv
  <2>2. ring'.items = ring.items
    BY <2>1, AllocOK
  <2>3. ring'.sp = ring.sp
    BY <2>1 DEF QItem_Alloc, RingInv, Rings
  <2>4. ToSend(ring') = ToSend(ring)
    BY <2>2 DEF ToSend, InState
  <2>5. Lined(order, ring) /\ ring'.wp = ring.wp => Lined(order, ring')
    BY <2>3, <2>4, LinedStays
  <2> QED BY <2>1, <2>5 DEF Straight
<1>3. CASE SendNext
  BY <1>3, SendNextStraight
<1>4. ASSUME NEW s \in Slots, Retry(s) PROVE Straight'
  BY <1>4, RetryStraight
<1>5. ASSUME NEW s \in Slots, Drop(s) PROVE Straight'
  BY <1>5, FreeStraight DEF Drop
<1>6. CASE Response
  <2>1. PICK op \in Ops, q \in Seqs : ring' = QItem_Confirm(ring, op, q)
    BY <1>6 DEF Response
  <2>2. UNCHANGED ghosts
    BY <1>6 DEF Response
  <2>3. CASE Confirms(ring, op, q) = {}
    BY <2>1, <2>2, <2>3 DEF QItem_Confirm, Straight, ghosts
  <2>4. CASE Confirms(ring, op, q) # {}
    <3>1. PICK s \in Confirms(ring, op, q) : ring' = QItem_Free(ring, s)
      BY <2>1, <2>4, FirstConfirmed
    <3>2. s \in InFlight(ring)
      BY DEF Confirms
    <3> QED BY <2>2, <3>1, <3>2, FreeStraight
  <2> QED BY <2>3, <2>4
<1>7. CASE Clear
  <2>1. /\ ring' = Cleared(ring) /\ order' = <<>> /\ overtaken' = {} /\ strayed' = FALSE /\ ring \in Rings
    BY <1>7 DEF Clear, Inv, RingInv
  <2>2. ring' \in Rings /\ Active(ring') = {}
    BY <2>1, ClearedOK DEF RingInv
  <2>3. ToSend(ring') = {} /\ ring'.wp = ring'.sp
    BY <2>1, <2>2 DEF Active, Cleared, EmptyRing
  <2> QED BY <2>1, <2>2, <2>3, EmptyLined DEF Straight
<1>8. CASE UNCHANGED vars
  BY <1>8 DEF vars, ghosts, Straight
<1> QED BY <1>1, <1>2, <1>3, <1>4, <1>5, <1>6, <1>7, <1>8 DEF Next

(* Commands are sent in the order they were queued, whatever is confirmed, *)
(* retried, dropped and cleared in between, until the ring is so full that *)
(* an item in use is skipped, or a retry is refused or moves the pointer.  *)
THEOREM OrderIsKept == Spec => []OrderKept
<1>1. Straight => OrderKept
  BY DEF Straight, OrderKept
<1> QED BY <1>1, InitOK, NextOK, StraightInit, StraightNext, PTL DEF Spec
=============================================================================
