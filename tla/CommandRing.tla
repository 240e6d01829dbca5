---------------------------- MODULE CommandRing ----------------------------
(***************************************************************************)
(* The ring of commands zm_master.cpp keeps for the coordinator firmware:  *)
(* struct zm_master's q_items, q_item_sp, q_item_wp, _seq and the two      *)
(* counters, and the QItem_* functions, as operators from a ring to a ring.*)
(*                                                                         *)
(* The cursors q_item_sp and q_item_wp run freely in the code and are used *)
(* only modulo MAX_QUEUE_ITEMS, which divides 2^32: here they are kept     *)
(* modulo NSlots.  The fields of an item in state INIT are overwritten     *)
(* before they are read again, so a free item is always Blank.             *)
(***************************************************************************)
EXTENDS Integers, FiniteSets

CONSTANTS NSlots,   \* MAX_QUEUE_ITEMS
          SeqSpace,   \* the values of the sequence number, 256 in the code
          Ops,      \* the command ids the host sends (ZM_CMD_*)
          Args      \* what tells two commands of one id apart

ASSUME RingAssumption ==
  /\ NSlots \in Nat \ {0}
  /\ SeqSpace \in Nat \ {0}
  /\ NSlots < SeqSpace

MaxUnconfirmed == 2
MaxSendRetry   == 1

Slots  == 0 .. NSlots - 1
Seqs   == 0 .. SeqSpace - 1

Cmds   == [op : Ops, arg : Args]
NoCmd  == [op |-> "INVALID", arg |-> 0]

\* late: the item was sent more than TimeoutDelay ago (tref_tx).
Items  == [state : {"INIT", "WAIT_SEND", "WAIT_CONFIRM"}, cmd : Cmds \cup {NoCmd},
           seq : Seqs, retries : 0 .. MaxSendRetry, late : BOOLEAN]

Rings  == [items : [Slots -> Items], sp : Slots, wp : Slots, seq : Seqs,
           waitSend : Nat, waitConfirm : Nat]

\* QItem_Init
Blank == [state |-> "INIT", cmd |-> NoCmd, seq |-> 0, retries |-> 0, late |-> FALSE]

EmptyRing == [items |-> [s \in Slots |-> Blank], sp |-> 0, wp |-> 0, seq |-> 0,
              waitSend |-> 0, waitConfirm |-> 0]

InState(r, st) == {s \in Slots : r.items[s].state = st}
ToSend(r)      == InState(r, "WAIT_SEND")
InFlight(r)    == InState(r, "WAIT_CONFIRM")
Active(r)      == ToSend(r) \cup InFlight(r)

QItems_Empty(r) == r.waitSend = 0 /\ r.waitConfirm = 0

\* The slot d places after slot s.
After(s, d) == (s + d) % NSlots

----------------------------------------------------------------------------
(* The sequence number after the last one that no active item carries.     *)
UsedSeqs(r)  == {r.items[s].seq : s \in Active(r)}
NextSeq(r, d) == (r.seq + d) % SeqSpace
\* Mutant: the next number, taken or not.
QItem_NextSeqUnchecked(r) == NextSeq(r, 1)
QItem_NextSeq(r) ==
  IF QItems_Empty(r)
  THEN NextSeq(r, 1)
  ELSE NextSeq(r, CHOOSE d \in 1 .. SeqSpace :
                    /\ NextSeq(r, d) \notin UsedSeqs(r)
                    /\ \A e \in 1 .. d - 1 : NextSeq(r, e) \in UsedSeqs(r))

HasFreeItem(r) == \E s \in Slots : r.items[s].state = "INIT"

(* Moves the write pointer to the first free item at or after it and gives *)
(* that item a sequence number.  Without a free item the pointer goes once *)
(* around and the caller gets a null pointer.                              *)
QItem_Alloc(r) ==
  IF HasFreeItem(r)
  THEN LET d == CHOOSE k \in 0 .. NSlots - 1 :
                  /\ r.items[After(r.wp, k)].state = "INIT"
                  /\ \A j \in 0 .. k - 1 : r.items[After(r.wp, j)].state # "INIT"
       IN [r EXCEPT !.wp = After(r.wp, d), !.seq = QItem_NextSeq(r)]
  ELSE r

(* The allocated item, which is the one at the write pointer, is filled    *)
(* with a command and counted.                                             *)
QItem_Enqueue(r, c) ==
  [r EXCEPT !.items[r.wp] = [state |-> "WAIT_SEND", cmd |-> c, seq |-> r.seq,
                             retries |-> 0, late |-> FALSE],
            !.waitSend = @ + 1,
            !.wp = After(r.wp, 1)]

(* What every producer of a command does with the ring.                    *)
Queue(r, c) == IF HasFreeItem(r) THEN QItem_Enqueue(QItem_Alloc(r), c) ELSE r

(* The part of QItem_Send after SerialCom::send returned 0.                *)
QItem_Sent(r, s) ==
  [r EXCEPT !.items[s] = [@ EXCEPT !.state = "WAIT_CONFIRM", !.late = FALSE],
            !.sp = IF @ = s THEN After(s, 1) ELSE @,
            !.waitSend = @ - 1,
            !.waitConfirm = @ + 1]

QItem_Free(r, s) ==
  [r EXCEPT !.items[s] = Blank,
            !.waitSend = IF r.items[s].state = "WAIT_SEND" THEN @ - 1 ELSE @,
            !.waitConfirm = IF r.items[s].state = "WAIT_CONFIRM" THEN @ - 1 ELSE @]

\* Mutant: the first waiting item in the array.
QItem_FirstToSend(r) == CHOOSE s \in ToSend(r) : \A t \in ToSend(r) : s <= t

(* The first waiting item at or after the send pointer.                    *)
QItem_NextToSend(r) ==
  After(r.sp, CHOOSE k \in 0 .. NSlots - 1 :
                /\ After(r.sp, k) \in ToSend(r)
                /\ \A j \in 0 .. k - 1 : After(r.sp, j) \notin ToSend(r))

(* A response confirms the item in flight with its command id and sequence *)
(* number; one that fits no item leaves the ring alone.                    *)
\* Mutant: the first command in flight with that id.
ConfirmsAnySeq(r, op, seq) == {s \in InFlight(r) : r.items[s].cmd.op = op}
Confirms(r, op, seq) == {s \in InFlight(r) : r.items[s].cmd.op = op /\ r.items[s].seq = seq}
QItem_Confirm(r, op, seq) ==
  IF Confirms(r, op, seq) = {} THEN r
  ELSE QItem_Free(r, CHOOSE s \in Confirms(r, op, seq) :
                       \A t \in Confirms(r, op, seq) : s <= t)

\* Mutant: the item is still counted as in flight.
RequeueUncounted(r, s) ==
  [r EXCEPT !.items[s] = [@ EXCEPT !.state = "WAIT_SEND",
                                    !.retries = r.items[s].retries + 1],
            !.waitSend = @ + 1]

(* An item whose answer is late goes back to waiting for its second send.  *)
Requeue(r, s) ==
  [r EXCEPT !.items[s] = [@ EXCEPT !.state = "WAIT_SEND",
                                    !.retries = r.items[s].retries + 1],
            !.waitSend = @ + 1,
            !.waitConfirm = @ - 1]

(* All items freed and both cursors at zero; the sequence number stays.    *)
Cleared(r) == [EmptyRing EXCEPT !.seq = r.seq]

----------------------------------------------------------------------------
(* What the code relies on of a ring: its counters count its items, no two *)
(* active items share a sequence number, free items are blank.             *)
CountersExact(r) ==
  /\ r.waitSend = Cardinality(ToSend(r))
  /\ r.waitConfirm = Cardinality(InFlight(r))
SeqsDiffer(r) ==
  \A s, t \in Active(r) : s # t => r.items[s].seq # r.items[t].seq
RingInv(r) == r \in Rings /\ CountersExact(r) /\ SeqsDiffer(r)
============================================================================
