---------------------------- MODULE RingMachine ----------------------------
(***************************************************************************)
(* The ring of commands driven by any caller: what zm_master.cpp may do to *)
(* its queue, whatever the reasons for doing it.  Three ghosts watch the   *)
(* order: `order' lists the waiting items, the one queued first in front,  *)
(* `overtaken' has those that saw a newer one sent before them, and        *)
(* `strayed' tells that since the ring was last cleared the write pointer  *)
(* went past an item in use, or a retry was refused by the serial port, or *)
(* a retry moved the send pointer.                                         *)
(***************************************************************************)
EXTENDS CommandRing, SequencesExt

VARIABLES ring, order, overtaken, strayed
ghosts == <<order, overtaken, strayed>>
vars == <<ring, ghosts>>

Init ==
  /\ ring = EmptyRing
  /\ order = <<>>
  /\ overtaken = {}
  /\ strayed = FALSE

\* The item s waits behind all others from now on.
Waits(s) ==
  /\ order' = Append(order, s)
  /\ overtaken' = overtaken \ {s}

\* A producer queues a command: the que... functions, readParameter and so on.
Produce ==
  /\ HasFreeItem(ring)
  /\ \E c \in Cmds : ring' = Queue(ring, c)
  /\ Waits(QItem_Alloc(ring).wp)
  /\ strayed' = (strayed \/ QItem_Alloc(ring).wp # ring.wp)

\* queNextApsDataRequest allocates an item and finds the request gone.
AllocateInVain ==
  /\ HasFreeItem(ring)
  /\ ring' = QItem_Alloc(ring)
  /\ strayed' = (strayed \/ ring'.wp # ring.wp)
  /\ UNCHANGED <<order, overtaken>>

\* Where s is in the order.
Place(s) == CHOOSE k \in DOMAIN order : order[k] = s

\* sendNextCommand, when the serial port takes the command.
SendNext ==
  /\ ToSend(ring) # {}
  /\ ring.waitConfirm < MaxUnconfirmed
  /\ LET s == QItem_NextToSend(ring)
     IN /\ ring' = QItem_Sent(ring, s)
        /\ order' = RemoveAt(order, Place(s))
        /\ overtaken' = (overtaken \cup {order[k] : k \in 1 .. Place(s) - 1}) \ {s}
        /\ UNCHANGED strayed

\* handleTimeouts sends the command again, or the serial port refuses it.
Retry(s) ==
  /\ s \in InFlight(ring)
  /\ ring.items[s].retries < MaxSendRetry
  /\ \/ /\ ring' = QItem_Sent(Requeue(ring, s), s)
        /\ strayed' = (strayed \/ ring'.sp # ring.sp)
        /\ UNCHANGED <<order, overtaken>>
     \/ /\ ring' = Requeue(ring, s)
        /\ Waits(s)
        /\ strayed' = TRUE

\* handleTimeouts gives up.
Drop(s) ==
  /\ s \in InFlight(ring)
  /\ ring.items[s].retries >= MaxSendRetry
  /\ ring' = QItem_Free(ring, s)
  /\ UNCHANGED ghosts

\* Any response, to a command in flight or to one no longer waited for.
Response ==
  /\ \E op \in Ops, q \in Seqs : ring' = QItem_Confirm(ring, op, q)
  /\ UNCHANGED ghosts

\* One turn that moves item s on: its response, the retry or the end of it.
Leave(s) ==
  \/ Retry(s) \/ Drop(s)
  \/ /\ s \in InFlight(ring)
     /\ ring' = QItem_Confirm(ring, ring.items[s].cmd.op, ring.items[s].seq)
     /\ UNCHANGED ghosts

\* killCommandQueue
Clear ==
  /\ ring' = Cleared(ring)
  /\ order' = <<>>
  /\ overtaken' = {}
  /\ strayed' = FALSE

Next == \/ Produce \/ AllocateInVain \/ SendNext \/ Response \/ Clear
        \/ \E s \in Slots : Retry(s) \/ Drop(s)

Spec == Init /\ [][Next]_vars

\* Every item in flight is answered, sent again or given up at last, and the
\* task timer sends whenever it can.
FairSpec ==
  /\ Spec
  /\ WF_vars(SendNext)
  /\ \A s \in Slots : SF_vars(Leave(s))

----------------------------------------------------------------------------
TypeOK == ring \in Rings /\ order \in Seq(Slots) /\ overtaken \subseteq Slots /\ strayed \in BOOLEAN

(* The counters are the numbers of items in each state, after any calls.   *)
CountersCount == CountersExact(ring)

(* No two active commands share a sequence number.                         *)
SeqsUnique == SeqsDiffer(ring)

(* No retry lets a third command into flight.                              *)
FewUnconfirmed == ring.waitConfirm <= MaxUnconfirmed

(* Commands are sent in the order they were queued until the ring is so    *)
(* full that the write pointer skips an item, or a retry either is refused *)
(* or finds the send pointer back at its item and moves it.                *)
OrderKept == ~strayed => overtaken = {}

(* Even then no command waits for ever: responses come or are given up,    *)
(* and the next command is sent whenever there is room.                    *)
Served == \A s \in Slots : []<>(s \notin ToSend(ring))
============================================================================
