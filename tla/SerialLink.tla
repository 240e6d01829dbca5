----------------------------- MODULE SerialLink -----------------------------
(***************************************************************************)
(* The serial port of zm_master_com_serial.cpp on Linux: SerialCom in the  *)
(* main thread, PL_Thread0 that polls the port, and what they share: the   *)
(* event bits, the circular receive buffer (under mtx_rx) and the queue of *)
(* frames to send (under mtx_tx).                                          *)
(*                                                                         *)
(* Bytes from the device are numbered in the order they come in, from 1 in *)
(* every connection; FrameEnds are those that end a frame (0xC0).  Frames  *)
(* to send are numbered too; one in Bad has no serialisation, for which    *)
(* command2buffer returns 0.  A step is what runs between two accesses to  *)
(* shared state.                                                           *)
(***************************************************************************)
EXTENDS Integers, Sequences, SequencesExt, FiniteSets, FiniteSetsExt

CONSTANTS RingSize,       \* TH_RX_BUFFER_SIZE
          Chunk,          \* the most the thread reads at once
          BufSize,        \* RX_BUFFER_SIZE
          TxSlots,        \* MAX_SEND_QUEUE_SIZE
          CounterSpace,   \* the values of sendPos and sendEnd, 256 in the code
          MaxBytes,       \* bound: bytes the device sends in one connection
          FrameEnds,      \* the bytes that are frame ends
          Frames,         \* bound: the frames the host sends, 1 .. n
          Bad,            \* those that cannot be serialised
          MaxOpens        \* bound: connections

\* The counters wrap around at a slot 0, and tell a full queue from an empty one.
ASSUME LinkAssumption ==
  /\ RingSize \in Nat \ {0} /\ Chunk \in Nat \ {0} /\ BufSize \in Nat \ {0}
  /\ TxSlots \in Nat \ {0} /\ CounterSpace \in Nat
  /\ TxSlots < CounterSpace /\ CounterSpace % TxSlots = 0

VARIABLES comState, comTimer,          \* comTimer: the single-shot QTimer
          caller,                      \* where the main thread is
          posted,                      \* th0HasEvents calls in Qt's event queue
          th, running, ev,             \* plThread: its thread, running, events
          rxa, rxb, ring, chunk,       \* rx_a, rx_b, rxbuf, the local buf
          rxBuf, got,                  \* rxBuffer, the bytes handed to protocol_receive
          sendPos, sendEnd, sendQueue, \* the TXQ
          prot,                        \* protId is valid
          wire,                        \* the frames written, with their connection
          fd, arrived, hup,            \* bytes in the kernel, bytes so far, unplugged
          overrun,                     \* history: the ring held more than it has room for
          lastFrame, opens             \* bounds: frames sent, connections opened

rxVars   == <<rxa, rxb, ring, chunk, rxBuf, got, overrun>>
txVars   == <<sendPos, sendEnd, sendQueue, wire, lastFrame>>
portVars == <<fd, arrived, hup>>
linkVars == <<comState, comTimer, caller, posted, th, running, ev, prot, opens,
              rxVars, txVars, portVars>>

\* A frame in the TXQ, with the connection it was queued in.
NoFrame == [conn |-> 0, frame |-> 0]

LinkInit ==
  /\ comState = "Off" /\ comTimer = FALSE /\ caller = "idle" /\ posted = 0
  /\ th = "none" /\ running = FALSE /\ ev = {}
  /\ rxa = 0 /\ rxb = 0 /\ ring = [i \in 0 .. RingSize - 1 |-> 0] /\ chunk = <<>>
  /\ rxBuf = <<>> /\ got = <<>> /\ overrun = FALSE
  /\ sendPos = 0 /\ sendEnd = 0 /\ sendQueue = [i \in 0 .. TxSlots - 1 |-> NoFrame]
  /\ prot = FALSE /\ wire = <<>>
  /\ fd = <<>> /\ arrived = 0 /\ hup = FALSE /\ lastFrame = 0 /\ opens = 0

TXQ_IsEmpty == sendPos = sendEnd
TXQ_IsFull  == sendPos # sendEnd /\ sendPos % TxSlots = sendEnd % TxSlots
TXQ_Next(c) == (c + 1) % CounterSpace

----------------------------------------------------------------------------
(* The main thread.                                                        *)

\* SerialCom::open, SerialComPrivate::open, PL_Connect: what an earlier
\* connection left in the buffers is dropped, a thread is created.
Open ==
  /\ caller = "idle" /\ comState = "Off" /\ th = "none" /\ opens < MaxOpens
  /\ opens' = opens + 1
  /\ sendPos' = 0 /\ sendEnd' = 0
  /\ sendQueue' = [i \in DOMAIN sendQueue |-> NoFrame]
  /\ rxBuf' = <<>> /\ rxa' = 0 /\ rxb' = 0 /\ running' = FALSE /\ ev' = {}
  /\ th' = "start" /\ prot' = TRUE /\ comState' = "QueryBootloader" /\ comTimer' = TRUE
  /\ fd' = <<>> /\ arrived' = 0 /\ hup' = FALSE
  /\ got' = <<>> /\ overrun' = FALSE /\ chunk' = <<>>
  /\ UNCHANGED <<caller, posted, ring, wire, lastFrame>>

\* SerialCom::timeout: 500 ms after open ask for the bootloader, a second later
\* the link is up.  A thread is taken to have started in half a second.
Timeout ==
  /\ caller = "idle" /\ comTimer /\ th # "start"
  /\ comState' = CASE comState = "QueryBootloader" -> "WaitBootloader"
              [] comState = "WaitBootloader"  -> "RxTx"
              [] OTHER -> comState
  /\ comTimer' = (comState = "QueryBootloader")
  /\ UNCHANGED <<caller, posted, th, running, ev, prot, opens, rxVars, txVars, portVars>>

\* SerialCom::send up to the end of mtx_tx's scope.  -5, -1 and -2 change nothing.
Send ==
  /\ caller = "idle" /\ th # "none" /\ ~TXQ_IsFull /\ comState = "RxTx"
  /\ lastFrame + 1 \in Frames
  /\ lastFrame' = lastFrame + 1
  /\ sendQueue' = [sendQueue EXCEPT ![sendEnd % TxSlots] = [conn |-> opens, frame |-> lastFrame']]
  /\ sendEnd' = TXQ_Next(sendEnd)
  /\ caller' = IF lastFrame' \in Bad THEN "idle" ELSE "sending"
  /\ UNCHANGED <<comState, comTimer, posted, th, running, ev, prot, opens, rxVars, portVars,
                 sendPos, wire>>
\* The rest of send: the event bit is set after mtx_tx is released.
FlagSend ==
  /\ caller = "sending"
  /\ ev' = ev \cup {"TX"} /\ caller' = "idle"
  /\ UNCHANGED <<comState, comTimer, posted, th, running, prot, opens, rxVars, txVars, portVars>>

\* SerialCom::close from outside (comExit): its first half, down to the first of
\* the two counters; the queue is reset without mtx_tx.
Close ==
  /\ caller = "idle" /\ comState # "Off"
  /\ prot' = FALSE /\ sendEnd' = 0 /\ caller' = "closing"
  /\ UNCHANGED <<comState, comTimer, posted, th, running, ev, opens, rxVars, portVars,
                 sendPos, sendQueue, wire, lastFrame>>

\* The rest of SerialComPrivate::close, to the join in PL_Disconnect.
PL_Disconnect ==
  /\ caller = "closing"
  /\ sendPos' = 0 /\ running' = FALSE /\ caller' = "joining"
  /\ UNCHANGED <<comState, comTimer, posted, th, ev, prot, opens, rxVars, portVars,
                 sendEnd, sendQueue, wire, lastFrame>>

\* The thread has ended: close goes on, SerialCom is Off.  The comTimer still runs.
Joined ==
  /\ caller = "joining" /\ th = "done"
  /\ th' = "none" /\ comState' = "Off" /\ caller' = "idle" /\ fd' = <<>> /\ hup' = FALSE
  /\ UNCHANGED <<comTimer, posted, running, ev, prot, opens, rxVars, txVars, arrived>>

\* SER_ProcessEvents up to the test of the events: nothing without a thread, a
\* failed port is closed, otherwise mtx_rx is taken and TH0 cleared.
ProcessEvents ==
  /\ caller = "idle" /\ posted > 0
  /\ posted' = posted - 1
  /\ \/ th = "none" /\ UNCHANGED <<caller, ev, prot, sendEnd>>
     \/ /\ th # "none" /\ "ERR" \in ev
        /\ ev' = {} /\ prot' = FALSE /\ sendEnd' = 0 /\ caller' = "closing"
     \/ /\ th # "none" /\ "ERR" \notin ev
        /\ ev' = ev \ {"TH0"}
        /\ caller' = (IF "RX" \in ev THEN "reading" ELSE "idle")
        /\ UNCHANGED <<prot, sendEnd>>
  /\ UNCHANGED <<comState, comTimer, th, running, opens, rxVars, portVars,
                 sendPos, sendQueue, wire, lastFrame>>

\* PL_Read: as many bytes as fit into rxBuffer.
ReadCount == Min({rxb - rxa, BufSize - Len(rxBuf)})
\* Mutant: the bytes are taken from the start of the buffer.
ReadBytesAt0 == [i \in 1 .. ReadCount |-> ring[(i - 1) % RingSize]]
ReadBytes == [i \in 1 .. ReadCount |-> ring[(rxa + i - 1) % RingSize]]

\* Mutant: the event is cleared although bytes are left.
ReadyReadOnce ==
  /\ caller = "reading"
  /\ rxa' = rxa + ReadCount
  /\ got' = got \o rxBuf \o ReadBytes /\ rxBuf' = <<>>
  /\ ev' = ev \ {"RX"}
  /\ caller' = "idle"
  /\ UNCHANGED <<comState, comTimer, th, running, prot, opens, txVars, portVars,
                 posted, rxb, ring, chunk, overrun>>
\* The rest of SER_ProcessEvents, under mtx_rx: readyRead, and the event bit is
\* cleared or the main thread calls itself again.  rx() drains rxBuffer.
ReadyRead ==
  /\ caller = "reading"
  /\ LET full == Len(rxBuf) = BufSize
         all  == IF full THEN rxBuf ELSE rxBuf \o ReadBytes
         a    == IF full THEN rxa ELSE rxa + ReadCount
         rx   == full \/ comState \in {"RxTx", "WaitBootloader"}
     IN  /\ rxa' = a
         /\ got' = IF rx THEN got \o all ELSE got
         /\ rxBuf' = IF rx THEN <<>> ELSE all
         /\ ev' = IF a = rxb THEN ev \ {"RX"} ELSE ev \cup {"TH0"}
         /\ posted' = IF a = rxb THEN posted ELSE posted + 1
  /\ caller' = "idle"
  /\ UNCHANGED <<comState, comTimer, th, running, prot, opens, txVars, portVars,
                 rxb, ring, chunk, overrun>>

----------------------------------------------------------------------------
(* PL_Thread0.  mtx_rx is held while the main thread is "reading".         *)

\* The first lines of the thread: it sets running itself, whatever was asked.
ThreadStart ==
  /\ th = "start"
  /\ running' = TRUE /\ rxa' = 0 /\ rxb' = 0 /\ ev' = {} /\ th' = "top"
  /\ UNCHANGED <<comState, comTimer, caller, posted, prot, opens, txVars, portVars,
                 ring, chunk, rxBuf, got, overrun>>

ThreadTop ==
  /\ th = "top"
  /\ th' = IF running THEN "tx" ELSE "done"
  /\ UNCHANGED <<comState, comTimer, caller, posted, running, ev, prot, opens, rxVars, txVars,
                 portVars>>

\* Under mtx_tx: clear the bit if the queue is empty, else SerialComPrivate::tx.
ThreadTx ==
  /\ th = "tx" /\ th' = "poll"
  /\ IF "TX" \notin ev THEN UNCHANGED <<ev, sendPos, wire>>
     ELSE IF TXQ_IsEmpty THEN ev' = ev \ {"TX"} /\ UNCHANGED <<sendPos, wire>>
     ELSE LET f == sendQueue[sendPos % TxSlots]
          IN  /\ sendPos' = TXQ_Next(sendPos)
              /\ wire' = IF prot /\ f # NoFrame /\ f.frame \notin Bad
                          THEN Append(wire, [queued |-> f, conn |-> opens]) ELSE wire
              /\ UNCHANGED ev
  /\ UNCHANGED <<comState, comTimer, caller, posted, running, prot, opens, rxVars, portVars,
                 sendEnd, sendQueue, lastFrame>>

\* How much the thread reads: the loop looks for rx_a in front of rx_b, but the
\* two counters run freely and rx_b is never behind.
MaxRead == IF rxa = rxb THEN Min({RingSize, Chunk})
           ELSE Min({RingSize, Chunk} \cup {n \in 0 .. Chunk : rxb + n + 1 = rxa})

\* poll: a timeout, a hang-up, or bytes that are read into buf outside the mutex.
ThreadPoll ==
  /\ th = "poll"
  /\ \/ /\ hup
        /\ ev' = ev \cup {"ERR"} /\ th' = "signal" /\ UNCHANGED <<chunk, fd>>
     \/ /\ ~hup /\ fd = <<>>
        /\ th' = "signal" /\ UNCHANGED <<ev, chunk, fd>>
     \/ /\ ~hup /\ fd # <<>> /\ caller # "reading"
        /\ \E n \in 1 .. Min({MaxRead, Len(fd)}) :
             chunk' = SubSeq(fd, 1, n) /\ fd' = SubSeq(fd, n + 1, Len(fd))
        /\ th' = "append" /\ UNCHANGED ev
  /\ UNCHANGED <<comState, comTimer, caller, posted, running, prot, opens, txVars,
                 rxa, rxb, ring, rxBuf, got, overrun, arrived, hup>>

\* Under mtx_rx: the bytes go into the ring; a frame end in them, or a ring that
\* is full modulo its size, is an event.
ThreadAppend ==
  /\ th = "append" /\ caller # "reading"
  /\ rxb' = rxb + Len(chunk)
  /\ ring' = [i \in DOMAIN ring |->
                LET at == {j \in 1 .. Len(chunk) : (rxb + j - 1) % RingSize = i}
                IN  IF at = {} THEN ring[i] ELSE chunk[Max(at)]]
  /\ ev' = IF ToSet(chunk) \cap FrameEnds # {} \/ (rxb' + 1) % RingSize = rxa % RingSize
           THEN ev \cup {"RX"} ELSE ev
  /\ overrun' = (overrun \/ rxb' - rxa > RingSize)
  /\ chunk' = <<>> /\ th' = "signal"
  /\ UNCHANGED <<comState, comTimer, caller, posted, running, prot, opens, txVars, portVars,
                 rxa, rxBuf, got>>

\* Tell the main thread, unless it has been told.
ThreadSignal ==
  /\ th = "signal" /\ th' = "top"
  /\ IF "TH0" \notin ev /\ ev \cap {"RX", "ERR"} # {}
     THEN ev' = ev \cup {"TH0"} /\ posted' = posted + 1
     ELSE UNCHANGED <<ev, posted>>
  /\ UNCHANGED <<comState, comTimer, caller, running, prot, opens, rxVars, txVars, portVars>>

----------------------------------------------------------------------------
(* The device.                                                             *)
DeviceSends ==
  /\ th \notin {"none", "done"} /\ ~hup /\ arrived < MaxBytes
  /\ arrived' = arrived + 1 /\ fd' = Append(fd, arrived')
  /\ UNCHANGED <<comState, comTimer, caller, posted, th, running, ev, prot, opens, rxVars, txVars,
                 hup>>

Unplug ==
  /\ th \notin {"none", "done"} /\ ~hup
  /\ hup' = TRUE
  /\ UNCHANGED <<comState, comTimer, caller, posted, th, running, ev, prot, opens, rxVars, txVars,
                 fd, arrived>>

Main   == \/ FlagSend \/ PL_Disconnect \/ Joined \/ ProcessEvents \/ ReadyRead
Thread == \/ ThreadTop \/ ThreadTx \/ ThreadPoll \/ ThreadAppend \/ ThreadSignal
LinkNext   == \/ Open \/ Timeout \/ Send \/ Close \/ Main
          \/ ThreadStart \/ Thread \/ DeviceSends \/ Unplug

LinkSpec == LinkInit /\ [][LinkNext]_linkVars

----------------------------------------------------------------------------
InRing      == [i \in 1 .. rxb - rxa |-> ring[(rxa + i - 1) % RingSize]]
InQueue     == {sendQueue[(sendPos + d) % TxSlots].frame :
                  d \in {n \in 0 .. TxSlots : n < (sendEnd - sendPos) % CounterSpace}}

LinkTypeOK ==
  /\ comState \in {"Off", "QueryBootloader", "WaitBootloader", "RxTx"} /\ comTimer \in BOOLEAN
  /\ caller \in {"idle", "sending", "reading", "closing", "joining"} /\ posted \in Nat
  /\ th \in {"none", "start", "top", "tx", "poll", "append", "signal", "done"}
  /\ running \in BOOLEAN /\ ev \subseteq {"RX", "TX", "ERR", "TH0"}
  /\ rxa \in Nat /\ rxb \in Nat /\ rxa <= rxb /\ Len(rxBuf) <= BufSize
  /\ sendPos \in 0 .. CounterSpace - 1 /\ sendEnd \in 0 .. CounterSpace - 1

(* The bytes a connection received are, in their order and without a gap,  *)
(* those the protocol took, rxBuffer, the circular buffer, the thread's    *)
(* buffer and the kernel - as long as the circular buffer, whose test for  *)
(* room (MaxRead) never finds it full, was not written over itself.        *)
StreamIntact ==
  (comState # "Off" /\ ~overrun) =>
    got \o rxBuf \o InRing \o chunk \o fd = [i \in 1 .. arrived |-> i]

(* Frames go out in the order they were sent, none twice, and none in a    *)
(* later connection than the one it was queued for, although close resets  *)
(* the queue while the thread may be in it.                                *)
FramesInOrder ==
  /\ \A i, j \in DOMAIN wire : i < j => wire[i].queued.frame < wire[j].queued.frame
  /\ \A i \in DOMAIN wire : wire[i].queued.conn = wire[i].conn

(* A frame that waits to be sent has its event bit set, or is about to get *)
(* it: the thread looks into the queue only when it sees the bit.          *)
QueuedIsFlagged ==
  (InQueue \ Bad # {} /\ caller \notin {"sending", "closing", "joining"}) => "TX" \in ev

LinkIntact == LinkTypeOK /\ StreamIntact /\ FramesInOrder /\ QueuedIsFlagged

\* close was called before the thread's first step, which sets running again:
\* the join has no end.
Stuck == caller = "joining" /\ running

(* A frame end in the circular buffer makes the main thread read it, a     *)
(* frame in the queue is written, a failed port is closed, and close comes *)
(* back, whatever the order in which the two threads set and clear the     *)
(* event bits - but for a close that comes before the thread's first step. *)
LinkLive ==
  /\ \A e \in FrameEnds : []<>(comState = "Off" \/ e \notin ToSet(InRing) \/ Stuck)
  /\ \A f \in Frames \ Bad : []<>(f \notin InQueue \/ Stuck)
  /\ []<>(~hup \/ comState = "Off" \/ Stuck)
  /\ []<>(caller # "joining" \/ running \/ th = "start")
=============================================================================
