---------------------------- MODULE DeviceProofs ----------------------------
(***************************************************************************)
(* The connection to the device.  A frame that the line leaves alone       *)
(* arrives, what the port and its thread pass on is neither lost nor       *)
(* doubled nor out of order, and the window is not wrong about a port that *)
(* opens and closes by itself, nor its tree about which entry an answer is *)
(* for, and nobody makes up a value of the network configuration but for   *)
(* the key.                                                                *)
(*                                                                         *)
(* Of the line an invariant says where each frame none of whose bytes was  *)
(* hit begins, in front of the line when its first bytes were read: then   *)
(* the receiver has those bytes in its buffer, however it was left by the  *)
(* bytes before, as the first end empties the buffer and the escape.  When *)
(* all its bytes were read, its command is the i-th one taken.             *)
(*                                                                         *)
(* Of the port an invariant says where each byte and each frame is, from   *)
(* the counters; of the window, what the messages under way will tell it;  *)
(* of the tree, that each message with the tag of a fetcher is about the   *)
(* entry it fetches, as no tag is used again while it is under way; of the *)
(* configuration, that the dialog's fields and the writes under way were   *)
(* chosen, too.                                                            *)
(***************************************************************************)
EXTENDS Framing, SerialLink, AutoConnect, VfsModel, NetConfig, NumberLemmas, TLAPS

----------------------------------------------------------------------------
(* The port: its counters wrap, at CounterSpace for the frames to send.    *)

\* Differences and successors of counters that wrap at C.
LEMMA CounterSteps ==
  ASSUME NEW C \in Nat \ {0}, NEW p \in 0 .. C - 1, NEW e \in 0 .. C - 1
  PROVE  /\ (e - p) % C = IF p <= e THEN e - p ELSE e - p + C
         /\ (p + 1) % C = IF p = C - 1 THEN 0 ELSE p + 1
OBVIOUS

\* A frame is put behind the queue: its end moves on by one slot.
LEMMA Pushed ==
  ASSUME NEW p \in 0 .. CounterSpace - 1, NEW e \in 0 .. CounterSpace - 1,
         (e - p) % CounterSpace < CounterSpace - 1
  PROVE  /\ TXQ_Next(e) \in 0 .. CounterSpace - 1
         /\ (TXQ_Next(e) - p) % CounterSpace = ((e - p) % CounterSpace) + 1
<1>1. CounterSpace \in Nat \ {0}
  BY LinkAssumption
<1>2. TXQ_Next(e) = IF e = CounterSpace - 1 THEN 0 ELSE e + 1
  BY <1>1, CounterSteps DEF TXQ_Next
<1>3. TXQ_Next(e) \in 0 .. CounterSpace - 1
  BY <1>1, <1>2
<1>4. (e - p) % CounterSpace = IF p <= e THEN e - p ELSE e - p + CounterSpace
  BY <1>1, CounterSteps
<1>5. (TXQ_Next(e) - p) % CounterSpace
        = IF p <= TXQ_Next(e) THEN TXQ_Next(e) - p ELSE TXQ_Next(e) - p + CounterSpace
  BY <1>1, <1>3, CounterSteps
<1> QED BY <1>1, <1>2, <1>3, <1>4, <1>5

\* A frame is taken from the front of the queue: its position moves on by one slot.
LEMMA Popped ==
  ASSUME NEW p \in 0 .. CounterSpace - 1, NEW e \in 0 .. CounterSpace - 1, p # e
  PROVE  /\ TXQ_Next(p) \in 0 .. CounterSpace - 1
         /\ (e - p) % CounterSpace \in 1 .. CounterSpace - 1
         /\ (e - TXQ_Next(p)) % CounterSpace = ((e - p) % CounterSpace) - 1
<1>1. CounterSpace \in Nat \ {0}
  BY LinkAssumption
<1>2. TXQ_Next(p) = IF p = CounterSpace - 1 THEN 0 ELSE p + 1
  BY <1>1, CounterSteps DEF TXQ_Next
<1>3. TXQ_Next(p) \in 0 .. CounterSpace - 1
  BY <1>1, <1>2
<1>4. (e - p) % CounterSpace = IF p <= e THEN e - p ELSE e - p + CounterSpace
  BY <1>1, CounterSteps
<1>5. (e - TXQ_Next(p)) % CounterSpace
        = IF TXQ_Next(p) <= e THEN e - TXQ_Next(p) ELSE e - TXQ_Next(p) + CounterSpace
  BY <1>1, <1>3, CounterSteps
<1> QED BY <1>1, <1>2, <1>3, <1>4, <1>5

\* The slot of a counter is found from the position on, for the counters wrap at a slot.
LEMMA SlotOf ==
  ASSUME NEW p \in 0 .. CounterSpace - 1, NEW e \in 0 .. CounterSpace - 1
  PROVE  /\ e % TxSlots = (p + ((e - p) % CounterSpace)) % TxSlots
         /\ e % TxSlots \in 0 .. TxSlots - 1
         /\ \A d \in Nat : (TXQ_Next(p) + d) % TxSlots = (p + 1 + d) % TxSlots
<1>1. CounterSpace \in Nat \ {0} /\ TxSlots \in Nat \ {0} /\ CounterSpace % TxSlots = 0
  BY LinkAssumption
<1>2. (e - p) % CounterSpace = IF p <= e THEN e - p ELSE e - p + CounterSpace
  BY <1>1, CounterSteps
<1>0. CounterSpace \in Int /\ e \in Int
  BY <1>1
<1>3. e % TxSlots = (p + ((e - p) % CounterSpace)) % TxSlots
  <2>1. CASE p <= e
    <3>1. p + ((e - p) % CounterSpace) = e
      BY <1>1, <1>2, <2>1
    <3> QED BY <3>1
  <2>2. CASE ~ (p <= e)
    <3>1. p + ((e - p) % CounterSpace) = e + CounterSpace
      BY <1>1, <1>2, <2>2
    <3>2. (e + CounterSpace) % TxSlots = e % TxSlots
      BY <1>1, <1>0, RestAround, Zenon
    <3> QED BY <3>1, <3>2
  <2> QED BY <2>1, <2>2
<1>4. e % TxSlots \in 0 .. TxSlots - 1
  BY <1>1
<1>5. ASSUME NEW d \in Nat PROVE (TXQ_Next(p) + d) % TxSlots = (p + 1 + d) % TxSlots
  <2>0. CounterSpace \in Int /\ d \in Int
    BY <1>1
  <2>1. TXQ_Next(p) = IF p = CounterSpace - 1 THEN 0 ELSE p + 1
    BY <1>1, CounterSteps DEF TXQ_Next
  <2>2. CASE p = CounterSpace - 1
    <3>1. TXQ_Next(p) + d = d /\ p + 1 + d = d + CounterSpace
      BY <1>1, <2>1, <2>2
    <3>2. (d + CounterSpace) % TxSlots = d % TxSlots
      BY <1>1, <2>0, RestAround, Zenon
    <3> QED BY <3>1, <3>2
  <2>3. CASE p # CounterSpace - 1
    <3>1. TXQ_Next(p) + d = p + 1 + d
      BY <1>1, <2>1, <2>3
    <3> QED BY <3>1
  <2> QED BY <2>2, <2>3
<1> QED BY <1>3, <1>4, <1>5

\* Where PROT_SendFlagged finds the next slot free, the queue is not full.
LEMMA Room ==
  ASSUME NEW p \in 0 .. CounterSpace - 1, NEW e \in 0 .. CounterSpace - 1,
         (e - p) % CounterSpace <= TxSlots, ~ (p # e /\ p % TxSlots = e % TxSlots)
  PROVE  (e - p) % CounterSpace < TxSlots
<1>1. /\ CounterSpace \in Nat \ {0} /\ TxSlots \in Nat \ {0} /\ CounterSpace % TxSlots = 0
      /\ TxSlots < CounterSpace
  BY LinkAssumption
<1>2. (e - p) % CounterSpace = IF p <= e THEN e - p ELSE e - p + CounterSpace
  BY <1>1, CounterSteps
<1> SUFFICES ASSUME (e - p) % CounterSpace = TxSlots PROVE FALSE
  BY <1>1, <1>2
<1>3. p # e
  BY <1>1, <1>2
<1>4. e % TxSlots = (p + TxSlots) % TxSlots
  BY SlotOf
<1>0. CounterSpace \in Int /\ p \in Int
  BY <1>1
<1>5. (p + TxSlots) % TxSlots = p % TxSlots
  BY <1>0, <1>1, RestAround, Zenon
<1> QED BY <1>3, <1>4, <1>5

----------------------------------------------------------------------------
\* The frames that wait in the queue.
Pending == (sendEnd - sendPos) % CounterSpace

\* Where the main thread, the I/O thread and the connection can be at once.
Roles ==
  /\ comState = "Off" <=> th = "none"
  /\ comState = "Off" => caller = "idle"
  /\ prot <=> comState # "Off" /\ caller \in {"idle", "sending", "reading"}
  /\ caller = "closing" => sendEnd = 0
  /\ ~prot /\ caller # "closing" => sendPos = sendEnd
  /\ th = "start" => /\ ev = {} /\ rxa = 0 /\ rxb = 0 /\ comState = "QueryBootloader"
                     /\ caller \notin {"sending", "reading"} /\ (prot => sendPos = sendEnd)
  /\ th # "append" => chunk = <<>>

\* The byte k of a connection is where the counters say: rxa bytes are read, rxb received.
Bytes ==
  comState # "Off" =>
    /\ rxa = Len(got) + Len(rxBuf)
    /\ arrived = rxb + Len(chunk) + Len(fd)
    /\ \A i \in 1 .. Len(chunk) : chunk[i] = rxb + i
    /\ \A i \in 1 .. Len(fd) : fd[i] = rxb + Len(chunk) + i
    /\ ~overrun => /\ rxb - rxa <= RingSize
                   /\ \A k \in rxa .. rxb - 1 : ring[k % RingSize] = k + 1
                   /\ \A i \in 1 .. Len(got) : got[i] = i
                   /\ \A i \in 1 .. Len(rxBuf) : rxBuf[i] = Len(got) + i

\* The queue holds the last frames sent, those before it are out or were dropped.
Queued ==
  /\ prot => /\ Pending <= TxSlots /\ Pending <= lastFrame
             /\ \A d \in 0 .. Pending - 1 :
                  sendQueue[(sendPos + d) % TxSlots]
                    = [conn |-> opens, frame |-> lastFrame - Pending + 1 + d]
  /\ \A i \in DOMAIN wire :
       /\ wire[i].queued.frame <= (IF prot THEN lastFrame - Pending ELSE lastFrame)
       /\ wire[i].queued.conn = wire[i].conn

Slot == [conn : Nat, frame : Nat]
\* What the variables hold, the sequences and the ring included.
LinkTypes ==
  /\ LinkTypeOK
  /\ got \in Seq(Int) /\ rxBuf \in Seq(Int) /\ chunk \in Seq(Int) /\ fd \in Seq(Int)
  /\ ring \in [0 .. RingSize - 1 -> Int]
  /\ sendQueue \in [0 .. TxSlots - 1 -> Slot] /\ wire \in Seq([queued : Slot, conn : Nat])
  /\ prot \in BOOLEAN /\ hup \in BOOLEAN /\ overrun \in BOOLEAN
  /\ arrived \in Nat /\ lastFrame \in Nat /\ opens \in Nat

\* The inductive invariant.
LInv == LinkTypes /\ Roles /\ Bytes /\ Queued /\ FramesInOrder /\ QueuedIsFlagged

----------------------------------------------------------------------------
\* What the main thread reads: the bytes that fit, from the oldest on.
LEMMA ReadOK ==
  ASSUME LinkTypes
  PROVE  /\ ReadCount \in Nat /\ ReadCount <= rxb - rxa /\ ReadCount <= BufSize - Len(rxBuf)
         /\ ReadBytes \in Seq(Int) /\ Len(ReadBytes) = ReadCount
         /\ \A i \in 1 .. ReadCount : ReadBytes[i] = ring[(rxa + i - 1) % RingSize]
<1>1. /\ rxb - rxa \in Nat /\ BufSize - Len(rxBuf) \in Nat /\ rxa \in Nat
      /\ RingSize \in Nat \ {0} /\ ring \in [0 .. RingSize - 1 -> Int]
  BY LinkAssumption DEF LinkTypes, LinkTypeOK
<1>2. /\ ReadCount \in Nat /\ ReadCount <= rxb - rxa /\ ReadCount <= BufSize - Len(rxBuf)
  BY <1>1, MinOfTwo DEF ReadCount
<1>3. \A i \in 1 .. ReadCount : ring[(rxa + i - 1) % RingSize] \in Int
  <2>1. ASSUME NEW i \in 1 .. ReadCount PROVE (rxa + i - 1) % RingSize \in 0 .. RingSize - 1
    <3>1. rxa + i - 1 \in Int
      BY <1>1, <1>2
    <3> QED BY <1>1, <3>1, DivMod, Zenon
  <2> QED BY <1>1, <2>1
<1>4. ReadBytes \in [1 .. ReadCount -> Int]
  BY <1>3 DEF ReadBytes
<1>5. ReadBytes \in Seq(Int) /\ Len(ReadBytes) = ReadCount
  BY <1>2, <1>4, FcnIsSeq
<1> QED BY <1>2, <1>5 DEF ReadBytes

\* The thread's test for room finds all of the ring, whatever is in it.
LEMMA RoomOK ==
  ASSUME LinkTypes
  PROVE  MaxRead \in Int /\ MaxRead = Min({RingSize, Chunk})
<1>1. rxa \in Nat /\ rxb \in Nat /\ rxa <= rxb /\ RingSize \in Int /\ Chunk \in Int
  BY LinkAssumption DEF LinkTypes, LinkTypeOK
<1>2. {n \in 0 .. Chunk : rxb + n + 1 = rxa} = {}
  BY <1>1
<1>3. MaxRead = Min({RingSize, Chunk})
  BY <1>2 DEF MaxRead
<1> QED BY <1>1, <1>3, MinOfTwo

\* Each step keeps the types.
LEMMA TypesOK ==
  ASSUME LInv, LinkNext
  PROVE  LinkTypes'
<1> USE DEF LinkTypes, LinkTypeOK
<1>0. /\ RingSize \in Nat \ {0} /\ TxSlots \in Nat \ {0} /\ CounterSpace \in Nat \ {0}
      /\ LinkTypes /\ BufSize \in Nat
  BY LinkAssumption DEF LInv
<1>01. [conn |-> 0, frame |-> 0] \in Slot /\ \A c \in Int : TXQ_Next(c) \in 0 .. CounterSpace - 1
  BY <1>0 DEF Slot, TXQ_Next
<1>02. 0 \in 0 .. CounterSpace - 1 /\ 0 \in Nat /\ <<>> \in Seq(Int) /\ Len(<<>>) = 0
  BY <1>0
<1>03. ev \subseteq {"RX", "TX", "ERR", "TH0"} /\ posted \in Nat
  BY <1>0
<1>1. CASE Open
  <2>1. sendQueue' \in [0 .. TxSlots - 1 -> Slot]
    BY <1>0, <1>01, <1>1 DEF Open, NoFrame
  <2>2. /\ rxBuf' = <<>> /\ got' = <<>> /\ chunk' = <<>> /\ fd' = <<>> /\ rxa' = 0 /\ rxb' = 0
        /\ sendPos' = 0 /\ sendEnd' = 0 /\ arrived' = 0 /\ opens' = opens + 1
    BY <1>1 DEF Open
  <2>3. /\ comState' = "QueryBootloader" /\ comTimer' = TRUE /\ th' = "start" /\ ev' = {}
        /\ prot' = TRUE /\ hup' = FALSE /\ overrun' = FALSE /\ running' = FALSE
        /\ UNCHANGED <<caller, posted, ring, wire, lastFrame>>
    BY <1>1 DEF Open
  <2>4. LinkTypeOK'
    <3>1. Len(rxBuf') <= BufSize /\ ev' \subseteq {"RX", "TX", "ERR", "TH0"}
      BY <1>0, <1>02, <2>2, <2>3
    <3>2. caller' \in {"idle", "sending", "reading", "closing", "joining"} /\ posted' \in Nat
      BY <1>0, <2>3
    <3>3. rxa' \in Nat /\ rxb' \in Nat /\ rxa' <= rxb'
      BY <2>2
    <3>4. sendPos' \in 0 .. CounterSpace - 1 /\ sendEnd' \in 0 .. CounterSpace - 1
      BY <1>02, <2>2
    <3> QED BY <2>3, <3>1, <3>2, <3>3, <3>4
  <2>5. opens' \in Nat /\ arrived' \in Nat /\ lastFrame' \in Nat
    BY <1>0, <2>2, <2>3
  <2> QED BY <1>0, <1>02, <2>1, <2>2, <2>3, <2>4, <2>5
<1>2. CASE Timeout
  BY <1>0, <1>2 DEF Timeout, txVars, rxVars, portVars
<1>3. CASE Send
  <2>1. [conn |-> opens, frame |-> lastFrame'] \in Slot /\ lastFrame' \in Nat
    BY <1>0, <1>3 DEF Send, Slot
  <2>2. sendEnd' \in 0 .. CounterSpace - 1
    BY <1>0, <1>01, <1>3 DEF Send
  <2>3. sendQueue' \in [0 .. TxSlots - 1 -> Slot]
    BY <1>0, <2>1, <1>3 DEF Send
  <2> QED BY <1>0, <1>3, <2>1, <2>2, <2>3 DEF Send, rxVars, portVars
<1>4. CASE Close
  BY <1>0, <1>02, <1>4 DEF Close, rxVars, portVars
<1>5. CASE FlagSend
  BY <1>0, <1>5 DEF FlagSend, txVars, rxVars, portVars
<1>6. CASE PL_Disconnect
  BY <1>0, <1>02, <1>6 DEF PL_Disconnect, rxVars, portVars
<1>7. CASE Joined
  BY <1>0, <1>02, <1>7 DEF Joined, txVars, rxVars
<1>8. CASE ProcessEvents
  <2>1. ev' \subseteq {"RX", "TX", "ERR", "TH0"} /\ posted' \in Nat
    <3>1. ev' = ev \/ ev' = {} \/ ev' = ev \ {"TH0"}
      BY <1>8 DEF ProcessEvents
    <3>2. posted > 0 /\ posted' = posted - 1
      BY <1>8 DEF ProcessEvents
    <3>3. ev' \subseteq {"RX", "TX", "ERR", "TH0"}
      BY <1>03, <3>1, Zenon
    <3> QED BY <1>03, <3>2, <3>3
  <2>2. prot' \in BOOLEAN /\ sendEnd' \in 0 .. CounterSpace - 1
    BY <1>0, <1>02, <1>8 DEF ProcessEvents
  <2>3. caller' \in {"idle", "sending", "reading", "closing", "joining"}
    BY <1>0, <1>8 DEF ProcessEvents
  <2> QED BY <1>0, <1>8, <2>1, <2>2, <2>3 DEF ProcessEvents, rxVars, portVars
<1>9. CASE ReadyRead
  <2>1. /\ got \o rxBuf \in Seq(Int) /\ rxBuf \o ReadBytes \in Seq(Int)
        /\ got \o (rxBuf \o ReadBytes) \in Seq(Int)
        /\ Len(rxBuf \o ReadBytes) <= BufSize
    BY <1>0, ReadOK
  <2>2. rxa' \in Nat /\ rxa' <= rxb
    <3>1. rxa' = rxa \/ rxa' = rxa + ReadCount
      BY <1>9 DEF ReadyRead
    <3>2. ReadCount \in Nat /\ ReadCount <= rxb - rxa
      BY <1>0, ReadOK, Zenon
    <3>3. rxa \in Nat /\ rxb \in Nat /\ rxa <= rxb
      BY <1>0
    <3> QED BY <3>1, <3>2, <3>3
  <2>3. got' \in Seq(Int) /\ rxBuf' \in Seq(Int) /\ Len(rxBuf') <= BufSize
    BY <1>0, <1>9, <2>1 DEF ReadyRead
  <2>4. ev' \subseteq {"RX", "TX", "ERR", "TH0"} /\ posted' \in Nat /\ caller' = "idle"
    BY <1>0, <1>9 DEF ReadyRead
  <2> QED BY <1>0, <1>9, <2>2, <2>3, <2>4 DEF ReadyRead, txVars, portVars
<1>10. CASE ThreadStart
  BY <1>0, <1>10 DEF ThreadStart, txVars, portVars
<1>11. CASE ThreadTop
  BY <1>0, <1>11 DEF ThreadTop, txVars, rxVars, portVars
<1>12. CASE ThreadTx
  <2>1. sendQueue[sendPos % TxSlots] \in Slot
    <3>1. sendPos % TxSlots \in 0 .. TxSlots - 1
      BY <1>0, DivMod
    <3> QED BY <1>0, <3>1
  <2>2. [queued |-> sendQueue[sendPos % TxSlots], conn |-> opens] \in [queued : Slot, conn : Nat]
    BY <2>1, <1>0
  <2>3. wire' \in Seq([queued : Slot, conn : Nat])
    <3>1. \/ wire' = wire
          \/ wire' = Append(wire, [queued |-> sendQueue[sendPos % TxSlots], conn |-> opens])
      BY <1>12 DEF ThreadTx
    <3> DEFINE R == [queued : Slot, conn : Nat]
    <3>2. wire \in Seq(R) /\ [queued |-> sendQueue[sendPos % TxSlots], conn |-> opens] \in R
      BY <1>0, <2>2
    <3> HIDE DEF R
    <3>3. wire' \in Seq(R)
      BY <3>1, <3>2
    <3> QED BY <3>3 DEF R
  <2>4. sendPos' \in 0 .. CounterSpace - 1 /\ ev' \subseteq ev
    <3>1. sendPos' = sendPos \/ sendPos' = TXQ_Next(sendPos)
      BY <1>12 DEF ThreadTx
    <3>2. ev' = ev \/ ev' = ev \ {"TX"}
      BY <1>12 DEF ThreadTx
    <3>3. sendPos \in Int
      BY <1>0
    <3> QED BY <1>0, <1>01, <3>1, <3>2, <3>3
  <2> QED BY <1>0, <1>12, <2>3, <2>4 DEF ThreadTx, rxVars, portVars
<1>13. CASE ThreadPoll
  <2>1. chunk' \in Seq(Int) /\ fd' \in Seq(Int)
    <3>1. CASE chunk' = chunk /\ fd' = fd
      BY <1>0, <3>1
    <3>2. ASSUME NEW n \in 1 .. Min({MaxRead, Len(fd)}),
                 chunk' = SubSeq(fd, 1, n), fd' = SubSeq(fd, n + 1, Len(fd))
          PROVE chunk' \in Seq(Int) /\ fd' \in Seq(Int)
      <4>1. Len(fd) \in Nat /\ fd \in Seq(Int)
        BY <1>0
      <4>2. MaxRead \in Int
        BY <1>0, RoomOK
      <4>3. n \in 1 .. Len(fd)
        BY <4>1, <4>2, MinOfTwo
      <4> QED BY <3>2, <4>1, <4>3
    <3> QED BY <1>13, <3>1, <3>2 DEF ThreadPoll
  <2> QED BY <1>0, <1>13, <2>1 DEF ThreadPoll, txVars
<1>14. CASE ThreadAppend
  <2>1. rxb' \in Nat /\ rxa <= rxb' /\ overrun' \in BOOLEAN
    <3>1. rxb' \in Nat /\ rxa <= rxb'
      <4>1. rxb' = rxb + Len(chunk) /\ Len(chunk) \in Nat
        BY <1>0, <1>14 DEF ThreadAppend
      <4> QED BY <1>0, <4>1
    <3>2. (overrun \/ rxb' - rxa > RingSize) \in BOOLEAN
      BY Zenon
    <3> QED BY <1>14, <3>1, <3>2 DEF ThreadAppend
  <2>2. ring' \in [0 .. RingSize - 1 -> Int]
    <3> DEFINE at(i) == {j \in 1 .. Len(chunk) : (rxb + j - 1) % RingSize = i}
    <3>1. ASSUME NEW i \in 0 .. RingSize - 1
          PROVE  (IF at(i) = {} THEN ring[i] ELSE chunk[Max(at(i))]) \in Int
      <4>1. CASE at(i) # {}
        <5>1. at(i) \in SUBSET (1 .. Len(chunk)) /\ Len(chunk) \in Nat
          BY <1>0
        <5>2. Max(at(i)) \in 1 .. Len(chunk)
          BY <4>1, <5>1, MaxIsIn
        <5> QED BY <1>0, <5>2
      <4> QED BY <1>0, <4>1
    <3>2. ring' = [i \in DOMAIN ring |-> IF at(i) = {} THEN ring[i] ELSE chunk[Max(at(i))]]
      BY <1>14 DEF ThreadAppend
    <3>3. DOMAIN ring = 0 .. RingSize - 1
      BY <1>0
    <3> HIDE DEF at
    <3> QED BY <3>1, <3>2, <3>3
  <2>3. ev' \subseteq {"RX", "TX", "ERR", "TH0"}
    BY <1>0, <1>14 DEF ThreadAppend
  <2>4. th' = "signal" /\ chunk' \in Seq(Int)
    BY <1>02, <1>14 DEF ThreadAppend
  <2>5. UNCHANGED <<comState, comTimer, caller, posted, running, prot, opens, txVars, portVars,
                    rxa, rxBuf, got>>
    BY <1>14 DEF ThreadAppend
  <2> QED BY <1>0, <2>1, <2>2, <2>3, <2>4, <2>5 DEF txVars, portVars
<1>15. CASE ThreadSignal
  <2>1. ev' = ev \/ ev' = ev \cup {"TH0"}
    BY <1>15 DEF ThreadSignal
  <2>2. posted' = posted \/ posted' = posted + 1
    BY <1>15 DEF ThreadSignal
  <2>3. th' = "top"
    BY <1>15 DEF ThreadSignal
  <2>4. ev' \subseteq {"RX", "TX", "ERR", "TH0"}
    BY <1>03, <2>1
  <2>5. UNCHANGED <<comState, comTimer, caller, running, prot, opens, rxVars, txVars, portVars>>
    BY <1>15 DEF ThreadSignal
  <2> QED BY <1>0, <1>03, <2>2, <2>3, <2>4, <2>5 DEF txVars, rxVars, portVars
<1>16. CASE DeviceSends
  BY <1>0, <1>16 DEF DeviceSends, txVars, rxVars
<1>17. CASE Unplug
  BY <1>0, <1>17 DEF Unplug, txVars, rxVars
<1> QED BY <1>1, <1>2, <1>3, <1>4, <1>5, <1>6, <1>7, <1>8, <1>9, <1>10, <1>11, <1>12, <1>13,
           <1>14, <1>15, <1>16, <1>17 DEF LinkNext, Main, Thread

\* Each step leaves the two threads and the connection in roles that go together.
LEMMA RolesOK ==
  ASSUME LInv, LinkNext
  PROVE  Roles'
<1>0. LinkTypes /\ Roles
  BY DEF LInv
<1> USE DEF Roles, LinkTypes, LinkTypeOK
<1>1. CASE Open
  BY <1>0, <1>1 DEF Open, txVars, rxVars, portVars, NoFrame
<1>2. CASE Timeout
  BY <1>0, <1>2 DEF Timeout, txVars, rxVars, portVars
<1>3. CASE Send
  BY <1>0, <1>3 DEF Send, rxVars, portVars
<1>4. CASE Close
  BY <1>0, <1>4 DEF Close, rxVars, portVars
<1>5. CASE FlagSend
  BY <1>0, <1>5 DEF FlagSend, txVars, rxVars, portVars
<1>6. CASE PL_Disconnect
  BY <1>0, <1>6 DEF PL_Disconnect, rxVars, portVars
<1>7. CASE Joined
  BY <1>0, <1>7 DEF Joined, txVars, rxVars
<1>8. CASE ProcessEvents
  <2>0. UNCHANGED <<comState, th, chunk, rxa, rxb, sendPos>> /\ caller = "idle"
    BY <1>8 DEF ProcessEvents, rxVars
  <2>1. CASE th = "none" /\ UNCHANGED <<caller, ev, prot, sendEnd>>
    BY <1>0, <2>0, <2>1
  <2>2. CASE th # "none" /\ prot' = FALSE /\ sendEnd' = 0 /\ caller' = "closing" /\ ev' = {}
    BY <1>0, <2>0, <2>2
  <2>3. CASE /\ th # "none" /\ ev' = ev \ {"TH0"} /\ UNCHANGED <<prot, sendEnd>>
             /\ caller' = (IF "RX" \in ev THEN "reading" ELSE "idle")
    <3>1. th = "start" => ev' = {} /\ caller' = "idle"
      BY <1>0, <2>3
    <3>2. caller' \in {"reading", "idle"}
      BY <2>3
    <3> QED BY <1>0, <2>0, <2>3, <3>1, <3>2
  <2> QED BY <1>8, <2>1, <2>2, <2>3 DEF ProcessEvents
<1>9. CASE ReadyRead
  BY <1>0, <1>9 DEF ReadyRead, txVars, portVars
<1>10. CASE ThreadStart
  BY <1>0, <1>10 DEF ThreadStart, txVars, portVars
<1>11. CASE ThreadTop
  BY <1>0, <1>11 DEF ThreadTop, txVars, rxVars, portVars
<1>12. CASE ThreadTx
  BY <1>0, <1>12 DEF ThreadTx, rxVars, portVars, TXQ_IsEmpty
<1>13. CASE ThreadPoll
  BY <1>0, <1>13 DEF ThreadPoll, txVars
<1>14. CASE ThreadAppend
  BY <1>0, <1>14 DEF ThreadAppend, txVars, portVars
<1>15. CASE ThreadSignal
  BY <1>0, <1>15 DEF ThreadSignal, txVars, rxVars, portVars
<1>16. CASE DeviceSends
  BY <1>0, <1>16 DEF DeviceSends, txVars, rxVars
<1>17. CASE Unplug
  BY <1>0, <1>17 DEF Unplug, txVars, rxVars
<1> QED BY <1>1, <1>2, <1>3, <1>4, <1>5, <1>6, <1>7, <1>8, <1>9, <1>10, <1>11, <1>12, <1>13,
           <1>14, <1>15, <1>16, <1>17 DEF LinkNext, Main, Thread

----------------------------------------------------------------------------
(* The bytes.                                                              *)
LEMMA BytesSame ==
  ASSUME Bytes, UNCHANGED <<rxVars, fd, arrived>>, comState = "Off" => comState' = "Off"
  PROVE  Bytes'
BY DEF Bytes, rxVars

\* Each step keeps the bytes where the counters say: none lost, doubled or exchanged.
LEMMA BytesOK ==
  ASSUME LInv, LinkNext
  PROVE  Bytes'
<1>0. LinkTypes /\ Roles /\ Bytes
  BY DEF LInv
<1>1. CASE Open
  <2>1. /\ rxa' = 0 /\ rxb' = 0 /\ got' = <<>> /\ rxBuf' = <<>> /\ chunk' = <<>> /\ fd' = <<>>
        /\ arrived' = 0
    BY <1>1 DEF Open
  <2>2. Len(<<>>) = 0 /\ RingSize >= 0 /\ 0 - 0 = 0 /\ 0 .. 0 - 1 = {} /\ 1 .. 0 = {}
    BY LinkAssumption
  <2> QED BY <2>1, <2>2 DEF Bytes
<1>2. CASE Timeout
  <2>1. UNCHANGED <<rxVars, fd, arrived>> /\ (comState = "Off" => comState' = "Off")
    BY <1>2 DEF Timeout, portVars
  <2> QED BY <1>0, <2>1, BytesSame
<1>3. CASE Send
  <2>1. UNCHANGED <<rxVars, fd, arrived>> /\ (comState = "Off" => comState' = "Off")
    BY <1>3 DEF Send, portVars
  <2> QED BY <1>0, <2>1, BytesSame
<1>4. CASE Close
  <2>1. UNCHANGED <<rxVars, fd, arrived>> /\ (comState = "Off" => comState' = "Off")
    BY <1>4 DEF Close, portVars
  <2> QED BY <1>0, <2>1, BytesSame
<1>5. CASE FlagSend
  <2>1. UNCHANGED <<rxVars, fd, arrived>> /\ (comState = "Off" => comState' = "Off")
    BY <1>5 DEF FlagSend, portVars
  <2> QED BY <1>0, <2>1, BytesSame
<1>6. CASE PL_Disconnect
  <2>1. UNCHANGED <<rxVars, fd, arrived>> /\ (comState = "Off" => comState' = "Off")
    BY <1>6 DEF PL_Disconnect, portVars
  <2> QED BY <1>0, <2>1, BytesSame
<1>7. CASE Joined
  BY <1>7 DEF Joined, Bytes
<1>8. CASE ProcessEvents
  <2>1. UNCHANGED <<rxVars, fd, arrived>> /\ (comState = "Off" => comState' = "Off")
    BY <1>8 DEF ProcessEvents, portVars
  <2> QED BY <1>0, <2>1, BytesSame
<1>9. CASE ReadyRead
  <2> SUFFICES ASSUME comState # "Off"
               PROVE  Bytes'
    BY <1>9 DEF ReadyRead, Bytes
  <2> DEFINE full == Len(rxBuf) = BufSize
             all  == IF full THEN rxBuf ELSE rxBuf \o ReadBytes
  <2>0. /\ rxa \in Nat /\ rxb \in Nat /\ rxa <= rxb /\ Len(got) \in Nat /\ Len(rxBuf) \in Nat
        /\ got \in Seq(Int) /\ rxBuf \in Seq(Int) /\ ReadBytes \in Seq(Int)
        /\ ReadCount \in Nat /\ ReadCount <= rxb - rxa /\ Len(ReadBytes) = ReadCount
        /\ \A i \in 1 .. ReadCount : ReadBytes[i] = ring[(rxa + i - 1) % RingSize]
        /\ rxa = Len(got) + Len(rxBuf)
    BY <1>0, ReadOK DEF Bytes, LinkTypes, LinkTypeOK
  <2>1. /\ rxa' = (IF full THEN rxa ELSE rxa + ReadCount)
        /\ (got' = got \o all /\ rxBuf' = <<>>) \/ (got' = got /\ rxBuf' = all)
        /\ UNCHANGED <<rxb, ring, chunk, overrun, fd, arrived, comState>>
    BY <1>9 DEF ReadyRead, portVars
  <2>2. /\ all \in Seq(Int) /\ rxa' = Len(got) + Len(all) /\ rxa <= rxa' /\ rxa' <= rxb
        /\ rxa' \in Nat
    <3>1. CASE full
      <4>1. all = rxBuf /\ rxa' = rxa
        BY <2>1, <3>1
      <4> HIDE DEF all, full
      <4> QED BY <2>0, <4>1
    <3>2. CASE ~full
      <4>0. rxa' = rxa + ReadCount
        BY <2>1, <3>2
      <4>1. all = rxBuf \o ReadBytes
        BY <3>2
      <4> HIDE DEF all, full
      <4>2. all \in Seq(Int) /\ Len(all) = Len(rxBuf) + ReadCount
        <5>1. rxBuf \in Seq(Int) /\ ReadBytes \in Seq(Int) /\ Len(ReadBytes) = ReadCount
          BY <2>0
        <5>2. rxBuf \o ReadBytes \in Seq(Int) /\ Len(rxBuf \o ReadBytes) = Len(rxBuf) + Len(ReadBytes)
          BY <5>1, ConcatProperties
        <5> QED BY <4>1, <5>1, <5>2
      <4> QED BY <2>0, <4>0, <4>2
    <3> QED BY <3>1, <3>2
  <2>3. ~overrun => \A i \in 1 .. Len(all) : all[i] = Len(got) + i
    <3> SUFFICES ASSUME ~overrun, ~full, NEW i \in 1 .. Len(all)
                 PROVE  all[i] = Len(got) + i
      BY <1>0 DEF Bytes
    <3>0. all = rxBuf \o ReadBytes
      OBVIOUS
    <3> HIDE DEF all, full
    <3>01. Len(all) = Len(rxBuf) + ReadCount
      <4>1. rxBuf \in Seq(Int) /\ ReadBytes \in Seq(Int) /\ Len(ReadBytes) = ReadCount
        BY <2>0
      <4>2. Len(rxBuf \o ReadBytes) = Len(rxBuf) + Len(ReadBytes)
        BY <4>1
      <4> QED BY <3>0, <4>1, <4>2
    <3>02. i \in Nat /\ 1 <= i /\ i <= Len(rxBuf) + ReadCount
      BY <2>0, <3>01
    <3>03. all[i] = IF i <= Len(rxBuf) THEN rxBuf[i] ELSE ReadBytes[i - Len(rxBuf)]
      BY <2>0, <3>0, <3>02
    <3>1. /\ Len(all) = Len(rxBuf) + ReadCount /\ i \in Nat /\ 1 <= i /\ i <= Len(all)
          /\ all[i] = IF i <= Len(rxBuf) THEN rxBuf[i] ELSE ReadBytes[i - Len(rxBuf)]
      BY <3>01, <3>02, <3>03
    <3>2. CASE i <= Len(rxBuf)
      BY <1>0, <3>1, <3>2 DEF Bytes
    <3>3. CASE ~ (i <= Len(rxBuf))
      <4> DEFINE j == i - Len(rxBuf)
      <4>1. j \in 1 .. ReadCount /\ rxa + j - 1 \in rxa .. rxb - 1
        BY <2>0, <3>1, <3>3
      <4>2. all[i] = ring[(rxa + j - 1) % RingSize]
        BY <2>0, <3>1, <3>3, <4>1
      <4>3. ring[(rxa + j - 1) % RingSize] = (rxa + j - 1) + 1
        BY <1>0, <4>1 DEF Bytes
      <4> QED BY <2>0, <3>1, <4>1, <4>2, <4>3
    <3> QED BY <3>2, <3>3
  <2> HIDE DEF all, full
  <2>4. rxa' = Len(got') + Len(rxBuf')
    <3>1. Len(<<>>) = 0
      OBVIOUS
    <3>2. CASE got' = got \o all /\ rxBuf' = <<>>
      <4>1. Len(got \o all) = Len(got) + Len(all) /\ Len(all) \in Nat
        BY <2>0, <2>2
      <4> QED BY <2>0, <2>2, <3>1, <3>2, <4>1
    <3> QED BY <2>1, <2>2, <3>2
  <2>5. ASSUME ~overrun PROVE \A i \in 1 .. Len(got') : got'[i] = i
    <3>1. \A i \in 1 .. Len(got) : got[i] = i
      BY <1>0, <2>5 DEF Bytes
    <3>2. CASE got' = got
      BY <3>1, <3>2
    <3>3. CASE got' = got \o all
      <4> SUFFICES ASSUME NEW i \in 1 .. Len(got') PROVE got'[i] = i
        OBVIOUS
      <4>1. /\ Len(got') = Len(got) + Len(all) /\ Len(got) \in Nat /\ Len(all) \in Nat
            /\ got'[i] = IF i <= Len(got) THEN got[i] ELSE all[i - Len(got)]
        BY <1>0, <2>2, <3>3 DEF LinkTypes
      <4>2. CASE i <= Len(got)
        BY <3>1, <4>1, <4>2
      <4>3. CASE ~ (i <= Len(got))
        <5>1. i - Len(got) \in 1 .. Len(all)
          BY <4>1, <4>3
        <5>2. all[i - Len(got)] = Len(got) + (i - Len(got))
          BY <2>3, <2>5, <5>1
        <5> QED BY <4>1, <4>3, <5>2
      <4> QED BY <4>2, <4>3
    <3> QED BY <2>1, <3>2, <3>3
  <2>6. ASSUME ~overrun PROVE \A i \in 1 .. Len(rxBuf') : rxBuf'[i] = Len(got') + i
    <3>1. Len(<<>>) = 0
      OBVIOUS
    <3>2. 1 .. 0 = {}
      OBVIOUS
    <3>3. CASE rxBuf' = <<>>
      BY <3>1, <3>2, <3>3
    <3>4. CASE got' = got /\ rxBuf' = all
      BY <2>3, <2>6, <3>4
    <3> QED BY <2>1, <3>3, <3>4
  <2>7. ASSUME ~overrun PROVE /\ rxb' - rxa' <= RingSize
                              /\ \A k \in rxa' .. rxb' - 1 : ring'[k % RingSize] = k + 1
    <3>1. \A k \in rxa' .. rxb' - 1 : k \in rxa .. rxb - 1
      BY <1>0, <2>1, <2>2 DEF LinkTypes, LinkTypeOK
    <3>2. rxb - rxa <= RingSize /\ \A k \in rxa .. rxb - 1 : ring[k % RingSize] = k + 1
      BY <1>0, <2>7 DEF Bytes
    <3>3. rxb' - rxa' <= RingSize
      BY <1>0, <2>1, <2>2, <3>2, LinkAssumption DEF LinkTypes, LinkTypeOK
    <3> QED BY <2>1, <3>1, <3>2, <3>3
  <2> QED BY <1>0, <2>1, <2>4, <2>5, <2>6, <2>7 DEF Bytes
<1>10. CASE ThreadStart
  <2>1. rxa' = rxa /\ rxb' = rxb
    BY <1>0, <1>10 DEF ThreadStart, Roles
  <2>2. UNCHANGED <<ring, chunk, rxBuf, got, overrun, fd, arrived, comState>>
    BY <1>10 DEF ThreadStart, portVars
  <2> QED BY <1>0, <2>1, <2>2, BytesSame DEF rxVars
<1>11. CASE ThreadTop
  <2>1. UNCHANGED <<rxVars, fd, arrived>> /\ (comState = "Off" => comState' = "Off")
    BY <1>11 DEF ThreadTop, portVars
  <2> QED BY <1>0, <2>1, BytesSame
<1>12. CASE ThreadTx
  <2>1. UNCHANGED <<rxVars, fd, arrived>> /\ (comState = "Off" => comState' = "Off")
    BY <1>12 DEF ThreadTx, portVars
  <2> QED BY <1>0, <2>1, BytesSame
<1>13. CASE ThreadPoll
  <2>1. UNCHANGED <<comState, rxa, rxb, ring, rxBuf, got, overrun, arrived>>
    BY <1>13 DEF ThreadPoll
  <2>2. CASE UNCHANGED <<chunk, fd>>
    BY <1>0, <2>1, <2>2, BytesSame DEF rxVars
  <2>3. ASSUME NEW n \in 1 .. Min({MaxRead, Len(fd)}),
               chunk' = SubSeq(fd, 1, n), fd' = SubSeq(fd, n + 1, Len(fd))
        PROVE  Bytes'
    <3>1. Len(fd) \in Nat /\ fd \in Seq(Int) /\ rxb \in Nat /\ chunk = <<>> /\ Len(<<>>) = 0
      BY <1>0, <1>13 DEF LinkTypes, LinkTypeOK, Roles, ThreadPoll
    <3>2. n \in 1 .. Len(fd)
      <4>1. MaxRead \in Int
        BY <1>0, RoomOK
      <4> QED BY <3>1, <4>1, MinOfTwo
    <3>3. /\ Len(chunk') = n /\ \A i \in 1 .. n : chunk'[i] = fd[i]
          /\ Len(fd') = Len(fd) - n /\ \A i \in 1 .. Len(fd) - n : fd'[i] = fd[n + i]
      BY <2>3, <3>1, <3>2
    <3>4. comState # "Off" => /\ arrived = rxb + Len(fd) /\ \A i \in 1 .. Len(fd) : fd[i] = rxb + i
      BY <1>0, <3>1 DEF Bytes, LinkTypes
    <3>5. comState # "Off" => /\ arrived = rxb + n + (Len(fd) - n)
                              /\ \A i \in 1 .. n : chunk'[i] = rxb + i
                              /\ \A i \in 1 .. Len(fd) - n : fd'[i] = rxb + n + i
      <4> SUFFICES ASSUME comState # "Off"
                   PROVE  /\ arrived = rxb + n + (Len(fd) - n)
                          /\ \A i \in 1 .. n : chunk'[i] = rxb + i
                          /\ \A i \in 1 .. Len(fd) - n : fd'[i] = rxb + n + i
        OBVIOUS
      <4>1. n \in Nat /\ arrived = rxb + n + (Len(fd) - n)
        BY <3>1, <3>2, <3>4
      <4>2. ASSUME NEW i \in 1 .. n PROVE chunk'[i] = rxb + i
        BY <3>1, <3>2, <3>3, <3>4
      <4>3. ASSUME NEW i \in 1 .. Len(fd) - n PROVE fd'[i] = rxb + n + i
        <5>1. n + i \in 1 .. Len(fd) /\ i \in Nat
          BY <3>1, <4>1
        <5>2. fd'[i] = rxb + (n + i)
          BY <3>3, <3>4, <5>1
        <5> QED BY <3>1, <4>1, <5>1, <5>2
      <4> QED BY <4>1, <4>2, <4>3
    <3> QED BY <1>0, <2>1, <3>3, <3>5 DEF Bytes
  <2> QED BY <1>13, <2>2, <2>3 DEF ThreadPoll
<1>14. CASE ThreadAppend
  <2> DEFINE at(i) == {j \in 1 .. Len(chunk) : (rxb + j - 1) % RingSize = i}
  <2>1. /\ rxb' = rxb + Len(chunk) /\ chunk' = <<>> /\ overrun' = (overrun \/ rxb' - rxa > RingSize)
        /\ UNCHANGED <<comState, rxa, rxBuf, got, fd, arrived>>
    BY <1>14 DEF ThreadAppend, portVars
  <2>2. /\ rxa \in Nat /\ rxb \in Nat /\ rxa <= rxb /\ Len(chunk) \in Nat /\ Len(fd) \in Nat
        /\ RingSize \in Nat \ {0} /\ Len(<<>>) = 0 /\ DOMAIN ring = 0 .. RingSize - 1
    BY <1>0, LinkAssumption DEF LinkTypes, LinkTypeOK
  <2>3. \A i \in 0 .. RingSize - 1 :
          ring'[i] = IF at(i) = {} THEN ring[i] ELSE chunk[Max(at(i))]
    BY <1>14, <2>2 DEF ThreadAppend
  <2> SUFFICES ASSUME comState # "Off" PROVE Bytes'
    BY <2>1 DEF Bytes
  <2>4. arrived' = rxb' + Len(chunk') + Len(fd')
    BY <1>0, <2>1, <2>2 DEF Bytes
  <2>5. \A i \in 1 .. Len(fd') : fd'[i] = rxb' + Len(chunk') + i
    BY <1>0, <2>1, <2>2 DEF Bytes
  <2>7. ~overrun' => ~overrun /\ rxb' - rxa' <= RingSize
    <3>1. ~overrun' => ~overrun /\ ~ (rxb' - rxa > RingSize)
      BY <2>1, Zenon
    <3>2. rxb' - rxa \in Int /\ RingSize \in Int /\ rxa' = rxa
      BY <2>1, <2>2
    <3> QED BY <3>1, <3>2
  <2>6. ASSUME ~overrun', NEW k \in rxa' .. rxb' - 1
        PROVE  ring'[k % RingSize] = k + 1
    <3>1. ~overrun /\ rxb' - rxa <= RingSize /\ k \in rxa .. rxb + Len(chunk) - 1
      BY <2>1, <2>2, <2>6, <2>7
    <3>2. k % RingSize \in 0 .. RingSize - 1
      BY <2>2, <3>1, DivMod
    <3> DEFINE i == k % RingSize
    <3>3. ASSUME NEW j \in 1 .. Len(chunk), (rxb + j - 1) % RingSize = i
          PROVE  rxb + j - 1 = k
      <4>1. rxb + j - 1 \in Int /\ k \in Int
        BY <2>2, <3>1
      <4>2. CASE k < rxb + j - 1
        <5>1. (rxb + j - 1) - k < RingSize
          BY <2>1, <2>2, <3>1
        <5>2. k % RingSize # (rxb + j - 1) % RingSize
          BY <2>2, <4>1, <4>2, <5>1, RestsApart, Zenon
        <5> QED BY <3>3, <5>2
      <4>3. CASE rxb + j - 1 < k
        <5>1. k - (rxb + j - 1) < RingSize
          BY <2>1, <2>2, <3>1
        <5>2. (rxb + j - 1) % RingSize # k % RingSize
          BY <2>2, <4>1, <4>3, <5>1, RestsApart, Zenon
        <5> QED BY <3>3, <5>2
      <4> QED BY <4>1, <4>2, <4>3
    <3>4. CASE k < rxb
      <4>1. at(i) = {}
        BY <2>2, <3>1, <3>3, <3>4
      <4>2. ring[i] = k + 1
        <5>1. k \in rxa .. rxb - 1
          BY <2>2, <3>1, <3>4
        <5> QED BY <1>0, <3>1, <5>1 DEF Bytes
      <4> HIDE DEF at, i
      <4> QED BY <2>3, <3>2, <4>1, <4>2 DEF i
    <3>5. CASE ~ (k < rxb)
      <4> DEFINE j == k - rxb + 1
      <4>1. j \in 1 .. Len(chunk) /\ rxb + j - 1 = k
        BY <2>2, <3>1, <3>5
      <4>2. j \in at(i)
        BY <4>1
      <4>3. \A x \in at(i) : x = j
        BY <2>2, <3>3, <4>1
      <4>4. Max(at(i)) = j
        <5>1. at(i) \in SUBSET (1 .. Len(chunk)) /\ at(i) # {}
          BY <4>2
        <5> HIDE DEF at, i, j
        <5> QED BY <2>2, <4>3, <5>1, MaxIsIn
      <4>5. chunk[j] = k + 1
        BY <1>0, <2>2, <4>1 DEF Bytes
      <4>6. at(i) # {}
        BY <4>2
      <4> HIDE DEF at, i, j
      <4> QED BY <2>3, <3>2, <4>4, <4>5, <4>6 DEF i
    <3> QED BY <3>4, <3>5
  <2> QED BY <1>0, <2>1, <2>2, <2>4, <2>5, <2>6, <2>7 DEF Bytes
<1>15. CASE ThreadSignal
  <2>1. UNCHANGED <<rxVars, fd, arrived>> /\ (comState = "Off" => comState' = "Off")
    BY <1>15 DEF ThreadSignal, portVars
  <2> QED BY <1>0, <2>1, BytesSame
<1>16. CASE DeviceSends
  <2>1. /\ fd' = Append(fd, arrived + 1) /\ arrived' = arrived + 1
        /\ UNCHANGED <<comState, rxa, rxb, ring, chunk, rxBuf, got, overrun>>
    BY <1>16 DEF DeviceSends, rxVars
  <2>2. /\ Len(fd') = Len(fd) + 1 /\ Len(fd) \in Nat /\ rxb \in Nat /\ Len(chunk) \in Nat
        /\ \A i \in 1 .. Len(fd) + 1 : fd'[i] = IF i <= Len(fd) THEN fd[i] ELSE arrived + 1
    BY <1>0, <2>1 DEF LinkTypes, LinkTypeOK
  <2> QED BY <1>0, <2>1, <2>2 DEF Bytes
<1>17. CASE Unplug
  <2>1. UNCHANGED <<rxVars, fd, arrived>> /\ (comState = "Off" => comState' = "Off")
    BY <1>17 DEF Unplug, portVars
  <2> QED BY <1>0, <2>1, BytesSame
<1> QED BY <1>1, <1>2, <1>3, <1>4, <1>5, <1>6, <1>7, <1>8, <1>9, <1>10, <1>11, <1>12, <1>13,
           <1>14, <1>15, <1>16, <1>17 DEF LinkNext, Main, Thread

----------------------------------------------------------------------------
(* The frames.                                                             *)
LEMMA PendingNat ==
  ASSUME LinkTypes
  PROVE  /\ Pending \in 0 .. CounterSpace - 1
         /\ sendPos = sendEnd => Pending = 0
<1>1. /\ CounterSpace \in Nat \ {0}
      /\ sendPos \in 0 .. CounterSpace - 1 /\ sendEnd \in 0 .. CounterSpace - 1
  BY LinkAssumption DEF LinkTypes, LinkTypeOK
<1>2. (sendEnd - sendPos) % CounterSpace
        = IF sendPos <= sendEnd THEN sendEnd - sendPos ELSE sendEnd - sendPos + CounterSpace
  BY <1>1, CounterSteps
<1> QED BY <1>1, <1>2 DEF Pending

\* What is on the wire are frames.
LEMMA WireTypes ==
  ASSUME LinkTypes
  PROVE  \A i \in DOMAIN wire : wire[i].queued.frame \in Nat
<1> SUFFICES ASSUME NEW i \in DOMAIN wire PROVE wire[i].queued.frame \in Nat
  OBVIOUS
<1> DEFINE R == [queued : Slot, conn : Nat]
<1>1. wire[i] \in R
  <2>1. wire \in Seq(R)
    BY DEF LinkTypes
  <2> HIDE DEF R
  <2> QED BY <2>1
<1>2. wire[i].queued \in Slot
  BY <1>1
<1> QED BY <1>2 DEF Slot

Ordered == Queued /\ FramesInOrder

\* A step that touches neither the queue nor the wire keeps their order.
LEMMA OrderedSame ==
  ASSUME LinkTypes, Ordered, UNCHANGED <<sendPos, sendEnd, sendQueue, lastFrame, opens, wire, prot>>
  PROVE  Ordered'
BY DEF Ordered, Queued, FramesInOrder, Pending

\* A connection that goes down: what is in the queue is not looked at any more.
LEMMA OrderedDown ==
  ASSUME LinkTypes, Ordered, ~prot', wire' = wire, lastFrame' = lastFrame
  PROVE  Ordered'
<1>1. \A i \in DOMAIN wire : wire[i].queued.frame \in Nat
  BY WireTypes
<1>2. Pending \in Nat /\ lastFrame \in Nat /\ CounterSpace \in Nat
  BY PendingNat, LinkAssumption DEF LinkTypes
<1>3. \A i \in DOMAIN wire : wire[i].queued.frame <= lastFrame
  BY <1>1, <1>2 DEF Ordered, Queued
<1> QED BY <1>3 DEF Ordered, Queued, FramesInOrder

\* A frame that is sent is counted once among those that wait.
LEMMA SendPending ==
  ASSUME LInv, Send
  PROVE  Pending \in Nat /\ Pending < TxSlots /\ Pending <= lastFrame /\ Pending' = Pending + 1
<1>0. /\ LinkTypes /\ Roles /\ Ordered /\ prot /\ prot' = prot /\ ~TXQ_IsFull
      /\ UNCHANGED <<sendPos, wire, opens>>
      /\ lastFrame' = lastFrame + 1 /\ sendEnd' = TXQ_Next(sendEnd)
      /\ sendQueue' = [sendQueue EXCEPT ![sendEnd % TxSlots] = [conn |-> opens, frame |-> lastFrame']]
  BY DEF LInv, Send, Roles, Ordered
<1>1. /\ TxSlots \in Nat \ {0} /\ CounterSpace \in Nat \ {0} /\ TxSlots < CounterSpace
      /\ sendPos \in 0 .. CounterSpace - 1 /\ sendEnd \in 0 .. CounterSpace - 1
      /\ lastFrame \in Nat /\ DOMAIN sendQueue = 0 .. TxSlots - 1
  BY <1>0, LinkAssumption DEF LinkTypes, LinkTypeOK
<1>2. Pending \in Nat /\ Pending <= TxSlots /\ Pending <= lastFrame
  BY <1>0, <1>1, PendingNat DEF Ordered, Queued
<1>3. Pending < TxSlots
  BY <1>0, <1>1, <1>2, Room DEF Pending, TXQ_IsFull
<1>4. Pending' = Pending + 1
  <2>1. Pending < CounterSpace - 1
    BY <1>1, <1>2, <1>3
  <2>2. Pending' = (TXQ_Next(sendEnd) - sendPos) % CounterSpace
    BY <1>0 DEF Pending
  <2> QED BY <1>1, <2>1, <2>2, Pushed DEF Pending
<1> QED BY <1>2, <1>3, <1>4

\* A frame that is sent joins the queue at its end, in order.
LEMMA SendOrdered ==
  ASSUME LInv, Send
  PROVE  Ordered'
<1>0. /\ LinkTypes /\ Roles /\ Ordered /\ prot /\ prot' = prot /\ ~TXQ_IsFull
      /\ UNCHANGED <<sendPos, wire, opens>>
      /\ lastFrame' = lastFrame + 1 /\ sendEnd' = TXQ_Next(sendEnd)
      /\ sendQueue' = [sendQueue EXCEPT ![sendEnd % TxSlots] = [conn |-> opens, frame |-> lastFrame']]
  BY DEF LInv, Send, Roles, Ordered
<1>1. /\ TxSlots \in Nat \ {0} /\ CounterSpace \in Nat \ {0} /\ TxSlots < CounterSpace
      /\ sendPos \in 0 .. CounterSpace - 1 /\ sendEnd \in 0 .. CounterSpace - 1
      /\ lastFrame \in Nat /\ DOMAIN sendQueue = 0 .. TxSlots - 1
  BY <1>0, LinkAssumption DEF LinkTypes, LinkTypeOK
<1>2. Pending \in Nat /\ Pending < TxSlots /\ Pending <= lastFrame /\ Pending' = Pending + 1
  BY SendPending
<1>5. /\ sendEnd % TxSlots = (sendPos + Pending) % TxSlots
      /\ sendEnd % TxSlots \in 0 .. TxSlots - 1
  BY <1>1, SlotOf DEF Pending
<1>6. ASSUME NEW d \in 0 .. Pending' - 1
      PROVE  sendQueue'[(sendPos + d) % TxSlots]
               = [conn |-> opens, frame |-> lastFrame' - Pending' + 1 + d]
  <2>1. CASE d = Pending
    <3>1. sendQueue'[(sendPos + d) % TxSlots] = [conn |-> opens, frame |-> lastFrame']
      BY <1>0, <1>1, <1>5, <2>1
    <3>2. lastFrame' - Pending' + 1 + d = lastFrame'
      BY <1>0, <1>1, <1>2, <2>1
    <3> QED BY <3>1, <3>2
  <2>2. CASE d # Pending
    <3>1. d \in 0 .. Pending - 1
      BY <1>2, <2>2
    <3>2. sendPos + d \in Int /\ sendPos + Pending \in Int
      BY <1>1, <1>2, <3>1
    <3>3. sendPos + d < sendPos + Pending /\ (sendPos + Pending) - (sendPos + d) < TxSlots
      BY <1>1, <1>2, <3>1
    <3>4. (sendPos + d) % TxSlots # (sendPos + Pending) % TxSlots
      BY <1>1, <3>2, <3>3, RestsApart, Zenon
    <3>5. (sendPos + d) % TxSlots \in 0 .. TxSlots - 1
      BY <1>1, <3>2, DivMod, Zenon
    <3>6. sendQueue'[(sendPos + d) % TxSlots] = sendQueue[(sendPos + d) % TxSlots]
      BY <1>0, <1>1, <1>5, <3>4, <3>5
    <3>7. sendQueue[(sendPos + d) % TxSlots] = [conn |-> opens, frame |-> lastFrame - Pending + 1 + d]
      BY <1>0, <3>1 DEF Ordered, Queued
    <3>8. lastFrame - Pending + 1 + d = lastFrame' - Pending' + 1 + d
      BY <1>0, <1>1, <1>2, <3>1
    <3> QED BY <3>6, <3>7, <3>8
  <2> QED BY <2>1, <2>2
<1>7. lastFrame' - Pending' = lastFrame - Pending /\ Pending' <= TxSlots /\ Pending' <= lastFrame'
  BY <1>0, <1>1, <1>2
<1>8. Queued'
  <2>1. \A i \in DOMAIN wire : /\ wire[i].queued.frame <= lastFrame - Pending
                              /\ wire[i].queued.conn = wire[i].conn
    BY <1>0 DEF Ordered, Queued
  <2>2. \A i \in DOMAIN wire' : /\ wire'[i].queued.frame <= lastFrame' - Pending'
                               /\ wire'[i].queued.conn = wire'[i].conn
    BY <1>0, <1>7, <2>1
  <2>3. sendPos' = sendPos /\ opens' = opens /\ prot'
    BY <1>0
  <2> QED BY <1>6, <1>7, <2>2, <2>3 DEF Queued
<1> QED BY <1>0, <1>8 DEF Ordered, FramesInOrder

\* The frame the thread writes is the next of the queue, so the wire stays in order.
LEMMA TxOrdered ==
  ASSUME LInv, ThreadTx
  PROVE  Ordered'
<1>0. /\ LinkTypes /\ Roles /\ Ordered /\ prot' = prot
      /\ UNCHANGED <<sendEnd, sendQueue, lastFrame, opens>>
  BY DEF LInv, ThreadTx, Ordered
<1> DEFINE f == sendQueue[sendPos % TxSlots]
<1>1. \/ UNCHANGED <<sendPos, wire>>
      \/ /\ sendPos # sendEnd /\ sendPos' = TXQ_Next(sendPos)
         /\ \/ wire' = wire
            \/ prot /\ wire' = Append(wire, [queued |-> f, conn |-> opens])
         /\ ~prot => wire' = wire
  BY DEF ThreadTx, TXQ_IsEmpty
<1>2. CASE UNCHANGED <<sendPos, wire>>
  BY <1>0, <1>2, OrderedSame
<1>3. CASE ~prot
  BY <1>0, <1>1, <1>3, OrderedDown
<1>4. CASE prot /\ sendPos # sendEnd /\ sendPos' = TXQ_Next(sendPos)
  <2>1. /\ TxSlots \in Nat \ {0} /\ CounterSpace \in Nat \ {0} /\ opens \in Nat
        /\ sendPos \in 0 .. CounterSpace - 1 /\ sendEnd \in 0 .. CounterSpace - 1
        /\ lastFrame \in Nat /\ wire \in Seq([queued : Slot, conn : Nat])
    BY <1>0, LinkAssumption DEF LinkTypes, LinkTypeOK
  <2>2. /\ Pending \in 1 .. CounterSpace - 1 /\ Pending' = Pending - 1
        /\ Pending <= TxSlots /\ Pending <= lastFrame
    <3>1. Pending' = (sendEnd - TXQ_Next(sendPos)) % CounterSpace
      BY <1>0, <1>4 DEF Pending
    <3> QED BY <1>0, <1>4, <2>1, <3>1, Popped DEF Pending, Ordered, Queued
  <2>3. f = [conn |-> opens, frame |-> lastFrame - Pending + 1]
    <3>1. 0 \in 0 .. Pending - 1 /\ sendPos + 0 = sendPos
      BY <2>1, <2>2
    <3>2. sendQueue[(sendPos + 0) % TxSlots] = [conn |-> opens, frame |-> lastFrame - Pending + 1 + 0]
      BY <1>0, <1>4, <3>1 DEF Ordered, Queued
    <3>3. lastFrame - Pending + 1 + 0 = lastFrame - Pending + 1
      BY <2>1, <2>2
    <3> QED BY <3>1, <3>2, <3>3
  <2>4. ASSUME NEW d \in 0 .. Pending' - 1
        PROVE  sendQueue'[(sendPos' + d) % TxSlots]
                 = [conn |-> opens', frame |-> lastFrame' - Pending' + 1 + d]
    <3>1. d + 1 \in 0 .. Pending - 1 /\ d \in Nat
      BY <2>2
    <3>2. (TXQ_Next(sendPos) + d) % TxSlots = (sendPos + 1 + d) % TxSlots
      BY <2>1, <3>1, SlotOf
    <3>3. sendPos + 1 + d = sendPos + (d + 1)
      BY <2>1, <3>1
    <3>4. sendQueue[(sendPos + (d + 1)) % TxSlots]
            = [conn |-> opens, frame |-> lastFrame - Pending + 1 + (d + 1)]
      BY <1>0, <1>4, <3>1 DEF Ordered, Queued
    <3>5. lastFrame - Pending + 1 + (d + 1) = lastFrame' - Pending' + 1 + d
      BY <1>0, <2>1, <2>2, <3>1
    <3> QED BY <1>0, <1>4, <3>2, <3>3, <3>4, <3>5
  <2>5. \A i \in DOMAIN wire : /\ wire[i].queued.frame <= lastFrame - Pending
                              /\ wire[i].queued.frame \in Nat
                              /\ wire[i].queued.conn = wire[i].conn
    BY <1>0, <1>4, WireTypes DEF Ordered, Queued
  <2>6. /\ \A i \in DOMAIN wire' : /\ wire'[i].queued.frame <= lastFrame' - Pending'
                                  /\ wire'[i].queued.conn = wire'[i].conn
        /\ FramesInOrder'
    <3>1. CASE wire' = wire
      <4>1. \A i \in DOMAIN wire' : wire'[i].queued.frame <= lastFrame' - Pending'
        BY <1>0, <2>1, <2>2, <2>5, <3>1
      <4> QED BY <1>0, <2>5, <3>1, <4>1 DEF Ordered, FramesInOrder
    <3>2. CASE wire' = Append(wire, [queued |-> f, conn |-> opens])
      <4> DEFINE n == Len(wire)
      <4>1. /\ n \in Nat /\ DOMAIN wire = 1 .. n /\ DOMAIN wire' = 1 .. n + 1
            /\ \A i \in 1 .. n : wire'[i] = wire[i]
            /\ wire'[n + 1] = [queued |-> f, conn |-> opens]
        BY <2>1, <3>2
      <4>2. /\ wire'[n + 1].queued.frame = lastFrame - Pending + 1
            /\ wire'[n + 1].queued.conn = opens /\ wire'[n + 1].conn = opens
        BY <2>3, <4>1
      <4>3. lastFrame' - Pending' = lastFrame - Pending + 1
        BY <1>0, <2>1, <2>2
      <4>4. \A i, j \in 1 .. n : i < j => wire[i].queued.frame < wire[j].queued.frame
        BY <1>0, <4>1 DEF Ordered, FramesInOrder
      <4> HIDE DEF n, f
      <4>5. ASSUME NEW i \in 1 .. n + 1
            PROVE  /\ wire'[i].queued.frame <= lastFrame' - Pending'
                   /\ wire'[i].queued.conn = wire'[i].conn
        <5>1. CASE i = n + 1
          BY <2>1, <2>2, <4>2, <4>3, <5>1
        <5>2. CASE i # n + 1
          <6>1. i \in 1 .. n
            BY <4>1, <5>2
          <6> QED BY <2>1, <2>2, <2>5, <4>1, <4>3, <6>1
        <5> QED BY <5>1, <5>2
      <4>6. ASSUME NEW i \in 1 .. n + 1, NEW j \in 1 .. n + 1, i < j
            PROVE  wire'[i].queued.frame < wire'[j].queued.frame
        <5>1. i \in 1 .. n
          BY <4>1, <4>6
        <5>2. CASE j = n + 1
          BY <2>1, <2>2, <2>5, <4>1, <4>2, <5>1, <5>2
        <5>3. CASE j # n + 1
          <6>1. j \in 1 .. n
            BY <4>1, <5>3
          <6> QED BY <4>1, <4>4, <4>6, <5>1, <6>1
        <5> QED BY <5>2, <5>3
      <4> QED BY <4>1, <4>5, <4>6 DEF FramesInOrder
    <3> QED BY <1>1, <1>4, <3>1, <3>2
  <2>7. Pending' <= TxSlots /\ Pending' <= lastFrame' /\ prot'
    BY <1>0, <1>4, <2>1, <2>2
  <2> QED BY <2>4, <2>6, <2>7 DEF Ordered, Queued
<1> QED BY <1>1, <1>2, <1>3, <1>4

\* Each step keeps the order of the queue and of the wire.
LEMMA OrderedOK ==
  ASSUME LInv, LinkNext
  PROVE  Ordered'
<1>0. LinkTypes /\ Roles /\ Ordered
  BY DEF LInv, Ordered
<1>1. CASE Open
  <2>1. /\ sendPos' = sendEnd' /\ UNCHANGED <<wire, lastFrame>> /\ ~prot /\ prot'
        /\ sendPos' = 0
    BY <1>0, <1>1 DEF Open, Roles
  <2>2. Pending' = 0
    <3>1. CounterSpace \in Nat \ {0} /\ 0 - 0 = 0
      BY LinkAssumption
    <3>2. 0 % CounterSpace = 0
      BY <3>1
    <3> QED BY <2>1, <3>1, <3>2 DEF Pending
  <2>3. 0 .. 0 - 1 = {} /\ TxSlots >= 0 /\ lastFrame \in Nat /\ lastFrame - 0 = lastFrame
    BY <1>0, LinkAssumption DEF LinkTypes
  <2> QED BY <1>0, <2>1, <2>2, <2>3 DEF Ordered, Queued, FramesInOrder
<1>2. CASE Timeout
  BY <1>0, <1>2, OrderedSame DEF Timeout, txVars
<1>3. CASE Send
  BY <1>3, SendOrdered
<1>4. CASE Close
  BY <1>0, <1>4, OrderedDown DEF Close
<1>5. CASE FlagSend
  BY <1>0, <1>5, OrderedSame DEF FlagSend, txVars
<1>6. CASE PL_Disconnect
  BY <1>0, <1>6, OrderedDown DEF PL_Disconnect, Roles
<1>7. CASE Joined
  BY <1>0, <1>7, OrderedSame DEF Joined, txVars
<1>8. CASE ProcessEvents
  <2>1. CASE UNCHANGED <<prot, sendEnd>>
    BY <1>0, <1>8, <2>1, OrderedSame DEF ProcessEvents
  <2>2. CASE prot' = FALSE
    BY <1>0, <1>8, <2>2, OrderedDown DEF ProcessEvents
  <2> QED BY <1>8, <2>1, <2>2 DEF ProcessEvents
<1>9. CASE ReadyRead
  BY <1>0, <1>9, OrderedSame DEF ReadyRead, txVars
<1>10. CASE ThreadStart
  BY <1>0, <1>10, OrderedSame DEF ThreadStart, txVars
<1>11. CASE ThreadTop
  BY <1>0, <1>11, OrderedSame DEF ThreadTop, txVars
<1>12. CASE ThreadTx
  BY <1>12, TxOrdered
<1>13. CASE ThreadPoll
  BY <1>0, <1>13, OrderedSame DEF ThreadPoll, txVars
<1>14. CASE ThreadAppend
  BY <1>0, <1>14, OrderedSame DEF ThreadAppend, txVars
<1>15. CASE ThreadSignal
  BY <1>0, <1>15, OrderedSame DEF ThreadSignal, txVars
<1>16. CASE DeviceSends
  BY <1>0, <1>16, OrderedSame DEF DeviceSends, txVars
<1>17. CASE Unplug
  BY <1>0, <1>17, OrderedSame DEF Unplug, txVars
<1> QED BY <1>1, <1>2, <1>3, <1>4, <1>5, <1>6, <1>7, <1>8, <1>9, <1>10, <1>11, <1>12, <1>13,
           <1>14, <1>15, <1>16, <1>17 DEF LinkNext, Main, Thread

----------------------------------------------------------------------------
(* The event bit of a frame that waits.                                    *)
QueueHolds == /\ prot => InQueue = lastFrame - Pending + 1 .. lastFrame
              /\ sendPos = sendEnd => InQueue = {}
\* The queue holds the last frames that were sent, in their order.
LEMMA InQueueIs == LinkTypes /\ Queued => QueueHolds
<1> SUFFICES ASSUME LinkTypes, Queued PROVE QueueHolds
  OBVIOUS
<1>1. /\ Pending \in Nat /\ TxSlots \in Nat /\ lastFrame \in Nat /\ sendPos \in Nat
      /\ sendPos = sendEnd => Pending = 0
  BY PendingNat, LinkAssumption DEF LinkTypes, LinkTypeOK
<1>2. InQueue = {sendQueue[(sendPos + d) % TxSlots].frame : d \in {n \in 0 .. TxSlots : n < Pending}}
  BY DEF InQueue, Pending
<1>3. ASSUME sendPos = sendEnd PROVE InQueue = {}
  BY <1>1, <1>2, <1>3
<1>4. ASSUME prot PROVE InQueue = lastFrame - Pending + 1 .. lastFrame
  <2>1. Pending <= TxSlots /\ Pending <= lastFrame
    BY <1>4 DEF Queued
  <2>2. \A d \in 0 .. Pending - 1 :
          sendQueue[(sendPos + d) % TxSlots].frame = lastFrame - Pending + 1 + d
    <3>1. \A d \in 0 .. Pending - 1 :
            sendQueue[(sendPos + d) % TxSlots]
              = [conn |-> opens, frame |-> lastFrame - Pending + 1 + d]
      BY <1>4 DEF Queued
    <3>2. ASSUME NEW d \in 0 .. Pending - 1
          PROVE  sendQueue[(sendPos + d) % TxSlots].frame = lastFrame - Pending + 1 + d
      <4>1. sendQueue[(sendPos + d) % TxSlots]
              = [conn |-> opens, frame |-> lastFrame - Pending + 1 + d]
        BY <3>1
      <4> QED BY <4>1
    <3> QED BY <3>2
  <2>3. {n \in 0 .. TxSlots : n < Pending} = 0 .. Pending - 1
    BY <1>1, <2>1
  <2>4. InQueue = {lastFrame - Pending + 1 + d : d \in 0 .. Pending - 1}
    BY <1>2, <2>2, <2>3
  <2>5. ASSUME NEW x \in lastFrame - Pending + 1 .. lastFrame PROVE x \in InQueue
    <3>1. x - (lastFrame - Pending + 1) \in 0 .. Pending - 1
      BY <1>1, <2>1
    <3>2. lastFrame - Pending + 1 + (x - (lastFrame - Pending + 1)) = x
      BY <1>1
    <3> QED BY <2>4, <3>1, <3>2
  <2>6. ASSUME NEW x \in InQueue PROVE x \in lastFrame - Pending + 1 .. lastFrame
    <3>1. PICK d \in 0 .. Pending - 1 : x = lastFrame - Pending + 1 + d
      BY <2>4
    <3> QED BY <1>1, <3>1
  <2> QED BY <2>5, <2>6
<1> QED BY <1>3, <1>4 DEF QueueHolds

\* A step that leaves the queue and its flag alone keeps the flag right.
LEMMA FlagSame ==
  ASSUME QueuedIsFlagged, UNCHANGED <<sendPos, sendEnd, sendQueue>>,
         "TX" \in ev => "TX" \in ev',
         caller' \in {"sending", "closing", "joining"} \/ caller \notin {"sending", "closing", "joining"}
  PROVE  QueuedIsFlagged'
BY DEF QueuedIsFlagged, InQueue

\* Whoever fills the queue flags it, and the thread drops the flag only when it is empty.
LEMMA FlaggedOK ==
  ASSUME LInv, LinkNext
  PROVE  QueuedIsFlagged'
<1>0. LinkTypes /\ Roles /\ Queued /\ QueuedIsFlagged /\ LinkTypes' /\ Roles' /\ Queued'
  BY TypesOK, RolesOK, OrderedOK DEF LInv, Ordered
<1>01. QueueHolds /\ QueueHolds'
  <2>1. (LinkTypes /\ Queued => QueueHolds)'
    BY InQueueIs, PTL
  <2> QED BY <1>0, <2>1, InQueueIs
<1>00. sendPos' = sendEnd' => QueuedIsFlagged'
  <2>1. sendPos' = sendEnd' => InQueue' = {}
    BY <1>01 DEF QueueHolds
  <2> QED BY <2>1 DEF QueuedIsFlagged
<1>1. CASE Open
  BY <1>00, <1>1 DEF Open
<1>2. CASE Timeout
  BY <1>0, <1>2, FlagSame DEF Timeout, txVars
<1>3. CASE Send
  <2>1. CASE lastFrame' \notin Bad
    BY <1>3, <2>1 DEF Send, QueuedIsFlagged
  <2>2. CASE lastFrame' \in Bad
    <3>1. /\ prot /\ prot' /\ lastFrame' = lastFrame + 1 /\ ev' = ev /\ caller = "idle"
          /\ lastFrame \in Nat /\ Pending \in Nat /\ lastFrame' - Pending' = lastFrame - Pending
      <4>1. prot /\ prot' = prot /\ lastFrame' = lastFrame + 1 /\ ev' = ev /\ caller = "idle"
        BY <1>0, <1>3 DEF Send, Roles
      <4>2. Pending' = Pending + 1
        BY <1>3, SendPending
      <4>3. Pending \in Nat /\ lastFrame \in Nat
        BY <1>0, <1>3, SendPending DEF LinkTypes
      <4> QED BY <4>1, <4>2, <4>3
    <3>2. /\ InQueue = lastFrame - Pending + 1 .. lastFrame
          /\ InQueue' = lastFrame' - Pending' + 1 .. lastFrame'
      BY <1>01, <3>1 DEF QueueHolds
    <3>3. InQueue' \ Bad \subseteq InQueue \ Bad
      BY <2>2, <3>1, <3>2
    <3> QED BY <1>0, <3>1, <3>3 DEF QueuedIsFlagged
  <2> QED BY <2>1, <2>2
<1>4. CASE Close
  BY <1>4 DEF Close, QueuedIsFlagged
<1>5. CASE FlagSend
  BY <1>5 DEF FlagSend, QueuedIsFlagged
<1>6. CASE PL_Disconnect
  BY <1>6 DEF PL_Disconnect, QueuedIsFlagged
<1>7. CASE Joined
  BY <1>0, <1>00, <1>7 DEF Joined, Roles, txVars
<1>8. CASE ProcessEvents
  <2>1. CASE caller' = "closing"
    BY <2>1 DEF QueuedIsFlagged
  <2>2. CASE UNCHANGED sendEnd /\ (ev' = ev \/ ev' = ev \ {"TH0"})
    BY <1>0, <1>8, <2>2, FlagSame DEF ProcessEvents
  <2> QED BY <1>8, <2>1, <2>2 DEF ProcessEvents
<1>9. CASE ReadyRead
  BY <1>0, <1>9, FlagSame DEF ReadyRead, txVars
<1>10. CASE ThreadStart
  BY <1>0, <1>00, <1>10 DEF ThreadStart, Roles, txVars, QueuedIsFlagged
<1>11. CASE ThreadTop
  BY <1>0, <1>11, FlagSame DEF ThreadTop, txVars
<1>12. CASE ThreadTx
  <2>1. CASE "TX" \notin ev \/ ~prot
    BY <1>0, <1>00, <1>12, <2>1, FlagSame DEF ThreadTx, Roles, QueuedIsFlagged
  <2>2. CASE TXQ_IsEmpty
    BY <1>00, <1>12, <2>2 DEF ThreadTx, TXQ_IsEmpty
  <2>3. CASE "TX" \in ev /\ prot /\ ~TXQ_IsEmpty
    BY <1>12, <2>3 DEF ThreadTx, QueuedIsFlagged
  <2> QED BY <2>1, <2>2, <2>3
<1>13. CASE ThreadPoll
  BY <1>0, <1>13, FlagSame DEF ThreadPoll, txVars
<1>14. CASE ThreadAppend
  BY <1>0, <1>14, FlagSame DEF ThreadAppend, txVars
<1>15. CASE ThreadSignal
  BY <1>0, <1>15, FlagSame DEF ThreadSignal, txVars
<1>16. CASE DeviceSends
  BY <1>0, <1>16, FlagSame DEF DeviceSends, txVars
<1>17. CASE Unplug
  BY <1>0, <1>17, FlagSame DEF Unplug, txVars
<1> QED BY <1>1, <1>2, <1>3, <1>4, <1>5, <1>6, <1>7, <1>8, <1>9, <1>10, <1>11, <1>12, <1>13,
           <1>14, <1>15, <1>16, <1>17 DEF LinkNext, Main, Thread

----------------------------------------------------------------------------
\* At the start all is empty.
LEMMA InitLInv == LinkInit => LInv
<1> SUFFICES ASSUME LinkInit PROVE LInv
  OBVIOUS
<1> USE DEF LinkInit
<1>1. /\ RingSize \in Nat \ {0} /\ TxSlots \in Nat \ {0} /\ CounterSpace \in Nat \ {0}
      /\ BufSize \in Nat /\ Len(<<>>) = 0 /\ \A T : <<>> \in Seq(T)
  BY LinkAssumption
<1>2. 0 \in 0 .. CounterSpace - 1 /\ [conn |-> 0, frame |-> 0] \in Slot
  BY <1>1 DEF Slot
<1>3. LinkTypeOK
  BY <1>1, <1>2 DEF LinkTypeOK
<1>4. LinkTypes
  <2>1. ring \in [0 .. RingSize - 1 -> Int] /\ sendQueue \in [0 .. TxSlots - 1 -> Slot]
    BY <1>2 DEF NoFrame
  <2>2. /\ got \in Seq(Int) /\ rxBuf \in Seq(Int) /\ chunk \in Seq(Int) /\ fd \in Seq(Int)
        /\ wire \in Seq([queued : Slot, conn : Nat])
    BY <1>1
  <2> QED BY <1>3, <2>1, <2>2 DEF LinkTypes
<1>5. Roles
  BY DEF Roles
<1>6. Bytes
  BY DEF Bytes
<1>7. DOMAIN wire = {}
  BY <1>1
<1>8. Queued /\ FramesInOrder
  BY <1>7 DEF Queued, FramesInOrder
<1>9. QueuedIsFlagged
  <2>1. InQueue = {}
    BY <1>4, <1>8, InQueueIs DEF QueueHolds
  <2> QED BY <2>1 DEF QueuedIsFlagged
<1> QED BY <1>4, <1>5, <1>6, <1>8, <1>9 DEF LInv

\* The invariant is inductive.
LEMMA StepLInv == LInv /\ [LinkNext]_linkVars => LInv'
<1> SUFFICES ASSUME LInv, [LinkNext]_linkVars PROVE LInv'
  OBVIOUS
<1>1. CASE LinkNext
  BY <1>1, TypesOK, RolesOK, BytesOK, OrderedOK, FlaggedOK DEF LInv, Ordered
<1>2. CASE UNCHANGED linkVars
  <2> USE <1>2 DEF linkVars, rxVars, txVars, portVars
  <2>1. LinkTypes'
    BY DEF LInv, LinkTypes, LinkTypeOK
  <2>2. Roles'
    BY DEF LInv, Roles
  <2>3. Bytes'
    BY DEF LInv, Bytes
  <2>4. Queued' /\ FramesInOrder'
    BY DEF LInv, Queued, FramesInOrder, Pending
  <2>5. QueuedIsFlagged'
    BY DEF LInv, QueuedIsFlagged, InQueue
  <2> QED BY <2>1, <2>2, <2>3, <2>4, <2>5 DEF LInv
<1> QED BY <1>1, <1>2

\* Bytes that follow each other, continued by others that do, still do.
LEMMA Continued ==
  ASSUME NEW a \in Seq(Int), NEW b \in Seq(Int), \A i \in 1 .. Len(a) : a[i] = i,
         \A i \in 1 .. Len(b) : b[i] = Len(a) + i
  PROVE  /\ a \o b \in Seq(Int) /\ Len(a \o b) = Len(a) + Len(b)
         /\ \A i \in 1 .. Len(a) + Len(b) : (a \o b)[i] = i
<1>1. a \o b \in Seq(Int) /\ Len(a \o b) = Len(a) + Len(b) /\ Len(a) \in Nat /\ Len(b) \in Nat
  OBVIOUS
<1>2. ASSUME NEW i \in 1 .. Len(a) + Len(b) PROVE (a \o b)[i] = i
  <2>1. (a \o b)[i] = IF i <= Len(a) THEN a[i] ELSE b[i - Len(a)]
    BY <1>1
  <2>2. CASE i <= Len(a)
    BY <1>1, <2>1, <2>2
  <2>3. CASE ~ (i <= Len(a))
    <3>1. i - Len(a) \in 1 .. Len(b) /\ Len(a) + (i - Len(a)) = i
      BY <1>1, <2>3
    <3> QED BY <2>1, <2>3, <3>1
  <2> QED BY <2>2, <2>3
<1> QED BY <1>1, <1>2

\* The parts in a row are the bytes that arrived.
LEMMA BytesInARow ==
  ASSUME LInv
  PROVE  StreamIntact
<1> SUFFICES ASSUME comState # "Off", ~overrun
             PROVE  got \o rxBuf \o InRing \o chunk \o fd = [i \in 1 .. arrived |-> i]
  BY DEF StreamIntact
<1> DEFINE n == rxb - rxa
           a == got \o rxBuf
           b == a \o InRing
           c == b \o chunk
<1>1. /\ got \in Seq(Int) /\ rxBuf \in Seq(Int) /\ chunk \in Seq(Int) /\ fd \in Seq(Int)
      /\ n \in Nat /\ rxa \in Nat /\ rxb \in Nat /\ RingSize \in Nat \ {0}
  BY LinkAssumption DEF LInv, LinkTypes, LinkTypeOK
<1>2. /\ rxa = Len(got) + Len(rxBuf) /\ arrived = rxb + Len(chunk) + Len(fd)
      /\ \A k \in rxa .. rxb - 1 : ring[k % RingSize] = k + 1
      /\ \A i \in 1 .. Len(got) : got[i] = i
      /\ \A i \in 1 .. Len(rxBuf) : rxBuf[i] = Len(got) + i
      /\ \A i \in 1 .. Len(chunk) : chunk[i] = rxb + i
      /\ \A i \in 1 .. Len(fd) : fd[i] = rxb + Len(chunk) + i
  BY DEF LInv, Bytes
<1>3. /\ InRing \in Seq(Int) /\ Len(InRing) = n
      /\ \A i \in 1 .. n : InRing[i] = rxa + i
  <2>1. ASSUME NEW i \in 1 .. n PROVE ring[(rxa + i - 1) % RingSize] = rxa + i
    <3>1. rxa + i - 1 \in rxa .. rxb - 1 /\ (rxa + i - 1) + 1 = rxa + i
      BY <1>1
    <3>2. ring[(rxa + i - 1) % RingSize] = (rxa + i - 1) + 1
      BY <1>2, <3>1
    <3> QED BY <3>1, <3>2
  <2>2. InRing = [i \in 1 .. n |-> ring[(rxa + i - 1) % RingSize]]
    BY DEF InRing
  <2>3. InRing \in [1 .. n -> Int] /\ \A i \in 1 .. n : InRing[i] = rxa + i
    <3> HIDE DEF n
    <3>1. \A i \in 1 .. n : rxa + i \in Int
      BY <1>1
    <3> QED BY <2>1, <2>2, <3>1
  <2> HIDE DEF n
  <2> QED BY <1>1, <2>3, FcnIsSeq
<1>4. a \in Seq(Int) /\ Len(a) = rxa /\ \A i \in 1 .. rxa : a[i] = i
  BY <1>1, <1>2, Continued
<1>5. b \in Seq(Int) /\ Len(b) = rxa + n /\ \A i \in 1 .. rxa + n : b[i] = i
  <2> HIDE DEF a, n
  <2>1. \A i \in 1 .. Len(a) : a[i] = i
    BY <1>4
  <2>2. \A i \in 1 .. Len(InRing) : InRing[i] = Len(a) + i
    BY <1>3, <1>4
  <2> QED BY <1>1, <1>3, <1>4, <2>1, <2>2, Continued
<1>6. rxa + n = rxb
  BY <1>1
<1>7. c \in Seq(Int) /\ Len(c) = rxb + Len(chunk) /\ \A i \in 1 .. rxb + Len(chunk) : c[i] = i
  <2> HIDE DEF b, n
  <2>1. \A i \in 1 .. Len(b) : b[i] = i
    BY <1>5
  <2>2. \A i \in 1 .. Len(chunk) : chunk[i] = Len(b) + i
    BY <1>2, <1>5, <1>6
  <2>3. Len(b) = rxb
    BY <1>5, <1>6
  <2>4. /\ b \o chunk \in Seq(Int) /\ Len(b \o chunk) = Len(b) + Len(chunk)
        /\ \A i \in 1 .. Len(b) + Len(chunk) : (b \o chunk)[i] = i
    BY <1>1, <1>5, <2>1, <2>2, Continued
  <2> QED BY <2>3, <2>4
<1>8. /\ c \o fd \in Seq(Int) /\ Len(c \o fd) = arrived /\ \A i \in 1 .. arrived : (c \o fd)[i] = i
  <2> HIDE DEF c
  <2>1. \A i \in 1 .. Len(c) : c[i] = i
    BY <1>7
  <2>2. \A i \in 1 .. Len(fd) : fd[i] = Len(c) + i
    BY <1>2, <1>7
  <2>3. Len(c) + Len(fd) = arrived
    BY <1>2, <1>7
  <2>4. /\ c \o fd \in Seq(Int) /\ Len(c \o fd) = Len(c) + Len(fd)
        /\ \A i \in 1 .. Len(c) + Len(fd) : (c \o fd)[i] = i
    BY <1>1, <1>7, <2>1, <2>2, Continued
  <2> QED BY <2>3, <2>4
<1>9. c \o fd = [i \in 1 .. arrived |-> i]
  <2> DEFINE e == c \o fd
  <2>1. e \in Seq(Int) /\ Len(e) = arrived /\ \A i \in 1 .. arrived : e[i] = i
    BY <1>8
  <2> HIDE DEF e, c
  <2>2. DOMAIN e = 1 .. arrived /\ e = [i \in DOMAIN e |-> e[i]]
    BY <2>1
  <2>3. e = [i \in 1 .. arrived |-> i]
    BY <2>1, <2>2
  <2> QED BY <2>3 DEF e
<1> QED BY <1>9

\* In every state of a connection the bytes come in order, the frames go out in order, and
\* a frame that waits has its event bit: close, the reader and the I/O thread may come in
\* any order.
THEOREM LinkIsSound == LinkSpec => []LinkIntact
<1>1. LInv => LinkIntact
  BY BytesInARow DEF LInv, LinkIntact, LinkTypes
<1> QED BY <1>1, InitLInv, StepLInv, PTL DEF LinkSpec

----------------------------------------------------------------------------
(* The window: the messages that core/dev and the window send.             *)

\* The paths of the devices.
Known == ToSet(Devices) \cup {None}
Msgs  == [kind : {"state"}, open : BOOLEAN, conn : BOOLEAN, reason : BOOLEAN]
         \cup [kind : {"rsp"}, ok : BOOLEAN] \cup [kind : {"connect"}, dev : ToSet(Devices)]
         \cup [kind : {"disconnect", "read"}]

\* The types: of the window, and of the port and the messages.
WinTypes ==
  /\ win \in {"idle", "connecting", "connected", "update"} /\ winOpen \in BOOLEAN /\ winConn \in BOOLEAN
  /\ autoIdx \in 0 .. Len(Devices) /\ pendIdx \in -1 .. Len(Devices) - 1
  /\ waitTicks \in 0 .. WaitLong /\ entry \in Known /\ reconnect \in Known
  /\ ports \in Seq(ToSet(Devices)) /\ Len(ports) <= Len(Devices)
\* What core/dev and the messages hold.
ComTypes ==
  /\ com \in {"off", "query", "rxtx"} /\ comDev \in Known /\ plugged \subseteq ToSet(Devices)
  /\ mq \in Seq(Msgs)

\* After its first i messages the queue q still says that the port closed.
Tells(q, i) == \E j \in DOMAIN q : j > i /\ q[j].kind = "state" /\ q[j].reason
\* Who has read the first i messages of q and takes the port for open, or for connected,
\* is right, or will be told.
Fits(q, i, c, o, n) ==
  /\ o => c # "off" \/ Tells(q, i)
  /\ n => c = "rxtx" \/ Tells(q, i)
\* Each message about the state tells the window no more than what was true.
Fresh(q, c) == \A i \in DOMAIN q : q[i].kind = "state" => Fits(q, i, c, q[i].open, q[i].conn)

Told == Fresh(mq, com) /\ Fits(mq, 0, com, winOpen, winConn \/ win = "connected")

\* The inductive invariant.
AInv == WinTypes /\ ComTypes /\ Told

----------------------------------------------------------------------------
(* The queue of messages.                                                  *)
LEMMA StateMsg ==
  ASSUME NEW o \in BOOLEAN, NEW n \in BOOLEAN, NEW x \in BOOLEAN
  PROVE  [kind |-> "state", open |-> o, conn |-> n, reason |-> x] \in Msgs
BY DEF Msgs

\* A message of another kind than the state tells nothing of it.
LEMMA OtherMsgs ==
  /\ \A b \in BOOLEAN : [kind |-> "rsp", ok |-> b] \in Msgs
  /\ \A d \in ToSet(Devices) : [kind |-> "connect", dev |-> d] \in Msgs
  /\ [kind |-> "disconnect"] \in Msgs /\ [kind |-> "read"] \in Msgs
BY DEF Msgs

\* What a message holds.
LEMMA MsgFields ==
  ASSUME NEW m \in Msgs, m.kind = "state"
  PROVE  m.open \in BOOLEAN /\ m.conn \in BOOLEAN /\ m.reason \in BOOLEAN
BY DEF Msgs

\* A message is posted behind the others.
LEMMA AppendIs ==
  ASSUME NEW q \in Seq(Msgs), NEW m \in Msgs
  PROVE  /\ Append(q, m) \in Seq(Msgs) /\ Len(q) \in Nat /\ DOMAIN q = 1 .. Len(q)
         /\ DOMAIN Append(q, m) = 1 .. Len(q) + 1
         /\ \A i \in 1 .. Len(q) : Append(q, m)[i] = q[i]
         /\ Append(q, m)[Len(q) + 1] = m
<1> HIDE DEF Msgs
<1> QED OBVIOUS

\* The first message is taken, the others follow.
LEMMA TailIs ==
  ASSUME NEW q \in Seq(Msgs), q # <<>>
  PROVE  /\ Tail(q) \in Seq(Msgs) /\ Len(q) \in Nat /\ Len(q) >= 1 /\ DOMAIN q = 1 .. Len(q)
         /\ DOMAIN Tail(q) = 1 .. Len(q) - 1 /\ Head(q) = q[1] /\ q[1] \in Msgs
         /\ \A i \in 1 .. Len(q) - 1 : Tail(q)[i] = q[i + 1]
OBVIOUS

\* What a message tells stays told when another is sent.
LEMMA TellsMore ==
  ASSUME NEW q \in Seq(Msgs), NEW m \in Msgs, NEW i \in Nat, Tells(q, i)
  PROVE  Tells(Append(q, m), i)
<1>1. PICK j \in DOMAIN q : j > i /\ q[j].kind = "state" /\ q[j].reason
  BY DEF Tells
<1>2. j \in DOMAIN Append(q, m) /\ Append(q, m)[j] = q[j]
  BY AppendIs
<1> QED BY <1>1, <1>2 DEF Tells

\* What was posted stays true of what follows it.
LEMMA FreshMore ==
  ASSUME NEW q \in Seq(Msgs), NEW m \in Msgs, NEW c, Fresh(q, c),
         m.kind = "state" => (m.open => c # "off") /\ (m.conn => c = "rxtx")
  PROVE  Fresh(Append(q, m), c)
<1> SUFFICES ASSUME NEW i \in DOMAIN Append(q, m), Append(q, m)[i].kind = "state"
             PROVE  Fits(Append(q, m), i, c, Append(q, m)[i].open, Append(q, m)[i].conn)
  BY DEF Fresh
<1>1. CASE i = Len(q) + 1
  BY <1>1, AppendIs DEF Fits
<1>2. CASE i # Len(q) + 1
  <2>1. i \in DOMAIN q /\ i \in Nat /\ Append(q, m)[i] = q[i]
    BY <1>2, AppendIs
  <2>2. Fits(q, i, c, q[i].open, q[i].conn)
    BY <2>1 DEF Fresh
  <2> QED BY <2>1, <2>2, TellsMore DEF Fits
<1> QED BY <1>1, <1>2

\* The message that the port closed puts everything right.
LEMMA ClosedTells ==
  ASSUME NEW q \in Seq(Msgs), NEW c
  PROVE  Closed \in Msgs /\ Fresh(Append(q, Closed), c) /\ Tells(Append(q, Closed), 0)
<1> DEFINE e == Append(q, Closed)
<1>1. /\ Closed \in Msgs /\ Closed.kind = "state" /\ Closed.reason = TRUE
      /\ Closed.open = FALSE /\ Closed.conn = FALSE
  BY StateMsg DEF Closed
<1>2. /\ Len(q) \in Nat /\ DOMAIN e = 1 .. Len(q) + 1 /\ e[Len(q) + 1] = Closed
  BY <1>1, AppendIs
<1> HIDE DEF e
<1>3. \A i \in 0 .. Len(q) : Tells(e, i)
  BY <1>1, <1>2 DEF Tells
<1>4. ASSUME NEW i \in DOMAIN e PROVE Fits(e, i, c, e[i].open, e[i].conn)
  <2>1. CASE i = Len(q) + 1
    BY <1>1, <1>2, <2>1 DEF Fits
  <2>2. CASE i # Len(q) + 1
    <3>1. i \in 0 .. Len(q)
      BY <1>2, <2>2
    <3> QED BY <1>3, <3>1 DEF Fits
  <2> QED BY <2>1, <2>2
<1>5. Fresh(e, c) /\ Tells(e, 0)
  BY <1>2, <1>3, <1>4 DEF Fresh
<1> QED BY <1>1, <1>5 DEF e

\* What the others tell does not depend on the one that was taken.
LEMMA TailTells ==
  ASSUME NEW q \in Seq(Msgs), q # <<>>
  PROVE  /\ \A i \in Nat : Tells(q, i + 1) => Tells(Tail(q), i)
         /\ Tells(q, 0) => Tells(Tail(q), 0) \/ (q[1].kind = "state" /\ q[1].reason)
<1> DEFINE t == Tail(q)
<1>1. /\ Len(q) \in Nat /\ DOMAIN q = 1 .. Len(q) /\ DOMAIN t = 1 .. Len(q) - 1
      /\ \A i \in 1 .. Len(q) - 1 : t[i] = q[i + 1]
  BY TailIs
<1> HIDE DEF t
<1>2. ASSUME NEW i \in Nat, NEW j \in DOMAIN q, j > i, j > 1, q[j].kind = "state", q[j].reason,
             NEW k \in Nat, j - 1 > k
      PROVE  Tells(t, k)
  <2>1. j - 1 \in DOMAIN t /\ t[j - 1] = q[j]
    <3>0. j \in 1 .. Len(q) /\ Len(q) \in Nat /\ j > 1
      BY <1>1, <1>2
    <3>1. j - 1 \in 1 .. Len(q) - 1 /\ (j - 1) + 1 = j
      BY <3>0
    <3> QED BY <1>1, <3>1
  <2> QED BY <1>2, <2>1 DEF Tells
<1>3. ASSUME NEW i \in Nat, Tells(q, i + 1) PROVE Tells(t, i)
  <2>1. PICK j \in DOMAIN q : j > i + 1 /\ q[j].kind = "state" /\ q[j].reason
    BY <1>3 DEF Tells
  <2>2. j \in Nat /\ j > i /\ j > 1 /\ j - 1 > i
    BY <1>1, <2>1
  <2> QED BY <1>2, <2>1, <2>2
<1>4. ASSUME Tells(q, 0), ~ (q[1].kind = "state" /\ q[1].reason) PROVE Tells(t, 0)
  <2>1. PICK j \in DOMAIN q : j > 0 /\ q[j].kind = "state" /\ q[j].reason
    BY <1>4 DEF Tells
  <2>2. j \in Nat /\ j > 0 /\ j > 1 /\ j - 1 > 0 /\ 0 \in Nat
    BY <1>1, <1>4, <2>1
  <2> QED BY <1>2, <2>1, <2>2
<1> QED BY <1>3, <1>4 DEF t

\* The others stay true when the first is taken.
LEMMA FreshTail ==
  ASSUME NEW q \in Seq(Msgs), q # <<>>, NEW c, Fresh(q, c)
  PROVE  /\ Fresh(Tail(q), c)
         /\ q[1].kind = "state" => Fits(Tail(q), 0, c, q[1].open, q[1].conn)
<1> DEFINE t == Tail(q)
<1>1. /\ Len(q) \in Nat /\ Len(q) >= 1 /\ DOMAIN q = 1 .. Len(q) /\ DOMAIN t = 1 .. Len(q) - 1
      /\ \A i \in 1 .. Len(q) - 1 : t[i] = q[i + 1]
      /\ \A i \in Nat : Tells(q, i + 1) => Tells(t, i)
  BY TailIs, TailTells
<1> HIDE DEF t
<1>2. ASSUME NEW i \in DOMAIN t, t[i].kind = "state" PROVE Fits(t, i, c, t[i].open, t[i].conn)
  <2>1. i + 1 \in DOMAIN q /\ t[i] = q[i + 1] /\ i \in Nat
    BY <1>1
  <2>2. Fits(q, i + 1, c, q[i + 1].open, q[i + 1].conn)
    BY <1>2, <2>1 DEF Fresh
  <2> QED BY <1>1, <2>1, <2>2 DEF Fits
<1>3. ASSUME q[1].kind = "state" PROVE Fits(t, 0, c, q[1].open, q[1].conn)
  <2>1. 1 \in DOMAIN q /\ 0 \in Nat /\ 0 + 1 = 1
    BY <1>1
  <2>2. Fits(q, 1, c, q[1].open, q[1].conn)
    BY <1>3, <2>1 DEF Fresh
  <2>3. Tells(q, 1) => Tells(t, 0)
    BY <1>1, <2>1
  <2> QED BY <2>2, <2>3 DEF Fits
<1>4. Fresh(t, c)
  BY <1>2 DEF Fresh
<1> QED BY <1>3, <1>4 DEF t

\* A port that is opened, or answered, disappoints nobody.
LEMMA FreshUp ==
  ASSUME NEW q, NEW c, NEW d, c = "off" \/ (c = "query" /\ d = "rxtx"), d # "off"
  PROVE  /\ Fresh(q, c) => Fresh(q, d)
         /\ \A i, o, n : Fits(q, i, c, o, n) => Fits(q, i, d, o, n)
BY DEF Fresh, Fits

----------------------------------------------------------------------------
(* The list of the devices that are there.                                 *)
LEMMA HereFinite ==
  ASSUME NEW T, T \in SUBSET Here
  PROVE  IsFiniteSet(T) /\ Cardinality(T) \in Nat /\ Cardinality(T) <= Len(Devices)
<1>1. Len(Devices) \in Nat /\ DOMAIN Devices = 1 .. Len(Devices)
  BY AutoAssumption
<1>2. IsFiniteSet(1 .. Len(Devices)) /\ Cardinality(1 .. Len(Devices)) = Len(Devices)
  <2>1. /\ IsFiniteSet(1 .. Len(Devices))
        /\ Cardinality(1 .. Len(Devices)) = IF 1 > Len(Devices) THEN 0 ELSE Len(Devices) - 1 + 1
    <3>1. 1 \in Int /\ Len(Devices) \in Int
      BY <1>1
    <3> QED BY <3>1, FS_Interval, Zenon
  <2> QED BY <1>1, <2>1
<1>3. T \subseteq 1 .. Len(Devices)
  BY <1>1 DEF Here
<1> QED BY <1>2, <1>3, FS_Subset, FS_CardinalityType

\* The entry of the combo box is a device that is there.
LEMMA NthIsThere ==
  ASSUME NEW k \in 1 .. Cardinality(Here)
  PROVE  Nth(k) \in DOMAIN Devices
<1> DEFINE S == {i \in Here : k <= Cardinality(Upto(i))}
<1>1. Len(Devices) \in Nat /\ DOMAIN Devices = 1 .. Len(Devices) /\ Here \in SUBSET (1 .. Len(Devices))
  BY AutoAssumption DEF Here
<1>2. Here # {}
  <2>1. SUFFICES ASSUME Here = {} PROVE FALSE
    OBVIOUS
  <2>2. Cardinality(Here) = 0
    BY <2>1, FS_EmptySet
  <2> QED BY <2>2
<1>3. Max(Here) \in Here /\ \A y \in Here : y <= Max(Here)
  BY <1>1, <1>2, MaxIsIn
<1>4. Upto(Max(Here)) = Here
  BY <1>3 DEF Upto
<1>5. Max(Here) \in S /\ S \in SUBSET Nat /\ S # {}
  <2>1. Cardinality(Here) \in Nat
    <3>1. Here \in SUBSET Here
      OBVIOUS
    <3> QED BY <3>1, HereFinite
  <2>3. k <= Cardinality(Upto(Max(Here)))
    BY <1>4, <2>1
  <2>4. Max(Here) \in S
    BY <1>3, <2>3
  <2>5. S \in SUBSET Nat
    <3>1. \A i \in Here : i \in Nat
      BY <1>1
    <3>2. \A i \in S : i \in Here
      OBVIOUS
    <3> HIDE DEF S
    <3> QED BY <3>1, <3>2
  <2> QED BY <2>4, <2>5
<1>6. PICK x \in S : \A y \in S : x <= y
  BY <1>5, NatMin
<1>7. Min(S) \in S
  <2> HIDE DEF S
  <2> QED BY <1>6 DEF Min
<1>8. Nth(k) \in S
  BY <1>7 DEF Nth
<1> QED BY <1>1, <1>8

\* The list of the devices holds the paths that are there.
LEMMA PresentOK ==
  /\ Present \in Seq(ToSet(Devices)) /\ Len(Present) <= Len(Devices)
  /\ Len(Present) \in Nat /\ DOMAIN Present = 1 .. Len(Present)
<1>1. Cardinality(Here) \in Nat /\ Cardinality(Here) <= Len(Devices)
  BY HereFinite
<1>2. \A k \in 1 .. Cardinality(Here) : Devices[Nth(k)] \in ToSet(Devices)
  BY NthIsThere DEF ToSet
<1>3. Present \in [1 .. Cardinality(Here) -> ToSet(Devices)]
  BY <1>2 DEF Present
<1> QED BY <1>1, <1>3, FcnIsSeq

----------------------------------------------------------------------------
(* The window's own steps.                                                 *)
LEMMA WantedOK ==
  ASSUME WinTypes
  PROVE  Wanted \in 0 .. Len(Devices)
<1> DEFINE P == Present
<1>1. /\ P \in Seq(ToSet(Devices)) /\ Len(P) <= Len(Devices) /\ Len(P) \in Nat
      /\ DOMAIN P = 1 .. Len(P) /\ Len(Devices) \in Nat
  BY PresentOK, AutoAssumption
<1>2. Wanted = IF reconnect = None THEN autoIdx
               ELSE IF reconnect \in ToSet(P) THEN CHOOSE i \in 0 .. Len(P) - 1 : P[i + 1] = reconnect
               ELSE Len(P)
  BY DEF Wanted
<1> HIDE DEF P
<1>3. ASSUME reconnect \in ToSet(P)
      PROVE  (CHOOSE i \in 0 .. Len(P) - 1 : P[i + 1] = reconnect) \in 0 .. Len(P) - 1
  <2>1. PICK k \in 1 .. Len(P) : P[k] = reconnect
    BY <1>1, <1>3 DEF ToSet
  <2>2. k - 1 \in 0 .. Len(P) - 1 /\ P[(k - 1) + 1] = reconnect
    BY <1>1, <2>1
  <2> QED BY <2>2
<1>4. autoIdx \in 0 .. Len(Devices)
  BY DEF WinTypes
<1>5. CASE reconnect = None
  BY <1>2, <1>4, <1>5
<1>6. CASE reconnect # None /\ reconnect \in ToSet(P)
  <2>1. Wanted \in 0 .. Len(P) - 1
    BY <1>2, <1>3, <1>6
  <2> QED BY <1>1, <2>1
<1>7. CASE reconnect # None /\ reconnect \notin ToSet(P)
  BY <1>1, <1>2, <1>7
<1> QED BY <1>5, <1>6, <1>7

\* Each step of core/dev keeps the messages true.
LEMMA ManagerOK ==
  ASSUME WinTypes, NEW w \in 0 .. WaitLong, NEW q, Manager(w, q)
  PROVE  /\ win' \in {"idle", "connecting", "connected", "update"}
         /\ win' = "connected" => win = "connected"
         /\ autoIdx' \in 0 .. Len(Devices) /\ pendIdx' \in -1 .. Len(Devices) - 1
         /\ waitTicks' \in 0 .. WaitLong
         /\ reconnect' \in Known \cup {entry}
         /\ ports' \in Seq(ToSet(Devices)) /\ Len(ports') <= Len(Devices)
         /\ \/ mq' = q
            \/ \E d \in ToSet(Devices) : mq' = Append(q, [kind |-> "connect", dev |-> d])
<1> USE DEF WinTypes
<1>0. WaitLong \in 0 .. WaitLong /\ None \in Known
  BY AutoAssumption DEF Known
<1>1. CASE fw = "running"
  BY <1>1 DEF Manager, Update
<1>2. CASE fw # "running" /\ win = "update"
  BY <1>0, <1>2 DEF Manager
<1>3. CASE fw # "running" /\ win # "update" /\ (w > 0 \/ ~(AutoOn \/ afterUpdate))
  <2>1. /\ waitTicks' = w /\ mq' = q /\ ports' \in {ports, Present}
        /\ UNCHANGED <<win, autoIdx, pendIdx, reconnect>>
    BY <1>3 DEF Manager
  <2> QED BY <2>1, PresentOK
<1>4. CASE fw # "running" /\ win # "update" /\ ~(w > 0 \/ ~(AutoOn \/ afterUpdate))
  <2> DEFINE i == StartIdx(Present, Wanted)
  <2>1. waitTicks' = w /\ ports' = Present /\ reconnect' = None
    BY <1>4 DEF Manager
  <2>2. CASE Present = <<>>
    <3>1. autoIdx' = Wanted /\ mq' = q /\ UNCHANGED <<win, pendIdx>>
      BY <1>4, <2>2 DEF Manager
    <3> QED BY <1>0, <2>1, <3>1, PresentOK, WantedOK
  <2>3. CASE Present # <<>>
    <3>1. /\ autoIdx' = i /\ pendIdx' = i /\ win' = "connecting"
          /\ mq' = Append(q, [kind |-> "connect", dev |-> Present[i + 1]])
      BY <1>4, <2>3 DEF Manager
    <3>2. Len(Present) \in Nat /\ Len(Present) >= 1 /\ Len(Present) <= Len(Devices)
      BY <2>3, PresentOK
    <3>3. i \in 0 .. Len(Present) - 1
      BY <3>2, WantedOK DEF StartIdx
    <3> HIDE DEF i
    <3>4. i + 1 \in 1 .. Len(Present) /\ i \in 0 .. Len(Devices) /\ i \in -1 .. Len(Devices) - 1
      BY <3>2, <3>3, AutoAssumption
    <3>5. Present[i + 1] \in ToSet(Devices)
      BY <3>4, PresentOK
    <3> QED BY <1>0, <2>1, <3>1, <3>4, <3>5, PresentOK
  <2> QED BY <2>2, <2>3
<1> QED BY <1>1, <1>2, <1>3, <1>4

\* What is sent by who does not close the port: all that was told remains so.
LEMMA SentMore ==
  ASSUME NEW q \in Seq(Msgs), NEW c, Fresh(q, c), NEW m \in Msgs,
         m.kind = "state" => (m.open => c # "off") /\ (m.conn => c = "rxtx")
  PROVE  /\ Append(q, m) \in Seq(Msgs) /\ Fresh(Append(q, m), c)
         /\ Tells(q, 0) => Tells(Append(q, m), 0)
BY AppendIs, FreshMore, TellsMore

\* The timer of the window keeps them true.
LEMMA TimerOK ==
  ASSUME AInv, timerEvent
  PROVE  AInv'
<1> DEFINE q == IF pollTick = 0 THEN Append(mq, [kind |-> "read"]) ELSE mq
           w == Max({waitTicks - 1, 0})
           connects(r) == \E d \in ToSet(Devices) : r = Append(q, [kind |-> "connect", dev |-> d])
<1>1. WinTypes /\ ComTypes /\ Told
  BY DEF AInv
<1>2. w \in 0 .. WaitLong
  BY <1>1, AutoAssumption, MaxOfTwo DEF WinTypes
<1>3. q \in Seq(Msgs) /\ Fresh(q, com) /\ (Tells(mq, 0) => Tells(q, 0))
  <2>1. [kind |-> "read"] \in Msgs /\ [kind |-> "read"].kind # "state"
    BY OtherMsgs
  <2> QED BY <1>1, <2>1, SentMore DEF ComTypes, Told
<1>4. /\ (winOpen' => winOpen) /\ (winConn' => winConn) /\ winOpen' \in BOOLEAN /\ winConn' \in BOOLEAN
      /\ UNCHANGED <<entry, com, comDev, plugged>>
  BY <1>1 DEF timerEvent, comVars, WinTypes
<1>5. /\ win' \in {"idle", "connecting", "connected", "update"}
      /\ win' = "connected" => win = "connected"
      /\ autoIdx' \in 0 .. Len(Devices) /\ pendIdx' \in -1 .. Len(Devices) - 1
      /\ waitTicks' \in 0 .. WaitLong /\ reconnect' \in Known \cup {entry}
      /\ ports' \in Seq(ToSet(Devices)) /\ Len(ports') <= Len(Devices)
      /\ mq' = q \/ mq' = Append(q, [kind |-> "disconnect"]) \/ connects(mq')
  <2> HIDE DEF q, w
  <2>1. CASE Manager(w, q)
    <3> HIDE DEF WinTypes
    <3> QED BY <1>1, <1>2, <2>1, ManagerOK
  <2>2. CASE /\ fw = "running"
             /\ Update /\ afterUpdate' = TRUE /\ waitTicks' = w
             /\ mq' = Append(q, [kind |-> "disconnect"])
             /\ UNCHANGED <<ports, autoIdx, pendIdx, pendAuto>>
    BY <1>1, <1>2, <2>2 DEF Update, WinTypes
  <2>3. CASE /\ fw # "running" /\ waitTicks' = w /\ mq' = q
             /\ UNCHANGED <<win, ports, autoIdx, pendIdx, pendAuto, reconnect, afterUpdate, fwOver>>
    BY <1>1, <1>2, <2>3 DEF WinTypes
  <2> QED BY <2>1, <2>2, <2>3 DEF timerEvent, q, w
<1> HIDE DEF q
<1>6. mq' \in Seq(Msgs) /\ Fresh(mq', com) /\ (Tells(q, 0) => Tells(mq', 0))
  <2>1. CASE mq' = q
    BY <1>3, <2>1
  <2>2. CASE mq' = Append(q, [kind |-> "disconnect"])
    <3>1. [kind |-> "disconnect"] \in Msgs /\ [kind |-> "disconnect"].kind # "state"
      BY OtherMsgs
    <3> QED BY <1>3, <2>2, <3>1, SentMore
  <2>3. CASE connects(mq')
    <3>1. PICK d \in ToSet(Devices) : mq' = Append(q, [kind |-> "connect", dev |-> d])
      BY <2>3
    <3>2. [kind |-> "connect", dev |-> d] \in Msgs /\ [kind |-> "connect", dev |-> d].kind # "state"
      BY OtherMsgs
    <3> QED BY <1>3, <3>1, <3>2, SentMore
  <2> QED BY <1>5, <2>1, <2>2, <2>3
<1>7. WinTypes'
  BY <1>1, <1>4, <1>5 DEF WinTypes
<1>8. ComTypes'
  BY <1>1, <1>4, <1>6 DEF ComTypes
<1>9. Told'
  BY <1>1, <1>3, <1>4, <1>5, <1>6 DEF Told, Fits
<1> QED BY <1>7, <1>8, <1>9 DEF AInv

\* devConnectClicked, devDisconnectClicked and getComPorts
LEMMA ClicksOK ==
  ASSUME AInv,
         \/ devDisconnectClicked \/ getComPorts
         \/ \E i \in DOMAIN ports : devConnectClicked(i)
  PROVE  AInv'
<1>1. WinTypes /\ ComTypes /\ Told
  BY DEF AInv
<1>2. CASE devDisconnectClicked
  <2>1. /\ mq' = Append(mq, [kind |-> "disconnect"]) /\ UNCHANGED <<com, comDev, plugged>>
        /\ UNCHANGED <<ports, autoIdx, waitTicks, entry, pendIdx, winOpen, winConn>>
        /\ win' \in {"idle", "update", win} /\ reconnect' \in {reconnect, entry}
    BY <1>2 DEF devDisconnectClicked, Disconnect, Update, comVars
  <2>2. [kind |-> "disconnect"] \in Msgs /\ [kind |-> "disconnect"].kind # "state"
    BY OtherMsgs
  <2>3. mq' \in Seq(Msgs) /\ Fresh(mq', com) /\ (Tells(mq, 0) => Tells(mq', 0))
    BY <1>1, <2>1, <2>2, SentMore DEF ComTypes, Told
  <2>4. WinTypes' /\ ComTypes'
    BY <1>1, <2>1, <2>3 DEF WinTypes, ComTypes
  <2>5. Told'
    BY <1>1, <2>1, <2>3 DEF Told, Fits
  <2> QED BY <2>4, <2>5 DEF AInv
<1>3. CASE getComPorts
  <2>1. ports' = Present /\ UNCHANGED <<com, comDev, plugged, mq>>
        /\ UNCHANGED <<win, autoIdx, waitTicks, entry, reconnect, pendIdx, winOpen, winConn>>
    BY <1>3 DEF getComPorts, comVars
  <2>2. WinTypes' /\ ComTypes'
    BY <1>1, <2>1, PresentOK DEF WinTypes, ComTypes
  <2>3. Told'
    BY <1>1, <2>1 DEF Told
  <2> QED BY <2>2, <2>3 DEF AInv
<1>4. ASSUME NEW i \in DOMAIN ports, devConnectClicked(i) PROVE AInv'
  <2>1. /\ pendIdx' = i - 1 /\ win' = "connecting"
        /\ mq' = Append(mq, [kind |-> "connect", dev |-> ports[i]])
        /\ UNCHANGED <<com, comDev, plugged>>
        /\ UNCHANGED <<ports, autoIdx, waitTicks, entry, reconnect, winOpen, winConn>>
    BY <1>4 DEF devConnectClicked, comVars
  <2>2. ports[i] \in ToSet(Devices) /\ i - 1 \in -1 .. Len(Devices) - 1
    BY <1>1, AutoAssumption DEF WinTypes
  <2>3. /\ [kind |-> "connect", dev |-> ports[i]] \in Msgs
        /\ [kind |-> "connect", dev |-> ports[i]].kind # "state"
    BY <2>2, OtherMsgs
  <2>4. mq' \in Seq(Msgs) /\ Fresh(mq', com) /\ (Tells(mq, 0) => Tells(mq', 0))
    BY <1>1, <2>1, <2>3, SentMore DEF ComTypes, Told
  <2>5. WinTypes' /\ ComTypes'
    BY <1>1, <2>1, <2>2, <2>4 DEF WinTypes, ComTypes
  <2>6. Told'
    BY <1>1, <2>1, <2>4 DEF Told, Fits
  <2> QED BY <2>5, <2>6 DEF AInv
<1> QED BY <1>2, <1>3, <1>4

----------------------------------------------------------------------------
(* What core/dev, the port and the devices do.                             *)

\* The state that is sent is the state the port has.
LEMMA StateIs ==
  /\ State(FALSE) \in Msgs
  /\ (State(FALSE).open => com # "off") /\ (State(FALSE).conn => com = "rxtx")
<1>1. (com # "off") \in BOOLEAN /\ (com = "rxtx") \in BOOLEAN /\ FALSE \in BOOLEAN
  OBVIOUS
<1>2. State(FALSE) \in Msgs
  BY <1>1, StateMsg, Zenon DEF State
<1> QED BY <1>2 DEF State

\* A port that closes with the messages q under way.
LEMMA ShutOK ==
  ASSUME AInv, NEW q \in Seq(Msgs), Shut(q), UNCHANGED winVars, UNCHANGED plugged
  PROVE  AInv'
<1>1. WinTypes /\ ComTypes /\ Told
  BY DEF AInv
<1>2. com' = "off" /\ comDev' = None /\ mq' = Append(q, Closed)
  BY DEF Shut
<1>3. Closed \in Msgs /\ Fresh(mq', "off") /\ Tells(mq', 0)
  BY <1>2, ClosedTells
<1>4. WinTypes'
  BY <1>1 DEF WinTypes, winVars
<1>5. ComTypes'
  BY <1>1, <1>2, <1>3, AppendIs DEF ComTypes, Known
<1>6. Told'
  BY <1>2, <1>3 DEF Told, Fits
<1> QED BY <1>4, <1>5, <1>6 DEF AInv

\* A port that opens, fails or goes away keeps them true.
LEMMA PortOK ==
  ASSUME AInv, ComConnected \/ FirstPacket \/ ForceReconnect \/ PortError
  PROVE  AInv'
<1>1. WinTypes /\ ComTypes /\ Told
  BY DEF AInv
<1>2. CASE ComConnected
  <2>1. com = "query" /\ com' = "rxtx" /\ UNCHANGED <<winVars, comDev, plugged, mq>>
    BY <1>2 DEF ComConnected
  <2>2. Fresh(mq, "rxtx")
    BY <1>1, <2>1, FreshUp DEF Told
  <2>3. WinTypes' /\ ComTypes'
    BY <1>1, <2>1 DEF WinTypes, ComTypes, winVars
  <2>4. Told'
    BY <1>1, <2>1, <2>2 DEF Told, Fits, winVars
  <2> QED BY <2>3, <2>4 DEF AInv
<1>3. CASE FirstPacket
  <2>1. mq' = Append(mq, State(FALSE)) /\ UNCHANGED <<winVars, com, comDev, plugged>>
    BY <1>3 DEF FirstPacket
  <2>2. mq' \in Seq(Msgs) /\ Fresh(mq', com) /\ (Tells(mq, 0) => Tells(mq', 0))
    BY <1>1, <2>1, StateIs, SentMore DEF ComTypes, Told
  <2>3. WinTypes' /\ ComTypes'
    BY <1>1, <2>1, <2>2 DEF WinTypes, ComTypes, winVars
  <2>4. Told'
    BY <1>1, <2>1, <2>2 DEF Told, Fits, winVars
  <2> QED BY <2>3, <2>4 DEF AInv
<1>4. CASE ForceReconnect \/ PortError
  <2>1. Shut(mq) /\ UNCHANGED winVars /\ UNCHANGED plugged /\ mq \in Seq(Msgs)
    BY <1>1, <1>4 DEF ForceReconnect, PortError, ComTypes
  <2> QED BY <2>1, ShutOK
<1> QED BY <1>2, <1>3, <1>4

\* handleDeviceStateNotification and handleConnectResponse, at the head of the queue.
LEMMA HeardOK ==
  ASSUME AInv, mq # <<>>, mq' = Tail(mq), UNCHANGED <<com, comDev, plugged>>,
         \/ /\ mq[1].kind = "state" /\ StateArrives(mq[1])
            /\ UNCHANGED <<ports, entry, pendIdx>>
         \/ /\ mq[1].kind = "rsp" /\ Response(mq[1].ok)
            /\ UNCHANGED <<ports, reconnect, winOpen, winConn>>
  PROVE  AInv'
<1>1. WinTypes /\ ComTypes /\ Told
  BY DEF AInv
<1>2. WaitLong \in 0 .. WaitLong /\ WaitShort \in 0 .. WaitLong /\ NextIdx \in 0 .. Len(Devices)
  <2>1. autoIdx + 1 \in Nat /\ Len(Devices) \in Nat
    BY <1>1, AutoAssumption DEF WinTypes
  <2>2. NextIdx = IF autoIdx + 1 <= Len(Devices) THEN autoIdx + 1 ELSE Len(Devices)
    BY <2>1, MinOfTwo DEF NextIdx
  <2> QED BY <2>1, <2>2, AutoAssumption
<1>3. /\ mq \in Seq(Msgs) /\ mq[1] \in Msgs /\ Fresh(mq, com) /\ Tail(mq) \in Seq(Msgs)
      /\ Fresh(Tail(mq), com)
      /\ Tells(mq, 0) => Tells(Tail(mq), 0) \/ (mq[1].kind = "state" /\ mq[1].reason)
      /\ mq[1].kind = "state" => Fits(Tail(mq), 0, com, mq[1].open, mq[1].conn)
  BY <1>1, TailIs, FreshTail, TailTells DEF ComTypes, Told
<1>4. ComTypes'
  BY <1>1, <1>3 DEF ComTypes
<1>5. CASE mq[1].kind = "state" /\ StateArrives(mq[1]) /\ UNCHANGED <<ports, entry, pendIdx>>
  <2> DEFINE m == mq[1]
  <2>1. m.open \in BOOLEAN /\ m.conn \in BOOLEAN /\ m.reason \in BOOLEAN
    BY <1>3, <1>5, MsgFields
  <2>2. /\ winOpen' = m.open /\ winConn' = m.conn
        /\ waitTicks' \in 0 .. WaitLong /\ autoIdx' \in 0 .. Len(Devices)
        /\ win' \in {"idle", "connecting", "connected", "update"} /\ reconnect' \in Known
        /\ win' = "connected" => m.conn \/ (~m.reason /\ win = "connected")
    BY <1>1, <1>2, <1>5 DEF StateArrives, Seen, WinTypes
  <2> HIDE DEF m
  <2>3. WinTypes'
    BY <1>1, <1>5, <2>1, <2>2 DEF WinTypes
  <2>4. Told'
    BY <1>1, <1>3, <1>5, <2>2 DEF Told, Fits, m
  <2> QED BY <1>4, <2>3, <2>4 DEF AInv
<1>6. CASE mq[1].kind = "rsp" /\ Response(mq[1].ok) /\ UNCHANGED <<ports, reconnect, winOpen, winConn>>
  <2>1. /\ pendIdx' = -1 /\ entry' \in Known
        /\ win' \in {"idle", win} /\ waitTicks' \in 0 .. WaitLong /\ autoIdx' \in 0 .. Len(Devices)
    <3>1. pendIdx \in 0 .. Len(ports) - 1 => ports[pendIdx + 1] \in Known
      BY <1>1 DEF WinTypes, Known
    <3> QED BY <1>1, <1>2, <1>6, <3>1 DEF Response, WinTypes
  <2>2. WinTypes'
    BY <1>1, <1>6, <2>1, AutoAssumption DEF WinTypes
  <2>3. Told'
    BY <1>1, <1>3, <1>6, <2>1 DEF Told, Fits
  <2> QED BY <1>4, <2>2, <2>3 DEF AInv
<1> QED BY <1>5, <1>6

\* A message that arrives tells the window what it told before.
LEMMA DeliverOK ==
  ASSUME AInv, Deliver
  PROVE  AInv'
<1> DEFINE m == mq[1]
           t == Tail(mq)
<1>1. WinTypes /\ ComTypes /\ Told /\ mq # <<>> /\ mq \in Seq(Msgs) /\ UNCHANGED plugged
  BY DEF AInv, Deliver, ComTypes
<1>2. Head(mq) = m /\ m \in Msgs /\ t \in Seq(Msgs)
  BY <1>1, TailIs
<1>3. /\ Fresh(t, com)
      /\ m.kind # "state" => (Tells(mq, 0) => Tells(t, 0))
  BY <1>1, FreshTail, TailTells DEF Told
<1>4. \/ m.kind = "connect" /\ Connect(m) /\ UNCHANGED winVars
      \/ /\ m.kind = "disconnect" /\ UNCHANGED winVars
         /\ IF com = "off" THEN mq' = t /\ UNCHANGED comVars ELSE Shut(t)
      \/ m.kind = "read" /\ mq' = Append(t, State(FALSE)) /\ UNCHANGED <<winVars, comVars>>
      \/ /\ m.kind = "state" /\ StateArrives(m) /\ mq' = t
         /\ UNCHANGED <<ports, entry, pendIdx, pendAuto, afterUpdate, pollTick, comVars>>
      \/ /\ m.kind = "rsp" /\ Response(m.ok) /\ mq' = t
         /\ UNCHANGED <<ports, reconnect, winOpen, winConn, afterUpdate, pollTick, comVars>>
  BY <1>2 DEF Deliver
<1>5. CASE m.kind = "connect" /\ Connect(m) /\ UNCHANGED winVars
  <2> DEFINE ok == com = "off" /\ m.dev \in plugged
             r  == [kind |-> "rsp", ok |-> ok]
  <2>1. mq' = Append(t, r) /\ ( \/ com = "off" /\ com' = "query" /\ comDev' = m.dev
                                \/ UNCHANGED <<com, comDev>> )
    BY <1>5 DEF Connect, comVars
  <2>2. r \in Msgs /\ r.kind = "rsp"
    <3>1. ok \in BOOLEAN
      OBVIOUS
    <3> QED BY <3>1, OtherMsgs, Zenon
  <2> HIDE DEF r
  <2>3. mq' \in Seq(Msgs) /\ Fresh(mq', com) /\ (Tells(mq, 0) => Tells(mq', 0))
    BY <1>2, <1>3, <1>5, <2>1, <2>2, SentMore
  <2>4. Fresh(mq', com')
    BY <2>1, <2>3, FreshUp
  <2>5. m.dev \in Known
    BY <1>2, <1>5 DEF Msgs, Known
  <2>6. WinTypes' /\ ComTypes'
    BY <1>1, <1>5, <2>1, <2>3, <2>5 DEF WinTypes, ComTypes, winVars
  <2>7. Told'
    BY <1>1, <1>5, <2>1, <2>3, <2>4 DEF Told, Fits, winVars
  <2> QED BY <2>6, <2>7 DEF AInv
<1>6. CASE m.kind = "disconnect" /\ UNCHANGED winVars /\ com # "off" /\ Shut(t)
  BY <1>1, <1>2, <1>6, ShutOK
<1>7. CASE m.kind = "disconnect" /\ UNCHANGED winVars /\ mq' = t /\ UNCHANGED comVars
  <2>1. WinTypes' /\ ComTypes'
    BY <1>1, <1>2, <1>7 DEF WinTypes, ComTypes, winVars, comVars
  <2>2. Told'
    BY <1>1, <1>3, <1>7 DEF Told, Fits, winVars, comVars
  <2> QED BY <2>1, <2>2 DEF AInv
<1>8. CASE m.kind = "read" /\ mq' = Append(t, State(FALSE)) /\ UNCHANGED <<winVars, comVars>>
  <2>1. mq' \in Seq(Msgs) /\ Fresh(mq', com) /\ (Tells(mq, 0) => Tells(mq', 0))
    BY <1>2, <1>3, <1>8, StateIs, SentMore
  <2>2. WinTypes' /\ ComTypes'
    BY <1>1, <1>8, <2>1 DEF WinTypes, ComTypes, winVars, comVars
  <2>3. Told'
    BY <1>1, <1>8, <2>1 DEF Told, Fits, winVars, comVars
  <2> QED BY <2>2, <2>3 DEF AInv
<1>9. CASE /\ mq' = t /\ UNCHANGED comVars
           /\ \/ m.kind = "state" /\ StateArrives(m) /\ UNCHANGED <<ports, entry, pendIdx>>
              \/ m.kind = "rsp" /\ Response(m.ok) /\ UNCHANGED <<ports, reconnect, winOpen, winConn>>
  <2>1. UNCHANGED <<com, comDev, plugged>>
    BY <1>1, <1>9 DEF comVars
  <2> QED BY <1>1, <1>9, <2>1, HeardOK
<1> QED BY <1>4, <1>5, <1>6, <1>7, <1>8, <1>9

\* Devices come and go, the firmware is updated.
LEMMA OthersOK ==
  ASSUME AInv,
         \/ \E d \in ToSet(Devices) : Plug(d)
         \/ UpdateBegins \/ UpdateEnds \/ UpdateOver
  PROVE  AInv'
<1>1. WinTypes /\ ComTypes /\ Told
  BY DEF AInv
<1>2. UNCHANGED <<winVars, comVars, mq>> /\ plugged' \subseteq ToSet(Devices)
  BY <1>1 DEF Plug, UpdateBegins, UpdateEnds, UpdateOver, ComTypes
<1>3. WinTypes' /\ ComTypes'
  BY <1>1, <1>2 DEF WinTypes, ComTypes, winVars, comVars
<1>4. Told'
  BY <1>1, <1>2 DEF Told, winVars, comVars
<1> QED BY <1>3, <1>4 DEF AInv

----------------------------------------------------------------------------
\* At the start the window is off and nothing is under way.
LEMMA AutoStarts ==
  ASSUME AutoInit
  PROVE  AInv
<1>1. /\ Devices \in Seq(ToSet(Devices)) /\ Len(Devices) \in Nat /\ WaitLong \in Nat
  BY AutoAssumption
<1>2. WinTypes
  <2>1. 0 \in 0 .. Len(Devices) /\ -1 \in -1 .. Len(Devices) - 1 /\ 0 \in 0 .. WaitLong
    BY <1>1
  <2>2. Len(Devices) <= Len(Devices) /\ None \in Known /\ FALSE \in BOOLEAN
    BY <1>1 DEF Known
  <2>3. /\ win = "idle" /\ winOpen = FALSE /\ winConn = FALSE /\ autoIdx = 0 /\ pendIdx = -1
        /\ waitTicks = 0 /\ entry = None /\ reconnect = None /\ ports = Devices
    BY DEF AutoInit
  <2> QED BY <1>1, <2>1, <2>2, <2>3 DEF WinTypes
<1>3. ComTypes
  BY <1>1 DEF AutoInit, ComTypes, Known
<1>4. Told
  BY DEF AutoInit, Told, Fresh, Fits
<1> QED BY <1>2, <1>3, <1>4 DEF AInv

\* The invariant is inductive.
LEMMA AutoSteps ==
  ASSUME AInv, [AutoNext]_autoVars
  PROVE  AInv'
<1>1. CASE UNCHANGED autoVars
  <2>1. UNCHANGED <<winVars, comVars, mq, plugged>>
    BY <1>1 DEF autoVars
  <2>2. WinTypes' /\ ComTypes' /\ Told'
    BY <2>1 DEF AInv, WinTypes, ComTypes, Told, winVars, comVars
  <2> QED BY <2>2 DEF AInv
<1>2. CASE AutoNext
  BY <1>2, TimerOK, ClicksOK, PortOK, DeliverOK, OthersOK DEF AutoNext
<1> QED BY <1>1, <1>2

\* With nothing under way nothing is told any more: the window is right.
LEMMA ToldIsSafe ==
  ASSUME AInv
  PROVE  WindowSafe
<1>1. WinTypes /\ ComTypes /\ Told
  BY DEF AInv
<1>2. AutoTypeOK
  BY <1>1 DEF AutoTypeOK, WinTypes, ComTypes, Known
<1>3. mq = <<>> => ~ Tells(mq, 0)
  BY DEF Tells
<1> QED BY <1>1, <1>2, <1>3 DEF WindowSafe, Told, Fits

\* Whatever the number of devices, ticks to wait and messages under way, and in whichever
\* order timer, clicks, polls and the port's own messages cross: a window that has read all
\* messages does not take a closed port for open, nor one that does not run for connected
\* (handleDeviceStateNotification, handleConnectResponse, timerEvent of mainwindow.cpp).
THEOREM WindowIsSound == AutoSpec => []WindowSafe
<1>1. AutoInit => AInv
  BY AutoStarts
<1>2. AInv /\ [AutoNext]_autoVars => AInv'
  BY AutoSteps
<1>3. AInv => WindowSafe
  BY ToldIsSafe
<1> QED BY <1>1, <1>2, <1>3, PTL DEF AutoSpec

----------------------------------------------------------------------------
(* The tree: one request at a time, and answers are about their fetchers.  *)

\* The names in directories, fetchers and messages.
Words  == {".actor", "devices", "name", "state"} \cup VfsNodes
States == {"start", "wait"}
DirRec == [path : Paths, index : Nat, state : States, tries : 0 .. MaxTries - 1, tag : Nat]
ValRec == [path : Paths, state : States, tries : {0, 1}, tag : Nat]
AskRec == [kind : {"list", "read"}, path : Paths, index : Nat, tag : Nat \ {0}]

\* The names are of entries there may be in the directory p.
FitsIn(p, names) == names \in Seq(Words) /\ \A i \in DOMAIN names : Append(p, names[i]) \in Paths

ListRec == [kind : {"list"}, path : Paths, tag : Nat \ {0}, ok : BOOLEAN, next : Nat, names : Seq(Words)]
ReadRec == [kind : {"read"}, path : Paths, tag : Nat \ {0}, ok : BOOLEAN, value : {0, 1}]
NtfyRec == [kind : {"ntfy"}, path : {NodeValue(n) : n \in VfsNodes}]
ListMsg == {m \in ListRec : FitsIn(m.path, m.names)}
MailRec == ListMsg \cup ReadRec \cup NtfyRec

\* The fetchers of directories and of values, with the tree tr.
DirsWell(tr, ds) ==
  /\ ds \in Seq(DirRec)
  /\ \A k \in DOMAIN ds : ds[k].path \in tr /\ (ds[k].state = "wait" => k = 1)
  /\ \A j, k \in DOMAIN ds : ds[j].path = ds[k].path /\ ds[j].path # DotActor => j = k
ValsWell(tr, vs) ==
  /\ vs \in Seq(ValRec)
  /\ \A k \in DOMAIN vs : vs[k].path \in tr /\ (vs[k].state = "wait" => k = 1 /\ vs[k].tries = 0)
  /\ \A j, k \in DOMAIN vs : vs[j].path = vs[k].path => j = k

\* Messages with the tag of a fetcher are about the entry it fetches.
Matches(ds, vs, M) ==
  \A m \in M :
    /\ m.kind = "list" => \A k \in DOMAIN ds : ds[k].tag = m.tag => ds[k].path = m.path
    /\ m.kind = "read" => \A k \in DOMAIN vs : vs[k].tag = m.tag => vs[k].path = m.path

\* Fetchers of s that have a tag have it, and their entry, from s0; those that have an
\* entry in tr have it from there.
From(s, s0) ==
  \A i \in DOMAIN s : s[i].tag = 0 \/ \E j \in DOMAIN s0 : s0[j].tag = s[i].tag /\ s0[j].path = s[i].path
Since(s, s0, tr) ==
  \A i \in DOMAIN s : \/ \E j \in DOMAIN s0 : s0[j].tag = s[i].tag /\ s0[j].path = s[i].path
                      \/ s[i].tag = 0 /\ s[i].path \notin tr

TreeTypes ==
  /\ tree \subseteq Paths /\ <<"aps">> \in tree /\ opened \subseteq Paths
  /\ values \in [Paths -> {NoValue, 0, 1}] /\ \A p \in Paths : values[p] # NoValue => p \in tree
  /\ fetchTimer \in BOOLEAN /\ missed \in BOOLEAN
  /\ nodeTable \in Seq(VfsNodes) /\ nodeState \in [VfsNodes -> {0, 1}] /\ told \subseteq ToSet(nodeTable)
Fetchers == DirsWell(tree, dirs) /\ ValsWell(tree, vals)
Messages ==
  /\ asks \in Seq(AskRec) /\ mail \in Seq(MailRec)
  /\ Matches(dirs, vals, ToSet(asks) \cup ToSet(mail))
TreeInv == TreeTypes /\ Fetchers /\ Messages

----------------------------------------------------------------------------
(* Sequences.                                                              *)

\* The elements of a sequence that got longer, or lost its head.
LEMMA SetAppend ==
  ASSUME NEW T, NEW s \in Seq(T), NEW e \in T
  PROVE  /\ DOMAIN Append(s, e) = 1 .. Len(s) + 1 /\ DOMAIN s = 1 .. Len(s) /\ Len(s) \in Nat
         /\ \A i \in DOMAIN Append(s, e) : Append(s, e)[i] = IF i \in DOMAIN s THEN s[i] ELSE e
         /\ ToSet(Append(s, e)) = ToSet(s) \cup {e}
<1>1. /\ Append(s, e) \in Seq(T) /\ Len(Append(s, e)) = Len(s) + 1
      /\ \A i \in 1 .. Len(s) : Append(s, e)[i] = s[i]
      /\ Append(s, e)[Len(s) + 1] = e
  BY AppendProperties
<1>2. DOMAIN s = 1 .. Len(s) /\ Len(s) \in Nat
  BY LenProperties
<1>3. DOMAIN Append(s, e) = 1 .. Len(s) + 1
  BY <1>1, LenProperties
<1> DEFINE a == Append(s, e)
<1> HIDE DEF a
<1>4. \A i \in 1 .. Len(s) + 1 : i \in 1 .. Len(s) \/ i = Len(s) + 1
  BY <1>2
<1>5. /\ Len(s) + 1 \in 1 .. Len(s) + 1 /\ Len(s) + 1 \notin 1 .. Len(s)
      /\ \A i \in 1 .. Len(s) : i \in 1 .. Len(s) + 1
  BY <1>2
<1>6. DOMAIN a = 1 .. Len(s) + 1 /\ a[Len(s) + 1] = e /\ \A i \in 1 .. Len(s) : a[i] = s[i]
  BY <1>1, <1>3 DEF a
<1>7. \A i \in DOMAIN a : a[i] = IF i \in DOMAIN s THEN s[i] ELSE e
  BY <1>2, <1>4, <1>5, <1>6
<1>8. ToSet(a) = ToSet(s) \cup {e}
  BY <1>2, <1>4, <1>5, <1>6 DEF ToSet
<1> QED BY <1>2, <1>6, <1>7, <1>8 DEF a

\* What is left of a sequence without its head.
LEMMA SetTail ==
  ASSUME NEW T, NEW s \in Seq(T), s # <<>>
  PROVE  /\ Head(s) \in T /\ Head(s) \in ToSet(s) /\ Tail(s) \in Seq(T)
         /\ ToSet(Tail(s)) \subseteq ToSet(s)
<1>1. /\ Head(s) \in T /\ Tail(s) \in Seq(T) /\ Len(Tail(s)) = Len(s) - 1
      /\ \A i \in 1 .. Len(Tail(s)) : Tail(s)[i] = s[i + 1]
  BY HeadTailProperties
<1>2. DOMAIN s = 1 .. Len(s) /\ Len(s) \in Nat \ {0} /\ DOMAIN Tail(s) = 1 .. Len(s) - 1
  BY <1>1, LenProperties, EmptySeq
<1>3. Head(s) = s[1] /\ 1 \in DOMAIN s
  BY <1>2
<1> DEFINE t == Tail(s)
<1>4. \A i \in 1 .. Len(s) - 1 : t[i] = s[i + 1] /\ i + 1 \in 1 .. Len(s)
  BY <1>1, <1>2
<1>5. DOMAIN t = 1 .. Len(s) - 1
  BY <1>2
<1> HIDE DEF t
<1>6. ToSet(t) \subseteq ToSet(s)
  BY <1>2, <1>4, <1>5 DEF ToSet
<1> QED BY <1>1, <1>3, <1>6 DEF t, ToSet

\* A sequence without the element k: the last one is in its place.
LEMMA RemovedIs ==
  ASSUME NEW T, NEW s \in Seq(T), NEW k \in DOMAIN s
  PROVE  /\ Removed(s, k) \in Seq(T) /\ Len(s) \in Nat \ {0} /\ DOMAIN s = 1 .. Len(s)
         /\ DOMAIN Removed(s, k) = 1 .. Len(s) - 1
         /\ \A i \in 1 .. Len(s) - 1 : Removed(s, k)[i] = IF i = k THEN s[Len(s)] ELSE s[i]
<1>1. DOMAIN s = 1 .. Len(s) /\ Len(s) \in Nat \ {0} /\ \A i \in 1 .. Len(s) : s[i] \in T
  BY LenProperties, ElementOfSeq
<1>2. ASSUME NEW q, q \in Seq(T), Len(q) = Len(s)
      PROVE  /\ Front(q) \in Seq(T) /\ DOMAIN Front(q) = 1 .. Len(s) - 1
             /\ \A i \in 1 .. Len(s) - 1 : Front(q)[i] = q[i]
  <2>1. \A i \in 1 .. Len(s) : q[i] \in T
    BY <1>2, ElementOfSeq
  <2>2. \A i \in 1 .. Len(s) - 1 : q[i] \in T
    BY <1>1, <2>1
  <2> DEFINE n == Len(s) - 1
             f == SubSeq(q, 1, n)
  <2>3. n \in Nat
    BY <1>1
  <2>4. Front(q) = f
    BY <1>2 DEF Front
  <2>5. /\ f \in Seq(T) /\ Len(f) = IF 1 <= n THEN n - 1 + 1 ELSE 0
        /\ \A i \in 1 .. n - 1 + 1 : f[i] = q[1 + i - 1]
    <3> HIDE DEF n
    <3> QED BY <2>2, <2>3, SubSeqProperties DEF n
  <2> HIDE DEF f, n
  <2>6. Len(f) = n
    BY <2>3, <2>5
  <2>7. DOMAIN f = 1 .. n
    BY <2>5, <2>6, LenProperties
  <2>8. \A i \in 1 .. n : i \in 1 .. n - 1 + 1 /\ 1 + i - 1 = i
    BY <2>3
  <2> QED BY <2>4, <2>5, <2>7, <2>8 DEF n
<1>3. CASE k = Len(s)
  <2>1. Removed(s, k) = Front(s)
    BY <1>3 DEF Removed
  <2> QED BY <1>1, <1>2, <1>3, <2>1
<1>4. CASE k # Len(s)
  <2> DEFINE q == [s EXCEPT ![k] = Last(s)]
  <2>1. Last(s) = s[Len(s)] /\ Last(s) \in T
    BY <1>1 DEF Last
  <2>2. q \in Seq(T) /\ Len(q) = Len(s) /\ \A i \in 1 .. Len(s) : q[i] = IF i = k THEN s[Len(s)] ELSE s[i]
    BY <1>1, <2>1, ExceptSeq
  <2>3. Removed(s, k) = Front(q)
    BY <1>4 DEF Removed
  <2> HIDE DEF q
  <2> QED BY <1>1, <1>2, <2>2, <2>3
<1> QED BY <1>3, <1>4

----------------------------------------------------------------------------
(* Fetchers that are added and taken out.                                  *)

\* A fetcher for a directory that has none, or for .actor, may be added.
LEMMA DirAdded ==
  ASSUME NEW tr, NEW ds, DirsWell(tr, ds), NEW f \in DirRec, f.state = "start", f.path \in tr,
         f.path = DotActor \/ \A k \in DOMAIN ds : ds[k].path # f.path
  PROVE  DirsWell(tr, Append(ds, f))
<1> DEFINE a == Append(ds, f)
<1>1. ds \in Seq(DirRec)
  BY DEF DirsWell
<1>2. /\ DOMAIN a = 1 .. Len(ds) + 1 /\ DOMAIN ds = 1 .. Len(ds) /\ Len(ds) \in Nat
      /\ \A i \in DOMAIN a : a[i] = IF i \in DOMAIN ds THEN ds[i] ELSE f
  BY <1>1, SetAppend
<1>3. a \in Seq(DirRec)
  BY <1>1, AppendProperties
<1> HIDE DEF a
<1>4. \A i, j \in DOMAIN a : i \notin DOMAIN ds /\ j \notin DOMAIN ds => i = j
  BY <1>2
<1>5. \A k \in DOMAIN a : a[k].path \in tr /\ (a[k].state = "wait" => k = 1)
  BY <1>2 DEF DirsWell
<1>6. ASSUME NEW j \in DOMAIN a, NEW k \in DOMAIN a, a[j].path = a[k].path, a[j].path # DotActor
      PROVE  j = k
  BY <1>2, <1>4, <1>6 DEF DirsWell
<1> QED BY <1>3, <1>5, <1>6 DEF DirsWell, a

\* A value is added unless it waits already, so it has one fetcher still.
LEMMA ValAdded ==
  ASSUME NEW tr, tr \subseteq Paths, NEW vs, ValsWell(tr, vs), NEW p \in tr
  PROVE  ValsWell(tr, AddValue(vs, p)) /\ From(AddValue(vs, p), vs)
<1>1. CASE \E k \in DOMAIN vs : vs[k].path = p
  BY <1>1 DEF AddValue, From
<1>2. CASE ~ \E k \in DOMAIN vs : vs[k].path = p
  <2> DEFINE f == ValueFetcher(p)
             a == Append(vs, f)
  <2>1. vs \in Seq(ValRec)
    BY DEF ValsWell
  <2>2. f \in ValRec /\ f.path = p /\ f.state = "start" /\ f.tag = 0
    BY DEF ValueFetcher, ValRec, States
  <2> HIDE DEF f
  <2>3. /\ DOMAIN a = 1 .. Len(vs) + 1 /\ DOMAIN vs = 1 .. Len(vs) /\ Len(vs) \in Nat
        /\ \A i \in DOMAIN a : a[i] = IF i \in DOMAIN vs THEN vs[i] ELSE f
    BY <2>1, <2>2, SetAppend
  <2>4. a \in Seq(ValRec)
    BY <2>1, <2>2, AppendProperties
  <2> HIDE DEF a
  <2>5. \A i, j \in DOMAIN a : i \notin DOMAIN vs /\ j \notin DOMAIN vs => i = j
    BY <2>3
  <2>6. \A k \in DOMAIN a : a[k].path \in tr /\ (a[k].state = "wait" => k = 1 /\ a[k].tries = 0)
    BY <2>2, <2>3 DEF ValsWell
  <2>7. ASSUME NEW j \in DOMAIN a, NEW k \in DOMAIN a, a[j].path = a[k].path
        PROVE  j = k
    BY <1>2, <2>2, <2>3, <2>5, <2>7 DEF ValsWell
  <2>8. From(a, vs)
    BY <2>2, <2>3 DEF From
  <2>9. AddValue(vs, p) = a
    BY <1>2 DEF AddValue, a, f
  <2> QED BY <2>4, <2>6, <2>7, <2>8, <2>9 DEF ValsWell
<1> QED BY <1>1, <1>2

\* When a fetcher is taken out, the last one in its place is not one that waits.
LEMMA DirRemoved ==
  ASSUME NEW tr, NEW ds, DirsWell(tr, ds), NEW k \in DOMAIN ds
  PROVE  /\ DirsWell(tr, Removed(ds, k)) /\ From(Removed(ds, k), ds)
         /\ Since(Removed(ds, k), ds, tr)
         /\ ds[k].path # DotActor => \A i \in DOMAIN Removed(ds, k) : Removed(ds, k)[i].path # ds[k].path
<1> DEFINE r == Removed(ds, k)
           At(i) == IF i = k THEN Len(ds) ELSE i
<1>1. ds \in Seq(DirRec)
  BY DEF DirsWell
<1>2. /\ r \in Seq(DirRec) /\ Len(ds) \in Nat \ {0} /\ DOMAIN ds = 1 .. Len(ds)
      /\ DOMAIN r = 1 .. Len(ds) - 1
      /\ \A i \in 1 .. Len(ds) - 1 : r[i] = IF i = k THEN ds[Len(ds)] ELSE ds[i]
  BY <1>1, RemovedIs
<1> HIDE DEF r
<1>3. \A i \in DOMAIN r : At(i) \in DOMAIN ds /\ At(i) # k /\ r[i] = ds[At(i)]
  BY <1>2
<1>4. \A i, j \in DOMAIN r : At(i) = At(j) => i = j
  BY <1>2
<1>5. \A i \in DOMAIN r : At(i) = 1 => i = 1
  BY <1>2
<1> HIDE DEF At
<1>6. DirsWell(tr, r)
  BY <1>2, <1>3, <1>4, <1>5 DEF DirsWell
<1>7. From(r, ds) /\ Since(r, ds, tr)
  BY <1>3 DEF From, Since
<1>8. ds[k].path # DotActor => \A i \in DOMAIN r : r[i].path # ds[k].path
  BY <1>3 DEF DirsWell
<1> QED BY <1>6, <1>7, <1>8 DEF r

\* The same for the fetchers of values.
LEMMA ValRemoved ==
  ASSUME NEW tr, NEW vs, ValsWell(tr, vs), NEW k \in DOMAIN vs
  PROVE  ValsWell(tr, Removed(vs, k)) /\ From(Removed(vs, k), vs)
<1> DEFINE r == Removed(vs, k)
           At(i) == IF i = k THEN Len(vs) ELSE i
<1>1. vs \in Seq(ValRec)
  BY DEF ValsWell
<1>2. /\ r \in Seq(ValRec) /\ Len(vs) \in Nat \ {0} /\ DOMAIN vs = 1 .. Len(vs)
      /\ DOMAIN r = 1 .. Len(vs) - 1
      /\ \A i \in 1 .. Len(vs) - 1 : r[i] = IF i = k THEN vs[Len(vs)] ELSE vs[i]
  BY <1>1, RemovedIs
<1> HIDE DEF r
<1>3. \A i \in DOMAIN r : At(i) \in DOMAIN vs /\ At(i) # k /\ r[i] = vs[At(i)]
  BY <1>2
<1>4. \A i, j \in DOMAIN r : At(i) = At(j) => i = j
  BY <1>2
<1>5. \A i \in DOMAIN r : At(i) = 1 => i = 1
  BY <1>2
<1> HIDE DEF At
<1>6. ValsWell(tr, r)
  BY <1>2, <1>3, <1>4, <1>5 DEF ValsWell
<1>7. From(r, vs)
  BY <1>3 DEF From
<1> QED BY <1>6, <1>7 DEF r

\* A fetcher that is asked for, or asks again: where it is and its entry stay the same.
LEMMA DirSet ==
  ASSUME NEW tr, NEW ds, DirsWell(tr, ds), 1 \in DOMAIN ds, NEW f \in DirRec, f.path = ds[1].path
  PROVE  DirsWell(tr, [ds EXCEPT ![1] = f])
<1> DEFINE e == [ds EXCEPT ![1] = f]
<1>1. ds \in Seq(DirRec)
  BY DEF DirsWell
<1>2. DOMAIN ds = 1 .. Len(ds)
  BY <1>1, LenProperties
<1>3. e \in Seq(DirRec)
  BY <1>1, <1>2, ExceptSeq
<1>4. DOMAIN e = DOMAIN ds /\ \A i \in DOMAIN ds : e[i] = IF i = 1 THEN f ELSE ds[i]
  OBVIOUS
<1> HIDE DEF e
<1>5. \A i \in DOMAIN ds : e[i].path = ds[i].path
  BY <1>4
<1> QED BY <1>3, <1>4, <1>5 DEF DirsWell, e

\* The same for values.
LEMMA ValSet ==
  ASSUME NEW tr, NEW vs, ValsWell(tr, vs), 1 \in DOMAIN vs, NEW f \in ValRec, f.path = vs[1].path,
         f.state = "wait" => f.tries = 0
  PROVE  ValsWell(tr, [vs EXCEPT ![1] = f])
<1> DEFINE e == [vs EXCEPT ![1] = f]
<1>1. vs \in Seq(ValRec)
  BY DEF ValsWell
<1>2. DOMAIN vs = 1 .. Len(vs)
  BY <1>1, LenProperties
<1>3. e \in Seq(ValRec)
  BY <1>1, <1>2, ExceptSeq
<1>4. DOMAIN e = DOMAIN vs /\ \A i \in DOMAIN vs : e[i] = IF i = 1 THEN f ELSE vs[i]
  OBVIOUS
<1> HIDE DEF e
<1>5. \A i \in DOMAIN vs : e[i].path = vs[i].path
  BY <1>4
<1> QED BY <1>3, <1>4, <1>5 DEF ValsWell, e

----------------------------------------------------------------------------
(* What the names in a page make of the tree and the fetchers.             *)

\* The tree tr0 with its fetchers d0 and v0, and what may become of it.
Grown(tr0, d0, v0) ==
  {x \in [tree : SUBSET Paths, dirs : Seq(DirRec), vals : Seq(ValRec)] :
     /\ tr0 \subseteq x.tree /\ DirsWell(x.tree, x.dirs) /\ ValsWell(x.tree, x.vals)
     /\ Since(x.dirs, d0, tr0) /\ From(x.vals, v0)}

\* Fetchers stay well-formed when the tree grows.
LEMMA MoreTree ==
  ASSUME NEW tr, NEW t2, tr \subseteq t2, NEW ds, DirsWell(tr, ds), NEW vs, ValsWell(tr, vs)
  PROVE  DirsWell(t2, ds) /\ ValsWell(t2, vs)
BY DEF DirsWell, ValsWell

\* From is transitive.
LEMMA FromTwice ==
  ASSUME NEW a, NEW b, NEW c, From(a, b), From(b, c)
  PROVE  From(a, c)
BY DEF From

\* A new fetcher is for an entry that was not there before.
LEMMA SinceAdded ==
  ASSUME NEW ds, ds \in Seq(DirRec), NEW d0, NEW tr, Since(ds, d0, tr), NEW f \in DirRec,
         f.tag = 0, f.path \notin tr
  PROVE  Since(Append(ds, f), d0, tr)
<1> DEFINE a == Append(ds, f)
<1>1. \A i \in DOMAIN a : a[i] = IF i \in DOMAIN ds THEN ds[i] ELSE f
  BY SetAppend
<1> HIDE DEF a
<1>2. Since(a, d0, tr)
  BY <1>1 DEF Since
<1> QED BY <1>2 DEF a

\* A new fetcher has no tag yet and does not wait.
LEMMA FetcherIs ==
  ASSUME NEW p \in Paths, NEW i \in Nat
  PROVE  /\ DirFetcher(p, i) \in DirRec /\ DirFetcher(p, i).path = p
         /\ DirFetcher(p, i).state = "start" /\ DirFetcher(p, i).tag = 0
<1>1. MaxTries \in Nat \ {0}
  BY VfsAssumption
<1> QED BY <1>1 DEF DirFetcher, DirRec, States

\* A value that is known is read again, with one fetcher still.
LEMMA AgainOK ==
  ASSUME NEW tr0, NEW d0, NEW v0, NEW x \in Grown(tr0, d0, v0), NEW p
  PROVE  Again(x, p) \in Grown(tr0, d0, v0)
<1>1. CASE ~ (p \in x.tree /\ ~IsDir(p))
  BY <1>1 DEF Again
<1>2. CASE p \in x.tree /\ ~IsDir(p)
  <2>1. /\ x \in [tree : SUBSET Paths, dirs : Seq(DirRec), vals : Seq(ValRec)]
        /\ tr0 \subseteq x.tree /\ DirsWell(x.tree, x.dirs) /\ ValsWell(x.tree, x.vals)
        /\ Since(x.dirs, d0, tr0) /\ From(x.vals, v0)
    BY DEF Grown
  <2>2. x.tree \subseteq Paths
    BY <2>1
  <2> DEFINE a == AddValue(x.vals, p)
             y == [x EXCEPT !.vals = a]
  <2>3. ValsWell(x.tree, a) /\ From(a, x.vals)
    BY <1>2, <2>1, <2>2, ValAdded
  <2>4. From(a, v0) /\ a \in Seq(ValRec)
    BY <2>1, <2>3, FromTwice DEF ValsWell
  <2> HIDE DEF a
  <2>5. y.tree = x.tree /\ y.dirs = x.dirs /\ y.vals = a
    BY <2>1
  <2>6. y \in [tree : SUBSET Paths, dirs : Seq(DirRec), vals : Seq(ValRec)]
    BY <2>1, <2>4
  <2>7. Again(x, p) = y
    BY <1>2 DEF Again, a
  <2> HIDE DEF y
  <2> QED BY <2>1, <2>3, <2>4, <2>5, <2>6, <2>7 DEF Grown
<1> QED BY <1>1, <1>2

\* A name that is new gets its entry and fetchers; .actor gets two.
LEMMA AddEntryOK ==
  ASSUME NEW tr0, NEW d0, NEW v0, NEW x \in Grown(tr0, d0, v0), NEW p \in Paths
  PROVE  AddEntry(x, p) \in Grown(tr0, d0, v0)
<1>1. /\ x \in [tree : SUBSET Paths, dirs : Seq(DirRec), vals : Seq(ValRec)]
      /\ tr0 \subseteq x.tree /\ DirsWell(x.tree, x.dirs) /\ ValsWell(x.tree, x.vals)
      /\ Since(x.dirs, d0, tr0) /\ From(x.vals, v0)
  BY DEF Grown
<1> DEFINE t2 == x.tree \cup {p}
           f  == DirFetcher(p, 0)
<1>2. /\ x.tree \subseteq t2 /\ p \in t2 /\ t2 \subseteq Paths /\ tr0 \subseteq t2
      /\ DirsWell(t2, x.dirs) /\ ValsWell(t2, x.vals)
  <2>1. x.tree \subseteq t2 /\ p \in t2 /\ t2 \subseteq Paths /\ tr0 \subseteq t2
    BY <1>1
  <2> HIDE DEF t2
  <2> QED BY <1>1, <2>1, MoreTree
<1>3. f \in DirRec /\ f.path = p /\ f.state = "start" /\ f.tag = 0
  BY FetcherIs
<1>4. CASE p \in x.tree
  BY <1>4 DEF AddEntry
<1>5. CASE p \notin x.tree /\ ~IsDir(p)
  <2> DEFINE a == AddValue(x.vals, p)
             y == [x EXCEPT !.tree = t2, !.vals = a]
  <2>1. ValsWell(t2, a) /\ From(a, x.vals)
    <3> HIDE DEF t2
    <3> QED BY <1>2, ValAdded
  <2>2. From(a, v0) /\ a \in Seq(ValRec)
    BY <1>1, <2>1, FromTwice DEF ValsWell
  <2>3. AddEntry(x, p) = y
    BY <1>5 DEF AddEntry
  <2> HIDE DEF a, t2
  <2>4. y.tree = t2 /\ y.dirs = x.dirs /\ y.vals = a
    BY <1>1
  <2>5. y \in [tree : SUBSET Paths, dirs : Seq(DirRec), vals : Seq(ValRec)]
    BY <1>1, <1>2, <2>2
  <2> HIDE DEF y
  <2> QED BY <1>1, <1>2, <2>1, <2>2, <2>3, <2>4, <2>5 DEF Grown
<1>6. CASE p \notin x.tree /\ IsDir(p)
  <2> DEFINE a == Append(x.dirs, f)
             b == Append(a, f)
             One == [x EXCEPT !.tree = t2, !.dirs = a]
             Two == [x EXCEPT !.tree = t2, !.dirs = b]
  <2>1. \A k \in DOMAIN x.dirs : x.dirs[k].path # p
    BY <1>1, <1>6 DEF DirsWell
  <2>2. x.dirs \in Seq(DirRec) /\ p \notin tr0
    BY <1>1, <1>6
  <2>3. DirsWell(t2, a) /\ Since(a, d0, tr0)
    <3> HIDE DEF t2, f
    <3> QED BY <1>1, <1>2, <1>3, <2>1, <2>2, DirAdded, SinceAdded
  <2>4. a \in Seq(DirRec)
    BY <2>3 DEF DirsWell
  <2>5. p = DotActor => DirsWell(t2, b) /\ Since(b, d0, tr0) /\ b \in Seq(DirRec)
    <3> HIDE DEF t2, f, a
    <3> SUFFICES ASSUME p = DotActor
                 PROVE  DirsWell(t2, b) /\ Since(b, d0, tr0) /\ b \in Seq(DirRec)
      OBVIOUS
    <3>1. DirsWell(t2, b)
      BY <1>2, <1>3, <2>3, DirAdded
    <3>2. Since(b, d0, tr0)
      BY <1>3, <2>2, <2>3, <2>4, SinceAdded
    <3> QED BY <3>1, <3>2 DEF DirsWell
  <2>6. AddEntry(x, p) = IF p = DotActor THEN Two ELSE One
    BY <1>6 DEF AddEntry
  <2> HIDE DEF a, b, t2
  <2>7. /\ One.tree = t2 /\ One.dirs = a /\ One.vals = x.vals
        /\ Two.tree = t2 /\ Two.dirs = b /\ Two.vals = x.vals
    BY <1>1
  <2>8. One \in [tree : SUBSET Paths, dirs : Seq(DirRec), vals : Seq(ValRec)]
    BY <1>1, <1>2, <2>4
  <2>9. p = DotActor => Two \in [tree : SUBSET Paths, dirs : Seq(DirRec), vals : Seq(ValRec)]
    BY <1>1, <1>2, <2>5
  <2> HIDE DEF One, Two
  <2>10. One \in Grown(tr0, d0, v0)
    BY <1>1, <1>2, <2>3, <2>7, <2>8 DEF Grown
  <2>11. p = DotActor => Two \in Grown(tr0, d0, v0)
    BY <1>1, <1>2, <2>5, <2>7, <2>9 DEF Grown
  <2> QED BY <2>6, <2>10, <2>11
<1> QED BY <1>4, <1>5, <1>6

\* All names of a page leave the tree and the fetchers well-formed.
LEMMA AddedOK ==
  ASSUME NEW tr0, NEW d0, NEW v0, NEW x \in Grown(tr0, d0, v0), NEW p, NEW names, FitsIn(p, names)
  PROVE  Added(x, p, names) \in Grown(tr0, d0, v0)
<1> DEFINE n == Len(names)
           T == Grown(tr0, d0, v0)
           Step(k, t) == IF k <= n THEN Again(t, Append(p, names[k])) ELSE AddEntry(t, Append(p, names[k - n]))
           g == [k \in 1 .. 2 * n |-> [t \in T |-> Step(k, t)]]
           Is(f) == f = [k \in 0 .. 2 * n |-> IF k = 0 THEN x
                           ELSE IF k <= n THEN Again(f[k - 1], Append(p, names[k]))
                           ELSE AddEntry(f[k - 1], Append(p, names[k - n]))]
           u == CHOOSE f : Is(f)
<1>1. n \in Nat /\ 2 * n \in Nat /\ DOMAIN names = 1 .. n
  <2>1. n \in Nat /\ DOMAIN names = 1 .. n
    BY LenProperties DEF FitsIn
  <2> HIDE DEF n
  <2> QED BY <2>1
<1>2. \A k \in 1 .. 2 * n : \A t \in T : Step(k, t) \in T
  <2> SUFFICES ASSUME NEW k \in 1 .. 2 * n, NEW t \in T PROVE Step(k, t) \in T
    OBVIOUS
  <2> HIDE DEF n
  <2>1. CASE k <= n
    BY <2>1, AgainOK
  <2>2. CASE ~ (k <= n)
    <3>1. k - n \in 1 .. n
      BY <1>1, <2>2
    <3>2. Append(p, names[k - n]) \in Paths
      BY <1>1, <3>1 DEF FitsIn
    <3> QED BY <2>2, <3>2, AddEntryOK
  <2> QED BY <2>1, <2>2
<1>3. g \in [1 .. 2 * n -> [T -> T]]
  <2> HIDE DEF T, Step, n
  <2> QED BY <1>2
<1>4. PICK f : f \in [0 .. 2 * n -> T] /\ IsPass(f, 2 * n, x, g)
  <2>1. x \in T
    OBVIOUS
  <2> HIDE DEF g, T, n
  <2> QED BY <1>1, <1>3, <2>1, PassExists
<1>5. Is(f)
  <2>1. \A k \in 0 .. 2 * n : k # 0 => k \in 1 .. 2 * n /\ k - 1 \in 0 .. 2 * n
    <3> HIDE DEF n
    <3> QED BY <1>1
  <2>2. \A k \in 0 .. 2 * n : f[k] \in T
    BY <1>4
  <2>3. \A k \in 1 .. 2 * n : \A t \in T : g[k][t] = Step(k, t)
    <3> HIDE DEF T, Step, n
    <3> QED OBVIOUS
  <2> HIDE DEF g, T, Step, n
  <2>4. \A k \in 0 .. 2 * n : k # 0 => g[k][f[k - 1]] = Step(k, f[k - 1])
    BY <2>1, <2>2, <2>3
  <2>5. f = [k \in 0 .. 2 * n |-> IF k = 0 THEN x ELSE g[k][f[k - 1]]]
    BY <1>4 DEF IsPass
  <2>6. f = [k \in 0 .. 2 * n |-> IF k = 0 THEN x ELSE Step(k, f[k - 1])]
    BY <2>4, <2>5
  <2> QED BY <2>6 DEF Step
<1>6. Is(u)
  <2> HIDE DEF Is
  <2> QED BY <1>5
<1>7. Added(x, p, names) = u[2 * n]
  BY DEF Added
<1>8. \A k \in 0 .. 2 * n : u[k] = IF k = 0 THEN x ELSE Step(k, u[k - 1])
  <2> HIDE DEF n, u
  <2> QED BY <1>6
<1> DEFINE S == {k \in 0 .. 2 * n : u[k] \in T}
<1> HIDE DEF u, g, T, Step, n
<1>9. 0 \in S /\ S \in SUBSET (0 .. 2 * n)
  <2>1. x \in T /\ 0 \in 0 .. 2 * n
    BY <1>1 DEF T
  <2> QED BY <1>8, <2>1
<1>10. ASSUME NEW k \in 1 .. 2 * n, k - 1 \in S PROVE k \in S
  <2>1. k \in 0 .. 2 * n /\ k # 0 /\ u[k - 1] \in T
    BY <1>1, <1>10
  <2> QED BY <1>2, <1>8, <2>1
<1>11. 2 * n \in S
  <2> HIDE DEF S
  <2> QED BY <1>1, <1>9, <1>10, Passed
<1> QED BY <1>7, <1>11 DEF T

----------------------------------------------------------------------------
(* A tag that is new, and the request that is made with it.                *)

\* A list has no more tags than elements.
LEMMA TagsAreFew ==
  ASSUME NEW s, NEW T, s \in Seq(T)
  PROVE  /\ Len(s) \in Nat /\ IsFiniteSet(TagsOf(s)) /\ Cardinality(TagsOf(s)) \in Nat
         /\ Cardinality(TagsOf(s)) <= Len(s)
<1> DEFINE J == {j \in DOMAIN s : "tag" \in DOMAIN s[j]}
           f == [k \in J |-> s[k].tag]
<1>1. Len(s) \in Nat /\ DOMAIN s = 1 .. Len(s)
  BY LenProperties
<1>2. IsFiniteSet(1 .. Len(s)) /\ Cardinality(1 .. Len(s)) = Len(s)
  <2>1. 1 \in Int /\ Len(s) \in Int
    BY <1>1
  <2>2. /\ IsFiniteSet(1 .. Len(s))
        /\ Cardinality(1 .. Len(s)) = IF 1 > Len(s) THEN 0 ELSE Len(s) - 1 + 1
    BY <2>1, FS_Interval
  <2> QED BY <1>1, <2>2
<1>3. J \in SUBSET (1 .. Len(s))
  BY <1>1
<1>4. IsFiniteSet(J) /\ Cardinality(J) <= Len(s)
  <2> HIDE DEF J
  <2>1. IsFiniteSet(J) /\ Cardinality(J) <= Cardinality(1 .. Len(s))
    BY <1>2, <1>3, FS_Subset
  <2> QED BY <1>2, <2>1
<1>5. TagsOf(s) = {f[x] : x \in J}
  BY DEF TagsOf
<1>6. f \in [J -> {f[x] : x \in J}]
  OBVIOUS
<1> HIDE DEF f, J
<1>7. IsFiniteSet({f[x] : x \in J}) /\ Cardinality({f[x] : x \in J}) <= Cardinality(J)
  BY <1>4, <1>6, FewValues
<1>8. Cardinality(J) \in Nat /\ Cardinality(TagsOf(s)) \in Nat
  <2>1. IsFiniteSet(TagsOf(s))
    BY <1>5, <1>7
  <2> QED BY <1>4, <2>1, FS_CardinalityType
<1>9. Cardinality(TagsOf(s)) <= Cardinality(J)
  BY <1>5, <1>7
<1> QED BY <1>1, <1>4, <1>5, <1>7, <1>8, <1>9

\* Of n sets the union has no more elements than they have together: two of them.
LEMMA UnionIsFew ==
  ASSUME NEW A, IsFiniteSet(A), NEW B, IsFiniteSet(B), NEW a \in Nat, Cardinality(A) <= a,
         NEW b \in Nat, Cardinality(B) <= b
  PROVE  IsFiniteSet(A \cup B) /\ Cardinality(A \cup B) <= a + b
<1>1. /\ IsFiniteSet(A \cup B)
      /\ Cardinality(A \cup B) = Cardinality(A) + Cardinality(B) - Cardinality(A \cap B)
  BY FS_Union
<1>2. IsFiniteSet(A \cap B)
  <2>1. A \cap B \in SUBSET A
    OBVIOUS
  <2> QED BY <2>1, FS_Subset
<1>3. Cardinality(A) \in Nat /\ Cardinality(B) \in Nat /\ Cardinality(A \cap B) \in Nat
  BY <1>2, FS_CardinalityType
<1> QED BY <1>1, <1>3

\* There is always a tag that nothing has: fewer tags than numbers are in use.
LEMMA FreshTagIs ==
  ASSUME dirs \in Seq(DirRec), vals \in Seq(ValRec), asks \in Seq(AskRec), mail \in Seq(MailRec)
  PROVE  /\ FreshTag \in Nat \ {0}
         /\ FreshTag \notin TagsOf(dirs) \cup TagsOf(vals) \cup TagsOf(asks) \cup TagsOf(mail)
<1> DEFINE A == TagsOf(dirs)
           B == TagsOf(vals)
           C == TagsOf(asks)
           D == TagsOf(mail)
           a == Len(dirs)
           b == Len(vals)
           c == Len(asks)
           d == Len(mail)
           N == a + b + c + d
           U == A \cup B \cup C \cup D
           F == (1 .. a + b + c + d + 1) \ U
<1>1. /\ a \in Nat /\ IsFiniteSet(A) /\ Cardinality(A) <= a
      /\ b \in Nat /\ IsFiniteSet(B) /\ Cardinality(B) <= b
      /\ c \in Nat /\ IsFiniteSet(C) /\ Cardinality(C) <= c
      /\ d \in Nat /\ IsFiniteSet(D) /\ Cardinality(D) <= d
  BY TagsAreFew
<1>2. FreshTag = Min(F)
  BY DEF FreshTag
<1> HIDE DEF A, B, C, D, a, b, c, d
<1>3. IsFiniteSet(U) /\ Cardinality(U) <= N /\ N \in Nat
  <2>1. a + b \in Nat /\ (a + b) + c \in Nat /\ N = ((a + b) + c) + d /\ N \in Nat
    BY <1>1
  <2>2. IsFiniteSet(A \cup B) /\ Cardinality(A \cup B) <= a + b
    BY <1>1, UnionIsFew, Zenon
  <2>3. IsFiniteSet((A \cup B) \cup C) /\ Cardinality((A \cup B) \cup C) <= (a + b) + c
    BY <1>1, <2>1, <2>2, UnionIsFew, Zenon
  <2>4. IsFiniteSet(U) /\ Cardinality(U) <= ((a + b) + c) + d
    BY <1>1, <2>1, <2>3, UnionIsFew, Zenon
  <2> QED BY <2>1, <2>4
<1>4. F # {}
  <2> SUFFICES ASSUME F = {} PROVE FALSE
    OBVIOUS
  <2>1. 1 .. N + 1 \in SUBSET U
    OBVIOUS
  <2> HIDE DEF U, N, F
  <2>2. Cardinality(1 .. N + 1) <= Cardinality(U)
    BY <1>3, <2>1, FS_Subset
  <2>3. Cardinality(1 .. N + 1) = N + 1
    <3>1. 1 \in Int /\ N + 1 \in Int
      BY <1>3
    <3>2. Cardinality(1 .. N + 1) = IF 1 > N + 1 THEN 0 ELSE (N + 1) - 1 + 1
      BY <3>1, FS_Interval
    <3> QED BY <1>3, <3>2
  <2>4. Cardinality(U) \in Nat
    BY <1>3, FS_CardinalityType
  <2> QED BY <1>3, <2>2, <2>3, <2>4
<1>5. F \in SUBSET Nat
  BY <1>3
<1>6. PICK x \in F : \A y \in F : x <= y
  <2> HIDE DEF F
  <2> QED BY <1>4, <1>5, NatMin
<1>7. Min(F) \in F
  <2> HIDE DEF F
  <2> QED BY <1>6 DEF Min
<1>8. Min(F) \in Nat \ {0} /\ Min(F) \notin U
  <2>1. \A y \in F : y \in Nat \ {0} /\ y \notin U
    BY <1>3
  <2> HIDE DEF F, U
  <2> QED BY <1>7, <2>1
<1> QED BY <1>2, <1>8 DEF A, B, C, D

\* The tags are those of the elements that have one.
LEMMA HasTag ==
  ASSUME NEW s, NEW k \in DOMAIN s, s[k] \in DirRec \cup ValRec \cup AskRec \cup ListRec \cup ReadRec
  PROVE  s[k].tag \in TagsOf(s)
<1>1. "tag" \in DOMAIN s[k]
  BY DEF DirRec, ValRec, AskRec, ListRec, ReadRec
<1> QED BY <1>1 DEF TagsOf

\* Requests and answers have a tag, and it is not new.
LEMMA TagOfMsg ==
  ASSUME asks \in Seq(AskRec), mail \in Seq(MailRec), NEW m \in ToSet(asks) \cup ToSet(mail),
         m.kind \in {"list", "read"}
  PROVE  m.tag \in Nat \ {0} /\ m.tag \in TagsOf(asks) \cup TagsOf(mail)
<1>1. DOMAIN asks = 1 .. Len(asks) /\ DOMAIN mail = 1 .. Len(mail)
  BY LenProperties
<1>2. CASE m \in ToSet(asks)
  <2>1. PICK k \in DOMAIN asks : asks[k] = m
    BY <1>2 DEF ToSet
  <2>2. m \in AskRec
    BY <1>1, <2>1, ElementOfSeq
  <2>3. m.tag \in TagsOf(asks)
    BY <2>1, <2>2, HasTag
  <2> QED BY <2>2, <2>3 DEF AskRec
<1>3. CASE m \in ToSet(mail)
  <2>1. PICK k \in DOMAIN mail : mail[k] = m
    BY <1>3 DEF ToSet
  <2>2. m \in MailRec
    BY <1>1, <2>1, ElementOfSeq
  <2>3. m \in ListRec \cup ReadRec
    BY <2>2 DEF MailRec, ListMsg, NtfyRec
  <2>4. m.tag \in TagsOf(mail)
    BY <2>1, <2>3, HasTag
  <2> QED BY <2>3, <2>4 DEF ListRec, ReadRec
<1> QED BY <1>2, <1>3

\* What stays of the fetchers, and is new without a tag, still matches the messages.
LEMMA StillMatches ==
  ASSUME asks \in Seq(AskRec), mail \in Seq(MailRec),
         Matches(dirs, vals, ToSet(asks) \cup ToSet(mail)),
         NEW ds, From(ds, dirs), NEW vs, From(vs, vals)
  PROVE  Matches(ds, vs, ToSet(asks) \cup ToSet(mail))
<1> DEFINE M == ToSet(asks) \cup ToSet(mail)
<1>1. \A m \in M : m.kind \in {"list", "read"} => m.tag \in Nat \ {0}
  BY TagOfMsg
<1>2. Matches(dirs, vals, M)
  OBVIOUS
<1> HIDE DEF M
<1>3. Matches(ds, vs, M)
  BY <1>1, <1>2 DEF Matches, From
<1> QED BY <1>3 DEF M

\* A fetcher that is left of others does not have a new tag.
LEMMA NotNew ==
  ASSUME NEW s, NEW s0, From(s, s0), NEW T \in {DirRec, ValRec}, s0 \in Seq(T),
         NEW t \in Nat \ {0}, t \notin TagsOf(s0)
  PROVE  \A k \in DOMAIN s : s[k].tag # t
<1> SUFFICES ASSUME NEW k \in DOMAIN s, s[k].tag = t PROVE FALSE
  OBVIOUS
<1>1. PICK j \in DOMAIN s0 : s0[j].tag = t
  BY DEF From
<1>2. DOMAIN s0 = 1 .. Len(s0)
  BY LenProperties
<1>3. s0[j] \in T
  BY <1>2, ElementOfSeq
<1>4. s0[j].tag \in TagsOf(s0)
  BY <1>3, HasTag
<1> QED BY <1>1, <1>4

\* What continueFetching keeps.
Kept(tr) ==
  /\ DirsWell(tr, dirs') /\ ValsWell(tr, vals') /\ fetchTimer' \in BOOLEAN
  /\ asks' \in Seq(AskRec) /\ Matches(dirs', vals', ToSet(asks') \cup ToSet(mail))

\* continueFetching keeps the fetchers in order.
LEMMA Continues ==
  ASSUME Fetchers, Messages, NEW tr, tr \subseteq Paths, NEW ds, DirsWell(tr, ds), From(ds, dirs),
         NEW vs, ValsWell(tr, vs), From(vs, vals), NEW runs \in BOOLEAN, NEW cost,
         ContinueFetching(ds, vs, runs, cost)
  PROVE  Kept(tr)
<1> DEFINE M == ToSet(asks) \cup ToSet(mail)
           t == FreshTag
<1>1. /\ dirs \in Seq(DirRec) /\ vals \in Seq(ValRec) /\ asks \in Seq(AskRec) /\ mail \in Seq(MailRec)
      /\ ds \in Seq(DirRec) /\ vs \in Seq(ValRec)
  BY DEF Fetchers, Messages, DirsWell, ValsWell
<1>2. /\ t \in Nat \ {0} /\ t \notin TagsOf(dirs) /\ t \notin TagsOf(vals)
      /\ t \notin TagsOf(asks) \cup TagsOf(mail)
  BY <1>1, FreshTagIs
<1>3. Matches(ds, vs, M)
  BY <1>1, StillMatches DEF Messages
<1>4. \A m \in M : m.kind \in {"list", "read"} => m.tag # t
  BY <1>1, <1>2, TagOfMsg
<1>5. (\A k \in DOMAIN ds : ds[k].tag # t) /\ (\A k \in DOMAIN vs : vs[k].tag # t)
  BY <1>1, <1>2, NotNew
<1> HIDE DEF t
<1>6. CASE dirs' = ds /\ vals' = vs /\ fetchTimer' = runs /\ UNCHANGED asks
  BY <1>1, <1>3, <1>6 DEF Kept
<1>7. CASE /\ ds # <<>>
           /\ dirs' = [ds EXCEPT ![1].state = "wait", ![1].tag = t] /\ vals' = vs
           /\ asks' = Append(asks, [kind |-> "list", path |-> ds[1].path, index |-> ds[1].index, tag |-> t])
           /\ fetchTimer' = TRUE
  <2> DEFINE f == [ds[1] EXCEPT !.state = "wait", !.tag = t]
             e == [ds EXCEPT ![1] = f]
             r == [kind |-> "list", path |-> ds[1].path, index |-> ds[1].index, tag |-> t]
  <2>1. 1 \in DOMAIN ds /\ ds[1] \in DirRec
    <3>1. Len(ds) \in Nat \ {0} /\ DOMAIN ds = 1 .. Len(ds)
      BY <1>1, <1>7, EmptySeq, LenProperties
    <3> QED BY <1>1, <3>1, ElementOfSeq
  <2>2. f \in DirRec /\ f.path = ds[1].path /\ f.tag = t
    BY <1>2, <2>1 DEF DirRec, States
  <2>3. dirs' = e
    BY <1>7, <2>1
  <2>4. r \in AskRec /\ r.kind = "list" /\ r.tag = t /\ r.path = ds[1].path
    BY <1>2, <2>1 DEF AskRec, DirRec
  <2>5. asks' = Append(asks, r)
    BY <1>7
  <2> HIDE DEF f, r
  <2>6. DirsWell(tr, e)
    BY <2>1, <2>2, DirSet
  <2>7. asks' \in Seq(AskRec) /\ ToSet(asks') \cup ToSet(mail) = M \cup {r}
    BY <1>1, <2>4, <2>5, AppendProperties, SetAppend
  <2>8. \A k \in DOMAIN e : k \in DOMAIN ds /\ e[k] = IF k = 1 THEN f ELSE ds[k]
    OBVIOUS
  <2> HIDE DEF e, M
  <2>9. Matches(e, vs, M \cup {r})
    BY <1>3, <1>4, <1>5, <2>2, <2>4, <2>8 DEF Matches
  <2> QED BY <1>7, <2>3, <2>6, <2>7, <2>9 DEF Kept
<1>8. CASE /\ vs # <<>>
           /\ vals' = [vs EXCEPT ![1].state = "wait", ![1].tag = t, ![1].tries = 0] /\ dirs' = ds
           /\ asks' = Append(asks, [kind |-> "read", path |-> vs[1].path, index |-> 0, tag |-> t])
           /\ fetchTimer' = TRUE
  <2> DEFINE f == [vs[1] EXCEPT !.state = "wait", !.tag = t, !.tries = 0]
             e == [vs EXCEPT ![1] = f]
             r == [kind |-> "read", path |-> vs[1].path, index |-> 0, tag |-> t]
  <2>1. 1 \in DOMAIN vs /\ vs[1] \in ValRec
    <3>1. Len(vs) \in Nat \ {0} /\ DOMAIN vs = 1 .. Len(vs)
      BY <1>1, <1>8, EmptySeq, LenProperties
    <3> QED BY <1>1, <3>1, ElementOfSeq
  <2>2. f \in ValRec /\ f.path = vs[1].path /\ f.tag = t /\ f.tries = 0
    BY <1>2, <2>1 DEF ValRec, States
  <2>3. vals' = e
    BY <1>8, <2>1
  <2>4. r \in AskRec /\ r.kind = "read" /\ r.tag = t /\ r.path = vs[1].path
    BY <1>2, <2>1 DEF AskRec, ValRec
  <2>5. asks' = Append(asks, r)
    BY <1>8
  <2> HIDE DEF f, r
  <2>6. ValsWell(tr, e)
    BY <2>1, <2>2, ValSet
  <2>7. asks' \in Seq(AskRec) /\ ToSet(asks') \cup ToSet(mail) = M \cup {r}
    BY <1>1, <2>4, <2>5, AppendProperties, SetAppend
  <2>8. \A k \in DOMAIN e : k \in DOMAIN vs /\ e[k] = IF k = 1 THEN f ELSE vs[k]
    OBVIOUS
  <2> HIDE DEF e, M
  <2>9. Matches(ds, e, M \cup {r})
    BY <1>3, <1>4, <1>5, <2>2, <2>4, <2>8 DEF Matches
  <2> QED BY <1>8, <2>3, <2>6, <2>7, <2>9 DEF Kept
<1>9. CASE /\ ds # <<>> /\ dirs' = [ds EXCEPT ![1].tag = t] /\ vals' = vs
           /\ fetchTimer' = runs /\ UNCHANGED asks
  <2> DEFINE f == [ds[1] EXCEPT !.tag = t]
             e == [ds EXCEPT ![1] = f]
  <2>1. 1 \in DOMAIN ds /\ ds[1] \in DirRec
    <3>1. Len(ds) \in Nat \ {0} /\ DOMAIN ds = 1 .. Len(ds)
      BY <1>1, <1>9, EmptySeq, LenProperties
    <3> QED BY <1>1, <3>1, ElementOfSeq
  <2>2. f \in DirRec /\ f.path = ds[1].path /\ f.tag = t
    BY <1>2, <2>1 DEF DirRec
  <2>3. dirs' = e
    BY <1>9, <2>1
  <2> HIDE DEF f
  <2>4. DirsWell(tr, e)
    BY <2>1, <2>2, DirSet
  <2>5. \A k \in DOMAIN e : k \in DOMAIN ds /\ e[k] = IF k = 1 THEN f ELSE ds[k]
    OBVIOUS
  <2> HIDE DEF e, M
  <2>6. Matches(e, vs, M)
    <3>1. ASSUME NEW m \in M, m.kind = "list", NEW k \in DOMAIN e, e[k].tag = m.tag
          PROVE  e[k].path = m.path
      BY <1>3, <1>4, <2>2, <2>5, <3>1 DEF Matches
    <3> QED BY <1>3, <3>1 DEF Matches
  <2> QED BY <1>1, <1>9, <2>3, <2>4, <2>6 DEF Kept, M
<1>10. CASE /\ vs # <<>> /\ vals' = [vs EXCEPT ![1].tag = t, ![1].tries = 0] /\ dirs' = ds
            /\ fetchTimer' = runs /\ UNCHANGED asks
  <2> DEFINE f == [vs[1] EXCEPT !.tag = t, !.tries = 0]
             e == [vs EXCEPT ![1] = f]
  <2>1. 1 \in DOMAIN vs /\ vs[1] \in ValRec
    <3>1. Len(vs) \in Nat \ {0} /\ DOMAIN vs = 1 .. Len(vs)
      BY <1>1, <1>10, EmptySeq, LenProperties
    <3> QED BY <1>1, <3>1, ElementOfSeq
  <2>2. f \in ValRec /\ f.path = vs[1].path /\ f.tag = t /\ f.tries = 0
    BY <1>2, <2>1 DEF ValRec
  <2>3. vals' = e
    BY <1>10, <2>1
  <2> HIDE DEF f
  <2>4. ValsWell(tr, e)
    BY <2>1, <2>2, ValSet
  <2>5. \A k \in DOMAIN e : k \in DOMAIN vs /\ e[k] = IF k = 1 THEN f ELSE vs[k]
    OBVIOUS
  <2> HIDE DEF e, M
  <2>6. Matches(ds, e, M)
    <3>1. ASSUME NEW m \in M, m.kind = "read", NEW k \in DOMAIN e, e[k].tag = m.tag
          PROVE  e[k].path = m.path
      BY <1>3, <1>4, <2>2, <2>5, <3>1 DEF Matches
    <3> QED BY <1>3, <3>1 DEF Matches
  <2> QED BY <1>1, <1>10, <2>3, <2>4, <2>6 DEF Kept, M
<1> QED BY <1>6, <1>7, <1>8, <1>9, <1>10 DEF ContinueFetching, t

----------------------------------------------------------------------------
(* The actor's answers.                                                    *)

\* The paths there may be.
LEMMA PathsAre ==
  /\ <<"aps">> \in Paths /\ <<"rest">> \in Paths /\ DeviceDir \in Paths /\ DotActor \in Paths
  /\ <<"aps", ".actor", "name">> \in Paths
  /\ \A n \in VfsNodes : NodeDir(n) \in Paths /\ NodeValue(n) \in Paths
BY DEF Paths

\* Paths that get longer, and paths that are different.
LEMMA PathSteps ==
  /\ Append(<<"aps">>, ".actor") = DotActor /\ Append(<<"aps">>, "devices") = DeviceDir
  /\ Append(DotActor, "name") = <<"aps", ".actor", "name">>
  /\ <<"aps">> # DotActor /\ <<"aps">> # DeviceDir /\ DotActor # DeviceDir
<1>1. ASSUME NEW a, NEW b PROVE Append(<<a>>, b) = <<a, b>>
  <2> DEFINE S == {a, b}
             s == Append(<<a>>, b)
             t == <<a, b>>
  <2>1. <<a>> \in Seq(S) /\ b \in S /\ t \in Seq(S) /\ Len(<<a>>) = 1 /\ Len(t) = 2
    OBVIOUS
  <2>2. t[1] = a /\ t[2] = b /\ <<a>>[1] = a
    OBVIOUS
  <2> HIDE DEF S, t
  <2>3. s \in Seq(S) /\ Len(s) = 2 /\ s[1] = a /\ s[2] = b
    BY <2>1, <2>2, AppendProperties
  <2> HIDE DEF s
  <2>4. \A i \in 1 .. Len(s) : s[i] = t[i]
    BY <2>2, <2>3
  <2>5. s = t
    BY <2>1, <2>3, <2>4, SeqEqual
  <2> QED BY <2>5 DEF s, t
<1>2. ASSUME NEW a, NEW b, NEW c PROVE Append(<<a, b>>, c) = <<a, b, c>>
  <2> DEFINE S == {a, b, c}
             q == <<a, b>>
             s == Append(q, c)
             t == <<a, b, c>>
  <2>1. q \in Seq(S) /\ c \in S /\ t \in Seq(S) /\ Len(q) = 2 /\ Len(t) = 3
    OBVIOUS
  <2>2. t[1] = a /\ t[2] = b /\ t[3] = c /\ q[1] = a /\ q[2] = b
    OBVIOUS
  <2> HIDE DEF S, t, q
  <2>3. s \in Seq(S) /\ Len(s) = 3 /\ s[1] = a /\ s[2] = b /\ s[3] = c
    <3>1. q \in Seq(S) /\ c \in S
      BY <2>1
    <3>2. s \in Seq(S) /\ Len(s) = Len(q) + 1 /\ s[Len(q) + 1] = c
      BY <3>1, AppendProperties
    <3>3. \A i \in 1 .. Len(q) : s[i] = q[i]
      BY <3>1, AppendProperties
    <3> HIDE DEF s
    <3> QED BY <2>1, <2>2, <3>2, <3>3
  <2> HIDE DEF s
  <2>4. \A i \in 1 .. Len(s) : s[i] = t[i]
    BY <2>2, <2>3
  <2>5. s = t
    BY <2>1, <2>3, <2>4, SeqEqual
  <2> QED BY <2>5 DEF s, t, q
<1>3. <<"aps">> # DotActor /\ <<"aps">> # DeviceDir /\ DotActor # DeviceDir
  BY DEF DotActor, DeviceDir
<1> QED BY <1>1, <1>2, <1>3 DEF DotActor, DeviceDir

\* The names in a directory are those of entries there may be.
LEMMA NamesFit ==
  ASSUME nodeTable \in Seq(VfsNodes), NEW p \in Paths
  PROVE  FitsIn(p, Names(p)) /\ Len(Names(p)) \in Nat
<1>1. DOMAIN nodeTable = 1 .. Len(nodeTable) /\ Len(nodeTable) \in Nat
      /\ \A i \in DOMAIN nodeTable : nodeTable[i] \in VfsNodes
  BY LenProperties, ElementOfSeq
<1>2. ASSUME NEW n \in Nat, NEW s \in [1 .. n -> Words], \A i \in 1 .. n : Append(p, s[i]) \in Paths
      PROVE  FitsIn(p, s) /\ Len(s) \in Nat
  <2>1. s \in Seq(Words) /\ Len(s) = n /\ DOMAIN s = 1 .. n
    BY FcnIsSeq
  <2> QED BY <1>2, <2>1 DEF FitsIn
<1>3. CASE p = <<"aps">>
  <2> DEFINE s == <<".actor", "devices">>
  <2>1. s \in [1 .. 2 -> Words]
    BY DEF Words
  <2>2. s[1] = ".actor" /\ s[2] = "devices"
    OBVIOUS
  <2>3. Append(p, ".actor") = DotActor /\ Append(p, "devices") = DeviceDir
    BY <1>3, PathSteps
  <2>4. Names(p) = s
    BY <1>3, PathSteps DEF Names
  <2> HIDE DEF s
  <2>5. \A i \in 1 .. 2 : i = 1 \/ i = 2
    OBVIOUS
  <2>6. \A i \in 1 .. 2 : Append(p, s[i]) \in Paths
    BY <2>2, <2>3, <2>5, PathsAre
  <2> QED BY <1>2, <2>1, <2>4, <2>6
<1>4. CASE p = DotActor
  <2> DEFINE s == <<"name">>
  <2>1. s \in [1 .. 1 -> Words] /\ s[1] = "name"
    BY DEF Words
  <2>2. Append(p, "name") = <<"aps", ".actor", "name">>
    BY <1>4, PathSteps
  <2>3. p # <<"aps">> /\ p # DeviceDir
    BY <1>4, PathSteps
  <2>4. Names(p) = s
    BY <1>4, <2>3 DEF Names
  <2> HIDE DEF s
  <2>5. \A i \in 1 .. 1 : Append(p, s[i]) \in Paths
    <3>1. \A i \in 1 .. 1 : i = 1
      OBVIOUS
    <3> QED BY <2>1, <2>2, <3>1, PathsAre
  <2> QED BY <1>2, <2>1, <2>4, <2>5
<1>5. CASE p = DeviceDir
  <2>1. p # <<"aps">> /\ p # DotActor
    BY <1>5 DEF DotActor, DeviceDir
  <2>2. Names(p) = nodeTable
    BY <1>5, <2>1 DEF Names
  <2>3. nodeTable \in [1 .. Len(nodeTable) -> Words]
    BY <1>1 DEF Words
  <2>4. \A i \in 1 .. Len(nodeTable) : Append(p, nodeTable[i]) \in Paths
    BY <1>1, <1>5, PathsAre DEF NodeDir
  <2> QED BY <1>1, <1>2, <2>2, <2>3, <2>4
<1>6. CASE p \notin {<<"aps">>, DotActor, DeviceDir}
  <2>1. Names(p) = IF p \in {NodeDir(n) : n \in ToSet(nodeTable)} THEN <<"state">> ELSE <<>>
    BY <1>6 DEF Names
  <2>2. CASE p \in {NodeDir(n) : n \in ToSet(nodeTable)}
    <3> DEFINE s == <<"state">>
    <3>1. s \in [1 .. 1 -> Words] /\ s[1] = "state"
      BY DEF Words
    <3>2. PICK n \in ToSet(nodeTable) : p = NodeDir(n)
      BY <2>2
    <3>3. n \in VfsNodes
      BY <1>1, <3>2 DEF ToSet
    <3>4. Append(p, "state") \in Paths
      BY <3>2, <3>3, PathsAre DEF NodeValue
    <3>5. Names(p) = s
      BY <2>1, <2>2
    <3> HIDE DEF s
    <3>6. \A i \in 1 .. 1 : Append(p, s[i]) \in Paths
      BY <3>1, <3>4
    <3> QED BY <1>2, <3>1, <3>5, <3>6
  <2>3. CASE p \notin {NodeDir(n) : n \in ToSet(nodeTable)}
    <3>1. Names(p) = <<>>
      BY <2>1, <2>3
    <3>2. <<>> \in Seq(Words) /\ DOMAIN <<>> = {} /\ Len(<<>>) = 0
      OBVIOUS
    <3> QED BY <3>1, <3>2 DEF FitsIn
  <2> QED BY <2>2, <2>3
<1> QED BY <1>3, <1>4, <1>5, <1>6

\* A part of the names in a directory.
LEMMA PageFits ==
  ASSUME NEW p, NEW s, FitsIn(p, s), NEW lo \in Nat \ {0}, NEW hi \in Nat, hi <= Len(s)
  PROVE  FitsIn(p, SubSeq(s, lo, hi))
<1> DEFINE q == SubSeq(s, lo, hi)
<1>1. DOMAIN s = 1 .. Len(s) /\ Len(s) \in Nat /\ \A i \in 1 .. Len(s) : s[i] \in Words
  BY LenProperties, ElementOfSeq DEF FitsIn
<1>2. \A i \in lo .. hi : i \in 1 .. Len(s)
  BY <1>1
<1>3. \A i \in lo .. hi : s[i] \in Words
  BY <1>1, <1>2
<1>4. /\ q \in Seq(Words) /\ Len(q) = IF lo <= hi THEN hi - lo + 1 ELSE 0
      /\ \A i \in 1 .. hi - lo + 1 : q[i] = s[lo + i - 1]
  BY <1>3, SubSeqProperties
<1> HIDE DEF q
<1>5. DOMAIN q = 1 .. Len(q)
  BY <1>4, LenProperties
<1>6. \A i \in DOMAIN q : i \in 1 .. hi - lo + 1 /\ lo + i - 1 \in lo .. hi
  BY <1>4, <1>5
<1>7. \A i \in DOMAIN q : q[i] = s[lo + i - 1] /\ lo + i - 1 \in DOMAIN s
  BY <1>1, <1>2, <1>4, <1>6
<1> QED BY <1>4, <1>7 DEF FitsIn, q

\* The list in an answer is of what was asked for, with its tag.
LEMMA ListAnswerIs ==
  ASSUME nodeTable \in Seq(VfsNodes), NEW r \in AskRec
  PROVE  /\ ListAnswer(r) \in ListMsg /\ ListAnswer(r).kind = "list"
         /\ ListAnswer(r).path = r.path /\ ListAnswer(r).tag = r.tag
<1> DEFINE all  == Names(r.path)
           full == r.path = DeviceDir /\ Len(all) - r.index >= Page
           good == r.path = DeviceDir \/ (all # <<>> /\ r.index = 0)
           nx   == IF full THEN r.index + Page ELSE 0
           nm   == IF full THEN SubSeq(all, r.index + 1, r.index + Page) ELSE SubSeq(all, r.index + 1, Len(all))
           a    == [kind |-> "list", path |-> r.path, tag |-> r.tag, ok |-> good, next |-> nx, names |-> nm]
<1>1. /\ r.path \in Paths /\ r.index \in Nat /\ r.tag \in Nat \ {0} /\ Page \in Nat
      /\ FitsIn(r.path, all) /\ Len(all) \in Nat
  BY NamesFit, VfsAssumption DEF AskRec
<1>2. ListAnswer(r) = a
  BY DEF ListAnswer
<1> HIDE DEF all
<1>3. nx \in Nat /\ good \in BOOLEAN
  BY <1>1
<1>4. r.index + 1 \in Nat \ {0} /\ (full => r.index + Page \in Nat /\ r.index + Page <= Len(all))
  BY <1>1
<1>5. FitsIn(r.path, nm)
  <2>1. CASE full
    BY <1>1, <1>4, <2>1, PageFits
  <2>2. CASE ~full
    <3>1. Len(all) <= Len(all)
      BY <1>1
    <3> HIDE DEF full
    <3> QED BY <1>1, <1>4, <2>2, <3>1, PageFits
  <2> QED BY <2>1, <2>2
<1> HIDE DEF good, nx, nm
<1>6. nm \in Seq(Words)
  BY <1>5 DEF FitsIn
<1>7. a \in ListRec /\ a.path = r.path /\ a.names = nm /\ a.kind = "list" /\ a.tag = r.tag
  BY <1>1, <1>3, <1>6 DEF ListRec
<1> HIDE DEF a
<1> QED BY <1>2, <1>5, <1>7 DEF ListMsg

\* The value in an answer is of what was asked for, with its tag.
LEMMA ReadAnswerIs ==
  ASSUME nodeTable \in Seq(VfsNodes), nodeState \in [VfsNodes -> {0, 1}], NEW r \in AskRec
  PROVE  /\ ReadAnswer(r) \in ReadRec /\ ReadAnswer(r).kind = "read"
         /\ ReadAnswer(r).path = r.path /\ ReadAnswer(r).tag = r.tag
<1> DEFINE n == {m \in ToSet(nodeTable) : NodeValue(m) = r.path}
           good == n # {} \/ r.path = <<"aps", ".actor", "name">>
           val == IF n = {} THEN 0 ELSE nodeState[CHOOSE m \in n : TRUE]
<1>1. ToSet(nodeTable) \subseteq VfsNodes
  BY LenProperties, ElementOfSeq DEF ToSet
<1>2. val \in {0, 1}
  <2>1. n \subseteq VfsNodes
    BY <1>1
  <2> HIDE DEF n
  <2>2. n # {} => (CHOOSE m \in n : TRUE) \in n
    OBVIOUS
  <2> QED BY <2>1, <2>2
<1>3. ReadAnswer(r) = [kind |-> "read", path |-> r.path, tag |-> r.tag, ok |-> good, value |-> val]
  BY DEF ReadAnswer
<1>4. good \in BOOLEAN /\ r.path \in Paths /\ r.tag \in Nat \ {0}
  BY DEF AskRec
<1> HIDE DEF n, good, val
<1> QED BY <1>2, <1>3, <1>4 DEF ReadRec

\* The actor answers: the answer has the tag and the entry of the request.
LEMMA AnswersOK == TreeInv /\ CoreAnswers => TreeInv'
<1> SUFFICES ASSUME TreeInv, CoreAnswers PROVE TreeInv'
  OBVIOUS
<1> DEFINE r == Head(asks)
           a == IF r.kind = "list" THEN ListAnswer(r) ELSE ReadAnswer(r)
<1>1. /\ asks # <<>> /\ asks' = Tail(asks) /\ mail' \in {mail, Append(mail, a)}
      /\ UNCHANGED <<tree, values, opened, dirs, vals, fetchTimer, nodeTable, nodeState, told, missed>>
  BY DEF CoreAnswers
<1>2. asks \in Seq(AskRec) /\ mail \in Seq(MailRec) /\ Matches(dirs, vals, ToSet(asks) \cup ToSet(mail))
  BY DEF TreeInv, Messages
<1>3. r \in AskRec /\ r \in ToSet(asks) /\ Tail(asks) \in Seq(AskRec) /\ ToSet(Tail(asks)) \subseteq ToSet(asks)
  BY <1>1, <1>2, SetTail
<1>4. nodeTable \in Seq(VfsNodes) /\ nodeState \in [VfsNodes -> {0, 1}]
  BY DEF TreeInv, TreeTypes
<1> HIDE DEF r
<1>5. a \in MailRec /\ a.kind = r.kind /\ a.path = r.path /\ a.tag = r.tag
  <2>1. r.kind \in {"list", "read"}
    BY <1>3 DEF AskRec
  <2> QED BY <1>3, <1>4, <2>1, ListAnswerIs, ReadAnswerIs DEF MailRec
<1> HIDE DEF a
<1>6. mail' \in Seq(MailRec) /\ ToSet(mail') \subseteq ToSet(mail) \cup {a}
  <2>1. Append(mail, a) \in Seq(MailRec) /\ ToSet(Append(mail, a)) = ToSet(mail) \cup {a}
    BY <1>2, <1>5, AppendProperties, SetAppend
  <2>2. mail' = mail \/ mail' = Append(mail, a)
    BY <1>1
  <2>3. CASE mail' = mail
    BY <1>2, <2>3
  <2>4. CASE mail' = Append(mail, a)
    BY <2>1, <2>4
  <2> QED BY <2>2, <2>3, <2>4
<1>7. Matches(dirs, vals, ToSet(asks') \cup ToSet(mail'))
  <2>1. ToSet(asks') \cup ToSet(mail') \subseteq (ToSet(asks) \cup ToSet(mail)) \cup {a}
    BY <1>1, <1>3, <1>6
  <2> DEFINE M == ToSet(asks) \cup ToSet(mail)
             N == ToSet(asks') \cup ToSet(mail')
  <2>2. Matches(dirs, vals, M) /\ r \in M /\ N \subseteq M \cup {a}
    BY <1>2, <1>3, <2>1
  <2> HIDE DEF M, N
  <2>3. Matches(dirs, vals, N)
    BY <1>5, <2>2 DEF Matches
  <2> QED BY <2>3 DEF N
<1>8. Messages'
  BY <1>1, <1>3, <1>6, <1>7 DEF Messages
<1> QED BY <1>1, <1>8 DEF TreeInv, TreeTypes, Fetchers

----------------------------------------------------------------------------
(* The steps.                                                              *)

\* Nodes come and go with no effect on fetchers; their notices have no tag.
LEMMA NodesOK ==
  ASSUME TreeInv, NEW n \in VfsNodes, NodeCreated(n) \/ NodeChanges(n) \/ NodeDeleted(n)
  PROVE  TreeInv'
<1>1. /\ nodeTable \in Seq(VfsNodes) /\ DOMAIN nodeTable = 1 .. Len(nodeTable) /\ Len(nodeTable) \in Nat
      /\ told \subseteq ToSet(nodeTable) /\ nodeState \in [VfsNodes -> {0, 1}] /\ missed \in BOOLEAN
  BY LenProperties DEF TreeInv, TreeTypes
<1>2. asks \in Seq(AskRec) /\ mail \in Seq(MailRec) /\ Matches(dirs, vals, ToSet(asks) \cup ToSet(mail))
  BY DEF TreeInv, Messages
<1>3. CASE NodeCreated(n)
  <2>1. /\ nodeTable' = Append(nodeTable, n)
        /\ UNCHANGED <<tree, values, opened, dirs, vals, fetchTimer, asks, mail, nodeState, told, missed>>
    BY <1>3 DEF NodeCreated
  <2>2. nodeTable' \in Seq(VfsNodes) /\ told' \subseteq ToSet(nodeTable')
    BY <1>1, <2>1, AppendProperties, SetAppend
  <2> QED BY <2>1, <2>2 DEF TreeInv, TreeTypes, Fetchers, Messages
<1>4. CASE NodeChanges(n)
  <2> DEFINE m == [kind |-> "ntfy", path |-> NodeValue(n)]
  <2>1. /\ n \in ToSet(nodeTable) /\ nodeState' = [nodeState EXCEPT ![n] = 1 - @] /\ told' = told \cup {n}
        /\ mail' = Append(mail, m)
        /\ UNCHANGED <<tree, values, opened, dirs, vals, fetchTimer, asks, nodeTable, missed>>
    BY <1>4 DEF NodeChanges, Notice
  <2>2. nodeState' \in [VfsNodes -> {0, 1}] /\ told' \subseteq ToSet(nodeTable')
    BY <1>1, <2>1
  <2>3. m \in NtfyRec /\ m.kind = "ntfy"
    BY DEF NtfyRec
  <2>4. m \in MailRec
    BY <2>3 DEF MailRec
  <2> HIDE DEF m
  <2>5. mail' \in Seq(MailRec) /\ ToSet(mail') = ToSet(mail) \cup {m}
    BY <1>2, <2>1, <2>4, AppendProperties, SetAppend
  <2>6. Matches(dirs, vals, ToSet(asks) \cup ToSet(mail'))
    BY <1>2, <2>3, <2>5 DEF Matches
  <2> QED BY <2>1, <2>2, <2>5, <2>6 DEF TreeInv, TreeTypes, Fetchers, Messages
<1>5. CASE NodeDeleted(n)
  <2> DEFINE k == CHOOSE k \in DOMAIN nodeTable : nodeTable[k] = n
             q == RemoveAt(nodeTable, k)
  <2>1. /\ n \in ToSet(nodeTable) /\ nodeTable' = q /\ told' = told \ {n} /\ missed' \in BOOLEAN
        /\ UNCHANGED <<tree, values, opened, dirs, vals, fetchTimer, asks, mail, nodeState>>
    BY <1>5 DEF NodeDeleted
  <2>2. k \in 1 .. Len(nodeTable) /\ nodeTable[k] = n
    BY <1>1, <2>1 DEF ToSet
  <2> HIDE DEF k
  <2>3. /\ q \in Seq(VfsNodes) /\ Len(q) = Len(nodeTable) - 1
        /\ \A i \in 1 .. Len(nodeTable) - 1 : q[i] = IF i < k THEN nodeTable[i] ELSE nodeTable[i + 1]
    BY <1>1, <2>2, RemoveAtProperties
  <2>4. DOMAIN q = 1 .. Len(nodeTable) - 1
    BY <2>3, LenProperties
  <2> HIDE DEF q
  <2>5. ASSUME NEW x \in told', x \notin ToSet(q) PROVE FALSE
    <3>1. PICK i \in DOMAIN nodeTable : nodeTable[i] = x
      BY <1>1, <2>1, <2>5 DEF ToSet
    <3>2. i # k
      BY <2>1, <2>2, <2>5, <3>1
    <3>3. CASE i < k
      <4>1. i \in DOMAIN q /\ q[i] = x
        BY <1>1, <2>2, <2>3, <2>4, <3>1, <3>3
      <4> QED BY <2>5, <4>1 DEF ToSet
    <3>4. CASE i > k
      <4>1. i - 1 \in 1 .. Len(nodeTable) - 1 /\ ~ (i - 1 < k) /\ (i - 1) + 1 = i
        BY <1>1, <2>2, <3>1, <3>4
      <4>2. i - 1 \in DOMAIN q /\ q[i - 1] = x
        BY <2>3, <2>4, <3>1, <4>1
      <4> QED BY <2>5, <4>2 DEF ToSet
    <3> QED BY <1>1, <2>2, <3>1, <3>2, <3>3, <3>4
  <2> QED BY <2>1, <2>3, <2>5 DEF TreeInv, TreeTypes, Fetchers, Messages
<1> QED BY <1>3, <1>4, <1>5

\* What is left to show of a step after which fetching continues.
LEMMA KeptInv ==
  ASSUME TreeInv, Kept(tree'), TreeTypes', mail' \in Seq(MailRec), ToSet(mail') \subseteq ToSet(mail)
  PROVE  TreeInv'
<1>1. Matches(dirs', vals', ToSet(asks') \cup ToSet(mail))
  BY DEF Kept
<1>2. ToSet(asks') \cup ToSet(mail') \subseteq ToSet(asks') \cup ToSet(mail)
  OBVIOUS
<1> DEFINE M == ToSet(asks') \cup ToSet(mail)
           N == ToSet(asks') \cup ToSet(mail')
<1>3. Matches(dirs', vals', M) /\ N \subseteq M
  BY <1>1, <1>2
<1> HIDE DEF M, N
<1>4. Matches(dirs', vals', N)
  BY <1>3 DEF Matches
<1>5. Matches(dirs', vals', ToSet(asks') \cup ToSet(mail'))
  BY <1>4 DEF N
<1> QED BY <1>5 DEF TreeInv, Kept, Fetchers, Messages

\* A page of a directory: its fetcher goes, or stands behind for the next one.
LEMMA ListOK ==
  ASSUME TreeInv, NEW m, m \in ToSet(mail), m \in ListMsg, ListRsp(m)
  PROVE  tree \subseteq tree' /\ tree' \subseteq Paths /\ Kept(tree')
<1> DEFINE Has(j) == dirs[j].tag = m.tag /\ dirs[j].state = "wait"
           k == CHOOSE j \in DOMAIN dirs : Has(j)
           left == Removed(dirs, k)
           x0 == [tree |-> tree, dirs |-> left, vals |-> vals]
           x == Added(x0, dirs[k].path, m.names)
           more == [dirs[k] EXCEPT !.state = "start", !.index = m.next, !.tries = 0]
<1>1. /\ Fetchers /\ Messages /\ tree \subseteq Paths /\ fetchTimer \in BOOLEAN
      /\ DirsWell(tree, dirs) /\ ValsWell(tree, vals)
  BY DEF TreeInv, TreeTypes, Fetchers
<1>2. From(dirs, dirs) /\ From(vals, vals)
  BY DEF From
<1>3. CASE ~ \E j \in DOMAIN dirs : Has(j)
  <2>1. ContinueFetching(dirs, vals, fetchTimer, 0) /\ UNCHANGED tree
    BY <1>3 DEF ListRsp
  <2> QED BY <1>1, <1>2, <2>1, Continues
<1>4. CASE \E j \in DOMAIN dirs : Has(j)
  <2>1. k \in DOMAIN dirs /\ dirs[k].tag = m.tag
    BY <1>4
  <2>2. IF ~m.ok THEN ContinueFetching(left, vals, FALSE, 0) /\ UNCHANGED tree
        ELSE /\ tree' = x.tree
             /\ ContinueFetching(IF m.next = 0 THEN x.dirs ELSE Append(x.dirs, more), x.vals, FALSE, 0)
    <3> HIDE DEF left, more, x
    <3> QED BY <1>4 DEF ListRsp, left, more, x, x0
  <2> HIDE DEF k
  <2>3. /\ DirsWell(tree, left) /\ From(left, dirs)
        /\ dirs[k].path # DotActor => \A i \in DOMAIN left : left[i].path # dirs[k].path
    BY <1>1, <2>1, DirRemoved
  <2> HIDE DEF left
  <2>4. CASE ~m.ok
    <3>1. ContinueFetching(left, vals, FALSE, 0) /\ UNCHANGED tree
      BY <2>2, <2>4
    <3> QED BY <1>1, <1>2, <2>3, <3>1, Continues
  <2>5. CASE m.ok
    <3>1. /\ tree' = x.tree
          /\ ContinueFetching(IF m.next = 0 THEN x.dirs ELSE Append(x.dirs, more), x.vals, FALSE, 0)
      BY <2>2, <2>5
    <3>2. x0 \in Grown(tree, left, vals)
      <4>1. Since(left, left, tree)
        BY DEF Since
      <4>2. x0 \in [tree : SUBSET Paths, dirs : Seq(DirRec), vals : Seq(ValRec)]
        BY <1>1, <2>3 DEF DirsWell, ValsWell
      <4>3. x0.tree = tree /\ x0.dirs = left /\ x0.vals = vals
        OBVIOUS
      <4> HIDE DEF x0
      <4> QED BY <1>1, <1>2, <2>3, <4>1, <4>2, <4>3 DEF Grown
    <3>3. FitsIn(dirs[k].path, m.names) /\ m.next \in Nat
      <4>1. dirs[k].path = m.path
        <5>1. m.kind = "list"
          BY DEF ListMsg, ListRec
        <5> QED BY <1>1, <2>1, <5>1 DEF Messages, Matches
      <4> QED BY <4>1 DEF ListMsg, ListRec
    <3> HIDE DEF x0
    <3>4. x \in Grown(tree, left, vals)
      BY <3>2, <3>3, AddedOK
    <3> HIDE DEF x
    <3>5. /\ tree \subseteq x.tree /\ x.tree \subseteq Paths
          /\ DirsWell(x.tree, x.dirs) /\ ValsWell(x.tree, x.vals)
          /\ Since(x.dirs, left, tree) /\ From(x.vals, vals)
      BY <3>4 DEF Grown
    <3>6. From(x.dirs, dirs)
      <4>1. From(x.dirs, left)
        BY <3>5 DEF From, Since
      <4> QED BY <2>3, <4>1, FromTwice
    <3>7. CASE m.next = 0
      BY <1>1, <3>1, <3>5, <3>6, <3>7, Continues
    <3>8. CASE m.next # 0
      <4> DEFINE y == Append(x.dirs, more)
      <4>1. dirs[k] \in DirRec /\ dirs[k].path \in tree
        BY <1>1, <2>1, LenProperties, ElementOfSeq DEF DirsWell
      <4>2. more \in DirRec /\ more.path = dirs[k].path /\ more.state = "start" /\ more.tag = dirs[k].tag
        <5>1. 0 \in 0 .. MaxTries - 1
          BY VfsAssumption
        <5> QED BY <3>3, <4>1, <5>1 DEF DirRec, States
      <4> HIDE DEF more
      <4>3. more.path = DotActor \/ \A i \in DOMAIN x.dirs : x.dirs[i].path # more.path
        BY <2>3, <3>5, <4>1, <4>2 DEF Since
      <4>4. DirsWell(x.tree, y)
        BY <3>5, <4>1, <4>2, <4>3, DirAdded
      <4>5. From(y, dirs)
        <5>1. \A i \in DOMAIN y : y[i] = IF i \in DOMAIN x.dirs THEN x.dirs[i] ELSE more
          BY <3>5, <4>2, SetAppend DEF DirsWell
        <5> HIDE DEF y
        <5> QED BY <2>1, <3>6, <4>2, <5>1 DEF From
      <4>6. ContinueFetching(y, x.vals, FALSE, 0)
        BY <3>1, <3>8
      <4> HIDE DEF y
      <4> QED BY <1>1, <3>1, <3>5, <4>4, <4>5, <4>6, Continues
    <3> QED BY <3>7, <3>8
  <2> QED BY <2>4, <2>5
<1> QED BY <1>3, <1>4

\* The value of an entry: its fetcher goes.
LEMMA ReadRspOK ==
  ASSUME TreeInv, NEW m, m \in ReadRec, ReadRsp(m)
  PROVE  /\ Kept(tree) /\ values' \in [Paths -> {NoValue, 0, 1}]
         /\ \A p \in Paths : values'[p] # NoValue => p \in tree
<1> DEFINE k == CHOOSE j \in DOMAIN vals : vals[j].tag = m.tag
           left == Removed(vals, k)
<1>1. /\ Fetchers /\ Messages /\ tree \subseteq Paths /\ fetchTimer \in BOOLEAN
      /\ DirsWell(tree, dirs) /\ ValsWell(tree, vals)
      /\ values \in [Paths -> {NoValue, 0, 1}] /\ \A p \in Paths : values[p] # NoValue => p \in tree
  BY DEF TreeInv, TreeTypes, Fetchers
<1>2. From(dirs, dirs) /\ From(vals, vals)
  BY DEF From
<1>3. CASE ~ \E j \in DOMAIN vals : vals[j].tag = m.tag
  <2>1. ContinueFetching(dirs, vals, fetchTimer, 0) /\ UNCHANGED values
    BY <1>3 DEF ReadRsp
  <2> QED BY <1>1, <1>2, <2>1, Continues
<1>4. CASE \E j \in DOMAIN vals : vals[j].tag = m.tag
  <2> DEFINE runs == fetchTimer /\ vals[k].state # "wait"
  <2>1. k \in DOMAIN vals
    BY <1>4
  <2>2. /\ values' = IF m.ok THEN [values EXCEPT ![vals[k].path] = m.value] ELSE values
        /\ ContinueFetching(dirs, left, runs, 0)
    BY <1>4 DEF ReadRsp
  <2> HIDE DEF k
  <2>3. ValsWell(tree, left) /\ From(left, vals) /\ runs \in BOOLEAN
    BY <1>1, <2>1, ValRemoved
  <2> HIDE DEF left, runs
  <2>4. Kept(tree)
    BY <1>1, <1>2, <2>2, <2>3, Continues
  <2>5. vals[k].path \in tree /\ m.value \in {0, 1}
    BY <1>1, <2>1 DEF ValsWell, ReadRec
  <2> QED BY <1>1, <2>2, <2>4, <2>5
<1> QED BY <1>3, <1>4

\* Of the entries above one of the actor some are known, and the last of them is found.
LEMMA LastKnownIs ==
  ASSUME NEW n \in VfsNodes, <<"aps">> \in tree
  PROVE  LastKnown(NodeValue(n)) \in tree
<1> DEFINE S == {"aps", "devices", "state"} \cup VfsNodes
           d == DeviceDir
           e == Append(d, n)
           p == Append(e, "state")
           A == Above(p) \cap tree
           T == {i \in 1 .. 4 : SubSeq(p, 1, i) \in tree}
<1>1. d \in Seq(S) /\ Len(d) = 2 /\ d[1] = "aps" /\ n \in S /\ "state" \in S /\ "aps" \in S
  BY DEF DeviceDir
<1>2. NodeValue(n) = p
  BY DEF NodeValue, NodeDir
<1> HIDE DEF S, d
<1>3. e \in Seq(S) /\ Len(e) = 3 /\ e[1] = "aps"
  <2>1. d \in Seq(S) /\ n \in S
    BY <1>1
  <2>2. e \in Seq(S) /\ Len(e) = Len(d) + 1
    BY <2>1, AppendProperties
  <2>3. \A i \in 1 .. Len(d) : e[i] = d[i]
    BY <2>1, AppendProperties
  <2> HIDE DEF e
  <2> QED BY <1>1, <2>2, <2>3
<1> HIDE DEF e
<1>4. p \in Seq(S) /\ Len(p) = 4 /\ p[1] = "aps"
  <2> DEFINE w == "state"
  <2>1. e \in Seq(S) /\ w \in S
    BY <1>1, <1>3
  <2>2. p \in Seq(S) /\ Len(p) = Len(e) + 1
    BY <2>1, AppendProperties
  <2>3. \A i \in 1 .. Len(e) : p[i] = e[i]
    BY <2>1, AppendProperties
  <2> HIDE DEF p
  <2> QED BY <1>3, <2>2, <2>3
<1> HIDE DEF p
<1>5. DOMAIN p = 1 .. 4 /\ \A i \in 1 .. 4 : p[i] \in S
  BY <1>4, LenProperties, ElementOfSeq
<1>6. ASSUME NEW i \in 1 .. 4
      PROVE  SubSeq(p, 1, i) \in Seq(S) /\ Len(SubSeq(p, 1, i)) = i /\ SubSeq(p, 1, i)[1] = "aps"
  <2>1. 1 \in Int /\ i \in Int /\ \A j \in 1 .. i : p[j] \in S
    BY <1>5
  <2> DEFINE q == SubSeq(p, 1, i)
  <2>2. /\ q \in Seq(S) /\ Len(q) = IF 1 <= i THEN i - 1 + 1 ELSE 0
        /\ \A j \in 1 .. i - 1 + 1 : q[j] = p[1 + j - 1]
    BY <2>1, SubSeqProperties
  <2> HIDE DEF q
  <2>3. 1 \in 1 .. i - 1 + 1
    OBVIOUS
  <2>4. q[1] = p[1 + 1 - 1]
    BY <2>2, <2>3
  <2> QED BY <1>4, <2>2, <2>4 DEF q
<1>7. SubSeq(p, 1, 1) = <<"aps">>
  <2> DEFINE q == SubSeq(p, 1, 1)
             a == <<"aps">>
  <2>1. q \in Seq(S) /\ Len(q) = 1 /\ q[1] = "aps"
    BY <1>6
  <2>2. a \in Seq(S) /\ Len(a) = 1 /\ a[1] = "aps"
    BY <1>1
  <2> HIDE DEF q, a
  <2>3. \A i \in 1 .. Len(q) : q[i] = a[i]
    BY <2>1, <2>2
  <2>4. q = a
    BY <2>1, <2>2, <2>3, SeqEqual
  <2> QED BY <2>4 DEF q, a
<1>8. T \in SUBSET (1 .. 4) /\ 1 \in T
  <2>1. SubSeq(p, 1, 1) \in tree
    BY <1>7
  <2>2. 1 \in 1 .. 4
    OBVIOUS
  <2> QED BY <2>1, <2>2, Zenon
<1>9. PICK b \in T : \A i \in T : i <= b
  <2> HIDE DEF T
  <2>1. 4 \in Nat /\ T # {}
    BY <1>8
  <2>2. Max(T) \in T /\ \A i \in T : i <= Max(T)
    BY <1>8, <2>1, MaxIsIn
  <2> QED BY <2>2
<1>10. SubSeq(p, 1, b) \in A /\ \A r \in A : Len(r) <= Len(SubSeq(p, 1, b))
  <2>1. SubSeq(p, 1, b) \in A /\ Len(SubSeq(p, 1, b)) = b
    BY <1>5, <1>6, <1>9 DEF Above
  <2>2. ASSUME NEW r \in A PROVE Len(r) <= b
    <3>1. PICK i \in 1 .. 4 : r = SubSeq(p, 1, i)
      BY <1>5 DEF Above
    <3>2. i \in T /\ Len(r) = i
      BY <1>6, <3>1
    <3> QED BY <1>9, <3>2
  <2> QED BY <2>1, <2>2
<1> HIDE DEF A
<1>11. \E q \in A : \A r \in A : Len(r) <= Len(q)
  BY <1>10
<1>12. LastKnown(p) \in A
  <2>1. LastKnown(p) = CHOOSE q \in A : \A r \in A : Len(r) <= Len(q)
    BY DEF LastKnown, A
  <2> QED BY <1>11, <2>1
<1> QED BY <1>2, <1>12 DEF A

\* A notice of a change: the value is read, or the last directory above it is listed.
LEMMA ChangedOK ==
  ASSUME TreeInv, NEW m, m \in NtfyRec, Changed(m)
  PROVE  Kept(tree) /\ opened' \subseteq Paths
<1> DEFINE q == LastKnown(m.path)
           listed == \E k \in DOMAIN dirs : dirs[k].path = q
           f == DirFetcher(q, 0)
<1>1. /\ Fetchers /\ Messages /\ tree \subseteq Paths /\ fetchTimer \in BOOLEAN /\ opened \subseteq Paths
      /\ DirsWell(tree, dirs) /\ ValsWell(tree, vals) /\ dirs \in Seq(DirRec)
  BY DEF TreeInv, TreeTypes, Fetchers, DirsWell
<1>2. From(dirs, dirs) /\ From(vals, vals)
  BY DEF From
<1>3. q \in tree /\ q \in Paths
  BY <1>1, LastKnownIs DEF NtfyRec, TreeInv, TreeTypes
<1>4. CASE m.path \in tree
  <2>1. ContinueFetching(dirs, AddValue(vals, m.path), fetchTimer, 0) /\ UNCHANGED opened
    BY <1>4 DEF Changed
  <2>2. ValsWell(tree, AddValue(vals, m.path)) /\ From(AddValue(vals, m.path), vals)
    BY <1>1, <1>4, ValAdded
  <2> QED BY <1>1, <1>2, <2>1, <2>2, Continues
<1>5. CASE m.path \notin tree /\ listed
  <2>1. ContinueFetching(dirs, vals, fetchTimer, 0) /\ UNCHANGED opened
    BY <1>5 DEF Changed
  <2> QED BY <1>1, <1>2, <2>1, Continues
<1>6. CASE m.path \notin tree /\ ~listed
  <2>1. /\ opened' = (IF Len(q) > 1 THEN opened \cup {q} ELSE opened)
        /\ ContinueFetching(Append(dirs, f), vals, fetchTimer, 0)
    BY <1>6 DEF Changed
  <2>2. opened' \subseteq Paths
    BY <1>1, <1>3, <2>1
  <2> HIDE DEF q
  <2>3. f \in DirRec /\ f.path = q /\ f.state = "start" /\ f.tag = 0
    BY <1>3, FetcherIs
  <2> HIDE DEF f
  <2>4. DirsWell(tree, Append(dirs, f))
    BY <1>1, <1>3, <1>6, <2>3, DirAdded
  <2>5. From(Append(dirs, f), dirs)
    <3>1. \A i \in DOMAIN Append(dirs, f) : Append(dirs, f)[i] = IF i \in DOMAIN dirs THEN dirs[i] ELSE f
      BY <1>1, <2>3, SetAppend
    <3> DEFINE a == Append(dirs, f)
    <3> HIDE DEF a
    <3>2. \A i \in DOMAIN a : a[i] = IF i \in DOMAIN dirs THEN dirs[i] ELSE f
      BY <3>1 DEF a
    <3>3. From(a, dirs)
      BY <2>3, <3>2 DEF From
    <3> QED BY <3>3 DEF a
  <2>6. Kept(tree)
    BY <1>1, <1>2, <2>1, <2>4, <2>5, Continues
  <2> QED BY <2>2, <2>6
<1> QED BY <1>4, <1>5, <1>6

\* Whatever message is first, what is left and what is asked next fit together.
LEMMA MessageOK == TreeInv /\ VfsModel_MessageCallback => TreeInv'
<1> SUFFICES ASSUME TreeInv, VfsModel_MessageCallback PROVE TreeInv'
  OBVIOUS
<1> DEFINE m == Head(mail)
<1>1. /\ mail # <<>> /\ mail' = Tail(mail) /\ UNCHANGED <<nodeTable, nodeState, told, missed>>
      /\ \/ m.kind = "list" /\ ListRsp(m) /\ UNCHANGED <<values, opened>>
         \/ m.kind = "read" /\ ReadRsp(m) /\ UNCHANGED <<tree, opened>>
         \/ m.kind = "ntfy" /\ Changed(m) /\ UNCHANGED <<tree, values>>
  BY DEF VfsModel_MessageCallback
<1>2. mail \in Seq(MailRec)
  BY DEF TreeInv, Messages
<1>3. m \in MailRec /\ m \in ToSet(mail) /\ mail' \in Seq(MailRec) /\ ToSet(mail') \subseteq ToSet(mail)
  BY <1>1, <1>2, SetTail
<1> HIDE DEF m
<1>4. /\ m.kind = "list" => m \in ListMsg
      /\ m.kind = "read" => m \in ReadRec
      /\ m.kind = "ntfy" => m \in NtfyRec
  BY <1>3 DEF MailRec, ListMsg, ListRec, ReadRec, NtfyRec
<1>5. TreeTypes
  BY DEF TreeInv
<1>6. CASE m.kind = "list"
  <2>1. ListRsp(m) /\ UNCHANGED <<values, opened>>
    BY <1>1, <1>6
  <2>2. tree \subseteq tree' /\ tree' \subseteq Paths /\ Kept(tree')
    BY <1>3, <1>4, <1>6, <2>1, ListOK
  <2>3. TreeTypes'
    BY <1>1, <1>5, <2>1, <2>2 DEF TreeTypes, Kept
  <2> QED BY <1>3, <2>2, <2>3, KeptInv
<1>7. CASE m.kind = "read"
  <2>1. ReadRsp(m) /\ UNCHANGED <<tree, opened>>
    BY <1>1, <1>7
  <2>2. /\ Kept(tree) /\ values' \in [Paths -> {NoValue, 0, 1}]
        /\ \A p \in Paths : values'[p] # NoValue => p \in tree
    BY <1>4, <1>7, <2>1, ReadRspOK
  <2>3. TreeTypes' /\ tree' = tree
    BY <1>1, <1>5, <2>1, <2>2 DEF TreeTypes, Kept
  <2>4. Kept(tree')
    BY <2>2, <2>3 DEF Kept
  <2> QED BY <1>3, <2>3, <2>4, KeptInv
<1>8. CASE m.kind = "ntfy"
  <2>1. Changed(m) /\ UNCHANGED <<tree, values>>
    BY <1>1, <1>8
  <2>2. Kept(tree) /\ opened' \subseteq Paths
    BY <1>4, <1>8, <2>1, ChangedOK
  <2>3. TreeTypes' /\ tree' = tree
    BY <1>1, <1>5, <2>1, <2>2 DEF TreeTypes, Kept
  <2>4. Kept(tree')
    BY <2>2, <2>3 DEF Kept
  <2> QED BY <1>3, <2>3, <2>4, KeptInv
<1> QED BY <1>1, <1>6, <1>7, <1>8

\* The timer: the first fetcher tries again or is given up.
LEMMA TimerFires == TreeInv /\ fetchTimerFired => TreeInv'
<1> SUFFICES ASSUME TreeInv, fetchTimerFired PROVE TreeInv'
  OBVIOUS
<1>1. /\ Fetchers /\ Messages /\ TreeTypes /\ tree \subseteq Paths /\ missed \in BOOLEAN
      /\ DirsWell(tree, dirs) /\ ValsWell(tree, vals) /\ dirs \in Seq(DirRec) /\ vals \in Seq(ValRec)
      /\ mail \in Seq(MailRec)
  BY DEF TreeInv, TreeTypes, Fetchers, Messages, DirsWell, ValsWell
<1>2. From(dirs, dirs) /\ From(vals, vals)
  BY DEF From
<1>3. UNCHANGED <<tree, values, opened, mail, nodeTable, nodeState, told>>
  BY DEF fetchTimerFired
<1>4. ASSUME Kept(tree), missed' \in BOOLEAN PROVE TreeInv'
  <2>1. TreeTypes' /\ Kept(tree')
    BY <1>1, <1>3, <1>4 DEF TreeTypes, Kept
  <2>2. mail' \in Seq(MailRec) /\ ToSet(mail') \subseteq ToSet(mail)
    BY <1>1, <1>3
  <2> QED BY <2>1, <2>2, KeptInv
<1>5. CASE /\ dirs # <<>> /\ dirs[1].state = "wait"
           /\ ContinueFetching(IF dirs[1].tries + 1 = MaxTries THEN Removed(dirs, 1)
                               ELSE [dirs EXCEPT ![1] = Tried(@)], vals, FALSE, Early(dirs[1]))
           /\ missed' = (missed \/ (dirs[1].tries + 1 = MaxTries /\ dirs[1].path[1] = "aps"))
  <2>1. 1 \in DOMAIN dirs /\ dirs[1] \in DirRec
    <3>1. Len(dirs) \in Nat \ {0} /\ DOMAIN dirs = 1 .. Len(dirs)
      BY <1>1, <1>5, EmptySeq, LenProperties
    <3> QED BY <1>1, <3>1, ElementOfSeq
  <2>2. missed' \in BOOLEAN
    BY <1>5
  <2>3. CASE dirs[1].tries + 1 = MaxTries
    <3>1. DirsWell(tree, Removed(dirs, 1)) /\ From(Removed(dirs, 1), dirs)
      BY <1>1, <2>1, DirRemoved
    <3>2. ContinueFetching(Removed(dirs, 1), vals, FALSE, Early(dirs[1]))
      BY <1>5, <2>3
    <3>3. Kept(tree)
      BY <1>1, <1>2, <3>1, <3>2, Continues
    <3> QED BY <1>4, <2>2, <3>3
  <2>4. CASE dirs[1].tries + 1 # MaxTries
    <3> DEFINE f == Tried(dirs[1])
               e == [dirs EXCEPT ![1] = f]
    <3>1. f \in DirRec /\ f.path = dirs[1].path /\ f.tag = dirs[1].tag
      <4>1. dirs[1].tries + 1 \in 0 .. MaxTries - 1
        BY <2>1, <2>4, VfsAssumption DEF DirRec
      <4> QED BY <2>1, <4>1 DEF Tried, DirRec, States
    <3> HIDE DEF f
    <3>2. DirsWell(tree, e)
      BY <1>1, <2>1, <3>1, DirSet
    <3>3. From(e, dirs)
      <4>1. DOMAIN e = DOMAIN dirs /\ \A i \in DOMAIN dirs : e[i] = IF i = 1 THEN f ELSE dirs[i]
        OBVIOUS
      <4> HIDE DEF e
      <4> QED BY <2>1, <3>1, <4>1 DEF From
    <3>4. ContinueFetching(e, vals, FALSE, Early(dirs[1]))
      BY <1>5, <2>1, <2>4 DEF f
    <3> HIDE DEF e
    <3>5. Kept(tree)
      BY <1>1, <1>2, <3>2, <3>3, <3>4, Continues
    <3> QED BY <1>4, <2>2, <3>5
  <2> QED BY <2>3, <2>4
<1>6. CASE /\ vals # <<>> /\ vals[1].state = "wait"
           /\ ContinueFetching(dirs, [vals EXCEPT ![1] = Tried(@)], FALSE, Early(vals[1])) /\ UNCHANGED missed
  <2> DEFINE f == Tried(vals[1])
             e == [vals EXCEPT ![1] = f]
  <2>1. 1 \in DOMAIN vals /\ vals[1] \in ValRec
    <3>1. Len(vals) \in Nat \ {0} /\ DOMAIN vals = 1 .. Len(vals)
      BY <1>1, <1>6, EmptySeq, LenProperties
    <3> QED BY <1>1, <3>1, ElementOfSeq
  <2>2. f \in ValRec /\ f.path = vals[1].path /\ f.tag = vals[1].tag /\ f.state # "wait"
    <3>1. vals[1].tries + 1 \in {0, 1}
      BY <1>1, <1>6, <2>1 DEF ValsWell
    <3> QED BY <2>1, <3>1 DEF Tried, ValRec, States
  <2>3. ContinueFetching(dirs, e, FALSE, Early(vals[1]))
    BY <1>6, <2>1
  <2> HIDE DEF f
  <2>4. ValsWell(tree, e)
    BY <1>1, <2>1, <2>2, ValSet
  <2>5. From(e, vals)
    <3>1. DOMAIN e = DOMAIN vals /\ \A i \in DOMAIN vals : e[i] = IF i = 1 THEN f ELSE vals[i]
      OBVIOUS
    <3> HIDE DEF e
    <3> QED BY <2>1, <2>2, <3>1 DEF From
  <2> HIDE DEF e
  <2>6. Kept(tree)
    BY <1>1, <1>2, <2>3, <2>4, <2>5, Continues
  <2> QED BY <1>1, <1>4, <1>6, <2>6
<1>7. CASE fetchTimer' = FALSE /\ UNCHANGED <<dirs, vals, asks, missed, vfsFaults>>
  BY <1>1, <1>3, <1>7 DEF TreeInv, TreeTypes, Fetchers, Messages
<1> QED BY <1>5, <1>6, <1>7 DEF fetchTimerFired

\* A view opens a directory: it is listed.
LEMMA FetchMoreOK ==
  ASSUME TreeInv, NEW p \in Paths, fetchMore(p)
  PROVE  TreeInv'
<1> DEFINE f == DirFetcher(p, 0)
           a == Append(dirs, f)
<1>1. /\ Fetchers /\ Messages /\ TreeTypes /\ tree \subseteq Paths /\ fetchTimer \in BOOLEAN
      /\ DirsWell(tree, dirs) /\ ValsWell(tree, vals) /\ dirs \in Seq(DirRec) /\ mail \in Seq(MailRec)
  BY DEF TreeInv, TreeTypes, Fetchers, Messages, DirsWell
<1>2. From(vals, vals)
  BY DEF From
<1>3. /\ p \in tree /\ ~\E k \in DOMAIN dirs : dirs[k].path = p
      /\ opened' = opened \cup {p} /\ ContinueFetching(a, vals, fetchTimer, 0)
      /\ UNCHANGED <<tree, values, mail, nodeTable, nodeState, told, missed>>
  BY DEF fetchMore
<1>4. f \in DirRec /\ f.path = p /\ f.state = "start" /\ f.tag = 0
  BY FetcherIs
<1> HIDE DEF f
<1>5. DirsWell(tree, a)
  BY <1>1, <1>3, <1>4, DirAdded
<1>6. \A i \in DOMAIN a : a[i] = IF i \in DOMAIN dirs THEN dirs[i] ELSE f
  BY <1>1, <1>4, SetAppend
<1> HIDE DEF a
<1>7. From(a, dirs)
  BY <1>4, <1>6 DEF From
<1>8. Kept(tree)
  BY <1>1, <1>2, <1>3, <1>5, <1>7, Continues
<1>9. TreeTypes' /\ Kept(tree')
  BY <1>1, <1>3, <1>8 DEF TreeTypes, Kept
<1>10. mail' \in Seq(MailRec) /\ ToSet(mail') \subseteq ToSet(mail)
  BY <1>1, <1>3
<1> QED BY <1>9, <1>10, KeptInv

\* The invariant holds at first.
LEMMA TreeStarts == VfsInit => TreeInv
<1> SUFFICES ASSUME VfsInit PROVE TreeInv
  OBVIOUS
<1> DEFINE a == <<"aps">>
           b == <<"rest">>
           f == [DirFetcher(a, 0) EXCEPT !.state = "wait", !.tag = 1]
           g == DirFetcher(b, 0)
           r == [kind |-> "list", path |-> a, index |-> 0, tag |-> 1]
<1>1. /\ tree = {a, b} /\ values = [p \in Paths |-> NoValue] /\ opened = {}
      /\ dirs = <<f, g>> /\ vals = <<>> /\ fetchTimer = TRUE /\ asks = <<r>> /\ mail = <<>>
      /\ nodeTable = FirstNodes /\ nodeState = [n \in VfsNodes |-> 0] /\ told = ToSet(FirstNodes)
      /\ missed = FALSE
  BY DEF VfsInit
<1>2. a \in Paths /\ b \in Paths /\ a # b
  BY PathsAre
<1>3. a # DotActor /\ b # DotActor
  BY DEF DotActor
<1> HIDE DEF a, b
<1>4. f \in DirRec /\ f.path = a /\ f.tag = 1 /\ g \in DirRec /\ g.path = b /\ g.tag = 0 /\ g.state = "start"
  <2>1. DirFetcher(a, 0) \in DirRec /\ DirFetcher(a, 0).path = a
    BY <1>2, FetcherIs
  <2>2. f \in DirRec /\ f.path = a /\ f.tag = 1
    BY <2>1 DEF DirRec, States
  <2> QED BY <1>2, <2>2, FetcherIs
<1>5. r \in AskRec /\ r.kind = "list" /\ r.path = a /\ r.tag = 1
  BY <1>2 DEF AskRec
<1> HIDE DEF f, g, r
<1>6. TreeTypes
  <2>1. a \in tree /\ a = <<"aps">> /\ tree \subseteq Paths
    BY <1>1, <1>2 DEF a
  <2> HIDE DEF a
  <2>2. <<"aps">> \in tree
    BY <2>1, Zenon
  <2>3. nodeTable \in Seq(VfsNodes) /\ told \subseteq ToSet(nodeTable)
    BY <1>1, VfsAssumption
  <2> QED BY <1>1, <2>1, <2>2, <2>3 DEF TreeTypes
<1>7. DirsWell(tree, dirs)
  <2>1. dirs \in Seq(DirRec) /\ DOMAIN dirs = {1, 2} /\ dirs[1] = f /\ dirs[2] = g
    BY <1>1, <1>4
  <2> QED BY <1>1, <1>2, <1>4, <2>1 DEF DirsWell
<1>8. ValsWell(tree, vals)
  BY <1>1 DEF ValsWell
<1>9. Messages
  <2>1. asks \in Seq(AskRec) /\ mail \in Seq(MailRec) /\ ToSet(asks) = {r} /\ ToSet(mail) = {}
    BY <1>1, <1>5 DEF ToSet
  <2>2. \A k \in DOMAIN dirs : dirs[k].tag = 1 => dirs[k].path = a
    <3>1. DOMAIN dirs = {1, 2} /\ dirs[1] = f /\ dirs[2] = g
      BY <1>1
    <3> QED BY <1>4, <3>1
  <2>3. Matches(dirs, vals, {r})
    BY <1>5, <2>2 DEF Matches
  <2>4. ToSet(asks) \cup ToSet(mail) = {r}
    BY <2>1
  <2> QED BY <2>1, <2>3, <2>4 DEF Messages
<1> QED BY <1>6, <1>7, <1>8, <1>9 DEF TreeInv, Fetchers

\* The invariant is kept by every step.
LEMMA TreeSteps == TreeInv /\ [VfsNext]_vfsVars => TreeInv'
<1> SUFFICES ASSUME TreeInv, [VfsNext]_vfsVars PROVE TreeInv'
  OBVIOUS
<1>1. CASE CoreAnswers
  BY <1>1, AnswersOK
<1>2. CASE \E n \in VfsNodes : NodeCreated(n) \/ NodeChanges(n) \/ NodeDeleted(n)
  BY <1>2, NodesOK
<1>3. CASE VfsModel_MessageCallback
  BY <1>3, MessageOK
<1>4. CASE fetchTimerFired
  BY <1>4, TimerFires
<1>5. CASE \E p \in Paths : fetchMore(p)
  BY <1>5, FetchMoreOK
<1>6. CASE UNCHANGED vfsVars
  BY <1>6 DEF vfsVars, TreeInv, TreeTypes, Fetchers, Messages
<1> QED BY <1>1, <1>2, <1>3, <1>4, <1>5, <1>6 DEF VfsNext

\* It says what is checked.
LEMMA TreeIsSafe == TreeInv => VfsSafe
<1> SUFFICES ASSUME TreeInv PROVE VfsSafe
  OBVIOUS
<1>1. /\ DirsWell(tree, dirs) /\ ValsWell(tree, vals) /\ TreeTypes
      /\ mail \in Seq(MailRec) /\ Matches(dirs, vals, ToSet(asks) \cup ToSet(mail))
  BY DEF TreeInv, Fetchers, Messages
<1>2. \A k \in DOMAIN dirs : dirs[k].tries < MaxTries
  <2>1. \A k \in DOMAIN dirs : dirs[k] \in DirRec
    BY <1>1, LenProperties, ElementOfSeq DEF DirsWell
  <2> QED BY <2>1, VfsAssumption DEF DirRec
<1>3. \A k \in DOMAIN vals : vals[k].tries < 2
  <2>1. \A k \in DOMAIN vals : vals[k] \in ValRec
    BY <1>1, LenProperties, ElementOfSeq DEF ValsWell
  <2> QED BY <2>1 DEF ValRec
<1>4. VfsTypeOK
  BY <1>1, <1>2, <1>3 DEF VfsTypeOK, TreeTypes, DirsWell, ValsWell
<1>5. \A i \in DOMAIN mail : mail[i] \in ToSet(asks) \cup ToSet(mail)
  BY DEF ToSet
<1>6. \A i \in DOMAIN mail :
        /\ mail[i].kind = "list" =>
             \A k \in DOMAIN dirs : dirs[k].tag = mail[i].tag => dirs[k].path = mail[i].path
        /\ mail[i].kind = "read" =>
             \A k \in DOMAIN vals : vals[k].tag = mail[i].tag => vals[k].path = mail[i].path
  BY <1>1, <1>5 DEF Matches
<1> QED BY <1>1, <1>4, <1>6 DEF VfsSafe, DirsWell, ValsWell, TreeTypes

\* Fetching is one request at a time, and an answer, be it late or to a request that was
\* made again, is about the entry of the fetcher that has its tag.
THEOREM TreeIsSound == VfsSpec => []VfsSafe
<1>1. TreeInv => VfsSafe
  BY TreeIsSafe
<1> QED BY <1>1, TreeStarts, TreeSteps, PTL DEF VfsSpec

----------------------------------------------------------------------------
(* Framing: the bytes of a frame.                                          *)

\* The range of a byte, as inequalities.
LEMMA ByteIs ==
  ASSUME NEW b
  PROVE  b \in Byte <=> b \in Int /\ 0 <= b /\ b <= 255
BY DEF Byte

\* A number of two bytes is what its bytes stand for.
LEMMA TwoBytes ==
  ASSUME NEW n \in Nat, n < 65536
  PROVE  Lo(n) \in Byte /\ Hi(n) \in Byte /\ Lo(n) + 256 * Hi(n) = n
<1> DEFINE T == 256
           q == n \div T
           r == n % T
<1>1. T \in Nat \ {0} /\ n \in Int
  OBVIOUS
<1>2. q \in Int /\ n = T * q + r /\ r \in 0 .. T - 1
  <2> HIDE DEF T
  <2> QED BY <1>1, DivMod
<1>3. r \in Int /\ 0 <= r /\ r <= 255 /\ n = 256 * q + r
  <2> HIDE DEF q, r
  <2>1. \A m \in Int : m \in 0 .. T - 1 => 0 <= m /\ m <= T - 1
    OBVIOUS
  <2>2. r \in Int /\ 0 <= r /\ r <= T - 1
    <3> HIDE DEF T
    <3> QED BY <1>1, <1>2
  <2> QED BY <1>2, <2>2
<1>4. 0 <= q /\ q <= 255
  <2> HIDE DEF q, r, T
  <2> QED BY <1>2, <1>3
<1>5. q % T = q
  <2>1. q \in 0 .. T - 1 /\ 0 \in Int
    <3> HIDE DEF q
    <3> QED BY <1>2, <1>4
  <2>2. T * 0 + q = q
    <3> HIDE DEF q
    <3> QED BY <1>2
  <2> HIDE DEF T, q
  <2>3. (T * 0 + q) % T = q
    BY <1>1, <2>1, RestOfMultiple
  <2> QED BY <2>2, <2>3
<1>6. Lo(n) = r /\ Hi(n) = q
  BY <1>5 DEF Lo, Hi
<1> HIDE DEF q, r, T
<1> QED BY <1>2, <1>3, <1>4, <1>6, ByteIs

\* A checksum has two bytes, whatever it is of.
LEMMA NegatedIs ==
  ASSUME NEW d \in Seq(Int)
  PROVE  Negated(d) \in Nat /\ Negated(d) < 65536
<1> DEFINE n == Len(d)
           g == [i \in 1 .. n |-> [t \in Int |-> t + d[i]]]
           Is(f) == f = [i \in 0 .. n |-> IF i = 0 THEN 0 ELSE f[i - 1] + d[i]]
           p == CHOOSE f : Is(f)
<1>1. n \in Nat /\ \A i \in 1 .. n : d[i] \in Int
  BY LenProperties, ElementOfSeq
<1>2. g \in [1 .. n -> [Int -> Int]]
  BY <1>1
<1>3. PICK f : f \in [0 .. n -> Int] /\ IsPass(f, n, 0, g)
  <2>1. 0 \in Int
    OBVIOUS
  <2> HIDE DEF g, n
  <2> QED BY <1>1, <1>2, <2>1, PassExists, Zenon
<1>4. Is(f)
  <2>1. \A k \in 0 .. n : k # 0 => k \in 1 .. n /\ k - 1 \in 0 .. n
    BY <1>1
  <2>2. \A k \in 0 .. n : f[k] \in Int
    BY <1>3
  <2>3. \A k \in 1 .. n : \A t \in Int : g[k][t] = t + d[k]
    OBVIOUS
  <2> HIDE DEF g
  <2>4. \A k \in 0 .. n : k # 0 => g[k][f[k - 1]] = f[k - 1] + d[k]
    BY <2>1, <2>2, <2>3
  <2>5. f = [k \in 0 .. n |-> IF k = 0 THEN 0 ELSE g[k][f[k - 1]]]
    BY <1>3 DEF IsPass
  <2> QED BY <2>4, <2>5
<1>5. Is(p)
  <2> HIDE DEF Is
  <2> QED BY <1>4
<1>6. Negated(d) = (65536 - p[n]) % 65536
  BY DEF Negated
<1>7. \A k \in 0 .. n : p[k] = IF k = 0 THEN 0 ELSE p[k - 1] + d[k]
  BY <1>5
<1> HIDE DEF p, g
<1> DEFINE S == {k \in 0 .. n : p[k] \in Int}
<1>8. 0 \in S
  BY <1>1, <1>7
<1>9. ASSUME NEW k \in 1 .. n, k - 1 \in S PROVE k \in S
  <2>1. k \in 0 .. n /\ k # 0 /\ p[k - 1] \in Int
    BY <1>9
  <2>2. p[k] = p[k - 1] + d[k]
    BY <1>7, <2>1
  <2> QED BY <1>1, <2>1, <2>2
<1>10. n \in S
  <2>1. S \in SUBSET (0 .. n)
    OBVIOUS
  <2> HIDE DEF S
  <2> QED BY <1>1, <1>8, <1>9, <2>1, Passed
<1>11. p[n] \in Int
  BY <1>10
<1> DEFINE M == 65536
<1>12. (M - p[n]) % M \in Nat /\ (M - p[n]) % M < M
  <2>1. M \in Nat \ {0} /\ M - p[n] \in Int
    BY <1>11
  <2> HIDE DEF M
  <2>2. (M - p[n]) % M \in 0 .. M - 1
    BY <2>1, DivMod
  <2> QED BY <2>1, <2>2
<1> QED BY <1>6, <1>12

\* The escape of a byte, and what it stands for.
LEMMA EscapeIs ==
  ASSUME NEW b \in Byte
  PROVE  /\ Escape(b) \in Seq(Byte) /\ Len(Escape(b)) \in {1, 2}
         /\ b \notin {FR_ESC, FR_END} => Len(Escape(b)) = 1 /\ Escape(b)[1] = b
         /\ b \in {FR_ESC, FR_END} => /\ Len(Escape(b)) = 2 /\ Escape(b)[1] = FR_ESC
                                      /\ Escape(b)[2] \in {T_FR_ESC, T_FR_END}
                                      /\ Unescape(Escape(b)[2]) = b
<1>1. CASE b = FR_ESC
  BY <1>1 DEF Escape, Unescape, FR_ESC, FR_END, T_FR_ESC, T_FR_END, Byte
<1>2. CASE b = FR_END
  BY <1>2 DEF Escape, Unescape, FR_ESC, FR_END, T_FR_ESC, T_FR_END, Byte
<1>3. CASE b \notin {FR_ESC, FR_END}
  <2>1. Escape(b) = <<b>>
    BY <1>3 DEF Escape
  <2> QED BY <1>3, <2>1
<1> QED BY <1>1, <1>2, <1>3

\* The loop of protocol_send_flagged, step by step.
LEMMA EscapesIs ==
  ASSUME NEW x \in Seq(Byte)
  PROVE  /\ \A i \in 0 .. Len(x) : Escapes(x)[i] \in Seq(Byte)
         /\ Escapes(x)[0] = <<>>
         /\ \A i \in 1 .. Len(x) : Escapes(x)[i] = Escapes(x)[i - 1] \o Escape(x[i])
<1> DEFINE n == Len(x)
           T == Seq(Byte)
           g == [i \in 1 .. n |-> [t \in T |-> t \o Escape(x[i])]]
           Is(f) == f = [i \in 0 .. n |-> IF i = 0 THEN <<>> ELSE f[i - 1] \o Escape(x[i])]
           p == CHOOSE f : Is(f)
<1>1. n \in Nat /\ <<>> \in T /\ \A i \in 1 .. n : x[i] \in Byte
  BY LenProperties, ElementOfSeq
<1>2. g \in [1 .. n -> [T -> T]]
  <2>1. \A i \in 1 .. n : Escape(x[i]) \in T
    BY <1>1, EscapeIs
  <2>2. \A i \in 1 .. n : \A t \in T : t \o Escape(x[i]) \in T
    BY <2>1, ConcatProperties
  <2> HIDE DEF T
  <2> QED BY <2>2
<1>3. PICK f : f \in [0 .. n -> T] /\ IsPass(f, n, <<>>, g)
  <2> HIDE DEF g, T
  <2> QED BY <1>1, <1>2, PassExists
<1>4. Is(f)
  <2>1. \A k \in 0 .. n : k # 0 => k \in 1 .. n /\ k - 1 \in 0 .. n
    BY <1>1
  <2>2. \A k \in 0 .. n : f[k] \in T
    BY <1>3
  <2>3. \A k \in 1 .. n : \A t \in T : g[k][t] = t \o Escape(x[k])
    OBVIOUS
  <2> HIDE DEF g, T
  <2>4. \A k \in 0 .. n : k # 0 => g[k][f[k - 1]] = f[k - 1] \o Escape(x[k])
    BY <2>1, <2>2, <2>3
  <2>5. f = [k \in 0 .. n |-> IF k = 0 THEN <<>> ELSE g[k][f[k - 1]]]
    BY <1>3 DEF IsPass
  <2> QED BY <2>4, <2>5
<1>5. Is(p)
  <2> HIDE DEF Is
  <2> QED BY <1>4
<1>6. Escapes(x) = p
  BY DEF Escapes
<1>7. \A k \in 0 .. n : p[k] = IF k = 0 THEN <<>> ELSE p[k - 1] \o Escape(x[k])
  BY <1>5
<1> HIDE DEF p, g, T
<1> DEFINE S == {k \in 0 .. n : p[k] \in T}
<1>8. 0 \in S
  BY <1>1, <1>7
<1>9. ASSUME NEW k \in 0 .. n, k # 0 PROVE p[k] = p[k - 1] \o Escape(x[k])
  BY <1>7, <1>9
<1>10. ASSUME NEW k \in 1 .. n, k - 1 \in S PROVE k \in S
  <2>1. k \in 0 .. n /\ k # 0 /\ p[k - 1] \in T
    BY <1>10
  <2>2. Escape(x[k]) \in T
    BY <1>1, EscapeIs DEF T
  <2>3. p[k - 1] \o Escape(x[k]) \in T
    BY <2>1, <2>2, ConcatProperties DEF T
  <2> QED BY <1>9, <2>1, <2>3
<1>11. ASSUME NEW m \in 0 .. n PROVE p[m] \in T
  <2> DEFINE R == S \cap (0 .. m)
  <2>1. R \in SUBSET (0 .. m) /\ m \in Nat /\ 0 \in R
    BY <1>8
  <2>2. \A k \in 1 .. m : k - 1 \in R => k \in R
    BY <1>10
  <2> HIDE DEF R
  <2>3. m \in R
    BY <2>1, <2>2, Passed
  <2> QED BY <2>3 DEF R
<1>12. \A k \in 1 .. n : k \in 0 .. n /\ k # 0
  OBVIOUS
<1>13. \A k \in 1 .. n : p[k] = p[k - 1] \o Escape(x[k])
  BY <1>9, <1>12
<1>14. p[0] = <<>>
  BY <1>1, <1>7
<1> QED BY <1>6, <1>11, <1>13, <1>14 DEF T

\* What was put on the line stays there.
LEMMA EscapesGrow ==
  ASSUME NEW x \in Seq(Byte), NEW i \in 0 .. Len(x)
  PROVE  LET a == Escapes(x)[i]
             b == Escapes(x)[Len(x)]
         IN  Len(a) <= Len(b) /\ \A q \in 1 .. Len(a) : b[q] = a[q]
<1> DEFINE E(j) == Escapes(x)[j]
           a == E(i)
           n == Len(x) - i
           Ok(d) == Len(a) <= Len(E(i + d)) /\ \A q \in 1 .. Len(a) : E(i + d)[q] = a[q]
           S == {d \in 0 .. n : Ok(d)}
<1>0. Len(x) \in Nat /\ n \in Nat /\ \A k \in 1 .. Len(x) : x[k] \in Byte
  BY LenProperties, ElementOfSeq
<1>1. /\ \A k \in 0 .. Len(x) : E(k) \in Seq(Byte)
      /\ \A k \in 1 .. Len(x) : E(k) = E(k - 1) \o Escape(x[k])
  BY EscapesIs
<1> HIDE DEF E
<1>2. a \in Seq(Byte) /\ Len(a) \in Nat
  BY <1>1, LenProperties
<1>3. Ok(0)
  <2>1. i + 0 = i
    OBVIOUS
  <2> QED BY <1>2, <2>1
<1>4. ASSUME NEW d \in 1 .. n, Ok(d - 1) PROVE Ok(d)
  <2> DEFINE k == i + d
  <2>1. k \in 1 .. Len(x) /\ k - 1 \in 0 .. Len(x) /\ k - 1 = i + (d - 1)
    BY <1>0
  <2> HIDE DEF k
  <2>2. E(k - 1) \in Seq(Byte) /\ Escape(x[k]) \in Seq(Byte) /\ E(k) = E(k - 1) \o Escape(x[k])
    BY <1>0, <1>1, <2>1, EscapeIs
  <2>3. /\ Len(E(k)) = Len(E(k - 1)) + Len(Escape(x[k]))
        /\ \A q \in 1 .. Len(E(k - 1)) : E(k)[q] = E(k - 1)[q]
        /\ Len(E(k - 1)) \in Nat /\ Len(Escape(x[k])) \in Nat
    <3> DEFINE s == E(k - 1)
               t == Escape(x[k])
    <3>1. s \in Seq(Byte) /\ t \in Seq(Byte) /\ E(k) = s \o t
      BY <2>2
    <3> HIDE DEF s, t
    <3>2. Len(s \o t) = Len(s) + Len(t) /\ Len(s) \in Nat /\ Len(t) \in Nat
      BY <3>1, ConcatProperties, LenProperties
    <3>3. \A q \in 1 .. Len(s) : (s \o t)[q] = s[q]
      BY <3>1, <3>2, ConcatProperties
    <3> QED BY <3>1, <3>2, <3>3 DEF s, t
  <2>4. Len(a) <= Len(E(k - 1)) /\ \A q \in 1 .. Len(a) : E(k - 1)[q] = a[q]
    BY <1>4, <2>1
  <2>5. Len(a) <= Len(E(k)) /\ \A q \in 1 .. Len(a) : E(k)[q] = a[q]
    <3> HIDE DEF a
    <3> QED BY <1>2, <2>3, <2>4
  <2> QED BY <2>5 DEF k
<1> HIDE DEF Ok
<1>5. n \in S
  <2>1. S \in SUBSET (0 .. n) /\ 0 \in S
    BY <1>0, <1>3
  <2>2. \A d \in 1 .. n : d - 1 \in S => d \in S
    BY <1>4
  <2> HIDE DEF S, n
  <2> QED BY <1>0, <2>1, <2>2, Passed
<1>6. Ok(n) /\ i + n = Len(x)
  BY <1>0, <1>5
<1> QED BY <1>6 DEF Ok, E

\* The byte after the first i of x, where it is on the line.
LEMMA EscapesAt ==
  ASSUME NEW x \in Seq(Byte), NEW i \in 0 .. Len(x) - 1
  PROVE  LET m == Len(Escapes(x)[i])
             e == Escape(x[i + 1])
             b == Escapes(x)[Len(x)]
         IN  /\ m \in Nat /\ Len(Escapes(x)[i + 1]) = m + Len(e) /\ m + Len(e) <= Len(b)
             /\ \A q \in 1 .. Len(e) : b[m + q] = e[q]
<1> DEFINE s == Escapes(x)[i]
           t == Escapes(x)[i + 1]
           e == Escape(x[i + 1])
           b == Escapes(x)[Len(x)]
<1>1. Len(x) \in Nat /\ i + 1 \in 1 .. Len(x) /\ i + 1 \in 0 .. Len(x) /\ i \in 0 .. Len(x)
  BY LenProperties
<1>2. x[i + 1] \in Byte
  BY <1>1, ElementOfSeq
<1>3. s \in Seq(Byte) /\ e \in Seq(Byte)
  BY <1>1, <1>2, EscapesIs, EscapeIs
<1>4. t = s \o e
  <2>1. Escapes(x)[i + 1] = Escapes(x)[(i + 1) - 1] \o Escape(x[i + 1])
    BY <1>1, EscapesIs
  <2>2. (i + 1) - 1 = i
    BY <1>1
  <2> QED BY <2>1, <2>2
<1>5. Len(t) <= Len(b) /\ \A q \in 1 .. Len(t) : b[q] = t[q]
  BY <1>1, EscapesGrow
<1> HIDE DEF s, t, e, b
<1>6. Len(t) = Len(s) + Len(e) /\ Len(s) \in Nat /\ Len(e) \in Nat
  BY <1>3, <1>4, ConcatProperties, LenProperties
<1>7. \A q \in 1 .. Len(e) : t[Len(s) + q] = e[q]
  <2> TAKE q \in 1 .. Len(e)
  <2>1. Len(s) + q \in 1 .. Len(s) + Len(e) /\ ~ (Len(s) + q <= Len(s)) /\ Len(s) + q - Len(s) = q
    BY <1>6
  <2>2. (s \o e)[Len(s) + q] = e[Len(s) + q - Len(s)]
    BY <1>3, <2>1, ConcatProperties
  <2> QED BY <1>4, <2>1, <2>2
<1>8. \A q \in 1 .. Len(e) : b[Len(s) + q] = e[q]
  BY <1>5, <1>6, <1>7
<1> QED BY <1>5, <1>6, <1>8 DEF s, t, e, b

\* The two parts of a concatenation.
LEMMA PartsOf ==
  ASSUME NEW S, NEW a \in Seq(S), NEW b \in Seq(S)
  PROVE  /\ SubSeq(a \o b, 1, Len(a)) = a
         /\ SubSeq(a \o b, Len(a) + 1, Len(a) + Len(b)) = b
<1> DEFINE s == a \o b
           m == Len(a)
           n == Len(b)
           u == SubSeq(s, 1, m)
           v == SubSeq(s, m + 1, m + n)
<1>1. m \in Nat /\ n \in Nat
  BY LenProperties
<1>2. s \in Seq(S) /\ Len(s) = m + n /\ \A i \in 1 .. m + n : s[i] = IF i <= m THEN a[i] ELSE b[i - m]
  BY ConcatProperties
<1>3. \A i \in 1 .. m + n : s[i] \in S
  BY <1>2, ElementOfSeq
<1> HIDE DEF s, m, n
<1>4. u = a
  <2>1. \A i \in 1 .. m : s[i] \in S
    BY <1>1, <1>3
  <2>2. /\ u \in Seq(S) /\ Len(u) = (IF 1 <= m THEN m - 1 + 1 ELSE 0)
        /\ \A i \in 1 .. m - 1 + 1 : u[i] = s[1 + i - 1]
    BY <1>1, <2>1, SubSeqProperties
  <2> HIDE DEF u, v
  <2>3. Len(u) = m /\ \A i \in 1 .. m : u[i] = a[i]
    BY <1>1, <1>2, <2>2
  <2> QED BY <2>2, <2>3, SeqEqual DEF m
<1>5. v = b
  <2>1. \A i \in m + 1 .. m + n : s[i] \in S
    BY <1>1, <1>3
  <2>2. /\ v \in Seq(S) /\ Len(v) = (IF m + 1 <= m + n THEN m + n - (m + 1) + 1 ELSE 0)
        /\ \A i \in 1 .. m + n - (m + 1) + 1 : v[i] = s[m + 1 + i - 1]
    BY <1>1, <2>1, SubSeqProperties
  <2> HIDE DEF u, v
  <2>3. Len(v) = n
    BY <1>1, <2>2
  <2>4. \A i \in 1 .. n : v[i] = b[i]
    <3> TAKE i \in 1 .. n
    <3>1. i \in 1 .. m + n - (m + 1) + 1 /\ m + 1 + i - 1 = m + i /\ m + i \in 1 .. m + n
          /\ ~ (m + i <= m) /\ m + i - m = i
      BY <1>1
    <3>2. v[i] = s[m + i]
      BY <2>2, <3>1
    <3>3. s[m + i] = b[i]
      <4> DEFINE k == m + i
      <4>1. k \in 1 .. m + n /\ ~ (k <= m) /\ k = m + i /\ k - m = i
        BY <1>1, <3>1
      <4> HIDE DEF k
      <4>2. s[k] = b[k - m]
        BY <1>2, <4>1
      <4> QED BY <4>1, <4>2
    <3> QED BY <3>2, <3>3
  <2> QED BY <2>2, <2>3, <2>4, SeqEqual DEF n
<1> QED BY <1>4, <1>5 DEF s, m, n, u, v

\* Two bytes before a sequence.
LEMMA AfterTwo ==
  ASSUME NEW p \in Byte, NEW q \in Byte, NEW b \in Seq(Byte)
  PROVE  LET s == <<p, q>> \o b
         IN  /\ s \in Seq(Byte) /\ Len(s) = Len(b) + 2 /\ Len(b) \in Nat
             /\ s[1] = p /\ s[2] = q /\ SubSeq(s, 3, 2 + Len(b)) = b
<1> DEFINE t == <<p, q>>
           s == t \o b
<1>1. t \in Seq(Byte) /\ Len(t) = 2 /\ t[1] = p /\ t[2] = q /\ Len(b) \in Nat
  BY LenProperties
<1> HIDE DEF t
<1>2. /\ s \in Seq(Byte) /\ Len(s) = 2 + Len(b)
      /\ \A i \in 1 .. 2 + Len(b) : s[i] = IF i <= 2 THEN t[i] ELSE b[i - 2]
  <2>1. /\ s \in Seq(Byte) /\ Len(s) = Len(t) + Len(b)
        /\ \A i \in 1 .. Len(t) + Len(b) : s[i] = IF i <= Len(t) THEN t[i] ELSE b[i - Len(t)]
    BY <1>1, ConcatProperties
  <2> HIDE DEF s
  <2> QED BY <1>1, <2>1
<1>3. SubSeq(s, 2 + 1, 2 + Len(b)) = b
  <2>1. SubSeq(s, Len(t) + 1, Len(t) + Len(b)) = b
    BY <1>1, PartsOf
  <2> QED BY <1>1, <2>1
<1>4. 1 \in 1 .. 2 + Len(b) /\ 2 \in 1 .. 2 + Len(b) /\ 2 + 1 = 3 /\ 1 <= 2 /\ 2 <= 2
  BY <1>1
<1>5. s[1] = p /\ s[2] = q
  BY <1>1, <1>2, <1>4
<1> QED BY <1>1, <1>2, <1>3, <1>4, <1>5 DEF t

\* What FramingAssumption says of a command.
LEMMA CmdIs ==
  ASSUME NEW c \in Cmds
  PROVE  /\ c \in [cmd : Byte, seq : Byte, status : Byte, data : Seq(Byte)]
         /\ c.cmd \in DOMAIN Layout /\ c.cmd # Ack /\ Layout[c.cmd] \in Nat \cup {Null, Dyn}
         /\ MaxData \in Nat /\ BufferLen \in Nat /\ BufferLen <= 65535 /\ MaxData + 9 <= BufferLen
         /\ Layout[c.cmd] \in Nat => /\ Layout[c.cmd] + 7 <= BufferLen
                                     /\ \/ Len(c.data) = Layout[c.cmd]
                                        \/ c.cmd = StatusCmd /\ Len(c.data) < Layout[c.cmd]
BY FramingAssumption

\* What a command carries behind its head.
Body(c) == IF Layout[c.cmd] = Dyn THEN <<Lo(Len(c.data)), Hi(Len(c.data))>> \o c.data ELSE c.data

\* It has bytes.
Coded(c) == command2buffer(c) # <<>>

\* The body fits the buffer, and a dynamic one begins with its length.
LEMMA BodyIs ==
  ASSUME NEW c \in Cmds, Coded(c)
  PROVE  /\ Body(c) \in Seq(Byte) /\ Len(Body(c)) \in Nat /\ Len(Body(c)) + 7 <= BufferLen
         /\ Len(c.data) \in Nat /\ Layout[c.cmd] # Null
         /\ Layout[c.cmd] = Dyn =>
              /\ Len(c.data) <= MaxData /\ Len(Body(c)) = Len(c.data) + 2
              /\ U16(Body(c), 1) = Len(c.data) /\ SubSeq(Body(c), 3, 2 + Len(c.data)) = c.data
<1>0. /\ c.data \in Seq(Byte) /\ Len(c.data) \in Nat /\ c.cmd # Ack
      /\ Layout[c.cmd] \in Nat \cup {Null, Dyn}
      /\ MaxData \in Nat /\ BufferLen \in Nat /\ BufferLen <= 65535 /\ MaxData + 9 <= BufferLen
      /\ Layout[c.cmd] \in Nat => /\ Layout[c.cmd] + 7 <= BufferLen
                                  /\ Len(c.data) <= Layout[c.cmd]
  BY CmdIs, LenProperties
<1>1. Layout[c.cmd] # Null /\ ~ (Layout[c.cmd] = Dyn /\ Len(c.data) > MaxData)
  BY <1>0 DEF Coded, command2buffer
<1>2. CASE Layout[c.cmd] = Dyn
  <2> DEFINE n == Len(c.data)
             p == Lo(n)
             q == Hi(n)
  <2>1. n \in Nat /\ n <= MaxData /\ n < 65536
    BY <1>0, <1>1, <1>2
  <2>2. p \in Byte /\ q \in Byte /\ p + 256 * q = n
    BY <2>1, TwoBytes
  <2>3. Body(c) = <<p, q>> \o c.data
    BY <1>2 DEF Body
  <2> HIDE DEF p, q
  <2>4. /\ Body(c) \in Seq(Byte) /\ Len(Body(c)) = n + 2 /\ Body(c)[1] = p /\ Body(c)[2] = q
        /\ SubSeq(Body(c), 3, 2 + n) = c.data
    BY <1>0, <2>2, <2>3, AfterTwo
  <2>5. U16(Body(c), 1) = n
    BY <2>2, <2>4 DEF U16
  <2> HIDE DEF n
  <2>6. Len(Body(c)) \in Nat /\ Len(Body(c)) + 7 <= BufferLen
    BY <1>0, <2>1, <2>4
  <2> QED BY <1>0, <1>1, <2>1, <2>4, <2>5, <2>6 DEF n
<1>3. CASE Layout[c.cmd] # Dyn
  <2>1. Body(c) = c.data
    BY <1>3 DEF Body
  <2>2. Layout[c.cmd] \in Nat
    BY <1>0, <1>1, <1>3
  <2> QED BY <1>0, <1>1, <1>3, <2>1, <2>2
<1> QED BY <1>2, <1>3

\* The head, with the length of it all.
LEMMA BufferIs ==
  ASSUME NEW c \in Cmds, Coded(c)
  PROVE  LET d == command2buffer(c)
             n == Len(Body(c)) + 5
         IN  /\ d \in Seq(Byte) /\ Len(d) = n
             /\ d[1] = c.cmd /\ d[2] = c.seq /\ d[3] = c.status /\ U16(d, 4) = n
             /\ SubSeq(d, 6, n) = Body(c)
<1> DEFINE b == Body(c)
           n == Len(b) + 5
           p == Lo(n)
           q == Hi(n)
           head == <<c.cmd, c.seq, c.status>>
           tail == <<p, q>>
           h == head \o tail
           d == h \o b
<1>1. /\ b \in Seq(Byte) /\ Len(b) \in Nat /\ Len(b) + 7 <= BufferLen /\ BufferLen <= 65535
      /\ BufferLen \in Nat /\ c.cmd \in Byte /\ c.seq \in Byte /\ c.status \in Byte
  BY BodyIs, CmdIs
<1>2. command2buffer(c) = d
  BY CmdIs DEF Coded, command2buffer, Body
<1> HIDE DEF b
<1>3. n \in Nat /\ n < 65536
  BY <1>1
<1>4. p \in Byte /\ q \in Byte /\ p + 256 * q = n
  BY <1>3, TwoBytes
<1> HIDE DEF p, q
<1>5. /\ head \in Seq(Byte) /\ Len(head) = 3
      /\ head[1] = c.cmd /\ head[2] = c.seq /\ head[3] = c.status
  BY <1>1
<1>6. tail \in Seq(Byte) /\ Len(tail) = 2 /\ tail[1] = p /\ tail[2] = q
  BY <1>4
<1> HIDE DEF head, tail
<1>7. /\ h \in Seq(Byte) /\ Len(h) = 5
      /\ \A i \in 1 .. 5 : h[i] = IF i <= 3 THEN head[i] ELSE tail[i - 3]
  <2>1. /\ h \in Seq(Byte) /\ Len(h) = Len(head) + Len(tail)
        /\ \A i \in 1 .. Len(head) + Len(tail) :
             h[i] = IF i <= Len(head) THEN head[i] ELSE tail[i - Len(head)]
    <3>1. head \in Seq(Byte) /\ tail \in Seq(Byte)
      BY <1>5, <1>6
    <3> QED BY <3>1, ConcatProperties
  <2> HIDE DEF h
  <2> QED BY <1>5, <1>6, <2>1
<1> HIDE DEF h
<1>8. /\ d \in Seq(Byte) /\ Len(d) = 5 + Len(b)
      /\ \A i \in 1 .. 5 + Len(b) : d[i] = IF i <= 5 THEN h[i] ELSE b[i - 5]
  <2>1. /\ d \in Seq(Byte) /\ Len(d) = Len(h) + Len(b)
        /\ \A i \in 1 .. Len(h) + Len(b) : d[i] = IF i <= Len(h) THEN h[i] ELSE b[i - Len(h)]
    <3>1. h \in Seq(Byte) /\ b \in Seq(Byte)
      BY <1>1, <1>7
    <3> QED BY <3>1, ConcatProperties
  <2> HIDE DEF d
  <2> QED BY <1>7, <2>1
<1>9. SubSeq(d, 5 + 1, 5 + Len(b)) = b
  <2>1. SubSeq(d, Len(h) + 1, Len(h) + Len(b)) = b
    <3>1. h \in Seq(Byte) /\ b \in Seq(Byte)
      BY <1>1, <1>7
    <3> QED BY <3>1, PartsOf
  <2> QED BY <1>7, <2>1
<1> HIDE DEF d
<1>10. d[1] = h[1] /\ d[2] = h[2] /\ d[3] = h[3] /\ d[4] = h[4] /\ d[5] = h[5]
  BY <1>1, <1>8
<1>11. h[1] = head[1] /\ h[2] = head[2] /\ h[3] = head[3] /\ h[4] = tail[1] /\ h[5] = tail[2]
  BY <1>7
<1>12. U16(d, 4) = n
  <2>1. 4 + 1 = 5
    OBVIOUS
  <2> QED BY <1>4, <1>6, <1>10, <1>11, <2>1 DEF U16
<1>13. 5 + 1 = 6 /\ 5 + Len(b) = n
  BY <1>1
<1> HIDE DEF n
<1> QED BY <1>2, <1>5, <1>8, <1>9, <1>10, <1>11, <1>12, <1>13 DEF b, n

\* A command comes back as it was, but for a status that was short.
LEMMA RoundTrip ==
  ASSUME NEW c \in Cmds, Coded(c)
  PROVE  /\ buffer2command(command2buffer(c)) = Received(c)
         /\ Received(c) # NotACommand
<1> DEFINE d == command2buffer(c)
           b == Body(c)
           n == Len(b) + 5
           layout == Layout[c.cmd]
           cmd(x) == [cmd |-> c.cmd, seq |-> c.seq, status |-> c.status, data |-> x]
<1>1. /\ d \in Seq(Byte) /\ Len(d) = n
      /\ d[1] = c.cmd /\ d[2] = c.seq /\ d[3] = c.status /\ U16(d, 4) = n
      /\ SubSeq(d, 6, n) = b
  BY BufferIs
<1>2. /\ b \in Seq(Byte) /\ Len(b) \in Nat /\ Len(c.data) \in Nat /\ layout # Null
      /\ layout = Dyn => /\ Len(c.data) <= MaxData /\ Len(b) = Len(c.data) + 2
                         /\ U16(b, 1) = Len(c.data) /\ SubSeq(b, 3, 2 + Len(c.data)) = c.data
      /\ layout # Dyn => b = c.data
  BY BodyIs DEF Body
<1>3. /\ c \in [cmd : Byte, seq : Byte, status : Byte, data : Seq(Byte)]
      /\ c.cmd \in DOMAIN Layout /\ layout \in Nat \cup {Null, Dyn} /\ MaxData \in Nat
      /\ layout \in Nat => (Len(c.data) = layout \/ (c.cmd = StatusCmd /\ Len(c.data) < layout))
  <2>1. /\ c \in [cmd : Byte, seq : Byte, status : Byte, data : Seq(Byte)]
        /\ c.cmd \in DOMAIN Layout /\ layout \in Nat \cup {Null, Dyn} /\ MaxData \in Nat
    BY CmdIs
  <2>2. ASSUME layout \in Nat
        PROVE  Len(c.data) = layout \/ (c.cmd = StatusCmd /\ Len(c.data) < layout)
    BY <2>2, CmdIs
  <2> HIDE DEF d, b, n, layout
  <2> QED BY <2>1, <2>2
<1>4. c = cmd(c.data) /\ \A x : [c EXCEPT !.data = x] = cmd(x)
  BY <1>3
<1>5. Received(c) # NotACommand
  <2>1. \E x : Received(c) = cmd(x)
    BY <1>4 DEF Received
  <2>2. c.cmd \in Byte
    BY <1>3
  <2>3. c.cmd # -1
    BY <2>2, ByteIs
  <2> QED BY <2>1, <2>3 DEF NotACommand
<1> DEFINE back ==
      IF layout = Dyn THEN
        IF Len(b) < 2 THEN NotACommand
        ELSE IF U16(b, 1) > Min({MaxData, Len(b) - 2}) THEN NotACommand
        ELSE cmd(SubSeq(b, 3, 2 + U16(b, 1)))
      ELSE IF Len(b) >= layout THEN cmd(SubSeq(b, 1, layout))
      ELSE IF c.cmd = StatusCmd THEN cmd(b \o [i \in 1 .. layout - Len(b) |-> 0])
      ELSE NotACommand
<1>6. buffer2command(d) = back
  <2>1. n >= 5
    BY <1>2
  <2> HIDE DEF d, b, n
  <2>2. Len(d) >= 5
    BY <1>1, <2>1
  <2> QED BY <1>1, <1>2, <1>3, <2>2 DEF buffer2command
<1>7. CASE layout = Dyn
  <2>1. Min({MaxData, Len(b) - 2}) = IF MaxData <= Len(b) - 2 THEN MaxData ELSE Len(b) - 2
    <3>1. MaxData \in Int /\ Len(b) - 2 \in Int
      BY <1>2, <1>3
    <3> QED BY <3>1, MinOfTwo
  <2>2. ~ (Len(b) < 2) /\ ~ (U16(b, 1) > Min({MaxData, Len(b) - 2}))
    BY <1>2, <1>3, <1>7, <2>1
  <2>3. back = cmd(SubSeq(b, 3, 2 + U16(b, 1)))
    BY <1>7, <2>2
  <2>4. back = cmd(c.data)
    BY <1>2, <1>7, <2>3
  <2>5. Received(c) = c
    BY <1>7 DEF Received
  <2> QED BY <1>4, <1>5, <1>6, <2>4, <2>5
<1>8. CASE layout # Dyn
  <2>1. layout \in Nat /\ b = c.data
    BY <1>2, <1>3, <1>8
  <2>2. CASE Len(c.data) = layout
    <3>1. back = cmd(SubSeq(c.data, 1, Len(c.data)))
      BY <1>8, <2>1, <2>2
    <3>2. SubSeq(c.data, 1, Len(c.data)) = c.data
      BY <1>3, SubSeqFull
    <3>3. Received(c) = c
      BY <2>2 DEF Received
    <3> QED BY <1>4, <1>5, <1>6, <3>1, <3>2, <3>3
  <2>3. CASE Len(c.data) # layout
    <3>1. c.cmd = StatusCmd /\ Len(c.data) < layout
      BY <1>3, <2>1, <2>3
    <3>2. ~ (Len(b) >= layout)
      BY <1>2, <2>1, <3>1
    <3>3. back = cmd(b \o [i \in 1 .. layout - Len(b) |-> 0])
      BY <1>8, <3>1, <3>2
    <3>4. Received(c) = [c EXCEPT !.data = c.data \o [i \in 1 .. layout - Len(c.data) |-> 0]]
      BY <1>8, <2>3 DEF Received
    <3> QED BY <1>4, <1>5, <1>6, <2>1, <3>3, <3>4
  <2> QED BY <2>2, <2>3
<1> QED BY <1>7, <1>8

\* What is between the two ends of the frame of a command, and the frame.
Inside(c)  == Payload(command2buffer(c))
Escaped(c) == Escapes(Inside(c))[Len(Inside(c))]
Frame(c)   == send_flagged(command2buffer(c))

\* The data of a frame and its checksum fit the buffer.
LEMMA InsideIs ==
  ASSUME NEW c \in Cmds, Coded(c)
  PROVE  LET d == command2buffer(c)
             x == Inside(c)
         IN  /\ d \in Seq(Byte) /\ Len(d) \in Nat /\ d # <<>>
             /\ x \in Seq(Byte) /\ Len(x) = Len(d) + 2 /\ Len(x) \in Nat /\ Len(x) <= BufferLen
             /\ SubSeq(x, 1, Len(d)) = d /\ U16(x, Len(x) - 1) = Negated(d)
<1> DEFINE d == command2buffer(c)
           x == Inside(c)
           n == Negated(d)
           p == Lo(n)
           q == Hi(n)
           t == <<p, q>>
<1>1. d \in Seq(Byte) /\ Len(d) = Len(Body(c)) + 5 /\ d # <<>>
  BY BufferIs DEF Coded
<1>2. Len(Body(c)) \in Nat /\ Len(Body(c)) + 7 <= BufferLen /\ BufferLen \in Nat
  BY BodyIs, CmdIs
<1>3. x = d \o t
  BY DEF Inside, Payload
<1> HIDE DEF d, x
<1>4. d \in Seq(Int)
  <2>1. Byte \subseteq Int
    BY ByteIs
  <2> QED BY <1>1, <2>1, SeqMonotonic
<1>5. n \in Nat /\ n < 65536
  BY <1>4, NegatedIs
<1> HIDE DEF n
<1>6. p \in Byte /\ q \in Byte /\ p + 256 * q = n
  BY <1>5, TwoBytes
<1> HIDE DEF p, q
<1>7. t \in Seq(Byte) /\ Len(t) = 2 /\ t[1] = p /\ t[2] = q
  BY <1>6
<1> HIDE DEF t
<1> DEFINE m == Len(d)
<1>8. m \in Nat /\ m + 2 <= BufferLen
  BY <1>1, <1>2
<1>9. /\ x \in Seq(Byte) /\ Len(x) = m + Len(t)
      /\ \A i \in 1 .. m + Len(t) : x[i] = IF i <= m THEN d[i] ELSE t[i - m]
  BY <1>1, <1>3, <1>7, ConcatProperties
<1>10. SubSeq(x, 1, m) = d
  BY <1>1, <1>3, <1>7, PartsOf
<1> HIDE DEF m
<1>11. x[m + 1] = p /\ x[m + 2] = q
  <2> DEFINE i == m + 1
             j == m + 2
  <2>1. i \in 1 .. m + Len(t) /\ ~ (i <= m) /\ i - m = 1
    BY <1>7, <1>8
  <2>2. j \in 1 .. m + Len(t) /\ ~ (j <= m) /\ j - m = 2
    BY <1>7, <1>8
  <2> HIDE DEF i, j
  <2>3. x[i] = t[1] /\ x[j] = t[2]
    BY <1>9, <2>1, <2>2
  <2> QED BY <1>7, <2>3 DEF i, j
<1>12. U16(x, Len(x) - 1) = n
  <2>1. Len(x) - 1 = m + 1 /\ (m + 1) + 1 = m + 2
    BY <1>7, <1>8, <1>9
  <2>2. U16(x, m + 1) = x[m + 1] + 256 * x[m + 2]
    BY <2>1 DEF U16
  <2> QED BY <1>6, <1>11, <2>1, <2>2
<1>13. Len(x) = m + 2
  BY <1>7, <1>9
<1> QED BY <1>1, <1>8, <1>9, <1>10, <1>12, <1>13 DEF d, x, m, n

\* The end of a frame and the escape are two bytes.
LEMMA EndsAre == FR_END \in Byte /\ FR_ESC \in Byte /\ FR_END # FR_ESC
BY ByteIs DEF FR_END, FR_ESC

\* A frame is its escaped bytes between two ends.
LEMMA FrameIs ==
  ASSUME NEW c \in Cmds, Coded(c)
  PROVE  LET e == Escaped(c)
             f == Frame(c)
         IN  /\ Len(e) \in Nat /\ f \in Seq(Byte) /\ Len(f) = Len(e) + 2
             /\ f[1] = FR_END /\ f[Len(e) + 2] = FR_END
             /\ \A q \in 1 .. Len(e) : f[q + 1] = e[q]
<1> DEFINE e == Escaped(c)
           f == Frame(c)
           h == <<FR_END>>
           g == h \o e
           m == Len(e)
<1>1. e \in Seq(Byte) /\ m \in Nat
  <2>1. Inside(c) \in Seq(Byte) /\ Len(Inside(c)) \in Nat
    BY InsideIs
  <2>2. Len(Inside(c)) \in 0 .. Len(Inside(c))
    BY <2>1
  <2>3. e \in Seq(Byte)
    BY <2>1, <2>2, EscapesIs DEF Escaped
  <2> QED BY <2>3, LenProperties
<1>2. f = g \o h
  BY DEF Frame, Escaped, Inside, send_flagged
<1> HIDE DEF e, f
<1>3. h \in Seq(Byte) /\ Len(h) = 1 /\ h[1] = FR_END
  BY EndsAre
<1> HIDE DEF h
<1>4. /\ g \in Seq(Byte) /\ Len(g) = Len(h) + m
      /\ \A i \in 1 .. Len(h) + m : g[i] = IF i <= Len(h) THEN h[i] ELSE e[i - Len(h)]
  BY <1>1, <1>3, ConcatProperties
<1> HIDE DEF g
<1>5. /\ f \in Seq(Byte) /\ Len(f) = Len(g) + Len(h)
      /\ \A i \in 1 .. Len(g) + Len(h) : f[i] = IF i <= Len(g) THEN g[i] ELSE h[i - Len(g)]
  <2>1. g \in Seq(Byte) /\ h \in Seq(Byte)
    BY <1>3, <1>4
  <2>2. /\ g \o h \in Seq(Byte) /\ Len(g \o h) = Len(g) + Len(h)
        /\ \A i \in 1 .. Len(g) + Len(h) : (g \o h)[i] = IF i <= Len(g) THEN g[i] ELSE h[i - Len(g)]
    BY <2>1, ConcatProperties
  <2> QED BY <1>2, <2>2
<1> HIDE DEF m
<1>6. Len(g) = m + 1 /\ Len(f) = m + 2
  BY <1>1, <1>3, <1>4, <1>5
<1>7. f[1] = FR_END
  <2>1. f[1] = g[1] /\ g[1] = h[1]
    BY <1>1, <1>3, <1>4, <1>5, <1>6
  <2> QED BY <1>3, <2>1
<1>8. f[m + 2] = FR_END
  <2> DEFINE j == m + 2
  <2>1. j \in 1 .. Len(g) + Len(h) /\ ~ (j <= Len(g)) /\ j - Len(g) = 1
    BY <1>1, <1>3, <1>6
  <2> HIDE DEF j
  <2>2. f[j] = h[1]
    BY <1>5, <2>1
  <2> QED BY <1>3, <2>2 DEF j
<1>9. ASSUME NEW q \in 1 .. m PROVE f[q + 1] = e[q]
  <2> DEFINE j == q + 1
  <2>1. j \in 1 .. Len(g) + Len(h) /\ j <= Len(g) /\ j \in 1 .. Len(h) + m /\ ~ (j <= Len(h))
        /\ j - Len(h) = q
    BY <1>1, <1>3, <1>6
  <2> HIDE DEF j
  <2>2. f[j] = g[j]
    BY <1>5, <2>1
  <2>3. g[j] = e[q]
    BY <1>4, <2>1
  <2> QED BY <2>2, <2>3 DEF j
<1> QED BY <1>1, <1>5, <1>6, <1>7, <1>8, <1>9 DEF e, f, m

----------------------------------------------------------------------------
(* The receiver, within a frame none of whose bytes was hit.               *)

\* k bytes after the first end the first i bytes of x are in the buffer, and maybe
\* the escape of the next one was read.
Reading(x, k) ==
  \E i \in 0 .. Len(x) :
    /\ buffer = SubSeq(x, 1, i)
    /\ \/ ~escaped /\ k = Len(Escapes(x)[i])
       \/ escaped /\ i < Len(x) /\ x[i + 1] \in {FR_ESC, FR_END} /\ k = Len(Escapes(x)[i]) + 1

\* Whatever was read before, the first end of a frame begins it.
LEMMA ReadFirst ==
  ASSUME NEW x \in Seq(Byte), ReceiveByte, Head(line).byte = FR_END
  PROVE  Reading(x, 0)'
<1>1. ~escaped' /\ buffer' = <<>>
  BY EndsAre DEF ReceiveByte
<1>2. 0 \in 0 .. Len(x) /\ Escapes(x)[0] = <<>> /\ Len(<<>>) = 0
  <2>1. Escapes(x)[0] = <<>>
    BY EscapesIs
  <2>2. 0 \in 0 .. Len(x)
    BY LenProperties
  <2>3. Len(<<>>) = 0
    OBVIOUS
  <2> QED BY <2>1, <2>2, <2>3
<1>3. SubSeq(x, 1, 0) = <<>>
  BY SubSeqEmpty
<1>4. buffer' = SubSeq(x, 1, 0) /\ 0 = Len(Escapes(x)[0])
  BY <1>1, <1>2, <1>3
<1> QED BY <1>1, <1>2, <1>4 DEF Reading

\* One more byte in the buffer.
LEMMA OneMore ==
  ASSUME NEW x \in Seq(Byte), NEW i \in 0 .. Len(x) - 1
  PROVE  /\ Len(SubSeq(x, 1, i)) = i
         /\ Append(SubSeq(x, 1, i), x[i + 1]) = SubSeq(x, 1, i + 1)
<1> DEFINE s == SubSeq(x, 1, i)
           t == SubSeq(x, 1, i + 1)
<1>1. Len(x) \in Nat /\ i \in Nat /\ i + 1 \in 1 .. Len(x) /\ 1 \in 1 .. i + 1 /\ (i + 1) - 1 = i
  BY LenProperties
<1>2. x[i + 1] \in Byte /\ \A j \in 1 .. i : x[j] \in Byte
  BY <1>1, ElementOfSeq
<1>3. s \in Seq(Byte) /\ Len(s) = IF 1 <= i THEN i - 1 + 1 ELSE 0
  BY <1>1, <1>2, SubSeqProperties
<1>4. Len(s) = i
  <2> HIDE DEF s
  <2> QED BY <1>1, <1>3
<1>5. t = SubSeq(x, 1, (i + 1) - 1) \o <<x[i + 1]>>
  <2>1. 1 \in 1 .. Len(x) /\ i + 1 \in 1 .. Len(x)
    BY <1>1
  <2> QED BY <2>1, SubSeqRecursiveSecond
<1>6. t = s \o <<x[i + 1]>>
  BY <1>1, <1>5
<1>7. Append(s, x[i + 1]) = s \o <<x[i + 1]>>
  <2> HIDE DEF s, t
  <2> QED BY <1>2, <1>3, AppendIsConcat
<1> QED BY <1>4, <1>6, <1>7

\* Each byte within the frame brings the receiver one byte further.
LEMMA ReadOn ==
  ASSUME NEW x \in Seq(Byte), Len(x) <= BufferLen,
         NEW k \in Nat, k < Len(Escapes(x)[Len(x)]), Reading(x, k),
         ReceiveByte, Head(line).byte = Escapes(x)[Len(x)][k + 1]
  PROVE  Reading(x, k + 1)' /\ taken' = taken
<1> DEFINE b == Head(line).byte
           out == Escapes(x)[Len(x)]
<1>0. Len(x) \in Nat /\ BufferLen \in Nat
  BY LenProperties, FramingAssumption
<1>1. PICK i \in 0 .. Len(x) :
        /\ buffer = SubSeq(x, 1, i)
        /\ \/ ~escaped /\ k = Len(Escapes(x)[i])
           \/ escaped /\ i < Len(x) /\ x[i + 1] \in {FR_ESC, FR_END} /\ k = Len(Escapes(x)[i]) + 1
  BY DEF Reading
<1> DEFINE m == Len(Escapes(x)[i])
           e == Escape(x[i + 1])
<1>2. i \in 0 .. Len(x) - 1
  <2>1. i # Len(x)
    BY <1>0, <1>1
  <2> QED BY <1>0, <2>1
<1>3. /\ m \in Nat /\ Len(Escapes(x)[i + 1]) = m + Len(e)
      /\ \A q \in 1 .. Len(e) : out[m + q] = e[q]
  BY <1>2, EscapesAt
<1>4. x[i + 1] \in Byte /\ i + 1 \in 0 .. Len(x)
  <2>1. i + 1 \in 1 .. Len(x) /\ i + 1 \in 0 .. Len(x)
    BY <1>0, <1>2
  <2> QED BY <2>1, ElementOfSeq
<1>5. Len(SubSeq(x, 1, i)) = i /\ Append(SubSeq(x, 1, i), x[i + 1]) = SubSeq(x, 1, i + 1)
  BY <1>2, OneMore
<1>6. Len(buffer) < BufferLen /\ Append(buffer, x[i + 1]) = SubSeq(x, 1, i + 1)
  BY <1>0, <1>1, <1>2, <1>5
<1>7. b = out[k + 1]
  OBVIOUS
<1>8. /\ Len(e) \in {1, 2}
      /\ x[i + 1] \notin {FR_ESC, FR_END} => Len(e) = 1 /\ e[1] = x[i + 1]
      /\ x[i + 1] \in {FR_ESC, FR_END} => /\ Len(e) = 2 /\ e[1] = FR_ESC
                                          /\ e[2] \in {T_FR_ESC, T_FR_END}
                                          /\ Unescape(e[2]) = x[i + 1]
  BY <1>4, EscapeIs
<1> HIDE DEF out, m, e
<1>9. CASE ~escaped /\ k = Len(Escapes(x)[i])
  <2>1. k = m /\ 1 \in 1 .. Len(e)
    BY <1>8, <1>9 DEF m
  <2>2. b = e[1]
    BY <1>3, <1>7, <2>1
  <2>3. CASE x[i + 1] \in {FR_ESC, FR_END}
    <3>1. b = FR_ESC
      BY <1>8, <2>2, <2>3
    <3> HIDE DEF b
    <3>2. escaped' /\ buffer' = buffer /\ taken' = taken
      BY <3>1, EndsAre DEF ReceiveByte, b
    <3>3. i < Len(x) /\ k + 1 = Len(Escapes(x)[i]) + 1
      BY <1>0, <1>2, <1>9
    <3> QED BY <1>1, <2>3, <3>2, <3>3 DEF Reading
  <2>4. CASE x[i + 1] \notin {FR_ESC, FR_END}
    <3>1. b = x[i + 1] /\ b \notin {FR_ESC, FR_END}
      BY <1>8, <2>2, <2>4
    <3>2. ~escaped' /\ taken' = taken /\ Store(b)
      <4> HIDE DEF b
      <4> QED BY <1>9, <3>1 DEF ReceiveByte, b
    <3>3. buffer' = SubSeq(x, 1, i + 1)
      <4> HIDE DEF b
      <4> QED BY <1>6, <3>1, <3>2 DEF Store
    <3>4. k + 1 = Len(Escapes(x)[i + 1])
      BY <1>3, <1>8, <2>1, <2>4
    <3> QED BY <1>4, <3>2, <3>3, <3>4 DEF Reading
  <2> QED BY <2>3, <2>4
<1>10. CASE escaped /\ i < Len(x) /\ x[i + 1] \in {FR_ESC, FR_END} /\ k = Len(Escapes(x)[i]) + 1
  <2>1. k + 1 = m + 2 /\ 2 \in 1 .. Len(e)
    BY <1>3, <1>8, <1>10 DEF m
  <2>2. b = e[2]
    BY <1>3, <1>7, <2>1
  <2>3. b \in {T_FR_ESC, T_FR_END} /\ Unescape(b) = x[i + 1] /\ b \notin {FR_END, FR_ESC}
    BY <1>8, <1>10, <2>2 DEF T_FR_ESC, T_FR_END, FR_ESC, FR_END
  <2>4. ~escaped' /\ taken' = taken /\ Store(Unescape(b))
    <3> HIDE DEF b
    <3> QED BY <1>10, <2>3 DEF ReceiveByte, b
  <2>5. buffer' = SubSeq(x, 1, i + 1)
    <3> HIDE DEF b
    <3> QED BY <1>6, <2>3, <2>4 DEF Store
  <2>6. k + 1 = Len(Escapes(x)[i + 1])
    BY <1>3, <1>8, <1>10, <2>1
  <2> QED BY <1>4, <2>4, <2>5, <2>6 DEF Reading
<1> QED BY <1>1, <1>9, <1>10

\* At the second end the buffer holds it all, the checksum matches, and the command is taken.
LEMMA ReadLast ==
  ASSUME NEW c \in Cmds, Coded(c), Reading(Inside(c), Len(Escaped(c))),
         ReceiveByte, Head(line).byte = FR_END
  PROVE  taken' = Append(taken, Received(c))
<1> DEFINE x == Inside(c)
           d == command2buffer(c)
           out == Escaped(c)
<1>1. /\ d \in Seq(Byte) /\ Len(d) \in Nat /\ d # <<>>
      /\ x \in Seq(Byte) /\ Len(x) = Len(d) + 2 /\ Len(x) \in Nat
      /\ SubSeq(x, 1, Len(d)) = d /\ U16(x, Len(x) - 1) = Negated(d)
  BY InsideIs
<1>2. PICK i \in 0 .. Len(x) :
        /\ buffer = SubSeq(x, 1, i)
        /\ \/ ~escaped /\ Len(out) = Len(Escapes(x)[i])
           \/ /\ escaped /\ i < Len(x) /\ x[i + 1] \in {FR_ESC, FR_END}
              /\ Len(out) = Len(Escapes(x)[i]) + 1
  BY DEF Reading
<1>3. i = Len(x)
  <2> SUFFICES ASSUME i # Len(x) PROVE FALSE
    OBVIOUS
  <2> DEFINE m == Len(Escapes(x)[i])
             e == Escape(x[i + 1])
  <2>1. i \in 0 .. Len(x) - 1 /\ i + 1 \in 1 .. Len(x)
    BY <1>1
  <2>2. m \in Nat /\ m + Len(e) <= Len(out)
    BY <1>1, <2>1, EscapesAt DEF Escaped
  <2>3. x[i + 1] \in Byte
    BY <1>1, <2>1, ElementOfSeq
  <2>4. x[i + 1] \in {FR_ESC, FR_END} => Len(e) = 2
    BY <2>3, EscapeIs
  <2>5. Len(e) \in Nat /\ Len(e) >= 1
    <3>1. Len(e) \in {1, 2}
      BY <2>3, EscapeIs
    <3>2. \A n : n \in {1, 2} => n \in Nat /\ n >= 1
      OBVIOUS
    <3> HIDE DEF e
    <3> QED BY <3>1, <3>2
  <2> HIDE DEF m, e, out, x
  <2>6. CASE Len(out) = m
    BY <2>2, <2>5, <2>6
  <2>7. CASE Len(out) = m + 1 /\ x[i + 1] \in {FR_ESC, FR_END}
    <3>1. Len(e) = 2
      BY <2>4, <2>7
    <3> QED BY <2>2, <2>7, <3>1
  <2>8. Len(out) = m \/ (Len(out) = m + 1 /\ x[i + 1] \in {FR_ESC, FR_END})
    BY <1>2 DEF m, x
  <2> QED BY <2>6, <2>7, <2>8
<1>4. buffer = x
  BY <1>1, <1>2, <1>3, SubSeqFull
<1>5. ~escaped
  BY <1>1, <1>2, <1>3
<1> HIDE DEF x, d, out
<1>6. Len(buffer) - 2 = Len(d) /\ Len(buffer) >= 2
  BY <1>1, <1>4
<1>7. CrcMatches
  BY <1>1, <1>4, <1>6 DEF CrcMatches
<1>8. taken' = Packet(SubSeq(buffer, 1, Len(buffer) - 2))
  BY <1>5, <1>7, EndsAre DEF ReceiveByte
<1>9. taken' = Packet(d)
  BY <1>1, <1>4, <1>6, <1>8
<1>10. buffer2command(d) = Received(c) /\ Received(c) # NotACommand
  BY RoundTrip DEF d
<1> QED BY <1>1, <1>9, <1>10 DEF Packet

\* A byte of the line, and a frame none of whose bytes was hit.
LineBytes  == [byte : Byte, frame : Nat]
GoodFrames == {n \in DOMAIN sentCmds : n \notin hit /\ Coded(sentCmds[n])}

\* The bytes of frame n, of command c, that are on the way are behind position o;
\* the position is negative when its first bytes were read, ...
Placed(c, n, o) ==
  \A k \in 1 .. Len(Frame(c)) :
    o + k >= 1 => o + k \in DOMAIN line /\ line[o + k] = [byte |-> Frame(c)[k], frame |-> n]
\* ... which is when the receiver is in it, ...
Halfway(c, o) == o < 0 /\ o + Len(Frame(c)) > 0 => Reading(Inside(c), -o - 1)
\* ... and when all were, its command is the i-th one taken.
Did(c, o, i) == o + Len(Frame(c)) <= 0 => i \in DOMAIN taken /\ taken[i] = Received(c)

OnItsWay(c, n, o, i) == Placed(c, n, o) /\ Halfway(c, o) /\ Did(c, o, i)

\* One frame is behind the other, and so are their commands.
Behind(c, o, p)  == o + Len(Frame(c)) <= p
Later(d, p, i, j) == p + Len(Frame(d)) <= 0 => i < j

Traced(off, f) ==
  /\ \A n \in GoodFrames : OnItsWay(sentCmds[n], n, off[n], f[n])
  /\ \A m, n \in GoodFrames :
       m < n => Behind(sentCmds[m], off[m], off[n]) /\ Later(sentCmds[n], off[n], f[m], f[n])

FramesTraced ==
  /\ line \in Seq(LineBytes) /\ sentCmds \in Seq(Cmds) /\ \E S : taken \in Seq(S)
  /\ \E off \in [DOMAIN sentCmds -> Int] : \E f \in [DOMAIN sentCmds -> Nat] : Traced(off, f)

----------------------------------------------------------------------------
\* The length of a frame, its ends and its other bytes.
LEMMA FrameHas ==
  ASSUME NEW c \in Cmds, Coded(c)
  PROVE  /\ Len(Escaped(c)) \in Nat /\ Len(Frame(c)) \in Nat
         /\ Len(Frame(c)) = Len(Escaped(c)) + 2 /\ Len(Frame(c)) >= 2
         /\ Frame(c) \in Seq(Byte)
         /\ Frame(c)[1] = FR_END /\ Frame(c)[Len(Frame(c))] = FR_END
         /\ \A q \in 1 .. Len(Escaped(c)) : Frame(c)[q + 1] = Escaped(c)[q]
<1>1. /\ Len(Escaped(c)) \in Nat /\ Frame(c) \in Seq(Byte) /\ Len(Frame(c)) = Len(Escaped(c)) + 2
      /\ Frame(c)[1] = FR_END /\ Frame(c)[Len(Escaped(c)) + 2] = FR_END
      /\ \A q \in 1 .. Len(Escaped(c)) : Frame(c)[q + 1] = Escaped(c)[q]
  BY FrameIs
<1> QED BY <1>1

\* The next byte, when it is one of a frame.
LEMMA NextByte ==
  ASSUME NEW c \in Cmds, Coded(c), NEW n, NEW o \in Int, Placed(c, n, o),
         line \in Seq(LineBytes), o <= 0, o + Len(Frame(c)) >= 1
  PROVE  Head(line).byte = Frame(c)[1 - o] /\ Head(line).frame = n
<1> DEFINE k == 1 - o
<1>1. Len(Frame(c)) \in Nat
  BY FrameHas
<1>2. k \in 1 .. Len(Frame(c)) /\ o + k = 1
  BY <1>1
<1> HIDE DEF k
<1>3. 1 \in DOMAIN line /\ line[1] = [byte |-> Frame(c)[k], frame |-> n]
  <2>1. o + k >= 1
    BY <1>2
  <2>2. o + k \in DOMAIN line /\ line[o + k] = [byte |-> Frame(c)[k], frame |-> n]
    BY <1>2, <2>1 DEF Placed
  <2> QED BY <1>2, <2>2
<1>4. line # <<>> /\ Head(line) = line[1]
  BY <1>3
<1> QED BY <1>3, <1>4 DEF k

\* The line without its next byte.
LEMMA LineTail ==
  ASSUME line \in Seq(LineBytes), line # <<>>, line' = Tail(line)
  PROVE  /\ line' \in Seq(LineBytes)
         /\ \A j \in DOMAIN line : j >= 2 => j - 1 \in DOMAIN line' /\ line'[j - 1] = line[j]
<1>1. Tail(line) \in Seq(LineBytes) /\ Len(line) \in Nat /\ DOMAIN line = 1 .. Len(line)
  BY LenProperties
<1>2. Len(Tail(line)) = Len(line) - 1 /\ \A i \in 1 .. Len(line) - 1 : Tail(line)[i] = line[i + 1]
  BY HeadTailProperties
<1>3. DOMAIN Tail(line) = 1 .. Len(line) - 1
  BY <1>1, <1>2
<1>4. ASSUME NEW j \in DOMAIN line, j >= 2 PROVE j - 1 \in DOMAIN line' /\ line'[j - 1] = line[j]
  <2> DEFINE i == j - 1
  <2>1. i \in 1 .. Len(line) - 1 /\ i + 1 = j
    BY <1>1, <1>4
  <2> HIDE DEF i
  <2>2. i \in DOMAIN line' /\ line'[i] = line[j]
    BY <1>2, <1>3, <2>1
  <2> QED BY <2>2 DEF i
<1> QED BY <1>1, <1>4

\* The line moves up.
LEMMA MovesUp ==
  ASSUME NEW c \in Cmds, Coded(c), NEW n, NEW o \in Int, Placed(c, n, o),
         line \in Seq(LineBytes), line # <<>>, line' = Tail(line)
  PROVE  Placed(c, n, o - 1)'
<1>1. Len(Frame(c)) \in Nat
  BY FrameHas
<1>2. ASSUME NEW k \in 1 .. Len(Frame(c)), (o - 1) + k >= 1
      PROVE  (o - 1) + k \in DOMAIN line' /\ line'[(o - 1) + k] = [byte |-> Frame(c)[k], frame |-> n]
  <2>1. o + k >= 1 /\ o + k >= 2 /\ (o + k) - 1 = (o - 1) + k
    BY <1>1, <1>2
  <2> DEFINE j == o + k
  <2>2. j \in DOMAIN line /\ line[j] = [byte |-> Frame(c)[k], frame |-> n]
    BY <2>1 DEF Placed
  <2> HIDE DEF j
  <2>3. j - 1 \in DOMAIN line' /\ line'[j - 1] = line[j]
    BY <2>1, <2>2, LineTail DEF j
  <2> QED BY <2>1, <2>2, <2>3 DEF j
<1> QED BY <1>2 DEF Placed

\* What was taken stays where it is, and one command more may follow.
LEMMA TakesOne ==
  ASSUME NEW S, taken \in Seq(S), ReceiveByte
  PROVE  /\ \E T : taken' \in Seq(T)
         /\ \A i \in DOMAIN taken : i \in DOMAIN taken' /\ taken'[i] = taken[i]
<1>1. taken' = taken \/ \E v : taken' = Append(taken, v)
  BY DEF ReceiveByte, Packet
<1>2. ASSUME NEW v, taken' = Append(taken, v)
      PROVE  /\ \E T : taken' \in Seq(T)
             /\ \A i \in DOMAIN taken : i \in DOMAIN taken' /\ taken'[i] = taken[i]
  <2> DEFINE T == S \cup {v}
  <2>1. taken \in Seq(T) /\ v \in T
    <3>1. S \subseteq T
      OBVIOUS
    <3> QED BY <3>1, SeqMonotonic
  <2> HIDE DEF T
  <2>2. /\ taken' \in Seq(T) /\ Len(taken') = Len(taken) + 1
        /\ \A i \in 1 .. Len(taken) : taken'[i] = taken[i]
    BY <1>2, <2>1, AppendProperties
  <2>3. Len(taken) \in Nat /\ DOMAIN taken = 1 .. Len(taken) /\ DOMAIN taken' = 1 .. Len(taken')
    BY <2>1, <2>2, LenProperties
  <2> QED BY <2>2, <2>3
<1> QED BY <1>1, <1>2

\* A byte is received, as one frame sees it.
LEMMA ReceiveOne ==
  ASSUME NEW c \in Cmds, Coded(c), NEW n, NEW o \in Int, NEW i \in Nat,
         OnItsWay(c, n, o, i), line \in Seq(LineBytes), NEW S, taken \in Seq(S), ReceiveByte,
         NEW j, j = IF o + Len(Frame(c)) <= 0 THEN i ELSE Len(taken) + 1
  PROVE  OnItsWay(c, n, o - 1, j)'
<1> DEFINE f == Frame(c)
           m == Len(f)
           e == Escaped(c)
           x == Inside(c)
<1>0. Len(e) \in Nat /\ m \in Nat /\ m = Len(e) + 2
  BY FrameHas
<1>7. /\ f[1] = FR_END /\ f[m] = FR_END
      /\ \A q \in 1 .. Len(e) : f[q + 1] = e[q]
  BY FrameHas
<1>1. /\ Placed(c, n, o) /\ Halfway(c, o) /\ Did(c, o, i)
      /\ line # <<>> /\ line' = Tail(line)
  BY DEF OnItsWay, ReceiveByte
<1>2. o <= 0 /\ o + m >= 1 => Head(line).byte = f[1 - o]
  BY <1>1, NextByte
<1>3. x \in Seq(Byte) /\ Len(x) <= BufferLen /\ e = Escapes(x)[Len(x)]
  BY InsideIs DEF Escaped
<1>4. Placed(c, n, o - 1)'
  BY <1>1, MovesUp
<1>5. ASSUME o - 1 < 0, (o - 1) + m > 0 PROVE Reading(x, -(o - 1) - 1)'
  <2> HIDE DEF f, m, e, x
  <2>1. CASE o = 0
    <3>1. 1 - o = 1 /\ -(o - 1) - 1 = 0 /\ o + m >= 1
      <4>1. 1 - o = 1
        BY <2>1
      <4>3. -(o - 1) - 1 = 0
        <5>1. o <= 0 /\ 0 <= o
          BY <2>1
        <5> QED BY <5>1
      <4>2. 0 + m >= 1
        BY <1>0
      <4> QED BY <4>1, <4>2, <4>3, <2>1
    <3>2. Head(line).byte = FR_END
      BY <1>7, <1>2, <2>1, <3>1
    <3>3. Reading(x, 0)'
      BY <1>3, <3>2, ReadFirst
    <3> QED BY <3>1, <3>3
  <2>2. CASE o # 0
    <3> DEFINE k == -o - 1
    <3>1. o < 0 /\ o + m > 0 /\ o + m >= 1 /\ k \in Nat /\ k < Len(e) /\ k + 1 \in 1 .. Len(e)
          /\ (k + 1) + 1 = 1 - o /\ -(o - 1) - 1 = k + 1
      BY <1>0, <1>5, <2>2
    <3>2. Reading(x, k)
      BY <1>1, <3>1 DEF Halfway, f, m, x
    <3> HIDE DEF k
    <3>3. f[1 - o] = e[k + 1]
      BY <1>7, <3>1
    <3>4. Head(line).byte = e[k + 1]
      BY <1>2, <3>1, <3>3
    <3>5. Reading(x, k + 1)'
      BY <1>3, <3>1, <3>2, <3>4, ReadOn
    <3> QED BY <3>1, <3>5
  <2> QED BY <2>1, <2>2
<1>6. ASSUME (o - 1) + m <= 0 PROVE j \in DOMAIN taken' /\ taken'[j] = Received(c)
  <2>1. CASE o + m <= 0
    <3>1. i \in DOMAIN taken /\ taken[i] = Received(c) /\ j = i
      BY <1>1, <2>1 DEF Did
    <3>2. i \in DOMAIN taken' /\ taken'[i] = taken[i]
      BY <3>1, TakesOne
    <3> QED BY <3>1, <3>2
  <2>2. CASE ~ (o + m <= 0)
    <3> HIDE DEF f, m, e, x
    <3>1. o + m = 1 /\ o < 0 /\ o + m > 0 /\ o <= 0 /\ o + m >= 1 /\ 1 - o = m /\ -o - 1 = Len(e)
      BY <1>0, <1>6, <2>2
    <3>2. Reading(x, Len(e))
      BY <1>1, <3>1 DEF Halfway, f, m, x
    <3>3. Head(line).byte = FR_END
      BY <1>7, <1>2, <3>1
    <3>4. taken' = Append(taken, Received(c))
      BY <3>2, <3>3, ReadLast DEF x, e
    <3>5. j = Len(taken) + 1
      BY <2>2 DEF m, f
    <3> DEFINE T == S \cup {Received(c)}
    <3>6. taken \in Seq(T) /\ Received(c) \in T
      <4>1. S \subseteq T
        OBVIOUS
      <4> QED BY <4>1, SeqMonotonic
    <3> HIDE DEF T
    <3>7. taken' \in Seq(T) /\ Len(taken') = Len(taken) + 1 /\ taken'[Len(taken) + 1] = Received(c)
      BY <3>4, <3>6, AppendProperties
    <3>8. Len(taken) \in Nat /\ DOMAIN taken' = 1 .. Len(taken')
      BY <3>6, <3>7, LenProperties
    <3> QED BY <3>5, <3>7, <3>8
  <2> QED BY <2>1, <2>2
<1> QED BY <1>4, <1>5, <1>6 DEF OnItsWay, Halfway, Did

\* A frame that is traced, as a constant.
LEMMA GoodIs ==
  ASSUME sentCmds \in Seq(Cmds), NEW n \in GoodFrames
  PROVE  /\ n \in DOMAIN sentCmds /\ sentCmds[n] \in Cmds /\ Coded(sentCmds[n]) /\ n \notin hit
         /\ n \in Nat /\ Len(Frame(sentCmds[n])) \in Nat /\ Len(Frame(sentCmds[n])) >= 2
<1>1. n \in DOMAIN sentCmds /\ n \notin hit /\ Coded(sentCmds[n])
  BY DEF GoodFrames
<1>2. DOMAIN sentCmds = 1 .. Len(sentCmds) /\ Len(sentCmds) \in Nat
  BY LenProperties
<1>3. sentCmds[n] \in Cmds /\ n \in Nat
  BY <1>1, <1>2, ElementOfSeq
<1> QED BY <1>1, <1>3, FrameHas

\* A byte is received.
LEMMA ReceiveTraced ==
  ASSUME FramesTraced, ReceiveByte
  PROVE  FramesTraced'
<1>1. /\ line \in Seq(LineBytes) /\ sentCmds \in Seq(Cmds)
      /\ line # <<>> /\ line' = Tail(line) /\ sentCmds' = sentCmds /\ hit' = hit
  BY DEF FramesTraced, ReceiveByte
<1>2. PICK S : taken \in Seq(S)
  BY DEF FramesTraced
<1>3. PICK off \in [DOMAIN sentCmds -> Int] : \E f \in [DOMAIN sentCmds -> Nat] : Traced(off, f)
  BY DEF FramesTraced
<1>4. PICK f \in [DOMAIN sentCmds -> Nat] : Traced(off, f)
  BY <1>3
<1> DEFINE P == DOMAIN sentCmds
           len(n) == Len(Frame(sentCmds[n]))
<1>5. Len(taken) \in Nat /\ DOMAIN taken = 1 .. Len(taken)
  BY <1>2, LenProperties
<1>0. PICK off2 \in [P -> Int] : off2 = [n \in P |-> off[n] - 1]
  <2> DEFINE g == [n \in P |-> off[n] - 1]
  <2>1. g \in [P -> Int]
    OBVIOUS
  <2> HIDE DEF g
  <2>2. \E h \in [P -> Int] : h = g
    BY <2>1
  <2> QED BY <2>2 DEF g
<1>6. PICK f2 \in [P -> Nat] : f2 = [n \in P |-> IF off[n] + len(n) <= 0 THEN f[n] ELSE Len(taken) + 1]
  <2> DEFINE g == [n \in P |-> IF off[n] + len(n) <= 0 THEN f[n] ELSE Len(taken) + 1]
  <2>1. g \in [P -> Nat]
    BY <1>5
  <2> HIDE DEF g
  <2>2. \E h \in [P -> Nat] : h = g
    BY <2>1
  <2> QED BY <2>2 DEF g
<1>7. GoodFrames' = GoodFrames
  BY <1>1 DEF GoodFrames
<1>8. ASSUME NEW n \in GoodFrames
      PROVE  /\ n \in P /\ sentCmds[n] \in Cmds /\ Coded(sentCmds[n]) /\ off[n] \in Int /\ f[n] \in Nat
             /\ n \in Nat /\ len(n) \in Nat /\ len(n) >= 2
             /\ OnItsWay(sentCmds[n], n, off[n], f[n])
             /\ off2[n] = off[n] - 1
             /\ f2[n] = IF off[n] + len(n) <= 0 THEN f[n] ELSE Len(taken) + 1
  <2>1. n \in P /\ sentCmds[n] \in Cmds /\ Coded(sentCmds[n])
        /\ n \in Nat /\ len(n) \in Nat /\ len(n) >= 2
    BY <1>1, GoodIs DEF P, len
  <2>2. OnItsWay(sentCmds[n], n, off[n], f[n])
    BY <1>4 DEF Traced
  <2> HIDE DEF len
  <2> QED BY <1>0, <1>6, <2>1, <2>2
<1> HIDE DEF len, P
<1>9. ASSUME NEW n \in GoodFrames
      PROVE  OnItsWay(sentCmds[n], n, off2[n], f2[n])'
  <2>1. PICK c : c = sentCmds[n]
    OBVIOUS
  <2> DEFINE o == off[n]
             i == f[n]
             j == f2[n]
  <2>2. c \in Cmds /\ Coded(c) /\ o \in Int /\ i \in Nat /\ OnItsWay(c, n, o, i)
        /\ j = IF o + Len(Frame(c)) <= 0 THEN i ELSE Len(taken) + 1
    BY <1>8, <2>1 DEF len
  <2>3. sentCmds[n]' = c /\ off2[n] = o - 1
    BY <1>1, <1>8, <2>1
  <2> HIDE DEF o, i, j
  <2>4. OnItsWay(c, n, o - 1, j)'
    BY <1>1, <1>2, <2>2, ReceiveOne
  <2> QED BY <2>3, <2>4 DEF j
<1>10. ASSUME NEW m \in GoodFrames, NEW n \in GoodFrames, m < n
       PROVE  Behind(sentCmds[m], off2[m], off2[n])' /\ Later(sentCmds[n], off2[n], f2[m], f2[n])'
  <2>1. Behind(sentCmds[m], off[m], off[n]) /\ Later(sentCmds[n], off[n], f[m], f[n])
    BY <1>4, <1>10 DEF Traced
  <2>2. off[m] + len(m) <= off[n] /\ (off[n] + len(n) <= 0 => f[m] < f[n])
    BY <2>1 DEF Behind, Later, len
  <2>0. /\ off[m] \in Int /\ len(m) \in Nat /\ off2[m] = off[m] - 1
        /\ off[n] \in Int /\ len(n) \in Nat /\ off2[n] = off[n] - 1 /\ len(n) >= 2
    BY <1>8
  <2>3. off2[m] + len(m) <= off2[n]
    BY <2>0, <2>2
  <2>4. ASSUME off2[n] + len(n) <= 0 PROVE f2[m] < f2[n]
    <3>1. off[m] + len(m) <= 0
      BY <2>0, <2>2, <2>4
    <3>2. f2[m] = f[m] /\ f[m] <= Len(taken)
      <4>1. Did(sentCmds[m], off[m], f[m])
        BY <1>8 DEF OnItsWay
      <4>2. f[m] \in DOMAIN taken
        BY <3>1, <4>1 DEF Did, len
      <4> QED BY <1>5, <1>8, <3>1, <4>2
    <3>3. CASE off[n] + len(n) <= 0
      BY <1>8, <2>2, <3>2, <3>3
    <3>4. CASE ~ (off[n] + len(n) <= 0)
      <4>1. f2[n] = Len(taken) + 1
        BY <1>8, <3>4
      <4> QED BY <1>5, <1>8, <3>2, <4>1
    <3> QED BY <3>3, <3>4
  <2> QED BY <1>1, <2>3, <2>4 DEF Behind, Later, len
<1>11. Traced(off2, f2)'
  BY <1>7, <1>9, <1>10 DEF Traced
<1>12. line' \in Seq(LineBytes) /\ \E T : taken' \in Seq(T)
  BY <1>1, <1>2, LineTail, TakesOne
<1> QED BY <1>1, <1>11, <1>12 DEF FramesTraced, P

\* Another byte in the place of the next one.
LEMMA LineChanged ==
  ASSUME line \in Seq(LineBytes), line # <<>>, NEW b \in Noise,
         line' = <<[Head(line) EXCEPT !.byte = b]>> \o Tail(line)
  PROVE  /\ line' \in Seq(LineBytes)
         /\ \A j \in DOMAIN line : j >= 2 => j \in DOMAIN line' /\ line'[j] = line[j]
<1> DEFINE r == <<[Head(line) EXCEPT !.byte = b]>>
           t == Tail(line)
<1>1. Head(line) \in LineBytes /\ t \in Seq(LineBytes) /\ Len(line) \in Nat /\ DOMAIN line = 1 .. Len(line)
      /\ Len(line) # 0
  BY LenProperties
<1>2. Len(t) = Len(line) - 1 /\ \A i \in 1 .. Len(line) - 1 : t[i] = line[i + 1]
  BY HeadTailProperties
<1>3. r \in Seq(LineBytes) /\ Len(r) = 1
  <2>1. b \in Byte
    BY FramingAssumption
  <2>2. [Head(line) EXCEPT !.byte = b] \in LineBytes
    BY <1>1, <2>1 DEF LineBytes
  <2> QED BY <2>2
<1> HIDE DEF r, t
<1>4. line' = r \o t
  BY DEF r, t
<1>5. /\ line' \in Seq(LineBytes) /\ Len(line') = Len(r) + Len(t)
      /\ \A i \in 1 .. Len(r) + Len(t) : line'[i] = IF i <= Len(r) THEN r[i] ELSE t[i - Len(r)]
  <2>1. r \in Seq(LineBytes) /\ t \in Seq(LineBytes)
    BY <1>1, <1>3
  <2>2. /\ r \o t \in Seq(LineBytes) /\ Len(r \o t) = Len(r) + Len(t)
        /\ \A i \in 1 .. Len(r) + Len(t) : (r \o t)[i] = IF i <= Len(r) THEN r[i] ELSE t[i - Len(r)]
    BY <2>1, ConcatProperties
  <2> QED BY <1>4, <2>2
<1>6. DOMAIN line' = 1 .. Len(line')
  BY <1>5, LenProperties
<1>7. ASSUME NEW j \in DOMAIN line, j >= 2 PROVE j \in DOMAIN line' /\ line'[j] = line[j]
  <2> DEFINE i == j - 1
  <2>1. j \in 1 .. Len(r) + Len(t) /\ ~ (j <= Len(r)) /\ j - Len(r) = i
        /\ i \in 1 .. Len(line) - 1 /\ i + 1 = j
    BY <1>1, <1>2, <1>3, <1>7
  <2> HIDE DEF i
  <2>2. line'[j] = t[i]
    BY <1>5, <2>1
  <2>3. t[i] = line[j]
    BY <1>2, <2>1
  <2> QED BY <1>5, <1>6, <2>1, <2>2, <2>3
<1> QED BY <1>5, <1>7

\* The line loses or changes a byte, as a frame sees it that has not that byte.
LEMMA FaultOne ==
  ASSUME NEW c \in Cmds, Coded(c), NEW n, NEW o \in Int, NEW i \in Nat, OnItsWay(c, n, o, i),
         line \in Seq(LineBytes), line # <<>>, Head(line).frame # n,
         escaped' = escaped, buffer' = buffer, taken' = taken,
         NEW k \in {0, 1},
         \/ k = 1 /\ line' = Tail(line)
         \/ k = 0 /\ \E b \in Noise : line' = <<[Head(line) EXCEPT !.byte = b]>> \o Tail(line)
  PROVE  /\ OnItsWay(c, n, o - k, i)' /\ line' \in Seq(LineBytes)
         /\ o > 0 \/ o + Len(Frame(c)) <= 0
<1> DEFINE m == Len(Frame(c))
<1>1. m \in Nat /\ m >= 2
  BY FrameHas
<1>2. Placed(c, n, o) /\ Halfway(c, o) /\ Did(c, o, i)
  BY DEF OnItsWay
<1>3. ~ (o <= 0 /\ o + m >= 1)
  BY <1>2, NextByte
<1>4. Placed(c, n, o - k)' /\ line' \in Seq(LineBytes)
  <2>1. CASE k = 1 /\ line' = Tail(line)
    BY <1>2, <2>1, MovesUp, LineTail
  <2>2. CASE k = 0 /\ \E b \in Noise : line' = <<[Head(line) EXCEPT !.byte = b]>> \o Tail(line)
    <3>1. /\ line' \in Seq(LineBytes)
          /\ \A j \in DOMAIN line : j >= 2 => j \in DOMAIN line' /\ line'[j] = line[j]
      BY <2>2, LineChanged
    <3>2. ASSUME NEW p \in 1 .. m, (o - k) + p >= 1
          PROVE  (o - k) + p \in DOMAIN line' /\ line'[(o - k) + p] = [byte |-> Frame(c)[p], frame |-> n]
      <4> DEFINE j == o + p
      <4> HIDE DEF m
      <4>1. (o - k) + p = j /\ j >= 1 /\ j >= 2
        BY <1>1, <1>3, <2>2, <3>2
      <4>2. j \in DOMAIN line /\ line[j] = [byte |-> Frame(c)[p], frame |-> n]
        BY <1>2, <4>1 DEF Placed, m
      <4> HIDE DEF j
      <4> QED BY <3>1, <4>1, <4>2
    <3> QED BY <3>1, <3>2 DEF Placed
  <2> QED BY <2>1, <2>2
<1> HIDE DEF m
<1>5. o > 0 \/ o + m <= 0
  BY <1>1, <1>3
<1>6. ~ (o - k < 0 /\ (o - k) + m > 0) /\ ((o - k) + m <= 0 => o + m <= 0)
  BY <1>1, <1>5
<1>7. Halfway(c, o - k)'
  BY <1>6 DEF Halfway, m
<1>8. Did(c, o - k, i)'
  BY <1>2, <1>6 DEF Did, m
<1> QED BY <1>4, <1>5, <1>7, <1>8 DEF OnItsWay, m

\* The line loses or changes a byte.
LEMMA FaultTraced ==
  ASSUME FramesTraced, Fault
  PROVE  FramesTraced'
<1>1. /\ line \in Seq(LineBytes) /\ sentCmds \in Seq(Cmds) /\ line # <<>>
      /\ sentCmds' = sentCmds /\ hit' = hit \cup {Head(line).frame}
      /\ escaped' = escaped /\ buffer' = buffer /\ taken' = taken
      /\ \E S : taken \in Seq(S)
  BY DEF FramesTraced, Fault
<1>2. PICK k \in {0, 1} :
        \/ k = 1 /\ line' = Tail(line)
        \/ k = 0 /\ \E b \in Noise : line' = <<[Head(line) EXCEPT !.byte = b]>> \o Tail(line)
  BY DEF Fault
<1>3. PICK off \in [DOMAIN sentCmds -> Int] : \E f \in [DOMAIN sentCmds -> Nat] : Traced(off, f)
  BY DEF FramesTraced
<1>4. PICK f \in [DOMAIN sentCmds -> Nat] : Traced(off, f)
  BY <1>3
<1> DEFINE P == DOMAIN sentCmds
           len(n) == Len(Frame(sentCmds[n]))
<1>5. PICK off2 \in [P -> Int] : off2 = [n \in P |-> off[n] - k]
  <2> DEFINE g == [n \in P |-> off[n] - k]
  <2>1. g \in [P -> Int]
    OBVIOUS
  <2> HIDE DEF g
  <2>2. \E h \in [P -> Int] : h = g
    BY <2>1
  <2> QED BY <2>2 DEF g
<1>6. \A n : n \in GoodFrames' <=> n \in GoodFrames /\ n # Head(line).frame
  BY <1>1 DEF GoodFrames
<1>7. ASSUME NEW n \in GoodFrames
      PROVE  /\ n \in P /\ sentCmds[n] \in Cmds /\ Coded(sentCmds[n]) /\ off[n] \in Int /\ f[n] \in Nat
             /\ len(n) \in Nat /\ len(n) >= 2 /\ off2[n] = off[n] - k
             /\ OnItsWay(sentCmds[n], n, off[n], f[n])
  <2>1. n \in P /\ sentCmds[n] \in Cmds /\ Coded(sentCmds[n])
        /\ len(n) \in Nat /\ len(n) >= 2
    BY <1>1, GoodIs DEF P, len
  <2>2. OnItsWay(sentCmds[n], n, off[n], f[n])
    BY <1>4 DEF Traced
  <2> HIDE DEF len
  <2> QED BY <1>5, <2>1, <2>2
<1> HIDE DEF len, P
<1>8. ASSUME NEW n \in GoodFrames, n # Head(line).frame
      PROVE  /\ OnItsWay(sentCmds[n], n, off2[n], f[n])' /\ line' \in Seq(LineBytes)
             /\ off[n] > 0 \/ off[n] + len(n) <= 0
  <2>1. PICK c : c = sentCmds[n]
    OBVIOUS
  <2> DEFINE o == off[n]
             i == f[n]
  <2>2. c \in Cmds /\ Coded(c) /\ o \in Int /\ i \in Nat /\ OnItsWay(c, n, o, i)
    BY <1>7, <2>1
  <2>3. sentCmds[n]' = c /\ off2[n] = o - k
    BY <1>1, <1>7, <2>1
  <2> HIDE DEF o, i
  <2>4. OnItsWay(c, n, o - k, i)' /\ line' \in Seq(LineBytes) /\ (o > 0 \/ o + Len(Frame(c)) <= 0)
    BY <1>1, <1>2, <1>8, <2>2, FaultOne
  <2> QED BY <2>1, <2>3, <2>4 DEF o, i, len
<1>9. ASSUME NEW m \in GoodFrames, NEW n \in GoodFrames, m < n, n # Head(line).frame
      PROVE  Behind(sentCmds[m], off2[m], off2[n])' /\ Later(sentCmds[n], off2[n], f[m], f[n])'
  <2>1. Behind(sentCmds[m], off[m], off[n]) /\ Later(sentCmds[n], off[n], f[m], f[n])
    BY <1>4, <1>9 DEF Traced
  <2>2. off[m] + len(m) <= off[n] /\ (off[n] + len(n) <= 0 => f[m] < f[n])
    BY <2>1 DEF Behind, Later, len
  <2>3. /\ off[m] \in Int /\ len(m) \in Nat /\ off2[m] = off[m] - k
        /\ off[n] \in Int /\ len(n) \in Nat /\ off2[n] = off[n] - k /\ len(n) >= 2
    BY <1>7
  <2>4. off2[m] + len(m) <= off2[n]
    BY <2>2, <2>3
  <2>5. off2[n] + len(n) <= 0 => off[n] + len(n) <= 0
    BY <1>8, <1>9, <2>3
  <2> QED BY <1>1, <2>2, <2>4, <2>5 DEF Behind, Later, len
<1>10. Traced(off2, f)'
  BY <1>6, <1>8, <1>9 DEF Traced
<1>11. line' \in Seq(LineBytes)
  BY <1>1, <1>2, LineTail, LineChanged
<1> QED BY <1>1, <1>10, <1>11 DEF FramesTraced, P

\* The bytes of a command come behind what is on the line.
LEMMA LineGrows ==
  ASSUME line \in Seq(LineBytes), NEW c \in Cmds, Coded(c), NEW n \in Nat,
         LET bytes == Frame(c)
         IN  line' = line \o [i \in DOMAIN bytes |-> [byte |-> bytes[i], frame |-> n]]
  PROVE  /\ line' \in Seq(LineBytes)
         /\ \A j \in DOMAIN line : j \in DOMAIN line' /\ line'[j] = line[j]
         /\ \A k \in 1 .. Len(Frame(c)) :
              /\ Len(line) + k \in DOMAIN line'
              /\ line'[Len(line) + k] = [byte |-> Frame(c)[k], frame |-> n]
<1> DEFINE b == Frame(c)
           t == [i \in DOMAIN b |-> [byte |-> b[i], frame |-> n]]
           m == Len(line)
<1>1. b \in Seq(Byte) /\ Len(b) \in Nat /\ DOMAIN b = 1 .. Len(b) /\ \A i \in 1 .. Len(b) : b[i] \in Byte
  <2>1. b \in Seq(Byte)
    BY FrameHas
  <2> QED BY <2>1, LenProperties, ElementOfSeq
<1>2. m \in Nat /\ DOMAIN line = 1 .. m
  BY LenProperties
<1>3. line' = line \o t
  OBVIOUS
<1> HIDE DEF b
<1>4. t \in Seq(LineBytes) /\ Len(t) = Len(b) /\ \A i \in 1 .. Len(b) : t[i] = [byte |-> b[i], frame |-> n]
  <2>1. t \in [1 .. Len(b) -> LineBytes]
    BY <1>1 DEF LineBytes
  <2>2. t \in Seq(LineBytes)
    BY <1>1, <2>1, SeqDef
  <2>3. DOMAIN t = 1 .. Len(b) /\ \A i \in 1 .. Len(b) : t[i] = [byte |-> b[i], frame |-> n]
    BY <1>1
  <2> HIDE DEF t
  <2>4. Len(t) \in Nat /\ DOMAIN t = 1 .. Len(t)
    BY <2>2, LenProperties
  <2>5. Len(t) = Len(b)
    BY <1>1, <2>3, <2>4
  <2> QED BY <2>2, <2>3, <2>5
<1> HIDE DEF t
<1>5. /\ line \o t \in Seq(LineBytes) /\ Len(line \o t) = m + Len(t)
      /\ \A i \in 1 .. m + Len(t) : (line \o t)[i] = IF i <= m THEN line[i] ELSE t[i - m]
  <2>1. t \in Seq(LineBytes)
    BY <1>4
  <2> QED BY <2>1, ConcatProperties
<1> HIDE DEF m
<1>6. DOMAIN (line \o t) = 1 .. m + Len(t)
  BY <1>5, LenProperties
<1>7. ASSUME NEW j \in DOMAIN line PROVE j \in DOMAIN line' /\ line'[j] = line[j]
  <2>1. j \in 1 .. m + Len(t) /\ j <= m
    BY <1>1, <1>2, <1>4, <1>7
  <2> QED BY <1>3, <1>5, <1>6, <2>1
<1>8. ASSUME NEW k \in 1 .. Len(b)
      PROVE  m + k \in DOMAIN line' /\ line'[m + k] = [byte |-> b[k], frame |-> n]
  <2> DEFINE j == m + k
  <2>1. j \in 1 .. m + Len(t) /\ ~ (j <= m) /\ j - m = k
    BY <1>1, <1>2, <1>4
  <2> HIDE DEF j
  <2>2. j \in DOMAIN line' /\ line'[j] = t[k]
    BY <1>3, <1>5, <1>6, <2>1
  <2>3. t[k] = [byte |-> b[k], frame |-> n]
    BY <1>4
  <2> QED BY <2>2, <2>3 DEF j
<1> QED BY <1>3, <1>5, <1>7, <1>8 DEF b, m

\* A command is sent, as an earlier frame sees it.
LEMMA SentBehind ==
  ASSUME line \in Seq(LineBytes), NEW c \in Cmds, Coded(c), NEW n, NEW o \in Int, NEW i \in Nat,
         OnItsWay(c, n, o, i),
         \A j \in DOMAIN line : j \in DOMAIN line' /\ line'[j] = line[j],
         escaped' = escaped, buffer' = buffer, taken' = taken
  PROVE  OnItsWay(c, n, o, i)' /\ o + Len(Frame(c)) <= Len(line)
<1> DEFINE m == Len(Frame(c))
<1>1. m \in Nat /\ m >= 2 /\ Len(line) \in Nat /\ DOMAIN line = 1 .. Len(line)
  BY FrameHas, LenProperties
<1>2. Placed(c, n, o) /\ Halfway(c, o) /\ Did(c, o, i)
  BY DEF OnItsWay
<1>3. Placed(c, n, o)'
  BY <1>2 DEF Placed
<1>4. Halfway(c, o)' /\ Did(c, o, i)'
  BY <1>2 DEF Halfway, Did, Reading
<1> HIDE DEF m
<1>5. CASE o + m >= 1
  <2>1. m \in 1 .. m
    BY <1>1
  <2>2. o + m \in DOMAIN line
    BY <1>2, <1>5, <2>1 DEF Placed, m
  <2> QED BY <1>1, <1>3, <1>4, <2>2 DEF OnItsWay, m
<1>6. CASE ~ (o + m >= 1)
  <2>1. o + m <= Len(line)
    BY <1>1, <1>6
  <2> QED BY <1>3, <1>4, <2>1 DEF OnItsWay, m
<1> QED BY <1>5, <1>6

\* A command is sent.
LEMMA TransmitTraced ==
  ASSUME FramesTraced, NEW c \in Cmds, Transmit(c)
  PROVE  FramesTraced'
<1>1. /\ line \in Seq(LineBytes) /\ sentCmds \in Seq(Cmds)
      /\ sentCmds' = Append(sentCmds, c) /\ hit' = hit
      /\ escaped' = escaped /\ buffer' = buffer /\ taken' = taken
      /\ \E S : taken \in Seq(S)
  BY DEF FramesTraced, Transmit
<1>14. PICK N : N = Len(sentCmds) + 1
  OBVIOUS
<1>15. PICK p : p = Len(line)
  OBVIOUS
<1> DEFINE P == DOMAIN sentCmds
           len(n) == Len(Frame(sentCmds[n]))
<1>2. /\ sentCmds' \in Seq(Cmds) /\ Len(sentCmds') = N /\ N \in Nat /\ p \in Nat
      /\ DOMAIN sentCmds' = P \cup {N} /\ N \notin P
      /\ sentCmds'[N] = c /\ (\A n \in P : sentCmds'[n] = sentCmds[n] /\ n < N)
  <2>1. /\ sentCmds' \in Seq(Cmds) /\ Len(sentCmds') = Len(sentCmds) + 1
        /\ sentCmds'[Len(sentCmds) + 1] = c
    BY <1>1, AppendProperties
  <2>2. \A i \in 1 .. Len(sentCmds) : sentCmds'[i] = sentCmds[i]
    BY <1>1, AppendProperties
  <2>3. Len(sentCmds) \in Nat /\ p \in Nat /\ P = 1 .. Len(sentCmds) /\ DOMAIN sentCmds' = 1 .. Len(sentCmds')
    BY <1>1, <1>15, <2>1, LenProperties
  <2> HIDE DEF P
  <2> QED BY <1>14, <2>1, <2>2, <2>3
<1>3. PICK off \in [DOMAIN sentCmds -> Int] : \E f \in [DOMAIN sentCmds -> Nat] : Traced(off, f)
  BY DEF FramesTraced
<1>4. PICK f \in [DOMAIN sentCmds -> Nat] : Traced(off, f)
  BY <1>3
<1>5. off \in [P -> Int] /\ f \in [P -> Nat]
  OBVIOUS
<1>6. /\ line' \in Seq(LineBytes)
      /\ \A j \in DOMAIN line : j \in DOMAIN line' /\ line'[j] = line[j]
      /\ Coded(c) =>
           \A k \in 1 .. Len(Frame(c)) :
             p + k \in DOMAIN line' /\ line'[p + k] = [byte |-> Frame(c)[k], frame |-> N]
  <2>1. CASE Coded(c)
    <3>1. LET bytes == Frame(c)
          IN  line' = line \o [i \in DOMAIN bytes |-> [byte |-> bytes[i], frame |-> N]]
      <4>1. command2buffer(c) # <<>> /\ Len(sentCmds') = N
        BY <1>2, <2>1 DEF Coded
      <4>2. line' = line \o [i \in DOMAIN Frame(c) |-> [byte |-> Frame(c)[i], frame |-> Len(sentCmds')]]
        <5>1. LET bytes == send_flagged(command2buffer(c))
              IN  line' = IF command2buffer(c) = <<>> THEN line
                          ELSE line \o [i \in DOMAIN bytes |-> [byte |-> bytes[i], frame |-> Len(sentCmds')]]
          BY DEF Transmit
        <5> QED BY <4>1, <5>1 DEF Frame
      <4> QED BY <4>1, <4>2
    <3>2. N \in Nat /\ line \in Seq(LineBytes)
      BY <1>1, <1>2
    <3>3. /\ line' \in Seq(LineBytes)
          /\ \A j \in DOMAIN line : j \in DOMAIN line' /\ line'[j] = line[j]
          /\ \A k \in 1 .. Len(Frame(c)) :
               /\ Len(line) + k \in DOMAIN line'
               /\ line'[Len(line) + k] = [byte |-> Frame(c)[k], frame |-> N]
      BY <2>1, <3>1, <3>2, LineGrows
    <3> QED BY <1>15, <3>3
  <2>2. CASE ~ Coded(c)
    <3>1. line' = line
      BY <2>2 DEF Transmit, Coded
    <3> QED BY <1>1, <2>2, <3>1
  <2> QED BY <2>1, <2>2
<1> HIDE DEF P
<1>7. PICK off2 \in [P \cup {N} -> Int] : off2 = [n \in P \cup {N} |-> IF n = N THEN p ELSE off[n]]
  <2> DEFINE g == [n \in P \cup {N} |-> IF n = N THEN p ELSE off[n]]
  <2>1. g \in [P \cup {N} -> Int]
    BY <1>2, <1>5
  <2> HIDE DEF g
  <2>2. \E h \in [P \cup {N} -> Int] : h = g
    BY <2>1
  <2> QED BY <2>2 DEF g
<1>8. PICK f2 \in [P \cup {N} -> Nat] : f2 = [n \in P \cup {N} |-> IF n = N THEN 0 ELSE f[n]]
  <2> DEFINE g == [n \in P \cup {N} |-> IF n = N THEN 0 ELSE f[n]]
  <2>1. g \in [P \cup {N} -> Nat]
    BY <1>2, <1>5
  <2> HIDE DEF g
  <2>2. \E h \in [P \cup {N} -> Nat] : h = g
    BY <2>1
  <2> QED BY <2>2 DEF g
<1>9. \A n \in GoodFrames' : n \in GoodFrames \/ (n = N /\ Coded(c))
  BY <1>1, <1>2 DEF GoodFrames, P
<1>10. ASSUME NEW n \in GoodFrames
       PROVE  /\ n \in P /\ n < N /\ n # N /\ n \in Nat
              /\ sentCmds[n] \in Cmds /\ Coded(sentCmds[n]) /\ off[n] \in Int /\ f[n] \in Nat
              /\ len(n) \in Nat /\ len(n) >= 2 /\ off2[n] = off[n] /\ f2[n] = f[n]
              /\ sentCmds'[n] = sentCmds[n]
              /\ OnItsWay(sentCmds[n], n, off[n], f[n])
  <2>1. n \in P /\ sentCmds[n] \in Cmds /\ Coded(sentCmds[n]) /\ n \in Nat
        /\ len(n) \in Nat /\ len(n) >= 2
    BY <1>1, GoodIs DEF P, len
  <2>2. OnItsWay(sentCmds[n], n, off[n], f[n])
    BY <1>4 DEF Traced
  <2>3. n < N /\ n # N /\ sentCmds'[n] = sentCmds[n]
    BY <1>2, <2>1
  <2> HIDE DEF len
  <2> QED BY <1>5, <1>7, <1>8, <2>1, <2>2, <2>3
<1>11. off2[N] = p /\ f2[N] = 0
  BY <1>7, <1>8
<1> HIDE DEF len
<1>12. ASSUME NEW n \in GoodFrames
       PROVE  OnItsWay(sentCmds[n], n, off2[n], f2[n])' /\ off[n] + len(n) <= p
  <2>1. PICK d : d = sentCmds[n]
    OBVIOUS
  <2> DEFINE o == off[n]
             i == f[n]
  <2>2. d \in Cmds /\ Coded(d) /\ o \in Int /\ i \in Nat /\ OnItsWay(d, n, o, i)
    BY <1>10, <2>1
  <2>3. sentCmds[n]' = d /\ off2[n] = o /\ f2[n] = i
    BY <1>10, <2>1
  <2> HIDE DEF o, i
  <2>4. OnItsWay(d, n, o, i)' /\ o + Len(Frame(d)) <= Len(line)
    BY <1>1, <1>6, <2>2, SentBehind
  <2> QED BY <1>15, <2>1, <2>3, <2>4 DEF o, len
<1>13. ASSUME Coded(c) PROVE OnItsWay(sentCmds[N], N, off2[N], f2[N])'
  <2>1. Len(Frame(c)) \in Nat /\ Len(Frame(c)) >= 2
    BY <1>13, FrameHas
  <2>2. Placed(c, N, p)'
    BY <1>6, <1>13 DEF Placed
  <2>3. Halfway(c, p)' /\ Did(c, p, 0)'
    <3>1. ~ (p < 0) /\ ~ (p + Len(Frame(c)) <= 0)
      BY <1>2, <2>1
    <3> QED BY <3>1 DEF Halfway, Did
  <2>4. sentCmds[N]' = c
    BY <1>2
  <2> QED BY <1>11, <2>2, <2>3, <2>4 DEF OnItsWay
<1>16. ASSUME NEW m \in GoodFrames, NEW n \in GoodFrames, m < n
       PROVE  Behind(sentCmds[m], off2[m], off2[n])' /\ Later(sentCmds[n], off2[n], f2[m], f2[n])'
  <2>1. Behind(sentCmds[m], off[m], off[n]) /\ Later(sentCmds[n], off[n], f[m], f[n])
    BY <1>4, <1>16 DEF Traced
  <2>2. sentCmds[m]' = sentCmds[m] /\ sentCmds[n]' = sentCmds[n]
        /\ off2[m] = off[m] /\ off2[n] = off[n] /\ f2[m] = f[m] /\ f2[n] = f[n]
    BY <1>10
  <2> QED BY <2>1, <2>2 DEF Behind, Later
<1>17. ASSUME NEW m \in GoodFrames, Coded(c)
       PROVE  Behind(sentCmds[m], off2[m], off2[N])' /\ Later(sentCmds[N], off2[N], f2[m], f2[N])'
  <2>1. sentCmds[m]' = sentCmds[m] /\ off2[m] = off[m] /\ sentCmds[N]' = c
    BY <1>2, <1>10
  <2>2. Behind(sentCmds[m], off2[m], off2[N])'
    BY <1>11, <1>12, <2>1 DEF Behind, len
  <2>3. Len(Frame(c)) \in Nat /\ Len(Frame(c)) >= 2
    BY <1>17, FrameHas
  <2>4. ~ (p + Len(Frame(c)) <= 0)
    BY <1>2, <2>3
  <2>5. Later(sentCmds[N], off2[N], f2[m], f2[N])'
    BY <1>11, <2>1, <2>4 DEF Later
  <2> QED BY <2>2, <2>5
<1>18. \A n \in GoodFrames' : OnItsWay(sentCmds[n], n, off2[n], f2[n])'
  BY <1>9, <1>12, <1>13
<1>19. ASSUME NEW m \in GoodFrames', NEW n \in GoodFrames', m < n
       PROVE  Behind(sentCmds[m], off2[m], off2[n])' /\ Later(sentCmds[n], off2[n], f2[m], f2[n])'
  <2>1. m \in GoodFrames \/ m = N
    BY <1>9
  <2>2. m # N
    <3>1. ASSUME m = N PROVE FALSE
      <4>1. n \in GoodFrames \/ n = N
        BY <1>9
      <4>2. CASE n \in GoodFrames
        <5>1. n < N /\ n \in Nat
          BY <1>10, <4>2
        <5> QED BY <1>2, <1>19, <3>1, <5>1
      <4>3. CASE n = N
        BY <1>2, <1>19, <3>1, <4>3
      <4> QED BY <4>1, <4>2, <4>3
    <3> QED BY <3>1
  <2>3. m \in GoodFrames
    BY <2>1, <2>2
  <2>4. CASE n \in GoodFrames
    BY <1>16, <1>19, <2>3, <2>4
  <2>5. CASE n = N /\ Coded(c)
    BY <1>17, <2>3, <2>5
  <2> QED BY <1>9, <2>4, <2>5
<1>20. Traced(off2, f2)'
  BY <1>18, <1>19 DEF Traced
<1>21. off2 \in [DOMAIN sentCmds' -> Int] /\ f2 \in [DOMAIN sentCmds' -> Nat]
  BY <1>2
<1>22. \E S : taken' \in Seq(S)
  BY <1>1
<1> QED BY <1>2, <1>6, <1>20, <1>21, <1>22 DEF FramesTraced

\* Nothing is on the line at first.
LEMMA FramesStart ==
  ASSUME FrameInit
  PROVE  FramesTraced
<1>1. line = <<>> /\ sentCmds = <<>> /\ taken = <<>>
  BY DEF FrameInit
<1>2. line \in Seq(LineBytes) /\ sentCmds \in Seq(Cmds) /\ taken \in Seq(Nat)
  BY <1>1
<1>3. DOMAIN sentCmds = {} /\ GoodFrames = {}
  BY <1>1 DEF GoodFrames
<1> DEFINE g == [n \in {} |-> 0]
<1>4. g \in [{} -> Int] /\ g \in [{} -> Nat]
  OBVIOUS
<1> HIDE DEF g
<1>5. Traced(g, g)
  BY <1>3 DEF Traced
<1>6. \E off \in [DOMAIN sentCmds -> Int] : \E f \in [DOMAIN sentCmds -> Nat] : Traced(off, f)
  BY <1>3, <1>4, <1>5
<1>7. \E S : taken \in Seq(S)
  BY <1>2
<1> QED BY <1>2, <1>6, <1>7 DEF FramesTraced

\* Every step keeps every frame traced.
LEMMA FramesStep ==
  ASSUME FramesTraced, [FrameNext]_frameVars
  PROVE  FramesTraced'
<1>1. CASE \E c \in Cmds : Transmit(c)
  BY <1>1, TransmitTraced
<1>2. CASE ReceiveByte
  BY <1>2, ReceiveTraced
<1>3. CASE Fault
  BY <1>3, FaultTraced
<1>4. CASE UNCHANGED frameVars
  <2>1. line' = line /\ escaped' = escaped /\ buffer' = buffer /\ sentCmds' = sentCmds
        /\ taken' = taken /\ hit' = hit
    BY <1>4 DEF frameVars
  <2>2. \A c, n, o, i : OnItsWay(c, n, o, i) => OnItsWay(c, n, o, i)'
    BY <2>1 DEF OnItsWay, Placed, Halfway, Did, Reading
  <2>3. GoodFrames' = GoodFrames
    BY <2>1 DEF GoodFrames
  <2>4. \A off, f : Traced(off, f) => Traced(off, f)'
    BY <2>1, <2>2, <2>3 DEF Traced, Behind, Later
  <2> QED BY <2>1, <2>4 DEF FramesTraced
<1> QED BY <1>1, <1>2, <1>3, <1>4 DEF FrameNext

\* A frame that was not hit, and of which no byte is on the way, was read to its end.
LEMMA TracedArrive ==
  ASSUME FramesTraced
  PROVE  WholeFramesArrive
<1>1. line \in Seq(LineBytes) /\ sentCmds \in Seq(Cmds)
  BY DEF FramesTraced
<1>2. PICK off \in [DOMAIN sentCmds -> Int] : \E f \in [DOMAIN sentCmds -> Nat] : Traced(off, f)
  BY DEF FramesTraced
<1>3. PICK f \in [DOMAIN sentCmds -> Nat] : Traced(off, f)
  BY <1>2
<1>4. ASSUME NEW n \in Whole
      PROVE  /\ n \in GoodFrames /\ off[n] + Len(Frame(sentCmds[n])) <= 0
             /\ f[n] \in DOMAIN taken /\ taken[f[n]] = Received(sentCmds[n])
  <2>1. n \in GoodFrames
    BY DEF Whole, GoodFrames, Coded
  <2>2. n \in DOMAIN sentCmds /\ Len(Frame(sentCmds[n])) \in Nat /\ Len(Frame(sentCmds[n])) >= 2
    BY <1>1, <2>1, GoodIs
  <2>3. OnItsWay(sentCmds[n], n, off[n], f[n])
    BY <1>3, <2>1 DEF Traced
  <2> DEFINE m == Len(Frame(sentCmds[n]))
             o == off[n]
  <2>4. o \in Int /\ m \in Nat /\ m \in 1 .. m
    BY <2>2
  <2>5. o + m <= 0
    <3>1. SUFFICES ASSUME ~ (o + m <= 0) PROVE FALSE
      OBVIOUS
    <3> HIDE DEF m, o
    <3>2. o + m >= 1
      BY <2>4, <3>1
    <3>3. o + m \in DOMAIN line /\ line[o + m] = [byte |-> Frame(sentCmds[n])[m], frame |-> n]
      BY <2>3, <2>4, <3>2 DEF OnItsWay, Placed, m, o
    <3>4. line[o + m].frame = n
      BY <3>3
    <3> QED BY <3>3, <3>4 DEF Whole
  <2> QED BY <2>1, <2>3, <2>5 DEF OnItsWay, Did
<1>5. ASSUME NEW m \in Whole, NEW n \in Whole, m < n PROVE f[m] < f[n]
  BY <1>3, <1>4, <1>5 DEF Traced, Later
<1> DEFINE g == [n \in Whole |-> f[n]]
<1>6. g \in [Whole -> DOMAIN taken]
  BY <1>4
<1>7. \A n \in Whole : g[n] = f[n]
  OBVIOUS
<1> HIDE DEF g
<1>8. \A i \in Whole : taken[g[i]] = Received(sentCmds[i])
  BY <1>4, <1>7
<1>9. \A i, j \in Whole : i < j => g[i] < g[j]
  BY <1>5, <1>7
<1> QED BY <1>6, <1>8, <1>9 DEF WholeFramesArrive

\* However the line is mangled around it, a frame none of whose bytes was lost or changed is
\* received as the command that was sent, and in the order sent (protocol_send_flagged,
\* protocol_receive_flagged and zm_protocol.c).
THEOREM FramesAreWhole == FrameSpec => []WholeFramesArrive
<1>1. FrameInit => FramesTraced
  BY FramesStart
<1>2. FramesTraced /\ [FrameNext]_frameVars => FramesTraced'
  BY FramesStep
<1>3. FramesTraced => WholeFramesArrive
  BY TracedArrive
<1> QED BY <1>1, <1>2, <1>3, PTL DEF FrameSpec

----------------------------------------------------------------------------
(* The network configuration.                                              *)

\* The parameters are in a list, those setParameter sets are among them.
Readable == (\E S : Reads \in Seq(S)) /\ Settable \subseteq Params /\ CmdSlots \in Int

\* What may be in the ring: reads of what is read, writes of what was chosen.
Sane(ch, c) == \/ c.op = "read" /\ c.id \in ToSet(Reads)
               \/ c.op = "write" /\ c.id \in Params /\ (c.id # "KEY" => c.val \in ch[c.id])

Copies ==
  /\ DOMAIN dev = Params /\ DOMAIN host = Params /\ DOMAIN form = Params /\ DOMAIN chosen = Params
  /\ \A p \in Params \ {"KEY"} :
       dev[p] \in chosen[p] /\ host[p] \in chosen[p] /\ form[p] \in chosen[p]
RingSane == (\E S : cmds \in Seq(S)) /\ \A i \in DOMAIN cmds : Sane(chosen, cmds[i])
NInv   == Copies /\ RingSane

\* What is queued is of the old ring or one of the new commands.
LEMMA QueueIs ==
  ASSUME NEW S, NEW q \in Seq(S), NEW T, NEW cs \in Seq(T), CmdSlots \in Int, QueueTo(q, cs)
  PROVE  /\ \E U : cmds' \in Seq(U)
         /\ \A i \in DOMAIN cmds' : \/ \E j \in DOMAIN q : cmds'[i] = q[j]
                                    \/ \E j \in DOMAIN cs : cmds'[i] = cs[j]
<1> DEFINE room == CmdSlots - Len(q)
           n == IF room < Len(cs) THEN room ELSE Len(cs)
           t == SubSeq(cs, 1, n)
           U == S \cup T
           m == Len(q)
<1>1. m \in Nat /\ Len(cs) \in Nat /\ DOMAIN q = 1 .. m /\ DOMAIN cs = 1 .. Len(cs)
  BY LenProperties
<1>2. cmds' = q \o t
  BY DEF QueueTo
<1>3. n \in Int /\ n <= Len(cs)
  BY <1>1
<1> HIDE DEF n, room
<1>4. \A i \in 1 .. n : cs[i] \in T /\ i \in DOMAIN cs
  <2>1. \A i \in 1 .. n : i \in 1 .. Len(cs)
    BY <1>1, <1>3
  <2> QED BY <1>1, <2>1, ElementOfSeq
<1>5. t \in Seq(T) /\ Len(t) \in Nat /\ Len(t) = (IF 1 <= n THEN n - 1 + 1 ELSE 0)
      /\ \A i \in 1 .. n - 1 + 1 : t[i] = cs[1 + i - 1]
  <2>1. \A i \in 1 .. n : cs[i] \in T
    BY <1>4
  <2>2. /\ t \in Seq(T) /\ Len(t) = (IF 1 <= n THEN n - 1 + 1 ELSE 0)
        /\ \A i \in 1 .. n - 1 + 1 : t[i] = cs[1 + i - 1]
    BY <1>3, <2>1, SubSeqProperties
  <2> HIDE DEF t
  <2> QED BY <2>2, LenProperties
<1> HIDE DEF t
<1>6. \A i \in 1 .. Len(t) : i \in DOMAIN cs /\ t[i] = cs[i]
  <2>1. \A i \in 1 .. Len(t) : i \in 1 .. n /\ i \in 1 .. n - 1 + 1 /\ 1 + i - 1 = i
    BY <1>3, <1>5
  <2> QED BY <1>4, <1>5, <2>1
<1>7. q \in Seq(U) /\ t \in Seq(U)
  <2>1. S \subseteq U /\ T \subseteq U
    OBVIOUS
  <2> QED BY <1>5, <2>1, SeqMonotonic
<1> HIDE DEF U
<1>8. /\ q \o t \in Seq(U) /\ Len(q \o t) = m + Len(t)
      /\ \A i \in 1 .. m + Len(t) : (q \o t)[i] = IF i <= m THEN q[i] ELSE t[i - m]
  BY <1>7, ConcatProperties
<1>9. DOMAIN (q \o t) = 1 .. m + Len(t)
  BY <1>8, LenProperties
<1> HIDE DEF m
<1>10. ASSUME NEW i \in 1 .. m + Len(t)
       PROVE  (\E j \in DOMAIN q : (q \o t)[i] = q[j]) \/ \E j \in DOMAIN cs : (q \o t)[i] = cs[j]
  <2>1. CASE i <= m
    <3>1. i \in DOMAIN q
      BY <1>1, <2>1
    <3> QED BY <1>8, <2>1, <3>1
  <2>2. CASE ~ (i <= m)
    <3> DEFINE j == i - m
    <3>1. j \in 1 .. Len(t)
      BY <1>1, <1>5, <2>2
    <3>2. (q \o t)[i] = t[j]
      BY <1>8, <2>2
    <3> HIDE DEF j
    <3> QED BY <1>6, <3>1, <3>2
  <2> QED BY <2>1, <2>2
<1> QED BY <1>2, <1>8, <1>9, <1>10

\* Commands that are sane, queued behind such, ...
LEMMA QueueSane ==
  ASSUME NEW S, NEW q \in Seq(S), NEW T, NEW cs \in Seq(T), CmdSlots \in Int, QueueTo(q, cs),
         \A i \in DOMAIN q : Sane(chosen', q[i]), \A i \in DOMAIN cs : Sane(chosen', cs[i])
  PROVE  RingSane'
<1>1. /\ \E U : cmds' \in Seq(U)
      /\ \A i \in DOMAIN cmds' : \/ \E j \in DOMAIN q : cmds'[i] = q[j]
                                 \/ \E j \in DOMAIN cs : cmds'[i] = cs[j]
  BY QueueIs
<1>2. \A i \in DOMAIN cmds' : Sane(chosen', cmds'[i])
  BY <1>1
<1> QED BY <1>1, <1>2 DEF RingSane

\* ... and what was sane stays so when more is chosen.
LEMMA StaysSane ==
  ASSUME NInv, \A p \in Params : chosen[p] \subseteq chosen'[p]
  PROVE  (\E S : cmds \in Seq(S)) /\ \A i \in DOMAIN cmds : Sane(chosen', cmds[i])
BY DEF NInv, RingSane, Sane

\* There are finitely many parameters.
LEMMA ParamsFinite ==
  ASSUME Readable
  PROVE  IsFiniteSet(Params)
<1>1. PICK S : Reads \in Seq(S)
  BY DEF Readable
<1>2. Len(Reads) \in Nat /\ DOMAIN Reads = 1 .. Len(Reads)
  BY <1>1, LenProperties
<1>3. IsFiniteSet(1 .. Len(Reads))
  BY <1>2, FS_Interval
<1> DEFINE D == 1 .. Len(Reads)
           g == [i \in D |-> Reads[i]]
<1>5. ToSet(Reads) = {g[i] : i \in D} /\ g \in [D -> {g[i] : i \in D}]
  BY <1>2 DEF ToSet
<1> HIDE DEF D, g
<1>7. IsFiniteSet(D)
  BY <1>3 DEF D
<1>4. IsFiniteSet({g[i] : i \in D})
  BY <1>5, <1>7, FewValues
<1>6. IsFiniteSet(ToSet(Reads)) /\ Params \subseteq ToSet(Reads)
  BY <1>4, <1>5 DEF Params
<1> QED BY <1>6, FS_Subset

\* The commands for a set of parameters, in any order.
LEMMA SetSeq ==
  ASSUME NEW S, IsFiniteSet(S)
  PROVE  SetToSeq(S) \in Seq(S) /\ \A i \in DOMAIN SetToSeq(S) : SetToSeq(S)[i] \in S
<1> DEFINE f == SetToSeq(S)
           n == Cardinality(S)
<1>1. n \in Nat
  BY FS_CardinalityType
<1>2. f \in [1 .. n -> S]
  <2>1. ExistsBijection(1 .. n, S)
    BY FS_CardinalityType
  <2>2. \E g \in [1 .. n -> S] : IsInjective(g)
    BY <2>1 DEF ExistsBijection, Bijection, Injection, IsInjective
  <2> QED BY <2>2 DEF SetToSeq
<1> HIDE DEF f, n
<1>3. f \in Seq(S)
  BY <1>1, <1>2, FcnIsSeq
<1>4. \A i \in DOMAIN f : f[i] \in S
  BY <1>2
<1> QED BY <1>3, <1>4 DEF f

\* The writes of parameters whose values were chosen.
LEMMA WritesSane ==
  ASSUME Readable, NEW ps \in SUBSET Params, NEW n,
         NEW ch, \A p \in ps : p # "KEY" => n[p] \in ch[p]
  PROVE  /\ \E T : setNetworkConfig(n, ps) \in Seq(T)
         /\ \A i \in DOMAIN setNetworkConfig(n, ps) : Sane(ch, setNetworkConfig(n, ps)[i])
<1> DEFINE T == {WriteCmd(p, n[p]) : p \in ps \ {"EXTPANID"}}
           f == SetToSeq(T)
<1>1. IsFiniteSet(T)
  <2> DEFINE D == ps \ {"EXTPANID"}
             g == [p \in D |-> WriteCmd(p, n[p])]
  <2>1. IsFiniteSet(D)
    BY ParamsFinite, FS_Subset
  <2>2. T = {g[p] : p \in D} /\ g \in [D -> {g[p] : p \in D}]
    OBVIOUS
  <2> HIDE DEF D, g, T
  <2>3. IsFiniteSet({g[p] : p \in D})
    BY <2>1, <2>2, FewValues
  <2> QED BY <2>2, <2>3
<1>2. f = setNetworkConfig(n, ps)
  BY DEF setNetworkConfig
<1>3. f \in Seq(T) /\ \A i \in DOMAIN f : f[i] \in T
  <2> HIDE DEF T
  <2> QED BY <1>1, SetSeq
<1> HIDE DEF f
<1>4. ASSUME NEW i \in DOMAIN f PROVE Sane(ch, f[i])
  <2>5. f[i] \in T
    BY <1>3
  <2>1. PICK p \in ps \ {"EXTPANID"} : f[i] = WriteCmd(p, n[p])
    BY <2>5
  <2>2. PICK c : c = f[i]
    OBVIOUS
  <2>3. c.op = "write" /\ c.id = p /\ c.val = n[p]
    BY <2>1, <2>2 DEF WriteCmd
  <2>4. Sane(ch, c)
    BY <2>3 DEF Sane, Params
  <2> QED BY <2>2, <2>4 DEF setNetworkConfig
<1> QED BY <1>2, <1>3, <1>4

\* Reads are sane: those of all parameters.
LEMMA ReadsSane ==
  ASSUME Readable, NEW ch
  PROVE  (\E T : ReadAll \in Seq(T)) /\ \A i \in DOMAIN ReadAll : Sane(ch, ReadAll[i])
<1>1. PICK S : Reads \in Seq(S)
  BY DEF Readable
<1>2. Len(Reads) \in Nat /\ DOMAIN Reads = 1 .. Len(Reads)
  BY <1>1, LenProperties
<1> DEFINE f == ReadAll
           T == {f[i] : i \in 1 .. Len(Reads)}
<1>3. f \in [1 .. Len(Reads) -> T] /\ DOMAIN f = DOMAIN Reads
  BY <1>2 DEF ReadAll
<1>4. f \in Seq(T)
  BY <1>2, <1>3, SeqDef
<1>5. ASSUME NEW i \in DOMAIN f PROVE Sane(ch, f[i])
  <2>1. PICK c : c = f[i]
    OBVIOUS
  <2>2. c.op = "read" /\ c.id = Reads[i] /\ i \in DOMAIN Reads
    BY <2>1 DEF ReadAll
  <2>3. Sane(ch, c)
    BY <2>2 DEF Sane, ToSet
  <2> QED BY <2>1, <2>3 DEF ReadAll
<1> QED BY <1>4, <1>5

\* So are the reads of some, as for the poll.
LEMMA PollsSane ==
  ASSUME Readable, NEW ps \in SUBSET Params, NEW ch
  PROVE  (\E T : Polls(ps) \in Seq(T)) /\ \A i \in DOMAIN Polls(ps) : Sane(ch, Polls(ps)[i])
<1> DEFINE T == {ReadCmd(p) : p \in ps}
           f == SetToSeq(T)
<1>1. IsFiniteSet(T)
  <2>2. IsFiniteSet(ps)
    BY ParamsFinite, FS_Subset
  <2> DEFINE g == [p \in ps |-> ReadCmd(p)]
  <2>3. T = {g[p] : p \in ps} /\ g \in [ps -> {g[p] : p \in ps}]
    OBVIOUS
  <2> HIDE DEF g, T
  <2>4. IsFiniteSet({g[p] : p \in ps})
    BY <2>2, <2>3, FewValues
  <2> QED BY <2>3, <2>4
<1>2. f \in Seq(T) /\ \A i \in DOMAIN f : f[i] \in T
  <2> HIDE DEF T
  <2> QED BY <1>1, SetSeq
<1>4. f = Polls(ps)
  BY DEF Polls
<1> HIDE DEF f
<1>3. ASSUME NEW i \in DOMAIN f PROVE Sane(ch, f[i])
  <2>5. f[i] \in T
    BY <1>2
  <2>1. PICK p \in ps : f[i] = ReadCmd(p)
    BY <2>5
  <2>2. PICK c : c = f[i]
    OBVIOUS
  <2>3. c.op = "read" /\ c.id \in ToSet(Reads)
    BY <2>1, <2>2 DEF ReadCmd, Params
  <2>4. Sane(ch, c)
    BY <2>3 DEF Sane
  <2> QED BY <2>2, <2>4
<1> QED BY <1>2, <1>3, <1>4

\* Two sequences of sane commands, one behind the other.
LEMMA CatSane ==
  ASSUME NEW ch, NEW S, NEW a \in Seq(S), NEW T, NEW b \in Seq(T),
         \A i \in DOMAIN a : Sane(ch, a[i]), \A i \in DOMAIN b : Sane(ch, b[i])
  PROVE  (\E U : a \o b \in Seq(U)) /\ \A i \in DOMAIN (a \o b) : Sane(ch, (a \o b)[i])
<1> DEFINE U == S \cup T
           m == Len(a)
           n == Len(b)
<1>1. m \in Nat /\ n \in Nat /\ DOMAIN a = 1 .. m /\ DOMAIN b = 1 .. n
  BY LenProperties
<1>2. a \in Seq(U) /\ b \in Seq(U)
  <2>1. S \subseteq U /\ T \subseteq U
    OBVIOUS
  <2> QED BY <2>1, SeqMonotonic
<1> HIDE DEF U
<1>3. /\ a \o b \in Seq(U) /\ Len(a \o b) = m + n
      /\ \A i \in 1 .. m + n : (a \o b)[i] = IF i <= m THEN a[i] ELSE b[i - m]
  BY <1>2, ConcatProperties
<1>4. DOMAIN (a \o b) = 1 .. m + n
  BY <1>3, LenProperties
<1> HIDE DEF m, n
<1>5. ASSUME NEW i \in 1 .. m + n PROVE Sane(ch, (a \o b)[i])
  <2>1. CASE i <= m
    <3>1. i \in DOMAIN a
      BY <1>1, <2>1
    <3> QED BY <1>3, <2>1, <3>1
  <2>2. CASE ~ (i <= m)
    <3> DEFINE j == i - m
    <3>1. j \in DOMAIN b
      BY <1>1, <2>2
    <3>2. (a \o b)[i] = b[j]
      BY <1>3, <2>2
    <3> HIDE DEF j
    <3> QED BY <3>1, <3>2
  <2> QED BY <2>1, <2>2
<1> QED BY <1>3, <1>4, <1>5

\* What a status makes zmMaster read.
LEMMA StatusSane ==
  ASSUME Readable, NEW fresh \in BOOLEAN, NEW joined \in BOOLEAN, NEW ch
  PROVE  /\ \E T : ReadsAt(fresh, joined) \in Seq(T)
         /\ \A i \in DOMAIN ReadsAt(fresh, joined) : Sane(ch, ReadsAt(fresh, joined)[i])
<1> DEFINE a == IF changed THEN ReadAll ELSE <<>>
           b == IF fresh THEN ReadAll ELSE <<>>
           c == IF joined THEN Polls(Moved) ELSE <<>>
           none == <<>>
<1>1. (\E T : ReadAll \in Seq(T)) /\ \A i \in DOMAIN ReadAll : Sane(ch, ReadAll[i])
  BY ReadsSane
<1>2. (\E T : Polls(Moved) \in Seq(T)) /\ \A i \in DOMAIN Polls(Moved) : Sane(ch, Polls(Moved)[i])
  <2>1. Moved \in SUBSET Params
    BY DEF Moved
  <2> QED BY <2>1, PollsSane
<1>3. none \in Seq(Nat) /\ DOMAIN none = {}
  OBVIOUS
<1>4. a \in {ReadAll, none} /\ b \in {ReadAll, none} /\ c \in {Polls(Moved), none}
  OBVIOUS
<1> HIDE DEF a, b, c, none
<1>5. (\E T : a \in Seq(T)) /\ \A i \in DOMAIN a : Sane(ch, a[i])
  BY <1>1, <1>3, <1>4
<1>6. (\E T : b \in Seq(T)) /\ \A i \in DOMAIN b : Sane(ch, b[i])
  BY <1>1, <1>3, <1>4
<1>7. (\E T : c \in Seq(T)) /\ \A i \in DOMAIN c : Sane(ch, c[i])
  BY <1>2, <1>3, <1>4
<1>8. (\E U : a \o b \in Seq(U)) /\ \A i \in DOMAIN (a \o b) : Sane(ch, (a \o b)[i])
  BY <1>5, <1>6, CatSane
<1> DEFINE d == a \o b
<1>9. (\E U : d \in Seq(U)) /\ \A i \in DOMAIN d : Sane(ch, d[i])
  BY <1>8
<1> HIDE DEF d
<1>10. (\E U : d \o c \in Seq(U)) /\ \A i \in DOMAIN (d \o c) : Sane(ch, (d \o c)[i])
  BY <1>7, <1>9, CatSane
<1>11. ReadsAt(fresh, joined) = d \o c
  BY DEF ReadsAt, a, b, c, d
<1> QED BY <1>10, <1>11

\* At first the host has the defaults, and nothing is queued.
LEMMA ConfigStarts ==
  ASSUME NetInit
  PROVE  NInv
<1>1. dev \in [Params -> UNION {DevValues[p] : p \in Params}] /\ cmds = <<>>
      /\ host = [p \in Params |-> Default[p]] /\ form = host
      /\ chosen = [p \in Params |-> {dev[p]} \cup {Default[p]}]
  BY DEF NetInit
<1>2. Copies
  BY <1>1 DEF Copies
<1>3. cmds \in Seq(Nat) /\ DOMAIN cmds = {}
  BY <1>1
<1> QED BY <1>2, <1>3 DEF NInv, RingSane

\* What an action may do to the copies, with the commands in place.
LEMMA CopiesOK ==
  ASSUME NInv,
         DOMAIN dev' = Params, DOMAIN host' = Params, DOMAIN form' = Params, DOMAIN chosen' = Params,
         \A p \in Params : chosen[p] \subseteq chosen'[p],
         \A p \in Params \ {"KEY"} : /\ dev'[p] = dev[p] \/ dev'[p] \in chosen'[p]
                                     /\ host'[p] = host[p] \/ host'[p] \in chosen'[p]
                                     /\ form'[p] \in {form[p], host[p]} \/ form'[p] \in chosen'[p]
  PROVE  Copies'
<1>1. \A p \in Params \ {"KEY"} : p \in Params
  OBVIOUS
<1>2. \A p \in Params \ {"KEY"} :
        dev[p] \in chosen'[p] /\ host[p] \in chosen'[p] /\ form[p] \in chosen'[p]
  BY <1>1 DEF NInv, Copies
<1>3. \A p \in Params \ {"KEY"} :
        dev'[p] \in chosen'[p] /\ host'[p] \in chosen'[p] /\ form'[p] \in chosen'[p]
  BY <1>2
<1> HIDE DEF Params
<1> QED BY <1>3 DEF Copies, Params

\* setParameter.
LEMMA SetOK ==
  ASSUME Readable, NInv, NEW p \in Settable, NEW v, setParameter(p, v)
  PROVE  NInv'
<1>1. /\ host' = [host EXCEPT ![p] = v] /\ chosen' = [chosen EXCEPT ![p] = @ \cup {v}]
      /\ QueueTo(cmds, setNetworkConfig(host', ItemsOf(p))) /\ dev' = dev /\ form' = form
  BY DEF setParameter
<1>2. p \in Params /\ CmdSlots \in Int
  BY DEF Readable
<1>3. DOMAIN host = Params /\ DOMAIN chosen = Params /\ DOMAIN form = Params /\ DOMAIN dev = Params
  BY DEF NInv, Copies
<1>4. DOMAIN host' = Params /\ DOMAIN chosen' = Params
  BY <1>1, <1>3
<1>5. /\ \A q \in Params : chosen[q] \subseteq chosen'[q] /\ v \in chosen'[p]
      /\ \A q \in Params : q # p => host'[q] = host[q]
      /\ host'[p] = v
  BY <1>1, <1>2, <1>3
<1>6. Copies'
  BY <1>1, <1>3, <1>4, <1>5, CopiesOK
<1>7. ItemsOf(p) \in SUBSET Params
  BY DEF ItemsOf
<1>8. \A q \in ItemsOf(p) : q # "KEY" => host'[q] \in chosen'[q]
  BY <1>6, <1>7 DEF Copies
<1> DEFINE cs == setNetworkConfig(host', ItemsOf(p))
<1>9. (\E T : cs \in Seq(T)) /\ \A i \in DOMAIN cs : Sane(chosen', cs[i])
  BY <1>7, <1>8, WritesSane
<1>10. (\E S : cmds \in Seq(S)) /\ \A i \in DOMAIN cmds : Sane(chosen', cmds[i])
  BY <1>5, StaysSane
<1> HIDE DEF cs
<1>11. RingSane'
  BY <1>1, <1>2, <1>9, <1>10, QueueSane DEF cs
<1> QED BY <1>6, <1>11 DEF NInv

\* A status comes.
LEMMA StatusOK ==
  ASSUME Readable, NInv, NEW s, NEW fresh \in BOOLEAN, NEW joined \in BOOLEAN, Status(s, fresh, joined)
  PROVE  NInv'
<1>1. dev' = dev /\ host' = host /\ form' = form /\ chosen' = chosen /\ CmdSlots \in Int
      /\ QueueTo(cmds, ReadsAt(fresh, joined))
  BY DEF Status, Readable
<1>2. Copies'
  BY <1>1 DEF NInv, Copies
<1> DEFINE cs == ReadsAt(fresh, joined)
<1>3. (\E T : cs \in Seq(T)) /\ \A i \in DOMAIN cs : Sane(chosen', cs[i])
  BY StatusSane
<1>4. (\E S : cmds \in Seq(S)) /\ \A i \in DOMAIN cmds : Sane(chosen', cmds[i])
  BY <1>1, StaysSane
<1> HIDE DEF cs
<1>5. RingSane'
  BY <1>1, <1>3, <1>4, QueueSane DEF cs
<1> QED BY <1>2, <1>5 DEF NInv

\* The user accepts the dialog.
LEMMA AcceptOK ==
  ASSUME Readable, NInv, NEW p \in InForm \cup EndpointTab, NEW v, NEW opt \in SUBSET Optional,
         NEW tab \in {"network", "endpoints", "refused"}, onAccept(p, v, opt, tab)
  PROVE  NInv'
<1> DEFINE ps == Written(opt, tab)
           took == Taken(opt, tab) \cup ({p} \cap EndpointTab)
<1>1. /\ form' = [form EXCEPT ![p] = v] /\ chosen' = [chosen EXCEPT ![p] = @ \cup {v}]
      /\ host' = [q \in Params |-> IF q \in took THEN form'[q] ELSE host[q]]
      /\ QueueTo(cmds, setNetworkConfig(host', ps)) /\ dev' = dev
  BY DEF onAccept
<1>2. p \in Params /\ CmdSlots \in Int /\ ps \in SUBSET Params
  BY DEF Readable, InForm, Optional, Accepts, EndpointTab, Written
<1> HIDE DEF ps, took
<1>3. DOMAIN host = Params /\ DOMAIN chosen = Params /\ DOMAIN form = Params /\ DOMAIN dev = Params
  BY DEF NInv, Copies
<1>4. DOMAIN host' = Params /\ DOMAIN chosen' = Params /\ DOMAIN form' = Params
  BY <1>1, <1>3
<1>5. /\ \A q \in Params : chosen[q] \subseteq chosen'[q] /\ v \in chosen'[p]
      /\ \A q \in Params : q # p => form'[q] = form[q]
      /\ form'[p] = v
      /\ \A q \in Params : host'[q] \in {form'[q], host[q]}
  BY <1>1, <1>2, <1>3
<1>6. \A q \in Params \ {"KEY"} : form[q] \in chosen[q]
  BY DEF NInv, Copies
<1>7. \A q \in Params \ {"KEY"} : form'[q] \in chosen'[q]
  BY <1>5, <1>6
<1>8. Copies'
  BY <1>1, <1>3, <1>4, <1>5, <1>7, CopiesOK
<1>9. \A q \in ps : q # "KEY" => host'[q] \in chosen'[q]
  BY <1>2, <1>8 DEF Copies
<1> DEFINE cs == setNetworkConfig(host', ps)
<1>10. (\E T : cs \in Seq(T)) /\ \A i \in DOMAIN cs : Sane(chosen', cs[i])
  BY <1>2, <1>9, WritesSane
<1>11. (\E S : cmds \in Seq(S)) /\ \A i \in DOMAIN cmds : Sane(chosen', cmds[i])
  BY <1>5, StaysSane
<1> HIDE DEF cs
<1>12. RingSane'
  BY <1>1, <1>2, <1>10, <1>11, QueueSane DEF cs
<1> QED BY <1>8, <1>12 DEF NInv

\* The ring without its first command.
LEMMA TailSane ==
  ASSUME NInv, cmds # <<>>, \A p \in Params : chosen[p] \subseteq chosen'[p]
  PROVE  /\ \E S : Tail(cmds) \in Seq(S)
         /\ \A i \in DOMAIN Tail(cmds) : Sane(chosen', Tail(cmds)[i])
<1>1. PICK S : cmds \in Seq(S)
  BY DEF NInv, RingSane
<1>2. Len(cmds) \in Nat /\ DOMAIN cmds = 1 .. Len(cmds) /\ Len(cmds) # 0
  BY <1>1, LenProperties
<1>3. Tail(cmds) \in Seq(S) /\ Len(Tail(cmds)) = Len(cmds) - 1
      /\ \A i \in 1 .. Len(Tail(cmds)) : Tail(cmds)[i] = cmds[i + 1]
  BY <1>1, HeadTailProperties
<1>4. DOMAIN Tail(cmds) = 1 .. Len(cmds) - 1
  BY <1>2, <1>3, LenProperties
<1>5. \A i \in DOMAIN cmds : Sane(chosen', cmds[i])
  BY StaysSane
<1>6. \A i \in 1 .. Len(cmds) - 1 : i + 1 \in DOMAIN cmds
  BY <1>2
<1> QED BY <1>3, <1>4, <1>5, <1>6

\* The first command of the ring.
LEMMA HeadSane ==
  ASSUME NInv, cmds # <<>>
  PROVE  Sane(chosen, Head(cmds))
<1>1. PICK S : cmds \in Seq(S)
  BY DEF NInv, RingSane
<1>2. Len(cmds) \in Nat /\ DOMAIN cmds = 1 .. Len(cmds) /\ Len(cmds) # 0
  BY <1>1, LenProperties
<1>3. 1 \in DOMAIN cmds /\ Head(cmds) = cmds[1]
  BY <1>1, <1>2
<1> QED BY <1>3 DEF NInv, RingSane

\* The device answers a command.
LEMMA AnswerOK ==
  ASSUME Readable, NInv, Answer
  PROVE  NInv'
<1>1. cmds # <<>> /\ form' = form /\ CmdSlots \in Int
  BY DEF Answer, Readable
<1>2. DOMAIN host = Params /\ DOMAIN chosen = Params /\ DOMAIN form = Params /\ DOMAIN dev = Params
  BY DEF NInv, Copies
<1>3. PICK c : c = Head(cmds)
  OBVIOUS
<1>4. CASE c.op = "read"
  <2> DEFINE v == IF c.id = "KEY2" THEN dev["KEY"] ELSE dev[c.id]
             p == c.id
             k == IF p = "KEY2" THEN v ELSE Corrected(p, v)
             cs == IF k = v THEN <<>> ELSE <<WriteCmd(p, k)>>
  <2>1. readParameterResponse(p, v, Tail(cmds)) /\ dev' = dev
    BY <1>3, <1>4 DEF Answer
  <2>2. /\ host' = Stored(p, v) /\ QueueTo(Tail(cmds), cs)
        /\ chosen' = IF k = v THEN chosen ELSE [chosen EXCEPT ![p] = @ \cup {k}]
    BY <2>1 DEF readParameterResponse
  <2>3. p \in ToSet(Reads)
    BY <1>1, <1>3, <1>4, HeadSane DEF Sane
  <2>4. p # "KEY2" => p \in Params
    BY <2>3 DEF Params
  <2>5. k # v => p # "KEY2"
    OBVIOUS
  <2>6. p # "KEY2" => host' = host \/ host' = [host EXCEPT ![p] = k]
    BY <2>2 DEF Stored
  <2>7. p = "KEY2" => \E x : host' = [host EXCEPT !["KEY"] = x]
    BY <2>2 DEF Stored, Ignored
  <2>8. p \in Params \ {"KEY"} /\ k = v => k \in chosen[p]
    <3>1. p \in Params \ {"KEY"} => p # "KEY2" /\ dev[p] \in chosen[p]
      BY DEF NInv, Copies, Params
    <3>2. p \in Params \ {"KEY"} => v = dev[p]
      BY <3>1
    <3> HIDE DEF k, v
    <3> QED BY <3>1, <3>2
  <2> HIDE DEF v, p, k, cs
  <2>9. DOMAIN chosen' = Params /\ (\A q \in Params : chosen[q] \subseteq chosen'[q])
        /\ (p \in Params /\ k # v => k \in chosen'[p])
    BY <1>2, <2>2
  <2>10. DOMAIN host' = Params /\ DOMAIN form' = Params /\ DOMAIN dev' = Params
    BY <1>1, <1>2, <2>1, <2>6, <2>7
  <2>11. ASSUME NEW q \in Params \ {"KEY"}
         PROVE  host'[q] = host[q] \/ host'[q] \in chosen'[q]
    <3>1. CASE p = "KEY2"
      BY <1>2, <2>7, <3>1
    <3>2. CASE p # "KEY2" /\ q # p
      BY <1>2, <2>6, <3>2
    <3>3. CASE p # "KEY2" /\ q = p /\ host' # host
      <4>1. host'[q] = k
        BY <1>2, <2>4, <2>6, <3>3
      <4>2. k \in chosen'[p]
        <5>1. CASE k = v
          BY <2>4, <2>8, <2>9, <3>3, <5>1
        <5>2. CASE k # v
          BY <2>4, <2>9, <3>3, <5>2
        <5> QED BY <5>1, <5>2
      <4> QED BY <3>3, <4>1, <4>2
    <3>4. CASE host' = host
      BY <3>4
    <3> QED BY <3>1, <3>2, <3>3, <3>4
  <2>12. Copies'
    BY <1>1, <2>1, <2>9, <2>10, <2>11, CopiesOK
  <2>13. (\E T : cs \in Seq(T)) /\ \A i \in DOMAIN cs : Sane(chosen', cs[i])
    <3>1. CASE k = v
      <4>1. cs = <<>>
        BY <3>1 DEF cs
      <4>2. cs \in Seq(Nat) /\ DOMAIN cs = {}
        BY <4>1
      <4> QED BY <4>2
    <3>2. CASE k # v
      <4> DEFINE w == WriteCmd(p, k)
      <4>1. cs = <<w>>
        BY <3>2 DEF cs
      <4>2. w.op = "write" /\ w.id = p /\ w.val = k
        BY DEF WriteCmd
      <4>3. Sane(chosen', w)
        <5> HIDE DEF w
        <5> QED BY <2>4, <2>5, <2>9, <3>2, <4>2 DEF Sane
      <4> HIDE DEF w
      <4>4. cs \in Seq({w}) /\ DOMAIN cs = {1} /\ cs[1] = w
        BY <4>1
      <4> QED BY <4>3, <4>4
    <3> QED BY <3>1, <3>2
  <2>14. /\ \E S : Tail(cmds) \in Seq(S)
         /\ \A i \in DOMAIN Tail(cmds) : Sane(chosen', Tail(cmds)[i])
    BY <1>1, <2>9, TailSane
  <2>15. RingSane'
    BY <1>1, <2>2, <2>13, <2>14, QueueSane
  <2> QED BY <2>12, <2>15 DEF NInv
<1>5. CASE c.op = "write"
  <2>1. dev' = [dev EXCEPT ![c.id] = c.val] /\ cmds' = Tail(cmds) /\ host' = host /\ chosen' = chosen
    BY <1>3, <1>5 DEF Answer
  <2>2. c.id \in Params /\ (c.id # "KEY" => c.val \in chosen[c.id])
    BY <1>1, <1>3, <1>5, HeadSane DEF Sane
  <2>3. DOMAIN dev' = Params /\ \A q \in Params \ {"KEY"} : dev'[q] = dev[q] \/ dev'[q] \in chosen'[q]
    BY <1>2, <2>1, <2>2
  <2>4. Copies'
    BY <1>1, <1>2, <2>1, <2>3, CopiesOK
  <2>5. RingSane'
    BY <1>1, <2>1, TailSane DEF RingSane
  <2> QED BY <2>4, <2>5 DEF NInv
<1> QED BY <1>3, <1>4, <1>5 DEF Answer

\* Every action keeps the invariant.
LEMMA ConfigSteps ==
  ASSUME Readable, NInv, [NetNext]_netVars
  PROVE  NInv'
<1>0. DOMAIN host = Params /\ DOMAIN chosen = Params /\ DOMAIN form = Params /\ DOMAIN dev = Params
      /\ CmdSlots \in Int
  BY DEF NInv, Copies, Readable
<1>1. CASE onRefresh
  <2>1. dev' = dev /\ host' = host /\ form' = form /\ chosen' = chosen /\ QueueTo(cmds, ReadAll)
    BY <1>1 DEF onRefresh
  <2>2. Copies'
    BY <1>0, <2>1, CopiesOK
  <2>3. (\E T : ReadAll \in Seq(T)) /\ \A i \in DOMAIN ReadAll : Sane(chosen', ReadAll[i])
    BY ReadsSane
  <2>4. (\E S : cmds \in Seq(S)) /\ \A i \in DOMAIN cmds : Sane(chosen', cmds[i])
    BY <2>1, StaysSane
  <2>5. RingSane'
    BY <1>0, <2>1, <2>3, <2>4, QueueSane
  <2> QED BY <2>2, <2>5 DEF NInv
<1>10. CASE checkStatus0
  BY <1>10, StatusOK DEF checkStatus0
<1>11. CASE NetStateChanges
  <2>1. PICK s, fresh, joined \in BOOLEAN : Status(s, fresh, joined)
    BY <1>11 DEF NetStateChanges
  <2> QED BY <2>1, StatusOK
<1>2. CASE readParamTimerFired
  <2>1. dev' = dev /\ host' = host /\ form' = form /\ chosen' = chosen /\ QueueTo(cmds, Polls(Polled))
    BY <1>2 DEF readParamTimerFired
  <2>2. Copies'
    BY <1>0, <2>1, CopiesOK
  <2>3. Polled \in SUBSET Params
    BY DEF Polled
  <2> DEFINE cs == Polls(Polled)
  <2>6. (\E T : cs \in Seq(T)) /\ \A i \in DOMAIN cs : Sane(chosen', cs[i])
    BY <2>3, PollsSane
  <2> HIDE DEF cs
  <2>4. (\E S : cmds \in Seq(S)) /\ \A i \in DOMAIN cmds : Sane(chosen', cmds[i])
    BY <2>1, StaysSane
  <2>5. RingSane'
    BY <1>0, <2>1, <2>4, <2>6, QueueSane DEF cs
  <2> QED BY <2>2, <2>5 DEF NInv
<1>3. CASE Answer
  BY <1>3, AnswerOK
<1>4. CASE Lost
  <2>1. dev' = dev /\ host' = host /\ form' = form /\ chosen' = chosen /\ cmds # <<>> /\ cmds' = Tail(cmds)
    BY <1>4 DEF Lost
  <2>2. Copies'
    BY <1>0, <2>1, CopiesOK
  <2>3. RingSane'
    BY <2>1, TailSane DEF RingSane
  <2> QED BY <2>2, <2>3 DEF NInv
<1>5. CASE configTimeout
  <2>1. dev' = dev /\ host' = host /\ form' = host /\ chosen' = chosen /\ cmds' = cmds
    BY <1>5 DEF configTimeout
  <2>2. Copies'
    BY <1>0, <2>1, CopiesOK
  <2> QED BY <2>1, <2>2 DEF NInv, RingSane
<1>6. ASSUME NEW p \in Settable, NEW v \in UserValues[p], setParameter(p, v) PROVE NInv'
  BY <1>6, SetOK
<1>7. ASSUME NEW p \in InForm \cup EndpointTab, NEW v \in UserValues[p], NEW opt \in SUBSET Optional,
             NEW tab \in {"network", "endpoints", "refused"}, onAccept(p, v, opt, tab)
      PROVE  NInv'
  BY <1>7, AcceptOK
<1>8. ASSUME NEW p \in Params, NEW v \in DevValues[p], DeviceChanges(p, v) PROVE NInv'
  <2>1. /\ dev' = [dev EXCEPT ![p] = v] /\ chosen' = [chosen EXCEPT ![p] = @ \cup {v}]
        /\ host' = host /\ form' = form /\ cmds' = cmds
    BY <1>8 DEF DeviceChanges
  <2>2. /\ DOMAIN dev' = Params /\ DOMAIN chosen' = Params
        /\ \A q \in Params : chosen[q] \subseteq chosen'[q]
        /\ \A q \in Params : dev'[q] = dev[q] \/ dev'[q] \in chosen'[q]
    BY <1>0, <2>1
  <2>3. Copies'
    BY <1>0, <2>1, <2>2, CopiesOK
  <2>4. RingSane'
    BY <2>1, <2>2, StaysSane DEF RingSane
  <2> QED BY <2>3, <2>4 DEF NInv
<1>9. CASE UNCHANGED netVars
  BY <1>9 DEF netVars, NInv, Copies, RingSane
<1> QED BY <1>1, <1>2, <1>3, <1>4, <1>5, <1>6, <1>7, <1>8, <1>9, <1>10, <1>11 DEF NetNext

\* Whatever users, the device, the timers and lost commands do, no value is in the device, in
\* the controller or about to be written that nobody chose, but for the network key.
THEOREM ConfigIsSound ==
  ASSUME Readable
  PROVE  NetSpec => []OnlyTheKeyIsInvented
<1>1. NetInit => NInv
  BY ConfigStarts
<1>2. NInv /\ [NetNext]_netVars => NInv'
  BY ConfigSteps
<1>3. NInv => OnlyTheKeyIsInvented
  BY DEF NInv, Copies, RingSane, Sane, OnlyTheKeyIsInvented
<1> QED BY <1>1, <1>2, <1>3, PTL DEF NetSpec
=============================================================================
