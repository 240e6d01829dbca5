------------------------- MODULE CommandQueueProofs -------------------------
(***************************************************************************)
(* Whatever the firmware answers or withholds and whatever its users ask,  *)
(* zmMaster keeps a sound ring, two commands in flight at most, and no     *)
(* connection that missed too many answers; and a single step leaves the   *)
(* commands it holds alone but for those that are answered, or given up    *)
(* and reported.                                                           *)
(*                                                                         *)
(* Every handler is an operator on Masters, so there is one lemma for each *)
(* of them: from a sound Master it leaves only sound ones.                 *)
(***************************************************************************)
EXTENDS CommandQueue, CommandRingProofs

Fields == {"state", "com", "wire", "ring", "fails", "qaps", "net", "dev", "closing", "conf",
           "ind", "free", "ipan", "ipanInd", "ipanConf", "needStatus", "timer", "quiet",
           "statusOld", "first", "out"}

\* Sound, but for the number of failures, which may have reached its limit.
Whole(m) ==
  /\ DOMAIN m = Fields
  /\ m.state \in {"OFF", "CONNECTING", "IDLE"}
  /\ m.state = "OFF" => m.com = "Off"
  /\ RingInv(m.ring) /\ m.ring.waitConfirm <= MaxUnconfirmed
  /\ m.qaps \in Seq(ApsIds)
  /\ m.fails \in Nat

Sound(m) == Whole(m) /\ (m.state # "OFF" => m.fails < MaxCommandFails)

\* What the invariant does not read may change.
SameCore(m, n) ==
  /\ DOMAIN n = DOMAIN m /\ n.state = m.state /\ n.com = m.com /\ n.ring = m.ring
  /\ n.qaps = m.qaps /\ n.fails = m.fails

LEMMA CoreOK ==
  ASSUME NEW m, NEW n, SameCore(m, n)
  PROVE  /\ Whole(m) => Whole(n)
         /\ Sound(m) => Sound(n)
BY DEF SameCore, Whole, Sound

LEMMA RingNats ==
  ASSUME NEW r, RingInv(r)
  PROVE  r.waitConfirm \in Nat /\ r.waitSend \in Nat /\ r \in Rings
BY DEF RingInv, Rings

\* A new ring that is as good as the old one.
LEMMA RingSet ==
  ASSUME NEW m, NEW r, RingInv(r), r.waitConfirm <= MaxUnconfirmed
  PROVE  /\ Whole(m) => Whole([m EXCEPT !.ring = r])
         /\ Sound(m) => Sound([m EXCEPT !.ring = r])
<1> DEFINE n == [m EXCEPT !.ring = r]
<1>1. ASSUME DOMAIN m = Fields
      PROVE  /\ DOMAIN n = Fields /\ n.ring = r /\ n.state = m.state /\ n.com = m.com
             /\ n.qaps = m.qaps /\ n.fails = m.fails
  BY <1>1 DEF Fields
<1> HIDE DEF n
<1>2. Whole(m) => Whole(n)
  BY <1>1 DEF Whole
<1>3. Sound(m) => Sound(n)
  BY <1>1, <1>2 DEF Sound, Whole
<1> QED BY <1>2, <1>3 DEF n

----------------------------------------------------------------------------
(* Queueing *)

LEMMA StartTaskTimerOK ==
  ASSUME NEW m, DOMAIN m = Fields
  PROVE  SameCore(m, StartTaskTimer(m))
BY DEF StartTaskTimer, SameCore, Fields

LEMMA NotifyOK ==
  ASSUME NEW m, DOMAIN m = Fields, NEW x
  PROVE  SameCore(m, Notify(m, x))
BY DEF Notify, SameCore, Fields

LEMMA ItemAddedOK ==
  ASSUME NEW m, Sound(m)
  PROVE  /\ Sound(ItemAdded(m)) /\ ItemAdded(m).ring = m.ring /\ ItemAdded(m).com = m.com
         /\ ItemAdded(m).qaps = m.qaps /\ ItemAdded(m).fails = m.fails
<1> USE DEF Sound, Whole
<1>1. CASE m.state = "OFF"
  BY <1>1 DEF ItemAdded
<1>2. CASE m.state = "IDLE"
  <2>1. ItemAdded(m) = StartTaskTimer(m)
    BY <1>2 DEF ItemAdded
  <2>2. SameCore(m, StartTaskTimer(m))
    BY StartTaskTimerOK
  <2> QED BY <2>1, <2>2, CoreOK DEF SameCore
<1>3. CASE m.state = "CONNECTING"
  <2> DEFINE n == [m EXCEPT !.state = "IDLE"]
  <2>1. ItemAdded(m) = n
    BY <1>3 DEF ItemAdded
  <2>2. /\ DOMAIN n = Fields /\ n.state = "IDLE" /\ n.com = m.com /\ n.ring = m.ring
        /\ n.qaps = m.qaps /\ n.fails = m.fails
    BY DEF Fields
  <2> HIDE DEF n
  <2> QED BY <1>3, <2>1, <2>2
<1> QED BY <1>1, <1>2, <1>3

LEMMA AllocatedOK ==
  ASSUME NEW m, Sound(m), HasFreeItem(m.ring)
  PROVE  /\ Sound(Allocated(m)) /\ Allocated(m).ring = QItem_Alloc(m.ring)
         /\ Allocated(m).qaps = m.qaps
<1>1. RingInv(QItem_Alloc(m.ring)) /\ QItem_Alloc(m.ring).waitConfirm = m.ring.waitConfirm
  BY AllocOK DEF Sound, Whole
<1>2. QItem_Alloc(m.ring).waitConfirm <= MaxUnconfirmed
  BY <1>1 DEF Sound, Whole
<1>3. /\ [m EXCEPT !.ring = QItem_Alloc(m.ring)].ring = QItem_Alloc(m.ring)
      /\ [m EXCEPT !.ring = QItem_Alloc(m.ring)].qaps = m.qaps
  BY DEF Sound, Whole, Fields
<1> QED BY <1>1, <1>2, <1>3, RingSet DEF Allocated

\* The item at the write pointer is free and its number is not in use.
Ready(r) == r.items[r.wp].state = "INIT" /\ r.seq \notin UsedSeqs(r)

LEMMA AllocReady ==
  ASSUME NEW r, RingInv(r), HasFreeItem(r)
  PROVE  Ready(QItem_Alloc(r))
<1>1. /\ QItem_Alloc(r).items = r.items /\ QItem_Alloc(r).seq \notin UsedSeqs(r)
      /\ QItem_Alloc(r).items[QItem_Alloc(r).wp].state = "INIT"
  BY AllocOK
<1>2. UsedSeqs(QItem_Alloc(r)) = UsedSeqs(r)
  BY <1>1 DEF UsedSeqs, Active, ToSend, InFlight, InState
<1> QED BY <1>1, <1>2 DEF Ready

LEMMA MasterEnqueueOK ==
  ASSUME NEW m, Sound(m), Ready(m.ring), NEW c \in Cmds
  PROVE  /\ Sound(Enqueue(m, c)) /\ Enqueue(m, c).state = m.state /\ Enqueue(m, c).com = m.com
         /\ Enqueue(m, c).ring.waitConfirm = m.ring.waitConfirm
         /\ Enqueue(m, c).fails = m.fails
<1> DEFINE r == QItem_Enqueue(m.ring, c)
           k == [m EXCEPT !.ring = r]
           n == Enqueue(m, c)
<1>1. RingInv(r) /\ r.waitConfirm = m.ring.waitConfirm
  BY EnqueueOK DEF Sound, Whole, Ready
<1>2. r.waitConfirm <= MaxUnconfirmed
  BY <1>1 DEF Sound, Whole
<1>3. Sound(k)
  BY <1>1, <1>2, RingSet
<1>4. /\ DOMAIN n = Fields /\ n.ring = r /\ n.state = m.state /\ n.com = m.com
      /\ n.qaps = m.qaps /\ n.fails = m.fails
  BY DEF Sound, Whole, Fields, Enqueue
<1>5. /\ DOMAIN k = Fields /\ k.ring = r /\ k.state = m.state /\ k.com = m.com
      /\ k.qaps = m.qaps /\ k.fails = m.fails
  BY DEF Sound, Whole, Fields
<1> HIDE DEF r, k, n
<1>6. SameCore(k, n)
  BY <1>4, <1>5 DEF SameCore
<1>7. Sound(n)
  BY <1>3, <1>6, CoreOK
<1> QED BY <1>1, <1>4, <1>7 DEF n, r

LEMMA AllocEnqueueOK ==
  ASSUME NEW m, Sound(m), NEW c \in Cmds
  PROVE  /\ Sound(AllocEnqueue(m, c)) /\ AllocEnqueue(m, c).state = m.state
         /\ AllocEnqueue(m, c).com = m.com
         /\ AllocEnqueue(m, c).ring.waitConfirm = m.ring.waitConfirm
         /\ AllocEnqueue(m, c).fails = m.fails
<1>1. CASE HasFreeItem(m.ring)
  <2> DEFINE a == Allocated(m)
  <2>1. Sound(a) /\ a.ring = QItem_Alloc(m.ring)
    BY <1>1, AllocatedOK
  <2>2. Ready(a.ring) /\ a.ring.waitConfirm = m.ring.waitConfirm
    BY <1>1, <2>1, AllocReady, AllocOK DEF Sound, Whole
  <2>3. a.state = m.state /\ a.com = m.com /\ a.fails = m.fails
    BY DEF Allocated, Sound, Whole, Fields
  <2> HIDE DEF a
  <2>4. /\ Sound(Enqueue(a, c)) /\ Enqueue(a, c).state = a.state /\ Enqueue(a, c).com = a.com
        /\ Enqueue(a, c).ring.waitConfirm = a.ring.waitConfirm /\ Enqueue(a, c).fails = a.fails
    BY <2>1, <2>2, MasterEnqueueOK
  <2>5. AllocEnqueue(m, c) = Enqueue(a, c)
    BY <1>1 DEF AllocEnqueue, a
  <2> QED BY <2>2, <2>3, <2>4, <2>5
<1>2. CASE ~HasFreeItem(m.ring)
  BY <1>2 DEF AllocEnqueue
<1> QED BY <1>1, <1>2

\* The commands the model queues are commands of the ring.
LEMMA CmdOK ==
  /\ \A op \in {"STATUS", "VERSION", "FEATURE", "APS_DATA_CONFIRM", "APS_DATA_INDICATION",
               "ZDO_NET_CONFIRM", "INTERPAN_INDICATION", "INTERPAN_CONFIRM"} \cup HostOps :
       Cmd(op, 0) \in Cmds
  /\ \A id \in ApsIds : Cmd("APS_DATA_REQ", id) \in Cmds
  /\ \A p \in {ParamA, ParamTC, ParamKey} : Cmd("READ_PARAM", p) \in Cmds
BY QueueAssumption DEF Cmd, Cmds

LEMMA AcceptOK ==
  ASSUME NEW m, Sound(m), NEW id \in ApsIds
  PROVE  /\ Sound(AcceptApsRequest(m, id)) /\ AcceptApsRequest(m, id).ring = m.ring
         /\ AcceptApsRequest(m, id).com = m.com /\ AcceptApsRequest(m, id).fails = m.fails
<1> DEFINE n == [m EXCEPT !.qaps = Append(m.qaps, id)]
<1>1. /\ DOMAIN n = Fields /\ n.qaps = Append(m.qaps, id) /\ n.ring = m.ring
      /\ n.state = m.state /\ n.com = m.com /\ n.fails = m.fails
  BY DEF Sound, Whole, Fields
<1>2. Append(m.qaps, id) \in Seq(ApsIds)
  BY DEF Sound, Whole
<1>3. AcceptApsRequest(m, id) = ItemAdded(n)
  BY DEF AcceptApsRequest
<1> HIDE DEF n
<1>4. Sound(n)
  BY <1>1, <1>2 DEF Sound, Whole
<1> QED BY <1>1, <1>3, <1>4, ItemAddedOK

LEMMA CommandQueueEmptyOK ==
  ASSUME NEW m, Sound(m), NEW n \in CommandQueueEmpty(m)
  PROVE  Sound(n) /\ n.ring = m.ring /\ n.com = m.com /\ n.fails = m.fails
<1>1. n = m \/ \E id \in ApsIds : n = AcceptApsRequest(m, id)
  BY DEF CommandQueueEmpty
<1> QED BY <1>1, AcceptOK

LEMMA ReadParameterOK ==
  ASSUME NEW m, Sound(m), NEW p \in {ParamA, ParamTC, ParamKey}
  PROVE  Sound(ReadParameter(m, p)) /\ ReadParameter(m, p).state = m.state
BY AllocEnqueueOK, CmdOK DEF ReadParameter

LEMMA ReadParametersOK ==
  ASSUME NEW m, Sound(m)
  PROVE  Sound(ReadParameters(m)) /\ ReadParameters(m).state = m.state
<1>1. Sound(ReadParameter(m, ParamA)) /\ ReadParameter(m, ParamA).state = m.state
  BY ReadParameterOK
<1> QED BY <1>1, ReadParameterOK DEF ReadParameters

----------------------------------------------------------------------------
(* Dropping commands and closing *)

LEMMA KillCommandOK ==
  ASSUME NEW m, DOMAIN m = Fields, NEW c, NEW st
  PROVE  SameCore(m, KillCommand(m, c, st))
BY DEF KillCommand, SameCore, Fields

LEMMA KillCommandQueueOK ==
  ASSUME NEW m, Whole(m)
  PROVE  /\ Whole(KillCommandQueue(m)) /\ KillCommandQueue(m).state = m.state
         /\ KillCommandQueue(m).fails = m.fails
<1> DEFINE n == KillCommandQueue(m)
<1>1. /\ DOMAIN n = Fields /\ n.ring = Cleared(m.ring) /\ n.qaps = <<>>
      /\ n.state = m.state /\ n.com = m.com /\ n.fails = m.fails
  BY DEF Whole, Fields, KillCommandQueue
<1>2. RingInv(Cleared(m.ring)) /\ Cleared(m.ring).waitConfirm <= MaxUnconfirmed
  BY RingNats, ClearedOK DEF Whole, MaxUnconfirmed
<1> HIDE DEF n
<1>3. Whole(n)
  BY <1>1, <1>2 DEF Whole
<1> QED BY <1>1, <1>3 DEF n

LEMMA OnDeviceDisconnectedOK ==
  ASSUME NEW m, Whole(m)
  PROVE  Sound(OnDeviceDisconnected(m)) /\ OnDeviceDisconnected(m).state = "OFF"
<1> DEFINE n == [m EXCEPT !.timer = FALSE, !.state = "OFF", !.com = "Off", !.wire = <<>>]
<1>1. /\ DOMAIN n = Fields /\ n.ring = m.ring /\ n.qaps = m.qaps
      /\ n.state = "OFF" /\ n.com = "Off" /\ n.fails = m.fails
  BY DEF Whole, Fields
<1>2. OnDeviceDisconnected(m) = KillCommandQueue(n)
  BY DEF OnDeviceDisconnected
<1> HIDE DEF n
<1>3. Whole(n)
  BY <1>1 DEF Whole
<1>4. Whole(KillCommandQueue(n)) /\ KillCommandQueue(n).state = "OFF"
  BY <1>1, <1>3, KillCommandQueueOK
<1> QED BY <1>2, <1>4 DEF Sound

LEMMA ComExitOK ==
  ASSUME NEW m, Whole(m)
  PROVE  Sound(ComExit(m)) /\ ComExit(m).state = "OFF"
<1>1. CASE m.state = "OFF"
  BY <1>1 DEF ComExit, Sound
<1>2. CASE m.state # "OFF"
  <2>1. Whole(KillCommandQueue(m))
    BY KillCommandQueueOK
  <2> QED BY <1>2, <2>1, OnDeviceDisconnectedOK DEF ComExit
<1> QED BY <1>1, <1>2

----------------------------------------------------------------------------
(* Sending *)

LEMMA MasterSendOK ==
  ASSUME NEW m, Sound(m), NEW s \in ToSend(m.ring), m.ring.waitConfirm < MaxUnconfirmed
  PROVE  Sound(QItem_Send(m, s)) /\ QItem_Send(m, s).state = m.state
<1> DEFINE r == QItem_Sent(m.ring, s)
           n == QItem_Send(m, s)
<1>1. CASE m.com = "RxTx" /\ Len(m.wire) < WireLen
  <2>1. RingInv(r) /\ r.waitConfirm = m.ring.waitConfirm + 1
    BY SentOK DEF Sound, Whole
  <2>2. r.waitConfirm <= MaxUnconfirmed
    BY <2>1, RingNats DEF Sound, Whole, MaxUnconfirmed
  <2>3. /\ DOMAIN n = Fields /\ n.ring = r /\ n.qaps = m.qaps
        /\ n.state = m.state /\ n.com = m.com /\ n.fails = m.fails
    BY <1>1 DEF Sound, Whole, Fields, QItem_Send
  <2> HIDE DEF r, n
  <2>4. Sound(n)
    BY <2>1, <2>2, <2>3 DEF Sound, Whole
  <2> QED BY <2>3, <2>4 DEF n
<1>2. CASE ~(m.com = "RxTx" /\ Len(m.wire) < WireLen)
  BY <1>2 DEF QItem_Send
<1> QED BY <1>1, <1>2

LEMMA SendNextCommandOK ==
  ASSUME NEW m, Sound(m), NEW n \in SendNextCommand(m)
  PROVE  Sound(n)
<1>1. CASE /\ Connected(m) /\ m.ring.waitSend > 0
           /\ m.ring.waitConfirm < MaxUnconfirmed /\ ToSend(m.ring) # {}
  <2> DEFINE k == QItem_Send(m, QItem_NextToSend(m.ring))
  <2>1. QItem_NextToSend(m.ring) \in ToSend(m.ring)
    BY <1>1, NextToSendOK DEF Sound, Whole
  <2>2. Sound(k)
    BY <1>1, <2>1, MasterSendOK
  <2>3. n = k \/ n \in CommandQueueEmpty(k)
    BY <1>1 DEF SendNextCommand
  <2> QED BY <2>2, <2>3, CommandQueueEmptyOK
<1>2. CASE ~ /\ Connected(m) /\ m.ring.waitSend > 0
             /\ m.ring.waitConfirm < MaxUnconfirmed /\ ToSend(m.ring) # {}
  BY <1>2 DEF SendNextCommand
<1> QED BY <1>1, <1>2

LEMMA EnqueueStatusOK ==
  ASSUME NEW m, Sound(m)
  PROVE  Sound(EnqueueStatus(m))
BY AllocEnqueueOK, CmdOK DEF EnqueueStatus

LEMMA QueApsDataConfirmOK ==
  ASSUME NEW m, Sound(m)
  PROVE  Sound(QueApsDataConfirm(m))
<1> DEFINE n == [m EXCEPT !.conf = FALSE]
<1>1. SameCore(m, n)
  BY DEF SameCore, Sound, Whole, Fields
<1>2. QueApsDataConfirm(m) = n \/ QueApsDataConfirm(m) = AllocEnqueue(n, Cmd("APS_DATA_CONFIRM", 0))
  BY DEF QueApsDataConfirm
<1> HIDE DEF n
<1>3. Sound(n)
  BY <1>1, CoreOK
<1> QED BY <1>2, <1>3, AllocEnqueueOK, CmdOK

LEMMA QueApsDataIndicationOK ==
  ASSUME NEW m, Sound(m)
  PROVE  Sound(QueApsDataIndication(m))
<1> DEFINE n == [m EXCEPT !.ind = FALSE]
<1>1. SameCore(m, n)
  BY DEF SameCore, Sound, Whole, Fields
<1>2. \/ QueApsDataIndication(m) = n
      \/ QueApsDataIndication(m) = AllocEnqueue(n, Cmd("APS_DATA_INDICATION", 0))
  BY DEF QueApsDataIndication
<1> HIDE DEF n
<1>3. Sound(n)
  BY <1>1, CoreOK
<1> QED BY <1>2, <1>3, AllocEnqueueOK, CmdOK

LEMMA QueInterpanOK ==
  ASSUME NEW m, Sound(m)
  PROVE  Sound(QueInterpan(m))
<1> DEFINE n == [m EXCEPT !.ipanInd = FALSE]
           k == [m EXCEPT !.ipanConf = FALSE]
<1>1. SameCore(m, n) /\ SameCore(m, k)
  BY DEF SameCore, Sound, Whole, Fields
<1>2. \/ QueInterpan(m) = AllocEnqueue(n, Cmd("INTERPAN_INDICATION", 0))
      \/ QueInterpan(m) = AllocEnqueue(k, Cmd("INTERPAN_CONFIRM", 0))
      \/ QueInterpan(m) = m
  <2>1. CASE m.ipanInd /\ HasFreeItem(m.ring)
    BY <2>1 DEF QueInterpan
  <2>2. CASE ~m.ipanInd /\ m.ipanConf /\ HasFreeItem(m.ring)
    BY <2>2 DEF QueInterpan
  <2>3. CASE ~(m.ipanInd /\ HasFreeItem(m.ring)) /\ ~(~m.ipanInd /\ m.ipanConf /\ HasFreeItem(m.ring))
    BY <2>3 DEF QueInterpan
  <2> QED BY <2>1, <2>2, <2>3
<1> HIDE DEF n, k
<1>3. Sound(n) /\ Sound(k)
  BY <1>1, CoreOK
<1> QED BY <1>2, <1>3, AllocEnqueueOK, CmdOK

\* The item stays free while the controller is called.
LEMMA QueNextApsDataRequestOK ==
  ASSUME NEW m, Sound(m), ~QAPS_Empty(m), NEW n \in QueNextApsDataRequest(m)
  PROVE  Sound(n)
<1>1. CASE ~HasFreeItem(m.ring)
  BY <1>1 DEF QueNextApsDataRequest
<1>2. CASE HasFreeItem(m.ring)
  <2> DEFINE a == Allocated(m)
             p == [a EXCEPT !.qaps = Tail(a.qaps)]
             id == Head(m.qaps)
  <2>1. Sound(a) /\ a.ring = QItem_Alloc(m.ring) /\ a.qaps = m.qaps
    BY <1>2, AllocatedOK
  <2>2. id \in ApsIds /\ Tail(a.qaps) \in Seq(ApsIds)
    BY <2>1 DEF Sound, Whole, QAPS_Empty
  <2>3. Ready(a.ring)
    BY <1>2, <2>1, AllocReady DEF Sound, Whole
  <2>4. \/ n \in CommandQueueEmpty(p)
        \/ \E k \in CommandQueueEmpty(p) :
             \/ n = Notify(k, Notice("apsdeDataRequestDone", id, "ERROR"))
             \/ n = Enqueue([k EXCEPT !.free = FALSE], Cmd("APS_DATA_REQ", id))
    BY <1>2 DEF QueNextApsDataRequest
  <2> HIDE DEF a, id
  <2>5. /\ DOMAIN p = Fields /\ p.ring = a.ring /\ p.qaps = Tail(a.qaps)
        /\ p.state = a.state /\ p.com = a.com /\ p.fails = a.fails
    BY <2>1 DEF Sound, Whole, Fields
  <2> HIDE DEF p
  <2>6. Sound(p)
    BY <2>1, <2>2, <2>5 DEF Sound, Whole
  <2>7. ASSUME NEW k \in CommandQueueEmpty(p)
        PROVE  /\ Sound(k)
               /\ Sound(Notify(k, Notice("apsdeDataRequestDone", id, "ERROR")))
               /\ Sound(Enqueue([k EXCEPT !.free = FALSE], Cmd("APS_DATA_REQ", id)))
    <3> DEFINE f == [k EXCEPT !.free = FALSE]
    <3>1. Sound(k) /\ k.ring = p.ring
      BY <2>6, CommandQueueEmptyOK
    <3>2. SameCore(k, f) /\ SameCore(k, Notify(k, Notice("apsdeDataRequestDone", id, "ERROR")))
      BY <3>1, NotifyOK DEF SameCore, Sound, Whole, Fields
    <3> HIDE DEF f
    <3>3. Sound(f) /\ Ready(f.ring)
      BY <2>3, <2>5, <3>1, <3>2, CoreOK DEF SameCore
    <3>4. Sound(Enqueue(f, Cmd("APS_DATA_REQ", id)))
      BY <2>2, <3>3, MasterEnqueueOK, CmdOK
    <3> QED BY <3>1, <3>2, <3>4, CoreOK DEF f
  <2> QED BY <2>4, <2>7
<1> QED BY <1>1, <1>2

LEMMA ProcessQueueOK ==
  ASSUME NEW m, Sound(m), NEW n \in ProcessQueue(m)
  PROVE  Sound(n)
<1>1. \/ n = m
      \/ n = [EnqueueStatus(m) EXCEPT !.conf = FALSE, !.ind = FALSE, !.free = FALSE,
                                      !.needStatus = FALSE]
      \/ n = QueApsDataConfirm(m)
      \/ n = QueApsDataIndication(m)
      \/ n = QueInterpan(m)
      \/ ~QAPS_Empty(m) /\ \E k \in QueNextApsDataRequest(m) : n = QueInterpan(k)
  <2>1. CASE m.needStatus
    BY <2>1 DEF ProcessQueue
  <2>2. CASE ~m.needStatus /\ (m.ring.waitSend >= NSlots \/ m.ring.waitConfirm >= MaxUnconfirmed)
    BY <2>2 DEF ProcessQueue
  <2>3. CASE ~m.needStatus /\ ~(m.ring.waitSend >= NSlots \/ m.ring.waitConfirm >= MaxUnconfirmed)
    BY <2>3 DEF ProcessQueue
  <2> QED BY <2>1, <2>2, <2>3
<1>2. ASSUME n = [EnqueueStatus(m) EXCEPT !.conf = FALSE, !.ind = FALSE, !.free = FALSE,
                                          !.needStatus = FALSE]
      PROVE  Sound(n)
  <2> DEFINE e == EnqueueStatus(m)
  <2>1. Sound(e)
    BY EnqueueStatusOK
  <2>2. SameCore(e, n)
    BY <1>2, <2>1 DEF SameCore, Sound, Whole, Fields
  <2> HIDE DEF e
  <2> QED BY <2>1, <2>2, CoreOK
<1>3. ASSUME NEW k \in QueNextApsDataRequest(m), ~QAPS_Empty(m), n = QueInterpan(k)
      PROVE  Sound(n)
  BY <1>3, QueNextApsDataRequestOK, QueInterpanOK
<1> QED BY <1>1, <1>2, <1>3, QueApsDataConfirmOK, QueApsDataIndicationOK, QueInterpanOK

LEMMA ProcessAndSendOK ==
  ASSUME NEW m, Sound(m), NEW n \in ProcessAndSend(m)
  PROVE  Sound(n)
<1>1. \E k \in ProcessQueue(m) : \E l \in SendNextCommand(k) : n = l \/ n = StartTaskTimer(l)
  BY DEF ProcessAndSend
<1>2. PICK k \in ProcessQueue(m) :
           \E l \in SendNextCommand(k) : n = l \/ n = StartTaskTimer(l)
  BY <1>1
<1>3. PICK l \in SendNextCommand(k) : n = l \/ n = StartTaskTimer(l)
  BY <1>2
<1>4. Sound(l)
  BY ProcessQueueOK, SendNextCommandOK
<1>5. SameCore(l, StartTaskTimer(l))
  BY <1>4, StartTaskTimerOK DEF Sound, Whole
<1> QED BY <1>3, <1>4, <1>5, CoreOK

----------------------------------------------------------------------------
(* Timeouts *)

LEMMA NewestOK ==
  ASSUME NEW r, r \in Rings, NEW S, S \subseteq Slots, S # {}
  PROVE  Newest(r, S) \in S
<1> DEFINE Back(s) == (r.wp - 1 - s) % NSlots
           T == {Back(s) : s \in S}
<1>1. \A s \in Slots : Back(s) \in Nat
  BY RingAssumption DEF Slots, Rings
<1> HIDE DEF Back
<1>2. T \in SUBSET Nat /\ T # {}
  BY <1>1
<1>3. PICK x \in T : \A y \in T : x <= y
  BY <1>2, NatMin
<1>4. \E s \in S : \A t \in S : Back(s) <= Back(t)
  BY <1>3
<1>5. Newest(r, S) = CHOOSE s \in S : \A t \in S : Back(s) <= Back(t)
  BY DEF Newest, Back
<1> QED BY <1>4, <1>5

\* A command is given up: the connection with it when that was once too often.
LEMMA GiveUpOK ==
  ASSUME NEW m, Sound(m), NEW s \in InFlight(m.ring), NEW n \in GiveUp(m, s)
  PROVE  Sound(n)
<1> DEFINE c == m.ring.items[s].cmd
           killed == KillCommand(m, c, "TIMEOUT")
           Freed(k) == [k EXCEPT !.ring = QItem_Free(k.ring, s), !.fails = k.fails + 1]
<1>1. \E k \in CommandQueueEmpty(killed) :
         n = IF Freed(k).fails >= MaxCommandFails THEN ComExit(Freed(k)) ELSE Freed(k)
  <2>1. killed \in CommandQueueEmpty(killed)
    BY DEF CommandQueueEmpty
  <2>2. CASE c.op = "APS_DATA_REQ"
    BY <2>2 DEF GiveUp
  <2>3. CASE c.op # "APS_DATA_REQ"
    BY <2>1, <2>3 DEF GiveUp
  <2> QED BY <2>2, <2>3
<1>2. SameCore(m, killed)
  BY KillCommandOK DEF Sound, Whole
<1> HIDE DEF killed
<1>3. Sound(killed) /\ killed.ring = m.ring
  BY <1>2, CoreOK DEF SameCore
<1>4. PICK k \in CommandQueueEmpty(killed) :
         n = IF Freed(k).fails >= MaxCommandFails THEN ComExit(Freed(k)) ELSE Freed(k)
  BY <1>1
<1>5. Sound(k) /\ k.ring = m.ring
  BY <1>3, CommandQueueEmptyOK
<1> DEFINE r == QItem_Free(k.ring, s)
           f == Freed(k)
<1>6. RingInv(r) /\ r.waitConfirm <= MaxUnconfirmed
  <2>1. s \in Active(k.ring) /\ RingInv(k.ring) /\ k.ring.waitConfirm <= MaxUnconfirmed
    BY <1>5 DEF Active, Sound, Whole
  <2>2. RingInv(r) /\ r.waitConfirm = k.ring.waitConfirm - Ind(k.ring.items[s].state, "WAIT_CONFIRM")
    BY <2>1, FreeOK
  <2>3. Ind(k.ring.items[s].state, "WAIT_CONFIRM") \in 0 .. 1 /\ k.ring.waitConfirm \in Nat
    BY <2>1, RingNats DEF Ind
  <2> QED BY <2>1, <2>2, <2>3 DEF MaxUnconfirmed
<1>7. /\ DOMAIN f = Fields /\ f.ring = r /\ f.qaps = k.qaps
      /\ f.state = k.state /\ f.com = k.com /\ f.fails = k.fails + 1
  BY <1>5 DEF Sound, Whole, Fields
<1> HIDE DEF r, f
<1>8. Whole(f)
  BY <1>5, <1>6, <1>7 DEF Sound, Whole
<1>9. n = IF f.fails >= MaxCommandFails THEN ComExit(f) ELSE f
  BY <1>4 DEF f
<1>10. CASE f.fails >= MaxCommandFails
  BY <1>8, <1>9, <1>10, ComExitOK
<1>11. CASE ~(f.fails >= MaxCommandFails)
  <2>1. f.fails < MaxCommandFails
    BY <1>8, <1>11, QueueAssumption DEF Whole
  <2> QED BY <1>8, <1>9, <1>11, <2>1 DEF Sound
<1> QED BY <1>10, <1>11

\* A command whose answer is late is sent again, in its own place in flight.
LEMMA SentAgainOK ==
  ASSUME NEW m, Sound(m), NEW s \in InFlight(m.ring), m.ring.items[s].retries < MaxSendRetry
  PROVE  Sound(QItem_Send([m EXCEPT !.ring = Requeue(m.ring, s)], s))
<1> DEFINE r == Requeue(m.ring, s)
           k == [m EXCEPT !.ring = r]
<1>1. RingInv(r) /\ s \in ToSend(r) /\ r.waitConfirm = m.ring.waitConfirm - 1
  BY RequeueOK DEF Sound, Whole
<1>2. m.ring.waitConfirm \in Nat /\ m.ring.waitConfirm <= MaxUnconfirmed
  BY RingNats DEF Sound, Whole
<1> HIDE DEF r
<1>3. r.waitConfirm < MaxUnconfirmed /\ r.waitConfirm <= MaxUnconfirmed
  BY <1>1, <1>2 DEF MaxUnconfirmed
<1>4. Sound(k) /\ k.ring = r
  BY <1>1, <1>3, RingSet DEF Sound, Whole, Fields
<1> HIDE DEF k
<1>5. Sound(QItem_Send(k, s))
  BY <1>1, <1>3, <1>4, MasterSendOK
<1> QED BY <1>5 DEF k, r

LEMMA VisitLateOK ==
  ASSUME NEW m, Sound(m), NEW s \in InFlight(m.ring), NEW n \in VisitLate(m, s)
  PROVE  Sound(n)
<1>1. m.ring.items[s] \in Items
  BY DEF Sound, Whole, RingInv, Rings, InFlight, InState
<1>2. CASE ~m.ring.items[s].late
  BY <1>2 DEF VisitLate
<1>3. CASE m.ring.items[s].late /\ m.ring.items[s].retries >= MaxSendRetry
  BY <1>3, GiveUpOK DEF VisitLate
<1>4. CASE m.ring.items[s].late /\ ~(m.ring.items[s].retries >= MaxSendRetry)
  <2>1. m.ring.items[s].retries < MaxSendRetry
    BY <1>1, <1>4 DEF Items, MaxSendRetry
  <2>2. n = QItem_Send([m EXCEPT !.ring = Requeue(m.ring, s)], s)
    BY <1>4 DEF VisitLate
  <2> QED BY <2>1, <2>2, SentAgainOK
<1> QED BY <1>2, <1>3, <1>4

LEMMA HandleTimeoutsOK ==
  ASSUME NEW m, Sound(m), NEW n \in HandleTimeouts(m)
  PROVE  Sound(n)
<1>1. CASE m.ring.waitConfirm = 0 \/ InFlight(m.ring) = {}
  BY <1>1 DEF HandleTimeouts
<1>2. CASE ~(m.ring.waitConfirm = 0 \/ InFlight(m.ring) = {})
  <2> DEFINE a == Newest(m.ring, InFlight(m.ring))
             Rest(k) == InFlight(k.ring) \ {a}
  <2>1. a \in InFlight(m.ring)
    BY <1>2, NewestOK DEF Sound, Whole, RingInv, InFlight, InState
  <2>2. \E k \in VisitLate(m, a) :
          n \in IF k.state = "OFF" \/ k.ring.waitConfirm <= 1 \/ Rest(k) = {} THEN {k}
                ELSE VisitLate(k, Newest(k.ring, Rest(k)))
    BY <1>2 DEF HandleTimeouts
  <2> HIDE DEF a
  <2>3. PICK k \in VisitLate(m, a) :
          n \in IF k.state = "OFF" \/ k.ring.waitConfirm <= 1 \/ Rest(k) = {} THEN {k}
                ELSE VisitLate(k, Newest(k.ring, Rest(k)))
    BY <2>2
  <2>4. Sound(k)
    BY <2>1, VisitLateOK
  <2>5. CASE k.state = "OFF" \/ k.ring.waitConfirm <= 1 \/ Rest(k) = {}
    BY <2>3, <2>4, <2>5
  <2>6. CASE ~(k.state = "OFF" \/ k.ring.waitConfirm <= 1 \/ Rest(k) = {})
    <3>1. Rest(k) \subseteq Slots /\ Rest(k) # {} /\ k.ring \in Rings
      BY <2>4, <2>6 DEF Sound, Whole, RingInv, InFlight, InState
    <3>2. Newest(k.ring, Rest(k)) \in InFlight(k.ring)
      BY <3>1, NewestOK
    <3>3. n \in VisitLate(k, Newest(k.ring, Rest(k)))
      BY <2>3, <2>6
    <3> QED BY <2>4, <2>6, <3>2, <3>3, VisitLateOK
  <2> QED BY <2>5, <2>6
<1> QED BY <1>1, <1>2

LEMMA OnTimerOK ==
  ASSUME NEW m, Sound(m), NEW n \in OnTimer(m)
  PROVE  Sound(n)
<1>1. ASSUME NEW k \in Poll(m)
      PROVE  Sound(Proceed(k))
  <2> DEFINE asked == [m EXCEPT !.needStatus = TRUE]
  <2>1. k = m \/ k = asked \/ k \in CommandQueueEmpty(asked)
    <3>1. CASE m.ring.waitConfirm > 0
      <4>1. ~(m.ring.waitConfirm = 0)
        BY <3>1
      <4> QED BY <3>1, <4>1 DEF Poll
    <3>2. CASE m.ring.waitConfirm = 0 /\ m.statusOld
      <4>1. ~(m.ring.waitConfirm > 0)
        BY <3>2
      <4> QED BY <3>2, <4>1 DEF Poll
    <3>3. CASE ~(m.ring.waitConfirm > 0) /\ ~(m.ring.waitConfirm = 0 /\ m.statusOld)
      BY <3>3 DEF Poll
    <3> QED BY <3>1, <3>2, <3>3
  <2>2. SameCore(m, asked)
    BY DEF SameCore, Sound, Whole, Fields
  <2> HIDE DEF asked
  <2>3. Sound(asked)
    BY <2>2, CoreOK
  <2>4. Sound(k)
    BY <2>1, <2>3, CommandQueueEmptyOK
  <2>5. SameCore(k, StartTaskTimer(k))
    BY <2>4, StartTaskTimerOK DEF Sound, Whole
  <2> QED BY <2>4, <2>5, CoreOK DEF Proceed
<1>2. n \in HandleTimeouts(m) \/ \E k \in Poll(m) : n \in HandleTimeouts(Proceed(k))
  BY DEF OnTimer
<1> QED BY <1>1, <1>2, HandleTimeoutsOK

----------------------------------------------------------------------------
(* Packets *)

LEMMA SetDeviceStateOK ==
  ASSUME NEW m, Sound(m), NEW net
  PROVE  Sound(SetDeviceState(m, net)) /\ SetDeviceState(m, net).state = m.state
<1> DEFINE n == [m EXCEPT !.dev = net]
<1>1. SameCore(m, n)
  BY DEF SameCore, Sound, Whole, Fields
<1>2. SetDeviceState(m, net) = m \/ SetDeviceState(m, net) = ReadParameters(n)
  BY DEF SetDeviceState
<1> HIDE DEF n
<1>3. Sound(n) /\ n.state = m.state
  BY <1>1, CoreOK DEF SameCore
<1> QED BY <1>2, <1>3, ReadParametersOK

LEMMA CheckStatus0OK ==
  ASSUME NEW m, Sound(m), NEW st
  PROVE  Sound(CheckStatus0(m, st))
<1> DEFINE n == [m EXCEPT !.net = st.net, !.conf = st.conf, !.ind = st.ind, !.free = st.free]
           k == IF st.config THEN ReadParameters(n) ELSE n
           d == SetDeviceState(k, k.net)
<1>1. SameCore(m, n)
  BY DEF SameCore, Sound, Whole, Fields
<1>2. CheckStatus0(m, st) = IF st.net # m.net THEN NetChanged(k, m.net) ELSE k
  BY DEF CheckStatus0
<1> HIDE DEF n
<1>3. Sound(n)
  BY <1>1, CoreOK
<1>4. Sound(k)
  BY <1>3, ReadParametersOK
<1> HIDE DEF k
<1>5. Sound(d)
  BY <1>4, SetDeviceStateOK
<1>6. \/ NetChanged(k, m.net) = d
      \/ NetChanged(k, m.net) = ReadParameters(d)
      \/ NetChanged(k, m.net) = AllocEnqueue(d, Cmd("ZDO_NET_CONFIRM", 0))
  <2>1. CASE k.net = "ONLINE" /\ m.net = "JOINING"
    BY <2>1 DEF NetChanged
  <2>2. CASE k.net = "OFFLINE" /\ m.net = "JOINING"
    BY <2>2 DEF NetChanged
  <2>3. CASE ~(k.net = "ONLINE" /\ m.net = "JOINING") /\ ~(k.net = "OFFLINE" /\ m.net = "JOINING")
    BY <2>3 DEF NetChanged
  <2> QED BY <2>1, <2>2, <2>3
<1> HIDE DEF d
<1>7. Sound(NetChanged(k, m.net))
  BY <1>5, <1>6, ReadParametersOK, AllocEnqueueOK, CmdOK
<1> QED BY <1>2, <1>4, <1>7

LEMMA CheckStatus1OK ==
  ASSUME NEW m, Sound(m), NEW st
  PROVE  Sound(CheckStatus1(m, st))
<1> DEFINE n == [m EXCEPT !.ipan = st.ipan, !.ipanInd = st.ipanInd, !.ipanConf = st.ipanConf]
           told == Notify(n, Notice("startInterpanModeConfirm", 0,
                                    IF st.ipan = "CONNECTED" THEN "SUCCESS" ELSE "FAILED"))
<1>1. SameCore(m, n)
  BY DEF SameCore, Sound, Whole, Fields
<1>2. CheckStatus1(m, st) \in {m, n, told}
  BY DEF CheckStatus1
<1> HIDE DEF n
<1>3. Sound(n)
  BY <1>1, CoreOK
<1>4. SameCore(n, told)
  BY <1>3, NotifyOK DEF Sound, Whole
<1> QED BY <1>2, <1>3, <1>4, CoreOK

LEMMA GreetOK ==
  ASSUME NEW m, Sound(m)
  PROVE  Sound(Greet(m))
<1> DEFINE Ask(n, op) == IF Connected(n) /\ HasFreeItem(n.ring)
                         THEN ItemAdded(AllocEnqueue(n, Cmd(op, 0))) ELSE n
           a == Ask(m, "VERSION")
           b == Ask(a, "FEATURE")
<1>1. ASSUME NEW n, Sound(n), NEW op \in {"VERSION", "FEATURE"}
      PROVE  Sound(Ask(n, op))
  <2>1. Sound(AllocEnqueue(n, Cmd(op, 0)))
    BY <1>1, AllocEnqueueOK, CmdOK
  <2>2. Sound(ItemAdded(AllocEnqueue(n, Cmd(op, 0))))
    BY <2>1, ItemAddedOK
  <2> QED BY <1>1, <2>2
<1>2. Greet(m) = IF m.first THEN [b EXCEPT !.first = FALSE] ELSE m
  BY DEF Greet
<1> HIDE DEF Ask
<1>3. Sound(a)
  BY <1>1
<1> HIDE DEF a
<1>4. Sound(b)
  BY <1>1, <1>3
<1> HIDE DEF b
<1>5. SameCore(b, [b EXCEPT !.first = FALSE])
  BY <1>4 DEF SameCore, Sound, Whole, Fields
<1> QED BY <1>2, <1>4, <1>5, CoreOK

LEMMA ConfirmedOK ==
  ASSUME NEW m, Sound(m), NEW p
  PROVE  Sound(Confirmed(m, p))
<1> DEFINE r == QItem_Confirm(m.ring, p.op, p.seq)
           f == IF Confirms(m.ring, p.op, p.seq) = {} THEN m.fails ELSE 0
           n == [m EXCEPT !.ring = r, !.fails = f]
           k == [n EXCEPT !.quiet = n.quiet \/ n.ring.waitConfirm = 0]
<1>1. RingInv(r) /\ r.waitConfirm <= m.ring.waitConfirm
  BY ConfirmOK DEF Sound, Whole
<1>2. r.waitConfirm <= MaxUnconfirmed
  BY <1>1, RingNats DEF Sound, Whole, MaxUnconfirmed
<1>3. /\ f \in Nat /\ (m.state # "OFF" => f < MaxCommandFails)
  BY QueueAssumption DEF Sound, Whole
<1>4. Confirmed(m, p) = k
  BY DEF Confirmed
<1> HIDE DEF r, f
<1>5. /\ DOMAIN n = Fields /\ n.ring = r /\ n.qaps = m.qaps
      /\ n.state = m.state /\ n.com = m.com /\ n.fails = f
  BY DEF Sound, Whole, Fields
<1> HIDE DEF n
<1>6. Sound(n)
  BY <1>1, <1>2, <1>3, <1>5 DEF Sound, Whole
<1>7. SameCore(n, k)
  BY <1>5 DEF SameCore, Fields
<1> QED BY <1>4, <1>6, <1>7, CoreOK

LEMMA DispatchOK ==
  ASSUME NEW m, Sound(m), NEW p, NEW n \in Dispatch(m, p)
  PROVE  Sound(n)
<1> DEFINE answered == [CheckStatus0(m, p.st) EXCEPT !.needStatus = FALSE]
           answered1 == CheckStatus1(answered, p.st)
<1>1. Sound(answered)
  <2> DEFINE c == CheckStatus0(m, p.st)
  <2>1. Sound(c)
    BY CheckStatus0OK
  <2> HIDE DEF c
  <2>2. SameCore(c, [c EXCEPT !.needStatus = FALSE])
    BY <2>1 DEF SameCore, Sound, Whole, Fields
  <2>3. Sound([c EXCEPT !.needStatus = FALSE])
    BY <2>1, <2>2, CoreOK
  <2> QED BY <2>3 DEF c
<1> HIDE DEF answered
<1>2. Sound(answered1)
  BY <1>1, CheckStatus1OK
<1> HIDE DEF answered1
<1>3. ASSUME NEW k, Sound(k), NEW x
      PROVE  Sound(Notify(k, x))
  BY <1>3, NotifyOK, CoreOK DEF Sound, Whole
<1>4. ASSUME NEW k, Sound(k)
      PROVE  /\ Sound([k EXCEPT !.statusOld = FALSE]) /\ Sound([k EXCEPT !.needStatus = TRUE])
             /\ Sound([k EXCEPT !.ipan = "CONNECTING"])
  <2>1. /\ SameCore(k, [k EXCEPT !.statusOld = FALSE]) /\ SameCore(k, [k EXCEPT !.needStatus = TRUE])
        /\ SameCore(k, [k EXCEPT !.ipan = "CONNECTING"])
    BY <1>4 DEF SameCore, Sound, Whole, Fields
  <2> QED BY <1>4, <2>1, CoreOK
<1>5. CASE p.op \in {"STATUS", "STATUS_CHANGE"}
  <2>1. n = [answered1 EXCEPT !.statusOld = FALSE]
    BY <1>5 DEF Dispatch, StatusDone, Answered1, Answered, answered, answered1
  <2> QED BY <1>2, <1>4, <2>1
<1>6. CASE p.op = "VERSION"
  <2>1. n = [m EXCEPT !.needStatus = TRUE]
    BY <1>6 DEF Dispatch, StatusDone, Answered1, Answered
  <2> QED BY <1>4, <2>1
<1>7. CASE p.op = "APS_DATA_REQ"
  <2>1. n = answered \/ n = Notify(answered, Notice("apsdeDataRequestDone", p.arg, "SUCCESS"))
    BY <1>7 DEF Dispatch, ApsDone, Answered, answered
  <2> QED BY <1>1, <1>3, <2>1
<1>8. CASE p.op = "APS_DATA_CONFIRM"
  <2>1. n = answered \/ n \in CommandQueueEmpty(answered)
    BY <1>8 DEF Dispatch, ApsDone, Answered, answered
  <2> QED BY <1>1, <2>1, CommandQueueEmptyOK
<1>9. CASE p.op = "APS_DATA_INDICATION"
  <2>1. n = answered \/ \E k \in Indicate(answered) : n \in CommandQueueEmpty(k)
    BY <1>9 DEF Dispatch, ApsDone, Answered, answered
  <2>2. \A k \in Indicate(answered) : Sound(k)
    BY <1>1, SetDeviceStateOK DEF Indicate
  <2> QED BY <1>1, <2>1, <2>2, CommandQueueEmptyOK
<1>10. CASE p.op = "INTERPAN_INDICATION"
  BY <1>2, <1>10 DEF Dispatch, IpanDone, Answered1, Answered, answered, answered1
<1>11. CASE p.op = "INTERPAN_CONFIRM"
  <2>1. \E x : n = Notify(answered1, x)
    BY <1>11 DEF Dispatch, IpanDone, Answered1, Answered, answered, answered1
  <2> QED BY <1>2, <1>3, <2>1
<1>12. CASE p.op = "START_INTERPAN_MODE"
  <2>1. n = [m EXCEPT !.ipan = "CONNECTING"] \/ \E x : n = Notify(m, x)
    BY <1>12 DEF Dispatch, IpanDone, Answered1, Answered
  <2> QED BY <1>3, <1>4, <2>1
<1>13. CASE p.op \in {"SEND_INTERPAN_REQ", "WRITE_PARAM"}
  <2>1. n = m \/ \E x : n = Notify(m, x)
    BY <1>13 DEF Dispatch, ParamDone, IpanDone
  <2> QED BY <1>3, <2>1
<1>14. CASE p.op = "READ_PARAM"
  <2>1. \E x : n = Notify(m, x) \/ n = Notify(ReadParameter(m, ParamKey), x)
    BY <1>14 DEF Dispatch, ParamDone
  <2>2. Sound(ReadParameter(m, ParamKey))
    BY ReadParameterOK
  <2> QED BY <1>3, <2>1, <2>2
<1>15. CASE p.op \notin {"STATUS", "STATUS_CHANGE", "VERSION", "APS_DATA_REQ", "APS_DATA_CONFIRM",
                         "APS_DATA_INDICATION", "INTERPAN_INDICATION", "INTERPAN_CONFIRM",
                         "START_INTERPAN_MODE", "SEND_INTERPAN_REQ", "WRITE_PARAM", "READ_PARAM"}
  BY <1>15 DEF Dispatch
<1> QED BY <1>5, <1>6, <1>7, <1>8, <1>9, <1>10, <1>11, <1>12, <1>13, <1>14, <1>15

LEMMA ProcessPackedOK ==
  ASSUME NEW m, Sound(m), NEW p, NEW n \in ProcessPacked(m, p)
  PROVE  Sound(n)
<1>1. n = m \/ \E k \in Dispatch(Greet(Confirmed(m, p)), p) : n = k \/ n = StartTaskTimer(k)
  BY DEF ProcessPacked
<1>2. ASSUME NEW k \in Dispatch(Greet(Confirmed(m, p)), p)
      PROVE  Sound(k) /\ Sound(StartTaskTimer(k))
  <2>1. Sound(Greet(Confirmed(m, p)))
    BY ConfirmedOK, GreetOK
  <2>2. Sound(k)
    BY <2>1, DispatchOK
  <2>3. SameCore(k, StartTaskTimer(k))
    BY <2>2, StartTaskTimerOK DEF Sound, Whole
  <2> QED BY <2>2, <2>3, CoreOK
<1> QED BY <1>1, <1>2

----------------------------------------------------------------------------
(* The invariant *)

Inv == Sound(Master)

LEMMA InitOK == Init => Inv
<1> SUFFICES ASSUME Init PROVE Inv
  OBVIOUS
<1>1. /\ DOMAIN Master = Fields /\ Master.state = "OFF" /\ Master.com = "Off"
      /\ Master.ring = EmptyRing /\ Master.fails = 0 /\ Master.qaps = <<>>
  BY DEF Init, Fields
<1>2. RingInv(Master.ring) /\ Master.ring.waitConfirm <= MaxUnconfirmed
  BY <1>1, EmptyOK DEF MaxUnconfirmed
<1>3. Master.qaps \in Seq(ApsIds)
  BY <1>1
<1> QED BY <1>1, <1>2, <1>3 DEF Inv, Sound, Whole

\* Time makes answers late and changes nothing else of the ring.
LEMMA PassOK ==
  ASSUME Inv, NEW d \in Durations, Pass(d)
  PROVE  Inv'
<1> DEFINE r == Master.ring
           Late(s) == IF d >= 500 /\ r.items[s].state = "WAIT_CONFIRM"
                      THEN [r.items[s] EXCEPT !.late = TRUE] ELSE r.items[s]
           t == [r EXCEPT !.items = [s \in Slots |-> Late(s)]]
<1>1. r \in Rings /\ CountersExact(r) /\ SeqsDiffer(r) /\ r.waitConfirm <= MaxUnconfirmed
  BY DEF Inv, Sound, Whole, RingInv
<1>2. /\ DOMAIN Master' = Fields /\ Master'.ring = t /\ Master'.state = Master.state
      /\ Master'.com = Master.com /\ Master'.fails = Master.fails /\ Master'.qaps = Master.qaps
  BY DEF Inv, Sound, Whole, Fields, Pass, Quietly
<1>3. \A s \in Slots : Late(s) \in Items /\ Late(s).state = r.items[s].state
                       /\ Late(s).seq = r.items[s].seq
  <2> TAKE s \in Slots
  <2>1. r.items[s] \in Items
    BY <1>1 DEF Rings
  <2> QED BY <2>1 DEF Items
<1> HIDE DEF Late
<1>4. t \in Rings /\ t.waitSend = r.waitSend /\ t.waitConfirm = r.waitConfirm
  BY <1>1, <1>3 DEF Rings
<1>5. \A s \in Slots : t.items[s].state = r.items[s].state /\ t.items[s].seq = r.items[s].seq
  BY <1>1, <1>3 DEF Rings
<1> HIDE DEF t, r
<1>6. ToSend(t) = ToSend(r) /\ InFlight(t) = InFlight(r) /\ Active(t) = Active(r) /\ Active(r) \subseteq Slots
  BY <1>5 DEF ToSend, InFlight, Active, InState
<1>7. RingInv(t)
  BY <1>1, <1>4, <1>5, <1>6 DEF RingInv, CountersExact, SeqsDiffer
<1> QED BY <1>1, <1>2, <1>4, <1>7 DEF Inv, Sound, Whole, r

LEMMA NextOK == Inv /\ [Next]_Master => Inv'
<1> SUFFICES ASSUME Inv, [Next]_Master PROVE Inv'
  OBVIOUS
<1> DEFINE q == Quietly
<1>1. Sound(Master) /\ SameCore(Master, q)
  BY DEF Inv, Sound, Whole, SameCore, Fields, Quietly
<1> HIDE DEF q
<1>2. /\ Sound(q) /\ q.state = Master.state /\ q.com = Master.com
      /\ q.ring = Master.ring /\ q.qaps = Master.qaps /\ DOMAIN q = Fields
  BY <1>1, CoreOK DEF SameCore, Sound, Whole
<1>3. CASE OpenSerial
  <2>1. Master' = [q EXCEPT !.state = "CONNECTING", !.com = "Opening", !.first = TRUE,
                            !.quiet = TRUE, !.statusOld = TRUE, !.fails = 0]
    BY <1>3 DEF OpenSerial, q
  <2>2. /\ DOMAIN Master' = Fields /\ Master'.state = "CONNECTING" /\ Master'.ring = q.ring
        /\ Master'.fails = 0 /\ Master'.qaps = q.qaps
    BY <1>2, <2>1 DEF Fields
  <2> QED BY <1>2, <2>2, QueueAssumption DEF Inv, Sound, Whole
<1>4. CASE OnDeviceConnected
  <2> DEFINE k == [q EXCEPT !.com = "RxTx", !.needStatus = TRUE, !.state = "IDLE"]
  <2>1. Master' = StartTaskTimer(k) /\ Master.com = "Opening"
    BY <1>4 DEF OnDeviceConnected, q
  <2>2. /\ DOMAIN k = Fields /\ k.state = "IDLE" /\ k.ring = q.ring /\ k.qaps = q.qaps
        /\ k.fails = q.fails
    BY <1>2 DEF Fields
  <2> HIDE DEF k
  <2>3. Sound(k)
    BY <1>2, <2>1, <2>2 DEF Sound, Whole
  <2> QED BY <2>1, <2>2, <2>3, StartTaskTimerOK, CoreOK DEF Inv
<1>5. CASE LinkLost
  BY <1>2, <1>5, OnDeviceDisconnectedOK DEF LinkLost, Inv, Sound, q
<1>6. CASE DevDisconnectClicked
  <2>1. Master' = SetDeviceState([q EXCEPT !.closing = TRUE], "OFFLINE")
    BY <1>6 DEF DevDisconnectClicked, q
  <2>2. SameCore(q, [q EXCEPT !.closing = TRUE])
    BY <1>2 DEF SameCore, Fields
  <2> QED BY <1>2, <2>1, <2>2, CoreOK, SetDeviceStateOK DEF Inv
<1>7. CASE CloseByUser
  <2>1. Master' = ComExit([q EXCEPT !.closing = FALSE])
    BY <1>7 DEF CloseByUser, q
  <2>2. SameCore(q, [q EXCEPT !.closing = FALSE])
    BY <1>2 DEF SameCore, Fields
  <2>3. Whole([q EXCEPT !.closing = FALSE])
    BY <1>2, <2>2, CoreOK DEF Sound
  <2> QED BY <2>1, <2>3, ComExitOK DEF Inv
<1>8. CASE TaskTimerFired
  <2> DEFINE m == [q EXCEPT !.timer = FALSE]
  <2>1. SameCore(q, m)
    BY <1>2 DEF SameCore, Fields
  <2>2. \/ m.state = "OFF" /\ Master' = m
        \/ m.state = "CONNECTING" /\ Master' = [m EXCEPT !.state = "IDLE"]
        \/ Master' \in ProcessAndSend(m)
    <3>1. m.state \in {"OFF", "CONNECTING", "IDLE"}
      BY <1>2, <2>1 DEF SameCore, Sound, Whole
    <3>2. CASE m.state = "OFF"
      BY <1>8, <3>2 DEF TaskTimerFired, q
    <3>3. CASE m.state = "CONNECTING"
      BY <1>8, <3>3 DEF TaskTimerFired, q
    <3>4. CASE m.state = "IDLE"
      BY <1>8, <3>4 DEF TaskTimerFired, q
    <3> QED BY <3>1, <3>2, <3>3, <3>4
  <2> HIDE DEF m
  <2>3. Sound(m)
    BY <1>2, <2>1, CoreOK
  <2>4. ASSUME m.state = "CONNECTING", Master' = [m EXCEPT !.state = "IDLE"]
        PROVE  Inv'
    <3>1. /\ DOMAIN Master' = Fields /\ Master'.state = "IDLE" /\ Master'.ring = m.ring
          /\ Master'.fails = m.fails /\ Master'.qaps = m.qaps
      BY <2>3, <2>4 DEF Fields, Sound, Whole
    <3> QED BY <2>3, <2>4, <3>1 DEF Inv, Sound, Whole
  <2> QED BY <2>2, <2>3, <2>4, ProcessAndSendOK DEF Inv
<1>9. CASE TimerEvent
  BY <1>2, <1>9, OnTimerOK DEF TimerEvent, Inv, q
<1>10. CASE Answer
  <2> DEFINE m == [q EXCEPT !.wire = Tail(q.wire)]
  <2>1. q.wire = Master.wire
    BY <1>1 DEF q, Quietly, Sound, Whole, Fields
  <2>2. \E p : Master' \in ProcessPacked(m, p)
    BY <1>10, <2>1 DEF Answer, q
  <2>3. SameCore(q, m)
    BY <1>2 DEF SameCore, Fields
  <2> HIDE DEF m
  <2> QED BY <1>2, <2>2, <2>3, CoreOK, ProcessPackedOK DEF Inv
<1>11. CASE StatusChange
  <2>1. \E p : Master' \in ProcessPacked(q, p)
    BY <1>11 DEF StatusChange, q
  <2> QED BY <1>2, <2>1, ProcessPackedOK DEF Inv
<1>12. CASE LoseFrame
  <2>1. SameCore(Master, Master')
    BY <1>1, <1>12 DEF LoseFrame, Quietly, SameCore, Sound, Whole, Fields
  <2> QED BY <1>1, <2>1, CoreOK DEF Inv
<1>13. CASE TimePasses
  BY <1>13, PassOK DEF TimePasses
<1>14. CASE Host
  <2>1. CASE ApsdeDataRequest
    BY <1>2, <2>1, AcceptOK DEF ApsdeDataRequest, Inv, q
  <2>2. CASE HostReads
    BY <1>2, <2>2, ReadParameterOK DEF HostReads, Inv, q
  <2>3. CASE HostReadsAll
    BY <1>2, <2>3, ReadParametersOK DEF HostReadsAll, Inv, q
  <2>4. ASSUME NEW op \in HostOps
        PROVE  Sound(AllocEnqueue(q, Cmd(op, 0))) /\ Sound(ItemAdded(AllocEnqueue(q, Cmd(op, 0))))
    <3>1. Sound(AllocEnqueue(q, Cmd(op, 0)))
      BY <1>2, AllocEnqueueOK, CmdOK
    <3> QED BY <3>1, ItemAddedOK
  <2>5. CASE HostAsks
    BY <2>4, <2>5 DEF HostAsks, Inv, q
  <2>6. CASE HostAsksNow
    BY <2>4, <2>6 DEF HostAsksNow, Inv, q
  <2>7. CASE StartInterpanMode
    BY <2>4, <2>7 DEF StartInterpanMode, Inv, q
  <2>8. CASE SendInterpanRequest
    BY <2>4, <2>8 DEF SendInterpanRequest, Inv, q
  <2> QED BY <1>14, <2>1, <2>2, <2>3, <2>5, <2>6, <2>7, <2>8 DEF Host
<1>15. CASE UNCHANGED Master
  BY <1>15 DEF Inv
<1> QED BY <1>3, <1>4, <1>5, <1>6, <1>7, <1>8, <1>9, <1>10, <1>11, <1>12, <1>13, <1>14, <1>15 DEF Next

THEOREM MasterIsSound == Spec => []Inv
BY InitOK, NextOK, PTL DEF Spec

(* The two counters that eight functions count up and down are the numbers *)
(* of items waiting and in flight, whatever the firmware and the host do.  *)
THEOREM MasterCounts == Spec => []CountersCount
<1>1. Inv => CountersCount
  BY DEF Inv, Sound, Whole, RingInv, CountersCount
<1> QED BY <1>1, MasterIsSound, PTL

(* An answer confirms the one command it answers, or none.                 *)
THEOREM MasterSeqsUnique == Spec => []SeqsUnique
<1>1. Inv => SeqsUnique
  BY DEF Inv, Sound, Whole, RingInv, SeqsUnique
<1> QED BY <1>1, MasterIsSound, PTL

(* processPacked's assertion holds: retries add nothing to the commands in *)
(* flight.                                                                 *)
THEOREM MasterFewUnconfirmed == Spec => []FewUnconfirmed
<1>1. Inv => FewUnconfirmed
  BY DEF Inv, Sound, Whole, FewUnconfirmed
<1> QED BY <1>1, MasterIsSound, PTL

(* No connection outlives MaxCommandFails answers missed in a row.         *)
THEOREM MasterGivesUpInTime == Spec => []GivesUpInTime
<1>1. Inv => GivesUpInTime
  BY DEF Inv, Sound, GivesUpInTime
<1> QED BY <1>1, MasterIsSound, PTL

----------------------------------------------------------------------------
(* What a single step may do.  Beside the sound ring an invariant says     *)
(* what is queued and when, and a relation between two Masters what a      *)
(* handler leaves alone; again there is one lemma for each handler.        *)

Queries == {"STATUS", "APS_DATA_CONFIRM", "APS_DATA_INDICATION"}

\* What no part of the invariant of CommandQueueProofs reads, typed.
Typed(m) ==
  /\ m.wire \in Seq(Frames) /\ Len(m.wire) <= WireLen
  /\ m.com \in {"Off", "Opening", "RxTx"}
  /\ m.fails <= MaxCommandFails /\ Len(m.qaps) <= QApsLen
  /\ m.net \in Nets /\ m.dev \in Nets /\ m.ipan \in IpanStates
  /\ m.closing \in BOOLEAN /\ m.conf \in BOOLEAN /\ m.ind \in BOOLEAN /\ m.free \in BOOLEAN
  /\ m.ipanInd \in BOOLEAN /\ m.ipanConf \in BOOLEAN /\ m.needStatus \in BOOLEAN
  /\ m.timer \in BOOLEAN /\ m.quiet \in BOOLEAN /\ m.statusOld \in BOOLEAN
  /\ m.first \in BOOLEAN

\* Commands are real, and a query is there once.
Apart(r) ==
  /\ \A s \in Active(r) : r.items[s].cmd \in Cmds /\ r.items[s].cmd.op # "STATUS_CHANGE"
  /\ \A s, t \in Active(r) :
       r.items[s].cmd.op = r.items[t].cmd.op /\ r.items[s].cmd.op \in Queries => s = t

Shut(m) ==
  m.state = "OFF" =>
    m.qaps = <<>> /\ \A s \in Active(m.ring) : m.ring.items[s].cmd.op = "SEND_INTERPAN_REQ"

Shaped(m) == Whole(m) /\ Typed(m) /\ Apart(m.ring)
Well(m)   == Shaped(m) /\ Sound(m) /\ Shut(m)

\* The command at s is the same in m and in n.
KeptAt(m, n, s) ==
  /\ s \in Active(n.ring)
  /\ n.ring.items[s].seq = m.ring.items[s].seq /\ n.ring.items[s].cmd = m.ring.items[s].cmd

\* From m to n nothing was sent, dropped or taken back, and the port was not shut.
Calm(m, n) ==
  /\ Well(n) /\ n.wire = m.wire /\ m.out \subseteq n.out
  /\ n.state = "OFF" <=> m.state = "OFF"
  /\ \A s \in Active(m.ring) : KeptAt(m, n, s)

LEMMA CalmTrans ==
  ASSUME NEW k, NEW m, NEW n, Calm(k, m), Calm(m, n)
  PROVE  Calm(k, n)
BY DEF Calm, KeptAt

LEMMA CalmSelf ==
  ASSUME NEW m, Well(m)
  PROVE  Calm(m, m)
BY DEF Calm, KeptAt

\* A handler that changes neither the ring nor the state.
LEMMA SoftCalm ==
  ASSUME NEW m, NEW n, Well(m), SameCore(m, n), Typed(n), n.wire = m.wire, m.out \subseteq n.out
  PROVE  Calm(m, n)
<1>1. Whole(n) /\ Sound(n)
  BY CoreOK DEF Well, Shaped
<1>2. n.ring = m.ring /\ n.state = m.state /\ n.qaps = m.qaps
  BY DEF SameCore
<1>3. Well(n)
  BY <1>1, <1>2 DEF Well, Shaped, Shut
<1> QED BY <1>2, <1>3 DEF Calm, KeptAt

\* m, but for the fields that are named.
Same(m, n, fs) == DOMAIN n = DOMAIN m /\ \A f \in Fields \ fs : n[f] = m[f]

----------------------------------------------------------------------------
(* Rings.                                                                  *)

\* A ring whose commands are some of those of another one.
LEMMA ApartLess ==
  ASSUME NEW r, NEW t, Apart(r), Active(t) \subseteq Active(r),
         \A s \in Active(t) : t.items[s].cmd = r.items[s].cmd
  PROVE  Apart(t)
BY DEF Apart

LEMMA ActiveIs ==
  ASSUME NEW r, NEW s
  PROVE  /\ s \in Active(r) <=> s \in Slots /\ r.items[s].state \in {"WAIT_SEND", "WAIT_CONFIRM"}
         /\ s \in ToSend(r) <=> s \in Slots /\ r.items[s].state = "WAIT_SEND"
         /\ s \in InFlight(r) <=> s \in Slots /\ r.items[s].state = "WAIT_CONFIRM"
BY DEF Active, ToSend, InFlight, InState

LEMMA EnqueueAdds ==
  ASSUME NEW r, RingInv(r), Ready(r), NEW c
  PROVE  /\ r.wp \notin Active(r) /\ Active(QItem_Enqueue(r, c)) = Active(r) \cup {r.wp}
         /\ \A s \in Active(r) : QItem_Enqueue(r, c).items[s] = r.items[s]
         /\ QItem_Enqueue(r, c).items[r.wp].cmd = c
<1> DEFINE t == QItem_Enqueue(r, c)
           i == [state |-> "WAIT_SEND", cmd |-> c, seq |-> r.seq, retries |-> 0, late |-> FALSE]
<1>1. r \in Rings /\ r.wp \in Slots /\ r.items \in [Slots -> Items]
  BY DEF RingInv, Rings
<1>2. t.items = [r.items EXCEPT ![r.wp] = i]
  BY <1>1 DEF QItem_Enqueue, Rings
<1>3. i.state = "WAIT_SEND" /\ i.cmd = c
  OBVIOUS
<1> HIDE DEF t, i
<1>4. \A s \in Slots : t.items[s] = IF s = r.wp THEN i ELSE r.items[s]
  BY <1>1, <1>2
<1>5. r.items[r.wp].state = "INIT"
  BY DEF Ready
<1>6. r.wp \notin Active(r)
  BY <1>5, ActiveIs
<1>7. Active(t) = Active(r) \cup {r.wp}
  BY <1>1, <1>3, <1>4, ActiveIs
<1> QED BY <1>1, <1>3, <1>4, <1>6, <1>7, ActiveIs DEF t

LEMMA SentKeeps ==
  ASSUME NEW r, RingInv(r), NEW s \in ToSend(r)
  PROVE  /\ Active(QItem_Sent(r, s)) = Active(r)
         /\ \A t \in Active(r) : /\ QItem_Sent(r, s).items[t].cmd = r.items[t].cmd
                                 /\ QItem_Sent(r, s).items[t].seq = r.items[t].seq
                                 /\ t # s => QItem_Sent(r, s).items[t] = r.items[t]
<1> DEFINE u == QItem_Sent(r, s)
           i == [r.items[s] EXCEPT !.state = "WAIT_CONFIRM", !.late = FALSE]
<1>1. r \in Rings /\ s \in Slots /\ r.items \in [Slots -> Items] /\ r.items[s].state = "WAIT_SEND"
  BY ActiveIs DEF RingInv, Rings
<1>2. u.items = [r.items EXCEPT ![s] = i]
  BY <1>1 DEF QItem_Sent, Rings
<1>3. i.state = "WAIT_CONFIRM" /\ i.cmd = r.items[s].cmd /\ i.seq = r.items[s].seq
  BY <1>1 DEF Items
<1> HIDE DEF u, i
<1>4. \A t \in Slots : u.items[t] = IF t = s THEN i ELSE r.items[t]
  BY <1>1, <1>2
<1>5. \A t : t \in Active(u) <=> t \in Active(r)
  BY <1>1, <1>3, <1>4, ActiveIs
<1>6. Active(u) = Active(r)
  BY <1>5
<1> QED BY <1>3, <1>4, <1>6, ActiveIs DEF u

LEMMA RequeueKeeps ==
  ASSUME NEW r, RingInv(r), NEW s \in InFlight(r)
  PROVE  /\ Active(Requeue(r, s)) = Active(r)
         /\ \A t \in Active(r) : /\ Requeue(r, s).items[t].cmd = r.items[t].cmd
                                 /\ Requeue(r, s).items[t].seq = r.items[t].seq
                                 /\ t # s => Requeue(r, s).items[t] = r.items[t]
<1> DEFINE u == Requeue(r, s)
           i == [r.items[s] EXCEPT !.state = "WAIT_SEND", !.retries = r.items[s].retries + 1]
<1>1. r \in Rings /\ s \in Slots /\ r.items \in [Slots -> Items] /\ r.items[s].state = "WAIT_CONFIRM"
  BY ActiveIs DEF RingInv, Rings
<1>2. u.items = [r.items EXCEPT ![s] = i]
  BY <1>1 DEF Requeue, Rings
<1>3. i.state = "WAIT_SEND" /\ i.cmd = r.items[s].cmd /\ i.seq = r.items[s].seq
  BY <1>1 DEF Items
<1> HIDE DEF u, i
<1>4. \A t \in Slots : u.items[t] = IF t = s THEN i ELSE r.items[t]
  BY <1>1, <1>2
<1>5. \A t : t \in Active(u) <=> t \in Active(r)
  BY <1>1, <1>3, <1>4, ActiveIs
<1>6. Active(u) = Active(r)
  BY <1>5
<1> QED BY <1>3, <1>4, <1>6, ActiveIs DEF u

LEMMA FreeKeeps ==
  ASSUME NEW r, RingInv(r), NEW s \in Active(r)
  PROVE  /\ Active(QItem_Free(r, s)) = Active(r) \ {s}
         /\ \A t \in Active(r) \ {s} : QItem_Free(r, s).items[t] = r.items[t]
<1> DEFINE u == QItem_Free(r, s)
<1>1. r \in Rings /\ s \in Slots /\ r.items \in [Slots -> Items]
  BY ActiveIs DEF RingInv, Rings
<1>2. u.items = [r.items EXCEPT ![s] = Blank]
  BY <1>1 DEF QItem_Free, Rings
<1>3. Blank.state = "INIT"
  BY DEF Blank
<1> HIDE DEF u
<1>4. \A t \in Slots : u.items[t] = IF t = s THEN Blank ELSE r.items[t]
  BY <1>1, <1>2
<1>5. \A t : t \in Active(u) <=> t \in Active(r) \ {s}
  BY <1>1, <1>3, <1>4, ActiveIs
<1>6. Active(u) = Active(r) \ {s}
  BY <1>5
<1> QED BY <1>4, <1>6, ActiveIs DEF u

LEMMA ConfirmKeeps ==
  ASSUME NEW r, RingInv(r), NEW op, NEW q
  PROVE  /\ Active(QItem_Confirm(r, op, q)) \subseteq Active(r)
         /\ \A t \in Active(r) : \/ t \in Confirms(r, op, q)
                                 \/ /\ t \in Active(QItem_Confirm(r, op, q))
                                    /\ QItem_Confirm(r, op, q).items[t] = r.items[t]
         /\ \A t \in Active(QItem_Confirm(r, op, q)) : QItem_Confirm(r, op, q).items[t] = r.items[t]
<1> DEFINE C == Confirms(r, op, q)
<1>1. CASE C = {}
  BY <1>1 DEF QItem_Confirm
<1>2. CASE C # {}
  <2> DEFINE s == CHOOSE x \in C : \A y \in C : x <= y
  <2>1. C \in SUBSET Nat /\ C \subseteq Active(r)
    BY RingAssumption DEF Confirms, InFlight, InState, Active, Slots
  <2>2. s \in C
    <3> HIDE DEF C
    <3>1. \E x \in C : \A y \in C : x <= y
      BY <1>2, <2>1, NatMin
    <3> QED BY <3>1
  <2>3. QItem_Confirm(r, op, q) = QItem_Free(r, s)
    BY <1>2 DEF QItem_Confirm
  <2> HIDE DEF s, C
  <2> QED BY <2>1, <2>2, <2>3, FreeKeeps DEF C
<1> QED BY <1>1, <1>2

----------------------------------------------------------------------------
(* Queueing: all that was queued before stays.                             *)

LEMMA StartTaskTimerCalm ==
  ASSUME NEW m, Well(m)
  PROVE  Calm(m, StartTaskTimer(m))
<1> DEFINE n == StartTaskTimer(m)
<1>1. SameCore(m, n)
  BY StartTaskTimerOK DEF Well, Shaped, Whole
<1>2. Typed(n) /\ n.wire = m.wire /\ n.out = m.out
  BY DEF StartTaskTimer, Well, Shaped, Typed, Whole, Fields
<1> QED BY <1>1, <1>2, SoftCalm

LEMMA NotifyCalm ==
  ASSUME NEW m, Well(m), NEW x
  PROVE  Calm(m, Notify(m, x)) /\ x \in Notify(m, x).out
<1> DEFINE n == Notify(m, x)
<1>1. SameCore(m, n)
  BY NotifyOK DEF Well, Shaped, Whole
<1>2. Typed(n) /\ n.wire = m.wire /\ n.out = m.out \cup {x}
  BY DEF Notify, Well, Shaped, Typed, Whole, Fields
<1> QED BY <1>1, <1>2, SoftCalm

LEMMA ItemAddedCalm ==
  ASSUME NEW m, Well(m)
  PROVE  Calm(m, ItemAdded(m))
<1> DEFINE k == [m EXCEPT !.state = "IDLE"]
           n == ItemAdded(m)
<1>1. CASE m.state = "OFF"
  BY <1>1, CalmSelf DEF ItemAdded
<1>2. CASE m.state = "IDLE"
  BY <1>2, StartTaskTimerCalm DEF ItemAdded
<1>3. CASE m.state = "CONNECTING"
  <2>1. n = k
    BY <1>3 DEF ItemAdded
  <2>2. Typed(k) /\ k.wire = m.wire /\ k.out = m.out /\ k.state = "IDLE" /\ k.ring = m.ring
    BY DEF Well, Shaped, Typed, Whole, Fields
  <2>3. Sound(n)
    BY ItemAddedOK DEF Well
  <2> HIDE DEF k, n
  <2>4. Well(n)
    BY <2>1, <2>2, <2>3 DEF Well, Shaped, Shut, Sound
  <2>5. Calm(m, n)
    BY <1>3, <2>1, <2>2, <2>4 DEF Calm, KeptAt
  <2> QED BY <2>5 DEF n
<1>4. m.state \in {"OFF", "CONNECTING", "IDLE"}
  BY DEF Well, Shaped, Whole
<1> QED BY <1>1, <1>2, <1>3, <1>4

LEMMA AllocatedCalm ==
  ASSUME NEW m, Well(m), HasFreeItem(m.ring)
  PROVE  /\ Calm(m, Allocated(m)) /\ Ready(Allocated(m).ring)
         /\ Allocated(m).qaps = m.qaps /\ Allocated(m).state = m.state
         /\ Allocated(m).ring.items = m.ring.items
<1> DEFINE n == Allocated(m)
<1>1. Sound(n) /\ n.ring = QItem_Alloc(m.ring) /\ n.qaps = m.qaps
  BY AllocatedOK DEF Well
<1>2. Ready(n.ring) /\ n.ring.items = m.ring.items
  BY <1>1, AllocReady, AllocOK DEF Well, Shaped, Whole
<1>3. Typed(n) /\ n.wire = m.wire /\ n.out = m.out /\ n.state = m.state
  BY DEF Allocated, Well, Shaped, Typed, Whole, Fields
<1> HIDE DEF n
<1>4. \A s : s \in Active(n.ring) <=> s \in Active(m.ring)
  BY <1>2, ActiveIs
<1>5. Apart(n.ring)
  BY <1>2, <1>4, ApartLess DEF Well, Shaped
<1>6. Well(n)
  BY <1>1, <1>2, <1>3, <1>4, <1>5 DEF Well, Shaped, Shut, Sound
<1>7. Calm(m, n)
  BY <1>2, <1>3, <1>4, <1>6 DEF Calm, KeptAt
<1> QED BY <1>1, <1>2, <1>3, <1>7 DEF n

\* What may be queued: a query once, and only inter-PAN requests while closed.
May(m, c) ==
  /\ c \in Cmds /\ c.op # "STATUS_CHANGE"
  /\ c.op \in Queries => ~Holds(m, c.op)
  /\ m.state # "OFF" \/ c.op = "SEND_INTERPAN_REQ"

LEMMA EnqueueCalm ==
  ASSUME NEW m, Well(m), Ready(m.ring), NEW c, May(m, c)
  PROVE  Calm(m, Enqueue(m, c)) /\ Enqueue(m, c).state = m.state
<1> DEFINE n == Enqueue(m, c)
           t == m.timer \/ (m.state = "IDLE" /\ m.ring.waitConfirm < MaxUnconfirmed)
<1>1. Sound(n) /\ n.state = m.state
  BY MasterEnqueueOK DEF Well, May
<1>2. t \in BOOLEAN
  OBVIOUS
<1>3. n = [m EXCEPT !.ring = QItem_Enqueue(m.ring, c), !.timer = t]
  BY DEF Enqueue
<1> HIDE DEF t
<1>4. /\ Typed(n) /\ n.wire = m.wire /\ n.out = m.out /\ n.ring = QItem_Enqueue(m.ring, c)
      /\ n.qaps = m.qaps
  BY <1>2, <1>3 DEF Well, Shaped, Typed, Whole, Fields
<1> HIDE DEF n
<1> DEFINE w == m.ring.wp
<1>5. /\ w \notin Active(m.ring) /\ Active(n.ring) = Active(m.ring) \cup {w}
      /\ \A s \in Active(m.ring) : n.ring.items[s] = m.ring.items[s]
      /\ n.ring.items[w].cmd = c
  BY <1>4, EnqueueAdds DEF Well, Shaped, Whole
<1> HIDE DEF w
<1>6. \A s \in Active(m.ring) : c.op \in Queries => m.ring.items[s].cmd.op # c.op
  BY DEF May, Holds
<1>7. Apart(m.ring)
  BY DEF Well, Shaped
<1>8. Apart(n.ring)
  BY <1>5, <1>6, <1>7 DEF Apart, May
<1>9. Shut(n)
  BY <1>1, <1>4, <1>5 DEF Shut, Well, May
<1>10. Well(n)
  BY <1>1, <1>4, <1>8, <1>9 DEF Well, Shaped, Sound
<1>11. Calm(m, n)
  BY <1>1, <1>4, <1>5, <1>10 DEF Calm, KeptAt
<1> QED BY <1>1, <1>11 DEF n

LEMMA AllocEnqueueCalm ==
  ASSUME NEW m, Well(m), NEW c, May(m, c)
  PROVE  Calm(m, AllocEnqueue(m, c))
<1>1. CASE HasFreeItem(m.ring)
  <2> DEFINE a == Allocated(m)
  <2>1. /\ Calm(m, a) /\ Ready(a.ring) /\ a.state = m.state
        /\ a.ring.items = m.ring.items
    BY <1>1, AllocatedCalm
  <2> HIDE DEF a
  <2>2. \A s : s \in Active(a.ring) <=> s \in Active(m.ring)
    BY <2>1, ActiveIs
  <2>3. \A op : Holds(a, op) <=> Holds(m, op)
    BY <2>1, <2>2 DEF Holds
  <2>4. May(a, c)
    BY <2>1, <2>3 DEF May
  <2>5. Calm(a, Enqueue(a, c))
    BY <2>1, <2>4, EnqueueCalm DEF Calm
  <2>6. Calm(m, Enqueue(a, c))
    BY <2>1, <2>5, CalmTrans
  <2> QED BY <1>1, <2>6 DEF AllocEnqueue, a
<1>2. CASE ~HasFreeItem(m.ring)
  BY <1>2, CalmSelf DEF AllocEnqueue
<1> QED BY <1>1, <1>2

LEMMA AcceptCalm ==
  ASSUME NEW m, Well(m), m.state # "OFF", ~QAPS_Full(m), NEW id \in ApsIds
  PROVE  Calm(m, AcceptApsRequest(m, id))
<1> DEFINE n == [m EXCEPT !.qaps = Append(m.qaps, id)]
<1>1. m.qaps \in Seq(ApsIds) /\ Len(m.qaps) <= QApsLen /\ Len(m.qaps) # QApsLen
  BY DEF Well, Shaped, Whole, Typed, QAPS_Full
<1>2. Append(m.qaps, id) \in Seq(ApsIds) /\ Len(Append(m.qaps, id)) <= QApsLen
  BY <1>1, QueueAssumption
<1>3. /\ DOMAIN n = Fields /\ n.qaps = Append(m.qaps, id) /\ n.ring = m.ring
      /\ n.state = m.state /\ n.com = m.com /\ n.fails = m.fails /\ n.wire = m.wire /\ n.out = m.out
  BY DEF Well, Shaped, Whole, Fields
<1>4. Typed(n)
  BY <1>2 DEF Well, Shaped, Whole, Fields, Typed
<1>5. AcceptApsRequest(m, id) = ItemAdded(n)
  BY DEF AcceptApsRequest
<1> HIDE DEF n
<1>6. Well(n)
  BY <1>2, <1>3, <1>4 DEF Well, Shaped, Whole, Sound, Shut
<1>7. Calm(m, n)
  BY <1>3, <1>6 DEF Calm, KeptAt
<1> QED BY <1>5, <1>6, <1>7, ItemAddedCalm, CalmTrans

LEMMA CommandQueueEmptyCalm ==
  ASSUME NEW m, Well(m), NEW n \in CommandQueueEmpty(m)
  PROVE  Calm(m, n) /\ n.ring = m.ring
<1>1. n = m \/ \E id \in ApsIds : n = AcceptApsRequest(m, id) /\ HasFreeApsRequest(m)
  BY DEF CommandQueueEmpty
<1>2. ASSUME HasFreeApsRequest(m), NEW id \in ApsIds
      PROVE  Calm(m, AcceptApsRequest(m, id))
  BY <1>2, AcceptCalm DEF HasFreeApsRequest, NetState, Connected
<1> QED BY <1>1, <1>2, CalmSelf, CommandQueueEmptyOK DEF Well

\* Commands of one kind may always be queued while connected.
LEMMA MayPlain ==
  ASSUME NEW m, m.state # "OFF"
  PROVE  /\ \A op \in {"VERSION", "FEATURE", "ZDO_NET_CONFIRM", "INTERPAN_INDICATION",
                       "INTERPAN_CONFIRM"} : May(m, Cmd(op, 0))
         /\ \A op \in HostOps \cap {"CHANGE_NET_STATE", "UPDATE_NEIGHBOR", "WRITE_PARAM",
                        "VERSION", "NWK_LEAVE_REQ", "FACTORY_RESET", "START_INTERPAN_MODE",
                        "SEND_INTERPAN_REQ"} : May(m, Cmd(op, 0))
         /\ \A id \in ApsIds : May(m, Cmd("APS_DATA_REQ", id))
         /\ \A p \in {ParamA, ParamTC, ParamKey} : May(m, Cmd("READ_PARAM", p))
         /\ \A op \in Queries : ~Holds(m, op) => May(m, Cmd(op, 0))
BY CmdOK DEF May, Cmd, Queries

LEMMA ReadParameterCalm ==
  ASSUME NEW m, Well(m), NEW p \in {ParamA, ParamTC, ParamKey}
  PROVE  Calm(m, ReadParameter(m, p))
<1>1. CASE Connected(m)
  <2>1. May(m, Cmd("READ_PARAM", p))
    BY <1>1, MayPlain DEF Connected
  <2> QED BY <1>1, <2>1, AllocEnqueueCalm DEF ReadParameter
<1>2. CASE ~Connected(m)
  BY <1>2, CalmSelf DEF ReadParameter
<1> QED BY <1>1, <1>2

LEMMA ReadParametersCalm ==
  ASSUME NEW m, Well(m)
  PROVE  Calm(m, ReadParameters(m))
<1> DEFINE a == ReadParameter(m, ParamA)
<1>1. Calm(m, a)
  BY ReadParameterCalm
<1> HIDE DEF a
<1>2. Calm(a, ReadParameter(a, ParamTC))
  BY <1>1, ReadParameterCalm DEF Calm
<1> QED BY <1>1, <1>2, CalmTrans DEF ReadParameters, a

LEMMA KillCommandCalm ==
  ASSUME NEW m, Well(m), NEW c, NEW st
  PROVE  /\ Calm(m, KillCommand(m, c, st)) /\ KillCommand(m, c, st).ring = m.ring
         /\ KillNotices(c, st) \subseteq KillCommand(m, c, st).out
<1> DEFINE n == KillCommand(m, c, st)
<1>1. SameCore(m, n)
  BY KillCommandOK DEF Well, Shaped, Whole
<1>2. Typed(n) /\ n.wire = m.wire /\ n.out = m.out \cup KillNotices(c, st)
  BY DEF KillCommand, Well, Shaped, Typed, Whole, Fields
<1>3. n.ring = m.ring
  BY <1>1 DEF SameCore
<1> QED BY <1>1, <1>2, <1>3, SoftCalm

LEMMA EnqueueStatusCalm ==
  ASSUME NEW m, Well(m), m.state # "OFF"
  PROVE  Calm(m, EnqueueStatus(m))
<1>1. CASE Holds(m, "STATUS")
  BY <1>1, CalmSelf DEF EnqueueStatus
<1>2. CASE ~Holds(m, "STATUS")
  <2>1. May(m, Cmd("STATUS", 0))
    BY <1>2, MayPlain DEF Queries
  <2> QED BY <1>2, <2>1, AllocEnqueueCalm DEF EnqueueStatus
<1> QED BY <1>1, <1>2

LEMMA QueApsDataConfirmCalm ==
  ASSUME NEW m, Well(m), m.state # "OFF"
  PROVE  Calm(m, QueApsDataConfirm(m))
<1> DEFINE n == [m EXCEPT !.conf = FALSE]
<1>1. SameCore(m, n) /\ Typed(n) /\ n.wire = m.wire /\ n.out = m.out
  BY DEF SameCore, Well, Shaped, Typed, Whole, Fields
<1>2. QueApsDataConfirm(m) = IF Holds(m, "APS_DATA_CONFIRM") THEN n
                             ELSE AllocEnqueue(n, Cmd("APS_DATA_CONFIRM", 0))
  BY DEF QueApsDataConfirm
<1> HIDE DEF n
<1>3. Calm(m, n)
  BY <1>1, SoftCalm
<1>4. n.state # "OFF" /\ (Holds(n, "APS_DATA_CONFIRM") <=> Holds(m, "APS_DATA_CONFIRM"))
  BY <1>1 DEF SameCore, Holds
<1>5. CASE ~Holds(m, "APS_DATA_CONFIRM")
  <2>1. May(n, Cmd("APS_DATA_CONFIRM", 0))
    BY <1>4, <1>5, MayPlain DEF Queries
  <2>2. Calm(n, AllocEnqueue(n, Cmd("APS_DATA_CONFIRM", 0)))
    BY <1>3, <2>1, AllocEnqueueCalm DEF Calm
  <2> QED BY <1>2, <1>3, <1>5, <2>2, CalmTrans
<1> QED BY <1>2, <1>3, <1>5

LEMMA QueApsDataIndicationCalm ==
  ASSUME NEW m, Well(m), m.state # "OFF"
  PROVE  Calm(m, QueApsDataIndication(m))
<1> DEFINE n == [m EXCEPT !.ind = FALSE]
<1>1. SameCore(m, n) /\ Typed(n) /\ n.wire = m.wire /\ n.out = m.out
  BY DEF SameCore, Well, Shaped, Typed, Whole, Fields
<1>2. QueApsDataIndication(m) = IF Holds(m, "APS_DATA_INDICATION") THEN n
                                ELSE AllocEnqueue(n, Cmd("APS_DATA_INDICATION", 0))
  BY DEF QueApsDataIndication
<1> HIDE DEF n
<1>3. Calm(m, n)
  BY <1>1, SoftCalm
<1>4. n.state # "OFF" /\ (Holds(n, "APS_DATA_INDICATION") <=> Holds(m, "APS_DATA_INDICATION"))
  BY <1>1 DEF SameCore, Holds
<1>5. CASE ~Holds(m, "APS_DATA_INDICATION")
  <2>1. May(n, Cmd("APS_DATA_INDICATION", 0))
    BY <1>4, <1>5, MayPlain DEF Queries
  <2>2. Calm(n, AllocEnqueue(n, Cmd("APS_DATA_INDICATION", 0)))
    BY <1>3, <2>1, AllocEnqueueCalm DEF Calm
  <2> QED BY <1>2, <1>3, <1>5, <2>2, CalmTrans
<1> QED BY <1>2, <1>3, <1>5

LEMMA QueInterpanCalm ==
  ASSUME NEW m, Well(m), m.state # "OFF"
  PROVE  Calm(m, QueInterpan(m))
<1> DEFINE n == [m EXCEPT !.ipanInd = FALSE]
           k == [m EXCEPT !.ipanConf = FALSE]
<1>1. /\ SameCore(m, n) /\ Typed(n) /\ n.wire = m.wire /\ n.out = m.out
      /\ SameCore(m, k) /\ Typed(k) /\ k.wire = m.wire /\ k.out = m.out
  BY DEF SameCore, Well, Shaped, Typed, Whole, Fields
<1>2. \/ QueInterpan(m) = AllocEnqueue(n, Cmd("INTERPAN_INDICATION", 0))
      \/ QueInterpan(m) = AllocEnqueue(k, Cmd("INTERPAN_CONFIRM", 0))
      \/ QueInterpan(m) = m
  <2>1. CASE m.ipanInd /\ HasFreeItem(m.ring)
    BY <2>1 DEF QueInterpan
  <2>2. CASE ~m.ipanInd /\ m.ipanConf /\ HasFreeItem(m.ring)
    BY <2>2 DEF QueInterpan
  <2>3. CASE ~(m.ipanInd /\ HasFreeItem(m.ring)) /\ ~(~m.ipanInd /\ m.ipanConf /\ HasFreeItem(m.ring))
    BY <2>3 DEF QueInterpan
  <2> QED BY <2>1, <2>2, <2>3
<1> HIDE DEF n, k
<1>3. Calm(m, n) /\ Calm(m, k)
  BY <1>1, SoftCalm
<1>4. May(n, Cmd("INTERPAN_INDICATION", 0)) /\ May(k, Cmd("INTERPAN_CONFIRM", 0))
  BY <1>1, MayPlain DEF SameCore
<1>5. /\ Calm(n, AllocEnqueue(n, Cmd("INTERPAN_INDICATION", 0)))
      /\ Calm(k, AllocEnqueue(k, Cmd("INTERPAN_CONFIRM", 0)))
  BY <1>3, <1>4, AllocEnqueueCalm DEF Calm
<1> QED BY <1>2, <1>3, <1>5, CalmSelf, CalmTrans

LEMMA QueNextApsDataRequestCalm ==
  ASSUME NEW m, Well(m), m.state # "OFF", ~QAPS_Empty(m), NEW n \in QueNextApsDataRequest(m)
  PROVE  Calm(m, n)
<1>1. CASE ~HasFreeItem(m.ring)
  BY <1>1, CalmSelf DEF QueNextApsDataRequest
<1>2. CASE HasFreeItem(m.ring)
  <2> DEFINE a == Allocated(m)
             p == [a EXCEPT !.qaps = Tail(a.qaps)]
             id == Head(m.qaps)
             told == Notice("apsdeDataRequestDone", id, "ERROR")
  <2>1. Calm(m, a) /\ Ready(a.ring) /\ a.qaps = m.qaps /\ a.state # "OFF"
    BY <1>2, AllocatedCalm
  <2>2. /\ id \in ApsIds /\ Tail(a.qaps) \in Seq(ApsIds)
        /\ Len(Tail(a.qaps)) <= QApsLen
    BY <2>1, QueueAssumption DEF Well, Shaped, Whole, Typed, QAPS_Empty
  <2>3. \/ n \in CommandQueueEmpty(p)
        \/ \E k \in CommandQueueEmpty(p) :
             \/ n = Notify(k, told)
             \/ n = Enqueue([k EXCEPT !.free = FALSE], Cmd("APS_DATA_REQ", id))
    BY <1>2 DEF QueNextApsDataRequest
  <2> HIDE DEF a, id, told
  <2>4. /\ DOMAIN p = Fields /\ p.ring = a.ring /\ p.qaps = Tail(a.qaps)
        /\ p.state = a.state /\ p.com = a.com /\ p.fails = a.fails
        /\ p.wire = a.wire /\ p.out = a.out
    BY <2>1 DEF Calm, Well, Shaped, Whole, Fields
  <2>5. Typed(p)
    BY <2>1, <2>2 DEF Calm, Well, Shaped, Typed, Whole, Fields
  <2> HIDE DEF p
  <2>6. Well(p)
    BY <2>1, <2>2, <2>4, <2>5 DEF Calm, Well, Shaped, Whole, Sound, Shut
  <2>7. Calm(m, p)
    <3>1. Calm(a, p)
      BY <2>4, <2>6 DEF Calm, KeptAt
    <3> QED BY <2>1, <3>1, CalmTrans
  <2>8. ASSUME NEW k \in CommandQueueEmpty(p)
        PROVE  /\ Calm(p, k) /\ Calm(p, Notify(k, told))
               /\ Calm(p, Enqueue([k EXCEPT !.free = FALSE], Cmd("APS_DATA_REQ", id)))
    <3> DEFINE f == [k EXCEPT !.free = FALSE]
    <3>1. Calm(p, k) /\ k.ring = p.ring /\ Well(k)
      BY <2>6, CommandQueueEmptyCalm DEF Calm
    <3>2. Calm(k, Notify(k, told))
      BY <3>1, NotifyCalm
    <3>3. SameCore(k, f) /\ Typed(f) /\ f.wire = k.wire /\ f.out = k.out
      BY <3>1 DEF SameCore, Well, Shaped, Typed, Whole, Fields
    <3> HIDE DEF f
    <3>4. Calm(k, f) /\ Well(f)
      BY <3>1, <3>3, SoftCalm DEF Calm
    <3>5. Ready(f.ring) /\ May(f, Cmd("APS_DATA_REQ", id))
      BY <2>1, <2>2, <2>4, <3>1, <3>3, <3>4, MayPlain DEF SameCore, Calm
    <3>6. Calm(f, Enqueue(f, Cmd("APS_DATA_REQ", id)))
      BY <3>4, <3>5, EnqueueCalm
    <3> QED BY <3>1, <3>2, <3>4, <3>6, CalmTrans DEF f
  <2> QED BY <2>3, <2>7, <2>8, CalmTrans
<1> QED BY <1>1, <1>2

LEMMA ProcessQueueCalm ==
  ASSUME NEW m, Well(m), m.state # "OFF", NEW n \in ProcessQueue(m)
  PROVE  Calm(m, n)
<1>1. \/ n = m
      \/ n = [EnqueueStatus(m) EXCEPT !.conf = FALSE, !.ind = FALSE, !.free = FALSE,
                                      !.needStatus = FALSE]
      \/ n = QueApsDataConfirm(m)
      \/ n = QueApsDataIndication(m)
      \/ n = QueInterpan(m)
      \/ ~QAPS_Empty(m) /\ \E k \in QueNextApsDataRequest(m) : n = QueInterpan(k)
  <2>1. CASE m.needStatus
    BY <2>1 DEF ProcessQueue
  <2>2. CASE ~m.needStatus /\ (m.ring.waitSend >= NSlots \/ m.ring.waitConfirm >= MaxUnconfirmed)
    BY <2>2 DEF ProcessQueue
  <2>3. CASE ~m.needStatus /\ ~(m.ring.waitSend >= NSlots \/ m.ring.waitConfirm >= MaxUnconfirmed)
    BY <2>3 DEF ProcessQueue
  <2> QED BY <2>1, <2>2, <2>3
<1>2. ASSUME n = [EnqueueStatus(m) EXCEPT !.conf = FALSE, !.ind = FALSE, !.free = FALSE,
                                          !.needStatus = FALSE]
      PROVE  Calm(m, n)
  <2> DEFINE e == EnqueueStatus(m)
  <2>1. Calm(m, e) /\ Well(e)
    BY EnqueueStatusCalm DEF Calm
  <2>2. SameCore(e, n) /\ Typed(n) /\ n.wire = e.wire /\ n.out = e.out
    BY <1>2, <2>1 DEF SameCore, Well, Shaped, Typed, Whole, Fields
  <2> HIDE DEF e
  <2> QED BY <2>1, <2>2, SoftCalm, CalmTrans
<1>3. ASSUME NEW k \in QueNextApsDataRequest(m), ~QAPS_Empty(m), n = QueInterpan(k)
      PROVE  Calm(m, n)
  <2>1. Calm(m, k)
    BY <1>3, QueNextApsDataRequestCalm
  <2>2. Calm(k, n)
    BY <1>3, <2>1, QueInterpanCalm DEF Calm
  <2> QED BY <2>1, <2>2, CalmTrans
<1> QED BY <1>1, <1>2, <1>3, CalmSelf, QueApsDataConfirmCalm, QueApsDataIndicationCalm, QueInterpanCalm

----------------------------------------------------------------------------
(* Sending: the wire grows, commands go from waiting to in flight.         *)

\* As Calm, but commands may have been sent.
Onward(m, n) ==
  /\ Well(n) /\ m.out \subseteq n.out
  /\ n.state = "OFF" <=> m.state = "OFF"
  /\ \A s \in Active(m.ring) : KeptAt(m, n, s)

LEMMA OnwardTrans ==
  ASSUME NEW k, NEW m, NEW n, Onward(k, m), Onward(m, n)
  PROVE  Onward(k, n)
BY DEF Onward, KeptAt

LEMMA CalmOnward ==
  ASSUME NEW m, NEW n, Calm(m, n)
  PROVE  Onward(m, n)
BY DEF Onward, Calm

\* A command that waits is sent, or kept while the port is busy; those of the other slots stay
\* as they are.
LEMMA SendOnward ==
  ASSUME NEW m, Well(m), NEW s \in ToSend(m.ring), m.ring.waitConfirm < MaxUnconfirmed
  PROVE  /\ Onward(m, QItem_Send(m, s)) /\ QItem_Send(m, s).state = m.state
         /\ \A t \in Active(m.ring) \ {s} : QItem_Send(m, s).ring.items[t] = m.ring.items[t]
<1> DEFINE n == QItem_Send(m, s)
<1>1. CASE m.com = "RxTx" /\ Len(m.wire) < WireLen
  <2> DEFINE i == m.ring.items[s]
             f == [op |-> i.cmd.op, seq |-> i.seq, arg |-> i.cmd.arg]
             w == Append(m.wire, f)
  <2>1. s \in Active(m.ring) /\ i.cmd \in Cmds /\ i \in Items
    BY DEF Active, Well, Shaped, Apart, Whole, RingInv, Rings, ToSend, InState
  <2>2. f \in Frames
    BY <2>1 DEF Cmds, Frames, Items
  <2>3. w \in Seq(Frames) /\ Len(w) <= WireLen
    <3>1. m.wire \in Seq(Frames)
      BY DEF Well, Shaped, Typed
    <3> HIDE DEF f
    <3> QED BY <1>1, <2>2, <3>1, QueueAssumption
  <2>4. n = [m EXCEPT !.ring = QItem_Sent(m.ring, s), !.wire = w, !.quiet = FALSE]
    BY <1>1 DEF QItem_Send
  <2> HIDE DEF w
  <2>5. /\ n.ring = QItem_Sent(m.ring, s) /\ n.wire = w /\ n.out = m.out /\ n.state = m.state
        /\ n.qaps = m.qaps
    BY <2>4 DEF Well, Shaped, Whole, Fields
  <2>6. Typed(n)
    BY <2>3, <2>4 DEF Well, Shaped, Whole, Fields, Typed
  <2>7. Sound(n)
    BY MasterSendOK DEF Well
  <2> HIDE DEF n
  <2>8. /\ Active(n.ring) = Active(m.ring)
        /\ \A t \in Active(m.ring) : /\ n.ring.items[t].cmd = m.ring.items[t].cmd
                                     /\ n.ring.items[t].seq = m.ring.items[t].seq
                                     /\ t # s => n.ring.items[t] = m.ring.items[t]
    BY <2>5, SentKeeps DEF Well, Shaped, Whole
  <2>9. Apart(n.ring) /\ Shut(n)
    BY <2>5, <2>8, ApartLess DEF Well, Shaped, Shut
  <2>10. Onward(m, n)
    BY <2>5, <2>6, <2>7, <2>8, <2>9 DEF Onward, KeptAt, Well, Shaped, Sound
  <2> QED BY <2>5, <2>8, <2>10 DEF n
<1>2. CASE ~(m.com = "RxTx" /\ Len(m.wire) < WireLen)
  BY <1>2, CalmSelf, CalmOnward DEF QItem_Send
<1> QED BY <1>1, <1>2

LEMMA SendNextCommandOnward ==
  ASSUME NEW m, Well(m), NEW n \in SendNextCommand(m)
  PROVE  Onward(m, n)
<1>1. CASE /\ Connected(m) /\ m.ring.waitSend > 0
           /\ m.ring.waitConfirm < MaxUnconfirmed /\ ToSend(m.ring) # {}
  <2> DEFINE k == QItem_Send(m, QItem_NextToSend(m.ring))
  <2>1. QItem_NextToSend(m.ring) \in ToSend(m.ring)
    BY <1>1, NextToSendOK DEF Well, Shaped, Whole
  <2>2. Onward(m, k)
    BY <1>1, <2>1, SendOnward
  <2>3. n = k \/ n \in CommandQueueEmpty(k)
    BY <1>1 DEF SendNextCommand
  <2> HIDE DEF k
  <2>4. n = k \/ Calm(k, n)
    BY <2>2, <2>3, CommandQueueEmptyCalm DEF Onward
  <2> QED BY <2>2, <2>4, CalmOnward, OnwardTrans
<1>2. CASE ~ /\ Connected(m) /\ m.ring.waitSend > 0
             /\ m.ring.waitConfirm < MaxUnconfirmed /\ ToSend(m.ring) # {}
  BY <1>2, CalmSelf, CalmOnward DEF SendNextCommand
<1> QED BY <1>1, <1>2

LEMMA ProcessAndSendOnward ==
  ASSUME NEW m, Well(m), m.state # "OFF", NEW n \in ProcessAndSend(m)
  PROVE  Onward(m, n)
<1>1. \E k \in ProcessQueue(m) : \E l \in SendNextCommand(k) : n = l \/ n = StartTaskTimer(l)
  BY DEF ProcessAndSend
<1>2. PICK k \in ProcessQueue(m) :
           \E l \in SendNextCommand(k) : n = l \/ n = StartTaskTimer(l)
  BY <1>1
<1>3. PICK l \in SendNextCommand(k) : n = l \/ n = StartTaskTimer(l)
  BY <1>2
<1>4. Onward(m, k)
  BY ProcessQueueCalm, CalmOnward
<1>5. Onward(k, l)
  BY <1>4, SendNextCommandOnward DEF Onward
<1>6. Onward(m, l)
  BY <1>4, <1>5, OnwardTrans
<1>7. Onward(l, StartTaskTimer(l))
  BY <1>6, StartTaskTimerCalm, CalmOnward DEF Onward
<1> QED BY <1>3, <1>6, <1>7, OnwardTrans

----------------------------------------------------------------------------
(* Closing: whatever was queued is reported.                               *)

\* Whoever waits for c hears of it from n.
Told(c, n) == \E st : KillNotices(c, st) \subseteq n.out

\* From m the connection was shut.
Gone(m, n) ==
  /\ Well(n) /\ n.state = "OFF" /\ m.out \subseteq n.out
  /\ \A s \in Active(m.ring) : Told(m.ring.items[s].cmd, n)

LEMMA KillCommandQueueTells ==
  ASSUME NEW m, Shaped(m)
  PROVE  LET n == KillCommandQueue(m)
         IN /\ Shaped(n) /\ n.qaps = <<>> /\ Active(n.ring) = {} /\ m.out \subseteq n.out
            /\ n.state = m.state
            /\ \A s \in Active(m.ring) : Told(m.ring.items[s].cmd, n)
<1> DEFINE n == KillCommandQueue(m)
           Kill(s) == KillNotices(m.ring.items[s].cmd, "ERROR")
           K == UNION {Kill(s) : s \in Active(m.ring)}
           A == {Notice("apsdeDataRequestDone", m.qaps[i], "ERROR") : i \in DOMAIN m.qaps}
<1>1. n = [m EXCEPT !.out = m.out \cup K \cup A, !.ring = Cleared(m.ring), !.qaps = <<>>]
  BY DEF KillCommandQueue
<1>2. Whole(n) /\ n.state = m.state
  BY KillCommandQueueOK DEF Shaped
<1> HIDE DEF A
<1>3. \A s \in Active(m.ring) : Kill(s) \subseteq K
  OBVIOUS
<1> HIDE DEF K
<1>4. /\ n.out = m.out \cup K \cup A /\ n.ring = Cleared(m.ring) /\ n.qaps = <<>>
  BY <1>1 DEF Shaped, Whole, Fields
<1>5. Len(<<>>) = 0
  OBVIOUS
<1>6. Typed(n)
  BY <1>1, <1>5, QueueAssumption DEF Shaped, Typed, Whole, Fields
<1> HIDE DEF n
<1>7. Active(n.ring) = {}
  BY <1>4 DEF Cleared, EmptyRing, Blank, Active, ToSend, InFlight, InState
<1>8. Apart(n.ring)
  BY <1>7 DEF Apart
<1>9. \A s \in Active(m.ring) : Told(m.ring.items[s].cmd, n)
  BY <1>3, <1>4 DEF Told
<1> QED BY <1>2, <1>4, <1>6, <1>7, <1>8, <1>9 DEF Shaped, n

LEMMA OnDeviceDisconnectedTells ==
  ASSUME NEW m, Shaped(m)
  PROVE  Gone(m, OnDeviceDisconnected(m))
<1> DEFINE k == [m EXCEPT !.timer = FALSE, !.state = "OFF", !.com = "Off", !.wire = <<>>]
           n == KillCommandQueue(k)
<1>1. /\ DOMAIN k = Fields /\ k.ring = m.ring /\ k.qaps = m.qaps
      /\ k.state = "OFF" /\ k.com = "Off" /\ k.fails = m.fails /\ k.out = m.out
  BY DEF Shaped, Whole, Fields
<1>2. <<>> \in Seq(Frames) /\ Len(<<>>) = 0
  OBVIOUS
<1>3. Typed(k)
  BY <1>2, QueueAssumption DEF Shaped, Typed, Whole, Fields
<1>4. OnDeviceDisconnected(m) = n
  BY DEF OnDeviceDisconnected
<1> HIDE DEF k
<1>5. Shaped(k)
  BY <1>1, <1>3 DEF Shaped, Whole
<1>6. /\ Shaped(n) /\ n.qaps = <<>> /\ Active(n.ring) = {} /\ k.out \subseteq n.out
      /\ n.state = "OFF" /\ \A s \in Active(k.ring) : Told(k.ring.items[s].cmd, n)
  BY <1>1, <1>5, KillCommandQueueTells
<1> HIDE DEF n
<1>7. Well(n)
  BY <1>6 DEF Well, Shaped, Sound, Shut
<1>8. Gone(m, n)
  BY <1>1, <1>6, <1>7 DEF Gone
<1> QED BY <1>4, <1>8

LEMMA ComExitTells ==
  ASSUME NEW m, Shaped(m), m.state # "OFF"
  PROVE  Gone(m, ComExit(m))
<1> DEFINE k == KillCommandQueue(m)
           n == OnDeviceDisconnected(k)
<1>1. ComExit(m) = n
  BY DEF ComExit
<1>2. /\ Shaped(k) /\ m.out \subseteq k.out
      /\ \A s \in Active(m.ring) : Told(m.ring.items[s].cmd, k)
  BY KillCommandQueueTells
<1> HIDE DEF k
<1>3. Gone(k, n)
  BY <1>2, OnDeviceDisconnectedTells
<1> HIDE DEF n
<1>4. Gone(m, n)
  BY <1>2, <1>3 DEF Gone, Told
<1> QED BY <1>1, <1>4

----------------------------------------------------------------------------
(* Timeouts: a command is given up and reported.                           *)

\* The second answer of the command at s is overdue.
Late(m, s) == /\ m.ring.items[s].state = "WAIT_CONFIRM" /\ m.ring.items[s].late
              /\ m.ring.items[s].retries = MaxSendRetry

\* A turn of the loop in handleTimeouts, at slot s.
Visited(m, n, s) ==
  /\ Well(n) /\ m.out \subseteq n.out
  /\ n.state # "OFF" => \A t \in Active(m.ring) \ {s} :
                          t \in Active(n.ring) /\ n.ring.items[t] = m.ring.items[t]
  /\ \A t \in Active(m.ring) :
       \/ KeptAt(m, n, t)
       \/ Told(m.ring.items[t].cmd, n) /\ (n.state = "OFF" \/ (t = s /\ Late(m, s)))

LEMMA GiveUpVisits ==
  ASSUME NEW m, Well(m), m.state # "OFF", NEW s \in InFlight(m.ring), Late(m, s),
         NEW n \in GiveUp(m, s)
  PROVE  Visited(m, n, s)
<1> DEFINE c == m.ring.items[s].cmd
           killed == KillCommand(m, c, "TIMEOUT")
           Freed(k) == [k EXCEPT !.ring = QItem_Free(k.ring, s), !.fails = k.fails + 1]
<1>1. \E k \in CommandQueueEmpty(killed) :
         n = IF Freed(k).fails >= MaxCommandFails THEN ComExit(Freed(k)) ELSE Freed(k)
  <2>1. killed \in CommandQueueEmpty(killed)
    BY DEF CommandQueueEmpty
  <2>2. CASE c.op = "APS_DATA_REQ"
    BY <2>2 DEF GiveUp
  <2>3. CASE c.op # "APS_DATA_REQ"
    BY <2>1, <2>3 DEF GiveUp
  <2> QED BY <2>2, <2>3
<1>2. Calm(m, killed) /\ killed.ring = m.ring /\ KillNotices(c, "TIMEOUT") \subseteq killed.out
  BY KillCommandCalm
<1> HIDE DEF killed
<1>3. PICK k \in CommandQueueEmpty(killed) :
         n = IF Freed(k).fails >= MaxCommandFails THEN ComExit(Freed(k)) ELSE Freed(k)
  BY <1>1
<1>4. Calm(killed, k) /\ k.ring = m.ring
  BY <1>2, CommandQueueEmptyCalm DEF Calm
<1>5. /\ Well(k) /\ k.state # "OFF" /\ m.out \subseteq k.out
      /\ KillNotices(c, "TIMEOUT") \subseteq k.out
  BY <1>2, <1>4 DEF Calm
<1> DEFINE r == QItem_Free(k.ring, s)
           f == Freed(k)
<1>6. RingInv(r) /\ r.waitConfirm <= MaxUnconfirmed
  <2>1. s \in Active(k.ring) /\ RingInv(k.ring) /\ k.ring.waitConfirm <= MaxUnconfirmed
    BY <1>4, <1>5 DEF Active, Well, Shaped, Whole
  <2>2. RingInv(r) /\ r.waitConfirm = k.ring.waitConfirm - Ind(k.ring.items[s].state, "WAIT_CONFIRM")
    BY <2>1, FreeOK
  <2>3. Ind(k.ring.items[s].state, "WAIT_CONFIRM") \in 0 .. 1 /\ k.ring.waitConfirm \in Nat
    BY <2>1, RingNats DEF Ind
  <2> QED BY <2>1, <2>2, <2>3 DEF MaxUnconfirmed
<1>7. /\ DOMAIN f = Fields /\ f.ring = r /\ f.qaps = k.qaps
      /\ f.state = k.state /\ f.com = k.com /\ f.fails = k.fails + 1 /\ f.out = k.out
  BY <1>5 DEF Well, Shaped, Whole, Fields
<1>8. Active(r) = Active(m.ring) \ {s} /\ \A t \in Active(m.ring) \ {s} : r.items[t] = m.ring.items[t]
  BY <1>4, <1>5, FreeKeeps DEF Active, Well, Shaped, Whole
<1> HIDE DEF r
<1>9. k.fails \in Nat /\ k.fails < MaxCommandFails /\ MaxCommandFails \in Nat
  BY <1>5, QueueAssumption DEF Well, Shaped, Sound, Whole
<1>10. k.fails + 1 <= MaxCommandFails /\ k.fails + 1 \in Nat
  BY <1>9
<1>11. Typed(f)
  BY <1>5, <1>10 DEF Well, Shaped, Whole, Typed, Fields
<1>12. n = IF f.fails >= MaxCommandFails THEN ComExit(f) ELSE f
  BY <1>3 DEF f
<1> HIDE DEF f
<1>13. Apart(f.ring)
  BY <1>5, <1>7, <1>8, <1>4, ApartLess DEF Well, Shaped
<1>14. Whole(f)
  BY <1>5, <1>6, <1>7, <1>10 DEF Well, Shaped, Whole
<1>15. Shaped(f)
  BY <1>11, <1>13, <1>14 DEF Shaped
<1>16. CASE f.fails >= MaxCommandFails
  <2>1. n = ComExit(f)
    BY <1>12, <1>16
  <2>2. Gone(f, n)
    BY <1>5, <1>7, <1>15, <2>1, ComExitTells
  <2>3. Told(c, n)
    BY <1>5, <1>7, <2>2 DEF Gone, Told
  <2> HIDE DEF c
  <2>4. \A t \in Active(m.ring) : Told(m.ring.items[t].cmd, n)
    BY <1>7, <1>8, <2>2, <2>3 DEF Gone, c
  <2> QED BY <1>5, <1>7, <2>2, <2>4 DEF Visited, Gone
<1>17. CASE ~(f.fails >= MaxCommandFails)
  <2>1. f.fails < MaxCommandFails
    BY <1>14, <1>17, QueueAssumption DEF Whole
  <2>2. Well(f) /\ n = f
    BY <1>5, <1>7, <1>12, <1>15, <1>17, <2>1 DEF Well, Shaped, Sound, Shut
  <2>3. Told(c, n)
    BY <1>5, <1>7, <2>2 DEF Told
  <2> QED BY <1>5, <1>7, <1>8, <2>2, <2>3 DEF Visited, KeptAt
<1> QED BY <1>16, <1>17

LEMMA SentAgainVisits ==
  ASSUME NEW m, Well(m), m.state # "OFF", NEW s \in InFlight(m.ring),
         m.ring.items[s].retries < MaxSendRetry
  PROVE  Visited(m, QItem_Send([m EXCEPT !.ring = Requeue(m.ring, s)], s), s)
<1> DEFINE r == Requeue(m.ring, s)
           k == [m EXCEPT !.ring = r]
           n == QItem_Send(k, s)
<1>1. RingInv(r) /\ s \in ToSend(r) /\ r.waitConfirm = m.ring.waitConfirm - 1
  BY RequeueOK DEF Well, Shaped, Whole
<1>2. m.ring.waitConfirm \in Nat /\ m.ring.waitConfirm <= MaxUnconfirmed
  BY RingNats DEF Well, Shaped, Whole
<1>3. /\ Active(r) = Active(m.ring)
      /\ \A t \in Active(m.ring) : /\ r.items[t].cmd = m.ring.items[t].cmd
                                   /\ r.items[t].seq = m.ring.items[t].seq
                                   /\ t # s => r.items[t] = m.ring.items[t]
  BY RequeueKeeps DEF Well, Shaped, Whole
<1> HIDE DEF r
<1>4. r.waitConfirm < MaxUnconfirmed /\ r.waitConfirm <= MaxUnconfirmed
  BY <1>1, <1>2 DEF MaxUnconfirmed
<1>5. Sound(k)
  BY <1>1, <1>4, RingSet DEF Well
<1>6. /\ k.ring = r /\ k.state = m.state /\ k.out = m.out /\ k.qaps = m.qaps /\ Typed(k)
  BY DEF Well, Shaped, Typed, Whole, Fields
<1> HIDE DEF k
<1>7. Apart(r)
  BY <1>3, ApartLess DEF Well, Shaped
<1>8. Well(k)
  BY <1>5, <1>6, <1>7 DEF Well, Shaped, Sound, Shut
<1>9. /\ Onward(k, n) /\ n.state = m.state
      /\ \A t \in Active(r) \ {s} : n.ring.items[t] = r.items[t]
  BY <1>1, <1>4, <1>6, <1>8, SendOnward
<1> HIDE DEF n
<1>10. \A t \in Active(m.ring) : KeptAt(m, n, t)
  BY <1>3, <1>6, <1>9 DEF Onward, KeptAt
<1>11. Visited(m, n, s)
  BY <1>3, <1>6, <1>9, <1>10 DEF Onward, KeptAt, Visited
<1> QED BY <1>11 DEF n, k, r

LEMMA VisitLateVisits ==
  ASSUME NEW m, Well(m), m.state # "OFF", NEW s \in InFlight(m.ring), NEW n \in VisitLate(m, s)
  PROVE  Visited(m, n, s)
<1>1. m.ring.items[s] \in Items /\ m.ring.items[s].state = "WAIT_CONFIRM"
  BY DEF Well, Shaped, Whole, RingInv, Rings, InFlight, InState
<1>2. CASE ~m.ring.items[s].late
  BY <1>2 DEF VisitLate, Visited, KeptAt
<1>3. CASE m.ring.items[s].late /\ m.ring.items[s].retries >= MaxSendRetry
  <2>1. Late(m, s)
    BY <1>1, <1>3 DEF Items, MaxSendRetry, Late
  <2> QED BY <1>3, <2>1, GiveUpVisits DEF VisitLate
<1>4. CASE m.ring.items[s].late /\ ~(m.ring.items[s].retries >= MaxSendRetry)
  <2>1. m.ring.items[s].retries < MaxSendRetry
    BY <1>1, <1>4 DEF Items, MaxSendRetry
  <2>2. n = QItem_Send([m EXCEPT !.ring = Requeue(m.ring, s)], s)
    BY <1>4 DEF VisitLate
  <2> QED BY <2>1, <2>2, SentAgainVisits
<1> QED BY <1>2, <1>3, <1>4

\* What a timer may do to the commands.
Timed(m, n) ==
  /\ Well(n) /\ m.out \subseteq n.out
  /\ \A t \in Active(m.ring) :
       \/ KeptAt(m, n, t)
       \/ Told(m.ring.items[t].cmd, n) /\ (n.state = "OFF" \/ Late(m, t))

LEMMA HandleTimeoutsTimed ==
  ASSUME NEW m, Well(m), m.state # "OFF", NEW n \in HandleTimeouts(m)
  PROVE  Timed(m, n)
<1>1. CASE m.ring.waitConfirm = 0 \/ InFlight(m.ring) = {}
  <2>1. n = m
    BY <1>1 DEF HandleTimeouts
  <2> QED BY <2>1 DEF Timed, KeptAt
<1>2. CASE ~(m.ring.waitConfirm = 0 \/ InFlight(m.ring) = {})
  <2> DEFINE a == Newest(m.ring, InFlight(m.ring))
             Rest(k) == InFlight(k.ring) \ {a}
  <2>1. a \in InFlight(m.ring)
    BY <1>2, NewestOK DEF Well, Shaped, Whole, RingInv, InFlight, InState
  <2>2. \E k \in VisitLate(m, a) :
          n \in IF k.state = "OFF" \/ k.ring.waitConfirm <= 1 \/ Rest(k) = {} THEN {k}
                ELSE VisitLate(k, Newest(k.ring, Rest(k)))
    BY <1>2 DEF HandleTimeouts
  <2> HIDE DEF a
  <2>3. PICK k \in VisitLate(m, a) :
          n \in IF k.state = "OFF" \/ k.ring.waitConfirm <= 1 \/ Rest(k) = {} THEN {k}
                ELSE VisitLate(k, Newest(k.ring, Rest(k)))
    BY <2>2
  <2>4. Visited(m, k, a)
    BY <2>1, VisitLateVisits
  <2>5. CASE k.state = "OFF" \/ k.ring.waitConfirm <= 1 \/ Rest(k) = {}
    BY <2>3, <2>4, <2>5 DEF Visited, Timed
  <2>6. CASE ~(k.state = "OFF" \/ k.ring.waitConfirm <= 1 \/ Rest(k) = {})
    <3> DEFINE b == Newest(k.ring, Rest(k))
    <3>1. Rest(k) \subseteq Slots /\ Rest(k) # {} /\ k.ring \in Rings
      BY <2>4, <2>6 DEF Visited, Well, Shaped, Whole, RingInv, InFlight, InState
    <3>2. b \in Rest(k)
      BY <3>1, NewestOK
    <3> HIDE DEF b
    <3>3. b \in InFlight(k.ring) /\ b # a /\ k.state # "OFF"
      BY <2>6, <3>2
    <3>4. n \in VisitLate(k, b)
      BY <2>3, <2>6 DEF b
    <3>5. Visited(k, n, b)
      BY <2>4, <3>3, <3>4, VisitLateVisits DEF Visited
    <3>6. ASSUME NEW t \in Active(m.ring)
          PROVE  \/ KeptAt(m, n, t)
                 \/ Told(m.ring.items[t].cmd, n) /\ (n.state = "OFF" \/ Late(m, t))
      <4>1. CASE KeptAt(m, k, t)
        <5>1. \/ KeptAt(k, n, t)
              \/ Told(k.ring.items[t].cmd, n) /\ (n.state = "OFF" \/ (t = b /\ Late(k, b)))
          BY <3>5, <4>1 DEF Visited, KeptAt
        <5>2. t = b => k.ring.items[t] = m.ring.items[t]
          BY <2>4, <3>3 DEF Visited
        <5> QED BY <4>1, <5>1, <5>2 DEF KeptAt, Late
      <4>2. CASE ~KeptAt(m, k, t)
        <5>1. Told(m.ring.items[t].cmd, k) /\ t = a /\ Late(m, a)
          BY <2>4, <3>3, <4>2 DEF Visited
        <5> QED BY <3>5, <5>1 DEF Visited, Told
      <4> QED BY <4>1, <4>2
    <3> QED BY <2>4, <3>5, <3>6 DEF Visited, Timed
  <2> QED BY <2>5, <2>6
<1> QED BY <1>1, <1>2

LEMMA OnTimerTimed ==
  ASSUME NEW m, Well(m), m.state # "OFF", NEW n \in OnTimer(m)
  PROVE  Timed(m, n)
<1>1. ASSUME NEW k \in Poll(m)
      PROVE  Calm(m, Proceed(k)) /\ Proceed(k).ring = m.ring
  <2> DEFINE asked == [m EXCEPT !.needStatus = TRUE]
  <2>1. k = m \/ k = asked \/ k \in CommandQueueEmpty(asked)
    <3>1. CASE m.ring.waitConfirm > 0
      <4>1. ~(m.ring.waitConfirm = 0)
        BY <3>1
      <4> QED BY <3>1, <4>1 DEF Poll
    <3>2. CASE m.ring.waitConfirm = 0 /\ m.statusOld
      <4>1. ~(m.ring.waitConfirm > 0)
        BY <3>2
      <4> QED BY <3>2, <4>1 DEF Poll
    <3>3. CASE ~(m.ring.waitConfirm > 0) /\ ~(m.ring.waitConfirm = 0 /\ m.statusOld)
      BY <3>3 DEF Poll
    <3> QED BY <3>1, <3>2, <3>3
  <2>2. SameCore(m, asked) /\ Typed(asked) /\ asked.wire = m.wire /\ asked.out = m.out
    BY DEF SameCore, Well, Shaped, Typed, Whole, Fields
  <2> HIDE DEF asked
  <2>3. Calm(m, asked) /\ asked.ring = m.ring /\ Well(asked)
    BY <2>2, SoftCalm DEF SameCore, Calm
  <2>4. Calm(m, k) /\ k.ring = m.ring /\ Well(k)
    BY <2>1, <2>3, CommandQueueEmptyCalm, CalmTrans, CalmSelf DEF Calm
  <2>5. Calm(k, StartTaskTimer(k)) /\ StartTaskTimer(k).ring = k.ring
    BY <2>4, StartTaskTimerCalm, StartTaskTimerOK DEF Well, Shaped, Whole, SameCore
  <2> QED BY <2>4, <2>5, CalmTrans DEF Proceed
<1>2. n \in HandleTimeouts(m) \/ \E k \in Poll(m) : n \in HandleTimeouts(Proceed(k))
  BY DEF OnTimer
<1>3. ASSUME NEW k, Calm(m, k), k.ring = m.ring, n \in HandleTimeouts(k)
      PROVE  Timed(m, n)
  <2>1. Timed(k, n)
    BY <1>3, HandleTimeoutsTimed DEF Calm
  <2> QED BY <1>3, <2>1 DEF Timed, Calm, KeptAt, Late
<1> QED BY <1>1, <1>2, <1>3, CalmSelf

----------------------------------------------------------------------------
(* Packets: one command is answered, if any.                               *)

LEMMA SetDeviceStateCalm ==
  ASSUME NEW m, Well(m), NEW net \in Nets
  PROVE  Calm(m, SetDeviceState(m, net))
<1> DEFINE n == [m EXCEPT !.dev = net]
<1>1. SameCore(m, n) /\ Typed(n) /\ n.wire = m.wire /\ n.out = m.out
  BY DEF SameCore, Well, Shaped, Typed, Whole, Fields
<1>2. SetDeviceState(m, net) = m \/ SetDeviceState(m, net) = ReadParameters(n)
  BY DEF SetDeviceState
<1> HIDE DEF n
<1>3. Calm(m, n) /\ Well(n)
  BY <1>1, SoftCalm DEF Calm
<1> QED BY <1>2, <1>3, ReadParametersCalm, CalmTrans, CalmSelf

LEMMA CheckStatus0Calm ==
  ASSUME NEW m, Well(m), m.state # "OFF", NEW st \in StatusBytes
  PROVE  Calm(m, CheckStatus0(m, st))
<1> DEFINE n == [m EXCEPT !.net = st.net, !.conf = st.conf, !.ind = st.ind, !.free = st.free]
           k == IF st.config THEN ReadParameters(n) ELSE n
           d == SetDeviceState(k, k.net)
<1>1. st.net \in Nets /\ st.conf \in BOOLEAN /\ st.ind \in BOOLEAN /\ st.free \in BOOLEAN
  BY DEF StatusBytes
<1>2. SameCore(m, n) /\ Typed(n) /\ n.wire = m.wire /\ n.out = m.out
  BY <1>1 DEF SameCore, Well, Shaped, Typed, Whole, Fields
<1>3. CheckStatus0(m, st) = IF st.net # m.net THEN NetChanged(k, m.net) ELSE k
  BY DEF CheckStatus0
<1> HIDE DEF n
<1>4. Calm(m, n) /\ Well(n)
  BY <1>2, SoftCalm DEF Calm
<1>5. Calm(n, k) /\ k.net \in Nets
  BY <1>4, ReadParametersCalm, CalmSelf DEF Calm, Well, Shaped, Typed
<1> HIDE DEF k
<1>6. Calm(k, d)
  BY <1>5, SetDeviceStateCalm DEF Calm
<1>7. \/ NetChanged(k, m.net) = d
      \/ NetChanged(k, m.net) = ReadParameters(d)
      \/ NetChanged(k, m.net) = AllocEnqueue(d, Cmd("ZDO_NET_CONFIRM", 0))
  <2>1. CASE k.net = "ONLINE" /\ m.net = "JOINING"
    BY <2>1 DEF NetChanged
  <2>2. CASE k.net = "OFFLINE" /\ m.net = "JOINING"
    BY <2>2 DEF NetChanged
  <2>3. CASE ~(k.net = "ONLINE" /\ m.net = "JOINING") /\ ~(k.net = "OFFLINE" /\ m.net = "JOINING")
    BY <2>3 DEF NetChanged
  <2> QED BY <2>1, <2>2, <2>3
<1> HIDE DEF d
<1>8. Calm(m, k) /\ Calm(m, d) /\ Well(d) /\ d.state # "OFF"
  BY <1>4, <1>5, <1>6, CalmTrans DEF Calm
<1>9. Calm(d, AllocEnqueue(d, Cmd("ZDO_NET_CONFIRM", 0)))
  BY <1>8, MayPlain, AllocEnqueueCalm
<1>10. Calm(m, NetChanged(k, m.net))
  BY <1>7, <1>8, <1>9, ReadParametersCalm, CalmTrans
<1> QED BY <1>3, <1>8, <1>10

LEMMA CheckStatus1Calm ==
  ASSUME NEW m, Well(m), NEW st \in StatusBytes
  PROVE  Calm(m, CheckStatus1(m, st))
<1> DEFINE n == [m EXCEPT !.ipan = st.ipan, !.ipanInd = st.ipanInd, !.ipanConf = st.ipanConf]
           told == Notify(n, Notice("startInterpanModeConfirm", 0,
                                    IF st.ipan = "CONNECTED" THEN "SUCCESS" ELSE "FAILED"))
<1>1. CASE st.ipan = NoIpan
  BY <1>1, CalmSelf DEF CheckStatus1
<1>2. CASE st.ipan # NoIpan
  <2>1. st.ipan \in IpanStates /\ st.ipanInd \in BOOLEAN /\ st.ipanConf \in BOOLEAN
    BY <1>2 DEF StatusBytes, IpanStates
  <2>2. SameCore(m, n) /\ Typed(n) /\ n.wire = m.wire /\ n.out = m.out
    BY <2>1 DEF SameCore, Well, Shaped, Typed, Whole, Fields
  <2>3. CheckStatus1(m, st) \in {n, told}
    BY <1>2 DEF CheckStatus1
  <2> HIDE DEF n
  <2>4. Calm(m, n) /\ Well(n)
    BY <2>2, SoftCalm DEF Calm
  <2>5. Calm(n, told)
    BY <2>4, NotifyCalm
  <2> QED BY <2>3, <2>4, <2>5, CalmTrans
<1> QED BY <1>1, <1>2

LEMMA GreetCalm ==
  ASSUME NEW m, Well(m)
  PROVE  Calm(m, Greet(m))
<1> DEFINE Ask(n, op) == IF Connected(n) /\ HasFreeItem(n.ring)
                         THEN ItemAdded(AllocEnqueue(n, Cmd(op, 0))) ELSE n
           a == Ask(m, "VERSION")
           b == Ask(a, "FEATURE")
<1>1. ASSUME NEW n, Well(n), NEW op \in {"VERSION", "FEATURE"}
      PROVE  Calm(n, Ask(n, op))
  <2>1. CASE Connected(n)
    <3>1. Calm(n, AllocEnqueue(n, Cmd(op, 0)))
      BY <1>1, <2>1, MayPlain, AllocEnqueueCalm DEF Connected
    <3>2. Calm(n, ItemAdded(AllocEnqueue(n, Cmd(op, 0))))
      BY <3>1, ItemAddedCalm, CalmTrans DEF Calm
    <3> QED BY <1>1, <3>2, CalmSelf
  <2>2. CASE ~Connected(n)
    BY <1>1, <2>2, CalmSelf
  <2> QED BY <2>1, <2>2
<1>2. Greet(m) = IF m.first THEN [b EXCEPT !.first = FALSE] ELSE m
  BY DEF Greet
<1> HIDE DEF Ask
<1>3. Calm(m, a)
  BY <1>1
<1>4. Calm(a, b)
  BY <1>1, <1>3 DEF Calm
<1>5. Calm(m, b) /\ Well(b)
  BY <1>3, <1>4, CalmTrans DEF Calm
<1> HIDE DEF b
<1> DEFINE g == [b EXCEPT !.first = FALSE]
<1>6. SameCore(b, g) /\ Typed(g) /\ g.wire = b.wire /\ g.out = b.out
  BY <1>5 DEF SameCore, Well, Shaped, Typed, Whole, Fields
<1> HIDE DEF g
<1>7. Calm(m, g)
  BY <1>5, <1>6, SoftCalm, CalmTrans
<1> QED BY <1>2, <1>7, CalmSelf DEF g

\* From m to n a command was answered, if any.
Heard(m, n, op, q) ==
  /\ Well(n) /\ n.wire = m.wire /\ m.out \subseteq n.out
  /\ n.state = "OFF" <=> m.state = "OFF"
  /\ \A t \in Active(m.ring) : KeptAt(m, n, t) \/ t \in Confirms(m.ring, op, q)

LEMMA ConfirmedHears ==
  ASSUME NEW m, Well(m), NEW p
  PROVE  Heard(m, Confirmed(m, p), p.op, p.seq)
<1> DEFINE r == QItem_Confirm(m.ring, p.op, p.seq)
           f == IF Confirms(m.ring, p.op, p.seq) = {} THEN m.fails ELSE 0
           n == [m EXCEPT !.ring = r, !.fails = f]
           quiet == n.quiet \/ n.ring.waitConfirm = 0
           k == Confirmed(m, p)
<1>1. Sound(k)
  BY ConfirmedOK DEF Well
<1>2. quiet \in BOOLEAN
  OBVIOUS
<1>3. f <= MaxCommandFails
  BY QueueAssumption DEF Well, Shaped, Typed
<1>4. k = [n EXCEPT !.quiet = quiet]
  BY DEF Confirmed
<1> HIDE DEF r, f, quiet
<1>5. /\ DOMAIN n = Fields /\ n.ring = r /\ n.qaps = m.qaps /\ n.state = m.state
      /\ n.wire = m.wire /\ n.out = m.out /\ Typed(n)
  BY <1>3 DEF Well, Shaped, Whole, Typed, Fields
<1> HIDE DEF n
<1>6. /\ k.ring = r /\ k.qaps = m.qaps /\ k.state = m.state
      /\ k.wire = m.wire /\ k.out = m.out /\ Typed(k)
  BY <1>2, <1>4, <1>5 DEF Typed, Fields
<1> HIDE DEF k
<1>7. /\ Active(r) \subseteq Active(m.ring)
      /\ \A t \in Active(m.ring) : \/ t \in Confirms(m.ring, p.op, p.seq)
                                   \/ t \in Active(r) /\ r.items[t] = m.ring.items[t]
      /\ \A t \in Active(r) : r.items[t] = m.ring.items[t]
  BY ConfirmKeeps DEF r, Well, Shaped, Whole
<1>8. Apart(r)
  BY <1>7, ApartLess DEF Well, Shaped
<1>9. Shut(k)
  BY <1>6, <1>7 DEF Well, Shut
<1>10. Well(k)
  BY <1>1, <1>6, <1>8, <1>9 DEF Well, Shaped, Sound
<1>11. Heard(m, k, p.op, p.seq)
  BY <1>6, <1>7, <1>10 DEF Heard, KeptAt
<1> QED BY <1>11 DEF k

LEMMA HeardCalm ==
  ASSUME NEW k, NEW m, NEW n, NEW op, NEW q, Heard(k, m, op, q), Calm(m, n)
  PROVE  Heard(k, n, op, q)
BY DEF Heard, Calm, KeptAt

LEMMA DispatchCalm ==
  ASSUME NEW m, Well(m), m.state # "OFF", NEW p, p.st \in StatusBytes, NEW n \in Dispatch(m, p)
  PROVE  Calm(m, n)
<1> DEFINE status == CheckStatus0(m, p.st)
           answered == [status EXCEPT !.needStatus = FALSE]
           answered1 == CheckStatus1(answered, p.st)
<1>1. Calm(m, answered) /\ Well(answered)
  <2>1. Calm(m, status) /\ Well(status)
    BY CheckStatus0Calm DEF Calm
  <2> HIDE DEF status
  <2>2. /\ SameCore(status, answered) /\ Typed(answered) /\ answered.wire = status.wire
        /\ answered.out = status.out
    BY <2>1 DEF SameCore, Well, Shaped, Typed, Whole, Fields
  <2> HIDE DEF answered
  <2> QED BY <2>1, <2>2, SoftCalm, CalmTrans DEF Calm
<1> HIDE DEF answered
<1>2. Calm(m, answered1) /\ Well(answered1)
  BY <1>1, CheckStatus1Calm, CalmTrans DEF Calm
<1> HIDE DEF answered1
<1>3. ASSUME NEW k, Calm(m, k), NEW x
      PROVE  Calm(m, Notify(k, x))
  BY <1>3, NotifyCalm, CalmTrans DEF Calm
<1>4. ASSUME NEW k, Calm(m, k)
      PROVE  /\ Calm(m, [k EXCEPT !.statusOld = FALSE]) /\ Calm(m, [k EXCEPT !.needStatus = TRUE])
             /\ Calm(m, [k EXCEPT !.ipan = "CONNECTING"])
  <2> DEFINE a == [k EXCEPT !.statusOld = FALSE]
             b == [k EXCEPT !.needStatus = TRUE]
             c == [k EXCEPT !.ipan = "CONNECTING"]
  <2>1. Well(k)
    BY <1>4 DEF Calm
  <2>2. SameCore(k, a) /\ Typed(a) /\ a.wire = k.wire /\ a.out = k.out
    BY <2>1 DEF SameCore, Well, Shaped, Typed, Whole, Fields
  <2>3. SameCore(k, b) /\ Typed(b) /\ b.wire = k.wire /\ b.out = k.out
    BY <2>1 DEF SameCore, Well, Shaped, Typed, Whole, Fields
  <2>4. SameCore(k, c) /\ Typed(c) /\ c.wire = k.wire /\ c.out = k.out
    BY <2>1 DEF SameCore, Well, Shaped, Typed, Whole, Fields, IpanStates
  <2> HIDE DEF a, b, c
  <2>5. Calm(k, a) /\ Calm(k, b) /\ Calm(k, c)
    BY <2>1, <2>2, <2>3, <2>4, SoftCalm
  <2>6. Calm(m, a) /\ Calm(m, b) /\ Calm(m, c)
    BY <1>4, <2>5, CalmTrans
  <2> QED BY <2>6 DEF a, b, c
<1>5. ASSUME NEW k, Calm(m, k), n \in CommandQueueEmpty(k)
      PROVE  Calm(m, n)
  BY <1>5, CommandQueueEmptyCalm, CalmTrans DEF Calm
<1>6. Calm(m, m)
  BY CalmSelf
<1>7. CASE p.op \in {"STATUS", "STATUS_CHANGE"}
  <2>1. n = [answered1 EXCEPT !.statusOld = FALSE]
    BY <1>7 DEF Dispatch, StatusDone, Answered1, Answered, answered, answered1
  <2> QED BY <1>2, <1>4, <2>1
<1>8. CASE p.op = "VERSION"
  <2>1. n = [m EXCEPT !.needStatus = TRUE]
    BY <1>8 DEF Dispatch, StatusDone, Answered1, Answered
  <2> QED BY <1>4, <1>6, <2>1
<1>9. CASE p.op = "APS_DATA_REQ"
  <2>1. n = answered \/ n = Notify(answered, Notice("apsdeDataRequestDone", p.arg, "SUCCESS"))
    BY <1>9 DEF Dispatch, ApsDone, Answered, answered
  <2> QED BY <1>1, <1>3, <2>1
<1>10. CASE p.op = "APS_DATA_CONFIRM"
  <2>1. n = answered \/ n \in CommandQueueEmpty(answered)
    BY <1>10 DEF Dispatch, ApsDone, Answered, answered
  <2> QED BY <1>1, <1>5, <2>1
<1>11. CASE p.op = "APS_DATA_INDICATION"
  <2>1. n = answered \/ \E k \in Indicate(answered) : n \in CommandQueueEmpty(k)
    BY <1>11 DEF Dispatch, ApsDone, Answered, answered
  <2>2. \A k \in Indicate(answered) : Calm(m, k)
    BY <1>1, SetDeviceStateCalm, CalmTrans DEF Indicate, Nets
  <2> QED BY <1>1, <1>5, <2>1, <2>2
<1>12. CASE p.op = "INTERPAN_INDICATION"
  BY <1>2, <1>12 DEF Dispatch, IpanDone, Answered1, Answered, answered, answered1
<1>13. CASE p.op = "INTERPAN_CONFIRM"
  <2>1. \E x : n = Notify(answered1, x)
    BY <1>13 DEF Dispatch, IpanDone, Answered1, Answered, answered, answered1
  <2> QED BY <1>2, <1>3, <2>1
<1>14. CASE p.op = "START_INTERPAN_MODE"
  <2>1. n = [m EXCEPT !.ipan = "CONNECTING"] \/ \E x : n = Notify(m, x)
    BY <1>14 DEF Dispatch, IpanDone, Answered1, Answered
  <2> QED BY <1>3, <1>4, <1>6, <2>1
<1>15. CASE p.op \in {"SEND_INTERPAN_REQ", "WRITE_PARAM"}
  <2>1. n = m \/ \E x : n = Notify(m, x)
    BY <1>15 DEF Dispatch, ParamDone, IpanDone
  <2> QED BY <1>3, <1>6, <2>1
<1>16. CASE p.op = "READ_PARAM"
  <2>1. \E x : n = Notify(m, x) \/ n = Notify(ReadParameter(m, ParamKey), x)
    BY <1>16 DEF Dispatch, ParamDone
  <2>2. Calm(m, ReadParameter(m, ParamKey))
    BY ReadParameterCalm
  <2> QED BY <1>3, <1>6, <2>1, <2>2
<1>17. CASE p.op \notin {"STATUS", "STATUS_CHANGE", "VERSION", "APS_DATA_REQ", "APS_DATA_CONFIRM",
                         "APS_DATA_INDICATION", "INTERPAN_INDICATION", "INTERPAN_CONFIRM",
                         "START_INTERPAN_MODE", "SEND_INTERPAN_REQ", "WRITE_PARAM", "READ_PARAM"}
  BY <1>6, <1>17 DEF Dispatch
<1> QED BY <1>7, <1>8, <1>9, <1>10, <1>11, <1>12, <1>13, <1>14, <1>15, <1>16, <1>17

LEMMA ProcessPackedHears ==
  ASSUME NEW m, Well(m), NEW p, p.st \in StatusBytes, NEW n \in ProcessPacked(m, p)
  PROVE  /\ Heard(m, n, p.op, p.seq)
         /\ m.state = "OFF" => \A t \in Active(m.ring) : KeptAt(m, n, t)
<1>1. CASE m.state \in {"OFF", "CONNECTING"}
  <2>1. n = m
    BY <1>1 DEF ProcessPacked
  <2> QED BY <2>1 DEF Heard, KeptAt
<1>2. CASE m.state \notin {"OFF", "CONNECTING"}
  <2> DEFINE c == Confirmed(m, p)
             g == Greet(c)
  <2>1. \E k \in Dispatch(g, p) : n = k \/ n = StartTaskTimer(k)
    BY <1>2 DEF ProcessPacked
  <2>2. PICK k \in Dispatch(g, p) : n = k \/ n = StartTaskTimer(k)
    BY <2>1
  <2>3. Heard(m, c, p.op, p.seq)
    BY ConfirmedHears
  <2> HIDE DEF c
  <2>4. Calm(c, g) /\ Well(g) /\ g.state # "OFF"
    BY <1>2, <2>3, GreetCalm DEF Heard, Calm
  <2> HIDE DEF g
  <2>5. Calm(g, k)
    BY <2>4, DispatchCalm
  <2>6. Calm(k, StartTaskTimer(k))
    BY <2>5, StartTaskTimerCalm DEF Calm
  <2>7. Calm(c, n)
    BY <2>2, <2>4, <2>5, <2>6, CalmTrans
  <2> QED BY <1>2, <2>3, <2>7, HeardCalm
<1> QED BY <1>1, <1>2

----------------------------------------------------------------------------
(* The steps.                                                              *)

\* A command's answer has come.
AnsweredNow(s) ==
  /\ Master.ring.items[s].state = "WAIT_CONFIRM"
  /\ Master.wire # <<>> /\ Master'.wire = Tail(Master.wire) /\ Master'.wire # Master.wire
  /\ Head(Master.wire).op = Master.ring.items[s].cmd.op
  /\ Head(Master.wire).seq = Master.ring.items[s].seq
  /\ Master'.state # "OFF"

\* What becomes of the command at s: it stays, it is answered, or it is given
\* up and reported.
Fate(s) ==
  \/ KeptAt(Master, Master', s)
  \/ AnsweredNow(s)
  \/ /\ Told(Master.ring.items[s].cmd, Master')
     /\ Master'.state = "OFF" \/ Late(Master, s)

LEMMA QuietlyIs ==
  ASSUME Well(Master)
  PROVE  /\ Well(Quietly) /\ Quietly.ring = Master.ring /\ Quietly.wire = Master.wire
         /\ Quietly.state = Master.state /\ Quietly.com = Master.com /\ Quietly.qaps = Master.qaps
         /\ Quietly.net = Master.net /\ Quietly.fails = Master.fails
<1> DEFINE q == Quietly
<1>1. /\ SameCore(Master, q) /\ Typed(q) /\ q.wire = Master.wire /\ q.net = Master.net
      /\ DOMAIN q = Fields
  BY DEF Quietly, SameCore, Well, Shaped, Typed, Whole, Fields
<1> HIDE DEF q
<1>2. Whole(q) /\ Sound(q)
  BY <1>1, CoreOK DEF Well, Shaped
<1>3. Well(q)
  BY <1>1, <1>2 DEF Well, Shaped, Shut, SameCore
<1> QED BY <1>1, <1>3 DEF SameCore, q

\* Steps that keep every command.
LEMMA KeptFate ==
  ASSUME Well(Master), NEW m, m.ring = Master.ring, Onward(m, Master')
  PROVE  Well(Master') /\ \A s \in Active(Master.ring) : Fate(s)
BY DEF Onward, KeptAt, Fate

LEMMA CalmFate ==
  ASSUME Well(Master), NEW m, m.ring = Master.ring, Calm(m, Master')
  PROVE  Well(Master') /\ \A s \in Active(Master.ring) : Fate(s)
BY KeptFate, CalmOnward

LEMMA OpenSerialFate ==
  ASSUME Well(Master), OpenSerial
  PROVE  Well(Master') /\ \A s \in Active(Master.ring) : Fate(s)
<1> DEFINE q == Quietly
<1>1. Master' = [q EXCEPT !.state = "CONNECTING", !.com = "Opening", !.first = TRUE,
                          !.quiet = TRUE, !.statusOld = TRUE, !.fails = 0]
  BY DEF OpenSerial, q
<1> HIDE DEF q
<1>2. Well(q) /\ q.ring = Master.ring
  BY QuietlyIs DEF q
<1>3. /\ DOMAIN Master' = Fields /\ Master'.state = "CONNECTING" /\ Master'.ring = q.ring
      /\ Master'.fails = 0 /\ Master'.qaps = q.qaps
  BY <1>1, <1>2 DEF Well, Shaped, Whole, Fields
<1>4. Typed(Master')
  BY <1>1, <1>2, QueueAssumption DEF Well, Shaped, Whole, Typed, Fields
<1>5. Well(Master')
  BY <1>2, <1>3, <1>4, QueueAssumption DEF Well, Shaped, Sound, Whole, Shut
<1> QED BY <1>2, <1>3, <1>5 DEF Fate, KeptAt

LEMMA OnDeviceConnectedFate ==
  ASSUME Well(Master), OnDeviceConnected
  PROVE  Well(Master') /\ \A s \in Active(Master.ring) : Fate(s)
<1> DEFINE q == Quietly
           k == [q EXCEPT !.com = "RxTx", !.needStatus = TRUE, !.state = "IDLE"]
<1>1. Master' = StartTaskTimer(k) /\ Master.com = "Opening"
  BY DEF OnDeviceConnected, q
<1> HIDE DEF q
<1>2. Well(q) /\ q.ring = Master.ring /\ q.state # "OFF"
  BY <1>1, QuietlyIs DEF q, Well, Shaped, Whole
<1>3. /\ DOMAIN k = Fields /\ k.state = "IDLE" /\ k.ring = q.ring /\ k.qaps = q.qaps
      /\ k.fails = q.fails
  BY <1>2 DEF Well, Shaped, Whole, Fields
<1>4. Typed(k)
  BY <1>2 DEF Well, Shaped, Whole, Typed, Fields
<1> HIDE DEF k
<1>5. Well(k)
  BY <1>2, <1>3, <1>4 DEF Well, Shaped, Sound, Whole, Shut
<1>6. Calm(k, Master')
  BY <1>1, <1>5, StartTaskTimerCalm
<1> QED BY <1>2, <1>3, <1>6, CalmFate

LEMMA LinkLostFate ==
  ASSUME Well(Master), LinkLost
  PROVE  Well(Master') /\ \A s \in Active(Master.ring) : Fate(s)
<1>1. Gone(Quietly, Master')
  BY QuietlyIs, OnDeviceDisconnectedTells DEF LinkLost, Well
<1> QED BY <1>1, QuietlyIs DEF Gone, Fate

LEMMA DevDisconnectClickedFate ==
  ASSUME Well(Master), DevDisconnectClicked
  PROVE  Well(Master') /\ \A s \in Active(Master.ring) : Fate(s)
<1> DEFINE q == Quietly
           k == [q EXCEPT !.closing = TRUE]
<1>1. Master' = SetDeviceState(k, "OFFLINE")
  BY DEF DevDisconnectClicked, q
<1> HIDE DEF q
<1>2. Well(q) /\ q.ring = Master.ring
  BY QuietlyIs DEF q
<1>3. SameCore(q, k) /\ Typed(k) /\ k.wire = q.wire /\ k.out = q.out
  BY <1>2 DEF SameCore, Well, Shaped, Typed, Whole, Fields
<1> HIDE DEF k
<1>4. Well(k) /\ k.ring = Master.ring
  BY <1>2, <1>3, SoftCalm DEF Calm, SameCore
<1>5. Calm(k, Master')
  BY <1>1, <1>4, SetDeviceStateCalm DEF Nets
<1> QED BY <1>4, <1>5, CalmFate

LEMMA CloseByUserFate ==
  ASSUME Well(Master), CloseByUser
  PROVE  Well(Master') /\ \A s \in Active(Master.ring) : Fate(s)
<1> DEFINE q == Quietly
           k == [q EXCEPT !.closing = FALSE]
<1>1. Master' = ComExit(k)
  BY DEF CloseByUser, q
<1> HIDE DEF q
<1>2. Well(q) /\ q.ring = Master.ring
  BY QuietlyIs DEF q
<1>3. SameCore(q, k) /\ Typed(k) /\ k.wire = q.wire /\ k.out = q.out
  BY <1>2 DEF SameCore, Well, Shaped, Typed, Whole, Fields
<1> HIDE DEF k
<1>4. Well(k) /\ k.ring = Master.ring
  BY <1>2, <1>3, SoftCalm DEF Calm, SameCore
<1>5. CASE k.state = "OFF"
  <2>1. Master' = k
    BY <1>1, <1>5 DEF ComExit
  <2> QED BY <1>4, <2>1, CalmSelf, CalmFate
<1>6. CASE k.state # "OFF"
  <2>1. Gone(k, Master')
    BY <1>1, <1>4, <1>6, ComExitTells DEF Well
  <2> QED BY <1>4, <2>1 DEF Gone, Fate
<1> QED BY <1>5, <1>6

LEMMA TaskTimerFiredFate ==
  ASSUME Well(Master), TaskTimerFired
  PROVE  Well(Master') /\ \A s \in Active(Master.ring) : Fate(s)
<1> DEFINE q == Quietly
           m == [q EXCEPT !.timer = FALSE]
           k == [m EXCEPT !.state = "IDLE"]
<1>1. Well(q) /\ q.ring = Master.ring
  BY QuietlyIs
<1>2. \/ m.state = "OFF" /\ Master' = m
      \/ m.state = "CONNECTING" /\ Master' = k
      \/ m.state = "IDLE" /\ Master' \in ProcessAndSend(m)
  <2>1. m.state \in {"OFF", "CONNECTING", "IDLE"}
    BY <1>1 DEF Well, Shaped, Whole, Fields
  <2>2. CASE m.state = "OFF"
    BY <2>2 DEF TaskTimerFired
  <2>3. CASE m.state = "CONNECTING"
    BY <2>3 DEF TaskTimerFired
  <2>4. CASE m.state = "IDLE"
    BY <2>4 DEF TaskTimerFired
  <2> QED BY <2>1, <2>2, <2>3, <2>4
<1> HIDE DEF q
<1>3. SameCore(q, m) /\ Typed(m) /\ m.wire = q.wire /\ m.out = q.out
  BY <1>1 DEF SameCore, Well, Shaped, Typed, Whole, Fields
<1> HIDE DEF m
<1>4. Well(m) /\ m.ring = Master.ring
  BY <1>1, <1>3, SoftCalm DEF Calm, SameCore
<1>5. CASE m.state = "OFF" /\ Master' = m
  BY <1>4, <1>5, CalmSelf, CalmFate
<1>6. CASE m.state = "CONNECTING" /\ Master' = k
  <2>1. Master' = ItemAdded(m)
    BY <1>6 DEF ItemAdded
  <2>2. Calm(m, Master')
    BY <1>4, <2>1, ItemAddedCalm
  <2> QED BY <1>4, <2>2, CalmFate
<1>7. CASE m.state = "IDLE" /\ Master' \in ProcessAndSend(m)
  <2>1. Onward(m, Master')
    BY <1>4, <1>7, ProcessAndSendOnward
  <2> QED BY <1>4, <2>1, KeptFate
<1> QED BY <1>2, <1>5, <1>6, <1>7

LEMMA TimerEventFate ==
  ASSUME Well(Master), TimerEvent
  PROVE  Well(Master') /\ \A s \in Active(Master.ring) : Fate(s)
<1>1. Timed(Quietly, Master')
  BY QuietlyIs, OnTimerTimed DEF TimerEvent
<1> QED BY <1>1, QuietlyIs DEF Timed, Fate, KeptAt, Late

LEMMA AnswerFate ==
  ASSUME Well(Master), Answer
  PROVE  Well(Master') /\ \A s \in Active(Master.ring) : Fate(s)
<1> DEFINE q == Quietly
           m == [q EXCEPT !.wire = Tail(q.wire)]
           f == Head(Master.wire)
<1>1. Well(q) /\ q.ring = Master.ring /\ q.wire = Master.wire /\ q.state = Master.state
  BY QuietlyIs
<1>2. PICK st \in Statuses, ok \in BOOLEAN :
           Master' \in ProcessPacked(m, [op |-> f.op, seq |-> f.seq, arg |-> f.arg, ok |-> ok, st |-> st])
  BY DEF Answer
<1>3. /\ Master.wire \in Seq(Frames) /\ Master.wire # <<>> /\ Len(Master.wire) <= WireLen
  BY DEF Answer, Well, Shaped, Typed
<1>4. /\ Tail(Master.wire) \in Seq(Frames) /\ Len(Tail(Master.wire)) <= WireLen
      /\ Tail(Master.wire) # Master.wire
  <2>1. \A w \in Seq(Frames) : w # <<>> =>
          Tail(w) \in Seq(Frames) /\ Len(Tail(w)) = Len(w) - 1 /\ Len(w) \in Nat
    OBVIOUS
  <2>2. /\ Tail(Master.wire) \in Seq(Frames) /\ Len(Master.wire) \in Nat
        /\ Len(Tail(Master.wire)) = Len(Master.wire) - 1
    BY <1>3, <2>1
  <2>3. Tail(Master.wire) # Master.wire
    <3>1. \A i, j \in Int : i = j - 1 => i # j
      OBVIOUS
    <3>2. Len(Tail(Master.wire)) # Len(Master.wire)
      BY <2>2, <3>1
    <3> QED BY <3>2, Zenon
  <2>4. Len(Tail(Master.wire)) <= WireLen
    BY <1>3, <2>2, QueueAssumption
  <2> QED BY <2>2, <2>3, <2>4
<1> DEFINE p == [op |-> f.op, seq |-> f.seq, arg |-> f.arg, ok |-> ok, st |-> st]
<1>5. p.st \in StatusBytes /\ p.op = f.op /\ p.seq = f.seq
  BY StatusAssumption
<1> HIDE DEF q, p
<1>6. /\ SameCore(q, m) /\ Typed(m) /\ m.wire = Tail(Master.wire) /\ m.out = q.out
  BY <1>1, <1>4 DEF SameCore, Well, Shaped, Typed, Whole, Fields
<1> HIDE DEF m
<1>7. Well(m)
  <2>1. Whole(m) /\ Sound(m)
    BY <1>1, <1>6, CoreOK DEF Well, Shaped
  <2> QED BY <1>1, <1>6, <2>1 DEF Well, Shaped, Shut, SameCore
<1>8. m.ring = Master.ring /\ m.state = Master.state
  BY <1>1, <1>6 DEF SameCore
<1>9. Heard(m, Master', p.op, p.seq) /\ (m.state = "OFF" => \A t \in Active(m.ring) : KeptAt(m, Master', t))
  BY <1>2, <1>5, <1>7, ProcessPackedHears DEF p
<1>10. ASSUME NEW s \in Active(Master.ring)
       PROVE  Fate(s)
  <2>1. CASE KeptAt(m, Master', s)
    BY <1>8, <2>1 DEF Fate, KeptAt
  <2>2. CASE ~KeptAt(m, Master', s)
    <3>1. s \in Confirms(Master.ring, f.op, f.seq) /\ Master'.state # "OFF"
      BY <1>5, <1>8, <1>9, <2>2 DEF Heard
    <3>2. Master'.wire = Tail(Master.wire)
      BY <1>6, <1>9 DEF Heard
    <3>3. AnsweredNow(s)
      BY <1>3, <1>4, <3>1, <3>2 DEF AnsweredNow, Confirms, InFlight, InState
    <3> QED BY <3>3 DEF Fate
  <2> QED BY <2>1, <2>2
<1> QED BY <1>9, <1>10 DEF Heard

LEMMA StatusChangeFate ==
  ASSUME Well(Master), StatusChange
  PROVE  Well(Master') /\ \A s \in Active(Master.ring) : Fate(s)
<1> DEFINE q == Quietly
<1>1. PICK st \in Unsolicited :
           Master' \in ProcessPacked(q, [op |-> "STATUS_CHANGE", seq |-> 0, arg |-> 0, ok |-> TRUE, st |-> st])
  BY DEF StatusChange
<1> DEFINE p == [op |-> "STATUS_CHANGE", seq |-> 0, arg |-> 0, ok |-> TRUE, st |-> st]
<1>2. p.st \in StatusBytes /\ p.op = "STATUS_CHANGE"
  BY StatusAssumption
<1>3. Well(q) /\ q.ring = Master.ring
  BY QuietlyIs
<1> HIDE DEF q, p
<1>4. Heard(q, Master', p.op, p.seq)
  BY <1>1, <1>2, <1>3, ProcessPackedHears DEF p
<1>5. Confirms(q.ring, p.op, p.seq) = {}
  BY <1>2, <1>3 DEF Confirms, Active, Well, Shaped, Apart
<1> QED BY <1>3, <1>4, <1>5 DEF Heard, Fate, KeptAt

LEMMA LoseFrameFate ==
  ASSUME Well(Master), LoseFrame
  PROVE  Well(Master') /\ \A s \in Active(Master.ring) : Fate(s)
<1> DEFINE q == Quietly
<1>1. Well(q) /\ q.ring = Master.ring /\ q.wire = Master.wire
  BY QuietlyIs
<1>2. Master' = [q EXCEPT !.wire = Tail(q.wire)] /\ Master.wire # <<>>
  BY DEF LoseFrame
<1> HIDE DEF q
<1>3. Tail(q.wire) \in Seq(Frames) /\ Len(Tail(q.wire)) <= WireLen
  <2>1. q.wire \in Seq(Frames) /\ Len(q.wire) <= WireLen /\ q.wire # <<>>
    BY <1>1, <1>2 DEF Well, Shaped, Typed
  <2>2. Len(Tail(q.wire)) = Len(q.wire) - 1 /\ Len(q.wire) \in Nat
    BY <2>1
  <2> QED BY <2>1, <2>2, QueueAssumption
<1>4. SameCore(q, Master') /\ Typed(Master')
  BY <1>1, <1>2, <1>3 DEF SameCore, Well, Shaped, Typed, Whole, Fields
<1>5. Well(Master')
  <2>1. Whole(Master') /\ Sound(Master')
    BY <1>1, <1>4, CoreOK DEF Well, Shaped
  <2> QED BY <1>1, <1>4, <2>1 DEF Well, Shaped, Shut, SameCore
<1> QED BY <1>1, <1>4, <1>5 DEF SameCore, Fate, KeptAt

LEMMA PassFate ==
  ASSUME Well(Master), NEW d \in Durations, Pass(d)
  PROVE  Well(Master') /\ \A s \in Active(Master.ring) : Fate(s)
<1> DEFINE r == Master.ring
           old == Master.statusOld \/ d >= 1000
           Aged(s) == IF d >= 500 /\ r.items[s].state = "WAIT_CONFIRM"
                      THEN [r.items[s] EXCEPT !.late = TRUE] ELSE r.items[s]
           t == [r EXCEPT !.items = [s \in Slots |-> Aged(s)]]
           q == Quietly
<1>1. r \in Rings
  BY DEF Well, Shaped, Whole, RingInv
<1>2. Well(q) /\ q.ring = r
  BY QuietlyIs
<1>3. old \in BOOLEAN
  OBVIOUS
<1>4. Master' = [q EXCEPT !.quiet = TRUE, !.statusOld = old, !.ring = t]
  <2>1. q.statusOld = Master.statusOld
    BY DEF q, Quietly, Well, Shaped, Whole, Fields
  <2> HIDE DEF q
  <2>2. Master' = [q EXCEPT !.quiet = TRUE, !.statusOld = q.statusOld \/ d >= 1000,
                            !.ring = [q.ring EXCEPT !.items = [s \in Slots |->
                               IF d >= 500 /\ q.ring.items[s].state = "WAIT_CONFIRM"
                               THEN [q.ring.items[s] EXCEPT !.late = TRUE] ELSE q.ring.items[s]]]]
    BY <1>2 DEF Pass, q, Well, Shaped, Whole, Fields
  <2> QED BY <1>2, <2>1, <2>2
<1>5. Sound(Master')
  BY PassOK DEF Inv, Well
<1>6. \A s \in Slots : /\ Aged(s).state = r.items[s].state /\ Aged(s).seq = r.items[s].seq
                       /\ Aged(s).cmd = r.items[s].cmd
  <2> TAKE s \in Slots
  <2>1. r.items[s] \in Items
    BY <1>1 DEF Rings
  <2> QED BY <2>1 DEF Items
<1> HIDE DEF Aged, old, q
<1>7. \A s \in Slots : t.items[s] = Aged(s)
  BY <1>1 DEF Rings
<1> HIDE DEF t
<1>8. Master'.ring = t /\ Master'.state = q.state /\ Master'.qaps = q.qaps /\ Typed(Master')
  BY <1>2, <1>3, <1>4 DEF Well, Shaped, Typed, Whole, Fields
<1>9. \A s : s \in Active(t) <=> s \in Active(r)
  BY <1>6, <1>7, ActiveIs
<1>10. \A s \in Active(r) : t.items[s].cmd = r.items[s].cmd /\ t.items[s].seq = r.items[s].seq
  BY <1>6, <1>7, ActiveIs
<1>11. Apart(t)
  BY <1>2, <1>9, <1>10, ApartLess DEF Well, Shaped
<1>12. Shut(Master')
  BY <1>2, <1>8, <1>9, <1>10 DEF Well, Shut
<1>13. Well(Master')
  BY <1>5, <1>8, <1>11, <1>12 DEF Well, Shaped, Sound
<1> QED BY <1>8, <1>9, <1>10, <1>13 DEF Fate, KeptAt

LEMMA HostFate ==
  ASSUME Well(Master), Host
  PROVE  Well(Master') /\ \A s \in Active(Master.ring) : Fate(s)
<1> DEFINE q == Quietly
<1>1. /\ Well(q) /\ q.ring = Master.ring /\ q.state = Master.state /\ q.com = Master.com
      /\ q.qaps = Master.qaps
  BY QuietlyIs
<1>2. ASSUME Calm(q, Master')
      PROVE  Well(Master') /\ \A s \in Active(Master.ring) : Fate(s)
  BY <1>1, <1>2, CalmFate
<1> HIDE DEF q
<1>3. CASE ApsdeDataRequest
  <2>1. q.state # "OFF" /\ ~QAPS_Full(q)
    BY <1>1, <1>3 DEF ApsdeDataRequest, Connected, QAPS_Full
  <2>2. \E id \in ApsIds : Master' = AcceptApsRequest(q, id)
    BY <1>3 DEF ApsdeDataRequest, q
  <2> QED BY <1>1, <1>2, <2>1, <2>2, AcceptCalm
<1>4. CASE HostReads
  <2>1. \E p \in {ParamA, ParamTC} : Master' = ReadParameter(q, p)
    BY <1>4 DEF HostReads, q
  <2> QED BY <1>1, <1>2, <2>1, ReadParameterCalm
<1>5. CASE HostReadsAll
  <2>1. Master' = ReadParameters(q)
    BY <1>5 DEF HostReadsAll, q
  <2> QED BY <1>1, <1>2, <2>1, ReadParametersCalm
<1>6. ASSUME NEW c, May(q, c),
             Master' = AllocEnqueue(q, c) \/ Master' = ItemAdded(AllocEnqueue(q, c))
      PROVE  Calm(q, Master')
  <2>1. Calm(q, AllocEnqueue(q, c))
    BY <1>1, <1>6, AllocEnqueueCalm
  <2>2. Calm(q, ItemAdded(AllocEnqueue(q, c)))
    BY <2>1, ItemAddedCalm, CalmTrans DEF Calm
  <2> QED BY <1>6, <2>1, <2>2
<1>7. CASE HostAsks
  <2>1. q.state # "OFF"
    BY <1>1, <1>7 DEF HostAsks, Connected
  <2>2. \E op \in HostOps \cap {"CHANGE_NET_STATE", "UPDATE_NEIGHBOR", "WRITE_PARAM"} :
          Master' = AllocEnqueue(q, Cmd(op, 0))
    BY <1>7 DEF HostAsks, q
  <2> QED BY <1>2, <1>6, <2>1, <2>2, MayPlain
<1>8. CASE HostAsksNow
  <2>1. q.state # "OFF"
    BY <1>1, <1>8 DEF HostAsksNow, Connected
  <2>2. \E op \in HostOps \cap {"VERSION", "NWK_LEAVE_REQ", "FACTORY_RESET"} :
          Master' = ItemAdded(AllocEnqueue(q, Cmd(op, 0)))
    BY <1>8 DEF HostAsksNow, q
  <2> QED BY <1>2, <1>6, <2>1, <2>2, MayPlain
<1>9. CASE StartInterpanMode
  <2>1. q.state # "OFF"
    BY <1>1, <1>9 DEF StartInterpanMode, NetState, Connected
  <2>2. Master' = ItemAdded(AllocEnqueue(q, Cmd("START_INTERPAN_MODE", 0)))
    BY <1>9 DEF StartInterpanMode, q
  <2>3. May(q, Cmd("START_INTERPAN_MODE", 0))
    BY <1>9, <2>1, MayPlain DEF StartInterpanMode
  <2> QED BY <1>2, <1>6, <2>2, <2>3
<1>10. CASE SendInterpanRequest
  <2>1. Master' = ItemAdded(AllocEnqueue(q, Cmd("SEND_INTERPAN_REQ", 0)))
    BY <1>10 DEF SendInterpanRequest, q
  <2>2. May(q, Cmd("SEND_INTERPAN_REQ", 0))
    BY <1>10, CmdOK DEF SendInterpanRequest, May, Cmd, Queries
  <2> QED BY <1>2, <1>6, <2>1, <2>2
<1> QED BY <1>3, <1>4, <1>5, <1>7, <1>8, <1>9, <1>10 DEF Host

LEMMA StepFate ==
  ASSUME Well(Master), [Next]_Master
  PROVE  Well(Master') /\ \A s \in Active(Master.ring) : Fate(s)
<1>1. CASE TimePasses
  BY <1>1, PassFate DEF TimePasses
<1>2. CASE UNCHANGED Master
  BY <1>2 DEF Fate, KeptAt
<1> QED BY <1>1, <1>2, OpenSerialFate, OnDeviceConnectedFate, LinkLostFate, CloseByUserFate,
           DevDisconnectClickedFate, TaskTimerFiredFate, TimerEventFate, AnswerFate,
           StatusChangeFate, LoseFrameFate, HostFate DEF Next

----------------------------------------------------------------------------
(* The theorems *)

QInv == Well(Master)

LEMMA InitWell == Init => QInv
<1> SUFFICES ASSUME Init PROVE QInv
  OBVIOUS
<1>1. Sound(Master)
  BY InitOK DEF Inv
<1>2. /\ Master.ring = EmptyRing /\ Master.qaps = <<>> /\ Master.wire = <<>> /\ Master.fails = 0
  BY DEF Init
<1>3. <<>> \in Seq(Frames) /\ Len(<<>>) = 0
  OBVIOUS
<1>4. Typed(Master)
  BY <1>2, <1>3, QueueAssumption DEF Typed, Init, Nets, IpanStates
<1>5. Active(Master.ring) = {}
  BY <1>2 DEF EmptyRing, Blank, Active, ToSend, InFlight, InState
<1> QED BY <1>1, <1>2, <1>4, <1>5 DEF QInv, Well, Shaped, Sound, Apart, Shut

(* Every handler keeps the ring sound, queues real commands only, a query  *)
(* at most once, and nothing but inter-PAN requests while the port is shut.*)
THEOREM QueueIsWell == Spec => []QInv
<1>1. QInv /\ [Next]_Master => QInv'
  BY StepFate DEF QInv
<1> QED BY <1>1, InitWell, PTL DEF Spec

(* struct zm_master keeps its types: no queue and no counter of it leaves  *)
(* its bounds, though handlers call back into one another.                 *)
THEOREM MasterTyped == Spec => []TypeOK
<1>1. QInv => TypeOK
  <2> SUFFICES ASSUME QInv PROVE TypeOK
    OBVIOUS
  <2>1. Master.fails \in 0 .. MaxCommandFails /\ Master.ring \in Rings
    BY QueueAssumption DEF QInv, Well, Shaped, Whole, Typed, RingInv
  <2> QED BY <2>1 DEF QInv, Well, Shaped, Whole, Typed, Fields, TypeOK
<1> QED BY <1>1, QueueIsWell, PTL

(* However often a status byte asks for it, a query of what the firmware   *)
(* holds is queued once at a time.                                         *)
THEOREM QueriesAreSingle == Spec => []FetchedOnce
<1>1. QInv => FetchedOnce
  <2> SUFFICES ASSUME QInv, NEW op \in Queries
      PROVE  Cardinality({s \in Active(Master.ring) : Master.ring.items[s].cmd.op = op}) <= 1
    BY DEF FetchedOnce, Queries
  <2> DEFINE S == {s \in Active(Master.ring) : Master.ring.items[s].cmd.op = op}
  <2>1. \A s, t \in S : s = t
    BY DEF QInv, Well, Shaped, Apart
  <2> HIDE DEF S
  <2>2. CASE S = {}
    <3>1. Cardinality(S) = 0
      BY <2>2, FS_EmptySet
    <3> QED BY <3>1 DEF S
  <2>3. CASE S # {}
    <3>1. PICK x : S = {x}
      BY <2>1, <2>3
    <3>2. Cardinality(S) = 1
      BY <3>1, FS_Singleton
    <3> QED BY <3>2 DEF S
  <2> QED BY <2>2, <2>3
<1> QED BY <1>1, QueueIsWell, PTL

(* Shutting the port leaves nothing of the connection behind; only an      *)
(* inter-PAN request may be queued while it is shut.                       *)
THEOREM ShutIsEmpty == Spec => []OffIsEmpty
<1>1. QInv => OffIsEmpty
  BY DEF QInv, Well, Shut, OffIsEmpty
<1> QED BY <1>1, QueueIsWell, PTL

(* A command leaves the ring answered, overdue a second time, or with all  *)
(* the others: no handler forgets one.                                     *)
THEOREM LeavesServed == Spec => LeavesOnlyServed
<1>1. QInv /\ [Next]_Master => OnlyServed
  <2> SUFFICES ASSUME QInv, [Next]_Master PROVE OnlyServed
    OBVIOUS
  <2>1. \A s \in Slots : Leaves(s) => Fate(s) /\ ~KeptAt(Master, Master', s)
    BY StepFate DEF QInv, Leaves, KeptAt
  <2> QED BY <2>1 DEF OnlyServed, Fate, AnsweredNow, Late
<1> QED BY <1>1, QueueIsWell, PTL DEF Spec, LeavesOnlyServed

\* A command that leaves unanswered was reported, with what killCommand says of it.
LEMMA UnansweredTold ==
  ASSUME QInv, [Next]_Master, NEW s \in Slots, Unanswered(s)
  PROVE  Told(Master.ring.items[s].cmd, Master')
<1>1. Fate(s) /\ ~KeptAt(Master, Master', s)
  BY StepFate DEF QInv, Unanswered, Leaves, KeptAt
<1> QED BY <1>1 DEF Fate, AnsweredNow, Unanswered

(* An APS request that is dropped is reported in the same turn, on every   *)
(* path that drops one: a late answer, the port closed, the port lost.     *)
THEOREM DropsAreReported == Spec => DroppedIsReported
<1>1. QInv /\ [Next]_Master => RequestReported
  <2> SUFFICES ASSUME QInv, [Next]_Master, NEW s \in Slots, Unanswered(s),
                      Master.ring.items[s].cmd.op = "APS_DATA_REQ"
               PROVE  \E n \in Master'.out : /\ n.sig = "apsdeDataRequestDone"
                                            /\ n.arg = Master.ring.items[s].cmd.arg
    BY DEF RequestReported
  <2> DEFINE c == Master.ring.items[s].cmd
  <2>1. PICK st : KillNotices(c, st) \subseteq Master'.out
    BY UnansweredTold DEF Told
  <2>2. KillNotices(c, st) = {Notice("apsdeDataRequestDone", c.arg, st)}
    BY DEF KillNotices
  <2> HIDE DEF c
  <2>3. Notice("apsdeDataRequestDone", c.arg, st) \in Master'.out
    BY <2>1, <2>2
  <2> QED BY <2>3 DEF Notice, c
<1> QED BY <1>1, QueueIsWell, PTL DEF Spec, DroppedIsReported

(* So are the other commands that somebody waits for.                      *)
THEOREM HostHears == Spec => HostIsTold
<1>1. QInv /\ [Next]_Master => HostReported
  <2> SUFFICES ASSUME QInv, [Next]_Master, NEW s \in Slots, Unanswered(s),
                      Master.ring.items[s].cmd.op
                        \in {"WRITE_PARAM", "START_INTERPAN_MODE", "SEND_INTERPAN_REQ"}
               PROVE  \E n \in Master'.out : n.sig = Report(Master.ring.items[s].cmd.op)
    BY DEF HostReported
  <2> DEFINE c == Master.ring.items[s].cmd
  <2>1. PICK st : KillNotices(c, st) \subseteq Master'.out
    BY UnansweredTold DEF Told
  <2>2. \E x \in KillNotices(c, st) : x.sig = Report(c.op)
    <3>1. CASE c.op = "WRITE_PARAM"
      BY <3>1 DEF KillNotices, Report, Notice
    <3>2. CASE c.op = "START_INTERPAN_MODE"
      BY <3>2 DEF KillNotices, Report, Notice
    <3>3. CASE c.op = "SEND_INTERPAN_REQ"
      BY <3>3 DEF KillNotices, Report, Notice
    <3> QED BY <3>1, <3>2, <3>3
  <2> HIDE DEF c
  <2> QED BY <2>1, <2>2 DEF c
<1> QED BY <1>1, QueueIsWell, PTL DEF Spec, HostIsTold

----------------------------------------------------------------------------
(* What the controller was told of the network.  The status bytes change   *)
(* one copy of it, the handlers of the signals the other.                  *)

\* The copy of the controller is not behind: it knows that the device is in network.
Knows(m) == m.net = "ONLINE" => m.dev = "ONLINE"

Basic(m) == DOMAIN m = Fields /\ m.state \in {"OFF", "CONNECTING", "IDLE"}

\* From m to n nothing was heard of the network.
Deaf(m, n) == Basic(n) /\ n.net = m.net /\ n.dev = m.dev

LEMMA DeafTrans ==
  ASSUME NEW k, NEW m, NEW n, Deaf(k, m), Deaf(m, n)
  PROVE  Deaf(k, n)
BY DEF Deaf

LEMMA DeafSelf ==
  ASSUME NEW m, Basic(m)
  PROVE  Deaf(m, m)
BY DEF Deaf

LEMMA DeafKnows ==
  ASSUME NEW m, NEW n, Deaf(m, n)
  PROVE  Knows(m) => Knows(n)
BY DEF Deaf, Knows

\* The handlers that write to fields of their own.
LEMMA PlainDeaf ==
  ASSUME NEW m, Basic(m)
  PROVE  /\ Deaf(m, StartTaskTimer(m)) /\ Deaf(m, ItemAdded(m)) /\ Deaf(m, Allocated(m))
         /\ \A x : Deaf(m, Notify(m, x)) /\ Deaf(m, Enqueue(m, x))
         /\ \A c, st : Deaf(m, KillCommand(m, c, st))
         /\ Deaf(m, KillCommandQueue(m))
         /\ \A s : Deaf(m, QItem_Send(m, s))
<1>1. Deaf(m, StartTaskTimer(m)) /\ Deaf(m, Allocated(m)) /\ Deaf(m, KillCommandQueue(m))
  BY DEF Deaf, Basic, Fields, StartTaskTimer, Allocated, KillCommandQueue
<1>2. Deaf(m, ItemAdded(m))
  <2>1. CASE m.state = "OFF"
    BY <2>1 DEF Deaf, Basic, ItemAdded
  <2>2. CASE m.state = "IDLE"
    BY <2>2, <1>1 DEF ItemAdded
  <2>3. CASE m.state = "CONNECTING"
    BY <2>3 DEF Deaf, Basic, Fields, ItemAdded
  <2> QED BY <2>1, <2>2, <2>3 DEF Basic
<1>3. \A x : Deaf(m, Notify(m, x)) /\ Deaf(m, Enqueue(m, x))
  BY DEF Deaf, Basic, Fields, Notify, Enqueue
<1>4. \A c, st : Deaf(m, KillCommand(m, c, st))
  BY DEF Deaf, Basic, Fields, KillCommand
<1>5. ASSUME NEW s PROVE Deaf(m, QItem_Send(m, s))
  <2> DEFINE i == m.ring.items[s]
             n == [m EXCEPT !.ring = QItem_Sent(@, s),
                            !.wire = Append(@, [op |-> i.cmd.op, seq |-> i.seq, arg |-> i.cmd.arg]),
                            !.quiet = FALSE]
  <2>1. Deaf(m, n)
    BY DEF Deaf, Basic, Fields
  <2>2. QItem_Send(m, s) \in {n, m}
    BY DEF QItem_Send
  <2> HIDE DEF n
  <2> QED BY <2>1, <2>2, DeafSelf
<1> QED BY <1>1, <1>2, <1>3, <1>4, <1>5

LEMMA QueueingDeaf ==
  ASSUME NEW m, Basic(m)
  PROVE  /\ \A c : Deaf(m, AllocEnqueue(m, c))
         /\ \A id : Deaf(m, AcceptApsRequest(m, id))
         /\ \A n \in CommandQueueEmpty(m) : Deaf(m, n)
         /\ \A p : Deaf(m, ReadParameter(m, p))
         /\ Deaf(m, ReadParameters(m))
<1>1. \A c : Deaf(m, AllocEnqueue(m, c))
  <2> TAKE c
  <2>1. Deaf(m, Allocated(m))
    BY PlainDeaf
  <2>2. Deaf(Allocated(m), Enqueue(Allocated(m), c))
    BY <2>1, PlainDeaf DEF Deaf
  <2> QED BY <2>1, <2>2, DeafTrans, DeafSelf DEF AllocEnqueue
<1>2. \A id : Deaf(m, AcceptApsRequest(m, id))
  <2> TAKE id
  <2> DEFINE n == [m EXCEPT !.qaps = Append(@, id)]
  <2>1. Deaf(m, n)
    BY DEF Deaf, Basic, Fields
  <2>2. AcceptApsRequest(m, id) = ItemAdded(n)
    BY DEF AcceptApsRequest
  <2> HIDE DEF n
  <2>3. Deaf(n, ItemAdded(n))
    BY <2>1, PlainDeaf DEF Deaf
  <2> QED BY <2>1, <2>2, <2>3, DeafTrans
<1>3. \A n \in CommandQueueEmpty(m) : Deaf(m, n)
  BY <1>2, DeafSelf DEF CommandQueueEmpty
<1>4. ASSUME NEW k, Basic(k), NEW p PROVE Deaf(k, ReadParameter(k, p))
  <2>1. Deaf(k, Allocated(k))
    BY <1>4, PlainDeaf
  <2>2. \A c : Deaf(Allocated(k), Enqueue(Allocated(k), c))
    BY <2>1, PlainDeaf DEF Deaf
  <2> QED BY <1>4, <2>1, <2>2, DeafTrans, DeafSelf DEF ReadParameter, AllocEnqueue
<1>5. Deaf(m, ReadParameters(m))
  <2>1. Deaf(m, ReadParameter(m, ParamA))
    BY <1>4
  <2>2. Deaf(ReadParameter(m, ParamA), ReadParameters(m))
    BY <1>4, <2>1 DEF Deaf, ReadParameters
  <2> QED BY <2>1, <2>2, DeafTrans
<1> QED BY <1>1, <1>2, <1>3, <1>4, <1>5

\* Shutting the port.
LEMMA ShutDeaf ==
  ASSUME NEW m, Basic(m)
  PROVE  Deaf(m, OnDeviceDisconnected(m)) /\ Deaf(m, ComExit(m))
<1>1. ASSUME NEW k, Basic(k) PROVE Deaf(k, OnDeviceDisconnected(k))
  <2> DEFINE n == [k EXCEPT !.timer = FALSE, !.state = "OFF", !.com = "Off", !.wire = <<>>]
  <2>1. Deaf(k, n)
    BY <1>1 DEF Deaf, Basic, Fields
  <2>2. OnDeviceDisconnected(k) = KillCommandQueue(n)
    BY DEF OnDeviceDisconnected
  <2> HIDE DEF n
  <2>3. Deaf(n, KillCommandQueue(n))
    BY <2>1, PlainDeaf DEF Deaf
  <2> QED BY <2>1, <2>2, <2>3, DeafTrans
<1>2. Deaf(m, KillCommandQueue(m))
  BY PlainDeaf
<1>3. Deaf(KillCommandQueue(m), OnDeviceDisconnected(KillCommandQueue(m)))
  BY <1>1, <1>2 DEF Deaf
<1> QED BY <1>1, <1>2, <1>3, DeafTrans, DeafSelf DEF ComExit

\* handleStateIdle(ACTION_PROCESS)
LEMMA ProcessDeaf ==
  ASSUME NEW m, Basic(m)
  PROVE  \A n \in ProcessAndSend(m) : Deaf(m, n)
<1>1. ASSUME NEW k, Basic(k)
      PROVE  \A n \in SendNextCommand(k) : Deaf(k, n)
  <2>1. \A s : Deaf(k, QItem_Send(k, s))
    BY <1>1, PlainDeaf
  <2>2. \A s : \A n \in CommandQueueEmpty(QItem_Send(k, s)) : Deaf(QItem_Send(k, s), n)
    BY <2>1, QueueingDeaf DEF Deaf
  <2>3. \A s : \A n \in CommandQueueEmpty(QItem_Send(k, s)) : Deaf(k, n)
    BY <2>1, <2>2, DeafTrans
  <2> QED BY <1>1, <2>1, <2>3, DeafSelf DEF SendNextCommand
<1>2. ASSUME NEW k, Basic(k) PROVE Deaf(k, EnqueueStatus(k))
  BY <1>2, QueueingDeaf, DeafSelf DEF EnqueueStatus
<1>3. Deaf(m, QueApsDataConfirm(m)) /\ Deaf(m, QueApsDataIndication(m))
  <2>1. Deaf(m, [m EXCEPT !.conf = FALSE]) /\ Deaf(m, [m EXCEPT !.ind = FALSE])
    BY DEF Deaf, Basic, Fields
  <2>2. ASSUME NEW k, Deaf(m, k) PROVE \A c : Deaf(m, AllocEnqueue(k, c))
    BY <2>2, QueueingDeaf, DeafTrans DEF Deaf
  <2> QED BY <2>1, <2>2 DEF QueApsDataConfirm, QueApsDataIndication
<1>4. ASSUME NEW k, Basic(k) PROVE Deaf(k, QueInterpan(k))
  <2>1. /\ Deaf(k, [k EXCEPT !.ipanInd = FALSE]) /\ Deaf(k, [k EXCEPT !.ipanConf = FALSE])
    BY <1>4 DEF Deaf, Basic, Fields
  <2>2. ASSUME NEW l, Deaf(k, l) PROVE \A c : Deaf(k, AllocEnqueue(l, c))
    BY <2>2, QueueingDeaf, DeafTrans DEF Deaf
  <2> QED BY <1>4, <2>1, <2>2, DeafSelf DEF QueInterpan
<1>5. \A n \in QueNextApsDataRequest(m) : Deaf(m, n)
  <2> DEFINE id == Head(m.qaps)
             a == [Allocated(m) EXCEPT !.qaps = Tail(@)]
             ns == CommandQueueEmpty(a)
  <2>1. Deaf(m, a)
    <3>1. Deaf(m, Allocated(m))
      BY PlainDeaf
    <3> QED BY <3>1 DEF Deaf, Basic, Fields
  <2>2. \A n \in ns : Deaf(m, n)
    <3> HIDE DEF a
    <3> QED BY <2>1, QueueingDeaf, DeafTrans DEF Deaf
  <2>3. ASSUME NEW n \in ns, NEW x PROVE Deaf(m, Notify(n, x))
    <3> HIDE DEF ns
    <3>1. Deaf(m, n) /\ Basic(n)
      BY <2>2, <2>3 DEF Deaf
    <3>2. Deaf(n, Notify(n, x))
      BY <3>1, PlainDeaf
    <3> QED BY <3>1, <3>2, DeafTrans
  <2>4. ASSUME NEW n \in ns, NEW c PROVE Deaf(m, Enqueue([n EXCEPT !.free = FALSE], c))
    <3> HIDE DEF ns
    <3> DEFINE k == [n EXCEPT !.free = FALSE]
    <3>1. Deaf(m, k) /\ Basic(k)
      BY <2>2, <2>4 DEF Deaf, Basic, Fields
    <3> HIDE DEF k
    <3>2. Deaf(k, Enqueue(k, c))
      BY <3>1, PlainDeaf
    <3>3. Deaf(m, Enqueue(k, c))
      BY <3>1, <3>2, DeafTrans
    <3> QED BY <3>3 DEF k
  <2>5. \A n \in QueNextApsDataRequest(m) :
          n = m \/ n \in ns \/ (\E k \in ns : n = Notify(k, Notice("apsdeDataRequestDone", id, "ERROR")))
            \/ \E k \in ns : n = Enqueue([k EXCEPT !.free = FALSE], Cmd("APS_DATA_REQ", id))
    BY DEF QueNextApsDataRequest
  <2> HIDE DEF ns, a, id
  <2> QED BY <2>2, <2>3, <2>4, <2>5, DeafSelf
<1>6. \A n \in ProcessQueue(m) : Deaf(m, n)
  <2>1. Deaf(m, [EnqueueStatus(m) EXCEPT !.conf = FALSE, !.ind = FALSE, !.free = FALSE,
                                         !.needStatus = FALSE])
    <3> DEFINE k == EnqueueStatus(m)
    <3>1. Deaf(m, k)
      BY <1>2
    <3> HIDE DEF k
    <3>2. Deaf(m, [k EXCEPT !.conf = FALSE, !.ind = FALSE, !.free = FALSE, !.needStatus = FALSE])
      BY <3>1 DEF Deaf, Basic, Fields
    <3> QED BY <3>2 DEF k
  <2>2. \A k \in QueNextApsDataRequest(m) \cup {m} : Deaf(m, QueInterpan(k))
    BY <1>4, <1>5, DeafSelf, DeafTrans DEF Deaf
  <2> QED BY <1>3, <2>1, <2>2, DeafSelf DEF ProcessQueue
<1> TAKE n \in ProcessAndSend(m)
<1>7. PICK k \in ProcessQueue(m) : \E l \in SendNextCommand(k) : n \in {l, StartTaskTimer(l)}
  BY DEF ProcessAndSend
<1>8. PICK l \in SendNextCommand(k) : n \in {l, StartTaskTimer(l)}
  BY <1>7
<1>9. Deaf(m, k)
  BY <1>6
<1>10. Deaf(m, l)
  BY <1>1, <1>9, DeafTrans DEF Deaf
<1>11. Deaf(m, StartTaskTimer(l))
  BY <1>10, PlainDeaf, DeafTrans DEF Deaf
<1> QED BY <1>8, <1>10, <1>11

\* handleTimeouts and timerEvent
LEMMA TimerDeaf ==
  ASSUME NEW m, Basic(m)
  PROVE  \A n \in OnTimer(m) : Deaf(m, n)
<1>1. ASSUME NEW k, Basic(k), NEW s, NEW n \in GiveUp(k, s) PROVE Deaf(k, n)
  <2> DEFINE c == k.ring.items[s].cmd
             l == KillCommand(k, c, "TIMEOUT")
             F(x) == [x EXCEPT !.ring = QItem_Free(@, s), !.fails = @ + 1]
  <2>1. Deaf(k, l)
    BY <1>1, PlainDeaf
  <2>2. \A x \in CommandQueueEmpty(l) : Deaf(k, x)
    <3> HIDE DEF l
    <3> QED BY <2>1, QueueingDeaf, DeafTrans DEF Deaf
  <2>3. PICK x \in CommandQueueEmpty(l) \cup {l} : n \in {F(x), ComExit(F(x))}
    BY <1>1 DEF GiveUp
  <2>4. Deaf(k, x)
    <3> HIDE DEF l
    <3> QED BY <2>1, <2>2, <2>3
  <2>5. Deaf(k, F(x))
    BY <2>4 DEF Deaf, Basic, Fields
  <2>6. Deaf(k, ComExit(F(x)))
    <3> HIDE DEF F
    <3> QED BY <2>5, ShutDeaf, DeafTrans DEF Deaf
  <2> HIDE DEF F
  <2> QED BY <2>3, <2>5, <2>6
<1>2. ASSUME NEW k, Basic(k), NEW s, NEW n \in VisitLate(k, s) PROVE Deaf(k, n)
  <2> DEFINE r == [k EXCEPT !.ring = Requeue(@, s)]
  <2>1. Deaf(k, r)
    BY <1>2 DEF Deaf, Basic, Fields
  <2>2. n \in GiveUp(k, s) \cup {k, QItem_Send(r, s)}
    BY <1>2 DEF VisitLate
  <2> HIDE DEF r
  <2>3. Deaf(k, QItem_Send(r, s))
    BY <2>1, PlainDeaf, DeafTrans DEF Deaf
  <2> QED BY <1>1, <1>2, <2>2, <2>3, DeafSelf
<1>3. ASSUME NEW k, Basic(k), NEW n \in HandleTimeouts(k) PROVE Deaf(k, n)
  <2>1. CASE k.ring.waitConfirm = 0 \/ InFlight(k.ring) = {}
    BY <1>3, <2>1, DeafSelf DEF HandleTimeouts
  <2>2. CASE ~(k.ring.waitConfirm = 0 \/ InFlight(k.ring) = {})
    <3> DEFINE a == Newest(k.ring, InFlight(k.ring))
               b(x) == Newest(x.ring, InFlight(x.ring) \ {a})
    <3>1. PICK x \in VisitLate(k, a) : n = x \/ n \in VisitLate(x, b(x))
      BY <1>3, <2>2 DEF HandleTimeouts
    <3> HIDE DEF a, b
    <3>2. Deaf(k, x)
      BY <1>2, <1>3, <3>1
    <3> QED BY <1>2, <3>1, <3>2, DeafTrans DEF Deaf
  <2> QED BY <2>1, <2>2
<1>4. ASSUME NEW k \in Poll(m) PROVE Deaf(m, k)
  <2> DEFINE n == [m EXCEPT !.needStatus = TRUE]
  <2>1. Deaf(m, n)
    BY DEF Deaf, Basic, Fields
  <2>2. k \in CommandQueueEmpty(n) \cup {n, m}
    BY <1>4 DEF Poll
  <2> HIDE DEF n
  <2> QED BY <2>1, <2>2, QueueingDeaf, DeafSelf, DeafTrans DEF Deaf
<1>5. ASSUME NEW k \in Poll(m) PROVE Deaf(m, Proceed(k))
  BY <1>4, <1>5, PlainDeaf, DeafTrans DEF Deaf, Proceed
<1> TAKE n \in OnTimer(m)
<1>6. PICK k : (k = m \/ \E l \in Poll(m) : k = Proceed(l)) /\ n \in HandleTimeouts(k)
  BY DEF OnTimer
<1>7. Deaf(m, k)
  BY <1>5, <1>6, DeafSelf
<1> QED BY <1>3, <1>6, <1>7, DeafTrans DEF Deaf

\* zmController::setDeviceState: afterwards the copy is what it is told.
LEMMA SetDeviceStateTells ==
  ASSUME NEW m, Basic(m), NEW net
  PROVE  LET n == SetDeviceState(m, net) IN Basic(n) /\ n.net = m.net /\ n.dev = net
<1> DEFINE k == [m EXCEPT !.dev = net]
<1>1. Basic(k) /\ k.net = m.net /\ k.dev = net
  BY DEF Basic, Fields
<1>2. SetDeviceState(m, net) = IF m.dev = net THEN m ELSE ReadParameters(k)
  BY DEF SetDeviceState
<1> HIDE DEF k
<1> QED BY <1>1, <1>2, QueueingDeaf DEF Deaf

\* The controller knows afterwards if it knew before.
Learns(m, n) == Basic(n) /\ (Knows(m) => Knows(n))

LEMMA DeafLearns ==
  ASSUME NEW k, NEW m, NEW n, Learns(k, m), Deaf(m, n)
  PROVE  Learns(k, n)
BY DEF Learns, Deaf, Knows

\* The status bytes of an answer.
LEMMA StatusLearns ==
  ASSUME NEW m, Basic(m), NEW st
  PROVE  Learns(m, CheckStatus0(m, st)) /\ Deaf(m, CheckStatus1(m, st))
<1> DEFINE n == [m EXCEPT !.net = st.net, !.conf = st.conf, !.ind = st.ind, !.free = st.free]
           k == IF st.config THEN ReadParameters(n) ELSE n
<1>1. Basic(n) /\ n.net = st.net /\ n.dev = m.dev
  BY DEF Basic, Fields
<1>2. CheckStatus0(m, st) = IF st.net # m.net THEN NetChanged(k, m.net) ELSE k
  BY DEF CheckStatus0
<1>3. Basic(k) /\ k.net = st.net /\ k.dev = m.dev
  <2> HIDE DEF n
  <2> QED BY <1>1, QueueingDeaf DEF Deaf
<1> HIDE DEF k, n
<1>4. Basic(NetChanged(k, m.net)) /\ Knows(NetChanged(k, m.net))
  <2> DEFINE t == SetDeviceState(k, k.net)
  <2>1. Basic(t) /\ t.net = k.net /\ t.dev = k.net
    BY <1>3, SetDeviceStateTells
  <2>2. NetChanged(k, m.net) \in {t, ReadParameters(t), AllocEnqueue(t, Cmd("ZDO_NET_CONFIRM", 0))}
    BY DEF NetChanged
  <2> HIDE DEF t
  <2>3. \A x \in {t, ReadParameters(t), AllocEnqueue(t, Cmd("ZDO_NET_CONFIRM", 0))} : Deaf(t, x)
    BY <2>1, QueueingDeaf, DeafSelf
  <2>4. Deaf(t, NetChanged(k, m.net))
    BY <2>2, <2>3
  <2> QED BY <2>1, <2>4 DEF Deaf, Knows
<1>5. Learns(m, CheckStatus0(m, st))
  BY <1>2, <1>3, <1>4 DEF Learns, Knows
<1>6. Deaf(m, CheckStatus1(m, st))
  <2> DEFINE l == [m EXCEPT !.ipan = st.ipan, !.ipanInd = st.ipanInd, !.ipanConf = st.ipanConf]
  <2>1. Deaf(m, l)
    BY DEF Deaf, Basic, Fields
  <2>2. CheckStatus1(m, st) \in {m, l} \/ \E x : CheckStatus1(m, st) = Notify(l, x)
    BY DEF CheckStatus1
  <2> HIDE DEF l
  <2> QED BY <2>1, <2>2, PlainDeaf, DeafSelf, DeafTrans DEF Deaf
<1> QED BY <1>5, <1>6

\* Before the switch of processPacked
LEMMA GreetDeaf ==
  ASSUME NEW m, Basic(m), NEW p
  PROVE  Deaf(m, Greet(Confirmed(m, p)))
<1>1. ASSUME NEW k, Basic(k) PROVE Deaf(k, Greet(k))
  <2> DEFINE Ask(n, op) == IF Connected(n) /\ HasFreeItem(n.ring)
                           THEN ItemAdded(AllocEnqueue(n, Cmd(op, 0))) ELSE n
             a == Ask(Ask(k, "VERSION"), "FEATURE")
  <2>1. ASSUME NEW n, Basic(n), NEW op PROVE Deaf(n, Ask(n, op))
    <3>1. Deaf(n, AllocEnqueue(n, Cmd(op, 0)))
      BY <2>1, QueueingDeaf
    <3>2. Deaf(n, ItemAdded(AllocEnqueue(n, Cmd(op, 0))))
      BY <3>1, PlainDeaf, DeafTrans DEF Deaf
    <3> QED BY <2>1, <3>2, DeafSelf
  <2>2. Greet(k) = IF k.first THEN [a EXCEPT !.first = FALSE] ELSE k
    BY DEF Greet
  <2> HIDE DEF Ask
  <2>3. Deaf(k, a)
    BY <1>1, <2>1, DeafTrans DEF Deaf
  <2> HIDE DEF a
  <2>4. Deaf(k, [a EXCEPT !.first = FALSE])
    BY <2>3 DEF Deaf, Basic, Fields
  <2> QED BY <1>1, <2>2, <2>4, DeafSelf
<1>2. Deaf(m, Confirmed(m, p))
  <2> DEFINE n == [m EXCEPT !.ring = QItem_Confirm(@, p.op, p.seq),
                            !.fails = IF Confirms(m.ring, p.op, p.seq) = {} THEN @ ELSE 0]
  <2>1. Deaf(m, n)
    BY DEF Deaf, Basic, Fields
  <2>2. Confirmed(m, p) = [n EXCEPT !.quiet = @ \/ n.ring.waitConfirm = 0]
    BY DEF Confirmed
  <2> HIDE DEF n
  <2> QED BY <2>1, <2>2 DEF Deaf, Basic, Fields
<1> QED BY <1>1, <1>2, DeafTrans DEF Deaf

\* The switch of processPacked
LEMMA DispatchLearns ==
  ASSUME NEW m, Basic(m), NEW p, NEW n \in Dispatch(m, p)
  PROVE  Learns(m, n)
<1> DEFINE c == CheckStatus0(m, p.st)
           a == [c EXCEPT !.needStatus = FALSE]
           a1 == CheckStatus1(a, p.st)
<1>1. Learns(m, m)
  BY DEF Learns
<1>2. Learns(m, a)
  <2>1. Learns(m, c)
    BY StatusLearns
  <2> HIDE DEF c
  <2>2. Deaf(c, a)
    BY <2>1 DEF Learns, Deaf, Basic, Fields
  <2> HIDE DEF a
  <2> QED BY <2>1, <2>2, DeafLearns
<1> HIDE DEF a
<1>3. Learns(m, a1)
  BY <1>2, StatusLearns, DeafLearns DEF Learns
<1> HIDE DEF a1
<1>4. ASSUME NEW k, Learns(m, k)
      PROVE  /\ \A x : Learns(m, Notify(k, x))
             /\ Learns(m, [k EXCEPT !.statusOld = FALSE])
             /\ Learns(m, [k EXCEPT !.needStatus = TRUE])
             /\ Learns(m, [k EXCEPT !.ipan = "CONNECTING"])
             /\ \A x \in CommandQueueEmpty(k) : Learns(m, x)
             /\ \A x : Learns(m, ReadParameter(k, x))
  <2>1. /\ Deaf(k, [k EXCEPT !.statusOld = FALSE]) /\ Deaf(k, [k EXCEPT !.needStatus = TRUE])
        /\ Deaf(k, [k EXCEPT !.ipan = "CONNECTING"])
    BY <1>4 DEF Learns, Deaf, Basic, Fields
  <2>2. /\ \A x : Deaf(k, Notify(k, x)) /\ Deaf(k, ReadParameter(k, x))
        /\ \A x \in CommandQueueEmpty(k) : Deaf(k, x)
    BY <1>4, PlainDeaf, QueueingDeaf DEF Learns
  <2> QED BY <1>4, <2>1, <2>2, DeafLearns
<1>5. \A k \in Indicate(a) : Learns(m, k)
  <2>1. LET k == SetDeviceState(a, "ONLINE") IN Basic(k) /\ k.net = a.net /\ k.dev = "ONLINE"
    BY <1>2, SetDeviceStateTells DEF Learns
  <2>2. Learns(m, SetDeviceState(a, "ONLINE"))
    BY <2>1 DEF Learns, Knows
  <2> QED BY <1>2, <2>2 DEF Indicate
<1>6. \/ n \in {m, a, a1} \/ (\E k \in {m, a, a1} : \E x : n = Notify(k, x))
      \/ n \in {[a1 EXCEPT !.statusOld = FALSE], [m EXCEPT !.needStatus = TRUE],
                [m EXCEPT !.ipan = "CONNECTING"]}
      \/ n \in CommandQueueEmpty(a) \/ (\E k \in Indicate(a) : n \in CommandQueueEmpty(k))
      \/ \E x : n = Notify(ReadParameter(m, ParamKey), x)
  BY DEF Dispatch, StatusDone, ApsDone, ParamDone, IpanDone, Answered1, Answered, a, a1, c
<1>7. CASE n \in {m, a, a1} \/ \E k \in {m, a, a1} : \E x : n = Notify(k, x)
  <2>1. \A k \in {m, a, a1} : Learns(m, k)
    BY <1>1, <1>2, <1>3
  <2>2. \A k \in {m, a, a1} : \A x : Learns(m, Notify(k, x))
    BY <1>4, <2>1
  <2> QED BY <1>7, <2>1, <2>2
<1>8. CASE n \in {[a1 EXCEPT !.statusOld = FALSE], [m EXCEPT !.needStatus = TRUE],
                  [m EXCEPT !.ipan = "CONNECTING"]}
  BY <1>1, <1>3, <1>4, <1>8
<1>9. CASE n \in CommandQueueEmpty(a) \/ \E k \in Indicate(a) : n \in CommandQueueEmpty(k)
  BY <1>2, <1>4, <1>5, <1>9
<1>10. CASE \E x : n = Notify(ReadParameter(m, ParamKey), x)
  <2> DEFINE k == ReadParameter(m, ParamKey)
  <2>1. Learns(m, k)
    BY <1>1, <1>4
  <2> HIDE DEF k
  <2>2. \A x : Learns(m, Notify(k, x))
    BY <1>4, <2>1
  <2> QED BY <1>10, <2>2 DEF k
<1> QED BY <1>6, <1>7, <1>8, <1>9, <1>10

LEMMA PacketLearns ==
  ASSUME NEW m, Basic(m), NEW p, NEW n \in ProcessPacked(m, p)
  PROVE  Learns(m, n)
<1>1. CASE m.state \in {"OFF", "CONNECTING"}
  BY <1>1 DEF ProcessPacked, Learns
<1>2. CASE m.state \notin {"OFF", "CONNECTING"}
  <2> DEFINE g == Greet(Confirmed(m, p))
  <2>1. PICK k \in Dispatch(g, p) : n \in {k, StartTaskTimer(k)}
    BY <1>2 DEF ProcessPacked
  <2>2. Deaf(m, g)
    BY GreetDeaf
  <2> HIDE DEF g
  <2>3. Learns(m, k)
    BY <2>2, DispatchLearns DEF Deaf, Learns, Knows
  <2>4. Learns(m, StartTaskTimer(k))
    BY <2>3, PlainDeaf, DeafLearns DEF Learns
  <2> QED BY <2>1, <2>3, <2>4
<1> QED BY <1>1, <1>2

LEMMA HostDeaf ==
  ASSUME Basic(Master), Host
  PROVE  Deaf(Master, Master')
<1> DEFINE q == Quietly
<1>1. Deaf(Master, q)
  BY DEF Quietly, Deaf, Basic, Fields
<1>2. \/ \E id : Master' = AcceptApsRequest(q, id)
      \/ (\E p : Master' = ReadParameter(q, p)) \/ Master' = ReadParameters(q)
      \/ \E c : Master' \in {AllocEnqueue(q, c), ItemAdded(AllocEnqueue(q, c))}
  BY DEF Host, ApsdeDataRequest, HostReads, HostReadsAll, HostAsks, HostAsksNow,
         StartInterpanMode, SendInterpanRequest
<1> HIDE DEF q
<1>3. \A c : Deaf(q, AllocEnqueue(q, c)) /\ Deaf(q, ItemAdded(AllocEnqueue(q, c)))
  <2> TAKE c
  <2>1. Deaf(q, AllocEnqueue(q, c))
    BY <1>1, QueueingDeaf DEF Deaf
  <2> QED BY <2>1, PlainDeaf, DeafTrans DEF Deaf
<1>4. Deaf(q, Master')
  BY <1>1, <1>2, <1>3, QueueingDeaf DEF Deaf
<1> QED BY <1>1, <1>4, DeafTrans

\* All steps but the user's click.
LEMMA StepLearns ==
  ASSUME Basic(Master), Next, ~DevDisconnectClicked
  PROVE  Learns(Master, Master')
<1> DEFINE q == Quietly
<1>1. Deaf(Master, q)
  BY DEF Quietly, Deaf, Basic, Fields
<1>2. ASSUME NEW k, Deaf(Master, k) PROVE Learns(Master, k)
  BY <1>2 DEF Deaf, Learns, Knows
<1>3. CASE OpenSerial
  <2>1. Master' = [q EXCEPT !.state = "CONNECTING", !.com = "Opening", !.first = TRUE,
                            !.quiet = TRUE, !.statusOld = TRUE, !.fails = 0]
    BY <1>3 DEF OpenSerial
  <2> HIDE DEF q
  <2>2. Deaf(Master, Master')
    BY <1>1, <2>1 DEF Deaf, Basic, Fields
  <2> QED BY <1>2, <2>2
<1>4. CASE OnDeviceConnected
  <2> DEFINE k == [q EXCEPT !.com = "RxTx", !.needStatus = TRUE, !.state = "IDLE"]
  <2>1. Deaf(Master, k)
    <3> HIDE DEF q
    <3> QED BY <1>1 DEF Deaf, Basic, Fields
  <2>2. Master' = StartTaskTimer(k)
    BY <1>4 DEF OnDeviceConnected
  <2> HIDE DEF k
  <2> QED BY <1>2, <2>1, <2>2, PlainDeaf, DeafTrans DEF Deaf
<1>5. CASE LinkLost
  <2>1. Master' = OnDeviceDisconnected(q)
    BY <1>5 DEF LinkLost
  <2> HIDE DEF q
  <2> QED BY <1>1, <1>2, <2>1, ShutDeaf, DeafTrans DEF Deaf
<1>6. CASE CloseByUser
  <2> DEFINE k == [q EXCEPT !.closing = FALSE]
  <2>1. Deaf(Master, k)
    <3> HIDE DEF q
    <3> QED BY <1>1 DEF Deaf, Basic, Fields
  <2>2. Master' = ComExit(k)
    BY <1>6 DEF CloseByUser
  <2> HIDE DEF k
  <2> QED BY <1>2, <2>1, <2>2, ShutDeaf, DeafTrans DEF Deaf
<1>7. CASE TaskTimerFired
  <2> DEFINE k == [q EXCEPT !.timer = FALSE]
  <2>1. Deaf(Master, k) /\ Deaf(Master, [k EXCEPT !.state = "IDLE"])
    <3> HIDE DEF q
    <3> QED BY <1>1 DEF Deaf, Basic, Fields
  <2>2. k.state \in {"OFF", "CONNECTING", "IDLE"}
    <3> HIDE DEF k
    <3> QED BY <2>1 DEF Deaf, Basic
  <2>3. Master' \in ProcessAndSend(k) \cup {k, [k EXCEPT !.state = "IDLE"]}
    <3>1. CASE k.state = "OFF"
      BY <1>7, <3>1 DEF TaskTimerFired
    <3>2. CASE k.state = "CONNECTING"
      BY <1>7, <3>2 DEF TaskTimerFired
    <3>3. CASE k.state = "IDLE"
      BY <1>7, <3>3 DEF TaskTimerFired
    <3> QED BY <2>2, <3>1, <3>2, <3>3
  <2> HIDE DEF k
  <2> QED BY <1>2, <2>1, <2>3, ProcessDeaf, DeafTrans DEF Deaf
<1>8. CASE TimerEvent
  <2>1. Master' \in OnTimer(q)
    BY <1>8 DEF TimerEvent
  <2> HIDE DEF q
  <2> QED BY <1>1, <1>2, <2>1, TimerDeaf, DeafTrans DEF Deaf
<1>9. CASE Answer
  <2> DEFINE k == [q EXCEPT !.wire = Tail(@)]
  <2>1. Deaf(Master, k)
    <3> HIDE DEF q
    <3> QED BY <1>1 DEF Deaf, Basic, Fields
  <2>2. PICK p : Master' \in ProcessPacked(k, p)
    BY <1>9 DEF Answer
  <2> HIDE DEF k
  <2> QED BY <2>1, <2>2, PacketLearns DEF Deaf, Learns, Knows
<1>10. CASE StatusChange
  <2>1. PICK p : Master' \in ProcessPacked(q, p)
    BY <1>10 DEF StatusChange
  <2> HIDE DEF q
  <2> QED BY <1>1, <2>1, PacketLearns DEF Deaf, Learns, Knows
<1>11. CASE LoseFrame
  <2>1. Master' = [q EXCEPT !.wire = Tail(@)]
    BY <1>11 DEF LoseFrame
  <2> HIDE DEF q
  <2> QED BY <1>1, <1>2, <2>1 DEF Deaf, Basic, Fields
<1>12. CASE TimePasses
  <2>1. PICK d \in Durations : Pass(d)
    BY <1>12 DEF TimePasses
  <2>2. Deaf(Master, Master')
    BY <2>1 DEF Pass, Quietly, Deaf, Basic, Fields
  <2> QED BY <1>2, <2>2
<1>13. CASE Host
  BY <1>2, <1>13, HostDeaf
<1> QED BY <1>3, <1>4, <1>5, <1>6, <1>7, <1>8, <1>9, <1>10, <1>11, <1>12, <1>13 DEF Next

\* The user's click
LEMMA ClickTells ==
  ASSUME Basic(Master), DevDisconnectClicked
  PROVE  Basic(Master') /\ Master'.closing
<1> DEFINE k == [Quietly EXCEPT !.closing = TRUE]
           Closing(m) == Basic(m) /\ m.closing
<1>1. Closing(k)
  BY DEF Quietly, Basic, Fields
<1>2. Master' = SetDeviceState(k, "OFFLINE")
  BY DEF DevDisconnectClicked
<1> HIDE DEF k
<1>3. ASSUME NEW m, Closing(m), NEW p PROVE Closing(ReadParameter(m, p))
  <2> DEFINE c == Cmd("READ_PARAM", p)
             a == Allocated(m)
  <2>1. Closing(a)
    BY <1>3 DEF Allocated, Basic, Fields
  <2>2. ReadParameter(m, p) \in {m, Enqueue(a, c)}
    BY DEF ReadParameter, AllocEnqueue
  <2> HIDE DEF a, c
  <2>3. Closing(Enqueue(a, c))
    BY <2>1 DEF Enqueue, Basic, Fields
  <2> HIDE DEF Closing
  <2> QED BY <1>3, <2>2, <2>3
<1>4. Closing([k EXCEPT !.dev = "OFFLINE"])
  BY <1>1 DEF Basic, Fields
<1> HIDE DEF Closing
<1>5. Closing(SetDeviceState(k, "OFFLINE"))
  BY <1>1, <1>3, <1>4 DEF SetDeviceState, ReadParameters
<1> QED BY <1>2, <1>5 DEF Closing

LEMMA InitBasic == Init => Basic(Master) /\ Knows(Master)
BY DEF Init, Basic, Fields, Knows

LEMMA StaysBasic == Basic(Master) /\ [Next]_Master => Basic(Master)'
<1> SUFFICES ASSUME Basic(Master), [Next]_Master PROVE Basic(Master')
  OBVIOUS
<1> QED BY StepLearns, ClickTells DEF Learns

(* checkStatus0 and the signals to zmController keep the two copies of the *)
(* network state together; if the controller's falls behind, it is by the  *)
(* user's click, in the turn that posts M_ID_DEV_DISCONNECT_REQ, and the   *)
(* port is about to be closed.                                             *)
OnlyClicked == [][Knows(Master) /\ ~Knows(Master') => UserDisconnects /\ Master'.closing]_Master

(* Proved with no word of what the user does: every other handler keeps    *)
(* what the controller knows.                                              *)
THEOREM OnlyTheUserUntells == Spec => OnlyClicked
<1>1. Basic(Master) /\ [Next]_Master
      => [Knows(Master) /\ ~Knows(Master') => UserDisconnects /\ Master'.closing]_Master
  <2> SUFFICES ASSUME Basic(Master), Next, Knows(Master), ~Knows(Master')
               PROVE  UserDisconnects /\ Master'.closing
    OBVIOUS
  <2>1. DevDisconnectClicked
    BY StepLearns DEF Learns
  <2> QED BY <2>1, ClickTells DEF DevDisconnectClicked
<1> QED BY <1>1, InitBasic, StaysBasic, PTL DEF Spec, OnlyClicked

(* As long as nobody clicks on disconnect the controller takes the device  *)
(* to be in network whenever the firmware last said that it is: over lost  *)
(* answers, reconnects and status bytes in any order.                      *)
THEOREM StateIsKnown ==
  ASSUME ~UserDisconnects
  PROVE  Spec => []DeviceStateKnown
<1>1. Basic(Master) /\ Knows(Master) /\ [Next]_Master => (Basic(Master) /\ Knows(Master))'
  <2> SUFFICES ASSUME Basic(Master), Knows(Master), [Next]_Master
               PROVE  Basic(Master') /\ Knows(Master')
    OBVIOUS
  <2>1. CASE Next
    BY <2>1, StepLearns DEF Learns, DevDisconnectClicked
  <2>2. CASE UNCHANGED Master
    BY <2>2
  <2> QED BY <2>1, <2>2
<1>2. Knows(Master) => DeviceStateKnown
  BY DEF Knows, DeviceStateKnown, NetState
<1> QED BY <1>1, <1>2, InitBasic, PTL DEF Spec
=============================================================================
