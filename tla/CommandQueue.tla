---------------------------- MODULE CommandQueue ----------------------------
(***************************************************************************)
(* zmMaster: the queue of commands between deCONZ and the coordinator      *)
(* firmware.  One variable, Master, holds struct zm_master and the statics *)
(* beside it; a handler is an operator from one Master to the set of the   *)
(* Masters it may leave behind.  The set has several members only where a  *)
(* signal the handler emits runs code that may come back into zmMaster.    *)
(*                                                                         *)
(* The firmware is the environment: it answers the commands on the wire in *)
(* order, with any status byte, or a frame is lost on the way.             *)
(***************************************************************************)
EXTENDS CommandRing, Sequences

CONSTANTS ApsIds,           \* ids of APS requests
          ParamA, ParamTC,  \* a parameter, and the address of the trust center:
                            \* they stand for all that readParameters asks for
          ParamKey,         \* the trust center's link key
          HostOps,          \* the commands the host may ask for besides APS requests
          HostLimit,        \* bound: commands of HostOps queued at once
          UserDisconnects,  \* whether the user may click on disconnect
          Statuses,         \* the status bytes the firmware may send
          Unsolicited,      \* those it may send without being asked
          Durations,        \* how much time may pass at once, in ms
          MaxCommandFails,  \* answers missed in a row that force a reconnect
          QApsLen,          \* MAX_APS_QUEUE_ITEMS - 1
          WireLen           \* frames SerialCom takes before it refuses one

ASSUME QueueAssumption ==
  /\ MaxCommandFails \in Nat \ {0}
  /\ Durations \subseteq {60, 500, 1000}
  /\ UserDisconnects \in BOOLEAN /\ HostLimit \in Nat /\ QApsLen \in Nat /\ WireLen \in Nat
  /\ ApsIds \cup {0, 1, ParamA, ParamTC, ParamKey} \subseteq Args
  /\ {"STATUS", "VERSION", "FEATURE", "APS_DATA_REQ", "APS_DATA_CONFIRM",
      "APS_DATA_INDICATION", "ZDO_NET_CONFIRM", "INTERPAN_INDICATION",
      "INTERPAN_CONFIRM", "READ_PARAM"} \cup HostOps \subseteq Ops

VARIABLE Master

Nets     == {"OFFLINE", "JOINING", "ONLINE", "LEAVING"}
IpanStates == {"NOT_CONNECTED", "CONNECTING", "CONNECTED"}
NoIpan   == "NO_STATUS1"

\* The firmware's status byte 0 and, if it has one, byte 1.
StatusBytes == [net : Nets, conf : BOOLEAN, ind : BOOLEAN, free : BOOLEAN,
                config : BOOLEAN, ipan : {NoIpan, "NOT_CONNECTED", "CONNECTED"},
                ipanInd : BOOLEAN, ipanConf : BOOLEAN]
ASSUME StatusAssumption == Statuses \subseteq StatusBytes /\ Unsolicited \subseteq StatusBytes

Frames == [op : Ops, seq : Seqs, arg : Args]

Cmd(op, arg) == [op |-> op, arg |-> arg]
Notice(sig, arg, st) == [sig |-> sig, arg |-> arg, st |-> st]

Init ==
  Master = [state |-> "OFF", com |-> "Off", wire |-> <<>>,
            ring |-> EmptyRing, fails |-> 0, qaps |-> <<>>,
            net |-> "OFFLINE", dev |-> "OFFLINE", closing |-> FALSE,
            conf |-> FALSE, ind |-> FALSE, free |-> FALSE,
            ipan |-> "NOT_CONNECTED", ipanInd |-> FALSE, ipanConf |-> FALSE,
            needStatus |-> TRUE, timer |-> FALSE, quiet |-> TRUE,
            statusOld |-> TRUE, first |-> TRUE, out |-> {}]

----------------------------------------------------------------------------
(* Queries *)
Connected(m) == m.state = "IDLE" /\ m.com = "RxTx"
NetState(m)  == IF Connected(m) THEN m.net ELSE "UNKNOWN"
QAPS_Empty(m) == m.qaps = <<>>
QAPS_Full(m)  == Len(m.qaps) = QApsLen
HasFreeApsRequest(m) ==
  NetState(m) = "ONLINE" /\ m.ring.waitConfirm < MaxUnconfirmed /\ ~QAPS_Full(m)

Notify(m, n) == [m EXCEPT !.out = @ \cup {n}]

----------------------------------------------------------------------------
(* Queueing *)

\* startTaskTimer, always with ACTION_PROCESS
StartTaskTimer(m) == [m EXCEPT !.timer = TRUE]

\* taskHandler(EVENT_ITEM_ADDED)
ItemAdded(m) ==
  CASE m.state = "OFF" -> m
    [] m.state = "IDLE" -> StartTaskTimer(m)
    [] m.state = "CONNECTING" -> [m EXCEPT !.state = "IDLE"]

\* QItem_Enqueue of the allocated item: the timer too, if a send is possible.
Enqueue(m, c) ==
  [m EXCEPT !.ring = QItem_Enqueue(@, c),
            !.timer = @ \/ (m.state = "IDLE" /\ m.ring.waitConfirm < MaxUnconfirmed)]

Allocated(m) == [m EXCEPT !.ring = QItem_Alloc(@)]

\* QItem_Alloc and QItem_Enqueue; nothing happens when no item is free.
AllocEnqueue(m, c) == IF HasFreeItem(m.ring) THEN Enqueue(Allocated(m), c) ELSE m

Holds(m, op) == \E s \in Active(m.ring) : m.ring.items[s].cmd.op = op

\* zmMaster::apsdeDataRequest, once connected, in network and not full
AcceptApsRequest(m, id) == ItemAdded([m EXCEPT !.qaps = Append(@, id)])

\* emit commandQueueEmpty: zmController::sendNext may hand over one request.
CommandQueueEmpty(m) ==
  {m} \cup IF HasFreeApsRequest(m) THEN {AcceptApsRequest(m, id) : id \in ApsIds} ELSE {}

ReadParameter(m, p) ==
  IF Connected(m) THEN AllocEnqueue(m, Cmd("READ_PARAM", p)) ELSE m

\* All parameters in a row; the code's 26 of them are two here.
ReadParameters(m) == ReadParameter(ReadParameter(m, ParamA), ParamTC)

----------------------------------------------------------------------------
(* Notification of the layers above *)

\* Mutant: an APS request is dropped without a word.
KillNoticesNoAps(c, st) ==
  IF c.op = "WRITE_PARAM" THEN {Notice("writeParameterDone", c.arg, st)} ELSE {}
\* Mutant: only APS requests are reported.
KillNoticesApsOnly(c, st) ==
  IF c.op = "APS_DATA_REQ" THEN {Notice("apsdeDataRequestDone", c.arg, st)} ELSE {}
\* killCommand.  The id of a read parameter is taken from the first byte of
\* the union, where the length of the buffer is: 1.
KillNotices(c, st) ==
  CASE c.op = "READ_PARAM" -> {Notice("readParameterResponse", 1, st)}
    [] c.op = "WRITE_PARAM" -> {Notice("writeParameterDone", c.arg, st)}
    [] c.op = "APS_DATA_REQ" -> {Notice("apsdeDataRequestDone", c.arg, st)}
    [] c.op = "START_INTERPAN_MODE" -> {Notice("startInterpanModeConfirm", 0, "FAILED")}
    [] c.op \in {"SEND_INTERPAN_REQ", "INTERPAN_CONFIRM"} ->
         {Notice("sendInterpanConfirm", 0, "FAILED")}
    [] OTHER -> {}

KillCommand(m, c, st) == [m EXCEPT !.out = @ \cup KillNotices(c, st)]

\* Mutant: the APS requests stay queued.
KillCommandsOnly(m) ==
  [m EXCEPT !.out = @ \cup UNION {KillNotices(m.ring.items[s].cmd, "ERROR") : s \in Active(m.ring)},
            !.ring = Cleared(@)]
KillCommandQueue(m) ==
  [m EXCEPT !.out = @ \cup (UNION {KillNotices(m.ring.items[s].cmd, "ERROR") : s \in Active(m.ring)})
                      \cup {Notice("apsdeDataRequestDone", m.qaps[i], "ERROR") : i \in DOMAIN m.qaps},
            !.ring = Cleared(@),
            !.qaps = <<>>]

OnDeviceDisconnected(m) ==
  KillCommandQueue([m EXCEPT !.timer = FALSE, !.state = "OFF", !.com = "Off", !.wire = <<>>])

\* SerialCom::close reports disconnected() before it returns.
ComExit(m) == IF m.state = "OFF" THEN m ELSE OnDeviceDisconnected(KillCommandQueue(m))

----------------------------------------------------------------------------
(* Sending *)

\* QItem_Send; SerialCom::send refuses when it is not up or its queue is full.
QItem_Send(m, s) ==
  IF m.com = "RxTx" /\ Len(m.wire) < WireLen
  THEN LET i == m.ring.items[s]
       IN [m EXCEPT !.ring = QItem_Sent(@, s),
                    !.wire = Append(@, [op |-> i.cmd.op, seq |-> i.seq, arg |-> i.cmd.arg]),
                    !.quiet = FALSE]
  ELSE m

\* Mutant: one more command in flight.
SendNextCommandTooMany(m) ==
  IF Connected(m) /\ m.ring.waitSend > 0 /\ m.ring.waitConfirm <= MaxUnconfirmed /\ ToSend(m.ring) # {}
  THEN {QItem_Send(m, QItem_NextToSend(m.ring))}
  ELSE {m}

SendNextCommand(m) ==
  IF Connected(m) /\ m.ring.waitSend > 0 /\ m.ring.waitConfirm < MaxUnconfirmed /\ ToSend(m.ring) # {}
  THEN LET n == QItem_Send(m, QItem_NextToSend(m.ring))
       IN IF QAPS_Empty(n) THEN CommandQueueEmpty(n) ELSE {n}
  ELSE {m}

EnqueueStatus(m) == IF Holds(m, "STATUS") THEN m ELSE AllocEnqueue(m, Cmd("STATUS", 0))

QueApsDataConfirm(m) ==
  LET n == [m EXCEPT !.conf = FALSE]
  IN IF Holds(m, "APS_DATA_CONFIRM") THEN n ELSE AllocEnqueue(n, Cmd("APS_DATA_CONFIRM", 0))

\* Mutant: the query is queued again while one is under way.
QueApsDataIndicationTwice(m) == AllocEnqueue([m EXCEPT !.ind = FALSE], Cmd("APS_DATA_INDICATION", 0))

QueApsDataIndication(m) ==
  LET n == [m EXCEPT !.ind = FALSE]
  IN IF Holds(m, "APS_DATA_INDICATION") THEN n ELSE AllocEnqueue(n, Cmd("APS_DATA_INDICATION", 0))

\* The item is allocated before the id is taken from q_aps, the controller is
\* called in between and may have dropped the request, or the request may
\* not fit a frame: then the item stays free.
QueNextApsDataRequest(m) ==
  IF ~HasFreeItem(m.ring) THEN {m}
  ELSE LET id == Head(m.qaps)
           ns == CommandQueueEmpty([Allocated(m) EXCEPT !.qaps = Tail(@)])
       IN ns \cup {Notify(n, Notice("apsdeDataRequestDone", id, "ERROR")) : n \in ns}
             \cup {Enqueue([n EXCEPT !.free = FALSE], Cmd("APS_DATA_REQ", id)) : n \in ns}

QueInterpan(m) ==
  CASE m.ipanInd /\ HasFreeItem(m.ring) ->
         AllocEnqueue([m EXCEPT !.ipanInd = FALSE], Cmd("INTERPAN_INDICATION", 0))
    [] ~m.ipanInd /\ m.ipanConf /\ HasFreeItem(m.ring) ->
         AllocEnqueue([m EXCEPT !.ipanConf = FALSE], Cmd("INTERPAN_CONFIRM", 0))
    [] OTHER -> m

ProcessQueue(m) ==
  LET CanQueue(op) == Holds(m, op) \/ HasFreeItem(m.ring)
  IN CASE m.needStatus ->
            IF CanQueue("STATUS")
            THEN {[EnqueueStatus(m) EXCEPT !.conf = FALSE, !.ind = FALSE, !.free = FALSE,
                                           !.needStatus = FALSE]}
            ELSE {m}
       [] ~m.needStatus /\ (m.ring.waitSend >= NSlots \/ m.ring.waitConfirm >= MaxUnconfirmed) -> {m}
       [] OTHER ->
            IF m.conf /\ CanQueue("APS_DATA_CONFIRM") THEN {QueApsDataConfirm(m)}
            ELSE IF ~m.conf /\ m.ind /\ CanQueue("APS_DATA_INDICATION") THEN {QueApsDataIndication(m)}
            ELSE {QueInterpan(n) : n \in IF NetState(m) = "ONLINE" /\ m.free /\ ~QAPS_Empty(m)
                                         THEN QueNextApsDataRequest(m) ELSE {m}}

\* handleStateIdle(ACTION_PROCESS)
ProcessAndSend(m) ==
  LET Rearm(n) == IF /\ n.ring.waitConfirm < MaxUnconfirmed
                     /\ n.conf \/ n.ind \/ ~QAPS_Empty(n) \/ n.ring.waitSend > 0
                  THEN StartTaskTimer(n) ELSE n
  IN {Rearm(n) : n \in UNION {SendNextCommand(k) : k \in ProcessQueue(m)}}

----------------------------------------------------------------------------
(* Timeouts *)

\* The item of S that was queued last, seen from the write pointer downwards.
Newest(r, S) ==
  LET Back(s) == (r.wp - 1 - s) % NSlots
  IN CHOOSE s \in S : \A t \in S : Back(s) <= Back(t)

\* Mutant: the connection is kept one failure too long.
GiveUpLate(m, s) ==
  LET c == m.ring.items[s].cmd
      n == [KillCommand(m, c, "TIMEOUT") EXCEPT !.ring = QItem_Free(@, s), !.fails = @ + 1]
  IN {IF n.fails > MaxCommandFails THEN ComExit(n) ELSE n}

\* One turn of the loop in handleTimeouts, at an item in flight.
GiveUp(m, s) ==
  LET c == m.ring.items[s].cmd
      killed == KillCommand(m, c, "TIMEOUT")
      Freed(n) == [n EXCEPT !.ring = QItem_Free(@, s), !.fails = @ + 1]
      Reconnect(n) == IF n.fails >= MaxCommandFails THEN ComExit(n) ELSE n
  IN {Reconnect(Freed(n)) : n \in IF c.op = "APS_DATA_REQ" THEN CommandQueueEmpty(killed) ELSE {killed}}

\* Mutant: one retry too many.
VisitLateAgain(m, s) ==
  CASE ~m.ring.items[s].late -> {m}
    [] m.ring.items[s].late /\ m.ring.items[s].retries > MaxSendRetry -> GiveUp(m, s)
    [] OTHER -> {QItem_Send([m EXCEPT !.ring = Requeue(@, s)], s)}

VisitLate(m, s) ==
  CASE ~m.ring.items[s].late -> {m}
    [] m.ring.items[s].late /\ m.ring.items[s].retries >= MaxSendRetry -> GiveUp(m, s)
    [] OTHER -> {QItem_Send([m EXCEPT !.ring = Requeue(@, s)], s)}

\* handleTimeouts.  At most MaxUnconfirmed = 2 items are in flight, so the loop
\* visits the newest and, if the counter it is compared with was not lowered
\* by then, the other one.
HandleTimeouts(m) ==
  IF m.ring.waitConfirm = 0 \/ InFlight(m.ring) = {} THEN {m}
  ELSE LET a == Newest(m.ring, InFlight(m.ring))
           Rest(n) == InFlight(n.ring) \ {a}
       IN UNION {IF n.state = "OFF" \/ n.ring.waitConfirm <= 1 \/ Rest(n) = {} THEN {n}
                 ELSE VisitLate(n, Newest(n.ring, Rest(n))) : n \in VisitLate(m, a)}

\* timerEvent, without the firmware's debug level: after 60 ms of quiet the
\* status may be asked for and the queue is processed.
\* Mutant: the status is asked for only while an answer is missing.
PollOnlyBusy(m) == {[m EXCEPT !.needStatus = @ \/ m.ring.waitConfirm > 0]}
Poll(m) ==
  CASE m.ring.waitConfirm > 0 -> {[m EXCEPT !.needStatus = TRUE]}
    [] m.ring.waitConfirm = 0 /\ m.statusOld ->
         LET n == [m EXCEPT !.needStatus = TRUE]
         IN IF QAPS_Empty(n) THEN CommandQueueEmpty(n) ELSE {n}
    [] OTHER -> {m}

Proceed(m) ==
  IF m.needStatus \/ ~QAPS_Empty(m) \/ m.ring.waitSend > 0 \/ m.conf \/ m.ind
  THEN StartTaskTimer(m) ELSE m

\* Mutant: answers are waited for without end.
OnTimerNoTimeouts(m) == IF m.quiet THEN {Proceed(k) : k \in Poll(m)} ELSE {m}
OnTimer(m) ==
  UNION {HandleTimeouts(n) : n \in IF m.quiet THEN {Proceed(k) : k \in Poll(m)} ELSE {m}}

----------------------------------------------------------------------------
(* Packets *)

\* zmController::setDeviceState: a state new to it has all parameters read.
SetDeviceState(m, net) ==
  IF m.dev = net THEN m ELSE ReadParameters([m EXCEPT !.dev = net])

\* The controller is told; coming from JOINING, the outcome is looked at.
NetChanged(m, from) ==
  LET n == SetDeviceState(m, m.net)
  IN CASE m.net = "ONLINE" /\ from = "JOINING" -> ReadParameters(n)
       [] m.net = "OFFLINE" /\ from = "JOINING" -> AllocEnqueue(n, Cmd("ZDO_NET_CONFIRM", 0))
       [] OTHER -> n

\* Mutant: the controller is not told of the new state.
CheckStatus0Untold(m, st) ==
  [m EXCEPT !.net = st.net, !.conf = st.conf, !.ind = st.ind, !.free = st.free]

CheckStatus0(m, st) ==
  LET n == [m EXCEPT !.net = st.net, !.conf = st.conf, !.ind = st.ind, !.free = st.free]
      k == IF st.config THEN ReadParameters(n) ELSE n
  IN IF st.net # m.net THEN NetChanged(k, m.net) ELSE k

\* onApsdeDataIndication: who hears from the network is in it.
Indicate(m) == {m, SetDeviceState(m, "ONLINE")}

CheckStatus1(m, st) ==
  IF st.ipan = NoIpan THEN m
  ELSE LET n == [m EXCEPT !.ipan = st.ipan, !.ipanInd = st.ipanInd, !.ipanConf = st.ipanConf]
       IN IF m.ipan = "CONNECTING" /\ st.ipan # "CONNECTING"
          THEN Notify(n, Notice("startInterpanModeConfirm", 0,
                                IF st.ipan = "CONNECTED" THEN "SUCCESS" ELSE "FAILED"))
          ELSE n

\* The first packet after the port was opened asks for version and features.
Greet(m) ==
  LET Ask(n, op) == IF Connected(n) /\ HasFreeItem(n.ring)
                    THEN ItemAdded(AllocEnqueue(n, Cmd(op, 0))) ELSE n
  IN IF m.first THEN [Ask(Ask(m, "VERSION"), "FEATURE") EXCEPT !.first = FALSE] ELSE m

Confirmed(m, p) ==
  LET n == [m EXCEPT !.ring = QItem_Confirm(@, p.op, p.seq),
                     !.fails = IF Confirms(m.ring, p.op, p.seq) = {} THEN @ ELSE 0]
  IN [n EXCEPT !.quiet = @ \/ n.ring.waitConfirm = 0]

\* The switch of processPacked: most answers bring one status byte, some bring two.
Answered(m, p)  == [CheckStatus0(m, p.st) EXCEPT !.needStatus = FALSE]
Answered1(m, p) == CheckStatus1(Answered(m, p), p.st)
StatusDone(m, p) ==
  {IF p.op = "VERSION" THEN [m EXCEPT !.needStatus = TRUE] ELSE [Answered1(m, p) EXCEPT !.statusOld = FALSE]}
ApsDone(m, p) ==
  CASE p.op = "APS_DATA_REQ" ->
         {IF p.ok THEN Notify(Answered(m, p), Notice("apsdeDataRequestDone", p.arg, "SUCCESS")) ELSE Answered(m, p)}
    [] p.op = "APS_DATA_CONFIRM" ->
         IF p.ok THEN CommandQueueEmpty(Answered(m, p)) ELSE {Answered(m, p)}
    [] p.op = "APS_DATA_INDICATION" ->
         IF p.ok THEN UNION {CommandQueueEmpty(n) : n \in Indicate(Answered(m, p))} ELSE {Answered(m, p)}
ParamDone(m, p) ==
  IF p.op = "WRITE_PARAM"
  THEN {Notify(m, Notice("writeParameterDone", p.arg, IF p.ok THEN "SUCCESS" ELSE "ERROR"))}
  ELSE {Notify(n, Notice("readParameterResponse", p.arg, IF p.ok THEN "SUCCESS" ELSE "ERROR")) :
          n \in {m} \cup IF p.arg = ParamTC THEN {ReadParameter(m, ParamKey)} ELSE {}}
IpanDone(m, p) ==
  CASE p.op = "INTERPAN_INDICATION" -> {Answered1(m, p)}
    [] p.op = "INTERPAN_CONFIRM" ->
         {Notify(Answered1(m, p), Notice("sendInterpanConfirm", 0, IF p.ok THEN "SUCCESS" ELSE "FAILED"))}
    [] p.op = "START_INTERPAN_MODE" ->
         {IF p.ok THEN [m EXCEPT !.ipan = "CONNECTING"]
          ELSE Notify(m, Notice("startInterpanModeConfirm", 0, "FAILED"))}
    [] p.op = "SEND_INTERPAN_REQ" ->
         {IF p.ok THEN m ELSE Notify(m, Notice("sendInterpanConfirm", 0, "FAILED"))}
Dispatch(m, p) ==
  CASE p.op \in {"STATUS", "STATUS_CHANGE", "VERSION"} -> StatusDone(m, p)
    [] p.op \in {"APS_DATA_REQ", "APS_DATA_CONFIRM", "APS_DATA_INDICATION"} -> ApsDone(m, p)
    [] p.op \in {"READ_PARAM", "WRITE_PARAM"} -> ParamDone(m, p)
    [] p.op \in {"INTERPAN_INDICATION", "INTERPAN_CONFIRM", "START_INTERPAN_MODE", "SEND_INTERPAN_REQ"} ->
         IpanDone(m, p)
    [] OTHER -> {m}

ProcessPacked(m, p) ==
  IF m.state \in {"OFF", "CONNECTING"} THEN {m}
  ELSE {IF n.state = "IDLE" THEN StartTaskTimer(n) ELSE n :
          n \in Dispatch(Greet(Confirmed(m, p)), p)}

----------------------------------------------------------------------------
(* Actions.  Every action starts with no notification given yet.           *)
Quietly == [Master EXCEPT !.out = {}]

\* openSerial, when the port can be opened
OpenSerial ==
  /\ Master.state = "OFF" /\ Master.com = "Off"
  /\ Master' = [Quietly EXCEPT !.state = "CONNECTING", !.com = "Opening", !.first = TRUE,
                               !.quiet = TRUE, !.statusOld = TRUE, !.fails = 0]

OnDeviceConnected ==
  /\ Master.com = "Opening"
  /\ Master' = StartTaskTimer([Quietly EXCEPT !.com = "RxTx", !.needStatus = TRUE, !.state = "IDLE"])

\* The port is gone.
LinkLost ==
  /\ Master.com # "Off"
  /\ Master' = OnDeviceDisconnected(Quietly)

\* MainWindow::devDisconnectClicked: the controller is told at once, the port
\* is closed when M_ID_DEV_DISCONNECT_REQ has been delivered.
DevDisconnectClicked ==
  /\ UserDisconnects /\ ~Master.closing
  /\ Master' = SetDeviceState([Quietly EXCEPT !.closing = TRUE], "OFFLINE")

CloseByUser ==
  /\ Master.closing
  /\ Master' = ComExit([Quietly EXCEPT !.closing = FALSE])

TaskTimerFired ==
  /\ Master.timer
  /\ LET m == [Quietly EXCEPT !.timer = FALSE]
     IN CASE m.state = "OFF" -> Master' = m
          [] m.state = "CONNECTING" -> Master' = [m EXCEPT !.state = "IDLE"]
          [] m.state = "IDLE" -> Master' \in ProcessAndSend(m)

TimerEvent ==
  /\ Master.state = "IDLE"
  /\ Master' \in OnTimer(Quietly)

\* The firmware answers the oldest command on the wire.
Answer ==
  /\ Master.com = "RxTx" /\ Master.wire # <<>>
  /\ LET f == Head(Master.wire)
     IN \E st \in Statuses, ok \in BOOLEAN :
          Master' \in ProcessPacked([Quietly EXCEPT !.wire = Tail(@)],
                                    [op |-> f.op, seq |-> f.seq, arg |-> f.arg, ok |-> ok, st |-> st])

\* ZM_CMD_STATUS_CHANGE: the same as STATUS but nobody asked.
StatusChange ==
  /\ Master.com = "RxTx"
  /\ \E st \in Unsolicited :
       Master' \in ProcessPacked(Quietly, [op |-> "STATUS_CHANGE", seq |-> 0, arg |-> 0, ok |-> TRUE, st |-> st])

\* A command or its answer is lost or arrives damaged.
LoseFrame ==
  /\ Master.wire # <<>>
  /\ Master' = [Quietly EXCEPT !.wire = Tail(@)]

\* More than 60, 500 or 1000 ms pass.
Pass(d) ==
  Master' = [Quietly EXCEPT
    !.quiet = TRUE,
    !.statusOld = @ \/ d >= 1000,
    !.ring.items = [s \in Slots |->
       IF d >= 500 /\ @[s].state = "WAIT_CONFIRM" THEN [@[s] EXCEPT !.late = TRUE] ELSE @[s]]]
TimePasses == \E d \in Durations : Pass(d)

\* zmMaster::apsdeDataRequest
ApsdeDataRequest ==
  /\ Connected(Master) /\ NetState(Master) = "ONLINE" /\ ~QAPS_Full(Master)
  /\ \E id \in ApsIds : Master' = AcceptApsRequest(Quietly, id)

\* Bounds the model; with HostLimit = NSlots it always holds.
HostMayAsk ==
  Cardinality({s \in Active(Master.ring) : Master.ring.items[s].cmd.op \in HostOps}) < HostLimit

\* Commands the host asks for: with the task handler told, or without.
HostReads ==
  /\ "READ_PARAM" \in HostOps /\ Connected(Master) /\ HasFreeItem(Master.ring) /\ HostMayAsk
  /\ \E p \in {ParamA, ParamTC} : Master' = ReadParameter(Quietly, p)

HostReadsAll ==
  /\ "READ_PARAM" \in HostOps /\ Connected(Master) /\ HostMayAsk
  /\ Master' = ReadParameters(Quietly)

HostAsks ==
  /\ Connected(Master) /\ HasFreeItem(Master.ring) /\ HostMayAsk
  /\ \E op \in HostOps \cap {"CHANGE_NET_STATE", "UPDATE_NEIGHBOR", "WRITE_PARAM"} :
       Master' = AllocEnqueue(Quietly, Cmd(op, 0))

HostAsksNow ==
  /\ Connected(Master) /\ HasFreeItem(Master.ring) /\ HostMayAsk
  /\ \E op \in HostOps \cap {"VERSION", "NWK_LEAVE_REQ", "FACTORY_RESET"} :
       Master' = ItemAdded(AllocEnqueue(Quietly, Cmd(op, 0)))

StartInterpanMode ==
  /\ "START_INTERPAN_MODE" \in HostOps
  /\ NetState(Master) = "OFFLINE" /\ HasFreeItem(Master.ring) /\ HostMayAsk
  /\ Master' = ItemAdded(AllocEnqueue(Quietly, Cmd("START_INTERPAN_MODE", 0)))

\* Refused only if not in network and the last known inter-PAN state is not
\* CONNECTED: whether the device is connected is not asked.
SendInterpanRequest ==
  /\ "SEND_INTERPAN_REQ" \in HostOps
  /\ NetState(Master) = "ONLINE" \/ Master.ipan = "CONNECTED"
  /\ HasFreeItem(Master.ring) /\ HostMayAsk
  /\ Master' = ItemAdded(AllocEnqueue(Quietly, Cmd("SEND_INTERPAN_REQ", 0)))

Host == \/ ApsdeDataRequest \/ HostReads \/ HostReadsAll \/ HostAsks \/ HostAsksNow
        \/ StartInterpanMode \/ SendInterpanRequest

Next == \/ OpenSerial \/ OnDeviceConnected \/ LinkLost \/ CloseByUser \/ DevDisconnectClicked
        \/ TaskTimerFired \/ TimerEvent
        \/ Answer \/ StatusChange \/ LoseFrame \/ TimePasses
        \/ Host

Spec == Init /\ [][Next]_Master

(* The scheduling the code has: the event loop fires timers that are due,  *)
(* the I/O thread empties its queue, time goes on.  Nothing is promised of *)
(* the firmware or of the host.                                            *)
Fairness ==
  /\ WF_Master(TaskTimerFired) /\ WF_Master(TimerEvent)
  /\ WF_Master(Answer \/ LoseFrame) /\ WF_Master(Pass(1000))
FairSpec == Spec /\ Fairness

----------------------------------------------------------------------------
(* Properties *)
TypeOK ==
  /\ DOMAIN Master = {"state", "com", "wire", "ring", "fails", "qaps", "net", "dev", "closing", "conf",
        "ind", "free", "ipan", "ipanInd", "ipanConf", "needStatus", "timer", "quiet", "statusOld",
        "first", "out"}
  /\ Master.state \in {"OFF", "CONNECTING", "IDLE"}
  /\ Master.com \in {"Off", "Opening", "RxTx"}
  /\ Master.wire \in Seq(Frames) /\ Len(Master.wire) <= WireLen
  /\ Master.ring \in Rings
  /\ Master.fails \in 0 .. MaxCommandFails
  /\ Master.qaps \in Seq(ApsIds) /\ Len(Master.qaps) <= QApsLen
  /\ {Master.net, Master.dev} \subseteq Nets /\ Master.ipan \in IpanStates
  /\ {Master.closing, Master.conf, Master.ind, Master.free, Master.ipanInd, Master.ipanConf, Master.needStatus,
      Master.timer, Master.quiet, Master.statusOld, Master.first} \subseteq BOOLEAN

(* q_items_wait_send and q_items_wait_confirm, which eight functions count *)
(* up and down, are the numbers of items in those states at every turn of  *)
(* the event loop.                                                         *)
CountersCount == CountersExact(Master.ring)

(* processPacked asserts q_items_wait_confirm <= MaxUnconfirmed: a retry   *)
(* in handleTimeouts never lets a third command into flight.               *)
FewUnconfirmed == Master.ring.waitConfirm <= MaxUnconfirmed

(* A response can only confirm the command it answers: no two active items *)
(* share a sequence number, though it wraps and items are freed in any     *)
(* order.                                                                  *)
SeqsUnique == SeqsDiffer(Master.ring)

(* The queries that fetch what the firmware holds are queued once at a     *)
(* time, however often a status byte asks for them.                        *)
FetchedOnce ==
  \A op \in {"STATUS", "APS_DATA_CONFIRM", "APS_DATA_INDICATION"} :
    Cardinality({s \in Active(Master.ring) : Master.ring.items[s].cmd.op = op}) <= 1

(* openSerial asserts that nothing is queued when the port is opened: that *)
(* holds but for inter-PAN requests, which are taken while it is closed.   *)
OffIsEmpty ==
  Master.state = "OFF" =>
    /\ Master.qaps = <<>>
    /\ \A s \in Active(Master.ring) : Master.ring.items[s].cmd.op = "SEND_INTERPAN_REQ"

(* A connection that missed MaxCommandFails answers is not kept.           *)
GivesUpInTime == Master.state # "OFF" => Master.fails < MaxCommandFails

(* A command leaves the ring only by its answer, by an answer overdue      *)
(* after its second send, or with all others when the connection is shut.  *)
Leaves(s) == /\ s \in Active(Master.ring)
             /\ ~ /\ s \in Active(Master'.ring)
                  /\ Master'.ring.items[s].seq = Master.ring.items[s].seq
OnlyServed ==
  \A s \in Slots : Leaves(s) =>
    LET i == Master.ring.items[s]
    IN \/ /\ i.state = "WAIT_CONFIRM"
          /\ Master.wire # <<>> /\ Head(Master.wire).op = i.cmd.op /\ Head(Master.wire).seq = i.seq
       \/ i.state = "WAIT_CONFIRM" /\ i.retries = MaxSendRetry /\ i.late
       \/ Master'.state = "OFF"
LeavesOnlyServed == [][OnlyServed]_Master

(* An APS request that is dropped from the queue unanswered is reported to *)
(* the controller in the same turn (killCommand, killCommandQueue).        *)
Unanswered(s) == Leaves(s) /\ (Master'.wire = Master.wire \/ Master'.state = "OFF")
RequestReported ==
  \A s \in Slots : Unanswered(s) /\ Master.ring.items[s].cmd.op = "APS_DATA_REQ"
    => \E n \in Master'.out : /\ n.sig = "apsdeDataRequestDone"
                             /\ n.arg = Master.ring.items[s].cmd.arg
DroppedIsReported == [][RequestReported]_Master

(* The same of the other commands somebody waits for: a parameter to be    *)
(* written and the two inter-PAN requests.                                 *)
Report(op) == CASE op = "WRITE_PARAM" -> "writeParameterDone"
                [] op = "START_INTERPAN_MODE" -> "startInterpanModeConfirm"
                [] op = "SEND_INTERPAN_REQ" -> "sendInterpanConfirm"
HostReported ==
  \A s \in Slots :
    /\ Unanswered(s)
    /\ Master.ring.items[s].cmd.op \in {"WRITE_PARAM", "START_INTERPAN_MODE", "SEND_INTERPAN_REQ"}
    => \E n \in Master'.out : n.sig = Report(Master.ring.items[s].cmd.op)
HostIsTold == [][HostReported]_Master

(* "HACK in rare cases we go out of network despite everything working":   *)
(* once the firmware's status came and says it is in network, the          *)
(* controller takes the device to be in network.                           *)
DeviceStateKnown ==
  /\ NetState(Master) = "ONLINE" /\ ~Master.closing /\ ~Master.first /\ ~Master.statusOld
  => Master.dev = "ONLINE"

(* Every command is sent or dropped at last, also when the firmware never  *)
(* answers: it does not starve behind newer ones.                          *)
EverySendComes ==
  \A s \in Slots : []<>(s \notin ToSend(Master.ring))

(* The status is asked for again and again as long as the connection lasts.*)
StatusIsAsked ==
  []<>(Master.state # "IDLE" \/ Holds(Master, "STATUS"))
============================================================================
