----------------------------- MODULE AutoConnect -----------------------------
(***************************************************************************)
(* The main window looks for a device and connects to it again and again:  *)
(* the auto connect manager and the device messages of mainwindow.cpp, the *)
(* actor core/dev of zm_controller.cpp that opens and closes the port, and *)
(* of zmMaster and SerialCom whether the port is open and answered.        *)
(*                                                                         *)
(* Window and core/dev know each other by messages only, which one queue   *)
(* delivers in order; between two of them the window's timer fires and the *)
(* user clicks.  A response names no request.                              *)
(*                                                                         *)
(* m_connTimeout is left out: it counts M_ID_DEV_TIMEOUT, which nobody     *)
(* sends, for nothing emits deviceStateTimeOut.                            *)
(***************************************************************************)
EXTENDS Integers, Sequences, SequencesExt, FiniteSets, FiniteSetsExt

CONSTANTS Devices,         \* in the order they are listed, a sequence
          Alive,           \* those that answer; the others can be opened
          AutoOn,          \* --auto-connect
          WaitLong, WaitShort,  \* WaitReconnectDuration, WaitReconnectDuration2
          PollEvery,       \* ticks between two polls
          MaxMail,         \* bound: messages under way when the timer fires
          MaxClicks,       \* bound: what the user does
          MaxFaults        \* bound: devices come and go, fall silent, a late poll

ASSUME AutoAssumption ==
  /\ Devices \in Seq(ToSet(Devices))
  /\ WaitLong \in Nat /\ WaitShort \in 0 .. WaitLong /\ PollEvery \in Nat \ {0}

VARIABLES win,             \* m_state
          ports,           \* m_devs
          autoIdx,         \* m_autoConnIdx, from 0
          waitTicks,       \* m_waitReconnectCount
          entry,           \* m_devEntry, or None
          reconnect,       \* m_reconnectDevPath, or None
          pendIdx, pendAuto,    \* m_pendingConnectIdx, -1 for none; m_pendingConnectAuto
          winOpen, winConn,     \* m_deviceOpen, m_deviceConnected
          afterUpdate,     \* m_reconnectAfterFirmwareUpdate
          pollTick,        \* m_devicePollTickCounter
          fw, fwOver,      \* ParamFirmwareUpdateActive; m_firmwareUpdateTime is over
          com, comDev,     \* the state of zmMaster and SerialCom, the device that is open
          answered,        \* m_packetCounter > 0
          plugged,         \* devices that are there
          mq,              \* messages under way
          clicks, troubles \* bounds

winVars == <<win, ports, autoIdx, waitTicks, entry, reconnect, pendIdx, pendAuto, winOpen, winConn,
             afterUpdate, pollTick>>
comVars == <<com, comDev, answered>>
autoVars == <<winVars, fw, fwOver, comVars, plugged, mq, clicks, troubles>>

None == "none"
\* The devices that are there, in their order: the k-th of them is the first one that has
\* k of them up to itself.
Here    == {i \in DOMAIN Devices : Devices[i] \in plugged}
Upto(i) == {j \in Here : j <= i}
Nth(k)  == Min({i \in Here : k <= Cardinality(Upto(i))})
Present == [k \in 1 .. Cardinality(Here) |-> Devices[Nth(k)]]
State(reason) == [kind |-> "state", open |-> com # "off", conn |-> com = "rxtx", reason |-> reason]
Closed == [kind |-> "state", open |-> FALSE, conn |-> FALSE, reason |-> TRUE]

\* The constructor lists the ports; the timer starts a second later.
AutoInit ==
  /\ win = "idle" /\ plugged = ToSet(Devices) /\ ports = Devices /\ autoIdx = 0 /\ waitTicks = 0
  /\ entry = None /\ reconnect = None /\ pendIdx = -1 /\ pendAuto = FALSE
  /\ winOpen = FALSE /\ winConn = FALSE /\ afterUpdate = FALSE /\ pollTick = 0
  /\ fw = "idle" /\ fwOver = FALSE /\ com = "off" /\ comDev = None /\ answered = FALSE
  /\ mq = <<>> /\ clicks = 0 /\ troubles = 0

----------------------------------------------------------------------------
(* The window.                                                             *)

\* setState: an update remembers the device and starts its time.
Update == /\ win' = "update"
          /\ IF win = "update" THEN UNCHANGED <<reconnect, fwOver>>
                               ELSE reconnect' = entry /\ fwOver' = FALSE

\* m_autoConnIdx counts on until the manager finds it past the end; here no further.
NextIdx == Min({autoIdx + 1, Len(Devices)})

\* The device to try: the last one connected if there is one, else the next in turn.
StartIdx(list, i) == IF i < Len(list) THEN i ELSE 0
Wanted == IF reconnect = None THEN autoIdx
          ELSE IF reconnect \in ToSet(Present) THEN CHOOSE i \in 0 .. Len(Present) - 1 : Present[i + 1] = reconnect
          ELSE Len(Present)

\* initAutoConnectManager, with w ticks to wait and the messages q.
Manager(w, q) ==
  \/ /\ fw = "running"
     /\ Update /\ afterUpdate' = TRUE /\ waitTicks' = w /\ mq' = q
     /\ UNCHANGED <<ports, autoIdx, pendIdx, pendAuto>>
  \/ /\ fw # "running" /\ win = "update"
     /\ IF fwOver THEN win' = "idle" /\ waitTicks' = WaitLong ELSE UNCHANGED win /\ waitTicks' = w
     /\ mq' = q /\ UNCHANGED <<ports, autoIdx, pendIdx, pendAuto, reconnect, afterUpdate, fwOver>>
  \/ /\ fw # "running" /\ win # "update" /\ (w > 0 \/ ~(AutoOn \/ afterUpdate))
     /\ waitTicks' = w /\ mq' = q /\ ports' \in {ports, Present}
     /\ UNCHANGED <<win, autoIdx, pendIdx, pendAuto, reconnect, afterUpdate, fwOver>>
  \/ /\ fw # "running" /\ win # "update" /\ w = 0 /\ (AutoOn \/ afterUpdate)
     /\ waitTicks' = w /\ ports' = Present /\ reconnect' = None
     /\ IF Present = <<>>
        THEN autoIdx' = Wanted /\ mq' = q /\ UNCHANGED <<win, pendIdx, pendAuto>>
        ELSE LET i == StartIdx(Present, Wanted)
             IN  /\ autoIdx' = i /\ pendIdx' = i /\ pendAuto' = TRUE /\ win' = "connecting"
                 /\ mq' = Append(q, [kind |-> "connect", dev |-> Present[i + 1]])
     /\ UNCHANGED <<afterUpdate, fwOver>>

\* devDisconnectClicked
Disconnect(q) ==
  /\ mq' = Append(q, [kind |-> "disconnect"])
  /\ IF win \notin {"connecting", "connected"} THEN UNCHANGED <<win, reconnect, fwOver>>
     ELSE IF fw = "running" THEN Update
     ELSE win' = "idle" /\ UNCHANGED <<reconnect, fwOver>>

\* timerEvent.  What a poll said is forgotten if none is answered for 30 seconds.  Whether
\* the ports are listed while it waits depends on the network's state.
timerEvent ==
  /\ Len(mq) <= MaxMail
  /\ pollTick' = (pollTick + 1) % PollEvery
  /\ LET q == IF pollTick = 0 THEN Append(mq, [kind |-> "read"]) ELSE mq
         w == Max({waitTicks - 1, 0})
     IN  \E old \in BOOLEAN :
           /\ old => troubles < MaxFaults /\ winOpen
           /\ troubles' = IF old THEN troubles + 1 ELSE troubles
           /\ winOpen' = (winOpen /\ ~old) /\ winConn' = (winConn /\ ~old)
           /\ \/ ~winOpen' /\ Manager(w, q)
              \/ /\ winOpen' /\ fw = "running"
                 /\ Update /\ afterUpdate' = TRUE /\ waitTicks' = w
                 /\ mq' = Append(q, [kind |-> "disconnect"])
                 /\ UNCHANGED <<ports, autoIdx, pendIdx, pendAuto>>
              \/ /\ winOpen' /\ fw # "running" /\ waitTicks' = w /\ mq' = q
                 /\ UNCHANGED <<win, ports, autoIdx, pendIdx, pendAuto, reconnect, afterUpdate, fwOver>>
  /\ UNCHANGED <<entry, fw, comVars, plugged, clicks>>

\* devConnectClicked: the button is there when the window is idle.
devConnectClicked(i) ==
  /\ clicks < MaxClicks /\ clicks' = clicks + 1
  /\ win = "idle" /\ ~winOpen /\ i \in DOMAIN ports
  /\ pendIdx' = i - 1 /\ pendAuto' = FALSE /\ win' = "connecting"
  /\ mq' = Append(mq, [kind |-> "connect", dev |-> ports[i]])
  /\ UNCHANGED <<ports, autoIdx, waitTicks, entry, reconnect, winOpen, winConn, afterUpdate, pollTick,
                 fw, fwOver, comVars, plugged, troubles>>
devDisconnectClicked ==
  /\ clicks < MaxClicks /\ clicks' = clicks + 1
  /\ win = "connected" /\ Disconnect(mq)
  /\ UNCHANGED <<ports, autoIdx, waitTicks, entry, pendIdx, pendAuto, winOpen, winConn, afterUpdate, pollTick,
                 fw, comVars, plugged, troubles>>
getComPorts ==
  /\ clicks < MaxClicks /\ clicks' = clicks + 1
  /\ ports # Present /\ ports' = Present
  /\ UNCHANGED <<win, autoIdx, waitTicks, entry, reconnect, pendIdx, pendAuto, winOpen, winConn, afterUpdate,
                 pollTick, fw, fwOver, comVars, plugged, mq, troubles>>

\* Mutant: a port that closes is not noticed.
SeenOpen(m) == winOpen' = (winOpen \/ m.open) /\ winConn' = m.conn
Seen(m)     == winOpen' = m.open /\ winConn' = m.conn
\* handleDeviceStateNotification, onDeviceDisconnected, onDeviceConnected
StateArrives(m) ==
  /\ Seen(m)
  /\ IF m.reason \/ (winOpen /\ ~m.open)
     THEN /\ waitTicks' = WaitLong /\ autoIdx' = IF reconnect = None THEN NextIdx ELSE autoIdx
          /\ win' = IF win = "update" THEN win ELSE "idle"
          /\ UNCHANGED reconnect
     ELSE IF m.conn /\ ~winConn
     THEN win' = "connected" /\ reconnect' = entry /\ UNCHANGED <<waitTicks, autoIdx>>
     ELSE UNCHANGED <<win, waitTicks, autoIdx, reconnect>>

\* handleConnectResponse
Response(ok) ==
  /\ pendIdx' = -1 /\ pendAuto' = FALSE
  /\ IF ok
     THEN /\ entry' = IF pendIdx \in 0 .. Len(ports) - 1 THEN ports[pendIdx + 1] ELSE entry
          /\ UNCHANGED <<win, waitTicks, autoIdx>>
     ELSE /\ win' = "idle" /\ UNCHANGED entry
          /\ IF pendAuto THEN waitTicks' = WaitShort /\ autoIdx' = (IF reconnect = None THEN NextIdx ELSE autoIdx)
                         ELSE UNCHANGED <<waitTicks, autoIdx>>

----------------------------------------------------------------------------
(* core/dev and the port.                                                  *)

\* openSerial: refused unless the port is closed and the device there.
Connect(m) ==
  LET ok == com = "off" /\ m.dev \in plugged
  IN  /\ IF ok THEN com' = "query" /\ comDev' = m.dev /\ answered' = FALSE ELSE UNCHANGED comVars
      /\ mq' = Append(Tail(mq), [kind |-> "rsp", ok |-> ok])

\* Mutant: a port that closes does not say so.
ShutQuietly(q) == com' = "off" /\ comDev' = None /\ answered' = FALSE /\ mq' = q
\* A port that closes says why.
Shut(q) == com' = "off" /\ comDev' = None /\ answered' = FALSE /\ mq' = Append(q, Closed)

Deliver ==
  /\ mq # <<>>
  /\ LET m == Head(mq)
     IN  \/ m.kind = "connect" /\ Connect(m) /\ UNCHANGED winVars
         \/ /\ m.kind = "disconnect" /\ UNCHANGED winVars
            /\ IF com = "off" THEN mq' = Tail(mq) /\ UNCHANGED comVars ELSE Shut(Tail(mq))
         \/ m.kind = "read" /\ mq' = Append(Tail(mq), State(FALSE)) /\ UNCHANGED <<winVars, comVars>>
         \/ /\ m.kind = "state" /\ StateArrives(m) /\ mq' = Tail(mq)
            /\ UNCHANGED <<ports, entry, pendIdx, pendAuto, afterUpdate, pollTick, comVars>>
         \/ /\ m.kind = "rsp" /\ Response(m.ok) /\ mq' = Tail(mq)
            /\ UNCHANGED <<ports, reconnect, winOpen, winConn, afterUpdate, pollTick, comVars>>
  /\ UNCHANGED <<fw, fwOver, plugged, clicks, troubles>>

\* SerialCom::timeout: no bootloader.  Nobody is told.
ComConnected ==
  /\ com = "query" /\ com' = "rxtx"
  /\ UNCHANGED <<winVars, fw, fwOver, comDev, answered, plugged, mq, clicks, troubles>>

\* processPacked: the first packet is told.
FirstPacket ==
  /\ com = "rxtx" /\ ~answered /\ comDev \in Alive \cap plugged /\ answered' = TRUE
  /\ mq' = Append(mq, State(FALSE))
  /\ UNCHANGED <<winVars, fw, fwOver, com, comDev, plugged, clicks, troubles>>

\* handleTimeouts: MaxCommandFails commands were not answered.
ForceReconnect ==
  /\ com = "rxtx"
  /\ \/ comDev \notin Alive /\ UNCHANGED troubles
     \/ comDev \in Alive /\ troubles < MaxFaults /\ troubles' = troubles + 1
  /\ Shut(mq) /\ UNCHANGED <<winVars, fw, fwOver, plugged, clicks>>

\* SER_ProcessEvents: the device is gone.
PortError ==
  /\ com # "off" /\ comDev \notin plugged /\ Shut(mq)
  /\ UNCHANGED <<winVars, fw, fwOver, plugged, clicks, troubles>>

\* Devices come and go.
Plug(d) ==
  /\ troubles < MaxFaults /\ troubles' = troubles + 1
  /\ plugged' = IF d \in plugged THEN plugged \ {d} ELSE plugged \cup {d}
  /\ UNCHANGED <<winVars, fw, fwOver, comVars, mq, clicks>>

\* The REST plugin updates the firmware; the window leaves it FW_UPDATE_TIME_MS.
UpdateBegins ==
  /\ clicks < MaxClicks /\ clicks' = clicks + 1 /\ fw = "idle" /\ fw' = "running"
  /\ UNCHANGED <<winVars, fwOver, comVars, plugged, mq, troubles>>
UpdateEnds ==
  /\ fw = "running" /\ win = "update" /\ fw' = "idle"
  /\ UNCHANGED <<winVars, fwOver, comVars, plugged, mq, clicks, troubles>>
UpdateOver ==
  /\ win = "update" /\ ~fwOver /\ fwOver' = TRUE
  /\ UNCHANGED <<winVars, fw, comVars, plugged, mq, clicks, troubles>>

AutoNext ==
  \/ timerEvent \/ devDisconnectClicked \/ getComPorts
  \/ \E i \in DOMAIN ports : devConnectClicked(i)
  \/ Deliver \/ ComConnected \/ FirstPacket \/ ForceReconnect \/ PortError
  \/ \E d \in ToSet(Devices) : Plug(d)
  \/ UpdateBegins \/ UpdateEnds \/ UpdateOver

AutoSpec == AutoInit /\ [][AutoNext]_autoVars

----------------------------------------------------------------------------

AutoTypeOK ==
  /\ win \in {"idle", "connecting", "connected", "update"} /\ com \in {"off", "query", "rxtx"}
  /\ autoIdx \in 0 .. Len(Devices) /\ pendIdx \in -1 .. Len(Devices) - 1 /\ waitTicks \in 0 .. WaitLong
  /\ {entry, reconnect, comDev} \subseteq ToSet(Devices) \cup {None}

\* Timer, clicks, polls and the port's own messages cross each other: when nothing is under
\* way the window does not take a port that closed for open, nor one that does not run for
\* connected, whatever it asked for in between.
WindowSafe ==
  /\ AutoTypeOK
  /\ mq = <<>> => /\ (winOpen => com # "off")
                 /\ (winConn => com = "rxtx")
                 /\ (win = "connected" => com = "rxtx")

\* What auto connect is for: after whatever the user does, updates, devices that come and
\* go and lost connections, in the end a device is connected, if there is one.  (The state
\* of the window may be idle even so: a second request, sent before the first packet and
\* refused after it, ends in setState(StateIdle), and no later notice is a change.)
Served == winConn \/ plugged = {}
WindowLive == <>[]Served

\* "if connecting to m_devs[0] fails the next attemp will be with m_devs[1]"
NextIsTried == <>(comDev = Devices[2])
=============================================================================
