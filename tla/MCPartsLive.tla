---------------------------- MODULE MCPartsLive -----------------------------
(***************************************************************************)
(* Components that share no state, with the fairness their properties need *)
(* (MCParts has those without).  The variables of the others keep their     *)
(* initial values.                                                         *)
(***************************************************************************)
EXTENDS Integers, Sequences, FiniteSets, TLC

VARIABLES part,            \* the component
          sCom, sTimer, caller, posted, th, running, ev, rxa, rxb, ring, chunk, rxBuf, got,
          sendPos, sendEnd, sendQueue, prot, wire, fd, arrived, hup, overrun, lastFrame, opens,
          fast, fetchCur, zdp, air, desc, eps, sds, feps, item, fetched, retries, depend, wait,
          seen, zombie, others, qFaults,
          run, dShown, pos, dirty, changes, dTimer, dBusy, allowed, rows, stored, proxy, config,
          moves, errors, starts, clean,
          dev, host, form, inNet, own, cmds, changed, cTimer, cBusy, chosen, cMissed, stale, edits,
          cFaults, moved,
          state, lTable, createQueue, neighbors, neighborsDead, glinks, linkIter, links, lShown,
          inNetwork, autoFetchFFD, bindingTable, bindLinkQueue, bindings, reports, events,
          tree, values, opened, dirs, vals, fetchTimer, asks, mail, vTable, nodeState, told,
          vMissed, vfsChanges, vfsFaults,
          win, ports, autoIdx, waitTicks, entry, reconnect, pendIdx, pendAuto, winOpen, winConn,
          afterUpdate, pollTick, fw, fwOver, aCom, comDev, answered, plugged, mq, clicks,
          troubles

\* SerialLink: two bytes that end a frame; two frames to send, one of which is bad.
S == INSTANCE SerialLink WITH RingSize <- 2, Chunk <- 2, BufSize <- 1, TxSlots <- 2,
      CounterSpace <- 4, MaxBytes <- 2, FrameEnds <- {1, 2}, Frames <- {1, 2}, Bad <- {1},
      MaxOpens <- 1, comState <- sCom, comTimer <- sTimer

\* NodeFetch: two nodes that listen.
ItemReqs  == [IeeeAddr |-> 1, NodeDescriptor |-> 3, ActiveEndpoints |-> 6, SimpleDescriptor |-> 7]
Endpoints == "a" :> {1, 2} @@ "b" :> {1}
Q == INSTANCE NodeFetch WITH Order <- <<"a", "b">>, RxOn <- {"a", "b"}, De <- {"a", "b"},
      EndNodes <- {}, Maker115F <- {"a"}, AllEndpoints <- 1,
      Listed <- Endpoints, Active <- Endpoints, ReqId <- ItemReqs, MaxApsRequestsZdp <- 2,
      MaxRetrys <- 2, PermitJoin <- FALSE, MaxFetchFaults <- 0, faults <- qFaults

\* NodeStore: a node with a row of its own and one in the JSON text; a proxy or none.
D == INSTANCE NodeStore WITH DbNodes <- {"a", "b"}, Json <- {"b"}, Proxies <- {"none", "p"},
      NoProxy <- "none", NoPos <- -1, MaxMoves <- 1, MaxErrors <- 2, MaxStarts <- 2,
      shown <- dShown, timer <- dTimer, busy <- dBusy

\* NetConfig: the MAC address, which the device does not have until the user sets
\* one, a parameter that is polled, and an endpoint with a correction.
Read    == <<"MAC", "CHANNEL_MASK", "EP1">>
ByDev   == "CHANNEL_MASK" :> {<<11>>} @@ "EP1" :> {<<0>>} @@ "MAC" :> {<<7>>}
ByUser  == "CHANNEL_MASK" :> {<<11>>, <<15>>} @@ "EP1" :> {<<4>>} @@ "MAC" :> {<<2>>}
NewNet  == "CHANNEL_MASK" :> <<11>> @@ "EP1" :> <<3>> @@ "MAC" :> <<0>>
Correct == "EP1" :> (<<0>> :> <<2>>)
C == INSTANCE NetConfig WITH Reads <- Read, Settable <- {"CHANNEL_MASK"}, DevValues <- ByDev,
      UserValues <- ByUser, Default <- NewNet, Correction <- Correct, NoMacs <- {<<7>>}, KeySeq <- 9,
      CmdSlots <- 4, MaxEdits <- 1, MaxLosses <- 1, MaxOwn <- 1, timer <- cTimer, busy <- cBusy,
      cmdsMissed <- cMissed, faults <- cFaults

\* Links: two routers and an end device.
L == INSTANCE Links WITH Peers <- {1, 2, 3}, EndDevices <- {3}, Nobody <- 0,
      Bound <- {<<1, 2>>, <<3, 1>>}, MaxReports <- 2, MaxEvents <- 1, table <- lTable,
      showLinks <- lShown

\* VfsModel: one node, pages of one entry.
V == INSTANCE VfsModel WITH VfsNodes <- {"a"}, FirstNodes <- <<"a">>, Page <- 1, MaxTries <- 3,
      MaxChanges <- 2, MaxVfsFaults <- 0, nodeTable <- vTable, missed <- vMissed

\* AutoConnect: two devices that answer.
A == INSTANCE AutoConnect WITH Devices <- <<"a", "b">>, Alive <- {"a", "b"}, AutoOn <- TRUE,
      WaitLong <- 2, WaitShort <- 1, PollEvery <- 1, MaxMail <- 1, MaxClicks <- 1,
      MaxFaults <- 1, com <- aCom

NoSerialLink == S!LinkInit
NoNodeFetch == Q!FetchInit
NoNodeStore == D!Init /\ rows = {}
NoNetConfig == C!NetInit /\ inNet
NoLinks == L!DrawInit
NoVfsModel == V!VfsInit
NoAutoConnect == A!AutoInit

linkVars == <<sCom, sTimer, caller, posted, th, running, ev, rxa, rxb, ring, chunk, rxBuf, got,
              sendPos, sendEnd, sendQueue, prot, wire, fd, arrived, hup, overrun, lastFrame,
              opens>>
fetchVars == <<fast, fetchCur, zdp, air, desc, eps, sds, feps, item, fetched, retries, depend,
               wait, seen, zombie, others, qFaults>>
storeVars == <<run, dShown, pos, dirty, changes, dTimer, dBusy, allowed, rows, stored, proxy,
               config, moves, errors, starts, clean>>
netVars == <<dev, host, form, inNet, own, cmds, changed, cTimer, cBusy, chosen, cMissed, stale, edits,
             cFaults, moved>>
drawVars == <<state, lTable, createQueue, neighbors, neighborsDead, glinks, linkIter, links,
              lShown, inNetwork, autoFetchFFD, bindingTable, bindLinkQueue, bindings, reports, events>>
vfsVars == <<tree, values, opened, dirs, vals, fetchTimer, asks, mail, vTable, nodeState, told,
             vMissed, vfsChanges, vfsFaults>>
autoVars == <<win, ports, autoIdx, waitTicks, entry, reconnect, pendIdx, pendAuto, winOpen,
              winConn, afterUpdate, pollTick, fw, fwOver, aCom, comDev, answered, plugged, mq,
              clicks, troubles>>

PartsInit ==
  \/ /\ part = "link" /\ S!LinkInit /\ NoNodeFetch /\ NoNodeStore /\ NoNetConfig /\ NoLinks
     /\ NoVfsModel /\ NoAutoConnect
  \/ /\ part = "fetch" /\ Q!FetchInit /\ NoSerialLink /\ NoNodeStore /\ NoNetConfig /\ NoLinks
     /\ NoVfsModel /\ NoAutoConnect
  \/ /\ part = "store" /\ D!Init /\ NoSerialLink /\ NoNodeFetch /\ NoNetConfig /\ NoLinks
     /\ NoVfsModel /\ NoAutoConnect
  \/ /\ part = "config" /\ C!NetInit /\ NoSerialLink /\ NoNodeFetch /\ NoNodeStore /\ NoLinks
     /\ NoVfsModel /\ NoAutoConnect
  \/ /\ part = "links" /\ L!DrawInit /\ NoSerialLink /\ NoNodeFetch /\ NoNodeStore /\ NoNetConfig
     /\ NoVfsModel /\ NoAutoConnect
  \/ /\ part = "vfs" /\ V!VfsInit /\ NoSerialLink /\ NoNodeFetch /\ NoNodeStore /\ NoNetConfig
     /\ NoLinks /\ NoAutoConnect
  \/ /\ part = "window" /\ A!AutoInit /\ NoSerialLink /\ NoNodeFetch /\ NoNodeStore /\ NoNetConfig
     /\ NoLinks /\ NoVfsModel
PartsNext ==
  \/ /\ part = "link" /\ S!LinkNext
     /\ UNCHANGED <<part, fetchVars, storeVars, netVars, drawVars, vfsVars, autoVars>>
  \/ /\ part = "fetch" /\ Q!FetchNext
     /\ UNCHANGED <<part, linkVars, storeVars, netVars, drawVars, vfsVars, autoVars>>
  \/ /\ part = "store" /\ D!Next
     /\ UNCHANGED <<part, linkVars, fetchVars, netVars, drawVars, vfsVars, autoVars>>
  \/ /\ part = "config" /\ C!NetNext
     /\ UNCHANGED <<part, linkVars, fetchVars, storeVars, drawVars, vfsVars, autoVars>>
  \/ /\ part = "links" /\ L!DrawNext
     /\ UNCHANGED <<part, linkVars, fetchVars, storeVars, netVars, vfsVars, autoVars>>
  \/ /\ part = "vfs" /\ V!VfsNext
     /\ UNCHANGED <<part, linkVars, fetchVars, storeVars, netVars, drawVars, autoVars>>
  \/ /\ part = "window" /\ A!AutoNext
     /\ UNCHANGED <<part, linkVars, fetchVars, storeVars, netVars, drawVars, vfsVars>>
partsVars == <<part, linkVars, fetchVars, storeVars, netVars, drawVars, vfsVars, autoVars>>

PartsFair ==
  /\ WF_linkVars(part = "link" /\ S!Main) /\ WF_linkVars(part = "link" /\ S!Thread)
  /\ WF_linkVars(part = "link" /\ S!ThreadStart)
  /\ WF_fetchVars(part = "fetch" /\ Q!fetchZdpTick) /\ WF_fetchVars(part = "fetch" /\ Q!Receive)
  /\ WF_fetchVars(part = "fetch" /\ Q!Confirm) /\ WF_fetchVars(part = "fetch" /\ Q!Answers)
  /\ WF_fetchVars(part = "fetch" /\ Q!TimeOut) /\ WF_fetchVars(part = "fetch" /\ Q!WaitOver)
  /\ WF_storeVars(part = "store" /\ D!saveNodesState) /\ WF_storeVars(part = "store" /\ D!Allows)
  /\ WF_storeVars(part = "store" /\ D!OtaEnds)
  /\ WF_netVars(part = "config" /\ C!checkStatus0) /\ WF_netVars(part = "config" /\ C!readParamTimerFired)
  /\ WF_netVars(part = "config" /\ C!Answer) /\ WF_netVars(part = "config" /\ C!configTimeout)
  /\ WF_drawVars(part = "links" /\ L!linkTick) /\ WF_drawVars(part = "links" /\ L!linkCreateTick)
  /\ WF_vfsVars(part = "vfs" /\ V!CoreAnswers) /\ WF_vfsVars(part = "vfs" /\ V!VfsModel_MessageCallback)
  /\ WF_vfsVars(part = "vfs" /\ V!fetchTimerFired)
  /\ WF_autoVars(part = "window" /\ A!timerEvent) /\ WF_autoVars(part = "window" /\ A!Deliver)
  /\ WF_autoVars(part = "window" /\ A!ComConnected) /\ WF_autoVars(part = "window" /\ A!FirstPacket)
  /\ WF_autoVars(part = "window" /\ A!ForceReconnect /\ comDev \notin {"a", "b"})
  /\ WF_autoVars(part = "window" /\ A!PortError) /\ WF_autoVars(part = "window" /\ A!UpdateEnds)
  /\ WF_autoVars(part = "window" /\ A!UpdateOver)

PartsSpec == PartsInit /\ [][PartsNext]_partsVars /\ PartsFair

\* The properties of the components, stated in their modules.
LinkLive   == S!LinkLive
FetchLive  == Q!FetchLive
StoreLive  == D!StoreLive
ConfigLive == <>[](part = "config" => C!Agree)
OldLinksGo == L!OldLinksGo
VfsLive    == <>[](part = "vfs" => V!ShownOrStalled)
WindowLive == <>[](part = "window" => A!Served)
=============================================================================
