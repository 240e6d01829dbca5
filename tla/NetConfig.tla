----------------------------- MODULE NetConfig -----------------------------
(***************************************************************************)
(* The network configuration, kept three times: in the device, in the      *)
(* zmNet of zmNetDescriptorModel and in the fields of the dialog zmNetEdit.*)
(* It is read as a whole when the user or the device asks for it or the    *)
(* network state changes, in part every three minutes while the device is  *)
(* in its network, and written by the dialog and by setParameter.          *)
(*                                                                         *)
(* A parameter has the name of its ZM_DID; KEY2 is a second way to read    *)
(* KEY, and EP0, EP1 and EP2 are the endpoints of the firmware.  The device *)
(* stays connected.  The commands are done in the order they were queued   *)
(* (CommandRing is about that); one may get lost, and one that finds the   *)
(* ring full is not queued.                                                *)
(***************************************************************************)
EXTENDS Integers, Sequences, SequencesExt, FiniteSets

CONSTANTS Reads,         \* the parameters readParameters asks for, in their order
          Settable,      \* those setParameter may set
          DevValues,     \* the values the device may take of itself, for some parameters
          UserValues,    \* the values a user chooses from
          Default,       \* the values of a new zmNet
          Correction,    \* values that are corrected: [param -> [value -> value]]
          NoMacs,        \* values that are no MAC address: the last 24 bits are zero
          KeySeq,        \* the sequence number of the network key
          CmdSlots,      \* slots of the command ring
          MaxEdits, MaxLosses, MaxOwn   \* bounds: user actions, lost commands, changes of the device

Params == ToSet(Reads) \ {"KEY2"}

\* onAccept: what the network tab always writes and what a check box decides
\* on, what is only stored in the zmNet, and what the endpoints tab writes.
Accepts  == {"UPDATE_ID", "USE_EXTPANID", "DESIGNED", "CHANNEL_MASK", "SECURITY_MODE",
             "TC_ADDRESS", "KEY", "STATIC"} \cap Params
Optional == {"PANID", "NWK", "MAC"} \cap Params
InForm   == Accepts \cup Optional \cup ({"EXTPANID"} \cap Params)
EndpointTab == {"EP0", "EP1", "EP2"} \cap Params

\* Parameters readParamTimerFired asks for.
Polled   == {"CHANNEL_MASK", "TC_ADDRESS", "USE_EXTPANID", "CURRENT_CHANNEL", "UPDATE_ID"} \cap Params

VARIABLES dev, host, form,   \* the three copies
          inNet,             \* netState(): the last status said the device is in its network
          own,               \* the MAC address of m_nodes[0]
          cmds,              \* the command ring: [op, id, val]
          changed,           \* ZM_STATUS_CONFIG_CHANGED is to be told
          timer, busy,       \* m_configTimer runs, m_state = BusyState
          chosen,            \* history: the values users, the device and corrections chose
          cmdsMissed,        \* history: a command was lost or not queued
          stale,             \* history: accept took an old field that it did not write
          edits, faults, moved   \* bounds

netVars == <<dev, host, form, inNet, own, cmds, changed, timer, busy, chosen, cmdsMissed, stale, edits, faults, moved>>

NetInit ==
  /\ dev \in {d \in [Params -> UNION {DevValues[p] : p \in Params}] : \A p \in Params : d[p] \in DevValues[p]}
  /\ host = [p \in Params |-> Default[p]] /\ form = host
  /\ inNet \in BOOLEAN /\ own = Default["MAC"]
  /\ cmds = <<>> /\ changed = TRUE /\ timer = FALSE /\ busy = FALSE
  /\ chosen = [p \in Params |-> {dev[p]} \cup {Default[p]}]
  /\ cmdsMissed = FALSE /\ stale = FALSE /\ edits = 0 /\ faults = 0 /\ moved = 0

----------------------------------------------------------------------------
(* zmMaster.                                                               *)

\* readParameter, writeParameter: what does not fit is not queued.
QueueTo(q, cs) ==
  LET room == CmdSlots - Len(q)
  IN  /\ cmds' = q \o SubSeq(cs, 1, IF room < Len(cs) THEN room ELSE Len(cs))
      /\ cmdsMissed' = (cmdsMissed \/ room < Len(cs))

ReadCmd(p)     == [op |-> "read", id |-> p, val |-> Default[p]]
WriteCmd(p, v) == [op |-> "write", id |-> p, val |-> v]
ReadAll        == [i \in DOMAIN Reads |-> [op |-> "read", id |-> Reads[i], val |-> Default[Reads[i]]]]

\* checkStatus0 on a status with network state s, online or not: all is read
\* when the configuration changed, and by setDeviceState when the controller did
\* not know the state; a device that joined may have a new PAN id and address.
Polls(ps) == SetToSeq({ReadCmd(p) : p \in ps})
Moved     == {"PANID", "NWK"} \cap Params
ReadsAt(told, joined) ==
  (IF changed THEN ReadAll ELSE <<>>) \o (IF told THEN ReadAll ELSE <<>>)
  \o (IF joined THEN Polls(Moved) ELSE <<>>)
Status(s, told, joined) ==
  /\ changed' = FALSE /\ inNet' = s
  /\ QueueTo(cmds, ReadsAt(told, joined))
  /\ UNCHANGED <<stale, dev, host, form, own, timer, busy, chosen, edits, faults>>

\* Mutant: that the configuration changed is noted and nothing is read.
checkStatus0Noted ==
  /\ changed /\ changed' = FALSE
  /\ UNCHANGED <<stale, dev, host, form, inNet, own, cmds, cmdsMissed, timer, busy, chosen, edits, faults, moved>>
checkStatus0 == changed /\ Status(inNet, FALSE, FALSE) /\ UNCHANGED moved

\* Another network state: online, offline, joining or leaving.  The controller may
\* know it already: a frame that comes makes it take the device to be in network.
NetStateChanges ==
  /\ moved < MaxOwn /\ moved' = moved + 1
  /\ \E s, told, joined \in BOOLEAN :
       ~(s /\ inNet) /\ (joined => s) /\ Status(s, told, joined)

\* Three minutes are longer than what is queued takes.
readParamTimerFired ==
  /\ inNet
  /\ cmds = <<>>
  /\ QueueTo(cmds, Polls(Polled))
  /\ UNCHANGED <<stale, dev, host, form, inNet, own, changed, timer, busy, chosen, edits, faults, moved>>

----------------------------------------------------------------------------
(* zmController.                                                           *)

\* setNetworkConfig: the parameters ps as they are in n; it knows no
\* ZM_DID_NWK_EXTENDED_PANID.  setEndpointConfig does the same for an endpoint.
setNetworkConfig(n, ps) ==
  SetToSeq({WriteCmd(p, n[p]) : p \in ps \ {"EXTPANID"}})

\* What setParameter writes after it stored p: for the network address it
\* writes the PAN id, for the device type nothing.
ItemsOf(p) == (CASE p = "NWK" -> {"PANID"} [] p = "DESIGNED" -> {} [] OTHER -> {p}) \cap Params
setParameter(p, v) ==
  /\ edits < MaxEdits /\ edits' = edits + 1
  /\ host' = [host EXCEPT ![p] = v] /\ timer' = TRUE
  /\ chosen' = [chosen EXCEPT ![p] = @ \cup {v}]
  /\ QueueTo(cmds, setNetworkConfig(host', ItemsOf(p)))
  /\ UNCHANGED <<stale, dev, form, inNet, own, changed, busy, faults, moved>>

\* The endpoint, ZDP and antenna parameters: a value that is not wanted is
\* written anew.
Corrected(p, v) == IF p \in DOMAIN Correction /\ v \in DOMAIN Correction[p] THEN Correction[p][v] ELSE v

\* ZM_DID_STK_NETWORK_KEY2 is index, sequence number and key: the key of the
\* host is compared with what follows the number, and set from the number on.
Key2(v) == IF host["KEY"] = v THEN v ELSE <<KeySeq>> \o Front(v)

\* Modes are stored without updateCount.
Quiet == {"SECURITY_MODE", "EP0", "EP1", "EP2"}

\* isValidMacAddress
Ignored(p, v) == p = "MAC" /\ v \in NoMacs

Stored(p, v) ==
  CASE p = "KEY2"    -> [host EXCEPT !["KEY"] = Key2(v)]
    [] Ignored(p, v) -> host
    [] OTHER         -> [host EXCEPT ![p] = Corrected(p, v)]

\* m_nodes[0] gets or takes over the address.
OwnMac(p, v) == IF p = "MAC" /\ ~Ignored(p, v) THEN v ELSE own

readParameterResponse(p, v, q) ==
  /\ host' = Stored(p, v)
  /\ timer' = (timer \/ (host' # host /\ p \notin Quiet))
  /\ own' = OwnMac(p, v)
  /\ LET c == IF p = "KEY2" THEN v ELSE Corrected(p, v)
     IN  /\ QueueTo(q, IF c = v THEN <<>> ELSE <<WriteCmd(p, c)>>)
         /\ chosen' = IF c = v THEN chosen ELSE [chosen EXCEPT ![p] = @ \cup {c}]

\* The device answers the first command.
Answer ==
  /\ cmds # <<>>
  /\ LET c == Head(cmds)
     IN  \/ /\ c.op = "read"
            /\ readParameterResponse(c.id, IF c.id = "KEY2" THEN dev["KEY"] ELSE dev[c.id], Tail(cmds))
            /\ UNCHANGED <<dev, changed>>
         \/ /\ c.op = "write"
            /\ dev' = [dev EXCEPT ![c.id] = c.val]
            /\ changed' = (changed \/ dev' # dev)
            /\ cmds' = Tail(cmds) /\ UNCHANGED <<host, timer, own, chosen, cmdsMissed>>
  /\ UNCHANGED <<stale, form, inNet, busy, edits, faults, moved>>

\* A command is given up, or its answer is an error.
Lost ==
  /\ cmds # <<>> /\ faults < MaxLosses
  /\ faults' = faults + 1 /\ cmds' = Tail(cmds) /\ cmdsMissed' = TRUE
  /\ UNCHANGED <<stale, dev, host, form, inNet, own, changed, timer, busy, chosen, edits, moved>>

\* The device joins, leaves or updates its network.
DeviceChanges(p, v) ==
  /\ moved < MaxOwn /\ moved' = moved + 1
  /\ dev[p] # v /\ dev' = [dev EXCEPT ![p] = v] /\ changed' = TRUE
  /\ chosen' = [chosen EXCEPT ![p] = @ \cup {v}]
  /\ UNCHANGED <<stale, host, form, inNet, own, cmds, timer, busy, cmdsMissed, edits, faults>>

----------------------------------------------------------------------------
(* zmNetEdit.                                                              *)

onRefresh ==
  /\ ~busy /\ edits < MaxEdits /\ edits' = edits + 1
  /\ busy' = TRUE /\ timer' = TRUE
  /\ QueueTo(cmds, ReadAll)
  /\ UNCHANGED <<stale, dev, host, form, inNet, own, changed, chosen, faults, moved>>

\* The user checks opt, sets field p to v and presses accept.  The fields go into
\* the zmNet, the PAN id and the network address only when checked; where the trust
\* center address is required and empty, it ends after the first of them.  What is
\* written depends on the tab that is open: fields that are taken and not written
\* may be older than the zmNet.
Taken(opt, tab) ==
  IF tab = "refused" THEN ({"EXTPANID", "USE_EXTPANID", "MAC"} \cap Params) \cup (opt \cap {"PANID"})
  ELSE InForm \ (Optional \ ({"MAC"} \cup opt))
Written(opt, tab) ==
  CASE tab = "network"   -> Accepts \cup opt
    [] tab = "endpoints" -> EndpointTab
    [] tab = "refused"   -> {}
onAccept(p, v, opt, tab) ==
  /\ IF tab = "endpoints" THEN p \in Accepts \cup opt \cup EndpointTab ELSE p \in Accepts \cup opt
  /\ tab = "refused" => p # "TC_ADDRESS"
  /\ ~busy /\ edits < MaxEdits /\ edits' = edits + 1
  /\ form' = [form EXCEPT ![p] = v]
  /\ host' = [q \in Params |-> IF q \in Taken(opt, tab) \cup ({p} \cap EndpointTab) THEN form'[q] ELSE host[q]]
  /\ chosen' = [chosen EXCEPT ![p] = @ \cup {v}]
  /\ QueueTo(cmds, setNetworkConfig(host', Written(opt, tab)))
  /\ stale' = (stale \/ \E q \in Taken(opt, tab) \ Written(opt, tab) : host'[q] # host[q])
  /\ busy' = (tab # "refused") /\ timer' = (timer \/ tab # "refused")
  /\ UNCHANGED <<dev, inNet, own, changed, faults, moved>>

\* setNetwork fills the fields.
configTimeout ==
  /\ timer /\ timer' = FALSE /\ busy' = FALSE /\ form' = host
  /\ UNCHANGED <<stale, dev, host, inNet, own, cmds, changed, chosen, cmdsMissed, edits, faults, moved>>

NetNext ==
  \/ checkStatus0 \/ NetStateChanges \/ readParamTimerFired \/ Answer \/ Lost \/ configTimeout \/ onRefresh
  \/ \E p \in Settable : \E v \in UserValues[p] : setParameter(p, v)
  \/ \E p \in InForm \cup EndpointTab : \E v \in UserValues[p] : \E opt \in SUBSET Optional :
       \E tab \in {"network", "endpoints", "refused"} : onAccept(p, v, opt, tab)
  \/ \E p \in Params : \E v \in DevValues[p] : DeviceChanges(p, v)
NetSpec == NetInit /\ [][NetNext]_netVars

----------------------------------------------------------------------------
(* A value the device has, and one it is about to get, was chosen by       *)
(* someone: no copy of the configuration makes one up.                     *)
NothingInvented ==
  /\ \A p \in Params : dev[p] \in chosen[p] /\ host[p] \in chosen[p]
  /\ \A i \in DOMAIN cmds : cmds[i].op = "write" => cmds[i].val \in chosen[cmds[i].id]

(* But for the key, whatever is lost and whoever changes what when.        *)
OnlyTheKeyIsInvented ==
  /\ \A p \in Params \ {"KEY"} : dev[p] \in chosen[p] /\ host[p] \in chosen[p]
  /\ \A i \in DOMAIN cmds :
       cmds[i].op = "write" /\ cmds[i].id # "KEY" => cmds[i].val \in chosen[cmds[i].id]

(* In the end the host has the configuration of the device, whoever        *)
(* changed it, but for a MAC address that is none: all of it if no command *)
(* was lost or found the ring full and accept took no old field; and what  *)
(* is asked for every three minutes even then, if the device is in its     *)
(* network.                                                                *)
Refreshed(p) == (p \in Polled /\ inNet) \/ ~(cmdsMissed \/ stale)
Agree == \A p \in Params : Refreshed(p) /\ ~Ignored(p, dev[p]) => host[p] = dev[p]
ConfigLive == <>[]Agree
=============================================================================
