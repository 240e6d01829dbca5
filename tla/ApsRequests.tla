----------------------------- MODULE ApsRequests -----------------------------
(***************************************************************************)
(* zmController's queue of APS requests (m_apsRequestQueue) between the    *)
(* users who submit them and zmMaster, which is here what it is to the     *)
(* controller: a queue of ids that are looked up again when their turn     *)
(* comes, and a device that confirms late, in any order, or never.         *)
(*                                                                         *)
(* A user who is told of a confirm may submit a request from within the    *)
(* signal.  At each such place the queue is then left alone until the      *)
(* handler returns, so this is the same as submitting right before or      *)
(* right after the handler, and is not modelled apart.                     *)
(***************************************************************************)
EXTENDS Integers, Sequences, SequencesExt, FiniteSets

CONSTANTS Ids,                \* request ids
          Nodes,              \* known nodes other than the coordinator
          Casts,              \* broadcast and group addresses
          Kinds,              \* the kinds of requests users submit
          Zombies,            \* nodes taken to be unreachable
          Sleepy,             \* end devices whose receiver is off when idle
          Unseen,             \* nodes nothing was received from yet
          PermitJoin,         \* the network is open for joining
          Delays,             \* whether requests come with a send delay
          MaxApsRequests,     \* requests not handed over yet, see TooMany
          MaxApsBusyRequests, \* requests handed over, see NextToSend
          QApsLen,            \* ids zmMaster takes
          AirLimit            \* bound: frames the device holds at once

AllKinds == {"ZDP",      \* a ZDP request to one node, which answers it
             "NWK_ADDR", \* the ZDP request that is broadcast
             "ZDP_RSP", "OTA", "DEFAULT_RSP", "ZCL"}

ASSUME RequestsAssumption ==
  /\ Kinds \subseteq AllKinds /\ Zombies \cup Sleepy \cup Unseen \subseteq Nodes
  /\ Nodes \cap Casts = {}
  /\ PermitJoin \in BOOLEAN /\ Delays \subseteq BOOLEAN
  /\ {MaxApsRequests, MaxApsBusyRequests, QApsLen, AirLimit} \subseteq Nat

VARIABLES queue,   \* m_apsRequestQueue
          qaps,    \* the ids zmMaster holds, q_aps
          cmds,    \* the requests it holds as commands, APS_DATA_REQ in q_items
          air,     \* the requests the device will confirm, if it does
          online,  \* zmMaster::netState() is InNetwork
          otau,    \* m_otauActivity is above zero
          grouped, \* a broadcast or group frame was sent or heard less than m_apsGroupDelayMs ago
          told     \* history: ids a confirm was emitted for since they were accepted

vars == <<queue, qaps, cmds, air, online, otau, grouped, told>>

MaxBusyApsPerNode == 2

States == {"Idle", "Busy", "Confirmed", "Finish", "Failure"}
Requests ==
  [id : Ids, kind : Kinds, dst : Nodes \cup Casts, state : States, confirmed : BOOLEAN,
   answered : BOOLEAN,  \* responseClusterId was set: the response came before the confirm
   due : BOOLEAN,       \* it is busy or confirmed, and its timeout has passed
   wait : BOOLEAN]      \* its send delay has not
Frames == [id : Ids, dst : Nodes \cup Casts]

Init ==
  /\ queue = <<>> /\ qaps = <<>> /\ cmds = {} /\ air = {}
  /\ online = FALSE /\ otau = FALSE /\ grouped = FALSE
  /\ told = {}

----------------------------------------------------------------------------
(* The queue *)
QueuedIds(q)  == {q[i].id : i \in DOMAIN q}
InState(q, s) == {i \in DOMAIN q : q[i].state = s}
Least(S) == CHOOSE i \in S : \A j \in S : i <= j
\* s without the elements at the places in S, the others in their order.
Erased(s, S) ==
  LET left == DOMAIN s \ S
      Place(k) == CHOOSE i \in left : Cardinality({j \in left : j < i}) = k - 1
  IN [k \in 1 .. Cardinality(left) |-> s[Place(k)]]

\* APS_RequestsBusyCount
BusyCount(q) == Cardinality({i \in InState(q, "Busy") : ~q[i].confirmed})
BusyTo(q, n) == Cardinality({i \in InState(q, "Busy") : q[i].dst = n})
Unconfirmed(q, n) == Cardinality({i \in DOMAIN q : q[i].dst = n /\ ~q[i].confirmed})

----------------------------------------------------------------------------
(* Sending *)

\* Mutant: one place is kept free.
KeepsOneFree(ids, window)      == online /\ window /\ Len(ids) < QApsLen - 1
HasFreeApsRequest(ids, window) == online /\ window /\ Len(ids) < QApsLen

\* How many requests may be busy for r's node when r is sent: image blocks of
\* an update and default responses get ahead of the others.
\* Mutant: one more than the limit.
BusyLimitPlusOne(r) == MaxBusyApsPerNode + 1
BusyLimit(r) ==
  CASE r.kind \in {"OTA", "DEFAULT_RSP"} -> MaxBusyApsPerNode + 1
    [] r.kind \notin {"OTA", "DEFAULT_RSP"}
       /\ (r.dst \in Zombies \/ (r.dst \in Sleepy /\ ~PermitJoin)) -> 1
    [] OTHER -> MaxBusyApsPerNode

MaySend(q, i, group) ==
  /\ q[i].state = "Idle" /\ ~q[i].wait
  /\ IF q[i].dst \in Casts THEN ~group ELSE BusyTo(q, q[i].dst) < BusyLimit(q[i])

\* During an update the search begins at its first request, if there is one.
\* Mutant: it begins at the last one.
Blocks(q) == {i \in InState(q, "Idle") : q[i].kind = "OTA"}
UpdatesFromLast(q) == {i \in Blocks(q) : otau /\ \A j \in Blocks(q) : j <= i}
Updates(q) == IF otau THEN Blocks(q) ELSE {}
SendableTo(q, dsts, group) ==
  IF Updates(q) # {} THEN {i \in DOMAIN q : i >= Least(Updates(q)) /\ MaySend(q, i, group)}
  ELSE {i \in DOMAIN q : q[i].dst \in dsts /\ MaySend(q, i, group)}

(* sendNextApsdeDataRequest on queue q while zmMaster holds ids: the first *)
(* request that may be sent is handed over.  zmMaster cannot refuse it:    *)
(* it was asked for a free place before.  window stands for its condition  *)
(* on unconfirmed commands, group for a recent broadcast.                  *)
Anyone == Nodes \cup Casts
Chosen(q, ids, dsts, window, group) ==
  IF /\ HasFreeApsRequest(ids, window)
     /\ BusyCount(q) <= MaxApsBusyRequests
     /\ SendableTo(q, dsts, group) # {}
  THEN {Least(SendableTo(q, dsts, group))} ELSE {}

Busied(q, S) ==
  [i \in DOMAIN q |-> IF i \in S THEN [q[i] EXCEPT !.state = "Busy"] ELSE q[i]]
Handed(q, ids, S) == IF S = {} THEN ids ELSE Append(ids, q[Least(S)].id)

SendNextApsdeDataRequest(q, ids, dsts, window, group) ==
  LET S == Chosen(q, ids, dsts, window, group)
  IN /\ queue' = Busied(q, S)
     /\ qaps' = Handed(q, ids, S)
     /\ grouped' = (group \/ \E i \in S : q[i].dst \in Casts)

----------------------------------------------------------------------------
(* Confirms.  Ids differ in the queue, so a search for an id finds one.    *)

\* apsdeDataRequestDone with an error for the ids in S, then emitApsDataConfirm.
FailAll(q, S) ==
  [i \in DOMAIN q |-> IF q[i].id \in S THEN [q[i] EXCEPT !.state = "Failure", !.confirmed = TRUE,
                                                        !.due = FALSE]
                      ELSE q[i]]
FailedNow(q, S) == {q[i].id : i \in {j \in DOMAIN q : q[j].id \in S /\ ~q[j].confirmed}}

\* onApsdeDataConfirm: what becomes of a busy request the device delivered.
Delivered(r) ==
  [r EXCEPT !.confirmed = TRUE,
            !.state = CASE r.kind = "NWK_ADDR" /\ r.dst \in Casts -> "Confirmed"
                        [] r.kind \in {"ZDP", "NWK_ADDR"} /\ r.dst \notin Casts /\ ~r.answered -> "Confirmed"
                        [] OTHER -> "Finish",
            !.due = FALSE]

Matches(q, c) == {i \in InState(q, "Busy") : q[i].id = c.id /\ q[i].dst = c.dst}

ConfirmIn(q, c, ok) ==
  IF Matches(q, c) = {} THEN q
  ELSE LET i == Least(Matches(q, c))
       IN IF ok THEN [q EXCEPT ![i] = Delivered(q[i])] ELSE RemoveAt(q, i)

\* Mutant: only what waits for a response times out.
ExpiredConfirmed(r) ==
  IF r.due /\ r.confirmed THEN [r EXCEPT !.state = "Finish", !.due = FALSE] ELSE r

\* timeoutTick over a request whose time has run out
Expired(r) ==
  IF r.due
  THEN [r EXCEPT !.state = IF r.confirmed THEN "Finish" ELSE "Failure", !.due = FALSE]
  ELSE r

----------------------------------------------------------------------------
(* Actions of the users *)

TooMany(q, dst) ==
  \/ Cardinality(InState(q, "Idle")) > MaxApsRequests
  \/ dst \in Unseen /\ Unconfirmed(q, dst) > 1
  \/ dst \in Sleepy /\ Unconfirmed(q, dst) > 3

\* Mutant: an id that is in use is taken again.
UsedIdTaken(q, id) == FALSE
CheckIdOverFlow(q, id) == id \in QueuedIds(q)

\* apsdeDataRequest that returns Success.  m_apsBusyCounter is zero: zmMaster
\* never reports BUSY.
ApsdeDataRequest(id, kind, dst, wait) ==
  /\ online
  /\ ~CheckIdOverFlow(queue, id)
  /\ dst \in Zombies => kind \in {"ZDP", "NWK_ADDR", "ZDP_RSP"}
  /\ ~TooMany(queue, dst)
  /\ LET r == [id |-> id, kind |-> kind, dst |-> dst, state |-> "Idle", confirmed |-> FALSE,
               answered |-> FALSE, due |-> FALSE, wait |-> wait]
     IN \E window \in BOOLEAN :
          SendNextApsdeDataRequest(Append(queue, r), qaps, Anyone, window, grouped)
  /\ otau' = (otau \/ kind = "OTA")
  /\ told' = told \ {id}
  /\ UNCHANGED <<cmds, air, online>>

Submit ==
  \E id \in Ids, kind \in Kinds, dst \in Nodes \cup Casts, wait \in Delays :
    /\ dst \in Casts => kind \in {"NWK_ADDR", "ZCL"}
    /\ ApsdeDataRequest(id, kind, dst, wait)

\* clearAllApsRequestsToNode, when the user deletes a node
ClearAllApsRequestsToNode(n) ==
  /\ n \in {queue[i].dst : i \in DOMAIN queue}
  /\ queue' = [i \in DOMAIN queue |-> IF queue[i].dst = n THEN [queue[i] EXCEPT !.state = "Finish", !.due = FALSE]
                                      ELSE queue[i]]
  /\ UNCHANGED <<qaps, cmds, air, online, otau, grouped, told>>

----------------------------------------------------------------------------
(* Actions of the event loop *)

\* sendNext: from m_sendNextTimer, or commandQueueEmpty of an idle zmMaster
SendNext ==
  /\ \E window \in BOOLEAN :
       /\ Chosen(queue, qaps, Anyone, window, grouped) # {}
       /\ SendNextApsdeDataRequest(queue, qaps, Anyone, window, grouped)
  /\ UNCHANGED <<cmds, air, online, otau, told>>

\* Mutant: a request is erased whether its confirm was emitted or not.
EraseUntold(q, i) == TRUE
MayErase(q, i) == q[i].confirmed

\* timeoutTick handles all requests before the first that is at its end; for
\* that one it emits the missing confirm or erases it, and returns.
TimeoutTick ==
  LET ends == InState(queue, "Finish") \cup InState(queue, "Failure")
      k    == IF ends = {} THEN Len(queue) + 1 ELSE Least(ends)
      seen == [i \in DOMAIN queue |-> IF i < k THEN Expired(queue[i]) ELSE queue[i]]
  IN /\ \/ ends = {} /\ queue' = seen /\ told' = told
        \/ /\ ends # {} /\ MayErase(queue, k)
           /\ queue' = RemoveAt(seen, k)
           /\ told' = told
        \/ /\ ends # {} /\ ~MayErase(queue, k)
           /\ queue' = [seen EXCEPT ![k] = [seen[k] EXCEPT !.confirmed = TRUE]]
           /\ told' = told \cup {queue[k].id}
     /\ UNCHANGED <<qaps, cmds, air, online, otau, grouped>>

(* tick while m_devState is not InNetwork, which may be so although zmMaster *)
(* is online and requests were handed over, see CommandQueue.              *)
Tick ==
  /\ queue' = [i \in DOMAIN queue |->
                 [queue[i] EXCEPT !.due = queue[i].state \in {"Busy", "Confirmed"}]]
  /\ UNCHANGED <<qaps, cmds, air, online, otau, grouped, told>>

(* queNextApsDataRequest: the next id is taken, commandQueueEmpty makes    *)
(* the controller hand over another, and only then the request that was    *)
(* looked up before becomes a command, if there is one and it fits.        *)
QueNextApsDataRequest ==
  /\ qaps # <<>> /\ online
  /\ SendNextApsdeDataRequest(queue, Tail(qaps), Anyone, TRUE, grouped)
  /\ cmds' = cmds \cup {[id |-> queue[i].id, dst |-> queue[i].dst] :
                          i \in {j \in DOMAIN queue : queue[j].id = Head(qaps)}}
  /\ UNCHANGED <<air, online, otau, told>>

QueNextFails ==
  /\ qaps # <<>> /\ online /\ Head(qaps) \in QueuedIds(queue)
  /\ LET S == Chosen(queue, Tail(qaps), Anyone, TRUE, grouped)
     IN /\ queue' = FailAll(Busied(queue, S), {Head(qaps)})
        /\ qaps' = Handed(queue, Tail(qaps), S)
        /\ grouped' = (grouped \/ \E i \in S : queue[i].dst \in Casts)
  /\ told' = told \cup FailedNow(queue, {Head(qaps)})
  /\ UNCHANGED <<cmds, air, online, otau>>

\* The port is closed: killCommandQueue fails what zmMaster holds.
KillCommandQueue ==
  LET S == {c.id : c \in cmds} \cup {qaps[i] : i \in DOMAIN qaps}
  IN /\ queue' = FailAll(queue, S)
     /\ told' = told \cup FailedNow(queue, S)
     /\ qaps' = <<>> /\ cmds' = {} /\ online' = FALSE
     /\ UNCHANGED <<air, otau, grouped>>

\* A command was sent twice and not answered.
GiveUp(c) ==
  /\ queue' = FailAll(queue, {c.id})
  /\ told' = told \cup FailedNow(queue, {c.id})
  /\ cmds' = cmds \ {c}
  /\ UNCHANGED <<qaps, air, online, otau, grouped>>

\* The device answered: it took the request, or refused it, of which the
\* controller hears nothing.
Answered(c) ==
  /\ cmds' = cmds \ {c}
  /\ UNCHANGED <<queue, qaps, air, online, otau, grouped, told>>

(* onApsdeDataConfirm: the signal comes first, whether the confirm fits a  *)
(* request or not.                                                         *)
OnApsdeDataConfirm(c, ok) ==
  /\ air' = air \ {c}
  /\ \E window \in BOOLEAN :
       SendNextApsdeDataRequest(ConfirmIn(queue, c, ok), qaps, Anyone, window, grouped)
  /\ told' = told \cup ({c.id} \cap QueuedIds(queue))
  /\ UNCHANGED <<cmds, online, otau>>

(* onApsdeDataIndication from node n, in answer to request i if i is not   *)
(* zero.  Requests that are at their end are erased in passing.  A request *)
(* of the same cluster may hide i from the first of the two searches: then *)
(* it is finished, but erased later, or not marked as answered.  cast: the *)
(* frame came on a group's address.                                        *)
Answers(r, n) == r.kind \in {"ZDP", "NWK_ADDR"} /\ r.dst = n /\ r.state \in {"Busy", "Confirmed"}
AnswerTo(r) ==
  IF r.confirmed THEN [r EXCEPT !.state = "Finish", !.due = FALSE] ELSE [r EXCEPT !.answered = TRUE]
\* The second search, behind the erasing: what was confirmed of that id is over.
AnsweredLate(r, id) == IF r.id = id /\ r.confirmed THEN [r EXCEPT !.state = "Finish", !.due = FALSE] ELSE r
IsOver(r) == r.state = "Finish" /\ r.confirmed
OnApsdeDataIndication(n, i) ==
  /\ i # 0 => Answers(queue[i], n)
  /\ \E hidden, window, cast \in BOOLEAN :
       LET seen == IF i = 0 \/ hidden THEN queue ELSE [queue EXCEPT ![i] = AnswerTo(queue[i])]
           kept == Erased(seen, {j \in DOMAIN seen : IsOver(seen[j])})
           late == [j \in DOMAIN kept |->
                      IF i # 0 /\ hidden THEN AnsweredLate(kept[j], queue[i].id) ELSE kept[j]]
       IN /\ cast => Casts # {} /\ (i = 0 \/ hidden)
          /\ SendNextApsdeDataRequest(late, qaps, {n}, window, grouped \/ cast)
  /\ UNCHANGED <<cmds, air, online, otau, told>>

----------------------------------------------------------------------------
(* Actions of the surroundings *)

\* A command reaches the device, once or twice.
Reach(c) ==
  /\ Cardinality(air \cup {c}) <= AirLimit
  /\ air' = air \cup {c}
  /\ UNCHANGED <<queue, qaps, cmds, online, otau, grouped, told>>

\* The firmware's status, as zmMaster reads it.
NetChanges == online' = ~online /\ UNCHANGED <<queue, qaps, cmds, air, otau, grouped, told>>

\* MaxTimeOut after a request was handed over, MaxConfirmedTimeOut if it waits
\* for its response
TimeRunsOut(id) ==
  /\ \E i \in InState(queue, "Busy") \cup InState(queue, "Confirmed") :
       /\ queue[i].id = id /\ ~queue[i].due
       /\ queue' = [queue EXCEPT ![i] = [queue[i] EXCEPT !.due = TRUE]]
  /\ UNCHANGED <<qaps, cmds, air, online, otau, grouped, told>>

DelayPasses(id) ==
  /\ \E i \in DOMAIN queue :
       /\ queue[i].id = id /\ queue[i].wait
       /\ queue' = [queue EXCEPT ![i] = [queue[i] EXCEPT !.wait = FALSE]]
  /\ UNCHANGED <<qaps, cmds, air, online, otau, grouped, told>>

GroupDelayPasses == grouped /\ grouped' = FALSE /\ UNCHANGED <<queue, qaps, cmds, air, online, otau, told>>
UpdateEnds       == otau /\ otau' = FALSE /\ UNCHANGED <<queue, qaps, cmds, air, online, grouped, told>>

Next ==
  \/ Submit
  \/ \E n \in Nodes : ClearAllApsRequestsToNode(n)
  \/ SendNext \/ TimeoutTick \/ Tick
  \/ QueNextApsDataRequest \/ QueNextFails \/ KillCommandQueue
  \/ \E c \in cmds : Reach(c) \/ GiveUp(c) \/ Answered(c)
  \/ \E c \in air, ok \in BOOLEAN : OnApsdeDataConfirm(c, ok)
  \/ \E n \in Nodes : OnApsdeDataIndication(n, 0)
  \/ \E n \in Nodes, i \in DOMAIN queue : OnApsdeDataIndication(n, i)
  \/ NetChanges
  \/ \E id \in Ids : TimeRunsOut(id) \/ DelayPasses(id)
  \/ GroupDelayPasses \/ UpdateEnds

Spec == Init /\ [][Next]_vars

(* The timers of the event loop, the clock, and a zmMaster that gets a slot *)
(* and the firmware's consent for the ids it holds as long as it is online; *)
(* that confirms and responses arrive is not assumed.                       *)
Fairness ==
  /\ WF_vars(SendNext) /\ WF_vars(TimeoutTick) /\ WF_vars(QueNextApsDataRequest)
  /\ WF_vars(GroupDelayPasses)
  /\ \A id \in Ids : WF_vars(TimeRunsOut(id)) /\ WF_vars(DelayPasses(id))

FairSpec == Spec /\ Fairness

----------------------------------------------------------------------------
(* Properties *)
TypeOK ==
  /\ queue \in Seq(Requests) /\ qaps \in Seq(Ids) /\ Len(qaps) <= QApsLen
  /\ cmds \subseteq Frames /\ air \subseteq Frames
  /\ {online, otau, grouped} \subseteq BOOLEAN
  /\ told \subseteq Ids

(* Two requests in the queue never share an id: a confirm, an error and    *)
(* zmMaster's search for a request all go by the id.                       *)
UniqueIds ==
  /\ TypeOK
  /\ \A i, j \in DOMAIN queue : queue[i].id = queue[j].id => i = j

(* "Count requests": a node is never sent more at once than the limits of  *)
(* sendNextApsdeDataRequest allow, whatever is confirmed, fails or is      *)
(* finished in between.                                                    *)
Strict == {n \in Nodes : n \in Zombies \/ (n \in Sleepy /\ ~PermitJoin)}
BusyPerNode ==
  \A n \in Nodes :
    LET busy == {i \in InState(queue, "Busy") : queue[i].dst = n}
    IN /\ Cardinality(busy) <= MaxBusyApsPerNode + 1
       /\ Cardinality({i \in busy : queue[i].kind \notin {"OTA", "DEFAULT_RSP"}})
            <= IF n \in Strict THEN 1 ELSE MaxBusyApsPerNode

(* Whatever was handed over is confirmed to its user in the end, by the    *)
(* device or by timeoutTick, even if the device never says anything.       *)
IsIn(id, s)   == \E i \in InState(queue, s) : queue[i].id = id
IsTold(id)    == id \in told \/ id \notin QueuedIds(queue) \/ IsIn(id, "Idle")
BusyIsTold    == \A id \in Ids : []<>IsTold(id)

(* A waiting request is handed over in the end, or the network is left:    *)
(* requests that are accepted later do not keep it waiting, unless they    *)
(* belong to an update.                                                    *)
IsSent(id) == ~IsIn(id, "Idle") \/ ~online
IdleIsSent == \A id \in Ids : []<>IsSent(id)

(* "clear all requests addressed to this node": a request that was cleared, *)
(* or given up, is not sent any more.                                      *)
IsOpen(id)      == IsIn(id, "Idle") \/ IsIn(id, "Busy") \/ IsIn(id, "Confirmed")
ClearedIsNotSent == [][\A c \in cmds' \ cmds : IsOpen(c.id)]_vars

(* An image block is handed over in the end whatever else waits or is      *)
(* accepted later, also when the activity counter ran out meanwhile.       *)
Block(id)    == \E i \in InState(queue, "Idle") : queue[i].id = id /\ queue[i].kind = "OTA"
NoBlock(id)  == ~Block(id) \/ ~online
BlockIsSent  == \A id \in Ids : []<>NoBlock(id)

(* The users are told of every request before it is forgotten.             *)
Service == INSTANCE ApsService WITH pending <- QueuedIds(queue)
ToldBeforeForgotten == Service!Spec
=============================================================================
