------------------------------ MODULE NodeTable ------------------------------
(***************************************************************************)
(* The node table of zmController, m_nodes, against the devices it stands  *)
(* for: nodes are created by announcements and by the discover queue, get  *)
(* new network addresses, become zombies when requests to them fail, are   *)
(* asked again by deviceDiscoverTick, woken by what they send and deleted  *)
(* by the user.  A device may leave, come back and change its network      *)
(* address, and two devices may hold one address one after the other.      *)
(*                                                                         *)
(* All devices are routers.  Clocks are flags that time sets or clears:    *)
(* seen within minutes, when last tried, and the timers of the tick.  What *)
(* the tick asks of other parts - is the APS queue busy, is a node in a    *)
(* wait state, was it heard of by neighbors or source routes, is a request *)
(* taken - is left open, and so are the delay of a zombie's next try,      *)
(* which grows with its errors, and the cursor of zombieTick.              *)
(***************************************************************************)
EXTENDS Integers, Sequences, SequencesExt, FiniteSets, FiniteSetsExt

CONSTANTS Own, Devices,    \* the coordinator's MAC address, those of the others
          Nwks,            \* network addresses of the others; 0 is the coordinator's
          InRest,          \* the devices that are in the REST database
          MaxRecvErrors, MaxRecvErrorsZombie,  \* 2 <= the first < the second
          MaxMoves,        \* bound: devices that leave, come or change address
          MaxFaults        \* bound: lost frames, permit join, deletions

\* Nobody has the coordinator's addresses.
ASSUME TableAssumption ==
  IsFiniteSet(Devices) /\ Own \notin Devices /\ 0 \notin Nwks /\ MaxRecvErrorsZombie \in Nat

Gone == -1

VARIABLES nodes,           \* m_nodes
          discover,        \* m_deviceDiscoverQueue
          addrReq,         \* LQI, IEEE and NWK address requests in the APS queue
          lqiIter,
          zombieDelay,     \* m_zombieDelay is not zero
          deleted,         \* soon: a node was deleted within ten seconds;
                           \* silent: deleted devices that gave no sign since
          lqiTimer,        \* m_fetchLqiTickMsCounter has elapsed
          discTimer,       \* m_lastDiscoveryRequest is a minute old
          ownNeib,         \* the coordinator has neighbors
          permit,          \* ParamPermitJoin
          at,              \* the network address each device has, or Gone
          moves, budget    \* bounds

tableVars == <<nodes, discover, addrReq, lqiIter, zombieDelay, deleted,
               lqiTimer, discTimer, ownNeib, permit, at, moves, budget>>

Node(e, w) == [ext |-> e, nwk |-> w, zombie |-> FALSE, errs |-> 0, seen |-> "never",
               tried |-> "never", desc |-> FALSE]
\* lastDiscoveryTryMs, which is 0 of a node never tried: up to 5 minutes, to 10, more.
Tries == {"never", "now", "soon", "long"}

Init ==
  /\ nodes = <<[Node(Own, 0) EXCEPT !.seen = "now", !.desc = TRUE]>>
  /\ discover = <<>> /\ addrReq = {} /\ lqiIter = 0
  /\ zombieDelay = FALSE /\ deleted = [soon |-> FALSE, silent |-> {}] /\ lqiTimer = TRUE /\ discTimer = TRUE
  /\ ownNeib = FALSE /\ permit \in BOOLEAN
  /\ at \in [Devices -> Nwks \cup {Gone}] /\ IsInjective([d \in {x \in Devices : at[x] # Gone} |-> at[d]])
  /\ moves = 0 /\ budget = 0

----------------------------------------------------------------------------
(* getNode, by MAC address, by network address, or by either; 0 is none.   *)
First(s)       == IF s = {} THEN 0 ELSE Min(s)
ByExt(ns, e)   == First({k \in DOMAIN ns : ns[k].ext = e})
ByNwk(ns, w)   == First({k \in DOMAIN ns : ns[k].nwk = w})
getNode(ns, e, w) == IF ByExt(ns, e) # 0 THEN ByExt(ns, e) ELSE ByNwk(ns, w)

addDeviceDiscover(q, e, w) == IF <<e, w>> \in ToSet(q) THEN q ELSE Append(q, <<e, w>>)

\* createNode: no second node with a MAC or a network address of the table, none
\* while the network is closed unless the database has it, none soon after a
\* deletion.
MayCreate(ns, e, w) ==
  /\ ByExt(ns, e) = 0 /\ ByNwk(ns, w) = 0
  /\ permit \/ e \in InRest
  /\ ~deleted.soon
createNode(ns, e, w) == IF MayCreate(ns, e, w) THEN Append(ns, Node(e, w)) ELSE ns

\* checkAddressChange: the node with this MAC address gets the network address,
\* whoever else has it.
checkAddressChange(ns, e, w) ==
  LET k == ByExt(ns, e) IN IF k = 0 THEN ns ELSE [ns EXCEPT ![k].nwk = w]

Woken(n) == [n EXCEPT !.zombie = FALSE, !.errs = 0, !.seen = "now"]

\* What onApsdeDataIndication does with any frame of a device: the node found by
\* its source address is awake, its errors are forgotten.
Heard(ns, d, withExt) ==
  LET k == IF withExt THEN getNode(ns, d, at[d]) ELSE ByNwk(ns, at[d])
      m == IF withExt THEN checkAddressChange(ns, d, at[d]) ELSE ns
  IN  IF k = 0 THEN ns ELSE [m EXCEPT ![k] = Woken(@)]

----------------------------------------------------------------------------
(* Devices.                                                                *)
Here == {d \in Devices : at[d] # Gone}
Used == {at[d] : d \in Here}

\* A device takes an address no other device in the network has.
Joins(d) ==
  /\ moves < MaxMoves /\ moves' = moves + 1
  /\ \E w \in Nwks \ Used : at' = [at EXCEPT ![d] = w]
  /\ UNCHANGED <<nodes, discover, addrReq, lqiIter, zombieDelay, deleted,
                 lqiTimer, discTimer, ownNeib, permit, budget>>
Leaves(d) ==
  /\ d \in Here /\ moves < MaxMoves /\ moves' = moves + 1
  /\ at' = [at EXCEPT ![d] = Gone]
  /\ UNCHANGED <<nodes, discover, addrReq, lqiIter, zombieDelay, deleted,
                 lqiTimer, discTimer, ownNeib, permit, budget>>

\* Device_annce: the frame is heard, checkDeviceAnnce, and the node is touched or
\* made.  A node that is found by the network address only is taken for it.
DeviceAnnce(d, withExt) ==
  /\ d \in Here
  /\ LET ns == Heard(nodes, d, withExt)
         k  == getNode(ns, d, at[d])
     IN  /\ nodes' = IF k # 0 THEN [checkAddressChange(ns, d, at[d]) EXCEPT ![k].seen = "now"]
                     ELSE createNode(ns, d, at[d])
         /\ discover' = addDeviceDiscover(discover, d, at[d])
         /\ deleted' = [deleted EXCEPT !.silent = @ \ {d}]
  /\ nodes' # nodes \/ discover' # discover
  /\ UNCHANGED <<addrReq, lqiIter, zombieDelay, lqiTimer, discTimer,
                 ownNeib, permit, at, moves, budget>>

\* Any other frame of a device.
Indication(d, withExt) ==
  /\ d \in Here /\ nodes' = Heard(nodes, d, withExt) /\ nodes' # nodes
  /\ UNCHANGED <<discover, addrReq, lqiIter, zombieDelay, deleted, lqiTimer,
                 discTimer, ownNeib, permit, at, moves, budget>>

\* The node descriptor of a node comes in (module NodeFetch).
NodeDescRsp(k) ==
  /\ k \in DOMAIN nodes /\ ~nodes[k].desc /\ nodes[k].nwk \in Used
  /\ nodes' = [nodes EXCEPT ![k] = Woken([@ EXCEPT !.desc = TRUE])]
  /\ UNCHANGED <<discover, addrReq, lqiIter, zombieDelay, deleted, lqiTimer,
                 discTimer, ownNeib, permit, at, moves, budget>>

----------------------------------------------------------------------------
(* deviceDiscoverTick.                                                     *)

ToNode(n) == {r \in addrReq : r.ext = n.ext \/ r.nwk = n.nwk}
LqiNode   == IF ~ownNeib \/ lqiIter >= Len(nodes) THEN 1 ELSE lqiIter + 1

\* (The time of the last try is only ever read of the other nodes.)
\* The first part asks one node for its neighbors; a node that fails goes into the
\* discover queue.
Failing(n) == n.zombie \/ n.errs > 2
Lost(n)    == n.seen = "never" /\ n.errs < MaxRecvErrorsZombie /\ n.desc
InTheWay(n) == n.tried # "long" /\ n.nwk # 0 /\ \E r \in addrReq : r.nwk = n.nwk
LqiFree    == ~\E r \in addrReq : r.kind = "lqi"

\* A request leaves, and the tick ends there.
AskLqi ==
  /\ lqiTimer /\ ~Failing(nodes[LqiNode]) /\ ~InTheWay(nodes[LqiNode]) /\ LqiFree
  /\ addrReq' = addrReq \cup {[kind |-> "lqi", ext |-> nodes[LqiNode].ext, nwk |-> nodes[LqiNode].nwk]}
  /\ nodes' = [nodes EXCEPT ![LqiNode].tried = IF LqiNode = 1 THEN "never" ELSE "now"]
  /\ lqiTimer' = FALSE /\ lqiIter' = LqiNode
  /\ UNCHANGED <<discover, zombieDelay, deleted, discTimer, ownNeib, permit, at, moves, budget>>

SkipLqi ==
  /\ lqiTimer /\ ~Failing(nodes[LqiNode]) /\ InTheWay(nodes[LqiNode])
  /\ lqiIter' = LqiNode
  /\ UNCHANGED <<nodes, discover, addrReq, zombieDelay, deleted, lqiTimer, discTimer,
                 ownNeib, permit, at, moves, budget>>

\* The first part sends nothing and leaves the queue q: its time has not come or the
\* APS queue is busy; the node is in a wait state, or its request is not taken; it
\* fails or is lost; or another LQI request is out.
NoLqi(q) ==
  LET n == nodes[LqiNode]
  IN  \/ q = discover /\ lqiIter' = IF ownNeib THEN lqiIter ELSE 0
      \/ lqiTimer /\ q = discover /\ lqiIter' = LqiNode
      \/ /\ lqiTimer /\ (Failing(n) \/ Lost(n))
         /\ q = addDeviceDiscover(discover, n.ext, n.nwk) /\ lqiIter' = LqiNode
      \/ lqiTimer /\ ~Failing(n) /\ ~LqiFree /\ q = discover /\ lqiIter' = LqiNode - 1

\* The second part takes the first address from the queue.
Take(q) ==
  LET e == Head(q)[1]  w == Head(q)[2]
      made == createNode(nodes, e, w)
      k == IF getNode(nodes, e, w) # 0 THEN getNode(nodes, e, w) ELSE ByExt(made, e)
      n == made[k]
      rest == Tail(q)
      quiet == UNCHANGED <<addrReq, discTimer>>
      tried == [made EXCEPT ![k].tried = "now"]
      Send(kind) == /\ addrReq' = addrReq \cup {[kind |-> kind, ext |-> e, nwk |-> IF kind = "nwk" THEN Gone ELSE w]}
                    /\ discTimer' = FALSE /\ nodes' = tried /\ discover' = rest
      Drop == discover' = rest /\ nodes' = made /\ quiet
      Back == discover' = Append(rest, <<e, w>>) /\ nodes' = made /\ quiet
      works == n.ext = e /\ n.seen = "now"
      mayWait == n.zombie /\ n.tried # "never"
  IN  \* a node of that MAC address is not known: made, or another one of the network address
      /\ zombieDelay' = (zombieDelay \/ (ByExt(nodes, e) = 0 /\ k # 0))
      /\ IF k = 0 \/ works \/ ~n.desc THEN Drop
         ELSE \/ Back                    \* the APS queue is busy, the node waits, nothing is taken
              \/ mayWait /\ Drop         \* a zombie that was tried not long ago
              \/ (ToNode(n) # {} \/ permit) /\ Drop
              \/ /\ ToNode(n) = {} /\ ~permit /\ discTimer
                 /\ \/ n.errs >= 2 /\ n.tried \in {"soon", "long"} /\ Send("nwk")
                    \/ n.errs < 2 /\ Send("ieee")

Discover ==
  /\ \E q \in {discover, addDeviceDiscover(discover, nodes[LqiNode].ext, nodes[LqiNode].nwk)} :
       /\ NoLqi(q)
       /\ IF q = <<>> THEN UNCHANGED <<nodes, discover, addrReq, discTimer, zombieDelay>> ELSE Take(q)
  /\ UNCHANGED <<deleted, lqiTimer, ownNeib, permit, at, moves, budget>>

deviceDiscoverTick == AskLqi \/ SkipLqi \/ Discover

----------------------------------------------------------------------------
(* Requests end.                                                           *)

\* Who gets a request: whoever has the network address, or the device itself
\* (a broadcast).
Reached(r) == IF r.kind = "nwk" THEN r.ext \in Here ELSE r.nwk \in Used \cup {0}
Answerer(r) == IF r.kind = "nwk" THEN r.ext
               ELSE IF r.nwk = 0 THEN Own ELSE CHOOSE d \in Here : at[d] = r.nwk

\* IEEE_addr_rsp, NWK_addr_rsp: the answer names the device and its address.
AddrRsp(r) ==
  /\ r \in addrReq /\ r.kind # "lqi" /\ Reached(r)
  /\ addrReq' = addrReq \ {r}
  /\ LET d == Answerer(r)
         ns == checkAddressChange(Heard(nodes, d, FALSE), d, at[d])
         k  == ByExt(ns, d)
     IN  nodes' = IF k = 0 THEN ns ELSE [ns EXCEPT ![k].seen = "now"]
  /\ UNCHANGED <<discover, lqiIter, zombieDelay, deleted, lqiTimer, discTimer,
                 ownNeib, permit, at, moves, budget>>

\* Mgmt_Lqi_rsp, in one answer: routers that are known, and devices that are not,
\* go into the discover queue; the timer starts again.  The table of a router may
\* name devices that are gone, and old addresses (named: all it names; neib: those
\* of some quality).
MgmtLqiRsp(r) ==
  /\ r \in addrReq /\ r.kind = "lqi" /\ Reached(r)
  /\ addrReq' = addrReq \ {r}
  /\ LET d == Answerer(r)
     IN  \E named \in SUBSET (Devices \ {d}) : \E neib \in SUBSET named, old \in [Devices -> Nwks] :
           /\ nodes' = IF d = Own THEN nodes ELSE Heard(nodes, d, FALSE)
           /\ discover' = discover \o SetToSeq({<<x, old[x]>> : x \in neib} \ ToSet(discover))
           /\ ownNeib' = (ownNeib \/ (d = Own /\ named # {}))
           /\ deleted' = [deleted EXCEPT !.silent = @ \ neib]
  /\ lqiTimer' = (permit /\ lqiTimer)
  /\ UNCHANGED <<lqiIter, zombieDelay, discTimer, permit, at, moves, budget>>

\* onApsdeDataConfirm with an error, or timeoutTick for a broadcast: one more
\* error for the node the request was for.  The frame may be lost, too.
RequestFails(r) ==
  /\ r \in addrReq
  /\ IF Reached(r) THEN budget < MaxFaults /\ budget' = budget + 1 ELSE UNCHANGED budget
  /\ addrReq' = addrReq \ {r}
  /\ LET k == IF r.kind = "nwk" THEN ByExt(nodes, r.ext) ELSE getNode(nodes, r.ext, r.nwk)
     IN  nodes' = IF k = 0 \/ (r.kind = "nwk" /\ nodes[k].seen = "now") THEN nodes
                  ELSE [nodes EXCEPT ![k].errs = Min({@ + 1, MaxRecvErrorsZombie})]
  /\ UNCHANGED <<discover, lqiIter, zombieDelay, deleted, lqiTimer, discTimer,
                 ownNeib, permit, at, moves>>

\* A request of a plugin to a node that is not there fails.
OtherRequestFails(k) ==
  /\ k \in DOMAIN nodes /\ nodes[k].nwk \notin Used \cup {0} /\ nodes[k].errs < MaxRecvErrorsZombie
  /\ nodes' = [nodes EXCEPT ![k].errs = @ + 1]
  /\ UNCHANGED <<discover, addrReq, lqiIter, zombieDelay, deleted, lqiTimer, discTimer,
                 ownNeib, permit, at, moves, budget>>

----------------------------------------------------------------------------
(* Zombies and deletion.                                                   *)

\* The tick looks at one node after the other; which one is next is left open.
zombieTick ==
  /\ Len(nodes) > 1 /\ ~zombieDelay
  /\ \E k \in DOMAIN nodes :
       LET n == nodes[k]
           dead == n.seen # "now" \/ n.errs >= MaxRecvErrorsZombie
           dies == dead /\ ~n.zombie /\ n.nwk # 0 /\ n.desc /\ n.errs > MaxRecvErrors
       IN  /\ nodes' = IF dies THEN [nodes EXCEPT ![k].zombie = TRUE]
                       ELSE IF ~dead /\ n.zombie THEN [nodes EXCEPT ![k].zombie = FALSE, ![k].seen = "now"]
                       ELSE nodes
           /\ addrReq' = IF dies THEN {r \in addrReq : r.nwk # n.nwk} ELSE addrReq
  /\ UNCHANGED <<discover, lqiIter, zombieDelay, deleted, lqiTimer, discTimer, ownNeib, permit,
                 at, moves, budget>>

\* Mutant: addresses that wait for discovery are kept.
deleteNodeQuietly(k) ==
  /\ k \in DOMAIN nodes \ {1} /\ budget < MaxFaults
  /\ budget' = budget + 1
  /\ nodes' = RemoveAt(nodes, k)
  /\ deleted' = [soon |-> TRUE, silent |-> deleted.silent \cup {nodes[k].ext}]
  /\ UNCHANGED <<addrReq, discover, lqiIter, zombieDelay, lqiTimer, discTimer,
                 ownNeib, permit, at, moves>>
\* deleteNode(NodeRemoveFinally), never the coordinator: the queue is cleared, so
\* that nothing makes the node again before it is out of the database.
deleteNode(k) ==
  /\ k \in DOMAIN nodes \ {1} /\ budget < MaxFaults
  /\ budget' = budget + 1
  /\ addrReq' = {r \in addrReq : r.nwk # nodes[k].nwk}
  /\ nodes' = RemoveAt(nodes, k)
  /\ discover' = <<>> /\ deleted' = [soon |-> TRUE, silent |-> deleted.silent \cup {nodes[k].ext}]
  /\ UNCHANGED <<lqiIter, zombieDelay, lqiTimer, discTimer, ownNeib, permit, at, moves>>

PermitJoin ==
  /\ budget < MaxFaults /\ budget' = budget + 1 /\ permit' = ~permit
  /\ UNCHANGED <<nodes, discover, addrReq, lqiIter, zombieDelay, deleted, lqiTimer,
                 discTimer, ownNeib, at, moves>>

----------------------------------------------------------------------------
(* Time goes by.                                                           *)
Elapse ==
  /\ lqiTimer' = TRUE /\ discTimer' = TRUE /\ zombieDelay' = FALSE /\ deleted' = [deleted EXCEPT !.soon = FALSE]
  /\ <<lqiTimer, discTimer, zombieDelay, deleted.soon>> # <<TRUE, TRUE, FALSE, FALSE>>
  /\ UNCHANGED <<nodes, discover, addrReq, lqiIter, ownNeib, permit, at, moves, budget>>
ElapseTry(k) ==
  /\ k \in DOMAIN nodes /\ nodes[k].tried \in {"now", "soon"}
  /\ nodes' = [nodes EXCEPT ![k].tried = IF @ = "now" THEN "soon" ELSE "long"]
  /\ UNCHANGED <<discover, addrReq, lqiIter, zombieDelay, deleted, lqiTimer, discTimer,
                 ownNeib, permit, at, moves, budget>>
\* Minutes without a word.
ElapseSeen(k) ==
  /\ k \in DOMAIN nodes \ {1} /\ nodes[k].seen = "now"
  /\ nodes' = [nodes EXCEPT ![k].seen = "old"]
  /\ UNCHANGED <<discover, addrReq, lqiIter, zombieDelay, deleted, lqiTimer, discTimer,
                 ownNeib, permit, at, moves, budget>>

Next == \/ deviceDiscoverTick \/ zombieTick \/ Elapse \/ PermitJoin
        \/ \E r \in addrReq : AddrRsp(r) \/ MgmtLqiRsp(r) \/ RequestFails(r)
        \/ \E d \in Devices : Joins(d) \/ Leaves(d) \/ \E x \in BOOLEAN : DeviceAnnce(d, x) \/ Indication(d, x)
        \/ \E k \in DOMAIN nodes : \/ NodeDescRsp(k) \/ OtherRequestFails(k) \/ deleteNode(k)
                                  \/ ElapseTry(k) \/ ElapseSeen(k)

Spec == Init /\ [][Next]_tableVars

----------------------------------------------------------------------------
TableTypeOK ==
  /\ \A k \in DOMAIN nodes : /\ nodes[k].ext \in Devices \cup {Own} /\ nodes[k].nwk \in Nwks \cup {0}
                             /\ nodes[k].errs \in 0 .. MaxRecvErrorsZombie /\ nodes[k].tried \in Tries
  /\ lqiIter \in 0 .. Cardinality(Devices) + 1

(* For any order of announcements, answers, moves and deletions, the       *)
(* coordinator is the first node and never a zombie, no two nodes have one *)
(* MAC address, and no address is twice in the discover queue.  A node     *)
(* that was deleted is made again only after its device announced itself,  *)
(* or a neighbor named it, since: not by an address that was waiting in    *)
(* the discover queue, and not by an answer that came late.                *)
TableSafe ==
  /\ TableTypeOK
  /\ nodes[1].ext = Own /\ nodes[1].nwk = 0 /\ ~nodes[1].zombie
  /\ \A j, k \in DOMAIN nodes : nodes[j].ext = nodes[k].ext => j = k
  /\ IsInjective(discover)
  /\ \A k \in DOMAIN nodes : nodes[k].zombie => nodes[k].desc
  /\ \A k \in DOMAIN nodes : nodes[k].ext \notin deleted.silent
=============================================================================
