------------------------------- MODULE Links -------------------------------
(***************************************************************************)
(* The links zmController draws: between neighbors (m_neighbors), made     *)
(* from the neighbor tables of the nodes and taken down when they are old, *)
(* of a zombie or of no quality, with the NodeLink objects kept for later  *)
(* (m_neighborsDead); and between the ends of bindings (m_bindings).       *)
(*                                                                         *)
(* An entry of m_neighbors is [a, b, link, old]: a and b nodes or Nobody,  *)
(* link the number of its NodeLink or 0, old whether it is older than      *)
(* MaxLinkAge.  A binding is a pair of nodes.  It begins when the device is *)
(* in its network for the first time.                                      *)
(***************************************************************************)
EXTENDS Integers, Sequences, SequencesExt, FiniteSets, FiniteSetsExt

CONSTANTS Peers,           \* the nodes, 1 .. n in the order of m_nodes; 1 is the own node
          EndDevices,      \* those that are end devices
          Nobody,          \* no node
          Bound,           \* the bindings there may be
          MaxReports,      \* bound: neighbor table entries and binding tables reported
          MaxEvents        \* bound: nodes that come and go, links that grow old, switches, the network

ASSUME LinksAssumption == Peers \subseteq Nat /\ Nobody \notin Peers

VARIABLES state,           \* a node is "ok", a "zombie" or "gone" (deleted finally)
          table,           \* table[<<a, b>>]: the lqi of b in the neighbor table of a, -1 is no entry
          createQueue,     \* m_createLinkQueue
          neighbors, neighborsDead, glinks,  \* m_neighbors, m_neighborsDead, zmgNode::m_links
          linkIter,        \* m_linkIter, from 1
          links,           \* how many NodeLinks there are
          showLinks,       \* m_showNeighborLinks
          inNetwork,       \* m_devState is InNetwork: tick() calls the three ticks
          autoFetchFFD,    \* m_autoFetchFFD
          bindingTable, bindLinkQueue, bindings,
          reports, events  \* bounds

linkTabVars == <<neighbors, neighborsDead, glinks, linkIter, links>>
switches    == <<showLinks, inNetwork, autoFetchFFD>>
bindVars    == <<bindingTable, bindLinkQueue, bindings>>
drawVars    == <<state, table, createQueue, linkTabVars, switches, bindVars, reports, events>>

Pairs == {p \in Peers \X Peers : p[1] # p[2]}

DrawInit ==
  /\ state = [n \in Peers |-> "ok"] /\ table = [p \in Pairs |-> -1] /\ createQueue = <<>>
  /\ neighbors = <<>> /\ neighborsDead = <<>> /\ glinks = [n \in Peers |-> {}]
  /\ linkIter = 1 /\ links = 0
  /\ showLinks = TRUE /\ inNetwork = TRUE /\ autoFetchFFD = TRUE
  /\ bindingTable = [n \in Peers |-> {}] /\ bindLinkQueue = <<>> /\ bindings = {}
  /\ reports = 0 /\ events = 0

----------------------------------------------------------------------------
(* Links between neighbors.                                                *)

\* An entry of a Mgmt_Lqi_rsp of a: updateNeighbor, and a link to look at.
MgmtLqi(a, b, lqi) ==
  /\ reports < MaxReports /\ reports' = reports + 1 /\ state[a] # "gone"
  /\ table' = [table EXCEPT ![<<a, b>>] = lqi]
  /\ createQueue' = Append(createQueue, <<a, b>>)
  /\ UNCHANGED <<state, linkTabVars, switches, bindVars, events>>

\* linkInfo: the entry of the two is young again, or there is a new one, with a
\* NodeLink that was put aside or a new one.
EndsOf(li) == {li.a, li.b}
\* Mutant: the two ends are compared in one order only.
HasEntryOrdered(k, a, b) == neighbors[k].a = a /\ neighbors[k].b = b
HasEntry(k, a, b) == EndsOf(neighbors[k]) = {a, b}

linkInfo(a, b) ==
  \/ \E k \in DOMAIN neighbors :
       /\ HasEntry(k, a, b) /\ \A j \in 1 .. k - 1 : ~HasEntry(j, a, b)
       /\ neighbors' = [neighbors EXCEPT ![k].old = FALSE]
       /\ UNCHANGED <<neighborsDead, glinks, links, linkIter>>
  \/ /\ \A k \in DOMAIN neighbors : ~HasEntry(k, a, b)
     /\ LET l == IF neighborsDead = <<>> THEN links + 1 ELSE Last(neighborsDead)
        IN  /\ neighbors' = Append(neighbors, [a |-> a, b |-> b, link |-> l, old |-> FALSE])
            /\ glinks' = [glinks EXCEPT ![a] = @ \cup {l}, ![b] = @ \cup {l}]
     /\ neighborsDead' = IF neighborsDead = <<>> THEN <<>> ELSE Front(neighborsDead)
     /\ links' = IF neighborsDead = <<>> THEN links + 1 ELSE links
     /\ UNCHANGED linkIter

Linkable(a, b) ==
  /\ state[a] = "ok" /\ state[b] = "ok"
  /\ (a \notin EndDevices /\ b \notin EndDevices) =>
       LET known == {table[<<a, b>>], table[<<b, a>>]} IN 0 \notin known /\ known # {-1}

linkCreateTick ==
  /\ inNetwork /\ createQueue # <<>> /\ createQueue' = Tail(createQueue)
  /\ LET p == Head(createQueue)
     IN  IF Linkable(p[1], p[2]) THEN linkInfo(p[1], p[2]) ELSE UNCHANGED linkTabVars
  /\ UNCHANGED <<state, table, switches, bindVars, reports, events>>

\* The link of entry k is taken from its nodes and put aside.
PutAside(k) ==
  /\ neighborsDead' = Append(neighborsDead, neighbors[k].link)
  /\ glinks' = [n \in Peers |-> glinks[n] \ (IF n \in EndsOf(neighbors[k]) THEN {neighbors[k].link} ELSE {})]
  /\ neighbors' = [neighbors EXCEPT ![k].link = 0]

Current(li) == ~li.old /\ li.link # 0 /\ state[li.a] = "ok" /\ state[li.b] = "ok"
\* The neighbor tables of the routers among the two name no quality but 0.
Worthless(li) ==
  LET ways == {p \in {<<li.a, li.b>>, <<li.b, li.a>>} : p[1] \notin EndDevices}
      lqis == {table[p] : p \in ways} \ {-1}
  IN  lqis = {0}

\* Mutant: a link of no quality is kept while it is young.
PoorWhenOld(li) == FALSE
Poor(li) == Current(li) /\ Worthless(li)

At == IF linkIter > Len(neighbors) THEN 1 ELSE linkIter
linkTick ==
  /\ inNetwork /\ autoFetchFFD /\ neighbors # <<>>
  /\ LET li == neighbors[At]
         valid == showLinks /\ li.a # Nobody /\ li.b # Nobody
     IN  \/ /\ (~valid) \/ (Current(li) /\ ~Poor(li))
            /\ linkIter' = At + 1 /\ UNCHANGED <<neighbors, neighborsDead, glinks>>
         \/ /\ valid /\ Poor(li)
            /\ PutAside(At) /\ linkIter' = At
         \/ /\ valid /\ ~Current(li) /\ li.link # 0
            /\ PutAside(At) /\ linkIter' = At + 1
         \/ /\ valid /\ li.link = 0
            /\ neighbors' = RemoveAt(neighbors, At) /\ linkIter' = At + 1
            /\ UNCHANGED <<neighborsDead, glinks>>
  /\ UNCHANGED <<state, table, createQueue, links, switches, bindVars, reports, events>>

----------------------------------------------------------------------------
(* Links between the ends of bindings.                                     *)

\* A Mgmt_Bind_rsp with the last part of a table, or a part before it.
\* addBinding and removeBinding of plugins queue a node too.
Queued(n) == IF n \in ToSet(bindLinkQueue) THEN bindLinkQueue ELSE Append(bindLinkQueue, n)
MgmtBind(n, bs, last) ==
  /\ reports < MaxReports /\ reports' = reports + 1 /\ state[n] # "gone"
  /\ bindingTable' = [bindingTable EXCEPT ![n] = IF last THEN bs ELSE @ \cup bs]
  /\ bindLinkQueue' = IF bs = {} THEN bindLinkQueue ELSE Queued(n)
  /\ UNCHANGED <<state, table, createQueue, linkTabVars, switches, bindings, events>>

\* checkBindingLink: both nodes must exist.
Drawable(b) == state[b[1]] # "gone" /\ state[b[2]] # "gone"
bindLinkTick ==
  /\ inNetwork /\ bindLinkQueue # <<>> /\ bindLinkQueue' = Front(bindLinkQueue)
  /\ LET n == Last(bindLinkQueue)
     IN  bindings' = bindings \cup (IF state[n] = "gone" THEN {} ELSE {b \in bindingTable[n] : Drawable(b)})
  /\ UNCHANGED <<state, table, createQueue, linkTabVars, switches, bindingTable, reports, events>>

----------------------------------------------------------------------------
(* Nodes and the user.                                                     *)

\* deleteNode: removeBindingLink for each binding with the node.
LostBindings(n) == {b \in bindings : n \in {b[1], b[2]}}

OfNode(n) == {k \in DOMAIN neighbors : n \in EndsOf(neighbors[k]) /\ neighbors[k].link # 0}
\* The entries ks, in the order of m_neighbors.
InOrder(ks) == [i \in 1 .. Cardinality(ks) |-> Min({k \in ks : i <= Cardinality({j \in ks : j <= k})})]

\* deleteNode, for good or not; only the nodes before n forget it as a neighbor.
deleteNode(n, s) ==
  /\ events < MaxEvents /\ events' = events + 1
  /\ n # 1 /\ state[n] # "gone" /\ state' = [state EXCEPT ![n] = s]
  /\ bindings' = IF s = "gone" THEN bindings \ LostBindings(n) ELSE bindings
  /\ neighbors' = [k \in DOMAIN neighbors |->
                     IF k \in OfNode(n) THEN [a |-> Nobody, b |-> Nobody, link |-> 0, old |-> TRUE] ELSE neighbors[k]]
  /\ neighborsDead' = neighborsDead \o [i \in 1 .. Cardinality(OfNode(n)) |->
                                          neighbors[InOrder(OfNode(n))[i]].link]
  /\ glinks' = [m \in Peers |-> glinks[m] \ {neighbors[k].link : k \in {j \in OfNode(n) : m \in EndsOf(neighbors[j])}}]
  /\ table' = [p \in Pairs |-> IF p[2] = n /\ p[1] < n THEN -1 ELSE table[p]]
  /\ UNCHANGED <<createQueue, linkIter, links, switches, bindingTable, bindLinkQueue, reports>>

Wakes(n) ==
  /\ events < MaxEvents /\ events' = events + 1
  /\ state[n] = "zombie" /\ state' = [state EXCEPT ![n] = "ok"]
  /\ UNCHANGED <<table, createQueue, linkTabVars, switches, bindVars, reports>>

GrowsOld(k) ==
  /\ events < MaxEvents /\ events' = events + 1
  /\ neighbors' = [neighbors EXCEPT ![k].old = TRUE]
  /\ UNCHANGED <<state, table, createQueue, neighborsDead, glinks, linkIter, links, switches, bindVars, reports>>

ShowLinks ==
  /\ events < MaxEvents /\ events' = events + 1 /\ showLinks' = ~showLinks
  /\ UNCHANGED <<state, table, createQueue, linkTabVars, inNetwork, autoFetchFFD, bindVars, reports>>

setAutoFetchingFFD ==
  /\ events < MaxEvents /\ events' = events + 1 /\ autoFetchFFD' = ~autoFetchFFD
  /\ UNCHANGED <<state, table, createQueue, linkTabVars, showLinks, inNetwork, bindVars, reports>>

NetworkState ==
  /\ events < MaxEvents /\ events' = events + 1 /\ inNetwork' = ~inNetwork
  /\ UNCHANGED <<state, table, createQueue, linkTabVars, showLinks, autoFetchFFD, bindVars, reports>>

DrawNext ==
  \/ \E p \in Pairs, lqi \in {0, 1} : MgmtLqi(p[1], p[2], lqi)
  \/ linkCreateTick \/ linkTick \/ bindLinkTick
  \/ ShowLinks \/ setAutoFetchingFFD \/ NetworkState
  \/ \E n \in Peers, bs \in SUBSET Bound, last \in BOOLEAN : MgmtBind(n, {b \in bs : b[1] = n}, last)
  \/ \E n \in Peers, s \in {"zombie", "gone"} : deleteNode(n, s)
  \/ \E n \in Peers : Wakes(n)
  \/ \E k \in DOMAIN neighbors : GrowsOld(k)

DrawSpec == DrawInit /\ [][DrawNext]_drawVars

----------------------------------------------------------------------------
DrawTypeOK ==
  /\ state \in [Peers -> {"ok", "zombie", "gone"}]
  /\ \A k \in DOMAIN neighbors : EndsOf(neighbors[k]) \subseteq Peers \cup {Nobody} /\ neighbors[k].link \in 0 .. links
  /\ bindings \subseteq Bound

(* Two nodes have one link; a NodeLink is drawn once or put aside once, is *)
(* known to its two nodes and to no other; and no link of a neighbor or a  *)
(* binding ends at a node that was deleted.                                *)
LinksSafe ==
  /\ DrawTypeOK
  /\ \A j, k \in DOMAIN neighbors :
       j # k => /\ neighbors[j].a # Nobody => EndsOf(neighbors[j]) # EndsOf(neighbors[k])
                /\ neighbors[j].link # 0 => neighbors[j].link # neighbors[k].link
  /\ \A i, j \in DOMAIN neighborsDead : i # j => neighborsDead[i] # neighborsDead[j]
  /\ \A k \in DOMAIN neighbors : neighbors[k].link \notin ToSet(neighborsDead)
  /\ \A n \in Peers : glinks[n] = {neighbors[k].link : k \in OfNode(n)}
  /\ \A n \in Peers : state[n] = "gone" => OfNode(n) = {} /\ \A b \in bindings : n \notin {b[1], b[2]}

(* A link that is old, of a zombie, or that the neighbor tables give no    *)
(* quality is taken down in the end, or that changes; unless the links are *)
(* hidden, the network is left or automatic fetching is switched off.      *)
Tidy(p) ==
  \A k \in DOMAIN neighbors :
    LET li == neighbors[k]
    IN  EndsOf(li) = {p[1], p[2]} /\ li.link # 0 => Current(li) /\ ~Worthless(li)
OldLinksGo ==
  \A p \in Pairs : []<>(Tidy(p) \/ ~showLinks \/ ~inNetwork \/ ~autoFetchFFD)
=============================================================================
