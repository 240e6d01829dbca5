---------------------------- MODULE SourceRoutes ----------------------------
(***************************************************************************)
(* Source routing: the table m_routes of zmController, which              *)
(* SR_CalculateRouteForNode extends hop by hop and clears of routes that   *)
(* fail, the copies each node keeps of its own routes, from which the      *)
(* relays of a request are taken, and the routes drawn in the scene.  A    *)
(* deletion reaches the table later, through a queued signal.              *)
(*                                                                         *)
(* All nodes are routers.  Links says which node has which as a neighbor   *)
(* of enough quality; a node that has errors or is a zombie is in zombies, *)
(* for the code's two limits (more than one, three or more) alike.  The    *)
(* trash keeps all it is given, where the code drops the oldest of 16, and *)
(* no node is of the maker whose old versions relay nothing.               *)
(***************************************************************************)
EXTENDS Integers, Sequences, SequencesExt, FiniteSets, FiniteSetsExt

CONSTANTS Coord, Routers,
          Links,           \* <<m, n>>: m has n as a neighbor above m_sourceRouteMinLqi
          Ids,             \* hashes of route uuids
          MaxHops,         \* m_sourceRouteMaxHops
          MinTxOk,         \* answers before a route is extended: 3
          MaxRouteErrors,  \* MAX_ROUTE_ERRORS
          MaxBestErrors,   \* MaxRecvErrors of source_routing.cpp
          MaxRouteTtl,     \* MAX_TRASH_ROUTE_TTL
          MaxTx,           \* bound of the counter of answers
          MaxUser          \* bound: actions of the user and the database

\* The coordinator is no router.  The bound of the answers is a number, as the limits are.
ASSUME RoutesAssumption ==
  /\ Coord \notin Routers /\ IsFiniteSet(Routers)
  /\ MaxTx \in Nat /\ MaxRouteErrors \in Nat \ {0} /\ MaxBestErrors \in Nat \ {0}

VARIABLES table,           \* m_nodes
          zombies,         \* nodes that do not answer
          routes,          \* m_routes
          copies,          \* each node's sourceRoutes()
          trash,           \* routes that failed, with the trials they still block
          routeIter, nodeIter, started,
          warm,            \* the program runs for more than a minute
          signalled,       \* sourceRouteDeleted signals that were not delivered
          scene,           \* m_gsourceRoutes
          sent,            \* ids of the routes of requests in flight
          user             \* bound

routeVars == <<table, zombies, routes, copies, trash, routeIter, nodeIter, started, warm,
               signalled, scene, sent, user>>

Everyone == {Coord} \cup Routers
RoutesInit ==
  /\ table = <<Coord>> \o SetToSeq(Routers) /\ zombies = {}
  /\ routes = <<>> /\ copies = [n \in Everyone |-> <<>>] /\ trash = <<>>
  /\ routeIter = 0 /\ nodeIter = 0 /\ started = FALSE /\ warm = FALSE
  /\ signalled = {} /\ scene = {} /\ sent = {} /\ user = 0

----------------------------------------------------------------------------
(* Routes.                                                                 *)

Known      == ToSet(table)
IdsOf(s)   == {s[k].id : k \in DOMAIN s}
FreshIds   == Ids \ (IdsOf(routes) \cup signalled \cup sent \cup scene \cup UNION {IdsOf(copies[n]) : n \in Everyone})
NewId(rs)  == CHOOSE i \in FreshIds \ IdsOf(rs) : TRUE
Route(i, h) == [id |-> i, hops |-> h, ok |-> TRUE, tx |-> 0, err |-> 0]
At(s, i)   == CHOOSE k \in DOMAIN s : s[k].id = i          \* SR_GetRouteForUuidHash
Without(s, i) == IF i \in IdsOf(s) THEN RemoveAt(s, At(s, i)) ELSE s   \* removeSourceRoute
MaxErr     == Max({MaxRouteErrors, MaxBestErrors, MaxTx + 1})
Worse(r, n) == [r EXCEPT !.err = Min({@ + n, MaxErr})]

\* zmNode::addSourceRoute: a route with this id is replaced.
AddTo(s, r) == IF r.id \in IdsOf(s) THEN [s EXCEPT ![At(s, r.id)] = r] ELSE Append(s, r)

sourceRouteExists(hops, s) == \E k \in DOMAIN s : IsSuffix(hops, s[k].hops)
sourceRoutesForDestination(n, s) == {k \in DOMAIN s : Last(s[k].hops) = n}

\* The comparison that picks a route to extend; it is not an order: each of two may
\* be before the other.
Better(a, b) ==
  \/ a.tx > b.tx
  \/ /\ a.ok /\ ~(a.err > b.err /\ b.ok)
     /\ ~b.ok \/ Len(a.hops) < Len(b.hops)
\* The comparison that orders the table.
Shorter(a, b) == Last(a.hops) = Last(b.hops) /\ Len(a.hops) < Len(b.hops)

\* std::sort of a short vector: each element in turn is inserted, at the front if
\* it is before the first, else behind the last it is not before.  So the first of
\* the result is found by a pass that keeps the better of two.
Inserted(s, x) ==
  IF s = <<>> THEN <<x>>
  ELSE IF Shorter(x, s[1]) THEN <<x>> \o s
  ELSE InsertAt(s, Max({k \in DOMAIN s : ~Shorter(x, s[k])}) + 1, x)
Sorted(s) ==
  LET upTo[k \in 0 .. Len(s)] == IF k = 0 THEN <<>> ELSE Inserted(upTo[k - 1], s[k])
  IN  upTo[Len(s)]
BestOf(s, ks) ==
  LET upTo[k \in 0 .. Len(s)] ==
        IF k = 0 THEN 0
        ELSE IF k \in ks /\ (upTo[k - 1] = 0 \/ Better(s[k], s[upTo[k - 1]])) THEN k ELSE upTo[k - 1]
  IN  upTo[Len(s)]

\* updateSourceRoute: up to the first hop that is not in the table, which breaks the
\* route; hops that do not answer count as errors; a route with all its links is whole,
\* unless its first hop once was not there.
Broken(r)  == \E k \in DOMAIN r.hops : r.hops[k] \notin Known
FirstLost(r) == Min({k \in DOMAIN r.hops : r.hops[k] \notin Known} \cup {Len(r.hops) + 1})
Linked(h)  == \A k \in 2 .. Len(h) : <<h[k - 1], h[k]>> \in Links
updateSourceRoute(r) ==
  LET dead == {k \in 1 .. FirstLost(r) - 1 : r.hops[k] \in zombies}
  IN  [Worse(r, Cardinality(dead)) EXCEPT !.ok = IF Broken(r) THEN FALSE ELSE @ \/ (r.hops[1] = Coord /\ Linked(r.hops))]

\* zmController::onSourceRouteChanged draws a route whose nodes are all there.
Drawn(r) == IF Broken(r) THEN scene ELSE scene \cup {r.id}

----------------------------------------------------------------------------
(* selectBestSourceRouteForNode, with the routes rs and copies cs: result  *)
(* is the copies, the deletions to signal and the routes to draw.          *)
selectBest(n, rs, cs) ==
  LET dst  == sourceRoutesForDestination(n, rs)
      best == rs[BestOf(rs, dst)]
  IN  IF dst = {} \/ (cs[n] # <<>> /\ cs[n][1].ok) \/ ~best.ok \/ best.err >= MaxBestErrors
      THEN [copies |-> cs, gone |-> {}, shown |-> {}]
      ELSE [copies |-> [cs EXCEPT ![n] = <<best>>],
            gone   |-> IdsOf(cs[n]) \ {best.id}, shown |-> {best.id}]

\* calculateRouteForNode for the route k of rs, the three cases: the route ends here and
\* is updated or removed; it goes through here; it may be extended to here.
Result(rs, cs, tr, gone, shown) == [routes |-> rs, copies |-> cs, trash |-> tr, gone |-> gone, shown |-> shown]
Same(rs) == Result(rs, copies, trash, {}, {})
Trashed(h) == {k \in DOMAIN trash : trash[k].hops = h}

UpdateRoute(n, k, rs) ==
  LET r == updateSourceRoute(rs[k])
      fails == r.err >= MaxRouteErrors /\ r.tx < r.err
      kept  == [rs EXCEPT ![k] = r]
  IN  IF fails /\ ~warm THEN Same(kept)
      ELSE IF fails
      THEN Result(RemoveAt(rs, k), [copies EXCEPT ![n] = Without(@, r.id)],
                  IF Trashed(r.hops) # {} THEN trash ELSE Append(trash, [hops |-> r.hops, ttl |-> MaxRouteTtl]),
                  {r.id}, {})
      ELSE IF r.ok # rs[k].ok /\ r.id \in IdsOf(copies[n])
      THEN Result(kept, [copies EXCEPT ![n] = AddTo(@, r)], trash, {}, {r.id})
      ELSE Same(kept)

MayExtend(r, n) ==
  /\ Len(r.hops) < MaxHops
  /\ Len(r.hops) = 1 \/ (r.tx >= MinTxOk /\ r.err <= r.tx)
  /\ Last(r.hops) \in Known \ zombies /\ <<Last(r.hops), n>> \in Links
ExtendRoute(n, k, rs) ==
  LET r == rs[k]
      hops == Append(r.hops, n)
      new  == [Route(NewId(rs), hops) EXCEPT !.ok = r.ok]
      old  == Trashed(hops)
      t    == CHOOSE j \in old : TRUE
  IN  IF \/ ~MayExtend(r, n) \/ Cardinality(sourceRoutesForDestination(n, rs)) >= 2
         \/ ~r.ok \/ sourceRouteExists(hops, rs)
      THEN Same(rs)
      ELSE IF old # {}
      THEN Result(rs, copies, IF trash[t].ttl = 1 THEN RemoveAt(trash, t) ELSE [trash EXCEPT ![t].ttl = @ - 1],
                  {}, {})
      ELSE IF copies[n] # <<>> THEN Same(Append(rs, new))
      ELSE Result(Append(rs, new), [copies EXCEPT ![n] = <<new>>], trash, {}, {new.id})

\* Mutant: a route may go through a node twice.
calculateRouteLoops(n, k, rs) ==
  IF n = Coord THEN Same(rs)
  ELSE IF Last(rs[k].hops) = n THEN UpdateRoute(n, k, rs)
  ELSE ExtendRoute(n, k, rs)
calculateRoute(n, k, rs) ==
  IF n = Coord THEN Same(rs)
  ELSE IF Last(rs[k].hops) = n THEN UpdateRoute(n, k, rs)
  ELSE IF n \in ToSet(rs[k].hops) THEN Same(rs)
  ELSE ExtendRoute(n, k, rs)

\* SR_CalculateRouteForNode, for one node and one route: the coordinator's own route
\* comes first; c is what became of the route, end says that the next node is next, b
\* what is chosen for this one.
WithCoord == IF routes = <<>> \/ ~started THEN Append(routes, Route(NewId(routes), <<Coord>>)) ELSE routes
SR_CalculateRouteForNode ==
  /\ FreshIds # {} /\ FreshIds \ IdsOf(WithCoord) # {}
  /\ LET n == table[(nodeIter % Len(table)) + 1] IN
     \E rs \in {WithCoord} :
     \E c \in {calculateRoute(n, (routeIter % Len(rs)) + 1, rs)} :
     \E end \in {Len(c.routes) # Len(rs) \/ routeIter + 1 >= Len(c.routes)} :
     \E b \in {IF end THEN selectBest(n, c.routes, c.copies)
               ELSE [copies |-> c.copies, gone |-> {}, shown |-> {}]} :
        /\ routes' = IF Len(c.routes) > Len(rs) THEN Sorted(c.routes) ELSE c.routes
        /\ copies' = b.copies /\ trash' = c.trash
        /\ signalled' = signalled \cup c.gone \cup b.gone
        /\ scene' = scene \cup {i \in c.shown \cup b.shown : ~Broken(c.routes[At(c.routes, i)])}
        /\ routeIter' = IF end THEN 0 ELSE routeIter + 1
        /\ nodeIter' = IF end THEN (nodeIter + 1) % Len(table) ELSE nodeIter
  /\ started' = TRUE
  /\ UNCHANGED <<table, zombies, warm, sent, user>>

----------------------------------------------------------------------------
(* Requests.                                                               *)

\* getSourceRoute: the first of the node's routes that is whole and leads over nodes
\* that answer.
Usable(r) == r.ok /\ ToSet(r.hops) \subseteq Known \ zombies /\ r.hops # <<Coord>>
getSourceRoute(n) == {k \in DOMAIN copies[n] : Usable(copies[n][k])}

Send(n) ==
  /\ sent = {} /\ n \in Known \ {Coord} /\ getSourceRoute(n) # {}
  /\ sent' = {copies[n][Min(getSourceRoute(n))].id}
  /\ UNCHANGED <<table, zombies, routes, copies, trash, routeIter, nodeIter, started, warm, signalled, scene, user>>

\* The answer counts for the route, if the table still has it; the first one makes it
\* a route of the node.
Answered(i) ==
  /\ i \in sent /\ sent' = sent \ {i}
  /\ IF i \notin IdsOf(routes) THEN UNCHANGED <<routes, copies, scene>>
     ELSE LET k == At(routes, i)
              r == routes[k]
              s == [r EXCEPT !.tx = @ + 1]
              d == Last(r.hops)
          IN  /\ r.tx < MaxTx /\ d \in Known
              /\ routes' = [routes EXCEPT ![k] = s]
              /\ IF s.tx = 1 THEN copies' = [copies EXCEPT ![d] = AddTo(@, s)] /\ scene' = Drawn(s)
                 ELSE UNCHANGED <<copies, scene>>
  /\ UNCHANGED <<table, zombies, trash, routeIter, nodeIter, started, warm, signalled, user>>

\* The confirm says no acknowledgement; or nothing comes and the request is dropped.
Failed(i, told) ==
  /\ i \in sent /\ sent' = sent \ {i}
  /\ told => user < MaxUser
  /\ user' = IF told THEN user + 1 ELSE user
  /\ routes' = IF told /\ i \in IdsOf(routes) THEN [routes EXCEPT ![At(routes, i)] = Worse(@, 1)] ELSE routes
  /\ UNCHANGED <<table, zombies, copies, trash, routeIter, nodeIter, started, warm, signalled, scene>>

----------------------------------------------------------------------------
(* The user, the database and the nodes.                                   *)

\* The queued signal arrives: the drawing, the node's copy and the route go.
onSourceRouteDeleted(i) ==
  /\ i \in signalled /\ signalled' = signalled \ {i}
  /\ scene' = scene \ {i}
  /\ routes' = Without(routes, i)
  /\ copies' = IF i \notin IdsOf(routes) THEN copies
               ELSE [copies EXCEPT ![Last(routes[At(routes, i)].hops)] = Without(@, i)]
  /\ UNCHANGED <<table, zombies, trash, routeIter, nodeIter, started, warm, sent, user>>

Relays == {h \in SeqOf(Routers, 2) : Len(h) = 2 /\ IsInjective(h)}

\* addSourceRoute: the user's route takes the place of all the destination has.
addSourceRoute(h) ==
  /\ user < MaxUser /\ user' = user + 1 /\ FreshIds # {}
  /\ ToSet(h) \subseteq Known
  /\ LET r == Route(NewId(routes), h)  d == Last(h)
     IN  /\ signalled' = signalled \cup IdsOf(copies[d])
         /\ copies' = [copies EXCEPT ![d] = <<r>>]
         /\ routes' = Append(routes, r)
         /\ scene' = Drawn(r)
  /\ UNCHANGED <<table, zombies, trash, routeIter, nodeIter, started, warm, sent>>

\* removeSourceRoute: the first route of a node, the coordinator's included.
removeSourceRoute(n) ==
  /\ user < MaxUser /\ user' = user + 1 /\ n \in Known /\ copies[n] # <<>>
  /\ signalled' = signalled \cup {copies[n][1].id}
  /\ copies' = [copies EXCEPT ![n] = Tail(@)]
  /\ UNCHANGED <<table, zombies, routes, trash, routeIter, nodeIter, started, warm, scene, sent>>

\* activateSourceRoute: a route of the database, whose relays may be gone.
activateSourceRoute(h) ==
  /\ user < MaxUser /\ user' = user + 1 /\ FreshIds # {} /\ Last(h) \in Known
  /\ LET r == Route(NewId(routes), h)  d == Last(h)
     IN  /\ routes' = Append(routes, r)
         /\ IF copies[d] = <<>> THEN copies' = [copies EXCEPT ![d] = <<r>>] /\ scene' = Drawn(r)
            ELSE UNCHANGED <<copies, scene>>
  /\ UNCHANGED <<table, zombies, trash, routeIter, nodeIter, started, warm, signalled, sent>>

\* deleteNode calls deleteSourcesRouteWith: every route with the node leaves the table
\* and the nodes; the node's own copies go with it.
Through(n) == {k \in DOMAIN routes : n \in ToSet(routes[k].hops)}
Purged(s, ids) ==
  LET upTo[k \in 0 .. Len(s)] ==
        IF k = 0 THEN <<>> ELSE IF s[k].id \in ids THEN upTo[k - 1] ELSE Append(upTo[k - 1], s[k])
  IN  upTo[Len(s)]
deleteSourcesRouteWith(n) ==
  LET ids == {routes[k].id : k \in Through(n)}
  IN  /\ routes' = Purged(routes, ids) /\ signalled' = signalled \cup ids
      /\ copies' = [m \in Everyone |-> IF m = n THEN <<>> ELSE Purged(copies[m], ids)]

NodeDeleted(n) ==
  /\ user < MaxUser /\ user' = user + 1 /\ n \in Known \ {Coord}
  /\ table' = RemoveAt(table, CHOOSE k \in DOMAIN table : table[k] = n) /\ zombies' = zombies \ {n}
  /\ deleteSourcesRouteWith(n)
  /\ UNCHANGED <<trash, routeIter, nodeIter, started, warm, scene, sent>>
NodeCreated(n) ==
  /\ n \in Routers \ Known /\ table' = Append(table, n)
  /\ UNCHANGED <<zombies, routes, copies, trash, routeIter, nodeIter, started, warm, signalled, scene, sent, user>>
NodeFails(n) ==
  /\ user < MaxUser /\ user' = user + 1 /\ n \in Known \ ({Coord} \cup zombies)
  /\ zombies' = zombies \cup {n}
  /\ UNCHANGED <<table, routes, copies, trash, routeIter, nodeIter, started, warm, signalled, scene, sent>>
NodeIsBack(n) ==
  /\ n \in zombies /\ zombies' = zombies \ {n}
  /\ UNCHANGED <<table, routes, copies, trash, routeIter, nodeIter, started, warm, signalled, scene, sent, user>>
WarmsUp ==
  /\ ~warm /\ warm' = TRUE
  /\ UNCHANGED <<table, zombies, routes, copies, trash, routeIter, nodeIter, started, signalled, scene, sent, user>>

RequestDone == \E i \in sent : Answered(i) \/ \E told \in BOOLEAN : Failed(i, told)
Deliver     == \E i \in signalled : onSourceRouteDeleted(i)

RoutesNext ==
  \/ SR_CalculateRouteForNode \/ RequestDone \/ Deliver \/ WarmsUp
  \/ \E h \in Relays : addSourceRoute(h) \/ activateSourceRoute(h)
  \/ \E n \in Everyone : \/ Send(n) \/ removeSourceRoute(n)
                         \/ NodeDeleted(n) \/ NodeCreated(n) \/ NodeFails(n) \/ NodeIsBack(n)

RoutesSpec == RoutesInit /\ [][RoutesNext]_routeVars

----------------------------------------------------------------------------
RouteTypeOK ==
  /\ IdsOf(routes) \cup signalled \cup scene \cup sent \subseteq Ids
  /\ nodeIter \in 0 .. Cardinality(Everyone) /\ IsInjective(table)

(* No route passes a node twice.  No id is twice in the table.  A node's   *)
(* routes end at the node, and each is in the table; so is each route that *)
(* is drawn, unless its deletion is under way.  No route that is drawn     *)
(* passes a node that is not there: deleteSourcesRouteWith takes all those *)
(* from the table that pass a node which is deleted.                       *)
RoutesSafe ==
  /\ RouteTypeOK
  /\ \A k \in DOMAIN routes : IsInjective(routes[k].hops)
  /\ \A j, k \in DOMAIN routes : routes[j].id = routes[k].id => j = k
  /\ \A n \in Everyone : \A k \in DOMAIN copies[n] :
       /\ Last(copies[n][k].hops) = n
       /\ copies[n][k].id \in IdsOf(routes)
  /\ scene \subseteq IdsOf(routes) \cup signalled
  /\ \A k \in DOMAIN routes : routes[k].id \in scene => ~Broken(routes[k])
=============================================================================
