------------------------------- MODULE MCNodes -------------------------------
(***************************************************************************)
(* The node table and the source routes, one at a time: part says which    *)
(* one a behaviour is of; the other keeps an initial state.                *)
(***************************************************************************)
EXTENDS NodeTable, SourceRoutes

VARIABLE part

\* SourceRoutes: two routers, every node hears every other.
AllLinks == {l \in Everyone \X Everyone : l[1] # l[2]}

\* The two addresses are alike: the device is in the network with the first, or not.
NodesInit ==
  /\ RoutesInit
  /\ \/ part = "table"  /\ Init /\ \A d \in Devices : at[d] # 2
     \/ part = "routes" /\ Init /\ permit = FALSE /\ \A d \in Devices : at[d] = Gone
NodesNext == /\ UNCHANGED part
             /\ \/ part = "table"  /\ Next       /\ UNCHANGED routeVars
                \/ part = "routes" /\ RoutesNext /\ UNCHANGED tableVars
NodesSpec == NodesInit /\ [][NodesNext]_<<part, tableVars, routeVars>>
=============================================================================
