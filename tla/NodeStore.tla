------------------------------ MODULE NodeStore ------------------------------
(***************************************************************************)
(* What survives a restart: the positions of the nodes, which the          *)
(* controller saves some seconds after a change in the database it shares  *)
(* with the REST plugin, the nodes it makes from that database and from    *)
(* the old node cache when it starts, and the proxy it was told to use.    *)
(*                                                                         *)
(* A position is a number; rows of the table devices are the plugin's.     *)
(* Both the plugin's refusal and an error of the database end; a crash may *)
(* come at any time.                                                       *)
(***************************************************************************)
EXTENDS Integers, FiniteSets

CONSTANTS DbNodes,         \* the nodes there are
          Json,            \* nodes of the node cache with a node descriptor
          Proxies,         \* values of the proxy address; NoProxy is the empty one
          NoProxy, NoPos,
          MaxMoves,        \* bound: changes of a position or of the proxy
          MaxErrors,       \* bound: errors of the database, and refusals
          MaxStarts        \* bound: starts of the program

\* No node is named like one of the ways to fail (Failures).
ASSUME StoreAssumption == {"no", "open", "begin", "commit"} \cap DbNodes = {}

VARIABLES run,             \* "off", "load", "on", "quit"
          shown, pos, dirty,   \* nodes in m_nodes, their positions, needSaveToDatabase
          changes,         \* m_saveNodesChanges is not zero
          timer,           \* m_saveNodesTimer runs
          busy,            \* m_otauActivity is not zero
          allowed,         \* the plugin's dbSaveAllowed
          rows,            \* nodes in the table devices, with their descriptors
          stored,          \* the table device_gui
          proxy, config,   \* m_httpProxy, its row in the table config2
          moves, errors, starts, clean  \* bounds; clean: no error in this run

storeVars == <<run, shown, pos, dirty, changes, timer, busy, allowed, rows, stored,
               proxy, config, moves, errors, starts, clean>>

Init ==
  /\ run = "off" /\ shown = {} /\ pos = [n \in DbNodes |-> 0] /\ dirty = {}
  /\ changes = FALSE /\ timer = FALSE /\ busy = FALSE /\ allowed = TRUE
  /\ rows \in SUBSET DbNodes /\ stored = [n \in DbNodes |-> NoPos]
  /\ proxy = NoProxy /\ config = NoProxy
  /\ moves = 0 /\ errors = 0 /\ starts = 0 /\ clean = TRUE

----------------------------------------------------------------------------
(* Start.                                                                  *)

\* The constructor: the proxy is read; nothing is shown yet.
Start ==
  /\ run = "off" /\ starts < MaxStarts /\ starts' = starts + 1
  /\ run' = "load" /\ proxy' = config
  /\ shown' = {} /\ dirty' = {} /\ changes' = FALSE /\ timer' = FALSE /\ busy' = FALSE
  /\ clean' = TRUE
  /\ UNCHANGED <<pos, allowed, rows, stored, config, moves, errors>>

\* DB_LoadNodes: what is in all three tables, and the nodes of the cache that the REST
\* database has and the tables do not.  The inner joins hide a node without a position.
InDb   == {n \in rows : stored[n] # NoPos}
DB_LoadNodes == InDb \cup (Json \cap rows)

\* Where a node is put: at its row's position; one of the cache keeps the cache's.
DB_CreateNodeInfo(n) == IF n \in InDb THEN stored[n] ELSE pos[n]

\* loadNodesFromDb and restoreNodesState, half a second later: a node that joined
\* meanwhile stays as it is.  A setter of the scene does not mark a node.
loadNodesFromDb ==
  /\ run = "load" /\ run' = "on"
  /\ shown' = shown \cup DB_LoadNodes
  /\ pos' = [n \in DbNodes |-> IF n \in DB_LoadNodes \ shown THEN DB_CreateNodeInfo(n) ELSE pos[n]]
  /\ changes' = FALSE
  /\ UNCHANGED <<dirty, timer, busy, allowed, rows, stored, proxy, config, moves, errors, starts, clean>>

----------------------------------------------------------------------------
(* Changes.                                                                *)
queueSaveNodesState == changes' = TRUE /\ timer' = TRUE

\* zmgNode::itemChange marks the node, the message of the GUI starts the timer.
Moved(n) ==
  /\ run = "on" /\ n \in shown /\ moves < MaxMoves /\ moves' = moves + 1
  /\ pos' = [pos EXCEPT ![n] = moves + 1] /\ dirty' = dirty \cup {n}
  /\ queueSaveNodesState
  /\ UNCHANGED <<run, shown, busy, allowed, rows, stored, proxy, config, errors, starts, clean>>

\* createNode (module NodeTable), also before the nodes are loaded.
Created(n) ==
  /\ run \in {"load", "on"} /\ n \notin shown /\ shown' = shown \cup {n}
  /\ dirty' = dirty \cup {n} /\ queueSaveNodesState
  /\ UNCHANGED <<run, pos, busy, allowed, rows, stored, proxy, config, moves, errors, starts, clean>>

\* A new address or descriptor starts the timer and marks nothing.
Described ==
  /\ run = "on" /\ shown # {} /\ ~(changes /\ timer) /\ queueSaveNodesState
  /\ UNCHANGED <<run, shown, pos, dirty, busy, allowed, rows, stored, proxy, config, moves, errors, starts, clean>>

\* setParameter(ParamHttpProxy) and DB_StoreConfigValue, which refuses the empty value.
SetProxy(p) ==
  /\ run = "on" /\ p # proxy /\ moves < MaxMoves /\ moves' = moves + 1
  /\ proxy' = p
  /\ config' = IF p = NoProxy THEN config ELSE p
  /\ UNCHANGED <<run, shown, pos, dirty, changes, timer, busy, allowed, rows, stored, errors, starts, clean>>

----------------------------------------------------------------------------
(* saveNodesState of the nodes todo, if a change is due and no update over *)
(* the air (ota) goes on.  f says what fails: a node's row, or a step.     *)
Failures == {"no", "open", "begin", "commit"} \cup DbNodes

\* The nodes come in any order; those before the one that fails are written, in the
\* transaction that is committed all the same.  A node that is not in the table
\* devices is not written and yet is marked as saved.
Write(todo, done, f) ==
  /\ stored' = IF f \in {"begin", "commit"} THEN stored
               ELSE [n \in DbNodes |-> IF n \in done \cap rows THEN pos[n] ELSE stored[n]]
  /\ dirty' = IF f = "begin" THEN todo ELSE todo \ done
Written(todo, f) ==
  \E done \in SUBSET todo :
    /\ IF f \in DbNodes THEN f \in todo \ done ELSE done = todo
    /\ Write(todo, done, f)
    /\ changes' = FALSE /\ timer' = FALSE
\* Mutant: a refused save is not tried again.
SaveOnce(todo, due, ota, f) ==
  IF due /\ allowed /\ ~ota /\ f # "open" THEN Written(todo, f)
  ELSE /\ changes' = FALSE /\ timer' = FALSE /\ dirty' = todo /\ UNCHANGED stored
Save(todo, due, ota, f) ==
  IF ~due THEN f = "no" /\ dirty' = todo /\ timer' = FALSE /\ UNCHANGED <<stored, changes>>
  ELSE IF ~allowed \/ ota \/ f = "open"
  THEN /\ ~allowed \/ ota => f = "no"
       /\ queueSaveNodesState /\ dirty' = todo /\ UNCHANGED stored
  ELSE Written(todo, f)

Fails(f) ==
  /\ f # "no" => errors < MaxErrors
  /\ errors' = IF f = "no" THEN errors ELSE errors + 1
  /\ clean' = (clean /\ f = "no")

\* saveNodesState, when the timer has elapsed.
saveNodesState ==
  /\ run \in {"load", "on"} /\ timer
  /\ \E f \in Failures : Fails(f) /\ Save(dirty, changes, busy, f)
  /\ UNCHANGED <<run, shown, pos, busy, allowed, rows, proxy, config, moves, starts>>

\* Mutant: the last save writes those that are marked.
MarkedOnQuit == dirty
\* The last save writes all nodes.
ForcedOnQuit == shown

\* appAboutToQuit: the timer is stopped, an update over the air is no obstacle.
appAboutToQuit ==
  /\ run = "on" /\ run' = "quit"
  /\ \E f \in Failures : Fails(f) /\ Save(ForcedOnQuit, TRUE, FALSE, f)
  /\ busy' = FALSE
  /\ UNCHANGED <<shown, pos, allowed, rows, proxy, config, moves, starts>>

Ends ==
  /\ run = "quit" /\ run' = "off"
  /\ UNCHANGED <<shown, pos, dirty, changes, timer, busy, allowed, rows, stored, proxy, config,
                 moves, errors, starts, clean>>
Crash ==
  /\ run \in {"load", "on"} /\ starts < MaxStarts /\ run' = "off"
  /\ UNCHANGED <<shown, pos, dirty, changes, timer, busy, allowed, rows, stored, proxy, config,
                 moves, errors, starts, clean>>

----------------------------------------------------------------------------
(* The others: the plugin refuses and allows, adds a device; updates over  *)
(* the air begin and end.                                                  *)
Refuses ==
  /\ allowed /\ errors < MaxErrors /\ errors' = errors + 1 /\ allowed' = FALSE
  /\ UNCHANGED <<run, shown, pos, dirty, changes, timer, busy, rows, stored, proxy, config, moves, starts, clean>>
Allows ==
  /\ ~allowed /\ allowed' = TRUE
  /\ UNCHANGED <<run, shown, pos, dirty, changes, timer, busy, rows, stored, proxy, config, moves, errors, starts, clean>>
RowAdded(n) ==
  /\ n \in shown \ rows /\ run = "on" /\ rows' = rows \cup {n}
  /\ UNCHANGED <<run, shown, pos, dirty, changes, timer, busy, allowed, stored, proxy, config, moves, errors, starts, clean>>
OtaBegins ==
  /\ run = "on" /\ ~busy /\ errors < MaxErrors /\ errors' = errors + 1 /\ busy' = TRUE
  /\ UNCHANGED <<run, shown, pos, dirty, changes, timer, allowed, rows, stored, proxy, config, moves, starts, clean>>
OtaEnds ==
  /\ busy /\ busy' = FALSE
  /\ UNCHANGED <<run, shown, pos, dirty, changes, timer, allowed, rows, stored, proxy, config, moves, errors, starts, clean>>

Next ==
  \/ Start \/ loadNodesFromDb \/ Described \/ saveNodesState \/ appAboutToQuit \/ Ends \/ Crash
  \/ Refuses \/ Allows \/ OtaBegins \/ OtaEnds
  \/ \E n \in DbNodes : Moved(n) \/ Created(n) \/ RowAdded(n)
  \/ \E p \in Proxies : SetProxy(p)

Spec == Init /\ [][Next]_storeVars

----------------------------------------------------------------------------
StoreTypeOK ==
  /\ run \in {"off", "load", "on", "quit"} /\ dirty \subseteq shown
  /\ shown \subseteq DbNodes /\ rows \subseteq DbNodes

(* When the program ended in order and the plugin let it save, without an  *)
(* error of the database, every node it shows and the plugin knows is in   *)
(* the database where the user left it: also one whose row came after its  *)
(* mark was cleared.  While it runs, a change that is due has its timer.   *)
StoreSafe ==
  /\ StoreTypeOK
  /\ run = "quit" /\ clean /\ ~changes => \A n \in shown \cap rows : stored[n] = pos[n]
  /\ run = "on" /\ changes => timer

(* What the user moved, and the plugin knows, is stored at last, however   *)
(* often the plugin refuses and whatever updates are sent, if nothing      *)
(* fails and the program goes on.                                          *)
Unsaved(n) == run = "on" /\ clean /\ changes /\ n \in dirty \cap rows
StoreLive == \A n \in DbNodes : Unsaved(n) ~> (stored[n] = pos[n] \/ ~clean \/ run # "on")
=============================================================================
