------------------------------ MODULE VfsModel ------------------------------
(***************************************************************************)
(* The tree of actors, directories and values in the user interface:       *)
(* ActorVfsModel of actor_vfs_model.cpp, and the actor core/aps of         *)
(* zm_controller.cpp that answers it.  The model asks for directories in   *)
(* pages and for values one by one, with a timer for the answer, and looks *)
(* again at what the actor says has changed.                               *)
(*                                                                         *)
(* An entry is its path, a sequence that begins with the actor.  Entries   *)
(* never leave the tree, so a path stands for the index of the code.  The  *)
(* actor "rest" is a plugin that is not there.  Messages between two       *)
(* actors arrive in the order they were sent.                              *)
(***************************************************************************)
EXTENDS Integers, Sequences, SequencesExt, FiniteSets, FiniteSetsExt

CONSTANTS VfsNodes,        \* the nodes there may be
          FirstNodes,      \* those m_nodes begins with, in order
          Page,            \* 16: the directories in an answer
          MaxTries,        \* 3
          MaxChanges,      \* bound: nodes that come, go and change
          MaxVfsFaults     \* bound: messages lost or late, requests not sent

\* MAC addresses in m_nodes differ, as NodeTable has it.
ASSUME VfsAssumption ==
  /\ FirstNodes \in Seq(VfsNodes) /\ IsInjective(FirstNodes)
  /\ Page \in Nat \ {0} /\ MaxTries \in Nat \ {0}

VARIABLES tree,            \* priv->entries
          values,          \* the value of each entry that has one, or NoValue
          opened,          \* directories a view has asked for
          dirs, vals,      \* dirFetchers, entryFetchers
          fetchTimer,      \* it runs
          asks, mail,      \* messages to core/aps and from it
          nodeTable, nodeState,  \* m_nodes, the state of each node
          told,            \* the nodes the actor told of, or began with
          missed,          \* history: a directory of core/aps was given up, or the list
                           \* of nodes got shorter between two pages
          vfsChanges, vfsFaults  \* bounds

vfsVars == <<tree, values, opened, dirs, vals, fetchTimer, asks, mail, nodeTable, nodeState, told,
             missed, vfsChanges, vfsFaults>>

NoValue == -1
DeviceDir == <<"aps", "devices">>
DotActor == <<"aps", ".actor">>
NodeDir(n)   == Append(DeviceDir, n)
NodeValue(n) == Append(NodeDir(n), "state")
IsDir(p) == p \notin {<<"aps", ".actor", "name">>} \cup {NodeValue(n) : n \in VfsNodes}
Paths == {<<"aps">>, <<"rest">>, DeviceDir, DotActor, <<"aps", ".actor", "name">>}
         \cup {NodeDir(n) : n \in VfsNodes} \cup {NodeValue(n) : n \in VfsNodes}

DirFetcher(p, i) == [path |-> p, index |-> i, state |-> "start", tries |-> 0, tag |-> 0]
ValueFetcher(p)  == [path |-> p, state |-> "start", tries |-> 0, tag |-> 0]

\* The constructor: the first of the actors is asked at once.
VfsInit ==
  /\ tree = {<<"aps">>, <<"rest">>} /\ values = [p \in Paths |-> NoValue] /\ opened = {}
  /\ dirs = <<[DirFetcher(<<"aps">>, 0) EXCEPT !.state = "wait", !.tag = 1], DirFetcher(<<"rest">>, 0)>>
  /\ vals = <<>> /\ fetchTimer = TRUE
  /\ asks = <<[kind |-> "list", path |-> <<"aps">>, index |-> 0, tag |-> 1]>> /\ mail = <<>>
  /\ nodeTable = FirstNodes /\ nodeState = [n \in VfsNodes |-> 0] /\ told = ToSet(FirstNodes)
  /\ missed = FALSE /\ vfsChanges = 0 /\ vfsFaults = 0

----------------------------------------------------------------------------
(* core/aps.                                                               *)

\* CoreAps_ListDirectoryRequest: the names in a directory, none if there is none.
Names(p) == CASE p = <<"aps">> -> <<".actor", "devices">>
              [] p = DotActor  -> <<"name">>
              [] p = DeviceDir -> nodeTable
              [] OTHER -> IF p \in {NodeDir(n) : n \in ToSet(nodeTable)} THEN <<"state">> ELSE <<>>
\* Nodes are listed in pages; a page that is full has one after it.
ListAnswer(r) ==
  LET all  == Names(r.path)
      full == r.path = DeviceDir /\ Len(all) - r.index >= Page
  IN  [kind |-> "list", path |-> r.path, tag |-> r.tag,
       ok |-> r.path = DeviceDir \/ (all # <<>> /\ r.index = 0),
       next |-> IF full THEN r.index + Page ELSE 0,
       names |-> IF full THEN SubSeq(all, r.index + 1, r.index + Page) ELSE SubSeq(all, r.index + 1, Len(all))]

\* CoreAps_ReadEntryRequest: the value, or NOT_FOUND.
ReadAnswer(r) ==
  LET n == {m \in ToSet(nodeTable) : NodeValue(m) = r.path}
  IN  [kind |-> "read", path |-> r.path, tag |-> r.tag,
       ok |-> n # {} \/ r.path = <<"aps", ".actor", "name">>,
       value |-> IF n = {} THEN 0 ELSE nodeState[CHOOSE m \in n : TRUE]]

\* The actor answers, the plugin that is not there does not; or the answer cannot be sent.
CoreAnswers ==
  /\ asks # <<>> /\ asks' = Tail(asks)
  /\ LET r == Head(asks)
         a == IF r.kind = "list" THEN ListAnswer(r) ELSE ReadAnswer(r)
     IN  \/ r.path[1] = "aps" /\ mail' = Append(mail, a) /\ UNCHANGED vfsFaults
         \/ r.path[1] = "rest" /\ UNCHANGED <<mail, vfsFaults>>
         \/ /\ r.path[1] = "aps" /\ vfsFaults < MaxVfsFaults /\ vfsFaults' = vfsFaults + 1
            /\ UNCHANGED mail
  /\ UNCHANGED <<tree, values, opened, dirs, vals, fetchTimer, nodeTable, nodeState, told, missed, vfsChanges>>

\* CoreNode_NotifyDeviceChanged
Notice(n) == mail' = Append(mail, [kind |-> "ntfy", path |-> NodeValue(n)])

\* A node is made without a word.  It is heard of when its state changes.
NodeCreated(n) ==
  /\ n \notin ToSet(nodeTable) /\ vfsChanges < MaxChanges /\ vfsChanges' = vfsChanges + 1
  /\ nodeTable' = Append(nodeTable, n)
  /\ UNCHANGED <<tree, values, opened, dirs, vals, fetchTimer, asks, mail, nodeState, told, missed, vfsFaults>>
NodeChanges(n) ==
  /\ n \in ToSet(nodeTable) /\ vfsChanges < MaxChanges /\ vfsChanges' = vfsChanges + 1
  /\ nodeState' = [nodeState EXCEPT ![n] = 1 - @] /\ told' = told \cup {n}
  /\ Notice(n)
  /\ UNCHANGED <<tree, values, opened, dirs, vals, fetchTimer, asks, nodeTable, missed, vfsFaults>>
NodeDeleted(n) ==
  /\ n \in ToSet(nodeTable) /\ vfsChanges < MaxChanges /\ vfsChanges' = vfsChanges + 1
  /\ nodeTable' = RemoveAt(nodeTable, CHOOSE k \in DOMAIN nodeTable : nodeTable[k] = n)
  /\ told' = told \ {n}
  /\ missed' = (missed \/ \E k \in DOMAIN dirs : dirs[k].path = DeviceDir)
  /\ UNCHANGED <<tree, values, opened, dirs, vals, fetchTimer, asks, mail, nodeState, vfsFaults>>

----------------------------------------------------------------------------
(* Fetching.                                                               *)

\* allocTag: a number no fetcher and no message has (65536 are enough).
TagsOf(s) == {s[k].tag : k \in {j \in DOMAIN s : "tag" \in DOMAIN s[j]}}
FreshTag == Min((1 .. Len(dirs) + Len(vals) + Len(asks) + Len(mail) + 1)
                 \ (TagsOf(dirs) \cup TagsOf(vals) \cup TagsOf(asks) \cup TagsOf(mail)))

\* continueFetching with the fetchers ds and vs: the first of the directories, or else
\* of the values, is asked for, unless it waits already.  A request that cannot be made
\* leaves its fetcher as it is, one that cannot be sent with a tag that nothing has, both
\* with no timer; that is a fault, and cost are those before.
ContinueFetching(ds, vs, runs, cost) ==
  LET idle == (ds = <<>> /\ vs = <<>>) \/ (ds # <<>> /\ ds[1].state = "wait")
              \/ (ds = <<>> /\ vs # <<>> /\ vs[1].state = "wait")
      t == FreshTag
  IN  \/ /\ idle
         /\ dirs' = ds /\ vals' = vs /\ fetchTimer' = runs
         /\ vfsFaults' = vfsFaults + cost /\ UNCHANGED asks
      \/ /\ ~idle /\ ds # <<>>
         /\ dirs' = [ds EXCEPT ![1].state = "wait", ![1].tag = t] /\ vals' = vs
         /\ asks' = Append(asks, [kind |-> "list", path |-> ds[1].path, index |-> ds[1].index, tag |-> t])
         /\ fetchTimer' = TRUE /\ vfsFaults' = vfsFaults + cost
      \/ /\ ~idle /\ ds = <<>>
         /\ vals' = [vs EXCEPT ![1].state = "wait", ![1].tag = t, ![1].tries = 0] /\ dirs' = ds
         /\ asks' = Append(asks, [kind |-> "read", path |-> vs[1].path, index |-> 0, tag |-> t])
         /\ fetchTimer' = TRUE /\ vfsFaults' = vfsFaults + cost
      \/ /\ ~idle /\ vfsFaults + cost < MaxVfsFaults /\ vfsFaults' = vfsFaults + cost + 1
         /\ \/ dirs' = ds /\ vals' = vs
            \/ ds # <<>> /\ dirs' = [ds EXCEPT ![1].tag = t] /\ vals' = vs
            \/ ds = <<>> /\ vals' = [vs EXCEPT ![1].tag = t, ![1].tries = 0] /\ dirs' = ds
         /\ fetchTimer' = runs /\ UNCHANGED asks

\* A fetcher is taken out: the last one takes its place.
Removed(s, k) == IF k = Len(s) THEN Front(s) ELSE Front([s EXCEPT ![k] = Last(s)])

\* Mutant: an entry that waits is added again.
AddAnyValue(vs, p) == Append(vs, ValueFetcher(p))
\* addEntryToValueFetchers
AddValue(vs, p) == IF \E k \in DOMAIN vs : vs[k].path = p THEN vs ELSE Append(vs, ValueFetcher(p))

\* What an answer makes of the tree and the fetchers: a value that is known is read again;
\* a new directory is listed, .actor by addEntryToParent and once more by its caller.
Again(x, p) == IF p \in x.tree /\ ~IsDir(p) THEN [x EXCEPT !.vals = AddValue(@, p)] ELSE x
AddEntry(x, p) ==
  IF p \in x.tree THEN x
  ELSE IF ~IsDir(p) THEN [x EXCEPT !.tree = @ \cup {p}, !.vals = AddValue(@, p)]
  ELSE IF p = DotActor
  THEN [x EXCEPT !.tree = @ \cup {p}, !.dirs = Append(Append(@, DirFetcher(p, 0)), DirFetcher(p, 0))]
  ELSE [x EXCEPT !.tree = @ \cup {p}, !.dirs = Append(@, DirFetcher(p, 0))]
\* The names in p, from x on: all of them for what is known, then all for what is new.
Added(x, p, names) ==
  LET n == Len(names)
      upTo[k \in 0 .. 2 * n] == IF k = 0 THEN x
                               ELSE IF k <= n THEN Again(upTo[k - 1], Append(p, names[k]))
                               ELSE AddEntry(upTo[k - 1], Append(p, names[k - n]))
  IN  upTo[2 * n]

\* listDirectoryResponse with the names of one page of the directory that waits for it.
ListRsp(m) ==
  LET k    == CHOOSE j \in DOMAIN dirs : dirs[j].tag = m.tag /\ dirs[j].state = "wait"
      left == Removed(dirs, k)
      x    == Added([tree |-> tree, dirs |-> left, vals |-> vals], dirs[k].path, m.names)
      more == [dirs[k] EXCEPT !.state = "start", !.index = m.next, !.tries = 0]
  IN  IF ~\E j \in DOMAIN dirs : dirs[j].tag = m.tag /\ dirs[j].state = "wait"
      THEN ContinueFetching(dirs, vals, fetchTimer, 0) /\ UNCHANGED tree
      ELSE IF ~m.ok THEN ContinueFetching(left, vals, FALSE, 0) /\ UNCHANGED tree
      ELSE /\ tree' = x.tree
           /\ ContinueFetching(IF m.next = 0 THEN x.dirs ELSE Append(x.dirs, more), x.vals, FALSE, 0)

\* readEntryResponse; an answer to a fetcher that timed out and was not sent again counts.
ReadRsp(m) ==
  LET k == CHOOSE j \in DOMAIN vals : vals[j].tag = m.tag
  IN  IF ~\E j \in DOMAIN vals : vals[j].tag = m.tag
      THEN ContinueFetching(dirs, vals, fetchTimer, 0) /\ UNCHANGED values
      ELSE /\ values' = IF m.ok THEN [values EXCEPT ![vals[k].path] = m.value] ELSE values
           /\ ContinueFetching(dirs, Removed(vals, k), fetchTimer /\ vals[k].state # "wait", 0)

\* changedNotify: a value that is known is read, else the last directory on its path is
\* listed, unless it is being listed.
Above(p) == {SubSeq(p, 1, i) : i \in DOMAIN p}
LastKnown(p) == CHOOSE q \in Above(p) \cap tree : \A r \in Above(p) \cap tree : Len(r) <= Len(q)
\* Mutant: a value that is known is not read again.
ChangedKnown(m) ==
  LET q == LastKnown(m.path)
  IN  /\ ContinueFetching(IF m.path \in tree \/ \E k \in DOMAIN dirs : dirs[k].path = q THEN dirs
                          ELSE Append(dirs, DirFetcher(q, 0)), vals, fetchTimer, 0)
      /\ UNCHANGED opened
Changed(m) ==
  LET q == LastKnown(m.path)
      listed == \E k \in DOMAIN dirs : dirs[k].path = q
  IN  IF m.path \in tree THEN ContinueFetching(dirs, AddValue(vals, m.path), fetchTimer, 0) /\ UNCHANGED opened
      ELSE IF listed THEN ContinueFetching(dirs, vals, fetchTimer, 0) /\ UNCHANGED opened
      ELSE /\ opened' = IF Len(q) > 1 THEN opened \cup {q} ELSE opened
           /\ ContinueFetching(Append(dirs, DirFetcher(q, 0)), vals, fetchTimer, 0)

\* One message from the actor.
VfsModel_MessageCallback ==
  /\ mail # <<>> /\ mail' = Tail(mail)
  /\ LET m == Head(mail)
     IN  \/ m.kind = "list" /\ ListRsp(m) /\ UNCHANGED <<values, opened>>
         \/ m.kind = "read" /\ ReadRsp(m) /\ UNCHANGED <<tree, opened>>
         \/ m.kind = "ntfy" /\ Changed(m) /\ UNCHANGED <<tree, values>>
  /\ UNCHANGED <<nodeTable, nodeState, told, missed, vfsChanges>>

\* Somewhere is a request or an answer with the tag.
UnderWay(t) == \/ \E k \in DOMAIN asks : asks[k].tag = t /\ asks[k].path[1] = "aps"
               \/ \E k \in DOMAIN mail : mail[k].kind # "ntfy" /\ mail[k].tag = t

\* fetchTimerFired: the first fetcher tries again, a directory MaxTries times in all and
\* a value for ever, for each request resets its count.  That the timer fires while the
\* answer is under way is a fault.
Tried(f) == [f EXCEPT !.state = "start", !.tries = @ + 1]
Early(f) == IF UnderWay(f.tag) THEN 1 ELSE 0
fetchTimerFired ==
  /\ fetchTimer
  /\ \/ /\ dirs # <<>> /\ dirs[1].state = "wait" /\ vfsFaults + Early(dirs[1]) <= MaxVfsFaults
        /\ LET over == dirs[1].tries + 1 = MaxTries
           IN  /\ ContinueFetching(IF over THEN Removed(dirs, 1) ELSE [dirs EXCEPT ![1] = Tried(@)],
                                   vals, FALSE, Early(dirs[1]))
               /\ missed' = (missed \/ (over /\ dirs[1].path[1] = "aps"))
     \/ /\ dirs = <<>> /\ vals # <<>> /\ vals[1].state = "wait" /\ vfsFaults + Early(vals[1]) <= MaxVfsFaults
        /\ ContinueFetching(dirs, [vals EXCEPT ![1] = Tried(@)], FALSE, Early(vals[1])) /\ UNCHANGED missed
     \/ /\ \/ dirs # <<>> /\ dirs[1].state = "start"
           \/ dirs = <<>> /\ (vals = <<>> \/ vals[1].state = "start")
        /\ fetchTimer' = FALSE /\ UNCHANGED <<dirs, vals, asks, missed, vfsFaults>>
  /\ UNCHANGED <<tree, values, opened, mail, nodeTable, nodeState, told, vfsChanges>>

\* canFetchMore and fetchMore: a view opens a directory for the first time.
fetchMore(p) ==
  /\ p \in tree /\ IsDir(p) /\ Len(p) > 1 /\ p \notin opened
  /\ ~\E k \in DOMAIN dirs : dirs[k].path = p
  /\ opened' = opened \cup {p}
  /\ ContinueFetching(Append(dirs, DirFetcher(p, 0)), vals, fetchTimer, 0)
  /\ UNCHANGED <<tree, values, mail, nodeTable, nodeState, told, missed, vfsChanges>>

VfsNext ==
  \/ CoreAnswers
  \/ \E n \in VfsNodes : NodeCreated(n) \/ NodeChanges(n) \/ NodeDeleted(n)
  \/ VfsModel_MessageCallback
  \/ fetchTimerFired
  \/ \E p \in Paths : fetchMore(p)

VfsSpec == VfsInit /\ [][VfsNext]_vfsVars

----------------------------------------------------------------------------

\* The types; the bounds on the lists are those of the model.
VfsTypeOK ==
  /\ tree \subseteq Paths /\ opened \subseteq Paths /\ values \in [Paths -> {NoValue, 0, 1}]
  /\ fetchTimer \in BOOLEAN /\ missed \in BOOLEAN /\ told \subseteq ToSet(nodeTable)
  /\ \A k \in DOMAIN dirs : dirs[k].path \in tree /\ dirs[k].tries < MaxTries
  /\ \A k \in DOMAIN vals : vals[k].path \in tree /\ vals[k].tries < 2

\* Whatever waits for an answer is first, or the first of the values behind a directory
\* that came later: fetching is one request at a time, though nothing in a response says
\* so and .actor is listed twice.  A value has one fetcher, and another directory than
\* .actor one; a value that was read is in the tree.  An answer, be it late or to a request
\* that was made again, is about the entry of the fetcher that has its tag.
VfsSafe ==
  /\ VfsTypeOK
  /\ \A k \in DOMAIN dirs : dirs[k].state = "wait" => k = 1
  /\ \A k \in DOMAIN vals : vals[k].state = "wait" => k = 1
  /\ \A j, k \in DOMAIN vals : vals[j].path = vals[k].path => j = k
  /\ \A j, k \in DOMAIN dirs : dirs[j].path = dirs[k].path /\ dirs[j].path # DotActor => j = k
  /\ \A p \in Paths : values[p] # NoValue => p \in tree
  /\ \A i \in DOMAIN mail :
       /\ mail[i].kind = "list" =>
            \A k \in DOMAIN dirs : dirs[k].tag = mail[i].tag => dirs[k].path = mail[i].path
       /\ mail[i].kind = "read" =>
            \A k \in DOMAIN vals : vals[k].tag = mail[i].tag => vals[k].path = mail[i].path

\* Fetching goes on with no timer and no answer to come.
Stalled == /\ ~fetchTimer /\ (dirs # <<>> \/ vals # <<>>)
           /\ \A k \in DOMAIN asks : asks[k].path[1] # "aps"
           /\ mail = <<>>
\* What the actor told of is shown as it is.
Shown == \A n \in told : NodeDir(n) \in tree /\ NodeValue(n) \in tree /\ values[NodeValue(n)] = nodeState[n]
Settled == dirs = <<>> /\ vals = <<>> /\ (missed \/ Shown)

\* Notices of changes race with pages and values under way, and with retries: in the end
\* nothing is left to fetch and the tree shows every node the actor told of with its last
\* state, unless a directory was given up or a page was skipped; or, after a request that
\* could not be sent or an answer that was lost or late, fetching stalls.
ShownOrStalled == Settled \/ (Stalled /\ vfsFaults > 0)
VfsLive == <>[]ShownOrStalled
=============================================================================
