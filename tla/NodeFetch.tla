------------------------------ MODULE NodeFetch ------------------------------
(***************************************************************************)
(* How zmController learns what its nodes are: fetchZdpTick asks one node  *)
(* per tick for a node descriptor, active endpoints or simple descriptors, *)
(* first for the nodes in m_fastDiscover, then for every node in turn by   *)
(* the fetch items of zmNode; the answers and confirms come back in any    *)
(* order, late, or not at all.                                             *)
(*                                                                         *)
(* Only ZDP requests of these three kinds are in the queue; others says    *)
(* what the rest of it leaves room for.  A request is "sent" until its     *)
(* confirm and "confirmed" until it is answered or times out; "cleared"    *)
(* when its node became a zombie.  Times are events: a wait that ends (and *)
(* is over at once, not at the next checkWaitState), a node not heard of   *)
(* for ten minutes, a fast discover entry that is three minutes old.       *)
(* Left out: the queries of neighbor tables, and the request to rejoin for *)
(* the devices of one maker.                                               *)
(***************************************************************************)
EXTENDS Integers, Sequences, SequencesExt, FiniteSets, FiniteSetsExt

CONSTANTS Order,          \* the nodes in the order of m_nodes
          RxOn,           \* those that receive when idle
          EndNodes,       \* those that are end devices
          Maker115F,      \* those of manufacturer 115F ...
          AllEndpoints,   \* ... which list no more endpoints when this many are known (3)
          De,             \* those with a MAC address of the vendor itself
          Listed,         \* the endpoints a node lists ...
          Active,         \* ... and those it describes when asked
          ReqId,          \* the number of each fetch item in enum RequestId
          MaxApsRequestsZdp, MaxRetrys,
          PermitJoin,     \* the network is open for new devices
          MaxFetchFaults  \* bound: lost frames, refused requests, errors

Nodes == ToSet(Order)
\* zmMaster's own node is in m_nodes from the start.
ASSUME FetchAssumption ==
  /\ Order # <<>> /\ Order \in Seq(Nodes) /\ RxOn \subseteq Nodes
  /\ AllEndpoints \in Nat /\ MaxApsRequestsZdp \in Nat /\ MaxRetrys \in Nat /\ MaxRetrys >= 2

Items == {"IeeeAddr", "NodeDescriptor", "ActiveEndpoints", "SimpleDescriptor"}

VARIABLES fast,           \* m_fastDiscover
          fetchCur,       \* m_fetchCurNode
          zdp,            \* the ZDP requests in m_apsRequestQueue
          air,            \* answers on their way
          desc, eps, sds, \* a node's descriptor, endpoints, simple descriptors
          feps,           \* m_fetchEndpoints
          item,           \* m_fcurItem
          fetched, retries, depend,  \* FetchInfo
          wait,           \* m_state: the node is in a wait state
          seen,           \* last seen within ten minutes
          zombie,         \* m_isZombie
          others,         \* other requests: "few"; "busy", more than MaxApsBusyRequests
                          \* are; "full", zmMaster has no slot for one more or no network
          faults          \* bound

nodeVars  == <<desc, eps, sds, feps, item, fetched, retries, depend, wait, seen, zombie>>
fetchVars == <<fast, fetchCur, zdp, air, others, faults, nodeVars>>

----------------------------------------------------------------------------
(* zmNode.                                                                 *)

\* The order in which nextCurFetchItem finds the enabled items.
nextCurFetchItem(i) == CASE i \in {"Unknown", "IeeeAddr"} -> "NodeDescriptor"
                         [] i = "NodeDescriptor"   -> "ActiveEndpoints"
                         [] i = "ActiveEndpoints"  -> "SimpleDescriptor"
                         [] i = "SimpleDescriptor" -> "Unknown"

\* getNextUnfetchedEndpoint: an endpoint without a simple descriptor, or the
\* last of those to fetch again, or none (-1).
getNextUnfetchedEndpoint(n) ==
  IF eps[n] \ sds[n] # {} THEN Min(eps[n] \ sds[n])
  ELSE IF feps[n] # <<>> THEN Last(feps[n]) ELSE -1

\* removeFetchEndpoint(ep) drops the last entry whenever ep is in the list: the
\* loop assigns to a copy.  255 drops the last one.
removeFetchEndpoint(s, ep) == IF s # <<>> /\ (ep = 255 \/ ep \in ToSet(s)) THEN Front(s) ELSE s

\* FetchInfo::removeDependency: the bits of the id are cleared, not bit id.
Bits(id) == {b \in 0 .. 15 : (id \div 2^b) % 2 = 1}

\* needFetch: again is whether the wait after the last retry is over.
Enabled(n, i)  == i \in Items \ {"IeeeAddr"} /\ (i = "SimpleDescriptor" => depend[n] = {})
Exhausted(n, i, again) == retries[n][i] >= MaxRetrys /\ ~again
needFetch(n, i, again) ==
  /\ Enabled(n, i) /\ ~Exhausted(n, i, again)
  /\ CASE i = "NodeDescriptor"   -> ~desc[n] \/ ~fetched[n][i]
       [] i = "ActiveEndpoints"  -> ~fetched[n][i] \/ (n \notin EndNodes /\ eps[n] = {})
       [] i = "SimpleDescriptor" -> \/ ~fetched[n][i]
                                    \/ Cardinality(eps[n]) # Cardinality(sds[n])
                                    \/ feps[n] # <<>>
retriesAfter(r, n, i, again) ==
  IF Enabled(n, i) /\ r[n][i] >= MaxRetrys /\ again THEN [r EXCEPT ![n][i] = 0] ELSE r
Incr(r, n, i) == IF i = "Unknown" \/ r[n][i] = MaxRetrys THEN r ELSE [r EXCEPT ![n][i] = @ + 1]

\* setFetched(i, TRUE) and setFetched(i, FALSE); the latter puts the known simple
\* descriptors, here s, on the list of those to fetch.
Fetched(n, i) ==
  /\ fetched' = [fetched EXCEPT ![n][i] = TRUE]
  /\ retries' = [retries EXCEPT ![n][i] = 0]
  /\ depend' = [depend EXCEPT ![n] = @ \ Bits(ReqId[i])]
AddAll(s, set) == s \o SetToSortSeq(set \ ToSet(s), <)

FetchInit ==
  /\ fast = <<>> /\ fetchCur = 0 /\ zdp = <<>> /\ air = {} /\ faults = 0
  /\ desc = [n \in Nodes |-> FALSE]
  /\ eps = [n \in Nodes |-> {}] /\ sds = [n \in Nodes |-> {}] /\ feps = [n \in Nodes |-> <<>>]
  /\ item = [n \in Nodes |-> "IeeeAddr"]
  /\ fetched = [n \in Nodes |-> [i \in Items |-> FALSE]]
  /\ retries = [n \in Nodes |-> [i \in Items |-> 0]]
  /\ depend = [n \in Nodes |-> {ReqId["ActiveEndpoints"]}]
  /\ wait = [n \in Nodes |-> FALSE] /\ seen = [n \in Nodes |-> FALSE]
  /\ zombie = [n \in Nodes |-> FALSE] /\ others = "few"

----------------------------------------------------------------------------
(* m_fastDiscover.                                                         *)

\* Mutant: the list is not searched for the node.
fastPropeTwice(f, n) ==
  IF n \notin RxOn THEN f ELSE Append(f, [node |-> n, errors |-> 0, done |-> FALSE, old |-> FALSE])
\* fastPrope: a new entry, or an old one without its errors.
fastPrope(f, n) ==
  IF n \notin RxOn THEN f
  ELSE IF \E k \in DOMAIN f : f[k].node = n
  THEN [k \in DOMAIN f |-> IF f[k].node = n THEN [f[k] EXCEPT !.errors = 0] ELSE f[k]]
  ELSE Append(f, [node |-> n, errors |-> 0, done |-> FALSE, old |-> FALSE])

\* The entry fetchZdpTick works on: the first without too many errors; 0 is none.
Picked == LET ok == {k \in DOMAIN fast : fast[k].errors <= 2} IN IF ok = {} THEN 0 ELSE Min(ok)

\* What is still missing of a node in the order it is asked for.  After three
\* minutes an entry asks for nothing any more.
FastItem(k) ==
  LET n == fast[k].node
  IN CASE fast[k].old -> "Done"
       [] ~fast[k].old /\ ~desc[n] -> "NodeDescriptor"
       [] ~fast[k].old /\ desc[n] /\ eps[n] = {} -> "ActiveEndpoints"
       [] ~fast[k].old /\ desc[n] /\ eps[n] # {} /\ (sds[n] = {} \/ Cardinality(eps[n]) # Cardinality(sds[n]))
            -> "SimpleDescriptor"
       [] OTHER -> "Done"

HeadDone == fast # <<>> /\ Head(fast).done

\* Mutant: the last entry is lost, the first stays.
FinishFastLast ==
  /\ others # "full" /\ HeadDone
  /\ fast' = IF Len(fast) > 1 THEN Front(fast) ELSE <<>>
  /\ UNCHANGED <<fetchCur, zdp, air, others, faults, nodeVars>>
\* A tick removes the first entry when it is done; the last takes its place.
FinishFast ==
  /\ others # "full" /\ HeadDone
  /\ fast' = IF Len(fast) > 1 THEN Front([fast EXCEPT ![1] = Last(fast)]) ELSE <<>>
  /\ UNCHANGED <<fetchCur, zdp, air, others, faults, nodeVars>>

\* A tick that finds nothing missing marks the entry and does nothing else.
MarkDone ==
  /\ others # "full" /\ ~HeadDone /\ Picked # 0 /\ FastItem(Picked) = "Done"
  /\ fast' = [fast EXCEPT ![Picked].done = TRUE]
  /\ UNCHANGED <<fetchCur, zdp, air, others, faults, nodeVars>>

----------------------------------------------------------------------------
(* The rest of fetchZdpTick, for the node of the picked entry or the next. *)

Unconfirmed == {k \in DOMAIN zdp : zdp[k].st # "confirmed"}
Mine(n)     == {k \in Unconfirmed : zdp[k].node = n}
\* The loop over the queue: a request of this node, or as many as are allowed.
SkipsNode(n) == Mine(n) # {}
                /\ Cardinality({k \in Unconfirmed : k < Min(Mine(n))}) < MaxApsRequestsZdp
TooMany(n)   == ~SkipsNode(n) /\ Cardinality(Unconfirmed) >= MaxApsRequestsZdp

\* What is sent for an item: an endpoint (0 for a request about the node), or -1.
ListsAll(n) == n \in Maker115F /\ desc[n] /\ Cardinality(eps[n]) > AllEndpoints
Asks(n, i) ==
  LET e == getNextUnfetchedEndpoint(n)
  IN CASE i = "NodeDescriptor"  -> IF desc[n] THEN -1 ELSE 0
       [] i = "ActiveEndpoints" -> IF ListsAll(n) \/ (PermitJoin /\ eps[n] # {}) THEN -1 ELSE 0
       [] i = "SimpleDescriptor" ->
            IF e \in sds[n] /\ (PermitJoin \/ n \notin De) THEN -1 ELSE e

\* A request leaves for node n, item i, endpoint e.
Put(n, i, e) == zdp' = Append(zdp, [node |-> n, item |-> i, ep |-> e, st |-> "sent",
                                    asked |-> FALSE, answered |-> FALSE])

\* The tick sends, or goes on to the node's next item when there is nothing to
\* send, a request of the node is still in the queue, or the request is refused.
AskNode(n, i, cur, r) ==
  LET e    == Asks(n, i)
      free == ~\E k \in DOMAIN zdp : zdp[k].node = n
      r2   == IF i = "ActiveEndpoints" /\ e = 0 THEN Incr(r, n, i) ELSE r
  IN  /\ \/ /\ e # -1 /\ free
            /\ Put(n, i, e) /\ wait' = [wait EXCEPT ![n] = TRUE]
            /\ item' = [item EXCEPT ![n] = cur] /\ UNCHANGED faults
         \/ /\ e # -1 /\ free => faults < MaxFetchFaults
            /\ faults' = IF e # -1 /\ free THEN faults + 1 ELSE faults
            /\ item' = [item EXCEPT ![n] = nextCurFetchItem(cur)]
            /\ wait' = [wait EXCEPT ![n] = FALSE] /\ UNCHANGED zdp
      /\ IF e = -1 /\ (i = "NodeDescriptor" \/ (i = "ActiveEndpoints" /\ ListsAll(n))) \* setFetched
         THEN fetched' = [fetched EXCEPT ![n][i] = TRUE] /\ retries' = [r2 EXCEPT ![n][i] = 0]
              /\ depend' = [depend EXCEPT ![n] = @ \ Bits(ReqId[i])]
         ELSE retries' = r2 /\ UNCHANGED <<fetched, depend>>

\* The regular choice of an item: the current one, or the next if it is needed.
Regular(n, first) ==
  \E again \in BOOLEAN :
    LET c1 == item[n]
        c2 == nextCurFetchItem(c1)
        r1 == retriesAfter(retries, n, c1, again)
        r2 == IF c2 = "Unknown" THEN r1 ELSE retriesAfter(r1, n, c2, again)
        quiet == /\ wait' = [wait EXCEPT ![n] = FALSE] /\ UNCHANGED <<zdp, fetched, depend, faults>>
    IN  \/ /\ needFetch(n, c1, again) /\ seen[n]
           /\ fetchCur' = first + 1 /\ AskNode(n, c1, c1, r1)
        \/ /\ ~needFetch(n, c1, again) /\ c2 # "Unknown" /\ needFetch(n, c2, again) /\ seen[n]
           /\ fetchCur' = first + 1 /\ AskNode(n, c2, c2, r2)
        \/ /\ needFetch(n, c1, again) /\ ~seen[n]
           /\ fetchCur' = first + 1 /\ retries' = r1 /\ quiet /\ UNCHANGED item
        \/ /\ ~needFetch(n, c1, again) /\ (c2 = "Unknown" \/ ~needFetch(n, c2, again) \/ ~seen[n])
           /\ fetchCur' = (IF c2 = "Unknown" \/ needFetch(n, c2, again) THEN first + 1 ELSE first)
           /\ item' = [item EXCEPT ![n] = c2]
           /\ retries' = r2 /\ quiet

FetchNode ==
  /\ others # "full" /\ ~HeadDone /\ (Picked # 0 => FastItem(Picked) # "Done")
  /\ LET first == IF fetchCur >= Len(Order) THEN 0 ELSE fetchCur
         n     == IF Picked # 0 THEN fast[Picked].node ELSE Order[first + 1]
         room  == others = "few" /\ ~SkipsNode(n) /\ ~TooMany(n)
     IN  \/ /\ n \notin RxOn \/ SkipsNode(n) \/ (room /\ (wait[n] \/ zombie[n]))
            /\ fetchCur' = first + 1
            /\ UNCHANGED <<zdp, faults, item, fetched, retries, depend, wait>>
         \/ /\ n \in RxOn /\ room /\ ~wait[n] /\ ~zombie[n]
            /\ IF Picked # 0
               THEN fetchCur' = first + 1 /\ AskNode(n, FastItem(Picked), item[n], retries)
               ELSE Regular(n, first)
  /\ UNCHANGED <<fast, air, others, desc, eps, sds, feps, seen, zombie>>

fetchZdpTick == FinishFast \/ MarkDone \/ FetchNode

----------------------------------------------------------------------------
(* The network: a request reaches its node or not, and the node answers.   *)

Answer(r) ==
  [node |-> r.node, item |-> r.item, ep |-> r.ep, live |-> TRUE,
   status |-> IF r.item = "SimpleDescriptor" /\ r.ep \notin Active[r.node] THEN "NotActive" ELSE "Success"]

NodeAnswers(k) ==
  /\ k \in DOMAIN zdp /\ ~zdp[k].asked
  /\ zdp' = [zdp EXCEPT ![k].asked = TRUE]
  /\ \/ air' = air \cup {Answer(zdp[k])} /\ UNCHANGED faults
     \/ /\ faults < MaxFetchFaults /\ faults' = faults + 1
        /\ \/ UNCHANGED air
           \/ air' = air \cup {[Answer(zdp[k]) EXCEPT !.status = "Error"]}
  /\ UNCHANGED <<fast, fetchCur, others, nodeVars>>

SameRequest(a, r) == a.node = r.node /\ a.item = r.item /\ a.ep = r.ep

\* A request leaves the queue: an answer to it that comes later matches nothing.
Forget(k) ==
  /\ zdp' = RemoveAt(zdp, k)
  /\ air' = {[a EXCEPT !.live = @ /\ ~SameRequest(a, zdp[k])] : a \in air}

\* onApsdeDataConfirm.  An error counts for the fast discover entry, and for the
\* node's current item, whichever item the request was for, if no frame or route
\* got through (NoAck, NwkRouteDiscoveryFailed); a status of another kind only
\* makes the node wait (MacTransactionExpired, MacNoChannelAccess) or not even that.
ConfirmOk(k) ==
  /\ k \in DOMAIN zdp /\ zdp[k].st = "sent" /\ zdp[k].asked
  /\ (IF zdp[k].answered THEN Forget(k) ELSE zdp' = [zdp EXCEPT ![k].st = "confirmed"] /\ UNCHANGED air)
  /\ wait' = [wait EXCEPT ![zdp[k].node] = TRUE]
  /\ UNCHANGED <<fast, fetchCur, others, faults, desc, eps, sds, feps, item, fetched, retries, depend, seen, zombie>>

ConfirmError(k) ==
  /\ k \in DOMAIN zdp /\ zdp[k].st = "sent" /\ faults < MaxFetchFaults
  /\ faults' = faults + 1
  /\ Forget(k)
  /\ LET n == zdp[k].node
         f == {j \in DOMAIN fast : fast[j].node = n}
     IN  /\ fast' = IF f = {} THEN fast
                    ELSE [fast EXCEPT ![Min(f)].errors = Min({@ + 1, 3})]
         /\ \/ wait' = [wait EXCEPT ![n] = TRUE] /\ retries' = Incr(retries, n, item[n])
            \/ \E waits \in {wait[n], TRUE} : wait' = [wait EXCEPT ![n] = waits] /\ UNCHANGED retries
  /\ UNCHANGED <<fetchCur, others, desc, eps, sds, feps, item, fetched, depend, seen, zombie>>

\* timeoutTick gives up a request whose answer does not come, or comes late, and
\* confirms one that was cleared.
Expire(k) ==
  /\ k \in DOMAIN zdp /\ zdp[k].st # "sent"
  /\ LET late == zdp[k].st = "confirmed" /\ \E a \in air : a.live /\ SameRequest(a, zdp[k])
     IN  /\ late => faults < MaxFetchFaults
         /\ faults' = IF late THEN faults + 1 ELSE faults
  /\ Forget(k)
  /\ UNCHANGED <<fast, fetchCur, others, nodeVars>>

----------------------------------------------------------------------------
(* onApsdeDataIndication.                                                  *)

\* For every indication of a node: its request is done, its wait is over, it is no
\* zombie, and it is discovered fast if its endpoints or descriptors are not known.
Heard(a) ==
  LET n == a.node
      m == {k \in DOMAIN zdp : a.live /\ zdp[k].st # "cleared" /\ SameRequest(a, zdp[k])}
  IN  /\ air' = air \ {a}
      /\ zdp' = IF m = {} THEN zdp
                ELSE IF zdp[Min(m)].st = "confirmed" THEN RemoveAt(zdp, Min(m))
                ELSE [zdp EXCEPT ![Min(m)].answered = TRUE]
      /\ fast' = IF (sds[n] = {} \/ eps[n] = {}) /\ desc[n] THEN fastPrope(fast, n) ELSE fast
      /\ seen' = [seen EXCEPT ![n] = TRUE] /\ wait' = [wait EXCEPT ![n] = FALSE]
      /\ zombie' = [zombie EXCEPT ![n] = FALSE]
      /\ UNCHANGED <<fetchCur, others, faults, item>>

NodeDescRsp(a) ==
  /\ a \in air /\ a.item = "NodeDescriptor" /\ Heard(a)
  /\ IF a.status = "Success"
     THEN desc' = [desc EXCEPT ![a.node] = TRUE] /\ Fetched(a.node, a.item)
     ELSE retries' = Incr(retries, a.node, a.item) /\ UNCHANGED <<desc, fetched, depend>>
  /\ UNCHANGED <<eps, sds, feps>>

\* Endpoints that are gone lose their simple descriptors; those that are known
\* are to be fetched again.
ActiveEpRsp(a) ==
  /\ a \in air /\ a.item = "ActiveEndpoints" /\ Heard(a)
  /\ LET n == a.node
         s == IF Listed[n] # eps[n] THEN sds[n] \cap Listed[n] ELSE sds[n]
     IN  IF a.status = "Success"
         THEN /\ eps' = [eps EXCEPT ![n] = Listed[n]] /\ sds' = [sds EXCEPT ![n] = s]
              /\ depend' = [depend EXCEPT ![n] = @ \ Bits(ReqId[a.item])]
              /\ retries' = [retries EXCEPT ![n][a.item] = 0,
                                            ![n]["SimpleDescriptor"] = IF desc[n] /\ n \in RxOn THEN 0 ELSE @]
              /\ fetched' = [fetched EXCEPT ![n][a.item] = TRUE,
                                            ![n]["SimpleDescriptor"] = @ /\ ~(desc[n] /\ n \in RxOn)]
              /\ feps' = [feps EXCEPT ![n] = IF desc[n] /\ n \in RxOn THEN AddAll(@, s) ELSE @]
         ELSE /\ retries' = Incr(retries, n, a.item)
              /\ UNCHANGED <<eps, sds, feps, fetched, depend>>
  /\ UNCHANGED desc

\* An endpoint that is not active is not named in the answer: the one that would
\* be asked for next is taken off the list.
SimpleDescRsp(a) ==
  /\ a \in air /\ a.item = "SimpleDescriptor" /\ Heard(a)
  /\ LET n == a.node
         e == getNextUnfetchedEndpoint(n)
     IN  \/ /\ a.status = "Success"
            /\ sds' = [sds EXCEPT ![n] = @ \cup {a.ep}]
            /\ feps' = [feps EXCEPT ![n] = removeFetchEndpoint(@, a.ep)]
            /\ (IF eps[n] \subseteq sds'[n] /\ feps'[n] = <<>> THEN Fetched(n, a.item)
                ELSE UNCHANGED <<fetched, retries, depend>>)
            /\ UNCHANGED eps
         \/ /\ a.status = "NotActive"
            /\ eps' = [eps EXCEPT ![n] = @ \ {e}]
            /\ UNCHANGED <<sds, feps, fetched, retries, depend>>
         \/ /\ a.status = "Error"
            /\ feps' = [feps EXCEPT ![n] = removeFetchEndpoint(@, 255)]
            /\ retries' = Incr(retries, n, a.item)
            /\ UNCHANGED <<eps, sds, fetched, depend>>
  /\ UNCHANGED desc

\* A device announces itself (Device_annce): its endpoints are fetched again.
Announce(n) ==
  /\ ~seen[n]
  /\ seen' = [seen EXCEPT ![n] = TRUE] /\ wait' = [wait EXCEPT ![n] = FALSE]
  /\ fetched' = [fetched EXCEPT ![n]["ActiveEndpoints"] = FALSE]
  /\ retries' = [retries EXCEPT ![n]["ActiveEndpoints"] = 0]
  /\ fast' = fastPrope(fast, n) /\ zombie' = [zombie EXCEPT ![n] = FALSE]
  /\ UNCHANGED <<fetchCur, zdp, air, others, faults, desc, eps, sds, feps, item, depend>>

\* onMacPoll: a sleeping device polls its parent, this node: what is missing is
\* asked for, at most twice.
MacPoll(n) ==
  /\ n \notin RxOn /\ ~PermitJoin
  /\ LET i == IF ~desc[n] /\ retries[n]["NodeDescriptor"] < 2 THEN "NodeDescriptor"
              ELSE IF eps[n] = {} /\ retries[n]["ActiveEndpoints"] < 2 THEN "ActiveEndpoints"
              ELSE "Unknown"
     IN  i # "Unknown" /\ Put(n, i, 0) /\ retries' = [retries EXCEPT ![n][i] = @ + 1]
  /\ UNCHANGED <<fast, fetchCur, air, others, faults, desc, eps, sds, feps, item, fetched, depend, wait, seen, zombie>>

\* zombieTick: a node does not answer; its request is cleared (deleteNode).
zombieTick(n) ==
  /\ n \in RxOn /\ desc[n] /\ ~zombie[n] /\ faults < MaxFetchFaults
  /\ faults' = faults + 1 /\ zombie' = [zombie EXCEPT ![n] = TRUE]
  /\ \/ (\A k \in DOMAIN zdp : zdp[k].node # n) /\ UNCHANGED <<zdp, air>>
     \/ \E k \in DOMAIN zdp :
          /\ zdp[k].node = n
          /\ IF zdp[k].st = "confirmed" THEN Forget(k)
             ELSE zdp' = [zdp EXCEPT ![k].st = "cleared"] /\ UNCHANGED air
  /\ UNCHANGED <<fast, fetchCur, others, desc, eps, sds, feps, item, fetched, retries, depend, wait, seen>>

\* Requests of other kinds are queued and sent.
OthersQueued ==
  /\ \/ faults < MaxFetchFaults /\ faults' = faults + 1 /\ others' \in {"busy", "full"} \ {others}
     \/ others # "few" /\ others' = "few" /\ UNCHANGED faults
  /\ UNCHANGED <<fast, fetchCur, zdp, air, nodeVars>>

\* Time goes by.
WaitEnds(n) ==
  /\ wait[n] /\ wait' = [wait EXCEPT ![n] = FALSE]
  /\ UNCHANGED <<fast, fetchCur, zdp, air, others, faults, desc, eps, sds, feps, item, fetched, retries, depend, seen,
                 zombie>>

FastIsOld(k) ==
  /\ k \in DOMAIN fast /\ ~fast[k].old /\ faults < MaxFetchFaults
  /\ faults' = faults + 1
  /\ fast' = [fast EXCEPT ![k].old = TRUE]
  /\ UNCHANGED <<fetchCur, zdp, air, others, nodeVars>>

\* Not heard of for ten minutes.
NotSeen(n) ==
  /\ seen[n] /\ faults < MaxFetchFaults
  /\ faults' = faults + 1
  /\ seen' = [seen EXCEPT ![n] = FALSE]
  /\ UNCHANGED <<fast, fetchCur, zdp, air, others, desc, eps, sds, feps, item, fetched, retries, depend, wait, zombie>>

Receive  == \E a \in air : NodeDescRsp(a) \/ ActiveEpRsp(a) \/ SimpleDescRsp(a)
Confirm  == \E k \in DOMAIN zdp : ConfirmOk(k)
Answers  == \E k \in DOMAIN zdp : NodeAnswers(k)
TimeOut  == \E k \in DOMAIN zdp : Expire(k)
WaitOver == \E n \in Nodes : WaitEnds(n)

FetchNext ==
  \/ fetchZdpTick \/ Receive \/ Confirm \/ Answers \/ TimeOut \/ WaitOver
  \/ \E n \in Nodes : Announce(n) \/ MacPoll(n) \/ NotSeen(n) \/ zombieTick(n)
  \/ OthersQueued
  \/ \E k \in DOMAIN zdp : ConfirmError(k)
  \/ \E k \in DOMAIN fast : FastIsOld(k)

FetchSpec == FetchInit /\ [][FetchNext]_fetchVars

----------------------------------------------------------------------------
FetchTypeOK ==
  /\ \A k \in DOMAIN fast : fast[k].node \in RxOn /\ fast[k].errors \in 0 .. 3
  /\ fetchCur \in 0 .. Len(Order)
  /\ \A n \in Nodes : /\ item[n] \in Items \cup {"Unknown"} /\ wait[n] \in BOOLEAN
                      /\ eps[n] \subseteq Listed[n] /\ sds[n] \subseteq Active[n]
                      /\ \A i \in Items : retries[n][i] \in 0 .. MaxRetrys

(* A node has one entry in the fast discover list, one request on its way  *)
(* (a sleeping node is asked when it polls), and no more than the allowed  *)
(* number of requests are unconfirmed.                                     *)
FetchSafe ==
  /\ FetchTypeOK
  /\ \A j, k \in DOMAIN fast : fast[j].node = fast[k].node => j = k
  /\ \A j, k \in DOMAIN zdp : (zdp[j].node = zdp[k].node /\ zdp[j].node \in RxOn) => j = k
  /\ Cardinality({k \in Unconfirmed : zdp[k].node \in RxOn}) <= MaxApsRequestsZdp

Known(n) == desc[n] /\ eps[n] # {} /\ eps[n] \subseteq sds[n]
InFast(n) == \E k \in DOMAIN fast : fast[k].node = n
(* When nothing goes wrong a node leaves the fast discover list, and all   *)
(* of a node that is heard is known in the end, with one cursor for all    *)
(* nodes, retries, waits and a list that goes first.                       *)
FetchLive ==
  \A n \in RxOn : []<>~InFast(n) /\ []<>(Known(n) \/ ~seen[n])
=============================================================================
