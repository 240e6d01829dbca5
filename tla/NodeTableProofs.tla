--------------------------- MODULE NodeTableProofs ---------------------------
(***************************************************************************)
(* What the node table keeps, for any number of devices and whatever they  *)
(* announce, answer, lose and move, however they are deleted.  Table says  *)
(* what a list of nodes is, Waiting what waits in the discover queue:      *)
(* addresses of devices that have not been deleted without a sign since.   *)
(*                                                                         *)
(* And what the source routes keep, for any number of routers and links,   *)
(* and whatever is searched, deleted and answered in between: Routed says  *)
(* what a table of routes is, Copied what the nodes have of it.  What      *)
(* never changes of a route is its Tag, the id and the hops.               *)
(***************************************************************************)
EXTENDS NodeTable, SourceRoutes, NumberLemmas

NodeRec == [ext : Devices \cup {Own}, nwk : Nwks \cup {0}, zombie : BOOLEAN,
            errs : 0 .. MaxRecvErrorsZombie, seen : {"never", "now", "old"},
            tried : Tries, desc : BOOLEAN]

\* The coordinator is first, awake and known; the others have addresses of their own.
\* Its seen is what keeps requests for an address from going to the coordinator.
Rightly(n, k) ==
  /\ n \in NodeRec /\ (n.zombie => n.desc)
  /\ k = 1 => n.ext = Own /\ n.nwk = 0 /\ n.seen = "now" /\ ~n.zombie
  /\ k # 1 => n.ext \in Devices /\ n.nwk \in Nwks
Table(ns) ==
  /\ ns \in Seq(NodeRec) /\ Len(ns) >= 1
  /\ \A k \in 1 .. Len(ns) : Rightly(ns[k], k)
  /\ \A j, k \in 1 .. Len(ns) : ns[j].ext = ns[k].ext => j = k

\* The same nodes, whatever else was learned of them.
Kept(m, ns) ==
  /\ Table(m) /\ Len(m) = Len(ns)
  /\ \A k \in 1 .. Len(ns) : m[k].ext = ns[k].ext

Addresses == (Devices \X Nwks) \cup {<<Own, 0>>}
Waiting(q, silent) ==
  /\ q \in Seq(Addresses) /\ IsInjective(q)
  /\ \A i \in 1 .. Len(q) : q[i][1] \notin silent
NotSilent(ns, silent) == \A k \in 1 .. Len(ns) : ns[k].ext \notin silent
Asking(rs) == \A r \in rs : /\ r.kind \in {"lqi", "ieee", "nwk"}
                            /\ r.kind = "ieee" => r.nwk \in Nwks

Iters == 0 .. Cardinality(Devices) + 1

TInv ==
  /\ Table(nodes) /\ NotSilent(nodes, deleted.silent)
  /\ Waiting(discover, deleted.silent) /\ Asking(addrReq)
  /\ deleted \in [soon : BOOLEAN, silent : SUBSET Devices]
  /\ lqiIter \in Iters
  /\ at \in [Devices -> Nwks \cup {Gone}]

----------------------------------------------------------------------------
(* A table of nodes.                                                       *)
LEMMA TableIs ==
  ASSUME NEW ns, Table(ns)
  PROVE  DOMAIN ns = 1 .. Len(ns) /\ Len(ns) \in Nat /\ \A k \in 1 .. Len(ns) : ns[k] \in NodeRec
  BY LenProperties, ElementOfSeq DEF Table

\* There are no more nodes than devices, and the coordinator.
LEMMA TableIsSmall ==
  ASSUME NEW ns, Table(ns)
  PROVE  Len(ns) <= Cardinality(Devices) + 1 /\ Cardinality(Devices) \in Nat
<1> DEFINE f == [k \in 1 .. Len(ns) |-> ns[k].ext]
<1>1. f \in Injection(1 .. Len(ns), Devices \cup {Own})
  <2>1. \A k \in 1 .. Len(ns) : ns[k].ext \in Devices \cup {Own}
    BY DEF Table, Rightly
  <2> QED BY <2>1 DEF Table, Injection, IsInjective
<1>2. /\ IsFiniteSet(Devices \cup {Own}) /\ Cardinality(Devices) \in Nat
      /\ Cardinality(Devices \cup {Own}) = Cardinality(Devices) + 1
  BY TableAssumption, FS_AddElement, FS_CardinalityType
<1>3. Cardinality(1 .. Len(ns)) <= Cardinality(Devices \cup {Own})
  <2> HIDE DEF f
  <2> QED BY <1>1, <1>2, FS_Injection
<1>4. Cardinality(1 .. Len(ns)) = Len(ns)
  <2>1. Len(ns) \in Nat /\ Len(ns) >= 1
    BY TableIs DEF Table
  <2> QED BY <2>1, FS_Interval
<1> QED BY <1>2, <1>3, <1>4

\* One node is replaced by one with its MAC address.
LEMMA Replaced ==
  ASSUME NEW ns, Table(ns), NEW k, NEW n,
         k \in 1 .. Len(ns) => Rightly(n, k) /\ n.ext = ns[k].ext
  PROVE  Kept([ns EXCEPT ![k] = n], ns)
<1> DEFINE m == [ns EXCEPT ![k] = n]
<1>1. DOMAIN ns = 1 .. Len(ns) /\ Len(ns) \in Nat /\ \A j \in 1 .. Len(ns) : ns[j] \in NodeRec
  BY TableIs
<1>2. \A j \in 1 .. Len(ns) : m[j] = IF j = k THEN n ELSE ns[j]
  BY <1>1
<1>3. \A j \in 1 .. Len(ns) : Rightly(m[j], j) /\ m[j].ext = ns[j].ext
  BY <1>2 DEF Table
<1>4. m \in [1 .. Len(ns) -> NodeRec]
  <2>1. DOMAIN m = 1 .. Len(ns) /\ m = [j \in 1 .. Len(ns) |-> m[j]]
    BY <1>1
  <2>2. \A j \in 1 .. Len(ns) : m[j] \in NodeRec
    BY <1>3 DEF Rightly
  <2> QED BY <2>1, <2>2
<1>5. m \in Seq(NodeRec) /\ Len(m) = Len(ns)
  <2> HIDE DEF m
  <2> QED BY <1>1, <1>4, FcnIsSeq
<1> HIDE DEF m
<1>6. Table(m)
  BY <1>3, <1>5 DEF Table
<1> QED BY <1>3, <1>5, <1>6 DEF m, Kept

\* A node that the table does not have is appended.
LEMMA Appended ==
  ASSUME NEW ns, Table(ns), NEW e \in Devices, NEW w \in Nwks,
         \A k \in 1 .. Len(ns) : ns[k].ext # e
  PROVE  /\ Table(Append(ns, Node(e, w))) /\ Len(Append(ns, Node(e, w))) = Len(ns) + 1
         /\ \A k \in 1 .. Len(ns) : Append(ns, Node(e, w))[k] = ns[k]
         /\ Append(ns, Node(e, w))[Len(ns) + 1] = Node(e, w)
<1> DEFINE n == Node(e, w)  m == Append(ns, n)
<1>1. Len(ns) \in Nat /\ ns \in Seq(NodeRec) /\ Len(ns) >= 1
  BY TableIs DEF Table
<1>2. n \in NodeRec /\ n.ext = e /\ n.nwk = w /\ ~n.zombie
  BY TableAssumption DEF Node, NodeRec, Tries
<1>3. /\ m \in Seq(NodeRec) /\ Len(m) = Len(ns) + 1
      /\ \A k \in 1 .. Len(ns) : m[k] = ns[k]
      /\ m[Len(ns) + 1] = n
  <2> HIDE DEF n
  <2> QED BY <1>1, <1>2, AppendProperties
<1> HIDE DEF n, m
<1>4. \A k \in 1 .. Len(m) : Rightly(m[k], k)
  BY <1>1, <1>2, <1>3 DEF Table, Rightly
<1>5. \A j, k \in 1 .. Len(m) : m[j].ext = m[k].ext => j = k
  BY <1>1, <1>2, <1>3 DEF Table
<1>6. Table(m)
  BY <1>1, <1>3, <1>4, <1>5 DEF Table
<1> QED BY <1>3, <1>6 DEF n, m

\* A node other than the coordinator is removed.
LEMMA Removed ==
  ASSUME NEW ns, Table(ns), NEW k \in 2 .. Len(ns)
  PROVE  /\ Table(RemoveAt(ns, k))
         /\ \A i \in 1 .. Len(RemoveAt(ns, k)) :
              \E j \in 1 .. Len(ns) : j # k /\ RemoveAt(ns, k)[i] = ns[j]
<1> DEFINE m == RemoveAt(ns, k)
<1>1. Len(ns) \in Nat /\ ns \in Seq(NodeRec)
  BY TableIs DEF Table
<1>2. /\ m \in Seq(NodeRec) /\ Len(m) = Len(ns) - 1
      /\ \A i \in 1 .. Len(ns) - 1 : m[i] = IF i < k THEN ns[i] ELSE ns[i + 1]
  BY <1>1, RemoveAtProperties
<1> HIDE DEF m
<1>3. ASSUME NEW i \in 1 .. Len(m) PROVE Rightly(m[i], i)
  <2>1. CASE i < k
    BY <2>1, <1>1, <1>2 DEF Table
  <2>2. CASE ~(i < k)
    <3>1. m[i] = ns[i + 1] /\ i + 1 \in 1 .. Len(ns) /\ i # 1 /\ i + 1 # 1
      BY <2>2, <1>1, <1>2
    <3>2. Rightly(ns[i + 1], i + 1)
      BY <3>1 DEF Table
    <3> QED BY <3>1, <3>2 DEF Rightly
  <2> QED BY <2>1, <2>2
<1>4. \A i, j \in 1 .. Len(m) : m[i].ext = m[j].ext => i = j
  <2> SUFFICES ASSUME NEW i \in 1 .. Len(m), NEW j \in 1 .. Len(m), m[i].ext = m[j].ext PROVE i = j
    OBVIOUS
  <2>1. PICK a \in 1 .. Len(ns) : m[i] = ns[a] /\ a = IF i < k THEN i ELSE i + 1
    BY <1>1, <1>2
  <2>2. PICK b \in 1 .. Len(ns) : m[j] = ns[b] /\ b = IF j < k THEN j ELSE j + 1
    BY <1>1, <1>2
  <2>3. a = b
    BY <2>1, <2>2 DEF Table
  <2> QED BY <1>1, <1>2, <2>1, <2>2, <2>3
<1>5. Table(m)
  BY <1>1, <1>2, <1>3, <1>4 DEF Table
<1>6. ASSUME NEW i \in 1 .. Len(m) PROVE \E j \in 1 .. Len(ns) : j # k /\ m[i] = ns[j]
  <2>1. CASE i < k
    BY <2>1, <1>1, <1>2
  <2>2. CASE ~(i < k)
    <3>1. m[i] = ns[i + 1] /\ i + 1 \in 1 .. Len(ns) /\ i + 1 # k
      BY <2>2, <1>1, <1>2
    <3> QED BY <3>1
  <2> QED BY <2>1, <2>2
<1> QED BY <1>5, <1>6 DEF m

----------------------------------------------------------------------------
(* Nodes found by their addresses.                                         *)

\* A MAC address finds the node that has it, and only if there is one.
LEMMA FoundByExt ==
  ASSUME NEW ns, Table(ns), NEW e
  PROVE  /\ ByExt(ns, e) = 0 => \A k \in 1 .. Len(ns) : ns[k].ext # e
         /\ ByExt(ns, e) # 0 => ByExt(ns, e) \in 1 .. Len(ns) /\ ns[ByExt(ns, e)].ext = e
         /\ \A k \in 1 .. Len(ns) : ns[k].ext = e => ByExt(ns, e) = k
<1> DEFINE s == {k \in DOMAIN ns : ns[k].ext = e}
<1>1. DOMAIN ns = 1 .. Len(ns) /\ Len(ns) \in Nat
  BY TableIs
<1>2. CASE s = {}
  BY <1>1, <1>2 DEF ByExt, First
<1>3. CASE s # {}
  <2>1. PICK k \in 1 .. Len(ns) : ns[k].ext = e
    BY <1>1, <1>3
  <2>2. s = {k}
    BY <1>1, <2>1 DEF Table
  <2>3. Min({k}) = k
    <3>1. \E x \in {k} : \A y \in {k} : x <= y
      BY <1>1
    <3> QED BY <3>1 DEF Min
  <2>4. ByExt(ns, e) = k
    BY <2>2, <2>3, <1>3 DEF ByExt, First
  <2> QED BY <1>1, <2>1, <2>4 DEF Table
<1> QED BY <1>2, <1>3

\* A network address finds a node that has it, if there is one.
LEMMA FoundByNwk ==
  ASSUME NEW ns, Table(ns), NEW w
  PROVE  /\ ByNwk(ns, w) = 0 => \A k \in 1 .. Len(ns) : ns[k].nwk # w
         /\ ByNwk(ns, w) # 0 => ByNwk(ns, w) \in 1 .. Len(ns) /\ ns[ByNwk(ns, w)].nwk = w
<1> DEFINE s == {k \in DOMAIN ns : ns[k].nwk = w}
<1>1. DOMAIN ns = 1 .. Len(ns) /\ Len(ns) \in Nat
  BY TableIs
<1>2. CASE s = {}
  BY <1>1, <1>2 DEF ByNwk, First
<1>3. CASE s # {}
  <2>1. s \in SUBSET Nat
    BY <1>1
  <2>2. \E x \in s : \A y \in s : x <= y
    <3> HIDE DEF s
    <3> QED BY <2>1, <1>3, NatMin
  <2>3. Min(s) \in s
    BY <2>2 DEF Min
  <2>4. ByNwk(ns, w) = Min(s)
    BY <1>3 DEF ByNwk, First
  <2> QED BY <1>1, <2>3, <2>4
<1> QED BY <1>2, <1>3

LEMMA Found ==
  ASSUME NEW ns, Table(ns), NEW e, NEW w
  PROVE  /\ getNode(ns, e, w) # 0 => getNode(ns, e, w) \in 1 .. Len(ns)
         /\ getNode(ns, e, w) = 0 => \A k \in 1 .. Len(ns) : ns[k].ext # e /\ ns[k].nwk # w
  BY FoundByExt, FoundByNwk DEF getNode

\* A new network address, of a device.
LEMMA AddressChanged ==
  ASSUME NEW ns, Table(ns), NEW d \in Devices, NEW w \in Nwks
  PROVE  Kept(checkAddressChange(ns, d, w), ns)
<1> DEFINE k == ByExt(ns, d)  n == [ns[k] EXCEPT !.nwk = w]
<1>1. CASE k = 0
  BY <1>1 DEF checkAddressChange, Kept
<1>2. CASE k # 0
  <2>1. k \in 1 .. Len(ns) /\ ns[k].ext = d
    BY <1>2, FoundByExt
  <2>2. Rightly(ns[k], k)
    BY <2>1 DEF Table
  <2>3. k # 1
    BY <2>1, <2>2, TableAssumption DEF Rightly
  <2>4. Rightly(n, k) /\ n.ext = ns[k].ext
    BY <2>2, <2>3 DEF Rightly, NodeRec
  <2>5. checkAddressChange(ns, d, w) = [ns EXCEPT ![k] = n]
    BY <1>2 DEF checkAddressChange
  <2> HIDE DEF n, k
  <2>6. Kept([ns EXCEPT ![k] = n], ns)
    BY <2>4, Replaced
  <2> QED BY <2>5, <2>6
<1> QED BY <1>1, <1>2

\* A node that was heard.
LEMMA Awake ==
  ASSUME NEW n, NEW k, Rightly(n, k)
  PROVE  Rightly(Woken(n), k) /\ Woken(n).ext = n.ext
<1>1. n \in NodeRec
  BY DEF Rightly
<1>2. Woken(n) \in NodeRec
  <2>1. [n EXCEPT !.zombie = FALSE] \in NodeRec
    BY <1>1 DEF NodeRec
  <2>2. ASSUME NEW m \in NodeRec PROVE [m EXCEPT !.errs = 0] \in NodeRec
    BY TableAssumption DEF NodeRec
  <2>3. ASSUME NEW m \in NodeRec PROVE [m EXCEPT !.seen = "now"] \in NodeRec
    BY DEF NodeRec
  <2>4. Woken(n) = [[[n EXCEPT !.zombie = FALSE] EXCEPT !.errs = 0] EXCEPT !.seen = "now"]
    BY DEF Woken
  <2> QED BY <2>1, <2>2, <2>3, <2>4
<1>3. /\ Woken(n).ext = n.ext /\ Woken(n).nwk = n.nwk
      /\ Woken(n).seen = "now" /\ Woken(n).zombie = FALSE
  BY <1>1 DEF Woken, NodeRec
<1> QED BY <1>2, <1>3 DEF Rightly

LEMMA HeardKeeps ==
  ASSUME NEW ns, Table(ns), NEW d \in Devices, at[d] \in Nwks, NEW x \in BOOLEAN
  PROVE  Kept(Heard(ns, d, x), ns)
<1> DEFINE k == IF x THEN getNode(ns, d, at[d]) ELSE ByNwk(ns, at[d])
           m == IF x THEN checkAddressChange(ns, d, at[d]) ELSE ns
           n == Woken(m[k])
<1>1. Kept(m, ns)
  <2>1. CASE x
    BY <2>1, AddressChanged
  <2>2. CASE ~x
    BY <2>2 DEF Kept
  <2> QED BY <2>1, <2>2
<1>2. k # 0 => Heard(ns, d, x) = [m EXCEPT ![k] = n]
  BY DEF Heard
<1>3. k = 0 => Heard(ns, d, x) = ns
  BY DEF Heard
<1>4. k # 0 => k \in 1 .. Len(ns)
  BY Found, FoundByNwk
<1> HIDE DEF m, k
<1>5. k \in 1 .. Len(m) => Rightly(n, k) /\ n.ext = m[k].ext
  BY <1>1, Awake DEF Table, Kept
<1> HIDE DEF n
<1>6. Kept([m EXCEPT ![k] = n], m)
  <2>1. Table(m)
    BY <1>1 DEF Kept
  <2> QED BY <1>5, <2>1, Replaced
<1>7. Kept([m EXCEPT ![k] = n], ns)
  BY <1>1, <1>6 DEF Kept
<1>8. Kept(ns, ns)
  BY DEF Kept
<1> QED BY <1>2, <1>3, <1>7, <1>8

----------------------------------------------------------------------------
(* The discover queue.                                                     *)
LEMMA QueueIs ==
  ASSUME NEW q, q \in Seq(Addresses)
  PROVE  /\ DOMAIN q = 1 .. Len(q) /\ Len(q) \in Nat
         /\ \A i \in 1 .. Len(q) : q[i] \in Addresses
  BY LenProperties, ElementOfSeq

LEMMA QueueAppended ==
  ASSUME NEW silent, NEW q, Waiting(q, silent), NEW p \in Addresses, p[1] \notin silent,
         \A i \in 1 .. Len(q) : q[i] # p
  PROVE  Waiting(Append(q, p), silent)
<1>1. /\ DOMAIN q = 1 .. Len(q) /\ Len(q) \in Nat /\ q \in Seq(Addresses)
      /\ \A i, j \in 1 .. Len(q) : q[i] = q[j] => i = j
  BY QueueIs DEF Waiting, IsInjective
<1> DEFINE m == Append(q, p)
<1>2. /\ m \in Seq(Addresses) /\ Len(m) = Len(q) + 1
      /\ \A i \in 1 .. Len(q) : m[i] = q[i]
      /\ m[Len(q) + 1] = p
  BY <1>1, AppendProperties
<1>3. DOMAIN m = 1 .. Len(q) + 1
  BY <1>1, <1>2, QueueIs
<1> HIDE DEF m
<1>4. \A i, j \in 1 .. Len(q) + 1 : m[i] = m[j] => i = j
  BY <1>1, <1>2
<1>5. \A i \in 1 .. Len(m) : m[i][1] \notin silent
  BY <1>1, <1>2 DEF Waiting
<1>6. IsInjective(m)
  BY <1>3, <1>4 DEF IsInjective
<1> QED BY <1>2, <1>5, <1>6 DEF Waiting, m

LEMMA Queued ==
  ASSUME NEW silent, NEW q, Waiting(q, silent), NEW e, NEW w,
         <<e, w>> \in Addresses, e \notin silent
  PROVE  Waiting(addDeviceDiscover(q, e, w), silent)
<1>1. DOMAIN q = 1 .. Len(q)
  BY QueueIs DEF Waiting
<1>2. CASE <<e, w>> \in ToSet(q)
  BY <1>2 DEF addDeviceDiscover
<1>3. CASE <<e, w>> \notin ToSet(q)
  <2>1. \A i \in 1 .. Len(q) : q[i] # <<e, w>>
    BY <1>1, <1>3 DEF ToSet
  <2>2. Waiting(Append(q, <<e, w>>), silent)
    BY <2>1, QueueAppended
  <2> QED BY <2>2, <1>3 DEF addDeviceDiscover
<1> QED BY <1>2, <1>3

\* The first address is taken; it may be put at the end again.
LEMMA QueueTaken ==
  ASSUME NEW silent, NEW q, Waiting(q, silent), q # <<>>
  PROVE  /\ Waiting(Tail(q), silent) /\ Waiting(Append(Tail(q), Head(q)), silent)
         /\ Head(q) \in Addresses /\ Head(q)[1] \notin silent
<1>1. /\ DOMAIN q = 1 .. Len(q) /\ Len(q) \in Nat /\ q \in Seq(Addresses)
      /\ \A i, j \in 1 .. Len(q) : q[i] = q[j] => i = j
      /\ \A i \in 1 .. Len(q) : q[i] \in Addresses /\ q[i][1] \notin silent
  BY QueueIs DEF Waiting, IsInjective
<1> DEFINE m == Tail(q)
<1>2. /\ m \in Seq(Addresses) /\ Len(m) = Len(q) - 1 /\ Len(q) >= 1
      /\ \A i \in 1 .. Len(q) - 1 : m[i] = q[i + 1]
  BY <1>1, HeadTailProperties, EmptySeq
<1>3. Head(q) = q[1]
  BY <1>1, HeadTailProperties
<1>4. DOMAIN m = 1 .. Len(q) - 1
  BY <1>1, <1>2, QueueIs
<1> HIDE DEF m
<1>5. \A i, j \in 1 .. Len(q) - 1 : m[i] = m[j] => i = j
  BY <1>1, <1>2
<1>6. \A i \in 1 .. Len(m) : m[i][1] \notin silent /\ m[i] # q[1]
  BY <1>1, <1>2
<1>7. Waiting(m, silent)
  <2>1. IsInjective(m)
    BY <1>4, <1>5 DEF IsInjective
  <2> QED BY <1>2, <1>6, <2>1 DEF Waiting
<1>8. q[1] \in Addresses /\ q[1][1] \notin silent
  BY <1>1, <1>2
<1>9. Waiting(Append(m, q[1]), silent)
  BY <1>6, <1>7, <1>8, QueueAppended
<1> QED BY <1>3, <1>7, <1>8, <1>9 DEF m

\* Fewer deleted devices are silent.
LEMMA QueueStays ==
  ASSUME NEW q, NEW silent, Waiting(q, silent), NEW less, less \subseteq silent
  PROVE  Waiting(q, less)
  BY DEF Waiting

\* The answer of a router: addresses that are not in the queue are put behind it.
LEMMA QueueExtended ==
  ASSUME NEW silent, NEW q, Waiting(q, silent), NEW S, IsFiniteSet(S), S \subseteq Addresses,
         \A p \in S : p[1] \notin silent, \A i \in 1 .. Len(q) : q[i] \notin S
  PROVE  Waiting(q \o SetToSeq(S), silent)
<1> DEFINE f == SetToSeq(S)  n == Cardinality(S)  m == q \o f
<1>1. n \in Nat /\ f \in [1 .. n -> S] /\ IsInjective(f)
  <2>1. n \in Nat /\ ExistsBijection(1 .. n, S)
    BY FS_CardinalityType
  <2>2. \E g \in [1 .. n -> S] : IsInjective(g)
    BY <2>1 DEF ExistsBijection, Bijection, Injection, IsInjective
  <2> QED BY <2>1, <2>2 DEF SetToSeq
<1> HIDE DEF f, n
<1>2. f \in Seq(Addresses) /\ Len(f) = n /\ DOMAIN f = 1 .. n
  <2>1. f \in [1 .. n -> Addresses]
    BY <1>1
  <2> QED BY <1>1, <2>1, FcnIsSeq
<1>3. /\ DOMAIN q = 1 .. Len(q) /\ Len(q) \in Nat /\ q \in Seq(Addresses)
      /\ \A i, j \in 1 .. Len(q) : q[i] = q[j] => i = j
  BY QueueIs DEF Waiting, IsInjective
<1>4. \A i, j \in 1 .. n : f[i] = f[j] => i = j
  BY <1>1, <1>2 DEF IsInjective
<1>5. /\ m \in Seq(Addresses) /\ Len(m) = Len(q) + n
      /\ \A i \in 1 .. Len(q) + n : m[i] = IF i <= Len(q) THEN q[i] ELSE f[i - Len(q)]
  <2>1. /\ m \in Seq(Addresses) /\ Len(m) = Len(q) + Len(f)
        /\ \A i \in 1 .. Len(q) + Len(f) : m[i] = IF i <= Len(q) THEN q[i] ELSE f[i - Len(q)]
    <3>1. q \in Seq(Addresses) /\ f \in Seq(Addresses)
      BY <1>2, <1>3
    <3> QED BY <3>1, ConcatProperties
  <2> QED BY <2>1, <1>2
<1>6. DOMAIN m = 1 .. Len(q) + n
  BY <1>5, QueueIs
<1> HIDE DEF m
<1>7. ASSUME NEW i \in 1 .. Len(q) + n
      PROVE  m[i][1] \notin silent /\ (i > Len(q) => i - Len(q) \in 1 .. n /\ m[i] \in S)
  <2>1. CASE i <= Len(q)
    BY <2>1, <1>1, <1>3, <1>5 DEF Waiting
  <2>2. CASE i > Len(q)
    BY <2>2, <1>1, <1>3, <1>5
  <2> QED BY <2>1, <2>2, <1>1, <1>3
<1>8. ASSUME NEW i \in 1 .. Len(q) + n, NEW j \in 1 .. Len(q) + n, m[i] = m[j] PROVE i = j
  <2>1. CASE i <= Len(q) /\ j <= Len(q)
    BY <2>1, <1>8, <1>1, <1>3, <1>5
  <2>2. CASE i > Len(q) /\ j > Len(q)
    BY <2>2, <1>8, <1>1, <1>3, <1>4, <1>5, <1>7
  <2>3. CASE i <= Len(q) /\ j > Len(q)
    <3>1. m[i] = q[i] /\ i \in 1 .. Len(q)
      BY <2>3, <1>1, <1>3, <1>5
    <3> QED BY <2>3, <3>1, <1>8, <1>7
  <2>4. CASE i > Len(q) /\ j <= Len(q)
    <3>1. m[j] = q[j] /\ j \in 1 .. Len(q)
      BY <2>4, <1>1, <1>3, <1>5
    <3> QED BY <2>4, <3>1, <1>8, <1>7
  <2> QED BY <2>1, <2>2, <2>3, <2>4, <1>1, <1>3
<1>9. IsInjective(m)
  BY <1>6, <1>8 DEF IsInjective
<1> QED BY <1>1, <1>5, <1>7, <1>9 DEF Waiting, m, f

----------------------------------------------------------------------------
(* What the actions do to the table.                                       *)
LEMMA KeptTwice ==
  ASSUME NEW a, NEW b, NEW c, Kept(b, a), Kept(c, b) PROVE Kept(c, a)
  BY DEF Kept

LEMMA KeptSilent ==
  ASSUME NEW m, NEW ns, NEW silent, Kept(m, ns), NotSilent(ns, silent) PROVE NotSilent(m, silent)
  BY DEF Kept, NotSilent

LEMMA Created ==
  ASSUME NEW ns, Table(ns), NEW silent, NotSilent(ns, silent),
         NEW e \in Devices, NEW w \in Nwks, e \notin silent
  PROVE  Table(createNode(ns, e, w)) /\ NotSilent(createNode(ns, e, w), silent)
<1>1. CASE MayCreate(ns, e, w)
  <2>1. \A k \in 1 .. Len(ns) : ns[k].ext # e
    BY <1>1, FoundByExt DEF MayCreate
  <2>2. createNode(ns, e, w) = Append(ns, Node(e, w))
    BY <1>1 DEF createNode
  <2>3. Table(createNode(ns, e, w))
    BY <2>1, <2>2, Appended
  <2>4. /\ Len(createNode(ns, e, w)) = Len(ns) + 1
        /\ \A k \in 1 .. Len(ns) : createNode(ns, e, w)[k] = ns[k]
        /\ createNode(ns, e, w)[Len(ns) + 1] = Node(e, w)
    BY <2>1, <2>2, Appended
  <2>5. Node(e, w).ext = e /\ Len(ns) \in Nat
    BY TableIs DEF Node
  <2> QED BY <2>3, <2>4, <2>5 DEF NotSilent
<1>2. CASE ~MayCreate(ns, e, w)
  BY <1>2 DEF createNode
<1> QED BY <1>1, <1>2

\* A node is seen, tried, asleep: nothing that Rightly speaks of, but for the first.
LEMMA SeenNow ==
  ASSUME NEW n, NEW k, Rightly(n, k)
  PROVE  Rightly([n EXCEPT !.seen = "now"], k) /\ [n EXCEPT !.seen = "now"].ext = n.ext
  BY DEF Rightly, NodeRec

LEMMA TriedIs ==
  ASSUME NEW n, NEW k, Rightly(n, k), NEW b \in Tries
  PROVE  Rightly([n EXCEPT !.tried = b], k) /\ [n EXCEPT !.tried = b].ext = n.ext
  BY DEF Rightly, NodeRec

LEMMA ErrsAre ==
  ASSUME NEW n, NEW k, Rightly(n, k), NEW e \in 0 .. MaxRecvErrorsZombie
  PROVE  Rightly([n EXCEPT !.errs = e], k) /\ [n EXCEPT !.errs = e].ext = n.ext
  BY DEF Rightly, NodeRec

\* The table of the next state.
LEMMA NodesKept ==
  ASSUME TInv, NEW m, Kept(m, nodes)
  PROVE  Table(m) /\ NotSilent(m, deleted.silent)
  BY KeptSilent DEF TInv, Kept

LEMMA HereIs ==
  ASSUME TInv, NEW d \in Here
  PROVE  d \in Devices /\ at[d] \in Nwks /\ <<d, at[d]>> \in Addresses
  BY DEF TInv, Here, Addresses

----------------------------------------------------------------------------
(* Devices announce themselves and send, answers and failures come in.     *)
LEMMA AnnceKeeps ==
  ASSUME TInv, NEW d \in Devices, NEW x \in BOOLEAN, DeviceAnnce(d, x)
  PROVE  TInv'
<1> DEFINE ns == Heard(nodes, d, x)
           k  == getNode(ns, d, at[d])
           m  == checkAddressChange(ns, d, at[d])
           less == deleted.silent \ {d}
<1>1. /\ d \in Devices /\ at[d] \in Nwks /\ <<d, at[d]>> \in Addresses
  BY HereIs DEF DeviceAnnce
<1>2. Table(nodes) /\ NotSilent(nodes, deleted.silent) /\ Waiting(discover, deleted.silent)
  BY DEF TInv
<1>3. Kept(ns, nodes)
  BY <1>1, <1>2, HeardKeeps
<1>4. Table(ns) /\ NotSilent(ns, less)
  BY <1>3, NodesKept DEF NotSilent
<1>5. /\ nodes' = IF k # 0 THEN [m EXCEPT ![k].seen = "now"] ELSE createNode(ns, d, at[d])
      /\ discover' = addDeviceDiscover(discover, d, at[d])
      /\ deleted' = [deleted EXCEPT !.silent = @ \ {d}]
      /\ UNCHANGED <<addrReq, lqiIter, at>>
  BY DEF DeviceAnnce
<1> HIDE DEF ns, k
<1>6. Kept(m, ns)
  BY <1>1, <1>4, AddressChanged
<1> HIDE DEF m
<1>7. Table(nodes') /\ NotSilent(nodes', less)
  <2>1. CASE k # 0
    <3> DEFINE n == [m[k] EXCEPT !.seen = "now"]
    <3>1. nodes' = [m EXCEPT ![k] = n]
      BY <1>5, <2>1
    <3>2. Table(m)
      BY <1>6 DEF Kept
    <3>3. k \in 1 .. Len(m) => Rightly(n, k) /\ n.ext = m[k].ext
      BY <3>2, SeenNow DEF Table
    <3> HIDE DEF n
    <3>4. Kept([m EXCEPT ![k] = n], m)
      BY <3>2, <3>3, Replaced
    <3>5. Kept(nodes', ns)
      BY <1>6, <3>1, <3>4, KeptTwice
    <3> QED BY <1>4, <3>5, KeptSilent DEF Kept
  <2>2. CASE k = 0
    BY <2>2, <1>1, <1>4, <1>5, Created
  <2> QED BY <2>1, <2>2
<1>8. Waiting(discover', less)
  <2>1. Waiting(discover, less)
    BY <1>2, QueueStays
  <2> QED BY <2>1, <1>1, <1>5, Queued
<1>9. deleted' \in [soon : BOOLEAN, silent : SUBSET Devices] /\ deleted'.silent = less
  BY <1>5 DEF TInv
<1> HIDE DEF less
<1> QED BY <1>5, <1>7, <1>8, <1>9 DEF TInv

LEMMA IndicationKeeps ==
  ASSUME TInv, NEW d \in Devices, NEW x \in BOOLEAN, Indication(d, x)
  PROVE  TInv'
<1>1. at[d] \in Nwks
  BY HereIs DEF Indication
<1>2. Kept(nodes', nodes)
  BY <1>1, HeardKeeps DEF Indication, TInv
<1>3. Table(nodes') /\ NotSilent(nodes', deleted.silent)
  BY <1>2, NodesKept
<1> QED BY <1>3 DEF TInv, Indication

\* What replaces one node by one of the same MAC address, and leaves the rest.
LEMMA OneChanges ==
  ASSUME TInv, NEW k, NEW n, k \in 1 .. Len(nodes) => Rightly(n, k) /\ n.ext = nodes[k].ext,
         nodes' = [nodes EXCEPT ![k] = n],
         UNCHANGED <<discover, lqiIter, deleted, at>>, addrReq' \subseteq addrReq
  PROVE  TInv'
<1>1. Kept(nodes', nodes)
  BY Replaced DEF TInv
<1>2. Table(nodes') /\ NotSilent(nodes', deleted.silent)
  BY <1>1, NodesKept
<1> QED BY <1>2 DEF TInv, Asking

LEMMA DescKeeps ==
  ASSUME TInv, NEW k \in DOMAIN nodes, NodeDescRsp(k)
  PROVE  TInv'
<1> DEFINE n == Woken([nodes[k] EXCEPT !.desc = TRUE])
<1>1. Rightly(nodes[k], k)
  BY TableIs DEF TInv, Table
<1>2. Rightly([nodes[k] EXCEPT !.desc = TRUE], k) /\ [nodes[k] EXCEPT !.desc = TRUE].ext = nodes[k].ext
  BY <1>1 DEF Rightly, NodeRec
<1>3. Rightly(n, k) /\ n.ext = nodes[k].ext
  BY <1>2, Awake
<1>4. nodes' = [nodes EXCEPT ![k] = n] /\ UNCHANGED <<discover, lqiIter, deleted, at, addrReq>>
  BY DEF NodeDescRsp
<1> HIDE DEF n
<1> QED BY <1>3, <1>4, OneChanges

LEMMA FailureKeeps ==
  ASSUME TInv, NEW r \in addrReq, RequestFails(r)
  PROVE  TInv'
<1> DEFINE k == IF r.kind = "nwk" THEN ByExt(nodes, r.ext) ELSE getNode(nodes, r.ext, r.nwk)
           e == Min({nodes[k].errs + 1, MaxRecvErrorsZombie})
           n == [nodes[k] EXCEPT !.errs = e]
<1>1. UNCHANGED <<discover, lqiIter, deleted, at>> /\ addrReq' \subseteq addrReq
  BY DEF RequestFails
<1>2. nodes' = nodes \/ (k # 0 /\ nodes' = [nodes EXCEPT ![k] = n])
  BY DEF RequestFails
<1>3. k # 0 => k \in 1 .. Len(nodes)
  BY Found, FoundByExt DEF TInv
<1> HIDE DEF k
<1>4. CASE nodes' = nodes
  BY <1>1, <1>4 DEF TInv, Asking
<1>5. CASE k # 0 /\ nodes' = [nodes EXCEPT ![k] = n]
  <2>1. k \in 1 .. Len(nodes) /\ Rightly(nodes[k], k)
    BY <1>3, <1>5 DEF TInv, Table
  <2>2. nodes[k].errs \in 0 .. MaxRecvErrorsZombie
    BY <2>1 DEF Rightly, NodeRec
  <2>3. e \in 0 .. MaxRecvErrorsZombie
    <3>1. \E z \in {nodes[k].errs + 1, MaxRecvErrorsZombie} :
             \A y \in {nodes[k].errs + 1, MaxRecvErrorsZombie} : z <= y
      BY <2>2, TableAssumption
    <3>2. e \in {nodes[k].errs + 1, MaxRecvErrorsZombie} /\ e <= MaxRecvErrorsZombie
      BY <3>1 DEF Min
    <3> QED BY <2>2, <3>2, TableAssumption
  <2> HIDE DEF e
  <2>4. Rightly(n, k) /\ n.ext = nodes[k].ext
    BY <2>1, <2>3, ErrsAre
  <2> HIDE DEF n
  <2> QED BY <1>1, <1>5, <2>4, OneChanges
<1> QED BY <1>2, <1>4, <1>5

LEMMA OtherFailureKeeps ==
  ASSUME TInv, NEW k \in DOMAIN nodes, OtherRequestFails(k)
  PROVE  TInv'
<1> DEFINE n == [nodes[k] EXCEPT !.errs = nodes[k].errs + 1]
<1>1. Rightly(nodes[k], k)
  BY TableIs DEF TInv, Table
<1>2. nodes[k].errs + 1 \in 0 .. MaxRecvErrorsZombie
  BY <1>1, TableAssumption DEF Rightly, NodeRec, OtherRequestFails
<1>3. Rightly(n, k) /\ n.ext = nodes[k].ext
  BY <1>1, <1>2, ErrsAre
<1>4. nodes' = [nodes EXCEPT ![k] = n] /\ UNCHANGED <<discover, lqiIter, deleted, at, addrReq>>
  BY DEF OtherRequestFails
<1> HIDE DEF n
<1> QED BY <1>3, <1>4, OneChanges

\* An answer that names a device and its address.
LEMMA AddrRspKeeps ==
  ASSUME TInv, NEW r \in addrReq, AddrRsp(r)
  PROVE  TInv'
<1> DEFINE d == Answerer(r)
           hs == Heard(nodes, d, FALSE)
           ns == checkAddressChange(hs, d, at[d])
           k  == ByExt(ns, d)
           n  == [ns[k] EXCEPT !.seen = "now"]
<1>1. d \in Here
  <2>1. CASE r.kind = "nwk"
    BY <2>1 DEF AddrRsp, Reached, Answerer
  <2>2. CASE r.kind = "ieee"
    <3>1. r.nwk \in Nwks /\ r.nwk # 0
      BY <2>2, TableAssumption DEF TInv, Asking
    <3>2. r.nwk \in Used
      BY <2>2, <3>1 DEF AddrRsp, Reached
    <3>3. \E y \in Here : at[y] = r.nwk
      BY <3>2 DEF Used
    <3>4. d = CHOOSE y \in Here : at[y] = r.nwk
      BY <2>2, <3>1 DEF Answerer
    <3> HIDE DEF d
    <3> QED BY <3>3, <3>4
  <2> QED BY <2>1, <2>2 DEF AddrRsp, TInv, Asking
<1>2. nodes' = IF k = 0 THEN ns ELSE [ns EXCEPT ![k].seen = "now"]
  BY DEF AddrRsp
<1>3. addrReq' = addrReq \ {r} /\ UNCHANGED <<discover, lqiIter, deleted, at>>
  BY DEF AddrRsp
<1> HIDE DEF d
<1>4. d \in Devices /\ at[d] \in Nwks
  BY <1>1, HereIs
<1>5. Kept(hs, nodes)
  BY <1>4, HeardKeeps DEF TInv
<1> HIDE DEF hs
<1>6. Kept(ns, hs)
  <2>1. Table(hs)
    BY <1>5 DEF Kept
  <2> QED BY <1>4, <2>1, AddressChanged
<1> HIDE DEF ns
<1>7. Table(ns) /\ Kept(ns, nodes)
  BY <1>5, <1>6, KeptTwice DEF Kept
<1> HIDE DEF k
<1>8. k \in 1 .. Len(ns) => Rightly(n, k) /\ n.ext = ns[k].ext
  BY <1>7, SeenNow DEF Table
<1>9. nodes' = ns \/ nodes' = [ns EXCEPT ![k] = n]
  BY <1>2
<1> HIDE DEF n
<1>10. Kept([ns EXCEPT ![k] = n], ns)
  BY <1>7, <1>8, Replaced
<1>11. Kept(nodes', nodes)
  BY <1>7, <1>9, <1>10, KeptTwice
<1>12. Table(nodes') /\ NotSilent(nodes', deleted.silent)
  BY <1>11, NodesKept
<1> QED BY <1>3, <1>12 DEF TInv, Asking

\* A router names those it hears.
LEMMA LqiRspKeeps ==
  ASSUME TInv, NEW r \in addrReq, MgmtLqiRsp(r)
  PROVE  TInv'
<1> DEFINE d == Answerer(r)
<1>0. PICK neib \in SUBSET Devices, old \in [Devices -> Nwks] :
        /\ nodes' = IF d = Own THEN nodes ELSE Heard(nodes, d, FALSE)
        /\ discover' = discover \o SetToSeq({<<x, old[x]>> : x \in neib} \ ToSet(discover))
        /\ deleted' = [deleted EXCEPT !.silent = @ \ neib]
  BY DEF MgmtLqiRsp
<1> DEFINE S == {<<x, old[x]>> : x \in neib}
           T == S \ ToSet(discover)
           less == deleted.silent \ neib
<1>1. /\ nodes' = IF d = Own THEN nodes ELSE Heard(nodes, d, FALSE)
      /\ discover' = discover \o SetToSeq(T)
      /\ deleted' = [deleted EXCEPT !.silent = less]
      /\ addrReq' = addrReq \ {r} /\ UNCHANGED <<lqiIter, at>>
  BY <1>0 DEF MgmtLqiRsp
<1>2. d # Own => d \in Here
  <2>1. r.kind = "lqi" /\ r.nwk \in Used \cup {0}
    BY DEF MgmtLqiRsp, Reached
  <2>2. d = IF r.nwk = 0 THEN Own ELSE CHOOSE y \in Here : at[y] = r.nwk
    BY <2>1 DEF Answerer
  <2> HIDE DEF d
  <2>3. r.nwk # 0 => \E y \in Here : at[y] = r.nwk
    BY <2>1 DEF Used
  <2> QED BY <2>2, <2>3
<1> HIDE DEF d
<1>3. Kept(nodes', nodes)
  <2>1. CASE d = Own
    BY <1>1, <2>1 DEF Kept, TInv
  <2>2. CASE d # Own
    <3>1. d \in Devices /\ at[d] \in Nwks
      BY <1>2, <2>2, HereIs
    <3>2. Kept(Heard(nodes, d, FALSE), nodes)
      BY <3>1, HeardKeeps DEF TInv
    <3> QED BY <1>1, <2>2, <3>2
  <2> QED BY <2>1, <2>2
<1>4. Table(nodes') /\ NotSilent(nodes', deleted.silent)
  BY <1>3, NodesKept
<1>5. NotSilent(nodes', less)
  BY <1>4 DEF NotSilent
<1>7. IsFiniteSet(T)
  <2>1. IsFiniteSet(neib)
    BY TableAssumption, FS_Subset
  <2> DEFINE f == [x \in neib |-> <<x, old[x]>>]
  <2>2. {f[x] : x \in neib} = S
    OBVIOUS
  <2>3. f \in [neib -> {f[x] : x \in neib}]
    OBVIOUS
  <2> HIDE DEF f
  <2>4. IsFiniteSet(S)
    BY <2>1, <2>2, <2>3, FewValues
  <2> QED BY <2>4, FS_Subset
<1>8. T \subseteq Addresses /\ \A p \in T : p[1] \notin less
  <2> SUFFICES ASSUME NEW p \in T PROVE p \in Addresses /\ p[1] \notin less
    OBVIOUS
  <2>1. PICK x \in neib : p = <<x, old[x]>>
    OBVIOUS
  <2> QED BY <2>1 DEF Addresses
<1>9. \A i \in 1 .. Len(discover) : discover[i] \notin T
  BY QueueIs DEF ToSet, TInv, Waiting
<1>10. Waiting(discover, less)
  BY QueueStays DEF TInv
<1> HIDE DEF T, less
<1>11. Waiting(discover', less)
  BY <1>1, <1>7, <1>8, <1>9, <1>10, QueueExtended
<1>12. deleted' \in [soon : BOOLEAN, silent : SUBSET Devices] /\ deleted'.silent = less
  BY <1>1 DEF TInv, less
<1> QED BY <1>1, <1>4, <1>5, <1>11, <1>12 DEF TInv, Asking

----------------------------------------------------------------------------
(* Devices move, time goes by, the network opens and closes.               *)
LEMMA MoveKeeps ==
  ASSUME TInv, NEW d \in Devices, Joins(d) \/ Leaves(d)
  PROVE  TInv'
<1>1. UNCHANGED <<nodes, discover, addrReq, deleted, lqiIter>>
  BY DEF Joins, Leaves
<1>2. \E w \in Nwks \cup {Gone} : at' = [at EXCEPT ![d] = w]
  BY DEF Joins, Leaves
<1>3. at' \in [Devices -> Nwks \cup {Gone}]
  BY <1>2 DEF TInv
<1> QED BY <1>1, <1>3 DEF TInv

LEMMA TimeKeeps ==
  ASSUME TInv, Elapse \/ PermitJoin \/ \E k \in DOMAIN nodes : ElapseTry(k) \/ ElapseSeen(k)
  PROVE  TInv'
<1>1. CASE Elapse
  <2>1. deleted' \in [soon : BOOLEAN, silent : SUBSET Devices] /\ deleted'.silent = deleted.silent
    BY <1>1 DEF Elapse, TInv
  <2> QED BY <1>1, <2>1 DEF Elapse, TInv
<1>2. CASE PermitJoin
  BY <1>2 DEF PermitJoin, TInv
<1>3. ASSUME NEW k \in DOMAIN nodes, ElapseTry(k) PROVE TInv'
  <2> DEFINE t == IF nodes[k].tried = "now" THEN "soon" ELSE "long"
             n == [nodes[k] EXCEPT !.tried = t]
  <2>0. t \in Tries
    BY DEF Tries
  <2>1. Rightly(nodes[k], k)
    BY TableIs DEF TInv, Table
  <2>2. Rightly(n, k) /\ n.ext = nodes[k].ext
    <3> HIDE DEF t
    <3> QED BY <2>0, <2>1, TriedIs
  <2>3. nodes' = [nodes EXCEPT ![k] = n] /\ UNCHANGED <<discover, lqiIter, deleted, at, addrReq>>
    BY <1>3 DEF ElapseTry
  <2> HIDE DEF n
  <2> QED BY <2>2, <2>3, OneChanges
<1>4. ASSUME NEW k \in DOMAIN nodes, ElapseSeen(k) PROVE TInv'
  <2> DEFINE n == [nodes[k] EXCEPT !.seen = "old"]
  <2>1. Rightly(nodes[k], k) /\ k # 1
    <3>1. k # 1
      BY <1>4 DEF ElapseSeen
    <3>2. k \in 1 .. Len(nodes)
      BY TableIs DEF TInv
    <3> QED BY <3>1, <3>2 DEF TInv, Table
  <2>2. Rightly(n, k) /\ n.ext = nodes[k].ext
    BY <2>1 DEF Rightly, NodeRec
  <2>3. nodes' = [nodes EXCEPT ![k] = n] /\ UNCHANGED <<discover, lqiIter, deleted, at, addrReq>>
    BY <1>4 DEF ElapseSeen
  <2> HIDE DEF n
  <2> QED BY <2>2, <2>3, OneChanges
<1> QED BY <1>1, <1>2, <1>3, <1>4

----------------------------------------------------------------------------
(* Zombies and deletion.                                                   *)
LEMMA DeleteKeeps ==
  ASSUME TInv, NEW k \in DOMAIN nodes, deleteNode(k)
  PROVE  TInv'
<1> DEFINE m == RemoveAt(nodes, k)
           more == deleted.silent \cup {nodes[k].ext}
<1>1. Table(nodes) /\ k \in 2 .. Len(nodes)
  BY TableIs DEF TInv, deleteNode
<1>2. Table(m) /\ \A i \in 1 .. Len(m) : \E j \in 1 .. Len(nodes) : j # k /\ m[i] = nodes[j]
  <2> HIDE DEF m
  <2> \A i \in 2 .. Len(nodes) :
        /\ Table(RemoveAt(nodes, i))
        /\ \A a \in 1 .. Len(RemoveAt(nodes, i)) :
              \E j \in 1 .. Len(nodes) : j # i /\ RemoveAt(nodes, i)[a] = nodes[j]
    BY <1>1, Removed
  <2> QED BY <1>1 DEF m
<1>3. /\ nodes' = m /\ discover' = <<>> /\ addrReq' \subseteq addrReq
      /\ deleted' = [soon |-> TRUE, silent |-> more]
      /\ UNCHANGED <<lqiIter, at>>
  BY DEF deleteNode
<1> HIDE DEF m
<1>4. NotSilent(m, more)
  <2> SUFFICES ASSUME NEW i \in 1 .. Len(m) PROVE m[i].ext \notin more
    BY DEF NotSilent
  <2>1. PICK j \in 1 .. Len(nodes) : j # k /\ m[i] = nodes[j]
    BY <1>2
  <2>2. nodes[j].ext # nodes[k].ext
    BY <1>1, <2>1 DEF Table
  <2> QED BY <2>1, <2>2 DEF TInv, NotSilent
<1>5. nodes[k].ext \in Devices
  BY <1>1 DEF Table, Rightly
<1>6. deleted' \in [soon : BOOLEAN, silent : SUBSET Devices] /\ deleted'.silent = more
  BY <1>3, <1>5 DEF TInv
<1>7. Waiting(<<>>, more)
  BY DEF Waiting, IsInjective
<1> HIDE DEF more
<1> QED BY <1>2, <1>3, <1>4, <1>6, <1>7 DEF TInv, Asking

LEMMA ZombieKeeps ==
  ASSUME TInv, zombieTick
  PROVE  TInv'
<1>1. Table(nodes) /\ DOMAIN nodes = 1 .. Len(nodes)
  BY TableIs DEF TInv
<1>2. PICK k \in 1 .. Len(nodes) :
        /\ \/ nodes' = [nodes EXCEPT ![k] = [nodes[k] EXCEPT !.zombie = TRUE]] /\ nodes[k].nwk # 0 /\ nodes[k].desc
           \/ nodes' = [nodes EXCEPT ![k] = [[nodes[k] EXCEPT !.zombie = FALSE] EXCEPT !.seen = "now"]]
           \/ nodes' = nodes
        /\ addrReq' \subseteq addrReq
  BY <1>1 DEF zombieTick
<1> DEFINE n == nodes[k]
           dies == [n EXCEPT !.zombie = TRUE]
           lives == [[n EXCEPT !.zombie = FALSE] EXCEPT !.seen = "now"]
<1>3. /\ \/ nodes' = [nodes EXCEPT ![k] = dies] /\ n.nwk # 0 /\ n.desc
         \/ nodes' = [nodes EXCEPT ![k] = lives]
         \/ nodes' = nodes
      /\ addrReq' \subseteq addrReq /\ UNCHANGED <<discover, lqiIter, deleted, at>>
  BY <1>2 DEF zombieTick
<1>4. Rightly(n, k) /\ n = nodes[k]
  BY <1>1, <1>2 DEF Table
<1> HIDE DEF n
<1>5. n.nwk # 0 /\ n.desc => Rightly(dies, k) /\ dies.ext = n.ext
  BY <1>4 DEF Rightly, NodeRec
<1>6. Rightly(lives, k) /\ lives.ext = n.ext
  <2>1. Rightly([n EXCEPT !.zombie = FALSE], k) /\ [n EXCEPT !.zombie = FALSE].ext = n.ext
    BY <1>4 DEF Rightly, NodeRec
  <2> QED BY <2>1, SeenNow
<1> HIDE DEF dies, lives
<1>7. Kept(nodes', nodes)
  <2>1. Kept(nodes, nodes)
    BY <1>1 DEF Kept
  <2>2. n.nwk # 0 /\ n.desc => Kept([nodes EXCEPT ![k] = dies], nodes)
    BY <1>1, <1>4, <1>5, Replaced
  <2>3. Kept([nodes EXCEPT ![k] = lives], nodes)
    BY <1>1, <1>4, <1>6, Replaced
  <2> QED BY <1>3, <2>1, <2>2, <2>3
<1>8. Table(nodes') /\ NotSilent(nodes', deleted.silent)
  BY <1>7, NodesKept
<1> QED BY <1>2, <1>3, <1>8 DEF TInv, Asking

----------------------------------------------------------------------------
(* deviceDiscoverTick.                                                     *)
LEMMA LqiNodeIs ==
  ASSUME TInv
  PROVE  LqiNode \in 1 .. Len(nodes) /\ LqiNode \in Iters /\ LqiNode - 1 \in Iters
<1>1. Len(nodes) \in Nat /\ Len(nodes) >= 1 /\ Len(nodes) <= Cardinality(Devices) + 1
  BY TableIs, TableIsSmall DEF TInv, Table
<1>2. Cardinality(Devices) \in Nat
  BY TableIsSmall DEF TInv
<1>3. lqiIter \in Nat
  BY <1>2 DEF TInv, Iters
<1>4. LqiNode \in 1 .. Len(nodes)
  BY <1>1, <1>3 DEF LqiNode
<1> QED BY <1>1, <1>2, <1>4 DEF Iters

LEMMA LqiKeeps ==
  ASSUME TInv, AskLqi \/ SkipLqi
  PROVE  TInv'
<1>1. CASE SkipLqi
  BY <1>1, LqiNodeIs DEF SkipLqi, TInv
<1>2. CASE AskLqi
  <2> DEFINE k == LqiNode
             t == IF k = 1 THEN "never" ELSE "now"
             n == [nodes[k] EXCEPT !.tried = t]
  <2>1. /\ nodes' = [nodes EXCEPT ![k] = n] /\ lqiIter' = k
        /\ addrReq' = addrReq \cup {[kind |-> "lqi", ext |-> nodes[k].ext, nwk |-> nodes[k].nwk]}
        /\ UNCHANGED <<discover, deleted, at>>
    BY <1>2 DEF AskLqi
  <2>2. k \in 1 .. Len(nodes) /\ k \in Iters /\ Table(nodes)
    BY LqiNodeIs DEF TInv
  <2> HIDE DEF k
  <2>3. t \in Tries
    BY DEF Tries
  <2>4. Rightly(n, k) /\ n.ext = nodes[k].ext
    <3> HIDE DEF t
    <3> QED BY <2>2, <2>3, TriedIs DEF Table
  <2> HIDE DEF n
  <2>5. Kept(nodes', nodes)
    BY <2>1, <2>2, <2>4, Replaced
  <2>6. Table(nodes') /\ NotSilent(nodes', deleted.silent)
    BY <2>5, NodesKept
  <2>7. Asking(addrReq')
    BY <2>1 DEF TInv, Asking
  <2> QED BY <2>1, <2>2, <2>6, <2>7 DEF TInv
<1> QED BY <1>1, <1>2

\* The queue that the second part takes from.
LEMMA NoLqiKeeps ==
  ASSUME TInv, NEW q, NoLqi(q)
  PROVE  Waiting(q, deleted.silent) /\ lqiIter' \in Iters
<1> DEFINE n == nodes[LqiNode]
<1>1. LqiNode \in 1 .. Len(nodes) /\ Rightly(n, LqiNode)
  BY LqiNodeIs DEF TInv, Table
<1>2. n.ext \notin deleted.silent
  BY <1>1 DEF TInv, NotSilent
<1>3. <<n.ext, n.nwk>> \in Addresses
  BY <1>1 DEF Rightly, Addresses
<1>4. q = discover \/ q = addDeviceDiscover(discover, n.ext, n.nwk)
  BY DEF NoLqi
<1>5. lqiIter' \in {lqiIter, 0, LqiNode, LqiNode - 1}
  BY DEF NoLqi
<1> HIDE DEF n
<1>6. 0 \in Iters
  BY TableAssumption, FS_CardinalityType DEF Iters
<1> QED BY <1>2, <1>3, <1>4, <1>5, <1>6, LqiNodeIs, Queued DEF TInv

\* The second part makes a node of the address, asks it, or puts it back.
LEMMA TakeKeeps ==
  ASSUME TInv, NEW q, q # <<>>, Waiting(q, deleted.silent), Take(q)
  PROVE  /\ Table(nodes') /\ NotSilent(nodes', deleted.silent)
         /\ Waiting(discover', deleted.silent) /\ Asking(addrReq')
<1> DEFINE e == Head(q)[1]
           w == Head(q)[2]
           made == createNode(nodes, e, w)
           k == IF getNode(nodes, e, w) # 0 THEN getNode(nodes, e, w) ELSE ByExt(made, e)
           n == [made[k] EXCEPT !.tried = "now"]
           tried == [made EXCEPT ![k].tried = "now"]
           works == made[k].ext = e /\ made[k].seen = "now"
<1>1. /\ Waiting(Tail(q), deleted.silent) /\ Waiting(Append(Tail(q), <<e, w>>), deleted.silent)
      /\ <<e, w>> \in Addresses /\ e \notin deleted.silent
  <2>1. Head(q) \in Addresses
    BY QueueTaken
  <2>2. Head(q) = <<e, w>>
    BY <2>1 DEF Addresses
  <2> QED BY <2>2, QueueTaken
<1>2. /\ discover' \in {Tail(q), Append(Tail(q), <<e, w>>)}
      /\ \/ nodes' = made /\ addrReq' = addrReq
         \/ /\ ~works /\ nodes' = tried /\ k # 0
            /\ \/ addrReq' = addrReq \cup {[kind |-> "nwk", ext |-> e, nwk |-> Gone]}
               \/ addrReq' = addrReq \cup {[kind |-> "ieee", ext |-> e, nwk |-> w]}
  BY DEF Take
<1>3. Table(nodes) /\ NotSilent(nodes, deleted.silent) /\ Asking(addrReq)
  BY DEF TInv
<1>4. CASE <<e, w>> = <<Own, 0>>
  <2>1. ByExt(nodes, e) = 1
    BY <1>3, <1>4, FoundByExt, TableIs DEF Table, Rightly
  <2>2. made = nodes
    BY <2>1 DEF createNode, MayCreate
  <2>3. k = 1
    BY <2>1 DEF getNode
  <2> HIDE DEF made, k
  <2>4. works
    BY <1>3, <1>4, <2>2, <2>3, TableIs DEF Table, Rightly
  <2> HIDE DEF works, e, w
  <2> QED BY <1>1, <1>2, <1>3, <2>2, <2>4
<1>5. CASE <<e, w>> # <<Own, 0>>
  <2>1. e \in Devices /\ w \in Nwks
    BY <1>1, <1>5 DEF Addresses
  <2> HIDE DEF e, w
  <2>2. Table(made) /\ NotSilent(made, deleted.silent)
    BY <1>1, <1>3, <2>1, Created
  <2>3. tried = [made EXCEPT ![k] = n]
    OBVIOUS
  <2> HIDE DEF made, k, works, tried
  <2>4. k \in 1 .. Len(made) => Rightly(n, k) /\ n.ext = made[k].ext
    <3>1. "now" \in Tries
      BY DEF Tries
    <3> QED BY <2>2, <3>1, TriedIs DEF Table
  <2> HIDE DEF n
  <2>5. Kept(tried, made)
    BY <2>2, <2>3, <2>4, Replaced
  <2>6. Table(nodes') /\ NotSilent(nodes', deleted.silent)
    BY <1>2, <2>2, <2>5, KeptSilent DEF Kept
  <2>7. Asking(addrReq')
    BY <1>2, <1>3, <2>1 DEF Asking
  <2> QED BY <1>1, <1>2, <2>6, <2>7
<1> QED BY <1>4, <1>5

LEMMA DiscoverKeeps ==
  ASSUME TInv, Discover
  PROVE  TInv'
<1>1. PICK q : NoLqi(q) /\ IF q = <<>> THEN UNCHANGED <<nodes, discover, addrReq>> ELSE Take(q)
  BY DEF Discover
<1>2. UNCHANGED <<deleted, at>>
  BY DEF Discover
<1>3. Waiting(q, deleted.silent) /\ lqiIter' \in Iters
  BY <1>1, NoLqiKeeps
<1>4. CASE q = <<>>
  BY <1>1, <1>2, <1>3, <1>4 DEF TInv
<1>5. CASE q # <<>>
  BY <1>1, <1>2, <1>3, <1>5, TakeKeeps DEF TInv
<1> QED BY <1>4, <1>5

----------------------------------------------------------------------------
LEMMA TableInit == Init => TInv
<1> SUFFICES ASSUME Init PROVE TInv
  OBVIOUS
<1> DEFINE n == [Node(Own, 0) EXCEPT !.seen = "now", !.desc = TRUE]
<1>1. nodes = <<n>> /\ discover = <<>> /\ addrReq = {} /\ lqiIter = 0
  BY DEF Init
<1>2. deleted = [soon |-> FALSE, silent |-> {}] /\ at \in [Devices -> Nwks \cup {Gone}]
  BY DEF Init
<1>3. Rightly(n, 1)
  <2> DEFINE a == Node(Own, 0)
             b == [a EXCEPT !.seen = "now"]
  <2>1. a \in NodeRec /\ a.ext = Own /\ a.nwk = 0 /\ ~a.zombie
    BY TableAssumption DEF Node, NodeRec, Tries
  <2> HIDE DEF a
  <2>2. b \in NodeRec /\ b.ext = Own /\ b.nwk = 0 /\ ~b.zombie /\ b.seen = "now"
    BY <2>1 DEF NodeRec
  <2>3. n = [b EXCEPT !.desc = TRUE]
    BY DEF a
  <2> HIDE DEF b
  <2>4. /\ [b EXCEPT !.desc = TRUE] \in NodeRec /\ [b EXCEPT !.desc = TRUE].ext = Own
        /\ [b EXCEPT !.desc = TRUE].nwk = 0 /\ ~[b EXCEPT !.desc = TRUE].zombie
        /\ [b EXCEPT !.desc = TRUE].seen = "now"
    BY <2>2 DEF NodeRec
  <2> HIDE DEF n
  <2> QED BY <2>3, <2>4 DEF Rightly
<1> HIDE DEF n
<1>4. Table(nodes)
  <2>1. <<n>> \in Seq(NodeRec) /\ Len(<<n>>) = 1 /\ <<n>>[1] = n
    BY <1>3 DEF Rightly
  <2> QED BY <1>1, <1>3, <2>1 DEF Table
<1>5. NotSilent(nodes, deleted.silent)
  BY <1>2 DEF NotSilent
<1>6. Waiting(discover, deleted.silent)
  BY <1>1 DEF Waiting, IsInjective
<1>7. 0 \in Iters
  BY TableAssumption, FS_CardinalityType DEF Iters
<1> QED BY <1>1, <1>2, <1>4, <1>5, <1>6, <1>7 DEF TInv, Asking

LEMMA TableStep == TInv /\ [Next]_tableVars => TInv'
<1> SUFFICES ASSUME TInv, [Next]_tableVars PROVE TInv'
  OBVIOUS
<1>1. CASE UNCHANGED tableVars
  BY <1>1 DEF tableVars, TInv
<1>2. CASE deviceDiscoverTick
  BY <1>2, LqiKeeps, DiscoverKeeps DEF deviceDiscoverTick
<1>3. CASE zombieTick
  BY <1>3, ZombieKeeps
<1>4. CASE Elapse \/ PermitJoin
  BY <1>4, TimeKeeps
<1>5. ASSUME NEW r \in addrReq, AddrRsp(r) \/ MgmtLqiRsp(r) \/ RequestFails(r) PROVE TInv'
  BY <1>5, AddrRspKeeps, LqiRspKeeps, FailureKeeps
<1>6. ASSUME NEW d \in Devices, Joins(d) \/ Leaves(d) PROVE TInv'
  BY <1>6, MoveKeeps
<1>7. ASSUME NEW d \in Devices, NEW x \in BOOLEAN, DeviceAnnce(d, x) \/ Indication(d, x) PROVE TInv'
  BY <1>7, AnnceKeeps, IndicationKeeps
<1>8. ASSUME NEW k \in DOMAIN nodes, NodeDescRsp(k) \/ OtherRequestFails(k) \/ deleteNode(k) PROVE TInv'
  BY <1>8, DescKeeps, OtherFailureKeeps, DeleteKeeps
<1>9. ASSUME NEW k \in DOMAIN nodes, ElapseTry(k) \/ ElapseSeen(k) PROVE TInv'
  BY <1>9, TimeKeeps
<1> QED BY <1>1, <1>2, <1>3, <1>4, <1>5, <1>6, <1>7, <1>8, <1>9 DEF Next

LEMMA TableInvariant == Spec => []TInv
  BY TableInit, TableStep, PTL DEF Spec

(* For any number of devices, any addresses they take and give up, any     *)
(* order of announcements, answers, failures and deletions: the            *)
(* coordinator stays the first node and awake, no two nodes have one MAC   *)
(* address, none is twice in the discover queue, only a node with a        *)
(* descriptor is a zombie, and no deleted node is made again before its    *)
(* device gave a sign of itself.                                           *)
THEOREM TableIsSound == Spec => []TableSafe
<1>1. TInv => TableSafe
  <2> SUFFICES ASSUME TInv PROVE TableSafe
    OBVIOUS
  <2>1. /\ DOMAIN nodes = 1 .. Len(nodes) /\ Len(nodes) \in Nat /\ Len(nodes) >= 1
        /\ \A k \in 1 .. Len(nodes) : Rightly(nodes[k], k)
        /\ \A j, k \in 1 .. Len(nodes) : nodes[j].ext = nodes[k].ext => j = k
    BY TableIs DEF TInv, Table
  <2>2. TableTypeOK
    BY <2>1 DEF TableTypeOK, Rightly, NodeRec, TInv, Iters
  <2>3. nodes[1].ext = Own /\ nodes[1].nwk = 0 /\ ~nodes[1].zombie
    BY <2>1 DEF Rightly
  <2>4. \A k \in DOMAIN nodes : nodes[k].zombie => nodes[k].desc
    BY <2>1 DEF Rightly
  <2>5. IsInjective(discover)
    BY DEF TInv, Waiting
  <2>6. \A k \in DOMAIN nodes : nodes[k].ext \notin deleted.silent
    BY <2>1 DEF TInv, NotSilent
  <2> QED BY <2>1, <2>2, <2>3, <2>4, <2>5, <2>6 DEF TableSafe
<1> QED BY <1>1, TableInvariant, PTL

----------------------------------------------------------------------------
(* Routes.                                                                 *)

Paths    == {h \in Seq(Everyone) : h # <<>> /\ IsInjective(h)}
RouteRec == [id : Ids, hops : Paths, ok : BOOLEAN, tx : Nat, err : Nat]

\* What a route is, whatever was counted for it.
Tag(r)  == <<r.id, r.hops>>
Tags(s) == {Tag(s[k]) : k \in DOMAIN s}
Routed(s) == s \in Seq(RouteRec) /\ \A j, k \in DOMAIN s : s[j].id = s[k].id => j = k

\* The place of a sequence of routes, and its elements.
LEMMA RoutedIs ==
  ASSUME NEW s, Routed(s)
  PROVE  /\ DOMAIN s = 1 .. Len(s) /\ Len(s) \in Nat /\ \A k \in DOMAIN s : s[k] \in RouteRec
BY LenProperties, ElementOfSeq DEF Routed

\* The best of the routes at the places ks is at one of them.
LEMMA BestIs ==
  ASSUME NEW s, Routed(s), NEW ks \in SUBSET DOMAIN s, ks # {}
  PROVE  BestOf(s, ks) \in ks
<1> DEFINE n == Len(s)
           T == 0 .. n
           g == [k \in 1 .. n |-> [t \in T |-> IF k \in ks /\ (t = 0 \/ Better(s[k], s[t])) THEN k ELSE t]]
           Is(f) == f = [k \in 0 .. n |-> IF k = 0 THEN 0
                      ELSE IF k \in ks /\ (f[k - 1] = 0 \/ Better(s[k], s[f[k - 1]])) THEN k ELSE f[k - 1]]
           p == CHOOSE f : Is(f)
<1>1. n \in Nat /\ ks \subseteq 1 .. n /\ 0 \in T
  BY RoutedIs
<1>2. g \in [1 .. n -> [T -> T]]
  OBVIOUS
<1>3. PICK f : f \in [0 .. n -> T] /\ IsPass(f, n, 0, g)
  <2> HIDE DEF g, T
  <2> QED BY <1>1, <1>2, PassExists
<1>4. Is(f)
  <2>1. \A k \in 0 .. n : k # 0 => k \in 1 .. n /\ k - 1 \in 0 .. n
    BY <1>1
  <2>2. \A k \in 0 .. n : f[k] \in T
    BY <1>3
  <2>3. \A k \in 1 .. n : \A t \in T : g[k][t] = IF k \in ks /\ (t = 0 \/ Better(s[k], s[t])) THEN k ELSE t
    OBVIOUS
  <2> HIDE DEF g, T
  <2>4. \A k \in 0 .. n : k # 0 =>
          g[k][f[k - 1]] = IF k \in ks /\ (f[k - 1] = 0 \/ Better(s[k], s[f[k - 1]])) THEN k ELSE f[k - 1]
    BY <2>1, <2>2, <2>3
  <2>5. f = [k \in 0 .. n |-> IF k = 0 THEN 0 ELSE g[k][f[k - 1]]]
    BY <1>3 DEF IsPass
  <2> QED BY <2>4, <2>5
<1>5. Is(p)
  <2> HIDE DEF Is
  <2> QED BY <1>4
<1>6. BestOf(s, ks) = p[n]
  BY DEF BestOf
<1>7. \A k \in 0 .. n : p[k] = IF k = 0 THEN 0
             ELSE IF k \in ks /\ (p[k - 1] = 0 \/ Better(s[k], s[p[k - 1]])) THEN k ELSE p[k - 1]
  BY <1>5
<1> HIDE DEF p, g
<1> DEFINE Good(k) == p[k] \in ks \cup {0} /\ \A j \in ks : j <= k => p[k] # 0
           S == {k \in 0 .. n : Good(k)}
<1>8. 0 \in S
  BY <1>1, <1>7
<1>9. ASSUME NEW k \in 1 .. n, k - 1 \in S PROVE k \in S
  <2>1. k \in 0 .. n /\ k # 0 /\ k - 1 \in 0 .. n
    OBVIOUS
  <2>2. p[k] = IF k \in ks /\ (p[k - 1] = 0 \/ Better(s[k], s[p[k - 1]])) THEN k ELSE p[k - 1]
    BY <1>7, <2>1
  <2>3. Good(k - 1)
    <3> HIDE DEF Good
    <3> QED BY <1>9
  <2>4. p[k] \in ks \cup {0}
    BY <2>2, <2>3
  <2>5. ASSUME NEW j \in ks, j <= k PROVE p[k] # 0
    <3>1. CASE j = k
      BY <2>1, <2>2, <3>1
    <3>2. CASE j <= k - 1
      BY <2>1, <2>2, <2>3, <3>2
    <3> QED BY <1>1, <2>1, <2>5, <3>1, <3>2
  <2> QED BY <2>1, <2>4, <2>5
<1>10. n \in S
  <2>1. S \in SUBSET (0 .. n)
    OBVIOUS
  <2> HIDE DEF S
  <2> QED BY <1>1, <1>8, <1>9, <2>1, Passed
<1>11. \E j \in ks : j <= n
  BY <1>1
<1>12. Good(n)
  <2> HIDE DEF Good
  <2> QED BY <1>10
<1> QED BY <1>6, <1>11, <1>12

\* The ids are those of the tags, and an id that is there is found.
LEMMA IdsAre ==
  ASSUME NEW s, NEW i
  PROVE  /\ i \in IdsOf(s) <=> \E t \in Tags(s) : t[1] = i
         /\ i \in IdsOf(s) => At(s, i) \in DOMAIN s /\ s[At(s, i)].id = i /\ Tag(s[At(s, i)]) \in Tags(s)
<1>1. i \in IdsOf(s) <=> \E t \in Tags(s) : t[1] = i
  <2>1. ASSUME NEW k \in DOMAIN s, s[k].id = i PROVE \E t \in Tags(s) : t[1] = i
    <3>1. Tag(s[k]) \in Tags(s) /\ Tag(s[k])[1] = i
      BY <2>1 DEF Tags, Tag
    <3> QED BY <3>1
  <2>2. ASSUME NEW t \in Tags(s), t[1] = i PROVE i \in IdsOf(s)
    <3>1. PICK k \in DOMAIN s : t = Tag(s[k])
      BY DEF Tags
    <3> QED BY <2>2, <3>1 DEF Tag, IdsOf
  <2> QED BY <2>1, <2>2 DEF IdsOf
<1>2. ASSUME i \in IdsOf(s) PROVE At(s, i) \in DOMAIN s /\ s[At(s, i)].id = i
  <2>1. \E k \in DOMAIN s : s[k].id = i
    BY <1>2 DEF IdsOf
  <2> QED BY <2>1 DEF At
<1> QED BY <1>1, <1>2 DEF Tags

\* In the table an id says what the route is.
LEMMA SameTag ==
  ASSUME NEW s, Routed(s), NEW t \in Tags(s), NEW u \in Tags(s), t[1] = u[1]
  PROVE  t = u
BY DEF Routed, Tags, Tag

\* What is counted for a route leaves it what it is.
LEMMA RouteMarked ==
  ASSUME NEW s, Routed(s), NEW k \in DOMAIN s, NEW r \in RouteRec, Tag(r) = Tag(s[k])
  PROVE  /\ Routed([s EXCEPT ![k] = r]) /\ Tags([s EXCEPT ![k] = r]) = Tags(s)
         /\ Len([s EXCEPT ![k] = r]) = Len(s)
<1> DEFINE u == [s EXCEPT ![k] = r]
<1>1. s \in Seq(RouteRec) /\ DOMAIN s = 1 .. Len(s) /\ Len(s) \in Nat
  BY RoutedIs DEF Routed
<1>2. u \in Seq(RouteRec) /\ Len(u) = Len(s) /\ DOMAIN u = DOMAIN s
  BY <1>1, ExceptSeq
<1>3. \A j \in DOMAIN u : Tag(u[j]) = Tag(s[j])
  OBVIOUS
<1> HIDE DEF u
<1>4. \A j \in DOMAIN u : u[j].id = s[j].id
  BY <1>3 DEF Tag
<1> QED BY <1>2, <1>3, <1>4 DEF Routed, Tags, u

\* A route goes.
LEMMA RouteGone ==
  ASSUME NEW s, Routed(s), NEW k \in DOMAIN s
  PROVE  /\ Routed(RemoveAt(s, k)) /\ Len(RemoveAt(s, k)) = Len(s) - 1
         /\ Tags(RemoveAt(s, k)) = {t \in Tags(s) : t[1] # s[k].id}
<1> DEFINE u == RemoveAt(s, k)
<1>1. s \in Seq(RouteRec) /\ DOMAIN s = 1 .. Len(s) /\ Len(s) \in Nat
  BY RoutedIs DEF Routed
<1>2. /\ u \in Seq(RouteRec) /\ Len(u) = Len(s) - 1
      /\ \A i \in 1 .. Len(s) - 1 : u[i] = IF i < k THEN s[i] ELSE s[i + 1]
  BY <1>1, RemoveAtProperties
<1>3. DOMAIN u = 1 .. Len(s) - 1
  BY <1>2, LenProperties
<1> HIDE DEF u
<1>4. \A i \in DOMAIN u : \E j \in DOMAIN s : j # k /\ u[i] = s[j] /\ j = IF i < k THEN i ELSE i + 1
  BY <1>1, <1>2, <1>3
<1>5. \A j \in DOMAIN s : j # k => \E i \in DOMAIN u : u[i] = s[j]
  <2> SUFFICES ASSUME NEW j \in DOMAIN s, j # k PROVE \E i \in DOMAIN u : u[i] = s[j]
    OBVIOUS
  <2>1. CASE j < k
    BY <1>1, <1>2, <1>3, <2>1
  <2>2. CASE j > k
    <3>1. j - 1 \in DOMAIN u /\ u[j - 1] = s[j]
      BY <1>1, <1>2, <1>3, <2>2
    <3> QED BY <3>1
  <2> QED BY <1>1, <2>1, <2>2
<1>6. \A i, j \in DOMAIN u : u[i].id = u[j].id => i = j
  <2> SUFFICES ASSUME NEW i \in DOMAIN u, NEW j \in DOMAIN u, u[i].id = u[j].id PROVE i = j
    OBVIOUS
  <2>1. PICK a \in DOMAIN s : u[i] = s[a] /\ a = IF i < k THEN i ELSE i + 1
    BY <1>4
  <2>2. PICK b \in DOMAIN s : u[j] = s[b] /\ b = IF j < k THEN j ELSE j + 1
    BY <1>4
  <2>3. a = b
    BY <2>1, <2>2 DEF Routed
  <2> QED BY <1>1, <1>3, <2>1, <2>2, <2>3
<1>7. Tags(u) = {t \in Tags(s) : t[1] # s[k].id}
  <2>1. \A j \in DOMAIN s : j # k <=> s[j].id # s[k].id
    BY DEF Routed
  <2>2. \A j \in DOMAIN s : Tag(s[j])[1] = s[j].id
    BY DEF Tag
  <2>3. ASSUME NEW t \in Tags(u) PROVE t \in Tags(s) /\ t[1] # s[k].id
    <3>1. PICK i \in DOMAIN u : t = Tag(u[i])
      BY DEF Tags
    <3> QED BY <1>4, <2>1, <2>2, <3>1 DEF Tags
  <2>4. ASSUME NEW t \in Tags(s), t[1] # s[k].id PROVE t \in Tags(u)
    <3>1. PICK j \in DOMAIN s : t = Tag(s[j])
      BY DEF Tags
    <3>2. j # k
      BY <2>2, <2>4, <3>1
    <3> QED BY <1>5, <3>1, <3>2 DEF Tags
  <2> QED BY <2>3, <2>4
<1> QED BY <1>2, <1>6, <1>7 DEF Routed, u

\* A route comes in at a place.
Placed(u, s, j, r) ==
  /\ u \in Seq(RouteRec) /\ Len(u) = Len(s) + 1 /\ j \in 1 .. Len(s) + 1
  /\ \A i \in 1 .. Len(s) + 1 : u[i] = IF i < j THEN s[i] ELSE IF i = j THEN r ELSE s[i - 1]

\* It is in the table then, and the others still are.
LEMMA RoutePlaced ==
  ASSUME NEW s, Routed(s), NEW r \in RouteRec, r.id \notin IdsOf(s), NEW u, NEW j, Placed(u, s, j, r)
  PROVE  Routed(u) /\ Tags(u) = Tags(s) \cup {Tag(r)}
<1>1. s \in Seq(RouteRec) /\ DOMAIN s = 1 .. Len(s) /\ Len(s) \in Nat
  BY RoutedIs DEF Routed
<1>2. DOMAIN u = 1 .. Len(s) + 1 /\ j \in DOMAIN u /\ u[j] = r /\ j \in Nat
  BY <1>1, LenProperties DEF Placed
<1>3. \A i \in DOMAIN u : i # j => \E k \in DOMAIN s : u[i] = s[k] /\ k = IF i < j THEN i ELSE i - 1
  BY <1>1, <1>2 DEF Placed
<1>4. \A k \in DOMAIN s : \E i \in DOMAIN u : u[i] = s[k]
  <2> TAKE k \in DOMAIN s
  <2>1. CASE k < j
    BY <1>1, <1>2, <2>1 DEF Placed
  <2>2. CASE k >= j
    <3>1. k + 1 \in DOMAIN u /\ k + 1 > j /\ (k + 1) - 1 = k
      BY <1>1, <1>2, <2>2
    <3>2. u[k + 1] = s[k]
      BY <1>1, <1>2, <3>1 DEF Placed
    <3> QED BY <3>1, <3>2
  <2> QED BY <1>1, <1>2, <2>1, <2>2
<1>5. \A k \in DOMAIN s : s[k].id # r.id
  BY DEF IdsOf
<1>6. ASSUME NEW i \in DOMAIN u, NEW k \in DOMAIN u, u[i].id = u[k].id PROVE i = k
  <2>1. CASE i = j
    BY <1>2, <1>3, <1>5, <1>6, <2>1
  <2>2. CASE k = j
    BY <1>2, <1>3, <1>5, <1>6, <2>2
  <2>3. CASE i # j /\ k # j
    <3>1. PICK a \in DOMAIN s : u[i] = s[a] /\ a = IF i < j THEN i ELSE i - 1
      BY <1>3, <2>3
    <3>2. PICK b \in DOMAIN s : u[k] = s[b] /\ b = IF k < j THEN k ELSE k - 1
      BY <1>3, <2>3
    <3>3. a = b
      BY <1>6, <3>1, <3>2 DEF Routed
    <3> QED BY <1>2, <2>3, <3>1, <3>2, <3>3
  <2> QED BY <2>1, <2>2, <2>3
<1>7. Tags(u) = Tags(s) \cup {Tag(r)}
  <2>1. ASSUME NEW t \in Tags(u) PROVE t \in Tags(s) \cup {Tag(r)}
    <3>1. PICK i \in DOMAIN u : t = Tag(u[i])
      BY DEF Tags
    <3> QED BY <1>2, <1>3, <3>1 DEF Tags
  <2>2. ASSUME NEW t \in Tags(s) PROVE t \in Tags(u)
    <3>1. PICK k \in DOMAIN s : t = Tag(s[k])
      BY DEF Tags
    <3> QED BY <1>4, <3>1 DEF Tags
  <2>3. Tag(r) \in Tags(u)
    BY <1>2 DEF Tags
  <2> QED BY <2>1, <2>2, <2>3
<1> QED BY <1>6, <1>7 DEF Routed, Placed

\* It comes in at the end.
LEMMA RouteAdded ==
  ASSUME NEW s, Routed(s), NEW r \in RouteRec, r.id \notin IdsOf(s)
  PROVE  /\ Routed(Append(s, r)) /\ Tags(Append(s, r)) = Tags(s) \cup {Tag(r)}
         /\ Len(Append(s, r)) = Len(s) + 1
<1>1. s \in Seq(RouteRec) /\ Len(s) \in Nat
  BY RoutedIs DEF Routed
<1>2. /\ Append(s, r) \in Seq(RouteRec) /\ Len(Append(s, r)) = Len(s) + 1
      /\ \A i \in 1 .. Len(s) : Append(s, r)[i] = s[i]
      /\ Append(s, r)[Len(s) + 1] = r
  BY <1>1, AppendProperties
<1>3. Placed(Append(s, r), s, Len(s) + 1, r)
  BY <1>1, <1>2 DEF Placed
<1> QED BY <1>2, <1>3, RoutePlaced

\* A route is put in before another.
LEMMA InsertAtIs ==
  ASSUME NEW s \in Seq(RouteRec), NEW r \in RouteRec, NEW j \in 1 .. Len(s) + 1
  PROVE  Placed(InsertAt(s, j, r), s, j, r)
<1> DEFINE a == SubSeq(s, 1, j - 1)
           b == SubSeq(s, j, Len(s))
           c == a \o <<r>>
<1>1. Len(s) \in Nat /\ \A i \in 1 .. Len(s) : s[i] \in RouteRec
  BY LenProperties, ElementOfSeq
<1>2. a \in Seq(RouteRec) /\ Len(a) = j - 1 /\ \A i \in 1 .. j - 1 : a[i] = s[i]
  <2>1. \A i \in 1 .. j - 1 : s[i] \in RouteRec
    BY <1>1
  <2>2. /\ a \in Seq(RouteRec) /\ Len(a) = IF 1 <= j - 1 THEN j - 1 - 1 + 1 ELSE 0
        /\ \A i \in 1 .. j - 1 - 1 + 1 : a[i] = s[1 + i - 1]
    BY <2>1, <1>1, SubSeqProperties
  <2> QED BY <2>2, <1>1
<1>3. /\ b \in Seq(RouteRec) /\ Len(b) = Len(s) + 1 - j
      /\ \A i \in 1 .. Len(s) + 1 - j : b[i] = s[(j - 1) + i]
  <2>1. \A i \in j .. Len(s) : s[i] \in RouteRec
    BY <1>1
  <2>2. /\ b \in Seq(RouteRec) /\ Len(b) = IF j <= Len(s) THEN Len(s) - j + 1 ELSE 0
        /\ \A i \in 1 .. Len(s) - j + 1 : b[i] = s[j + i - 1]
    BY <2>1, <1>1, SubSeqProperties
  <2> QED BY <2>2, <1>1
<1>4. <<r>> \in Seq(RouteRec) /\ Len(<<r>>) = 1 /\ <<r>>[1] = r
  OBVIOUS
<1>5. InsertAt(s, j, r) = c \o b
  BY DEF InsertAt
<1> DEFINE x == <<r>>
<1> HIDE DEF a, b, x
<1>6. /\ c \in Seq(RouteRec) /\ Len(c) = j
      /\ \A i \in 1 .. j : c[i] = IF i <= j - 1 THEN a[i] ELSE x[i - (j - 1)]
  <2>1. x \in Seq(RouteRec) /\ Len(x) = 1 /\ c = a \o x
    BY <1>4 DEF x
  <2>2. /\ a \o x \in Seq(RouteRec) /\ Len(a \o x) = Len(a) + Len(x)
        /\ \A i \in 1 .. Len(a) + Len(x) : (a \o x)[i] = IF i <= Len(a) THEN a[i] ELSE x[i - Len(a)]
    BY <2>1, <1>2, ConcatProperties
  <2> HIDE DEF c
  <2> QED BY <2>1, <2>2, <1>2
<1>7. \A i \in 1 .. j : c[i] = IF i < j THEN s[i] ELSE r
  <2>1. x[1] = r
    BY <1>4 DEF x
  <2> HIDE DEF c
  <2> QED BY <2>1, <1>2, <1>6
<1> HIDE DEF c
<1>8. /\ c \o b \in Seq(RouteRec) /\ Len(c \o b) = Len(c) + Len(b)
      /\ \A i \in 1 .. Len(c) + Len(b) : (c \o b)[i] = IF i <= Len(c) THEN c[i] ELSE b[i - Len(c)]
  BY <1>3, <1>6, ConcatProperties
<1> QED BY <1>1, <1>3, <1>5, <1>6, <1>7, <1>8 DEF Placed

\* Sorting a route in puts it at one place.
LEMMA InsertedIs ==
  ASSUME NEW s \in Seq(RouteRec), NEW r \in RouteRec
  PROVE  \E j : Placed(Inserted(s, r), s, j, r)
<1>1. DOMAIN s = 1 .. Len(s) /\ Len(s) \in Nat
  BY LenProperties
<1>2. CASE s = <<>>
  <2>1. Inserted(s, r) = <<r>> /\ Len(s) = 0
    BY <1>2 DEF Inserted
  <2>2. <<r>> \in Seq(RouteRec) /\ Len(<<r>>) = 1 /\ <<r>>[1] = r
    OBVIOUS
  <2>3. Placed(Inserted(s, r), s, 1, r)
    BY <2>1, <2>2 DEF Placed
  <2> QED BY <2>3
<1>3. CASE s # <<>> /\ Shorter(r, s[1])
  <2> DEFINE x == <<r>>
  <2>1. Inserted(s, r) = x \o s
    BY <1>3 DEF Inserted
  <2>2. x \in Seq(RouteRec) /\ Len(x) = 1 /\ x[1] = r
    OBVIOUS
  <2> HIDE DEF x
  <2>3. /\ x \o s \in Seq(RouteRec) /\ Len(x \o s) = Len(x) + Len(s)
        /\ \A i \in 1 .. Len(x) + Len(s) : (x \o s)[i] = IF i <= Len(x) THEN x[i] ELSE s[i - Len(x)]
    BY <2>2, ConcatProperties
  <2>4. Placed(Inserted(s, r), s, 1, r)
    BY <1>1, <2>1, <2>2, <2>3 DEF Placed
  <2> QED BY <2>4
<1>4. CASE s # <<>> /\ ~Shorter(r, s[1])
  <2> DEFINE S == {k \in DOMAIN s : ~Shorter(r, s[k])}
             m == Max(S)
  <2>1. S \in SUBSET (1 .. Len(s)) /\ S # {}
    <3>1. 1 \in S
      BY <1>1, <1>4, EmptySeq
    <3> QED BY <1>1, <3>1
  <2>2. m \in 1 .. Len(s)
    <3> HIDE DEF S
    <3> QED BY <1>1, <2>1, MaxIsIn
  <2>3. Inserted(s, r) = InsertAt(s, m + 1, r)
    BY <1>4 DEF Inserted
  <2> HIDE DEF m
  <2>4. m + 1 \in 1 .. Len(s) + 1
    BY <1>1, <2>2
  <2> DEFINE j == m + 1
  <2> HIDE DEF j
  <2>5. j \in 1 .. Len(s) + 1 /\ Inserted(s, r) = InsertAt(s, j, r)
    BY <2>3, <2>4 DEF j
  <2>6. Placed(Inserted(s, r), s, j, r)
    BY <2>5, InsertAtIs
  <2> QED BY <2>6
<1> QED BY <1>2, <1>3, <1>4

\* std::sort leaves the same routes, each once.
LEMMA SortedIs ==
  ASSUME NEW s, Routed(s)
  PROVE  Routed(Sorted(s)) /\ Tags(Sorted(s)) = Tags(s)
<1> DEFINE n == Len(s)
           T == Seq(RouteRec)
           g == [k \in 1 .. n |-> [t \in T |-> Inserted(t, s[k])]]
           Is(f) == f = [k \in 0 .. n |-> IF k = 0 THEN <<>> ELSE Inserted(f[k - 1], s[k])]
           p == CHOOSE f : Is(f)
<1>1. n \in Nat /\ DOMAIN s = 1 .. n /\ <<>> \in T /\ \A k \in 1 .. n : s[k] \in RouteRec
  BY RoutedIs, EmptySeq
<1>2. g \in [1 .. n -> [T -> T]]
  <2>1. \A k \in 1 .. n : \A t \in T : Inserted(t, s[k]) \in T
    BY <1>1, InsertedIs DEF Placed
  <2> HIDE DEF T
  <2> QED BY <2>1
<1>3. PICK f : f \in [0 .. n -> T] /\ IsPass(f, n, <<>>, g)
  <2> HIDE DEF g, T
  <2> QED BY <1>1, <1>2, PassExists
<1>4. Is(f)
  <2>1. \A k \in 0 .. n : k # 0 => k \in 1 .. n /\ k - 1 \in 0 .. n
    BY <1>1
  <2>2. \A k \in 0 .. n : f[k] \in T
    BY <1>3
  <2>3. \A k \in 1 .. n : \A t \in T : g[k][t] = Inserted(t, s[k])
    OBVIOUS
  <2> HIDE DEF g, T
  <2>4. \A k \in 0 .. n : k # 0 => g[k][f[k - 1]] = Inserted(f[k - 1], s[k])
    BY <2>1, <2>2, <2>3
  <2>5. f = [k \in 0 .. n |-> IF k = 0 THEN <<>> ELSE g[k][f[k - 1]]]
    BY <1>3 DEF IsPass
  <2> QED BY <2>4, <2>5
<1>5. Is(p)
  <2> HIDE DEF Is
  <2> QED BY <1>4
<1>6. Sorted(s) = p[n]
  BY DEF Sorted
<1>7. \A k \in 0 .. n : p[k] = IF k = 0 THEN <<>> ELSE Inserted(p[k - 1], s[k])
  BY <1>5
<1> HIDE DEF p, g, T
<1> DEFINE Good(k) == Routed(p[k]) /\ Tags(p[k]) = {Tag(s[i]) : i \in 1 .. k}
           S == {k \in 0 .. n : Good(k)}
<1>8. Good(0)
  <2> DEFINE e == p[0]
  <2>1. e = <<>>
    BY <1>1, <1>7
  <2>2. e \in Seq(RouteRec) /\ DOMAIN e = {}
    BY <2>1
  <2> HIDE DEF e
  <2>3. Routed(e) /\ Tags(e) = {}
    BY <2>2 DEF Routed, Tags
  <2> QED BY <2>3 DEF e
<1>9. ASSUME NEW k \in 1 .. n, Good(k - 1) PROVE Good(k)
  <2> DEFINE q == p[k - 1]
             r == s[k]
  <2>1. k \in 0 .. n /\ k # 0 /\ k \in DOMAIN s
    BY <1>1
  <2>2. Routed(q) /\ Tags(q) = {Tag(s[i]) : i \in 1 .. k - 1} /\ r \in RouteRec
    BY <1>1, <1>9
  <2>3. p[k] = Inserted(q, r)
    BY <1>7, <2>1
  <2>4. r.id \notin IdsOf(q)
    <3> SUFFICES ASSUME r.id \in IdsOf(q) PROVE FALSE
      OBVIOUS
    <3>1. PICK t \in Tags(q) : t[1] = r.id
      BY IdsAre
    <3>2. PICK i \in 1 .. k - 1 : t = Tag(s[i])
      BY <2>2, <3>1
    <3>3. s[i].id = s[k].id /\ i \in DOMAIN s /\ i # k
      BY <1>1, <3>1, <3>2 DEF Tag
    <3> QED BY <2>1, <3>3 DEF Routed
  <2> HIDE DEF q
  <2>5. PICK j : Placed(Inserted(q, r), q, j, r)
    BY <2>2, InsertedIs DEF Routed
  <2>6. Routed(Inserted(q, r)) /\ Tags(Inserted(q, r)) = Tags(q) \cup {Tag(r)}
    <3> HIDE DEF r
    <3> QED BY <2>2, <2>4, <2>5, RoutePlaced
  <2>7. {Tag(s[i]) : i \in 1 .. k} = {Tag(s[i]) : i \in 1 .. k - 1} \cup {Tag(s[k])}
    <3>1. \A i \in 1 .. k : i \in 1 .. k - 1 \/ i = k
      BY <1>1
    <3>2. k \in 1 .. k /\ \A i \in 1 .. k - 1 : i \in 1 .. k
      BY <1>1
    <3> QED BY <3>1, <3>2
  <2> QED BY <2>2, <2>3, <2>6, <2>7
<1> HIDE DEF Good
<1>10. 0 \in S /\ \A k \in 1 .. n : k - 1 \in S => k \in S
  BY <1>1, <1>8, <1>9
<1>11. n \in S
  <2>1. S \in SUBSET (0 .. n)
    OBVIOUS
  <2> HIDE DEF S
  <2> QED BY <1>1, <1>10, <2>1, Passed
<1>12. Routed(p[n]) /\ Tags(p[n]) = {Tag(s[i]) : i \in 1 .. n}
  BY <1>11 DEF Good
<1> QED BY <1>1, <1>6, <1>12 DEF Tags

\* Of the routes those with certain ids go.
LEMMA PurgedIs ==
  ASSUME NEW s, Routed(s), NEW ids
  PROVE  Routed(Purged(s, ids)) /\ Tags(Purged(s, ids)) = {t \in Tags(s) : t[1] \notin ids}
<1> DEFINE n == Len(s)
           T == Seq(RouteRec)
           Step(k, t) == IF s[k].id \in ids THEN t ELSE Append(t, s[k])
           g == [k \in 1 .. n |-> [t \in T |-> Step(k, t)]]
           Is(f) == f = [k \in 0 .. n |-> IF k = 0 THEN <<>>
                           ELSE IF s[k].id \in ids THEN f[k - 1] ELSE Append(f[k - 1], s[k])]
           p == CHOOSE f : Is(f)
<1>1. n \in Nat /\ DOMAIN s = 1 .. n /\ <<>> \in T /\ \A k \in 1 .. n : s[k] \in RouteRec
  BY RoutedIs, EmptySeq
<1>2. g \in [1 .. n -> [T -> T]]
  <2>1. \A k \in 1 .. n : \A t \in T : Append(t, s[k]) \in T
    BY <1>1, AppendProperties
  <2> HIDE DEF T
  <2> QED BY <2>1
<1>3. PICK f : f \in [0 .. n -> T] /\ IsPass(f, n, <<>>, g)
  <2> HIDE DEF g, T
  <2> QED BY <1>1, <1>2, PassExists
<1>4. Is(f)
  <2>1. \A k \in 0 .. n : k # 0 => k \in 1 .. n /\ k - 1 \in 0 .. n
    BY <1>1
  <2>2. \A k \in 0 .. n : f[k] \in T
    BY <1>3
  <2>3. \A k \in 1 .. n : \A t \in T : g[k][t] = Step(k, t)
    OBVIOUS
  <2> HIDE DEF g, T, Step
  <2>4. \A k \in 0 .. n : k # 0 => g[k][f[k - 1]] = Step(k, f[k - 1])
    BY <2>1, <2>2, <2>3
  <2>5. f = [k \in 0 .. n |-> IF k = 0 THEN <<>> ELSE g[k][f[k - 1]]]
    BY <1>3 DEF IsPass
  <2>6. f = [k \in 0 .. n |-> IF k = 0 THEN <<>> ELSE Step(k, f[k - 1])]
    BY <2>4, <2>5
  <2> QED BY <2>6 DEF Step
<1>5. Is(p)
  <2> HIDE DEF Is
  <2> QED BY <1>4
<1>6. Purged(s, ids) = p[n]
  BY DEF Purged
<1>7. \A k \in 0 .. n : p[k] = IF k = 0 THEN <<>>
             ELSE IF s[k].id \in ids THEN p[k - 1] ELSE Append(p[k - 1], s[k])
  BY <1>5
<1> HIDE DEF p, g, T
<1> DEFINE Left(k) == {i \in 1 .. k : s[i].id \notin ids}
           Good(k) == Routed(p[k]) /\ Tags(p[k]) = {Tag(s[i]) : i \in Left(k)}
           S == {k \in 0 .. n : Good(k)}
<1>8. Good(0)
  <2> DEFINE e == p[0]
  <2>1. e = <<>>
    BY <1>1, <1>7
  <2>2. e \in Seq(RouteRec) /\ DOMAIN e = {}
    BY <2>1
  <2> HIDE DEF e
  <2>3. Routed(e) /\ Tags(e) = {}
    BY <2>2 DEF Routed, Tags
  <2> QED BY <2>3 DEF e
<1>9. ASSUME NEW k \in 1 .. n, Good(k - 1) PROVE Good(k)
  <2> DEFINE q == p[k - 1]
             r == s[k]
  <2>1. k \in 0 .. n /\ k # 0 /\ k \in DOMAIN s
    BY <1>1
  <2>2. Routed(q) /\ Tags(q) = {Tag(s[i]) : i \in Left(k - 1)} /\ r \in RouteRec
    BY <1>1, <1>9
  <2>3. p[k] = IF r.id \in ids THEN q ELSE Append(q, r)
    BY <1>7, <2>1
  <2>4. \A i \in 1 .. k : i \in 1 .. k - 1 \/ i = k
    BY <1>1
  <2>5. k \in 1 .. k /\ \A i \in 1 .. k - 1 : i \in 1 .. k
    BY <1>1
  <2>6. CASE r.id \in ids
    <3>1. Left(k) = Left(k - 1)
      BY <2>4, <2>5, <2>6
    <3> HIDE DEF q, Left
    <3> QED BY <2>2, <2>3, <2>6, <3>1 DEF q
  <2>7. CASE r.id \notin ids
    <3>1. r.id \notin IdsOf(q)
      <4> SUFFICES ASSUME r.id \in IdsOf(q) PROVE FALSE
        OBVIOUS
      <4>1. PICK t \in Tags(q) : t[1] = r.id
        BY IdsAre
      <4>2. PICK i \in 1 .. k - 1 : t = Tag(s[i])
        BY <2>2, <4>1
      <4>3. s[i].id = s[k].id /\ i \in DOMAIN s /\ i # k
        BY <1>1, <4>1, <4>2 DEF Tag
      <4> QED BY <2>1, <4>3 DEF Routed
    <3>2. Routed(Append(q, r)) /\ Tags(Append(q, r)) = Tags(q) \cup {Tag(r)}
      <4> HIDE DEF q, r
      <4> QED BY <2>2, <3>1, RouteAdded
    <3>3. Left(k) = Left(k - 1) \cup {k}
      BY <2>4, <2>5, <2>7
    <3>4. {Tag(s[i]) : i \in Left(k)} = {Tag(s[i]) : i \in Left(k - 1)} \cup {Tag(s[k])}
      <4> HIDE DEF Left
      <4> QED BY <3>3
    <3> HIDE DEF q, Left
    <3> QED BY <2>2, <2>3, <2>7, <3>2, <3>4 DEF q
  <2> QED BY <2>6, <2>7
<1> HIDE DEF Good
<1>10. 0 \in S /\ \A k \in 1 .. n : k - 1 \in S => k \in S
  BY <1>1, <1>8, <1>9
<1>11. n \in S
  <2>1. S \in SUBSET (0 .. n)
    OBVIOUS
  <2> HIDE DEF S
  <2> QED BY <1>1, <1>10, <2>1, Passed
<1>12. Routed(p[n]) /\ Tags(p[n]) = {Tag(s[i]) : i \in Left(n)}
  BY <1>11 DEF Good
<1>13. {Tag(s[i]) : i \in Left(n)} = {t \in Tags(s) : t[1] \notin ids}
  <2>1. \A i \in 1 .. n : Tag(s[i])[1] = s[i].id
    BY DEF Tag
  <2> QED BY <1>1, <2>1 DEF Tags
<1> QED BY <1>6, <1>12, <1>13

----------------------------------------------------------------------------
(* What is counted for a route.                                            *)

\* The errors are counted up to a number.
LEMMA MaxErrIs == MaxErr \in Nat
<1> DEFINE S == {MaxRouteErrors, MaxBestErrors, MaxTx + 1}
           n == MaxRouteErrors + MaxBestErrors + MaxTx + 1
<1>1. MaxRouteErrors \in Nat \ {0} /\ MaxBestErrors \in Nat \ {0} /\ MaxTx \in Nat
  BY RoutesAssumption
<1>2. n \in Nat /\ MaxRouteErrors \in 1 .. n /\ MaxBestErrors \in 1 .. n /\ MaxTx + 1 \in 1 .. n
  BY <1>1
<1>3. S \in SUBSET (1 .. n) /\ S # {}
  BY <1>2
<1>4. Max(S) \in 1 .. n
  <2> HIDE DEF S, n
  <2> QED BY <1>2, <1>3, MaxIsIn
<1> QED BY <1>2, <1>4 DEF MaxErr

\* Errors, answers and whether it is whole leave a route what it is.
LEMMA WorseIs ==
  ASSUME NEW r \in RouteRec, NEW n \in Nat
  PROVE  Worse(r, n) \in RouteRec /\ Tag(Worse(r, n)) = Tag(r)
<1>1. r.err \in Nat /\ r.err + n \in Int /\ MaxErr \in Int /\ MaxErr \in Nat
  BY MaxErrIs DEF RouteRec
<1>2. Min({r.err + n, MaxErr}) = IF r.err + n <= MaxErr THEN r.err + n ELSE MaxErr
  BY <1>1, MinOfTwo
<1> DEFINE e == Min({r.err + n, MaxErr})
<1>3. e \in Nat
  BY <1>1, <1>2
<1>4. Worse(r, n) = [r EXCEPT !.err = e]
  BY DEF Worse
<1> HIDE DEF e
<1> QED BY <1>3, <1>4 DEF RouteRec, Tag

\* updateSourceRoute leaves a route what it is.
LEMMA UpdatedIs ==
  ASSUME NEW r \in RouteRec
  PROVE  updateSourceRoute(r) \in RouteRec /\ Tag(updateSourceRoute(r)) = Tag(r)
<1> DEFINE dead == {k \in 1 .. FirstLost(r) - 1 : r.hops[k] \in zombies}
           w == Worse(r, Cardinality(dead))
           b == IF Broken(r) THEN FALSE ELSE w.ok \/ (r.hops[1] = Coord /\ Linked(r.hops))
<1>1. Cardinality(dead) \in Nat
  <2> DEFINE S == {k \in DOMAIN r.hops : r.hops[k] \notin Known} \cup {Len(r.hops) + 1}
  <2>1. r.hops \in Seq(Everyone)
    BY DEF RouteRec, Paths
  <2>2. DOMAIN r.hops = 1 .. Len(r.hops) /\ Len(r.hops) \in Nat
    BY <2>1, LenProperties
  <2>3. S \in SUBSET Nat /\ S # {}
    BY <2>2
  <2>4. PICK x \in S : \A y \in S : x <= y
    <3> HIDE DEF S
    <3> QED BY <2>3, NatMin
  <2>5. Min(S) \in Nat
    <3> HIDE DEF S
    <3> QED BY <2>3, <2>4 DEF Min
  <2>6. FirstLost(r) \in Nat
    BY <2>5 DEF FirstLost
  <2>7. IsFiniteSet(1 .. FirstLost(r) - 1)
    <3> DEFINE m == FirstLost(r) - 1
    <3>1. 1 \in Int /\ m \in Int
      BY <2>6
    <3> HIDE DEF m
    <3>2. IsFiniteSet(1 .. m)
      BY <3>1, FS_Interval
    <3> QED BY <3>2 DEF m
  <2>8. IsFiniteSet(dead)
    BY <2>7, FS_Subset
  <2> QED BY <2>8, FS_CardinalityType
<1>2. w \in RouteRec /\ Tag(w) = Tag(r)
  <2> HIDE DEF dead
  <2> QED BY <1>1, WorseIs
<1>3. updateSourceRoute(r) = [w EXCEPT !.ok = b]
  BY DEF updateSourceRoute
<1> HIDE DEF w
<1>4. b \in BOOLEAN
  OBVIOUS
<1> HIDE DEF b
<1> QED BY <1>2, <1>3, <1>4 DEF RouteRec, Tag

\* An answer does, too.
LEMMA AnswerIs ==
  ASSUME NEW r \in RouteRec
  PROVE  [r EXCEPT !.tx = @ + 1] \in RouteRec /\ Tag([r EXCEPT !.tx = @ + 1]) = Tag(r)
<1>1. r.tx + 1 \in Nat
  BY DEF RouteRec
<1> QED BY <1>1 DEF RouteRec, Tag

\* A new route.
LEMMA RouteIs ==
  ASSUME NEW i \in Ids, NEW h \in Paths, NEW b \in BOOLEAN
  PROVE  /\ Route(i, h) \in RouteRec /\ [Route(i, h) EXCEPT !.ok = b] \in RouteRec
         /\ Tag(Route(i, h)) = <<i, h>> /\ Tag([Route(i, h) EXCEPT !.ok = b]) = <<i, h>>
         /\ Route(i, h).id = i /\ [Route(i, h) EXCEPT !.ok = b].id = i
BY DEF Route, RouteRec, Tag

\* A route can be drawn if all its nodes are there.
LEMMA BrokenIs ==
  ASSUME NEW r
  PROVE  ~Broken(r) <=> ToSet(Tag(r)[2]) \subseteq Known
<1>1. Tag(r)[2] = r.hops
  BY DEF Tag
<1> QED BY <1>1 DEF Broken, ToSet

----------------------------------------------------------------------------
(* The copies.                                                             *)

\* The copies c of the node n are routes of the table that end at it.
Owned(n, c, rs) == Routed(c) /\ \A t \in Tags(c) : t \in Tags(rs) /\ Last(t[2]) = n
Copied(cs, rs)  == cs \in [Everyone -> Seq(RouteRec)] /\ \A n \in Everyone : Owned(n, cs[n], rs)

\* With more routes in the table they still are.
LEMMA StillCopied ==
  ASSUME NEW cs, NEW rs, NEW us, Copied(cs, rs), Tags(rs) \subseteq Tags(us)
  PROVE  Copied(cs, us)
BY DEF Copied, Owned

\* The copies of one node change.
LEMMA OneCopied ==
  ASSUME NEW cs, NEW rs, Copied(cs, rs), NEW n, NEW c, n \in Everyone => Owned(n, c, rs)
  PROVE  Copied([cs EXCEPT ![n] = c], rs)
<1>1. n \in Everyone => c \in Seq(RouteRec)
  BY DEF Owned, Routed
<1> QED BY <1>1 DEF Copied

\* No copies at all,
LEMMA NoneOwned ==
  ASSUME NEW n, NEW rs
  PROVE  Owned(n, <<>>, rs)
<1> DEFINE e == <<>>
<1>1. e \in Seq(RouteRec) /\ DOMAIN e = {}
  OBVIOUS
<1> HIDE DEF e
<1>2. Owned(n, e, rs)
  BY <1>1 DEF Owned, Routed, Tags
<1> QED BY <1>2 DEF e

\* one copy of a route that ends here,
LEMMA SingleOwned ==
  ASSUME NEW n, NEW rs, NEW r \in RouteRec, Tag(r) \in Tags(rs), Last(r.hops) = n
  PROVE  Owned(n, <<r>>, rs)
<1> DEFINE e == <<r>>
<1>1. e \in Seq(RouteRec) /\ DOMAIN e = {1} /\ e[1] = r
  OBVIOUS
<1> HIDE DEF e
<1>2. Tags(e) = {Tag(r)} /\ Tag(r)[2] = r.hops
  BY <1>1 DEF Tags, Tag
<1>3. Owned(n, e, rs)
  BY <1>1, <1>2 DEF Owned, Routed
<1> QED BY <1>3 DEF e

\* or one more of them are copies of the node.
LEMMA AddToOwned ==
  ASSUME NEW n, NEW rs, Routed(rs), NEW c, Owned(n, c, rs), NEW r \in RouteRec, Tag(r) \in Tags(rs),
         Last(r.hops) = n
  PROVE  Owned(n, AddTo(c, r), rs)
<1>0. Routed(c) /\ Tag(r)[1] = r.id /\ Tag(r)[2] = r.hops
  BY DEF Owned, Tag
<1>1. CASE r.id \in IdsOf(c)
  <2> DEFINE k == At(c, r.id)
  <2>1. k \in DOMAIN c /\ c[k].id = r.id /\ Tag(c[k]) \in Tags(c)
    BY <1>1, IdsAre
  <2>2. AddTo(c, r) = [c EXCEPT ![k] = r]
    BY <1>1 DEF AddTo
  <2> HIDE DEF k
  <2>3. Tag(c[k]) \in Tags(rs) /\ Tag(c[k])[1] = r.id
    BY <2>1 DEF Owned, Tag
  <2>4. Tag(c[k]) = Tag(r)
    BY <1>0, <2>3, SameTag
  <2>5. Routed([c EXCEPT ![k] = r]) /\ Tags([c EXCEPT ![k] = r]) = Tags(c)
    BY <1>0, <2>1, <2>4, RouteMarked
  <2> QED BY <2>2, <2>5 DEF Owned
<1>2. CASE r.id \notin IdsOf(c)
  <2>1. Routed(Append(c, r)) /\ Tags(Append(c, r)) = Tags(c) \cup {Tag(r)} /\ AddTo(c, r) = Append(c, r)
    BY <1>0, <1>2, RouteAdded DEF AddTo
  <2> QED BY <1>0, <2>1 DEF Owned
<1> QED BY <1>1, <1>2

\* removeSourceRoute takes the route with the id out, if there is one.
LEMMA WithoutIs ==
  ASSUME NEW c, Routed(c), NEW i
  PROVE  Routed(Without(c, i)) /\ Tags(Without(c, i)) = {t \in Tags(c) : t[1] # i}
<1>1. CASE i \in IdsOf(c)
  <2> DEFINE k == At(c, i)
  <2>1. k \in DOMAIN c /\ c[k].id = i
    BY <1>1, IdsAre
  <2> HIDE DEF k
  <2>2. Routed(RemoveAt(c, k)) /\ Tags(RemoveAt(c, k)) = {t \in Tags(c) : t[1] # i}
    BY <2>1, RouteGone
  <2> QED BY <1>1, <2>2 DEF Without, k
<1>2. CASE i \notin IdsOf(c)
  <2>1. \A t \in Tags(c) : t[1] # i
    BY <1>2, IdsAre
  <2> QED BY <1>2, <2>1 DEF Without
<1> QED BY <1>1, <1>2

\* A route leaves the table and the node it ends at, and no other has a copy.
LEMMA WithoutCopied ==
  ASSUME NEW rs, Routed(rs), NEW cs, Copied(cs, rs), NEW k \in DOMAIN rs, NEW i, i = rs[k].id
  PROVE  Copied([cs EXCEPT ![Last(rs[k].hops)] = Without(@, i)], RemoveAt(rs, k))
<1> DEFINE n == Last(rs[k].hops)
           us == RemoveAt(rs, k)
           ds == [cs EXCEPT ![n] = Without(@, i)]
<1>1. Tags(us) = {t \in Tags(rs) : t[1] # i}
  BY RouteGone
<1>2. Tag(rs[k]) \in Tags(rs) /\ Tag(rs[k])[1] = i /\ Last(Tag(rs[k])[2]) = n
  BY DEF Tags, Tag
<1> HIDE DEF n, us
<1>3. ASSUME NEW m \in Everyone PROVE Owned(m, ds[m], us)
  <2>1. Owned(m, cs[m], rs) /\ Routed(cs[m])
    BY DEF Copied, Owned
  <2>2. CASE m = n
    <3>1. ds[m] = Without(cs[m], i)
      BY <2>2 DEF Copied
    <3>2. Routed(Without(cs[m], i)) /\ Tags(Without(cs[m], i)) = {t \in Tags(cs[m]) : t[1] # i}
      BY <2>1, WithoutIs
    <3> QED BY <1>1, <2>1, <3>1, <3>2 DEF Owned
  <2>3. CASE m # n
    <3>1. ds[m] = cs[m]
      BY <2>3 DEF Copied
    <3>2. ASSUME NEW t \in Tags(cs[m]) PROVE t[1] # i
      <4>1. t \in Tags(rs) /\ Last(t[2]) = m
        BY <2>1 DEF Owned
      <4>2. t[1] = i => t = Tag(rs[k])
        BY <1>2, <4>1, SameTag
      <4> QED BY <1>2, <2>3, <4>1, <4>2
    <3> QED BY <1>1, <2>1, <3>1, <3>2 DEF Owned
  <2> QED BY <2>2, <2>3
<1>4. ds \in [Everyone -> Seq(RouteRec)]
  <2>1. \A m \in Everyone : ds[m] \in Seq(RouteRec)
    BY <1>3 DEF Owned, Routed
  <2>2. DOMAIN ds = Everyone /\ ds = [m \in Everyone |-> ds[m]]
    BY DEF Copied
  <2> HIDE DEF ds
  <2> QED BY <2>1, <2>2
<1> HIDE DEF ds
<1>5. Copied(ds, us)
  BY <1>3, <1>4 DEF Copied
<1> QED BY <1>5 DEF ds, us, n

----------------------------------------------------------------------------
(* One turn of SR_CalculateRouteForNode.                                   *)

\* What becomes of the routes rs: what is gone is signalled, and a new route is not drawn yet.
Fine(c, rs) ==
  /\ Routed(c.routes) /\ Copied(c.copies, c.routes)
  /\ c.gone \subseteq IdsOf(rs) /\ c.shown \subseteq IdsOf(c.routes)
  /\ IdsOf(rs) \subseteq IdsOf(c.routes) \cup c.gone
  /\ \A t \in Tags(c.routes) : t \in Tags(rs) \/ t[1] \notin scene

\* No route goes, and no copy changes.
LEMMA MoreIsFine ==
  ASSUME NEW rs, NEW us, Routed(us), Copied(copies, rs), Tags(rs) \subseteq Tags(us),
         \A t \in Tags(us) : t \in Tags(rs) \/ t[1] \notin scene, NEW tr
  PROVE  Fine(Result(us, copies, tr, {}, {}), rs)
<1>1. Copied(copies, us)
  BY StillCopied
<1>2. \A i \in IdsOf(rs) : i \in IdsOf(us)
  BY IdsAre
<1> QED BY <1>1, <1>2 DEF Fine, Result

\* A route that ends at the node is updated, or goes.
LEMMA UpdateIsFine ==
  ASSUME NEW rs, Routed(rs), Copied(copies, rs), NEW k \in DOMAIN rs, NEW n \in Everyone,
         Last(rs[k].hops) = n
  PROVE  Fine(UpdateRoute(n, k, rs), rs)
<1> DEFINE r == updateSourceRoute(rs[k])
           kept == [rs EXCEPT ![k] = r]
           fails == r.err >= MaxRouteErrors /\ r.tx < r.err
           tr == IF Trashed(r.hops) # {} THEN trash ELSE Append(trash, [hops |-> r.hops, ttl |-> MaxRouteTtl])
<1>1. rs[k] \in RouteRec
  BY RoutedIs
<1>2. r \in RouteRec /\ Tag(r) = Tag(rs[k])
  BY <1>1, UpdatedIs
<1>3. UpdateRoute(n, k, rs) =
        IF fails /\ ~warm THEN Result(kept, copies, trash, {}, {})
        ELSE IF fails
        THEN Result(RemoveAt(rs, k), [copies EXCEPT ![n] = Without(@, r.id)], tr, {r.id}, {})
        ELSE IF r.ok # rs[k].ok /\ r.id \in IdsOf(copies[n])
        THEN Result(kept, [copies EXCEPT ![n] = AddTo(@, r)], trash, {}, {r.id})
        ELSE Result(kept, copies, trash, {}, {})
  BY DEF UpdateRoute, Same
<1> HIDE DEF r, fails, tr
<1>4. r.id = rs[k].id /\ r.hops = rs[k].hops /\ Tag(r) \in Tags(rs) /\ r.id \in IdsOf(rs)
  BY <1>2 DEF Tag, Tags, IdsOf
<1>5. Routed(kept) /\ Tags(kept) = Tags(rs)
  BY <1>2, RouteMarked
<1> HIDE DEF kept
<1>6. Fine(Result(kept, copies, trash, {}, {}), rs)
  BY <1>5, MoreIsFine
<1>7. Fine(Result(RemoveAt(rs, k), [copies EXCEPT ![n] = Without(@, r.id)], tr, {r.id}, {}), rs)
  <2> DEFINE us == RemoveAt(rs, k)
             cs == [copies EXCEPT ![n] = Without(@, r.id)]
  <2>1. Routed(us) /\ Tags(us) = {t \in Tags(rs) : t[1] # r.id}
    BY <1>4, RouteGone
  <2>2. Copied(cs, us)
    BY <1>4, WithoutCopied
  <2> HIDE DEF us, cs
  <2>3. \A i \in IdsOf(rs) : i \in IdsOf(us) \cup {r.id}
    BY <2>1, IdsAre
  <2>4. Fine(Result(us, cs, tr, {r.id}, {}), rs)
    BY <1>4, <2>1, <2>2, <2>3 DEF Fine, Result
  <2> QED BY <2>4 DEF us, cs
<1>8. Fine(Result(kept, [copies EXCEPT ![n] = AddTo(@, r)], trash, {}, {r.id}), rs)
  <2> DEFINE c == AddTo(copies[n], r)
             cs == [copies EXCEPT ![n] = c]
  <2>1. Copied(copies, kept)
    BY <1>5, StillCopied
  <2>2. Owned(n, copies[n], kept) /\ Tag(r) \in Tags(kept) /\ Last(r.hops) = n
    BY <1>4, <1>5, <2>1 DEF Copied
  <2>3. Owned(n, c, kept)
    BY <1>2, <1>5, <2>2, AddToOwned
  <2> HIDE DEF c
  <2>4. Copied(cs, kept)
    BY <2>1, <2>3, OneCopied
  <2>5. IdsOf(rs) \subseteq IdsOf(kept) /\ r.id \in IdsOf(kept)
    BY <1>4, <1>5, IdsAre
  <2> HIDE DEF cs
  <2>6. Fine(Result(kept, cs, trash, {}, {r.id}), rs)
    BY <1>5, <2>4, <2>5 DEF Fine, Result
  <2> QED BY <2>6 DEF cs, c
<1> QED BY <1>3, <1>6, <1>7, <1>8

\* A path that is extended to a node it does not pass is a path to that node.
LEMMA LongerPath ==
  ASSUME NEW h \in Paths, NEW n \in Everyone, n \notin ToSet(h)
  PROVE  Append(h, n) \in Paths /\ Last(Append(h, n)) = n
<1>1. h \in Seq(Everyone) /\ Len(h) \in Nat /\ DOMAIN h = 1 .. Len(h) /\ IsInjective(h)
  BY LenProperties DEF Paths
<1> DEFINE u == Append(h, n)
<1>2. /\ u \in Seq(Everyone) /\ Len(u) = Len(h) + 1 /\ u[Len(h) + 1] = n
      /\ \A i \in 1 .. Len(h) : u[i] = h[i]
  BY <1>1, AppendProperties
<1> HIDE DEF u
<1>3. DOMAIN u = 1 .. Len(h) + 1
  BY <1>1, <1>2, LenProperties
<1>4. \A i \in DOMAIN u : i = Len(h) + 1 \/ i \in DOMAIN h
  BY <1>1, <1>3
<1>5. \A i \in DOMAIN h : u[i] = h[i] /\ h[i] # n
  BY <1>1, <1>2 DEF ToSet
<1>6. \A i, j \in DOMAIN h : h[i] = h[j] => i = j
  BY <1>1 DEF IsInjective
<1>7. \A i, j \in DOMAIN u : u[i] = u[j] => i = j
  BY <1>2, <1>4, <1>5, <1>6
<1>8. u # <<>>
  <2> SUFFICES ASSUME u = <<>> PROVE FALSE
    OBVIOUS
  <2>1. Len(u) = 0
    BY EmptySeq
  <2> QED BY <1>1, <1>2, <2>1
<1>9. Last(u) = n
  BY <1>2 DEF Last
<1>10. IsInjective(u)
  BY <1>7 DEF IsInjective
<1> QED BY <1>2, <1>8, <1>9, <1>10 DEF Paths, u

\* A new id is in use nowhere.
LEMMA NewIdIs ==
  ASSUME NEW rs, FreshIds \ IdsOf(rs) # {}
  PROVE  NewId(rs) \in Ids /\ NewId(rs) \notin IdsOf(rs) /\ NewId(rs) \notin scene
BY DEF NewId, FreshIds

\* A route is extended to a node that it does not pass.
LEMMA ExtendIsFine ==
  ASSUME NEW rs, Routed(rs), Copied(copies, rs), NEW k \in DOMAIN rs, NEW n \in Everyone,
         n \notin ToSet(rs[k].hops), FreshIds \ IdsOf(rs) # {}
  PROVE  Fine(ExtendRoute(n, k, rs), rs)
<1> DEFINE hops == Append(rs[k].hops, n)
           new == [Route(NewId(rs), hops) EXCEPT !.ok = rs[k].ok]
           old == Trashed(hops)
           t == CHOOSE j \in old : TRUE
           tr == IF trash[t].ttl = 1 THEN RemoveAt(trash, t) ELSE [trash EXCEPT ![t].ttl = @ - 1]
           us == Append(rs, new)
<1>1. \/ ExtendRoute(n, k, rs) = Result(rs, copies, trash, {}, {})
      \/ ExtendRoute(n, k, rs) = Result(rs, copies, tr, {}, {})
      \/ ExtendRoute(n, k, rs) = Result(us, copies, trash, {}, {})
      \/ ExtendRoute(n, k, rs) = Result(us, [copies EXCEPT ![n] = <<new>>], trash, {}, {new.id})
  BY DEF ExtendRoute, Same
<1>2. rs[k] \in RouteRec
  BY RoutedIs
<1>3. hops \in Paths /\ Last(hops) = n
  BY <1>2, LongerPath DEF RouteRec
<1>4. NewId(rs) \in Ids /\ NewId(rs) \notin IdsOf(rs) /\ NewId(rs) \notin scene
  BY NewIdIs
<1>5. new \in RouteRec /\ new.id = NewId(rs) /\ Tag(new) = <<NewId(rs), hops>>
  <2>1. rs[k].ok \in BOOLEAN
    BY <1>2 DEF RouteRec
  <2> HIDE DEF hops
  <2> QED BY <2>1, <1>3, <1>4, RouteIs
<1>6. Tag(new)[1] = new.id /\ Tag(new)[2] = new.hops /\ new.hops = hops
  BY <1>5 DEF Tag
<1> HIDE DEF new, tr, hops
<1>7. Routed(us) /\ Tags(us) = Tags(rs) \cup {Tag(new)}
  BY <1>4, <1>5, RouteAdded
<1> HIDE DEF us
<1>8. \A x \in Tags(us) : x \in Tags(rs) \/ x[1] \notin scene
  BY <1>4, <1>5, <1>6, <1>7
<1>9. Fine(Result(rs, copies, trash, {}, {}), rs) /\ Fine(Result(rs, copies, tr, {}, {}), rs)
  BY MoreIsFine
<1>10. Fine(Result(us, copies, trash, {}, {}), rs)
  BY <1>7, <1>8, MoreIsFine
<1>11. Fine(Result(us, [copies EXCEPT ![n] = <<new>>], trash, {}, {new.id}), rs)
  <2>1. Copied(copies, us)
    BY <1>7, StillCopied
  <2>2. Owned(n, <<new>>, us)
    BY <1>3, <1>5, <1>6, <1>7, SingleOwned
  <2> DEFINE c == <<new>>
             cs == [copies EXCEPT ![n] = c]
  <2>3. Copied(cs, us)
    <3> HIDE DEF c
    <3> QED BY <2>1, <2>2, OneCopied DEF c
  <2> HIDE DEF cs
  <2>4. new.id \in IdsOf(us) /\ \A i \in IdsOf(rs) : i \in IdsOf(us)
    BY <1>6, <1>7, IdsAre
  <2>5. Fine(Result(us, cs, trash, {}, {new.id}), rs)
    BY <1>7, <1>8, <2>3, <2>4 DEF Fine, Result
  <2> QED BY <2>5 DEF cs
<1> QED BY <1>1, <1>9, <1>10, <1>11

\* So nothing calculateRouteForNode does to a route harms.
LEMMA CalculateIsFine ==
  ASSUME NEW rs, Routed(rs), Copied(copies, rs), NEW k \in DOMAIN rs, NEW n \in Everyone,
         FreshIds \ IdsOf(rs) # {}
  PROVE  Fine(calculateRoute(n, k, rs), rs)
<1>1. Fine(Same(rs), rs)
  BY MoreIsFine DEF Same
<1>2. CASE n # Coord /\ Last(rs[k].hops) = n
  BY <1>2, UpdateIsFine DEF calculateRoute
<1>3. CASE n # Coord /\ Last(rs[k].hops) # n /\ n \notin ToSet(rs[k].hops)
  BY <1>3, ExtendIsFine DEF calculateRoute
<1> QED BY <1>1, <1>2, <1>3 DEF calculateRoute

\* The node that is next gets the best of its routes.
LEMMA SelectIsFine ==
  ASSUME NEW n \in Everyone, NEW rs, Routed(rs), NEW cs, Copied(cs, rs)
  PROVE  LET b == selectBest(n, rs, cs)
         IN  Copied(b.copies, rs) /\ b.gone \subseteq IdsOf(rs) /\ b.shown \subseteq IdsOf(rs)
<1> DEFINE dst == sourceRoutesForDestination(n, rs)
           best == rs[BestOf(rs, dst)]
           b == selectBest(n, rs, cs)
<1>1. CASE dst = {} \/ (cs[n] # <<>> /\ cs[n][1].ok) \/ ~best.ok \/ best.err >= MaxBestErrors
  <2>1. b = [copies |-> cs, gone |-> {}, shown |-> {}]
    BY <1>1 DEF selectBest
  <2> QED BY <2>1
<1>2. CASE ~(dst = {} \/ (cs[n] # <<>> /\ cs[n][1].ok) \/ ~best.ok \/ best.err >= MaxBestErrors)
  <2>1. b = [copies |-> [cs EXCEPT ![n] = <<best>>], gone |-> IdsOf(cs[n]) \ {best.id}, shown |-> {best.id}]
    BY <1>2 DEF selectBest
  <2>2. dst \in SUBSET DOMAIN rs /\ dst # {} /\ \A k \in dst : Last(rs[k].hops) = n
    BY <1>2 DEF sourceRoutesForDestination
  <2> HIDE DEF dst
  <2>3. BestOf(rs, dst) \in dst
    BY <2>2, BestIs
  <2>4. best \in RouteRec /\ Tag(best) \in Tags(rs) /\ Last(best.hops) = n /\ best.id \in IdsOf(rs)
    BY <2>2, <2>3, RoutedIs DEF Tags, IdsOf
  <2> HIDE DEF best
  <2>5. Owned(n, <<best>>, rs)
    BY <2>4, SingleOwned
  <2>6. Copied([cs EXCEPT ![n] = <<best>>], rs)
    <3> DEFINE c == <<best>>
    <3> HIDE DEF c
    <3> QED BY <2>5, OneCopied DEF c
  <2>7. \A i \in IdsOf(cs[n]) : i \in IdsOf(rs)
    BY IdsAre DEF Copied, Owned
  <2> QED BY <2>1, <2>4, <2>6, <2>7
<1> QED BY <1>1, <1>2

----------------------------------------------------------------------------
(* The invariant.                                                          *)

\* The table rs, the copies cs, the deletions under way and the drawings fit; kn are the nodes.
Sound(rs, cs, sg, sc, kn) ==
  /\ Routed(rs) /\ Copied(cs, rs)
  /\ sg \subseteq Ids /\ sc \subseteq IdsOf(rs) \cup sg
  /\ \A t \in Tags(rs) : t[1] \in sc => ToSet(t[2]) \subseteq kn

TableWell  == table \in Seq(Everyone) /\ IsInjective(table) /\ Coord \in Known
RoutesWell ==
  /\ Sound(routes, copies, signalled, scene, Known) /\ TableWell
  /\ sent \subseteq Ids /\ nodeIter \in 0 .. Cardinality(Everyone) /\ routeIter \in Nat

\* The ids of a table are ids.
LEMMA IdsIn ==
  ASSUME NEW s, Routed(s)
  PROVE  IdsOf(s) \subseteq Ids
BY RoutedIs DEF IdsOf, RouteRec

\* There are not more nodes in the table than nodes.
LEMMA KnownIs ==
  ASSUME TableWell
  PROVE  /\ DOMAIN table = 1 .. Len(table) /\ Len(table) \in 1 .. Cardinality(Everyone)
         /\ Cardinality(Everyone) \in Nat /\ \A k \in DOMAIN table : table[k] \in Everyone
         /\ Known \subseteq Everyone
<1>1. table \in Seq(Everyone) /\ DOMAIN table = 1 .. Len(table) /\ Len(table) \in Nat
  BY LenProperties DEF TableWell
<1>2. \A k \in DOMAIN table : table[k] \in Everyone
  BY <1>1, ElementOfSeq
<1>3. IsFiniteSet(Everyone)
  <2>1. IsFiniteSet(Routers)
    BY RoutesAssumption
  <2>2. IsFiniteSet(Routers \cup {Coord})
    BY <2>1, FS_AddElement
  <2>3. Everyone = Routers \cup {Coord}
    BY DEF Everyone
  <2> QED BY <2>2, <2>3
<1>4. Cardinality(Everyone) \in Nat
  BY <1>3, FS_CardinalityType
<1>5. Len(table) <= Cardinality(Everyone)
  <2> DEFINE D == 1 .. Len(table)
  <2>1. table \in [D -> Everyone]
    BY <1>1, <1>2
  <2>2. table \in Injection(D, Everyone)
    BY <1>1, <2>1 DEF Injection, TableWell, IsInjective
  <2>3. Cardinality(D) <= Cardinality(Everyone)
    <3> HIDE DEF D
    <3> QED BY <1>3, <2>2, FS_Injection
  <2>4. Cardinality(D) = Len(table)
    <3>1. 1 \in Int /\ Len(table) \in Int /\ 1 <= Len(table) + 1
      BY <1>1
    <3>2. Cardinality(1 .. Len(table)) = IF 1 > Len(table) THEN 0 ELSE Len(table) - 1 + 1
      BY <3>1, FS_Interval
    <3> QED BY <1>1, <3>2
  <2> QED BY <2>3, <2>4
<1>6. Len(table) # 0
  <2>1. PICK k \in DOMAIN table : table[k] = Coord
    BY DEF TableWell, Known, ToSet
  <2> QED BY <1>1, <2>1
<1> QED BY <1>1, <1>2, <1>4, <1>5, <1>6 DEF Known, ToSet

\* The coordinator's own route is there before a route is looked at.
LEMMA WithCoordIs ==
  ASSUME Routed(routes), Copied(copies, routes), FreshIds # {}
  PROVE  /\ Routed(WithCoord) /\ Copied(copies, WithCoord) /\ Tags(routes) \subseteq Tags(WithCoord)
         /\ \A t \in Tags(WithCoord) : t \in Tags(routes) \/ t[1] \notin scene
         /\ Len(WithCoord) \in Nat \ {0}
<1> DEFINE h == <<Coord>>
           r == Route(NewId(routes), h)
<1>1. h \in Paths
  <2>1. h \in Seq(Everyone) /\ DOMAIN h = {1} /\ h # <<>>
    BY DEF Everyone
  <2> HIDE DEF h
  <2> QED BY <2>1 DEF Paths, IsInjective
<1>2. NewId(routes) \in Ids /\ NewId(routes) \notin IdsOf(routes) /\ NewId(routes) \notin scene
  <2>1. FreshIds \ IdsOf(routes) # {}
    BY DEF FreshIds
  <2> QED BY <2>1, NewIdIs
<1>3. r \in RouteRec /\ r.id = NewId(routes) /\ Tag(r)[1] = r.id
  <2> HIDE DEF h
  <2> QED BY <1>1, <1>2, RouteIs DEF Tag
<1>4. WithCoord = IF routes = <<>> \/ ~started THEN Append(routes, r) ELSE routes
  BY DEF WithCoord
<1> HIDE DEF r
<1>5. CASE routes = <<>> \/ ~started
  <2> DEFINE us == Append(routes, r)
  <2>1. Routed(us) /\ Tags(us) = Tags(routes) \cup {Tag(r)} /\ Len(us) = Len(routes) + 1
    BY <1>2, <1>3, RouteAdded
  <2>2. WithCoord = us
    BY <1>4, <1>5
  <2> HIDE DEF us
  <2>3. Copied(copies, us)
    BY <2>1, StillCopied
  <2>4. Len(us) \in Nat \ {0}
    BY <2>1, RoutedIs
  <2> QED BY <1>2, <1>3, <2>1, <2>2, <2>3, <2>4
<1>6. CASE ~(routes = <<>> \/ ~started)
  <2>1. WithCoord = routes
    BY <1>4, <1>6
  <2>2. Len(routes) \in Nat /\ routes \in Seq(RouteRec)
    BY RoutedIs DEF Routed
  <2>3. Len(routes) # 0
    BY <1>6, <2>2, EmptySeq
  <2> QED BY <2>1, <2>2, <2>3
<1> QED BY <1>5, <1>6

\* One turn of the search.
LEMMA SearchKeeps == RoutesWell /\ SR_CalculateRouteForNode => RoutesWell'
<1> SUFFICES ASSUME RoutesWell, SR_CalculateRouteForNode PROVE RoutesWell'
  OBVIOUS
<1> DEFINE m == (nodeIter % Len(table)) + 1
           n == table[m]
<1>0. /\ Routed(routes) /\ Copied(copies, routes) /\ FreshIds # {} /\ FreshIds \ IdsOf(WithCoord) # {}
      /\ UNCHANGED <<table, zombies, warm, sent, user>> /\ TableWell
  BY DEF RoutesWell, Sound, SR_CalculateRouteForNode
<1>1. PICK rs \in {WithCoord} :
      \E c \in {calculateRoute(n, (routeIter % Len(rs)) + 1, rs)} :
      \E end \in {Len(c.routes) # Len(rs) \/ routeIter + 1 >= Len(c.routes)} :
      \E b \in {IF end THEN selectBest(n, c.routes, c.copies)
                ELSE [copies |-> c.copies, gone |-> {}, shown |-> {}]} :
        /\ routes' = IF Len(c.routes) > Len(rs) THEN Sorted(c.routes) ELSE c.routes
        /\ copies' = b.copies /\ trash' = c.trash
        /\ signalled' = signalled \cup c.gone \cup b.gone
        /\ scene' = scene \cup {i \in c.shown \cup b.shown : ~Broken(c.routes[At(c.routes, i)])}
        /\ routeIter' = IF end THEN 0 ELSE routeIter + 1
        /\ nodeIter' = IF end THEN (nodeIter + 1) % Len(table) ELSE nodeIter
  BY DEF SR_CalculateRouteForNode
<1> DEFINE k == (routeIter % Len(rs)) + 1
<1>2. PICK c \in {calculateRoute(n, k, rs)} :
      \E end \in {Len(c.routes) # Len(rs) \/ routeIter + 1 >= Len(c.routes)} :
      \E b \in {IF end THEN selectBest(n, c.routes, c.copies)
                ELSE [copies |-> c.copies, gone |-> {}, shown |-> {}]} :
        /\ routes' = IF Len(c.routes) > Len(rs) THEN Sorted(c.routes) ELSE c.routes
        /\ copies' = b.copies
        /\ signalled' = signalled \cup c.gone \cup b.gone
        /\ scene' = scene \cup {i \in c.shown \cup b.shown : ~Broken(c.routes[At(c.routes, i)])}
        /\ routeIter' = IF end THEN 0 ELSE routeIter + 1
        /\ nodeIter' = IF end THEN (nodeIter + 1) % Len(table) ELSE nodeIter
  BY <1>1
<1>3. PICK end \in BOOLEAN :
      \E b \in {IF end THEN selectBest(n, c.routes, c.copies)
                ELSE [copies |-> c.copies, gone |-> {}, shown |-> {}]} :
        /\ routes' = IF Len(c.routes) > Len(rs) THEN Sorted(c.routes) ELSE c.routes
        /\ copies' = b.copies
        /\ signalled' = signalled \cup c.gone \cup b.gone
        /\ scene' = scene \cup {i \in c.shown \cup b.shown : ~Broken(c.routes[At(c.routes, i)])}
        /\ routeIter' = IF end THEN 0 ELSE routeIter + 1
        /\ nodeIter' = IF end THEN (nodeIter + 1) % Len(table) ELSE nodeIter
  BY <1>2
<1>4. PICK b \in {IF end THEN selectBest(n, c.routes, c.copies)
                  ELSE [copies |-> c.copies, gone |-> {}, shown |-> {}]} :
        /\ routes' = IF Len(c.routes) > Len(rs) THEN Sorted(c.routes) ELSE c.routes
        /\ copies' = b.copies
        /\ signalled' = signalled \cup c.gone \cup b.gone
        /\ scene' = scene \cup {i \in c.shown \cup b.shown : ~Broken(c.routes[At(c.routes, i)])}
        /\ routeIter' = IF end THEN 0 ELSE routeIter + 1
        /\ nodeIter' = IF end THEN (nodeIter + 1) % Len(table) ELSE nodeIter
  BY <1>3
<1>5. /\ Routed(rs) /\ Copied(copies, rs) /\ Tags(routes) \subseteq Tags(rs)
      /\ \A t \in Tags(rs) : t \in Tags(routes) \/ t[1] \notin scene
      /\ Len(rs) \in Nat \ {0} /\ FreshIds \ IdsOf(rs) # {}
  BY <1>0, <1>1, WithCoordIs
<1>6. /\ DOMAIN table = 1 .. Len(table) /\ Len(table) \in 1 .. Cardinality(Everyone)
      /\ Cardinality(Everyone) \in Nat /\ \A j \in DOMAIN table : table[j] \in Everyone
  BY <1>0, KnownIs
<1>7. n \in Everyone
  <2>1. nodeIter \in Int /\ Len(table) \in Nat \ {0}
    BY <1>6 DEF RoutesWell
  <2>2. nodeIter % Len(table) \in 0 .. Len(table) - 1
    BY <2>1, DivMod
  <2>3. m \in DOMAIN table
    BY <1>6, <2>1, <2>2
  <2> QED BY <1>6, <2>3
<1>8. nodeIter' \in 0 .. Cardinality(Everyone) /\ routeIter' \in Nat
  <2>1. nodeIter \in Int /\ nodeIter + 1 \in Int /\ Len(table) \in Nat \ {0}
    BY <1>6 DEF RoutesWell
  <2>2. (nodeIter + 1) % Len(table) \in 0 .. Len(table) - 1
    BY <2>1, DivMod
  <2> QED BY <1>4, <1>6, <2>1, <2>2 DEF RoutesWell
<1>9. k \in DOMAIN rs
  <2>1. routeIter \in Int
    BY DEF RoutesWell
  <2>2. routeIter % Len(rs) \in 0 .. Len(rs) - 1
    BY <1>5, <2>1, DivMod
  <2> QED BY <1>5, <2>2, RoutedIs
<1> HIDE DEF k, n
<1>10. Fine(c, rs)
  BY <1>2, <1>5, <1>7, <1>9, CalculateIsFine
<1>11. Routed(c.routes) /\ Copied(c.copies, c.routes)
  BY <1>10 DEF Fine
<1>12. Copied(b.copies, c.routes) /\ b.gone \subseteq IdsOf(c.routes) /\ b.shown \subseteq IdsOf(c.routes)
  <2>1. CASE end
    BY <1>4, <1>7, <1>11, <2>1, SelectIsFine
  <2>2. CASE ~end
    BY <1>4, <1>11, <2>2
  <2> QED BY <2>1, <2>2
<1>13. Routed(routes') /\ Tags(routes') = Tags(c.routes)
  BY <1>4, <1>11, SortedIs
<1>14. Copied(copies', routes')
  BY <1>4, <1>12, <1>13, StillCopied
<1>15. \A i : i \in IdsOf(routes') <=> i \in IdsOf(c.routes)
  BY <1>13, IdsAre
<1>16. \A i \in IdsOf(routes) : i \in IdsOf(rs)
  BY <1>5, IdsAre
<1>17. signalled' \subseteq Ids
  <2>1. IdsOf(rs) \subseteq Ids /\ IdsOf(c.routes) \subseteq Ids
    BY <1>5, <1>11, IdsIn
  <2> QED BY <1>4, <1>10, <1>12, <2>1 DEF Fine, RoutesWell, Sound
<1>18. scene' \subseteq IdsOf(routes') \cup signalled'
  <2>1. scene \subseteq IdsOf(rs) \cup signalled
    BY <1>16 DEF RoutesWell, Sound
  <2>2. IdsOf(rs) \subseteq IdsOf(c.routes) \cup c.gone /\ c.shown \subseteq IdsOf(c.routes)
    BY <1>10 DEF Fine
  <2> QED BY <1>4, <1>12, <1>15, <2>1, <2>2
<1>19. ASSUME NEW t \in Tags(routes'), t[1] \in scene' PROVE ToSet(t[2]) \subseteq Known
  <2>1. t \in Tags(c.routes)
    BY <1>13
  <2>2. CASE t[1] \in scene
    <3>1. t \in Tags(routes)
      BY <1>5, <1>10, <2>1, <2>2 DEF Fine
    <3> QED BY <2>2, <3>1 DEF RoutesWell, Sound
  <2>3. CASE t[1] \notin scene
    <3> DEFINE r == c.routes[At(c.routes, t[1])]
    <3>1. t[1] \in IdsOf(c.routes) /\ ~Broken(r)
      BY <1>4, <1>10, <1>12, <1>19, <2>3 DEF Fine
    <3>2. Tag(r) \in Tags(c.routes) /\ r.id = t[1]
      BY <3>1, IdsAre
    <3> HIDE DEF r
    <3>3. Tag(r) = t
      <4>1. Tag(r)[1] = t[1]
        BY <3>2 DEF Tag
      <4> QED BY <1>11, <2>1, <3>2, <4>1, SameTag
    <3> QED BY <3>1, <3>3, BrokenIs
  <2> QED BY <2>2, <2>3
<1>20. Known' = Known /\ TableWell' /\ sent' \subseteq Ids
  BY <1>0 DEF RoutesWell, TableWell, Known
<1>21. Sound(routes', copies', signalled', scene', Known')
  BY <1>13, <1>14, <1>17, <1>18, <1>19, <1>20 DEF Sound
<1> QED BY <1>8, <1>20, <1>21 DEF RoutesWell

----------------------------------------------------------------------------
(* The other actions.                                                      *)

\* A route is marked.
LEMMA MarkedSound ==
  ASSUME NEW rs, NEW cs, NEW sg, NEW sc, NEW kn, Sound(rs, cs, sg, sc, kn),
         NEW k \in DOMAIN rs, NEW r \in RouteRec, Tag(r) = Tag(rs[k])
  PROVE  Sound([rs EXCEPT ![k] = r], cs, sg, sc, kn)
<1> DEFINE us == [rs EXCEPT ![k] = r]
<1>1. Routed(us) /\ Tags(us) = Tags(rs)
  BY RouteMarked DEF Sound
<1> HIDE DEF us
<1>2. Copied(cs, us) /\ \A i \in IdsOf(rs) : i \in IdsOf(us)
  BY <1>1, StillCopied, IdsAre DEF Sound
<1>3. Sound(us, cs, sg, sc, kn)
  BY <1>1, <1>2 DEF Sound
<1> QED BY <1>3 DEF us

\* A new route comes.
LEMMA AddedSound ==
  ASSUME NEW rs, NEW cs, NEW sg, NEW sc, NEW kn, Sound(rs, cs, sg, sc, kn),
         NEW r \in RouteRec, r.id \notin IdsOf(rs), r.id \notin sc
  PROVE  Sound(Append(rs, r), cs, sg, sc, kn) /\ Tag(r) \in Tags(Append(rs, r))
<1> DEFINE us == Append(rs, r)
<1>1. Routed(us) /\ Tags(us) = Tags(rs) \cup {Tag(r)} /\ Tag(r)[1] = r.id
  BY RouteAdded DEF Sound, Tag
<1> HIDE DEF us
<1>2. Copied(cs, us) /\ \A i \in IdsOf(rs) : i \in IdsOf(us)
  BY <1>1, StillCopied, IdsAre DEF Sound
<1>3. Sound(us, cs, sg, sc, kn)
  BY <1>1, <1>2 DEF Sound
<1> QED BY <1>1, <1>3 DEF us

\* The copies of a node change.
LEMMA CopySound ==
  ASSUME NEW rs, NEW cs, NEW sg, NEW sc, NEW kn, Sound(rs, cs, sg, sc, kn),
         NEW n, NEW c, n \in Everyone => Owned(n, c, rs)
  PROVE  Sound(rs, [cs EXCEPT ![n] = c], sg, sc, kn)
BY OneCopied DEF Sound

\* A route of the table is drawn, if its nodes are there.
LEMMA DrawnSound ==
  ASSUME NEW rs, NEW cs, NEW sg, Sound(rs, cs, sg, scene, Known), NEW r \in RouteRec, Tag(r) \in Tags(rs)
  PROVE  Sound(rs, cs, sg, Drawn(r), Known)
<1>1. CASE Broken(r)
  BY <1>1 DEF Drawn
<1>2. CASE ~Broken(r)
  <2>1. Drawn(r) = scene \cup {r.id} /\ Tag(r)[1] = r.id
    BY <1>2 DEF Drawn, Tag
  <2>2. r.id \in IdsOf(rs)
    BY <2>1, IdsAre
  <2>3. ToSet(Tag(r)[2]) \subseteq Known
    BY <1>2, BrokenIs
  <2>4. \A t \in Tags(rs) : t[1] = r.id => t = Tag(r)
    BY <2>1, SameTag DEF Sound
  <2> QED BY <2>1, <2>2, <2>3, <2>4 DEF Sound
<1> QED BY <1>1, <1>2

\* What no other variable of the invariant tells.
Rest == UNCHANGED <<table, nodeIter, routeIter>> /\ sent' \subseteq Ids

\* It stays true where the table, the copies and the drawings still fit.
LEMMA RestKeeps == RoutesWell /\ Rest /\ Sound(routes', copies', signalled', scene', Known) => RoutesWell'
BY DEF RoutesWell, Rest, TableWell, Known

\* A request takes the id of one of the routes of its node.
LEMMA SendKeeps == ASSUME NEW n \in Everyone PROVE RoutesWell /\ Send(n) => RoutesWell'
<1> SUFFICES ASSUME RoutesWell, Send(n) PROVE RoutesWell'
  OBVIOUS
<1> DEFINE S == getSourceRoute(n)
           m == Min(S)
<1>1. Routed(copies[n]) /\ S # {} /\ S \subseteq DOMAIN copies[n]
  BY DEF RoutesWell, Sound, Copied, Owned, Send, getSourceRoute
<1>2. DOMAIN copies[n] \subseteq Nat /\ IdsOf(copies[n]) \subseteq Ids
  BY <1>1, RoutedIs, IdsIn
<1>3. PICK x \in S : \A y \in S : x <= y
  <2> HIDE DEF S
  <2> QED BY <1>1, <1>2, NatMin
<1>4. m \in S
  <2> HIDE DEF S
  <2> QED BY <1>3 DEF Min
<1>5. sent' = {copies[n][m].id} /\ copies[n][m].id \in IdsOf(copies[n])
  BY <1>1, <1>4 DEF Send, IdsOf
<1>6. Rest
  BY <1>2, <1>5 DEF Rest, Send
<1>7. Sound(routes', copies', signalled', scene', Known)
  BY DEF Send, RoutesWell
<1> QED BY <1>6, <1>7, RestKeeps

\* An answer counts for the route, and may make it a route of its node.
LEMMA AnsweredKeeps == ASSUME NEW i PROVE RoutesWell /\ Answered(i) => RoutesWell'
<1> SUFFICES ASSUME RoutesWell, Answered(i) PROVE RoutesWell'
  OBVIOUS
<1> DEFINE k == At(routes, i)
           r == routes[k]
           s == [r EXCEPT !.tx = @ + 1]
           d == Last(r.hops)
           us == [routes EXCEPT ![k] = s]
           c == AddTo(copies[d], s)
<1>1. Rest /\ UNCHANGED signalled
  BY DEF Rest, Answered, RoutesWell
<1>2. CASE i \notin IdsOf(routes)
  <2>1. Sound(routes', copies', signalled', scene', Known)
    BY <1>2 DEF Answered, RoutesWell
  <2> QED BY <1>1, <2>1, RestKeeps
<1>3. CASE i \in IdsOf(routes)
  <2>1. /\ routes' = us
        /\ \/ copies' = [copies EXCEPT ![d] = AddTo(@, s)] /\ scene' = Drawn(s)
           \/ UNCHANGED <<copies, scene>>
    BY <1>3 DEF Answered
  <2>2. k \in DOMAIN routes /\ r \in RouteRec
    BY <1>3, IdsAre, RoutedIs DEF RoutesWell, Sound
  <2> HIDE DEF k
  <2>3. s \in RouteRec /\ Tag(s) = Tag(r) /\ s.hops = r.hops
    BY <2>2, AnswerIs DEF RouteRec
  <2>4. Tag(s) \in Tags(routes)
    BY <2>2, <2>3 DEF Tags
  <2> HIDE DEF s, r, d
  <2>5. Sound(us, copies, signalled, scene, Known) /\ Tags(us) = Tags(routes)
    <3>1. Tag(s) = Tag(routes[k]) /\ Routed(routes) /\ Sound(routes, copies, signalled, scene, Known)
      BY <2>3 DEF r, RoutesWell, Sound
    <3>2. Tags(us) = Tags(routes)
      BY <2>2, <2>3, <3>1, RouteMarked
    <3>3. Sound(us, copies, signalled, scene, Known)
      BY <2>2, <2>3, <3>1, MarkedSound
    <3> QED BY <3>2, <3>3
  <2> HIDE DEF us
  <2>6. d \in Everyone => Owned(d, c, us)
    BY <2>3, <2>4, <2>5, AddToOwned DEF d, Sound, Copied
  <2>7. [copies EXCEPT ![d] = AddTo(@, s)] = [copies EXCEPT ![d] = c]
    OBVIOUS
  <2> DEFINE cs == [copies EXCEPT ![d] = c]
  <2>8. Sound(us, cs, signalled, scene, Known)
    <3> HIDE DEF c
    <3> QED BY <2>5, <2>6, CopySound
  <2>9. \/ copies' = cs /\ scene' = Drawn(s)
        \/ UNCHANGED <<copies, scene>>
    BY <2>1, <2>7
  <2> HIDE DEF cs, c
  <2>10. Sound(us, cs, signalled, Drawn(s), Known)
    BY <2>3, <2>4, <2>5, <2>8, DrawnSound
  <2>11. Sound(routes', copies', signalled', scene', Known)
    BY <1>1, <2>1, <2>5, <2>9, <2>10
  <2> QED BY <1>1, <2>11, RestKeeps
<1> QED BY <1>2, <1>3

\* A request that fails counts an error for the route.
LEMMA FailedKeeps == ASSUME NEW i, NEW told \in BOOLEAN PROVE RoutesWell /\ Failed(i, told) => RoutesWell'
<1> SUFFICES ASSUME RoutesWell, Failed(i, told) PROVE RoutesWell'
  OBVIOUS
<1>1. Rest /\ UNCHANGED <<copies, signalled, scene>>
  BY DEF Rest, Failed, RoutesWell
<1>2. CASE told /\ i \in IdsOf(routes)
  <2> DEFINE k == At(routes, i)
             r == Worse(routes[k], 1)
  <2>1. routes' = [routes EXCEPT ![k] = r]
    BY <1>2 DEF Failed
  <2>2. k \in DOMAIN routes /\ routes[k] \in RouteRec
    BY <1>2, IdsAre, RoutedIs DEF RoutesWell, Sound
  <2> HIDE DEF k
  <2>3. r \in RouteRec /\ Tag(r) = Tag(routes[k])
    BY <2>2, WorseIs
  <2> HIDE DEF r
  <2>4. Sound([routes EXCEPT ![k] = r], copies, signalled, scene, Known)
    BY <2>2, <2>3, MarkedSound DEF RoutesWell
  <2>5. Sound(routes', copies', signalled', scene', Known)
    BY <1>1, <2>1, <2>4
  <2> QED BY <1>1, <2>5, RestKeeps
<1>3. CASE ~(told /\ i \in IdsOf(routes))
  <2>1. Sound(routes', copies', signalled', scene', Known)
    BY <1>1, <1>3 DEF Failed, RoutesWell
  <2> QED BY <1>1, <2>1, RestKeeps
<1> QED BY <1>2, <1>3

\* The signal arrives, and the route goes from all that has it.
LEMMA DeliverKeeps == ASSUME NEW i PROVE RoutesWell /\ onSourceRouteDeleted(i) => RoutesWell'
<1> SUFFICES ASSUME RoutesWell, onSourceRouteDeleted(i) PROVE RoutesWell'
  OBVIOUS
<1>1. Rest /\ signalled' = signalled \ {i} /\ scene' = scene \ {i}
  BY DEF Rest, onSourceRouteDeleted, RoutesWell
<1>2. Routed(routes) /\ Copied(copies, routes)
  BY DEF RoutesWell, Sound
<1>3. Routed(routes') /\ Tags(routes') = {t \in Tags(routes) : t[1] # i}
  BY <1>2, WithoutIs DEF onSourceRouteDeleted
<1>4. Copied(copies', routes')
  <2>1. CASE i \notin IdsOf(routes)
    <3>1. copies' = copies /\ routes' = routes
      BY <2>1 DEF onSourceRouteDeleted, Without
    <3> QED BY <1>2, <3>1
  <2>2. CASE i \in IdsOf(routes)
    <3> DEFINE k == At(routes, i)
    <3>1. k \in DOMAIN routes /\ routes[k].id = i
      BY <2>2, IdsAre
    <3>2. routes' = RemoveAt(routes, k) /\ copies' = [copies EXCEPT ![Last(routes[k].hops)] = Without(@, i)]
      BY <2>2 DEF onSourceRouteDeleted, Without
    <3> HIDE DEF k
    <3> QED BY <1>2, <3>1, <3>2, WithoutCopied
  <2> QED BY <2>1, <2>2
<1>5. \A j \in IdsOf(routes) : j # i => j \in IdsOf(routes')
  BY <1>3, IdsAre
<1>6. Sound(routes', copies', signalled', scene', Known)
  BY <1>1, <1>3, <1>4, <1>5 DEF RoutesWell, Sound
<1> QED BY <1>1, <1>6, RestKeeps

\* Relays are a path over routers.
LEMMA RelaysAre ==
  ASSUME NEW h \in Relays
  PROVE  h \in Paths /\ Last(h) \in Everyone
<1>1. PICK m \in 0 .. 2 : h \in [1 .. m -> Routers]
  BY DEF Relays, SeqOf
<1>2. m \in Nat /\ Len(h) = 2 /\ IsInjective(h)
  BY DEF Relays
<1>3. h \in Seq(Routers) /\ Len(h) = m /\ DOMAIN h = 1 .. m
  BY <1>1, <1>2, FcnIsSeq
<1>4. h \in [1 .. m -> Everyone]
  BY <1>1 DEF Everyone
<1>5. h \in Seq(Everyone)
  BY <1>2, <1>4, FcnIsSeq
<1>6. h # <<>>
  <2> SUFFICES ASSUME h = <<>> PROVE FALSE
    OBVIOUS
  <2>1. Len(h) = 0
    BY EmptySeq
  <2> QED BY <1>2, <2>1
<1>7. Last(h) \in Everyone
  BY <1>2, <1>3, <1>4 DEF Last
<1> QED BY <1>2, <1>5, <1>6, <1>7 DEF Paths

\* A route of the user or the database comes into the table.
LEMMA NewRouteSound ==
  ASSUME RoutesWell, FreshIds # {}, NEW h \in Relays, NEW r, r = Route(NewId(routes), h)
  PROVE  /\ r \in RouteRec /\ Last(r.hops) = Last(h) /\ Tag(r) \in Tags(Append(routes, r))
         /\ Sound(Append(routes, r), copies, signalled, scene, Known)
<1>1. h \in Paths
  BY RelaysAre
<1>2. NewId(routes) \in Ids /\ NewId(routes) \notin IdsOf(routes) /\ NewId(routes) \notin scene
  <2>1. FreshIds \ IdsOf(routes) # {}
    BY DEF FreshIds
  <2> QED BY <2>1, NewIdIs
<1>3. r \in RouteRec /\ r.id = NewId(routes) /\ r.hops = h
  BY <1>1, <1>2, RouteIs DEF Route
<1> QED BY <1>2, <1>3, AddedSound DEF RoutesWell

\* It becomes a route of its node, and is drawn.
LEMMA NewCopySound ==
  ASSUME NEW us, NEW sg, NEW d, Sound(us, copies, sg, scene, Known), NEW r \in RouteRec,
         Tag(r) \in Tags(us), Last(r.hops) = d
  PROVE  Sound(us, [copies EXCEPT ![d] = <<r>>], sg, Drawn(r), Known)
<1> DEFINE c == <<r>>
           cs == [copies EXCEPT ![d] = c]
<1>1. Owned(d, c, us)
  BY SingleOwned
<1> HIDE DEF c
<1>2. Sound(us, cs, sg, scene, Known)
  BY <1>1, CopySound
<1> HIDE DEF cs
<1>3. Sound(us, cs, sg, Drawn(r), Known)
  BY <1>2, DrawnSound
<1> QED BY <1>3 DEF cs, c

\* addSourceRoute and activateSourceRoute bring a route in,
LEMMA AddKeeps == ASSUME NEW h \in Relays PROVE RoutesWell /\ addSourceRoute(h) => RoutesWell'
<1> SUFFICES ASSUME RoutesWell, addSourceRoute(h) PROVE RoutesWell'
  OBVIOUS
<1> DEFINE r == Route(NewId(routes), h)
           d == Last(h)
           us == Append(routes, r)
           sg == signalled \cup IdsOf(copies[d])
<1>1. Rest /\ FreshIds # {} /\ routes' = us /\ signalled' = sg /\ scene' = Drawn(r)
      /\ copies' = [copies EXCEPT ![d] = <<r>>]
  BY DEF Rest, addSourceRoute, RoutesWell
<1>2. r \in RouteRec /\ Last(r.hops) = d /\ Tag(r) \in Tags(us) /\ Sound(us, copies, signalled, scene, Known)
  BY <1>1, NewRouteSound
<1> HIDE DEF r, us
<1>3. IdsOf(copies[d]) \subseteq Ids
  BY RelaysAre, IdsIn DEF RoutesWell, Sound, Copied, Owned
<1>4. Sound(us, copies, sg, scene, Known)
  BY <1>2, <1>3 DEF Sound
<1> HIDE DEF d, sg
<1>5. Sound(us, [copies EXCEPT ![d] = <<r>>], sg, Drawn(r), Known)
  BY <1>2, <1>4, NewCopySound
<1>6. Sound(routes', copies', signalled', scene', Known)
  BY <1>1, <1>5
<1> QED BY <1>1, <1>6, RestKeeps

\* the second one for a node that may have others.
LEMMA ActivateKeeps == ASSUME NEW h \in Relays PROVE RoutesWell /\ activateSourceRoute(h) => RoutesWell'
<1> SUFFICES ASSUME RoutesWell, activateSourceRoute(h) PROVE RoutesWell'
  OBVIOUS
<1> DEFINE r == Route(NewId(routes), h)
           d == Last(h)
           us == Append(routes, r)
<1>1. /\ Rest /\ FreshIds # {} /\ routes' = us /\ signalled' = signalled
      /\ \/ copies' = [copies EXCEPT ![d] = <<r>>] /\ scene' = Drawn(r)
         \/ UNCHANGED <<copies, scene>>
  BY DEF Rest, activateSourceRoute, RoutesWell
<1>2. r \in RouteRec /\ Last(r.hops) = d /\ Tag(r) \in Tags(us) /\ Sound(us, copies, signalled, scene, Known)
  BY <1>1, NewRouteSound
<1> HIDE DEF r, us, d
<1>3. Sound(us, [copies EXCEPT ![d] = <<r>>], signalled, Drawn(r), Known)
  BY <1>2, NewCopySound
<1>4. Sound(routes', copies', signalled', scene', Known)
  BY <1>1, <1>2, <1>3
<1> QED BY <1>1, <1>4, RestKeeps

\* The first of a node's routes goes.
LEMMA TailOwned ==
  ASSUME NEW n, NEW rs, NEW c, Owned(n, c, rs), c # <<>>
  PROVE  Owned(n, Tail(c), rs) /\ c[1].id \in Ids
<1> DEFINE u == Tail(c)
<1>1. Routed(c) /\ c \in Seq(RouteRec) /\ DOMAIN c = 1 .. Len(c) /\ Len(c) \in Nat
  BY RoutedIs DEF Owned, Routed
<1>2. u \in Seq(RouteRec) /\ Len(u) = Len(c) - 1 /\ \A i \in 1 .. Len(u) : u[i] = c[i + 1]
  BY <1>1, HeadTailProperties
<1>3. DOMAIN u = 1 .. Len(u)
  BY <1>2, LenProperties
<1>4. Len(c) # 0
  BY <1>1, EmptySeq
<1> HIDE DEF u
<1>5. \A i \in DOMAIN u : i + 1 \in DOMAIN c /\ u[i] = c[i + 1] /\ i \in Int
  BY <1>1, <1>2, <1>3
<1>6. \A i, j \in DOMAIN u : u[i].id = u[j].id => i = j
  <2> SUFFICES ASSUME NEW i \in DOMAIN u, NEW j \in DOMAIN u, u[i].id = u[j].id PROVE i = j
    OBVIOUS
  <2>1. i + 1 = j + 1
    BY <1>1, <1>5 DEF Routed
  <2> QED BY <1>5, <2>1
<1>7. Tags(u) \subseteq Tags(c)
  BY <1>5 DEF Tags
<1>8. c[1].id \in Ids
  <2>1. 1 \in DOMAIN c
    BY <1>1, <1>4
  <2>2. c[1] \in RouteRec
    BY <1>1, <2>1, RoutedIs
  <2> QED BY <2>2 DEF RouteRec
<1>9. Owned(n, u, rs)
  BY <1>2, <1>6, <1>7 DEF Owned, Routed
<1> QED BY <1>8, <1>9 DEF u

\* removeSourceRoute leaves it in the table until the signal arrives.
LEMMA RemoveKeeps == ASSUME NEW n \in Everyone PROVE RoutesWell /\ removeSourceRoute(n) => RoutesWell'
<1> SUFFICES ASSUME RoutesWell, removeSourceRoute(n) PROVE RoutesWell'
  OBVIOUS
<1> DEFINE c == Tail(copies[n])
           i == copies[n][1].id
           sg == signalled \cup {i}
<1>1. Rest /\ UNCHANGED <<routes, scene>> /\ signalled' = sg /\ copies' = [copies EXCEPT ![n] = c]
  BY DEF Rest, removeSourceRoute, RoutesWell
<1>2. Owned(n, c, routes) /\ i \in Ids
  BY TailOwned DEF RoutesWell, Sound, Copied, removeSourceRoute
<1> HIDE DEF c, i
<1>3. Sound(routes, copies, sg, scene, Known)
  BY <1>2 DEF RoutesWell, Sound
<1>4. Sound(routes, [copies EXCEPT ![n] = c], sg, scene, Known)
  BY <1>2, <1>3, CopySound
<1>5. Sound(routes', copies', signalled', scene', Known)
  BY <1>1, <1>4
<1> QED BY <1>1, <1>5, RestKeeps

\* A node leaves the table, and every route that passes it goes.
LEMMA DeletedKeeps == ASSUME NEW n \in Everyone PROVE RoutesWell /\ NodeDeleted(n) => RoutesWell'
<1> SUFFICES ASSUME RoutesWell, NodeDeleted(n) PROVE RoutesWell'
  OBVIOUS
<1> DEFINE k == CHOOSE j \in DOMAIN table : table[j] = n
           ids == {routes[j].id : j \in Through(n)}
<1>1. /\ n \in Known \ {Coord} /\ table' = RemoveAt(table, k)
      /\ routes' = Purged(routes, ids) /\ signalled' = signalled \cup ids
      /\ copies' = [m \in Everyone |-> IF m = n THEN <<>> ELSE Purged(copies[m], ids)]
      /\ UNCHANGED <<nodeIter, routeIter, scene, sent>>
  BY DEF NodeDeleted, deleteSourcesRouteWith
<1>2. /\ DOMAIN table = 1 .. Len(table) /\ Len(table) \in Nat
      /\ table \in Seq(Everyone) /\ IsInjective(table) /\ Coord \in Known
  BY KnownIs, LenProperties DEF RoutesWell, TableWell
<1>3. k \in DOMAIN table /\ table[k] = n
  BY <1>1 DEF Known, ToSet
<1> HIDE DEF k
<1>4. /\ table' \in Seq(Everyone) /\ Len(table') = Len(table) - 1
      /\ \A i \in 1 .. Len(table) - 1 : table'[i] = IF i < k THEN table[i] ELSE table[i + 1]
  BY <1>1, <1>2, <1>3, RemoveAtProperties
<1>5. DOMAIN table' = 1 .. Len(table) - 1
  BY <1>4, LenProperties
<1>6. \A i \in DOMAIN table' : \E j \in DOMAIN table :
        j # k /\ table'[i] = table[j] /\ j = IF i < k THEN i ELSE i + 1
  BY <1>2, <1>3, <1>4, <1>5
<1>7. \A j \in DOMAIN table : j # k => \E i \in DOMAIN table' : table'[i] = table[j]
  <2> SUFFICES ASSUME NEW j \in DOMAIN table, j # k PROVE \E i \in DOMAIN table' : table'[i] = table[j]
    OBVIOUS
  <2>1. CASE j < k
    BY <1>2, <1>3, <1>4, <1>5, <2>1
  <2>2. CASE j > k
    <3>1. j - 1 \in DOMAIN table' /\ table'[j - 1] = table[j]
      BY <1>2, <1>3, <1>4, <1>5, <2>2
    <3> QED BY <3>1
  <2> QED BY <1>2, <1>3, <2>1, <2>2
<1>8. Known' = Known \ {n}
  <2>1. \A j \in DOMAIN table : j # k => table[j] # n
    BY <1>2, <1>3 DEF IsInjective
  <2>2. ASSUME NEW x \in Known' PROVE x \in Known /\ x # n
    <3>1. PICK i \in DOMAIN table' : x = table'[i]
      BY DEF Known, ToSet
    <3> QED BY <1>6, <2>1, <3>1 DEF Known, ToSet
  <2>3. ASSUME NEW x \in Known, x # n PROVE x \in Known'
    <3>1. PICK j \in DOMAIN table : x = table[j]
      BY DEF Known, ToSet
    <3> QED BY <1>3, <1>7, <2>3, <3>1 DEF Known, ToSet
  <2> QED BY <2>2, <2>3
<1>9. TableWell'
  <2>1. ASSUME NEW i \in DOMAIN table', NEW j \in DOMAIN table', table'[i] = table'[j] PROVE i = j
    <3>1. PICK a \in DOMAIN table : table'[i] = table[a] /\ a = IF i < k THEN i ELSE i + 1
      BY <1>6
    <3>2. PICK b \in DOMAIN table : table'[j] = table[b] /\ b = IF j < k THEN j ELSE j + 1
      BY <1>6
    <3>3. a = b
      BY <1>2, <2>1, <3>1, <3>2 DEF IsInjective
    <3> QED BY <1>2, <1>3, <1>5, <3>1, <3>2, <3>3
  <2>2. Coord \in Known'
    BY <1>1, <1>2, <1>8
  <2> QED BY <1>4, <2>1, <2>2 DEF TableWell, IsInjective
<1>10. Routed(routes) /\ Copied(copies, routes)
  BY DEF RoutesWell, Sound
<1> DEFINE us == Purged(routes, ids)
<1>11. Routed(us) /\ Tags(us) = {t \in Tags(routes) : t[1] \notin ids}
  <2> HIDE DEF ids
  <2> QED BY <1>10, PurgedIs
<1>12. ids \subseteq IdsOf(routes)
  BY DEF Through, IdsOf
<1>13. ASSUME NEW t \in Tags(routes), t[1] \notin ids PROVE n \notin ToSet(t[2])
  <2>1. PICK j \in DOMAIN routes : t = <<routes[j].id, routes[j].hops>>
    BY DEF Tags, Tag
  <2> QED BY <1>13, <2>1 DEF Through
<1> HIDE DEF ids, us
<1>14. Copied(copies', us)
  <2>1. ASSUME NEW m \in Everyone PROVE Owned(m, copies'[m], us)
    <3>1. CASE m = n
      BY <1>1, <3>1, NoneOwned
    <3>2. CASE m # n
      <4>1. copies'[m] = Purged(copies[m], ids)
        BY <1>1, <3>2
      <4>2. Owned(m, copies[m], routes) /\ Routed(copies[m])
        BY <1>10 DEF Copied, Owned
      <4>3. /\ Routed(Purged(copies[m], ids))
            /\ Tags(Purged(copies[m], ids)) = {t \in Tags(copies[m]) : t[1] \notin ids}
        BY <4>2, PurgedIs
      <4> QED BY <1>11, <4>1, <4>2, <4>3 DEF Owned
    <3> QED BY <3>1, <3>2
  <2>2. \A m \in Everyone : copies'[m] \in Seq(RouteRec)
    BY <2>1 DEF Owned, Routed
  <2>3. DOMAIN copies' = Everyone /\ copies' = [m \in Everyone |-> copies'[m]]
    BY <1>1
  <2> QED BY <2>1, <2>2, <2>3 DEF Copied
<1>15. \A i \in IdsOf(routes) : i \notin ids => i \in IdsOf(us)
  BY <1>11, IdsAre
<1>16. ids \subseteq Ids
  BY <1>10, <1>12, IdsIn
<1>17. \A t \in Tags(us) : t[1] \in scene => ToSet(t[2]) \subseteq Known'
  BY <1>8, <1>11, <1>13 DEF RoutesWell, Sound
<1>18. routes' = us
  BY <1>1 DEF us
<1>19. Sound(routes', copies', signalled', scene', Known')
  BY <1>1, <1>11, <1>14, <1>15, <1>16, <1>17, <1>18 DEF RoutesWell, Sound
<1> QED BY <1>1, <1>9, <1>19 DEF RoutesWell

\* A node comes into the table.
LEMMA CreatedKeeps == ASSUME NEW n \in Everyone PROVE RoutesWell /\ NodeCreated(n) => RoutesWell'
<1> SUFFICES ASSUME RoutesWell, NodeCreated(n) PROVE RoutesWell'
  OBVIOUS
<1>1. /\ n \notin Known /\ table' = Append(table, n)
      /\ UNCHANGED <<routes, copies, routeIter, nodeIter, signalled, scene, sent>>
  BY DEF NodeCreated
<1>2. /\ DOMAIN table = 1 .. Len(table) /\ Len(table) \in Nat
      /\ table \in Seq(Everyone) /\ IsInjective(table) /\ Coord \in Known
  BY KnownIs, LenProperties DEF RoutesWell, TableWell
<1>3. /\ table' \in Seq(Everyone) /\ Len(table') = Len(table) + 1 /\ table'[Len(table) + 1] = n
      /\ \A i \in 1 .. Len(table) : table'[i] = table[i]
  BY <1>1, <1>2, AppendProperties
<1>4. DOMAIN table' = 1 .. Len(table) + 1
  BY <1>3, LenProperties
<1>5. \A i \in DOMAIN table' : i \in DOMAIN table \/ i = Len(table) + 1
  BY <1>2, <1>4
<1>6. \A i \in DOMAIN table : i \in DOMAIN table' /\ table'[i] = table[i] /\ table[i] # n
  BY <1>1, <1>2, <1>3, <1>4 DEF Known, ToSet
<1>7. \A i, j \in DOMAIN table' : table'[i] = table'[j] => i = j
  BY <1>2, <1>3, <1>5, <1>6 DEF IsInjective
<1>8. Known \subseteq Known'
  BY <1>6 DEF Known, ToSet
<1>9. TableWell'
  BY <1>2, <1>3, <1>7, <1>8 DEF TableWell, IsInjective
<1>10. Sound(routes', copies', signalled', scene', Known')
  BY <1>1, <1>8 DEF RoutesWell, Sound
<1> QED BY <1>1, <1>9, <1>10 DEF RoutesWell

\* What only the nodes and the time do.
LEMMA NodeKeeps ==
  ASSUME NEW n \in Everyone PROVE RoutesWell /\ (NodeFails(n) \/ NodeIsBack(n) \/ WarmsUp) => RoutesWell'
BY DEF RoutesWell, TableWell, Known, NodeFails, NodeIsBack, WarmsUp

\* At first every node is in the table, and there is no route.
LEMMA RoutesFirst == RoutesInit => RoutesWell
<1> SUFFICES ASSUME RoutesInit PROVE RoutesWell
  OBVIOUS
<1> DEFINE rt == SetToSeq(Routers)
           nn == Cardinality(Routers)
           cc == <<Coord>>
<1>1. Coord \notin Routers /\ IsFiniteSet(Routers)
  BY RoutesAssumption
<1>2. nn \in Nat /\ ExistsBijection(1 .. nn, Routers)
  BY <1>1, FS_CardinalityType
<1>3. rt \in [1 .. nn -> Routers] /\ IsInjective(rt)
  <2>1. \E f \in [1 .. nn -> Routers] : IsInjective(f)
    <3>1. PICK f : f \in Bijection(1 .. nn, Routers)
      BY <1>2 DEF ExistsBijection
    <3>2. f \in [1 .. nn -> Routers] /\ IsInjective(f)
      BY <3>1 DEF Bijection, Injection, IsInjective
    <3> QED BY <3>2
  <2> QED BY <2>1 DEF SetToSeq
<1> HIDE DEF rt, nn
<1>4. rt \in Seq(Routers) /\ Len(rt) = nn /\ DOMAIN rt = 1 .. nn
  BY <1>2, <1>3, FcnIsSeq
<1>5. rt \in [1 .. nn -> Everyone]
  BY <1>3 DEF Everyone
<1>6. rt \in Seq(Everyone)
  BY <1>2, <1>5, FcnIsSeq
<1>7. cc \in Seq(Everyone) /\ Len(cc) = 1 /\ cc[1] = Coord
  BY DEF Everyone
<1> HIDE DEF cc
<1>8. /\ cc \o rt \in Seq(Everyone) /\ Len(cc \o rt) = Len(cc) + Len(rt)
      /\ \A i \in 1 .. Len(cc) + Len(rt) : (cc \o rt)[i] = IF i <= Len(cc) THEN cc[i] ELSE rt[i - Len(cc)]
  BY <1>6, <1>7, ConcatProperties
<1>9. table = cc \o rt
  BY DEF RoutesInit, cc, rt
<1>10. /\ table \in Seq(Everyone) /\ DOMAIN table = 1 .. nn + 1
       /\ \A i \in 1 .. nn + 1 : table[i] = IF i = 1 THEN Coord ELSE rt[i - 1]
  <2>1. DOMAIN table = 1 .. nn + 1
    BY <1>2, <1>4, <1>7, <1>8, <1>9, LenProperties
  <2> QED BY <1>2, <1>4, <1>7, <1>8, <1>9, <2>1
<1>11. \A i \in 2 .. nn + 1 : table[i] = rt[i - 1] /\ i - 1 \in DOMAIN rt /\ rt[i - 1] # Coord
  BY <1>1, <1>2, <1>3, <1>4, <1>10
<1>12. ASSUME NEW i \in DOMAIN table, NEW j \in DOMAIN table, table[i] = table[j] PROVE i = j
  <2>1. (i = 1 \/ i \in 2 .. nn + 1) /\ (j = 1 \/ j \in 2 .. nn + 1)
    BY <1>2, <1>10
  <2>2. table[1] = Coord
    BY <1>2, <1>10
  <2>3. CASE i \in 2 .. nn + 1 /\ j \in 2 .. nn + 1
    BY <1>3, <1>11, <1>12, <2>3 DEF IsInjective
  <2> QED BY <1>11, <1>12, <2>1, <2>2, <2>3
<1>13. TableWell
  <2>1. 1 \in DOMAIN table /\ table[1] = Coord
    BY <1>2, <1>10
  <2> QED BY <1>10, <1>12, <2>1 DEF TableWell, IsInjective, Known, ToSet
<1>14. Sound(routes, copies, signalled, scene, Known)
  <2> DEFINE e == <<>>
  <2>1. e \in Seq(RouteRec) /\ DOMAIN e = {}
    OBVIOUS
  <2>2. routes = e /\ copies = [n \in Everyone |-> e] /\ signalled = {} /\ scene = {}
    BY DEF RoutesInit
  <2>3. \A n : Owned(n, e, routes)
    BY NoneOwned
  <2> HIDE DEF e
  <2>4. Routed(e) /\ Copied(copies, routes)
    BY <2>1, <2>2, <2>3 DEF Routed, Copied
  <2> QED BY <2>2, <2>4 DEF Sound
<1>15. sent = {} /\ nodeIter = 0 /\ routeIter = 0
  BY DEF RoutesInit
<1>16. Cardinality(Everyone) \in Nat
  BY <1>13, KnownIs
<1> QED BY <1>13, <1>14, <1>15, <1>16 DEF RoutesWell

\* Every step keeps the invariant.
LEMMA RoutesStep == RoutesWell /\ [RoutesNext]_routeVars => RoutesWell'
<1> SUFFICES ASSUME RoutesWell, [RoutesNext]_routeVars PROVE RoutesWell'
  OBVIOUS
<1>1. CASE SR_CalculateRouteForNode
  BY <1>1, SearchKeeps
<1>2. CASE RequestDone
  <2>1. PICK i \in sent : Answered(i) \/ \E told \in BOOLEAN : Failed(i, told)
    BY <1>2 DEF RequestDone
  <2> QED BY <2>1, AnsweredKeeps, FailedKeeps
<1>3. CASE Deliver
  BY <1>3, DeliverKeeps DEF Deliver
<1>4. CASE WarmsUp
  <2>1. Coord \in Everyone
    BY DEF Everyone
  <2> QED BY <1>4, <2>1, NodeKeeps
<1>5. CASE \E h \in Relays : addSourceRoute(h) \/ activateSourceRoute(h)
  BY <1>5, AddKeeps, ActivateKeeps
<1>6. CASE \E n \in Everyone : \/ Send(n) \/ removeSourceRoute(n)
                               \/ NodeDeleted(n) \/ NodeCreated(n) \/ NodeFails(n) \/ NodeIsBack(n)
  BY <1>6, SendKeeps, RemoveKeeps, DeletedKeeps, CreatedKeeps, NodeKeeps
<1>7. CASE UNCHANGED routeVars
  BY <1>7 DEF routeVars, RoutesWell, TableWell, Known
<1> QED BY <1>1, <1>2, <1>3, <1>4, <1>5, <1>6, <1>7 DEF RoutesNext

\* What the invariant says of the routes, the copies and the drawings.
LEMMA RoutesAreSafe == RoutesWell => RoutesSafe
<1> SUFFICES ASSUME RoutesWell PROVE RoutesSafe
  OBVIOUS
<1>1. Routed(routes) /\ Copied(copies, routes)
  BY DEF RoutesWell, Sound
<1>2. IdsOf(routes) \subseteq Ids
  BY <1>1, IdsIn
<1>3. RouteTypeOK
  BY <1>2 DEF RouteTypeOK, RoutesWell, Sound, TableWell
<1>4. \A k \in DOMAIN routes : IsInjective(routes[k].hops)
  BY <1>1, RoutedIs DEF RouteRec, Paths
<1>5. \A j, k \in DOMAIN routes : routes[j].id = routes[k].id => j = k
  BY <1>1 DEF Routed
<1>6. ASSUME NEW n \in Everyone, NEW k \in DOMAIN copies[n]
      PROVE  Last(copies[n][k].hops) = n /\ copies[n][k].id \in IdsOf(routes)
  <2> DEFINE r == copies[n][k]
  <2>1. Tag(r) \in Tags(copies[n]) /\ Tag(r)[1] = r.id /\ Tag(r)[2] = r.hops
    BY DEF Tags, Tag
  <2> HIDE DEF r
  <2>2. Tag(r) \in Tags(routes) /\ Last(r.hops) = n
    BY <1>1, <2>1 DEF Copied, Owned
  <2>3. r.id \in IdsOf(routes)
    BY <2>1, <2>2, IdsAre
  <2> QED BY <2>2, <2>3 DEF r
<1>7. ASSUME NEW k \in DOMAIN routes, routes[k].id \in scene PROVE ~Broken(routes[k])
  <2> DEFINE r == routes[k]
  <2>1. Tag(r) \in Tags(routes) /\ Tag(r)[1] = r.id
    BY DEF Tags, Tag
  <2>2. ToSet(Tag(r)[2]) \subseteq Known
    BY <1>7, <2>1 DEF RoutesWell, Sound
  <2> QED BY <2>2, BrokenIs
<1>8. scene \subseteq IdsOf(routes) \cup signalled
  BY DEF RoutesWell, Sound
<1> QED BY <1>3, <1>4, <1>5, <1>6, <1>7, <1>8 DEF RoutesSafe

\* The invariant holds in every behaviour.
LEMMA RoutesInvariant == RoutesSpec => []RoutesWell
<1>1. RoutesInit => RoutesWell
  BY RoutesFirst
<1>2. RoutesWell /\ [RoutesNext]_routeVars => RoutesWell'
  BY RoutesStep
<1> QED BY <1>1, <1>2, PTL DEF RoutesSpec

\* No route passes a node twice; no id is twice in the table; each copy of a node is of a
\* route of the table that ends at the node; and what is drawn is a route of the table, over
\* nodes that are there, or its deletion is under way.
THEOREM RoutesAreSound == RoutesSpec => []RoutesSafe
BY RoutesInvariant, RoutesAreSafe, PTL
=============================================================================
