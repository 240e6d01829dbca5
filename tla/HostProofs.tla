----------------------------- MODULE HostProofs -----------------------------
(***************************************************************************)
(* What the node database keeps over a restart, whatever fails and however *)
(* often the program starts, crashes and is refused its saves; that each   *)
(* request of an HTTP client is answered once and with all of its content, *)
(* however it is cut into pieces; that the links which are drawn, and the  *)
(* NodeLinks they are drawn with, are those of the nodes; and that a node  *)
(* is asked for one descriptor at a time, and what is kept is what it has. *)
(***************************************************************************)
EXTENDS NodeStore, HttpClient, Links, NodeFetch, NumberLemmas, TLAPS

\* What StoreSafe needs of every step: the last save and the timer of a change.
LastSaved == run = "quit" /\ clean /\ ~changes => \A n \in shown \cap rows : stored[n] = pos[n]
Timed     == run = "on" /\ changes => timer

\* The inductive invariant.
SInv ==
  /\ StoreTypeOK /\ LastSaved /\ Timed
  /\ changes \in BOOLEAN /\ timer \in BOOLEAN /\ allowed \in BOOLEAN /\ clean \in BOOLEAN

\* What a save of the nodes todo leaves of their marks, and of a change that was due.
LEMMA SaveMarks ==
  ASSUME NEW todo, todo \subseteq shown, NEW due \in BOOLEAN, NEW ota, NEW f \in Failures,
         Save(todo, due, ota, f), changes \in BOOLEAN, due = changes \/ due = TRUE
  PROVE  /\ dirty' \subseteq shown /\ changes' \in BOOLEAN /\ timer' \in BOOLEAN
         /\ changes' => timer'
<1>1. CASE ~due
  BY <1>1 DEF Save
<1>2. CASE due /\ (~allowed \/ ota \/ f = "open")
  BY <1>2 DEF Save, queueSaveNodesState
<1>3. CASE due /\ ~(~allowed \/ ota \/ f = "open")
  <2>1. PICK done \in SUBSET todo : Write(todo, done, f) /\ changes' = FALSE /\ timer' = FALSE
    BY <1>3 DEF Save, Written
  <2> QED BY <2>1 DEF Write
<1> QED BY <1>1, <1>2, <1>3

\* A save that nothing fails, and that was not put off, writes all of its nodes.
LEMMA SaveWrites ==
  ASSUME NEW todo, todo \subseteq DbNodes, Save(todo, TRUE, FALSE, "no"), ~changes'
  PROVE  \A n \in todo \cap rows : stored'[n] = pos[n]
<1> "no" \notin DbNodes
  BY StoreAssumption
<1>1. Written(todo, "no")
  BY DEF Save, queueSaveNodesState
<1>2. PICK done \in SUBSET todo : done = todo /\ Write(todo, done, "no")
  BY <1>1 DEF Written
<1>3. \A n \in DbNodes : stored'[n] = IF n \in done \cap rows THEN pos[n] ELSE stored[n]
  BY <1>2 DEF Write
<1> QED BY <1>2, <1>3

\* Nothing runs at first.
LEMMA StoreInit == Init => SInv
  BY DEF Init, SInv, StoreTypeOK, LastSaved, Timed

\* The save of the timer, while the program runs.
LEMMA SaveKeeps == SInv /\ saveNodesState => SInv'
<1> SUFFICES ASSUME SInv, saveNodesState PROVE SInv'
  OBVIOUS
<1>1. PICK f \in Failures : Fails(f) /\ Save(dirty, changes, busy, f)
  BY DEF saveNodesState
<1>2. run \in {"load", "on"} /\ run' = run /\ UNCHANGED <<shown, rows, allowed>>
  BY DEF saveNodesState
<1>3. changes \in BOOLEAN /\ dirty \subseteq shown
  BY DEF SInv, StoreTypeOK
<1>4. dirty' \subseteq shown /\ changes' \in BOOLEAN /\ timer' \in BOOLEAN /\ (changes' => timer')
  BY <1>1, <1>3, SaveMarks
<1>5. StoreTypeOK' /\ LastSaved' /\ Timed'
  BY <1>2, <1>4 DEF SInv, StoreTypeOK, LastSaved, Timed
<1>6. clean' \in BOOLEAN
  BY <1>1 DEF Fails
<1> QED BY <1>2, <1>4, <1>5, <1>6 DEF SInv

\* The last save, of all nodes.
LEMMA QuitKeeps == SInv /\ appAboutToQuit => SInv'
<1> SUFFICES ASSUME SInv, appAboutToQuit PROVE SInv'
  OBVIOUS
<1>1. PICK f \in Failures : Fails(f) /\ Save(shown, TRUE, FALSE, f)
  BY DEF appAboutToQuit, ForcedOnQuit
<1>2. run' = "quit" /\ UNCHANGED <<shown, pos, rows, allowed>>
  BY DEF appAboutToQuit
<1>3. changes \in BOOLEAN /\ shown \subseteq DbNodes
  BY DEF SInv, StoreTypeOK
<1>4. dirty' \subseteq shown /\ changes' \in BOOLEAN /\ timer' \in BOOLEAN
  BY <1>1, <1>3, SaveMarks
<1>5. StoreTypeOK' /\ Timed'
  BY <1>2, <1>4 DEF SInv, StoreTypeOK, Timed
<1>6. clean' \in BOOLEAN /\ (clean' => f = "no")
  BY <1>1 DEF Fails
<1>7. ASSUME clean', ~changes' PROVE \A n \in shown \cap rows : stored'[n] = pos[n]
  <2>1. Save(shown, TRUE, FALSE, "no")
    BY <1>1, <1>6, <1>7
  <2> QED BY <2>1, <1>3, <1>7, SaveWrites
<1>8. LastSaved'
  BY <1>2, <1>7 DEF LastSaved
<1> QED BY <1>2, <1>4, <1>5, <1>6, <1>8 DEF SInv

\* Start, load and end.
LEMMA RunKeeps == SInv /\ (Start \/ loadNodesFromDb \/ Ends \/ Crash) => SInv'
<1> SUFFICES ASSUME SInv, Start \/ loadNodesFromDb \/ Ends \/ Crash PROVE SInv'
  OBVIOUS
<1>1. CASE Start
  BY <1>1 DEF Start, SInv, StoreTypeOK, LastSaved, Timed
<1>2. CASE loadNodesFromDb
  <2>1. DB_LoadNodes \subseteq DbNodes
    BY DEF DB_LoadNodes, InDb, SInv, StoreTypeOK
  <2> QED BY <1>2, <2>1 DEF loadNodesFromDb, DB_CreateNodeInfo, DB_LoadNodes, InDb, SInv, StoreTypeOK, LastSaved, Timed
<1>3. CASE Ends
  BY <1>3 DEF Ends, SInv, StoreTypeOK, LastSaved, Timed
<1>4. CASE Crash
  BY <1>4 DEF Crash, SInv, StoreTypeOK, LastSaved, Timed
<1> QED BY <1>1, <1>2, <1>3, <1>4

\* A change of a node, or of the proxy, while the program runs.
LEMMA ChangeKeeps ==
  ASSUME SInv, Described \/ (\E n \in DbNodes : Moved(n) \/ Created(n) \/ RowAdded(n))
                         \/ (\E p \in Proxies : SetProxy(p))
  PROVE  SInv'
<1>1. CASE Described
  BY <1>1 DEF Described, queueSaveNodesState, SInv, StoreTypeOK, LastSaved, Timed
<1>2. ASSUME NEW n \in DbNodes, Moved(n) PROVE SInv'
  BY <1>2 DEF Moved, queueSaveNodesState, SInv, StoreTypeOK, LastSaved, Timed
<1>3. ASSUME NEW n \in DbNodes, Created(n) PROVE SInv'
  BY <1>3 DEF Created, queueSaveNodesState, SInv, StoreTypeOK, LastSaved, Timed
<1>4. ASSUME NEW n \in DbNodes, RowAdded(n) PROVE SInv'
  BY <1>4 DEF RowAdded, SInv, StoreTypeOK, LastSaved, Timed
<1>5. ASSUME NEW p \in Proxies, SetProxy(p) PROVE SInv'
  BY <1>5 DEF SetProxy, SInv, StoreTypeOK, LastSaved, Timed
<1> QED BY <1>1, <1>2, <1>3, <1>4, <1>5

\* The plugin and the updates over the air.
LEMMA OthersKeep == SInv /\ (Refuses \/ Allows \/ OtaBegins \/ OtaEnds) => SInv'
<1> SUFFICES ASSUME SInv, Refuses \/ Allows \/ OtaBegins \/ OtaEnds PROVE SInv'
  OBVIOUS
<1>1. UNCHANGED <<run, shown, pos, dirty, changes, timer, rows, stored, clean>>
  BY DEF Refuses, Allows, OtaBegins, OtaEnds
<1>2. allowed' \in BOOLEAN
  BY DEF Refuses, Allows, OtaBegins, OtaEnds, SInv
<1> QED BY <1>1, <1>2 DEF SInv, StoreTypeOK, LastSaved, Timed

\* The invariant is inductive.
LEMMA StoreStep == SInv /\ [Next]_storeVars => SInv'
<1> SUFFICES ASSUME SInv, [Next]_storeVars PROVE SInv'
  OBVIOUS
<1>1. CASE UNCHANGED storeVars
  BY <1>1 DEF storeVars, SInv, StoreTypeOK, LastSaved, Timed
<1>2. CASE Next
  BY <1>2, SaveKeeps, QuitKeeps, RunKeeps, ChangeKeeps, OthersKeep DEF Next
<1> QED BY <1>1, <1>2

(* Whatever fails before, whatever the plugin refuses and wherever the     *)
(* program crashed: after a run that ended in order, was let to save and   *)
(* met no error, each node it shows and the plugin knows is stored where   *)
(* the user left it, and while it runs a change that is due has its timer. *)
THEOREM PositionsAreSaved == Spec => []StoreSafe
<1>1. Spec => []SInv
  BY StoreInit, StoreStep, PTL DEF Spec
<1>2. SInv => StoreSafe
  BY DEF SInv, StoreSafe, LastSaved, Timed
<1> QED BY <1>1, <1>2, PTL

----------------------------------------------------------------------------
(* The HTTP client: where each piece of the request is.                    *)

\* The piece i of the request r with the number n.
Piece(r, n, i) == IF i < r.heads THEN <<"h", n>> ELSE IF i = r.heads THEN <<"e", n>> ELSE <<"b", n>>
\* The pieces a request is cut into.
PieceSet == {"h", "e", "b"} \X Nat

\* b and then c are the pieces of a request behind the first k.
Rest(r, n, k, b, c) ==
  /\ k + Len(b) + Len(c) = r.heads + r.body
  /\ \A i \in 1 .. Len(b) : b[i] = Piece(r, n, k + i)
  /\ \A i \in 1 .. Len(c) : c[i] = Piece(r, n, k + Len(b) + i)

\* What the variables hold.
HttpTypes ==
  /\ HttpTypeOK /\ open \in BOOLEAN /\ reading \in BOOLEAN
  /\ reqs \in Seq(Requests) /\ Len(reqs) <= MaxRequests
  /\ answers \in Seq(Nat) /\ buf \in Seq(PieceSet) /\ unsent \in Seq(PieceSet)

\* Requests are answered in their order, and the peer waits for the answer to the last.
InTurn ==
  /\ Len(answers) <= Cur /\ Cur <= Len(answers) + 1
  /\ \A i \in DOMAIN answers : answers[i] = i

\* As long as the socket is read, what is in it and what the peer has yet to send is the rest
\* of the request that is not answered.
Taken ==
  open /\ reading =>
    \/ Len(answers) = Cur /\ clientState = "idle" /\ buf = <<>> /\ unsent = <<>>
    \/ /\ Len(answers) < Cur /\ clientState = "idle" /\ buf = <<>>
       /\ Rest(reqs[Cur], Cur, 0, buf, unsent)
    \/ /\ Len(answers) < Cur /\ clientState = "header" /\ Len(buf) < reqs[Cur].heads
       /\ Rest(reqs[Cur], Cur, 0, buf, unsent)
    \/ /\ Len(answers) < Cur /\ clientState = "content" /\ hdr = Cur
       /\ Len(buf) < reqs[Cur].body /\ reqs[Cur].kind # "ws"
       /\ Rest(reqs[Cur], Cur, reqs[Cur].heads, buf, unsent)

\* A socket that a handler answers for is not deleted.
Living == handlers \subseteq alive

\* The inductive invariant.
HInv == HttpTypes /\ InTurn /\ Taken /\ Living

----------------------------------------------------------------------------
\* What a part of a sequence holds.
LEMMA SliceIs ==
  ASSUME NEW T, NEW s \in Seq(T), NEW k \in 0 .. Len(s)
  PROVE  /\ SubSeq(s, k + 1, Len(s)) \in Seq(T) /\ Len(SubSeq(s, k + 1, Len(s))) = Len(s) - k
         /\ \A i \in 1 .. Len(s) - k : SubSeq(s, k + 1, Len(s))[i] = s[k + i]
         /\ SubSeq(s, 1, k) \in Seq(T) /\ Len(SubSeq(s, 1, k)) = k
         /\ \A i \in 1 .. k : SubSeq(s, 1, k)[i] = s[i]
<1>1. Len(s) \in Nat /\ \A i \in 1 .. Len(s) : s[i] \in T
  BY LenProperties, ElementOfSeq
<1>2. /\ SubSeq(s, k + 1, Len(s)) \in Seq(T)
      /\ Len(SubSeq(s, k + 1, Len(s))) = IF k + 1 <= Len(s) THEN Len(s) - (k + 1) + 1 ELSE 0
      /\ \A i \in 1 .. Len(s) - (k + 1) + 1 : SubSeq(s, k + 1, Len(s))[i] = s[k + 1 + i - 1]
  <2>1. \A i \in k + 1 .. Len(s) : s[i] \in T
    BY <1>1
  <2> QED BY <1>1, <2>1, SubSeqProperties
<1>3. /\ SubSeq(s, 1, k) \in Seq(T)
      /\ Len(SubSeq(s, 1, k)) = IF 1 <= k THEN k - 1 + 1 ELSE 0
      /\ \A i \in 1 .. k - 1 + 1 : SubSeq(s, 1, k)[i] = s[1 + i - 1]
  <2>1. \A i \in 1 .. k : s[i] \in T
    BY <1>1
  <2> QED BY <1>1, <2>1, SubSeqProperties
<1> QED BY <1>1, <1>2, <1>3

\* A request of the clients has a header, an end and its content.
LEMMA RequestIs ==
  ASSUME NEW r \in Requests
  PROVE  /\ r.heads \in Nat \ {0} /\ r.body \in Nat /\ r.heads \in Int /\ r.body \in Int
         /\ r.kind = "ws" => r.body = 0
<1>1. r.heads \in Nat \ {0} /\ r.body \in Nat /\ (r.kind = "ws" => r.body = 0)
  BY HttpAssumption, Zenon
<1> QED BY <1>1

\* The pieces of a request are in the order of its header, end and content.
LEMMA PiecesAre ==
  ASSUME NEW r \in Requests, NEW n \in Nat
  PROVE  /\ Pieces(r, n) \in Seq(PieceSet) /\ Len(Pieces(r, n)) = r.heads + r.body
         /\ \A i \in 1 .. r.heads + r.body : Pieces(r, n)[i] = Piece(r, n, i)
<1> DEFINE a == [i \in 1 .. r.heads - 1 |-> <<"h", n>>]
           e == <<<<"e", n>>>>
           c == [i \in 1 .. r.body |-> <<"b", n>>]
<1>1. r.heads \in Nat \ {0} /\ r.body \in Nat /\ r.heads - 1 \in Nat
  BY RequestIs
<1>2. /\ a \in Seq(PieceSet) /\ Len(a) = r.heads - 1
      /\ \A i \in 1 .. r.heads - 1 : a[i] = <<"h", n>>
  <2>1. a \in [1 .. r.heads - 1 -> PieceSet]
    BY DEF PieceSet
  <2>2. \A i \in 1 .. r.heads - 1 : a[i] = <<"h", n>>
    OBVIOUS
  <2> HIDE DEF a
  <2> QED BY <1>1, <2>1, <2>2, FcnIsSeq
<1>3. /\ c \in Seq(PieceSet) /\ Len(c) = r.body
      /\ \A i \in 1 .. r.body : c[i] = <<"b", n>>
  <2>1. c \in [1 .. r.body -> PieceSet]
    BY DEF PieceSet
  <2> QED BY <1>1, <2>1, FcnIsSeq
<1>4. e \in Seq(PieceSet) /\ Len(e) = 1 /\ e[1] = <<"e", n>>
  <2>1. <<"e", n>> \in PieceSet
    BY DEF PieceSet
  <2> QED BY <2>1
<1>5. Pieces(r, n) = (a \o e) \o c
  BY DEF Pieces
<1> HIDE DEF a, e, c
<1>6. /\ a \o e \in Seq(PieceSet) /\ Len(a \o e) = r.heads
      /\ \A i \in 1 .. r.heads : (a \o e)[i] = IF i < r.heads THEN <<"h", n>> ELSE <<"e", n>>
  <2>1. /\ a \o e \in Seq(PieceSet) /\ Len(a \o e) = Len(a) + Len(e)
        /\ \A i \in 1 .. Len(a) + Len(e) : (a \o e)[i] = IF i <= Len(a) THEN a[i] ELSE e[i - Len(a)]
    BY <1>2, <1>4, ConcatProperties
  <2>2. Len(a) + Len(e) = r.heads
    BY <1>1, <1>2, <1>4
  <2>3. ASSUME NEW i \in 1 .. r.heads
        PROVE  (a \o e)[i] = IF i < r.heads THEN <<"h", n>> ELSE <<"e", n>>
    <3>1. CASE i < r.heads
      <4>1. i \in 1 .. r.heads - 1 /\ i <= Len(a)
        BY <1>1, <1>2, <3>1
      <4> QED BY <1>2, <2>1, <2>2, <3>1, <4>1
    <3>2. CASE ~ (i < r.heads)
      <4>1. i = r.heads /\ ~ (i <= Len(a)) /\ i - Len(a) = 1
        BY <1>1, <1>2, <3>2
      <4> QED BY <1>4, <2>1, <2>2, <3>2, <4>1
    <3> QED BY <3>1, <3>2
  <2> QED BY <2>1, <2>2, <2>3
<1> DEFINE d == a \o e
<1> HIDE DEF d
<1>7. /\ d \o c \in Seq(PieceSet) /\ Len(d \o c) = Len(d) + Len(c)
      /\ \A i \in 1 .. Len(d) + Len(c) : (d \o c)[i] = IF i <= Len(d) THEN d[i] ELSE c[i - Len(d)]
  BY <1>3, <1>6, ConcatProperties DEF d
<1>8. \A i \in 1 .. r.heads + r.body : (d \o c)[i] = Piece(r, n, i)
  <2>1. ASSUME NEW i \in 1 .. r.heads + r.body PROVE (d \o c)[i] = Piece(r, n, i)
    <3>1. CASE i <= r.heads
      <4>1. i \in 1 .. r.heads /\ i \in 1 .. Len(d) + Len(c) /\ i <= Len(d)
        BY <1>1, <1>3, <1>6, <3>1 DEF d
      <4>2. d[i] = IF i < r.heads THEN <<"h", n>> ELSE <<"e", n>>
        BY <1>6, <4>1 DEF d
      <4> QED BY <1>1, <1>7, <3>1, <4>1, <4>2 DEF Piece
    <3>2. CASE ~ (i <= r.heads)
      <4>1. /\ i - r.heads \in 1 .. r.body /\ i \in 1 .. Len(d) + Len(c) /\ ~ (i <= Len(d))
            /\ i - Len(d) = i - r.heads /\ ~ (i < r.heads) /\ i # r.heads
        BY <1>1, <1>3, <1>6, <3>2 DEF d
      <4>2. (d \o c)[i] = c[i - r.heads]
        BY <1>7, <4>1
      <4>3. c[i - r.heads] = <<"b", n>>
        BY <1>3, <4>1
      <4> QED BY <4>1, <4>2, <4>3 DEF Piece
    <3> QED BY <3>1, <3>2
  <2> QED BY <2>1
<1> QED BY <1>3, <1>5, <1>6, <1>7, <1>8 DEF d

\* A read moves k pieces from the peer into the socket.
LEMMA ReadRest ==
  ASSUME NEW r, NEW n, NEW k \in Nat, NEW b \in Seq(PieceSet), NEW c \in Seq(PieceSet),
         Rest(r, n, k, b, c), NEW j \in 1 .. Len(c)
  PROVE  /\ b \o SubSeq(c, 1, j) \in Seq(PieceSet) /\ SubSeq(c, j + 1, Len(c)) \in Seq(PieceSet)
         /\ Rest(r, n, k, b \o SubSeq(c, 1, j), SubSeq(c, j + 1, Len(c)))
<1> DEFINE x == SubSeq(c, 1, j)
           y == SubSeq(c, j + 1, Len(c))
           z == b \o x
<1>0. Len(b) \in Nat /\ Len(c) \in Nat /\ j \in 0 .. Len(c)
  OBVIOUS
<1>1. /\ x \in Seq(PieceSet) /\ Len(x) = j /\ \A i \in 1 .. j : x[i] = c[i]
      /\ y \in Seq(PieceSet) /\ Len(y) = Len(c) - j /\ \A i \in 1 .. Len(c) - j : y[i] = c[j + i]
  BY <1>0, SliceIs
<1> HIDE DEF x, y
<1>2. /\ z \in Seq(PieceSet) /\ Len(z) = Len(b) + j
      /\ \A i \in 1 .. Len(b) + j : z[i] = IF i <= Len(b) THEN b[i] ELSE x[i - Len(b)]
  BY <1>1, ConcatProperties
<1> HIDE DEF z
<1>3. k + Len(z) + Len(y) = r.heads + r.body
  BY <1>0, <1>1, <1>2 DEF Rest
<1>4. ASSUME NEW i \in 1 .. Len(z) PROVE z[i] = Piece(r, n, k + i)
  <2>1. CASE i <= Len(b)
    <3>1. i \in 1 .. Len(b) /\ i \in 1 .. Len(b) + j
      BY <1>0, <1>2, <2>1
    <3>2. b[i] = Piece(r, n, k + i)
      BY <3>1 DEF Rest
    <3> QED BY <1>2, <2>1, <3>1, <3>2
  <2>2. CASE ~ (i <= Len(b))
    <3>1. i - Len(b) \in 1 .. j /\ i - Len(b) \in 1 .. Len(c) /\ k + Len(b) + (i - Len(b)) = k + i
      BY <1>0, <1>2, <2>2
    <3>2. z[i] = c[i - Len(b)]
      BY <1>1, <1>2, <2>2, <3>1
    <3>3. c[i - Len(b)] = Piece(r, n, k + Len(b) + (i - Len(b)))
      BY <3>1 DEF Rest
    <3> QED BY <3>1, <3>2, <3>3
  <2> QED BY <2>1, <2>2
<1>5. ASSUME NEW i \in 1 .. Len(y) PROVE y[i] = Piece(r, n, k + Len(z) + i)
  <2>0. /\ Len(b) \in Nat /\ Len(c) \in Nat /\ j \in Nat /\ k \in Int
        /\ Len(z) = Len(b) + j /\ Len(y) = Len(c) - j
    BY <1>0, <1>1, <1>2
  <2>1. j + i \in 1 .. Len(c) /\ k + Len(z) + i = k + Len(b) + (j + i)
    BY <2>0
  <2>2. c[j + i] = Piece(r, n, k + Len(b) + (j + i))
    BY <2>1 DEF Rest
  <2> QED BY <1>1, <2>1, <2>2
<1> QED BY <1>1, <1>2, <1>3, <1>4, <1>5 DEF Rest, x, y, z

\* The header ends at its last piece, once that is there.
LEMMA HeaderEndIs ==
  ASSUME NEW r \in Requests, NEW n \in Nat, NEW b \in Seq(PieceSet), NEW c \in Seq(PieceSet),
         Rest(r, n, 0, b, c)
  PROVE  HeaderEnd(b) = IF Len(b) < r.heads THEN 0 ELSE r.heads
<1>0. r.heads \in Nat \ {0} /\ r.body \in Nat /\ Len(b) \in Nat /\ DOMAIN b = 1 .. Len(b)
  BY RequestIs
<1>1. \A i \in DOMAIN b : b[i][1] = "e" <=> i = r.heads
  <2>1. ASSUME NEW i \in DOMAIN b PROVE b[i][1] = "e" <=> i = r.heads
    <3>1. b[i] = Piece(r, n, i)
      BY <1>0 DEF Rest
    <3> QED BY <3>1 DEF Piece
  <2> QED BY <2>1
<1>2. CASE Len(b) < r.heads
  <2>1. \A i \in DOMAIN b : i # r.heads
    BY <1>0, <1>2
  <2> QED BY <1>1, <1>2, <2>1 DEF HeaderEnd
<1>3. CASE ~ (Len(b) < r.heads)
  <2>1. r.heads \in DOMAIN b /\ b[r.heads][1] = "e"
    BY <1>0, <1>1, <1>3
  <2>2. \A j \in 1 .. r.heads - 1 : b[j][1] # "e"
    BY <1>0, <1>1, <1>3
  <2>3. \E i \in DOMAIN b : b[i][1] = "e" /\ \A j \in 1 .. i - 1 : b[j][1] # "e"
    BY <2>1, <2>2
  <2>4. HeaderEnd(b) = CHOOSE i \in DOMAIN b : b[i][1] = "e" /\ \A j \in 1 .. i - 1 : b[j][1] # "e"
    BY <2>1 DEF HeaderEnd
  <2>5. HeaderEnd(b) \in DOMAIN b /\ b[HeaderEnd(b)][1] = "e"
    BY <2>3, <2>4
  <2> QED BY <1>1, <1>3, <2>5
<1> QED BY <1>2, <1>3

\* The content is all there is behind the header: it is counted by its length.
LEMMA BodyIs ==
  ASSUME NEW r \in Requests, NEW n \in Nat, NEW b \in Seq(PieceSet), NEW c \in Seq(PieceSet),
         Rest(r, n, r.heads, b, c)
  PROVE  Cardinality({i \in DOMAIN b : b[i] = <<"b", n>>}) = Len(b)
<1>0. r.heads \in Nat \ {0} /\ Len(b) \in Nat /\ DOMAIN b = 1 .. Len(b)
  BY RequestIs
<1>1. \A i \in DOMAIN b : b[i] = <<"b", n>>
  BY <1>0 DEF Rest, Piece
<1>2. {i \in DOMAIN b : b[i] = <<"b", n>>} = 1 .. Len(b)
  BY <1>0, <1>1
<1>3. Cardinality(1 .. Len(b)) = IF 1 > Len(b) THEN 0 ELSE Len(b) - 1 + 1
  <2>1. 1 \in Int /\ Len(b) \in Int
    BY <1>0
  <2> QED BY <2>1, FS_Interval, Zenon
<1>4. Cardinality(1 .. Len(b)) = Len(b)
  BY <1>0, <1>3
<1> QED BY <1>2, <1>4

\* What the client keeps of the request: the peer sent it, and is not told of it yet.
Serving(u) ==
  /\ HttpTypes /\ InTurn /\ Len(answers) < Cur /\ open /\ reading /\ UNCHANGED <<reqs, handlers, alive>>
  /\ u \in Seq(PieceSet) /\ unsent' = u

\* The types and the answers, after a step of the handler that leaves the socket open, waits
\* for more of the request or answers it.
LEMMA CurIs ==
  ASSUME NEW u, Serving(u)
  PROVE  /\ Cur \in Nat /\ Cur \in 1 .. MaxRequests /\ reqs[Cur] \in Requests
         /\ Cur = Len(answers) + 1 /\ Cur' = Cur
         /\ reqs \in Seq(Requests) /\ answers \in Seq(Nat) /\ buf \in Seq(PieceSet)
<1>1. /\ reqs \in Seq(Requests) /\ Len(reqs) <= MaxRequests /\ answers \in Seq(Nat)
      /\ buf \in Seq(PieceSet) /\ Len(answers) < Len(reqs) /\ Len(reqs) <= Len(answers) + 1
      /\ Len(reqs) \in Nat /\ Len(answers) \in Nat /\ UNCHANGED reqs
  BY DEF Serving, HttpTypes, InTurn, Cur
<1>2. MaxRequests \in Nat
  BY HttpAssumption
<1> QED BY <1>1, <1>2 DEF Cur

\* An answer is added behind the others.
LEMMA Answered ==
  ASSUME NEW u, Serving(u), answers' \in {answers, Append(answers, Cur)}
  PROVE  /\ answers' \in Seq(Nat) /\ InTurn'
         /\ answers' = Append(answers, Cur) => Len(answers') = Cur'
<1>1. /\ Cur \in Nat /\ Cur = Len(answers) + 1 /\ Cur' = Cur /\ answers \in Seq(Nat)
  BY CurIs
<1>2. Len(answers) <= Cur /\ Cur <= Len(answers) + 1 /\ \A i \in DOMAIN answers : answers[i] = i
  BY DEF Serving, InTurn
<1>3. CASE answers' = answers
  <2>1. Cur' = Len(answers') + 1
    BY <1>1, <1>3
  <2> QED BY <1>1, <1>2, <1>3, <2>1 DEF InTurn
<1>4. CASE answers' = Append(answers, Cur)
  <2>1. /\ answers' \in Seq(Nat) /\ Len(answers') = Cur
        /\ \A i \in DOMAIN answers' : answers'[i] = i
    BY <1>1, <1>2, <1>4
  <2> QED BY <1>1, <2>1 DEF InTurn
<1> QED BY <1>3, <1>4

\* The socket is closed, or its bytes are left to a WebSocket server.
LEMMA Closes ==
  ASSUME NEW u, Serving(u), answers' \in {answers, Append(answers, Cur)},
         open' \in BOOLEAN, reading' \in BOOLEAN, ~ (open' /\ reading'),
         buf' \in Seq(PieceSet), hdr' \in {hdr, Cur}, clientState' = "idle"
  PROVE  HttpTypes' /\ InTurn' /\ Taken'
<1>1. answers' \in Seq(Nat) /\ InTurn'
  BY Answered
<1>2. Cur \in 0 .. MaxRequests
  BY CurIs
<1>3. HttpTypes'
  BY <1>1, <1>2 DEF HttpTypes, HttpTypeOK, Serving
<1> QED BY <1>1, <1>3 DEF Taken

\* Serve with the bytes behind the header.
LEMMA ContentServed ==
  ASSUME NEW u, Serving(u), NEW b \in Seq(PieceSet),
         Rest(reqs[Cur], Cur, reqs[Cur].heads, b, u), reqs[Cur].kind # "ws", Serve(Cur, b)
  PROVE  HttpTypes' /\ InTurn' /\ Taken'
<1> DEFINE r == reqs[Cur]
           done == Append(answers, IF Cardinality({i \in DOMAIN b : b[i] = <<"b", Cur>>}) = r.body
                                   THEN Cur ELSE 0)
<1>0. /\ Cur \in Nat /\ Cur \in 1 .. MaxRequests /\ r \in Requests /\ Cur' = Cur
      /\ Cur = Len(answers) + 1 /\ u \in Seq(PieceSet) /\ unsent' = u /\ UNCHANGED reqs
      /\ open /\ reading
  BY CurIs DEF Serving
<1>1. r.heads \in Nat /\ r.body \in Nat /\ r.heads + Len(b) + Len(u) = r.heads + r.body
      /\ Len(b) \in Nat /\ Len(u) \in Nat
  BY <1>0, RequestIs DEF Rest
<1>2. Cardinality({i \in DOMAIN b : b[i] = <<"b", Cur>>}) = Len(b)
  BY <1>0, BodyIs
<1>3. CASE ~ Complete(r, b) /\ Wait("content", b, Cur)
  <2>1. /\ clientState' = "content" /\ buf' = b /\ hdr' = Cur /\ open' /\ reading'
        /\ answers' = answers
    BY <1>0, <1>3 DEF Wait
  <2>2. Len(b) < r.body
    BY <1>1, <1>3 DEF Complete
  <2>3. answers' \in Seq(Nat) /\ InTurn' /\ Len(answers') < Cur'
    BY <1>0, <2>1, Answered DEF Serving
  <2>4. HttpTypes'
    BY <1>0, <2>1, <2>3 DEF HttpTypes, HttpTypeOK, Serving
  <2>5. Rest(reqs'[Cur'], Cur', reqs'[Cur'].heads, buf', unsent')
    BY <1>0, <2>1
  <2>6. Taken'
    BY <1>0, <2>1, <2>2, <2>3, <2>5 DEF Taken
  <2> QED BY <2>3, <2>4, <2>6
<1>4. CASE Complete(r, b)
  <2>1. Len(b) = r.body /\ Len(u) = 0
    BY <1>1, <1>4 DEF Complete
  <2>2. done = Append(answers, Cur)
    BY <1>2, <2>1
  <2>3. CASE /\ clientState' = "idle" /\ hdr' = Cur
             /\ buf' = SubSeq(b, r.body + 1, Len(b)) /\ answers' = done
             /\ UNCHANGED <<open, reading>>
    <3>1. buf' = <<>> /\ unsent' = <<>>
      <4>1. Len(b) \in 0 .. Len(b)
        BY <1>1
      <4>2. /\ SubSeq(b, Len(b) + 1, Len(b)) \in Seq(PieceSet)
            /\ Len(SubSeq(b, Len(b) + 1, Len(b))) = Len(b) - Len(b)
        BY <4>1, SliceIs
      <4>3. SubSeq(b, Len(b) + 1, Len(b)) = <<>>
        BY <1>1, <4>2
      <4> QED BY <1>0, <2>1, <2>3, <4>3
    <3>2. answers' \in Seq(Nat) /\ InTurn' /\ Len(answers') = Cur'
      BY <2>2, <2>3, Answered
    <3>3. HttpTypes'
      <4>1. /\ clientState' = "idle" /\ hdr' = Cur /\ hdr' \in 0 .. MaxRequests
            /\ UNCHANGED <<open, reading, reqs, handlers, alive>>
        BY <1>0, <2>3 DEF Serving
      <4>2. buf' \in Seq(PieceSet) /\ unsent' \in Seq(PieceSet)
        BY <3>1
      <4> HIDE DEF done
      <4> QED BY <3>2, <4>1, <4>2 DEF HttpTypes, HttpTypeOK, Serving
    <3>4. Taken'
      BY <2>3, <3>1, <3>2 DEF Taken
    <3> QED BY <3>2, <3>3, <3>4
  <2>4. CASE CloseSocket(done)
    <3>1. /\ open' = FALSE /\ clientState' = "idle" /\ buf' = <<>> /\ answers' = Append(answers, Cur)
          /\ hdr' = hdr /\ reading' \in BOOLEAN /\ open' \in BOOLEAN
      BY <2>2, <2>4 DEF CloseSocket, Serving, HttpTypes
    <3>2. buf' \in Seq(PieceSet)
      BY <3>1
    <3> QED BY <3>1, <3>2, Closes
  <2> QED BY <1>4, <2>3, <2>4 DEF Serve
<1> QED BY <1>3, <1>4 DEF Serve

\* A request that is complete is handed over once, and with all of its content.
LEMMA Handled ==
  ASSUME NEW u, Serving(u), NEW b \in Seq(PieceSet), handleHttpRequest(b),
         \/ /\ clientState = "content" /\ hdr = Cur /\ reqs[Cur].kind # "ws"
            /\ Rest(reqs[Cur], Cur, reqs[Cur].heads, b, u)
         \/ clientState # "content" /\ Rest(reqs[Cur], Cur, 0, b, u)
  PROVE  HttpTypes' /\ InTurn' /\ Taken'
<1> DEFINE r == reqs[Cur]
<1>0. /\ Cur \in Nat /\ Cur \in 1 .. MaxRequests /\ r \in Requests /\ Cur' = Cur
      /\ Cur = Len(answers) + 1 /\ u \in Seq(PieceSet) /\ unsent' = u /\ UNCHANGED reqs
      /\ open /\ reading
  BY CurIs DEF Serving
<1>1. /\ r.heads \in Nat \ {0} /\ r.body \in Nat /\ (r.kind = "ws" => r.body = 0)
      /\ Len(b) \in Nat /\ Len(u) \in Nat
  BY <1>0, RequestIs
<1>2. CASE clientState = "content"
  BY <1>2, ContentServed DEF handleHttpRequest
<1>3. CASE clientState # "content"
  <2>0. Rest(r, Cur, 0, b, u)
    BY <1>3
  <2>1. HeaderEnd(b) = IF Len(b) < r.heads THEN 0 ELSE r.heads
    BY <1>0, <2>0, HeaderEndIs
  <2>2. CASE \E a \in {answers, Append(answers, Cur)} : CloseSocket(a)
    <3>1. /\ open' = FALSE /\ clientState' = "idle" /\ buf' = <<>>
          /\ answers' \in {answers, Append(answers, Cur)}
          /\ hdr' = hdr /\ reading' \in BOOLEAN /\ open' \in BOOLEAN
      BY <2>2 DEF CloseSocket, Serving, HttpTypes
    <3>2. buf' \in Seq(PieceSet)
      BY <3>1
    <3> QED BY <3>1, <3>2, Closes
  <2>3. CASE HeaderEnd(b) = 0 /\ Wait("header", b, hdr)
    <3>1. /\ clientState' = "header" /\ buf' = b /\ hdr' = hdr /\ open' /\ reading'
          /\ answers' = answers
      BY <1>0, <2>3 DEF Wait
    <3>2. Len(b) < r.heads
      BY <1>1, <2>1, <2>3
    <3>3. answers' \in Seq(Nat) /\ InTurn' /\ Len(answers') < Cur'
      BY <1>0, <3>1, Answered DEF Serving
    <3>4. HttpTypes'
      BY <1>0, <3>1, <3>3 DEF HttpTypes, HttpTypeOK, Serving
    <3>5. Rest(reqs'[Cur'], Cur', 0, buf', unsent')
      BY <1>0, <2>0, <3>1
    <3>6. Taken'
      BY <1>0, <3>1, <3>2, <3>3, <3>5 DEF Taken
    <3> QED BY <3>3, <3>4, <3>6
  <2>4. CASE r.kind = "ws" /\ Serve(Cur, b)
    <3>1. {i \in DOMAIN b : b[i] = <<"b", Cur>>} = {}
      <4>1. ASSUME NEW i \in DOMAIN b PROVE b[i] # <<"b", Cur>>
        <5>0. i \in 1 .. Len(b) /\ i \in Nat
          BY <1>1, LenProperties DEF Serving
        <5>1. b[i] = Piece(r, Cur, 0 + i)
          BY <2>0, <5>0, Zenon DEF Rest
        <5>2. 0 + Len(b) + Len(u) = r.heads + r.body /\ r.body = 0
          BY <1>1, <2>0, <2>4 DEF Rest
        <5>3. i <= r.heads /\ 0 + i = i
          <6> HIDE DEF r
          <6> QED BY <1>1, <5>0, <5>2
        <5> QED BY <1>1, <5>1, <5>3 DEF Piece
      <4> QED BY <4>1
    <3>2. Cardinality({i \in DOMAIN b : b[i] = <<"b", Cur>>}) = r.body
      BY <1>1, <2>4, <3>1, FS_EmptySet
    <3>3. /\ reading' = FALSE /\ clientState' = "idle" /\ hdr' = Cur
          /\ open' = (handlers # {}) /\ buf' = (IF handlers # {} THEN b ELSE <<>>)
          /\ answers' = Append(answers, Cur)
      BY <2>4, <3>2 DEF Serve
    <3>4. buf' \in Seq(PieceSet) /\ open' \in BOOLEAN
      BY <3>3
    <3> QED BY <3>3, <3>4, Closes
  <2>5. CASE HeaderEnd(b) # 0 /\ r.kind # "ws" /\ Serve(Cur, Skipped(b))
    <3> DEFINE c == SubSeq(b, r.heads + 1, Len(b))
    <3>1. Skipped(b) = c /\ r.heads \in 0 .. Len(b)
      <4>1. HeaderEnd(b) = r.heads /\ r.heads \in 0 .. Len(b)
        BY <1>1, <2>1, <2>5
      <4>2. Skipped(b) = SubSeq(b, HeaderEnd(b) + 1, Len(b))
        BY <2>5 DEF Skipped
      <4> QED BY <4>1, <4>2
    <3>2. /\ c \in Seq(PieceSet) /\ Len(c) = Len(b) - r.heads
          /\ \A i \in 1 .. Len(b) - r.heads : c[i] = b[r.heads + i]
      BY <3>1, SliceIs
    <3> HIDE DEF c
    <3>3. Rest(r, Cur, r.heads, c, u)
      <4>1. r.heads + Len(c) + Len(u) = r.heads + r.body
        BY <1>1, <2>0, <3>2 DEF Rest
      <4>2. ASSUME NEW i \in 1 .. Len(c) PROVE c[i] = Piece(r, Cur, r.heads + i)
        <5>1. r.heads + i \in 1 .. Len(b) /\ 0 + (r.heads + i) = r.heads + i
          BY <1>1, <3>1, <3>2
        <5>2. b[r.heads + i] = Piece(r, Cur, 0 + (r.heads + i))
          BY <2>0, <5>1 DEF Rest
        <5> QED BY <3>2, <5>1, <5>2
      <4>3. ASSUME NEW i \in 1 .. Len(u) PROVE u[i] = Piece(r, Cur, r.heads + Len(c) + i)
        <5>1. r.heads + Len(c) + i = 0 + Len(b) + i
          BY <1>1, <3>2
        <5> QED BY <2>0, <5>1 DEF Rest
      <4> QED BY <4>1, <4>2, <4>3 DEF Rest
    <3> QED BY <2>5, <3>1, <3>2, <3>3, ContentServed
  <2> QED BY <1>3, <2>2, <2>3, <2>4, <2>5 DEF handleHttpRequest
<1> QED BY <1>2, <1>3

----------------------------------------------------------------------------
\* Arrive: the rest of a request is read in pieces of any size.
LEMMA ArriveOK ==
  ASSUME HInv, NEW k \in 1 .. Len(unsent), Arrive(k)
  PROVE  HInv'
<1> DEFINE b == buf \o SubSeq(unsent, 1, k)
           u == SubSeq(unsent, k + 1, Len(unsent))
<1>1. /\ HttpTypes /\ InTurn /\ Taken /\ Living /\ open /\ reading /\ unsent' = u
      /\ handleHttpRequest(b) /\ UNCHANGED <<handlers, alive, reqs>>
      /\ buf \in Seq(PieceSet) /\ unsent \in Seq(PieceSet) /\ unsent # <<>>
  BY DEF HInv, Arrive, HttpTypes
<1>2. \/ /\ Len(answers) < Cur /\ clientState # "content"
         /\ Rest(reqs[Cur], Cur, 0, buf, unsent)
      \/ /\ Len(answers) < Cur /\ clientState = "content" /\ hdr = Cur /\ reqs[Cur].kind # "ws"
         /\ Rest(reqs[Cur], Cur, reqs[Cur].heads, buf, unsent)
  BY <1>1 DEF Taken
<1>3. Cur \in Nat /\ reqs[Cur] \in Requests
  <2>1. Len(reqs) \in Nat /\ Len(answers) \in Nat /\ reqs \in Seq(Requests) /\ Len(answers) < Len(reqs)
    BY <1>1, <1>2 DEF HttpTypes, Cur
  <2> QED BY <2>1 DEF Cur
<1>4. reqs[Cur].heads \in Nat /\ 0 \in Nat
  BY <1>3, RequestIs
<1>5. /\ b \in Seq(PieceSet) /\ u \in Seq(PieceSet)
      /\ \/ /\ clientState = "content" /\ hdr = Cur /\ reqs[Cur].kind # "ws"
            /\ Rest(reqs[Cur], Cur, reqs[Cur].heads, b, u)
         \/ clientState # "content" /\ Rest(reqs[Cur], Cur, 0, b, u)
  BY <1>1, <1>2, <1>4, ReadRest
<1> HIDE DEF b, u
<1>6. Serving(u)
  BY <1>1, <1>2, <1>5 DEF Serving
<1>7. HttpTypes' /\ InTurn' /\ Taken'
  BY <1>1, <1>5, <1>6, Handled
<1> QED BY <1>1, <1>7 DEF HInv, Living

\* Request: the peer sends its next request when nothing of the last is left.
LEMMA RequestOK ==
  ASSUME HInv, NEW r \in Requests, Request(r)
  PROVE  HInv'
<1>1. /\ HttpTypes /\ InTurn /\ Taken /\ Living /\ open /\ reading /\ Len(answers) = Cur
      /\ Cur < MaxRequests /\ reqs' = Append(reqs, r) /\ unsent' = Pieces(r, Cur + 1)
      /\ reqs \in Seq(Requests)
      /\ UNCHANGED <<open, reading, clientState, hdr, handlers, alive, buf, answers>>
  BY DEF HInv, Request, HttpTypes
<1>2. /\ Cur \in Nat /\ reqs' \in Seq(Requests) /\ Cur' = Cur + 1 /\ reqs'[Cur'] = r
      /\ Len(reqs') = Cur + 1 /\ Cur + 1 \in Nat
  BY <1>1 DEF Cur
<1>3. /\ unsent' \in Seq(PieceSet) /\ Len(unsent') = r.heads + r.body
      /\ \A i \in 1 .. r.heads + r.body : unsent'[i] = Piece(r, Cur + 1, i)
  BY <1>1, <1>2, PiecesAre
<1>4. buf' = <<>> /\ clientState' = "idle"
  BY <1>1 DEF Taken
<1>5. MaxRequests \in Nat
  BY HttpAssumption
<1>6. HttpTypes'
  BY <1>1, <1>2, <1>3, <1>5 DEF HttpTypes, HttpTypeOK
<1>7. InTurn' /\ Len(answers') < Cur'
  BY <1>1, <1>2 DEF InTurn
<1>8. Rest(r, Cur + 1, 0, <<>>, unsent')
  <2>1. r.heads \in Nat /\ r.body \in Nat /\ Len(<<>>) = 0
    BY RequestIs
  <2>2. 0 + Len(<<>>) + Len(unsent') = r.heads + r.body
    BY <1>3, <2>1
  <2>3. ASSUME NEW i \in 1 .. Len(unsent') PROVE unsent'[i] = Piece(r, Cur + 1, 0 + Len(<<>>) + i)
    <3>1. 0 + Len(<<>>) + i = i
      BY <2>1
    <3> QED BY <1>3, <3>1
  <2> QED BY <2>1, <2>2, <2>3 DEF Rest
<1>9. Taken'
  BY <1>1, <1>2, <1>4, <1>7, <1>8 DEF Taken
<1> QED BY <1>1, <1>6, <1>7, <1>9 DEF HInv, Living

\* The timer, the peer, the end of the connection and that of a plugin.
LEMMA EndsOK ==
  ASSUME HInv,
         \/ timeout \/ PeerCloses \/ detachHandlers
         \/ \E h \in Handlers : HandlerDestroyed(h)
  PROVE  HInv'
<1>1. HttpTypes /\ InTurn /\ Taken /\ Living
  BY DEF HInv
<1>2. /\ UNCHANGED <<reading, hdr, buf, unsent, reqs, answers>>
      /\ open' \in BOOLEAN /\ (open' => open /\ UNCHANGED clientState)
      /\ clientState' \in {"idle", clientState}
      /\ handlers' \subseteq handlers /\ alive' \subseteq alive
      /\ handlers' \subseteq alive'
  <2>1. open \in BOOLEAN /\ handlers \subseteq alive
    BY <1>1 DEF HttpTypes, Living
  <2>2. CASE timeout
    BY <2>1, <2>2 DEF timeout
  <2>3. CASE PeerCloses
    BY <2>1, <2>3 DEF PeerCloses
  <2>4. CASE detachHandlers
    BY <2>1, <2>4 DEF detachHandlers
  <2>5. ASSUME NEW h \in Handlers, HandlerDestroyed(h)
        PROVE  /\ UNCHANGED <<reading, hdr, buf, unsent, reqs, answers, open, clientState>>
               /\ handlers' = {} /\ alive' = alive \ {h}
    BY <2>5 DEF HandlerDestroyed, Remaining
  <2> QED BY <2>1, <2>2, <2>3, <2>4, <2>5
<1>3. HttpTypes' /\ InTurn'
  BY <1>1, <1>2 DEF HttpTypes, HttpTypeOK, InTurn, Cur
<1>4. Taken'
  BY <1>1, <1>2 DEF Taken, Cur
<1> QED BY <1>2, <1>3, <1>4 DEF HInv, Living

\* At the start no client has sent anything.
LEMMA HttpStarts ==
  ASSUME HttpInit
  PROVE  HInv
<1>1. MaxRequests \in Nat
  BY HttpAssumption
<1>2. HttpTypes
  BY <1>1 DEF HttpInit, HttpTypes, HttpTypeOK
<1>3. InTurn /\ Taken /\ Living
  BY DEF HttpInit, InTurn, Taken, Living, Cur
<1> QED BY <1>2, <1>3 DEF HInv

\* The invariant is inductive.
LEMMA HttpSteps ==
  ASSUME HInv, [HttpNext]_httpVars
  PROVE  HInv'
<1>1. CASE UNCHANGED httpVars
  <2>1. HttpTypes' /\ InTurn' /\ Taken' /\ Living'
    BY <1>1 DEF HInv, HttpTypes, HttpTypeOK, InTurn, Taken, Living, Cur, httpVars
  <2> QED BY <2>1 DEF HInv
<1>2. CASE HttpNext
  BY <1>2, ArriveOK, RequestOK, EndsOK DEF HttpNext
<1> QED BY <1>1, <1>2

\* However many requests the peer sends, of whatever length and cut into whatever pieces, and
\* whenever timer, peer and plugins end: each is answered once, in turn and with all of its
\* content, nothing of it is left for the next header, and no plugin that ended is called
\* (zmHttpClient::handleHttpRequest, timeout, detachHandlers, handlerDeleted).
THEOREM HttpIsSound == HttpSpec => []HttpSafe
<1>1. HttpInit => HInv
  BY HttpStarts
<1>2. HInv /\ [HttpNext]_httpVars => HInv'
  BY HttpSteps
<1>3. HInv => HttpSafe
  <2>1. ASSUME HInv, open, reading, clientState = "idle" PROVE buf = <<>>
    BY <2>1 DEF HInv, Taken
  <2> QED BY <2>1 DEF HInv, HttpTypes, InTurn, Living, HttpSafe
<1> QED BY <1>1, <1>2, <1>3, PTL DEF HttpSpec

----------------------------------------------------------------------------
(* Links: what a step does to the entries, entry by entry.                 *)

Entry == [a : Peers \cup {Nobody}, b : Peers \cup {Nobody}, link : Nat, old : BOOLEAN]

\* What the variables hold.
DrawTypes ==
  /\ state \in [Peers -> {"ok", "zombie", "gone"}] /\ createQueue \in Seq(Peers \X Peers)
  /\ neighbors \in Seq(Entry) /\ neighborsDead \in Seq(Nat) /\ links \in Nat
  /\ glinks \in [Peers -> SUBSET Nat] /\ linkIter \in Nat \ {0}
  /\ bindingTable \in [Peers -> SUBSET Bound] /\ bindings \subseteq Bound
  /\ bindLinkQueue \in Seq(Peers)

\* Two nodes have one entry, and a NodeLink has one.
Single ==
  \A j, k \in DOMAIN neighbors :
    j # k => /\ neighbors[j].a # Nobody => EndsOf(neighbors[j]) # EndsOf(neighbors[k])
             /\ neighbors[j].link # 0 => neighbors[j].link # neighbors[k].link

\* The NodeLinks are numbered as they were made; those put aside are in no entry.
Numbered ==
  /\ \A k \in DOMAIN neighbors : neighbors[k].link <= links
  /\ \A i \in DOMAIN neighborsDead : neighborsDead[i] \in 1 .. links
  /\ \A i, j \in DOMAIN neighborsDead : i # j => neighborsDead[i] # neighborsDead[j]
  /\ \A k \in DOMAIN neighbors, i \in DOMAIN neighborsDead : neighbors[k].link # neighborsDead[i]

\* A node knows the NodeLinks of its entries, and a node that was deleted has none.
Shared ==
  /\ \A n \in Peers : glinks[n] = {neighbors[k].link : k \in OfNode(n)}
  /\ \A n \in Peers : state[n] = "gone" => OfNode(n) = {} /\ \A b \in bindings : n \notin {b[1], b[2]}

\* The inductive invariant.
DInv == DrawTypes /\ Single /\ Numbered /\ Shared

\* The entry with the number i among some of the first n numbers is one of them, with i - 1
\* before it; so two numbers have two entries.
LEMMA RankIsIn ==
  ASSUME NEW n \in Nat, NEW ks \in SUBSET (1 .. n)
  PROVE  /\ Cardinality(ks) \in Nat
         /\ \A i \in 1 .. Cardinality(ks) : InOrder(ks)[i] \in ks
         /\ \A i, j \in 1 .. Cardinality(ks) : i # j => InOrder(ks)[i] # InOrder(ks)[j]
<1> DEFINE Upto(k) == {j \in ks : j <= k}
<1>1. IsFiniteSet(ks) /\ Cardinality(ks) \in Nat
  <2>1. 1 \in Int /\ n \in Int
    OBVIOUS
  <2>2. IsFiniteSet(1 .. n)
    BY <2>1, FS_Interval, Zenon
  <2> QED BY <2>2, FS_Subset, FS_CardinalityType
<1>0. \A k \in ks : k \in Nat /\ k \in 1 .. n
  OBVIOUS
<1>2. ASSUME NEW k \in Nat
      PROVE  IsFiniteSet(Upto(k)) /\ Cardinality(Upto(k)) \in Nat
  <2>1. Upto(k) \in SUBSET ks
    OBVIOUS
  <2> HIDE DEF Upto
  <2> QED BY <1>1, <2>1, FS_Subset, FS_CardinalityType
<1>3. ASSUME NEW i \in 1 .. Cardinality(ks)
      PROVE  InOrder(ks)[i] \in ks /\ Cardinality(Upto(InOrder(ks)[i])) = i
  <2> DEFINE S == {k \in ks : i <= Cardinality(Upto(k))}
  <2>1. ks # {}
    <3>1. SUFFICES ASSUME ks = {} PROVE FALSE
      OBVIOUS
    <3>2. Cardinality(ks) = 0
      BY <3>1, FS_EmptySet
    <3> QED BY <3>2
  <2>2. Max(ks) \in ks /\ \A y \in ks : y <= Max(ks)
    BY <2>1, MaxIsIn
  <2>3. Upto(Max(ks)) = ks
    BY <2>2
  <2>4. Max(ks) \in S
    <3>1. i <= Cardinality(Upto(Max(ks)))
      BY <2>3, <1>1
    <3> QED BY <2>2, <3>1
  <2>5. S \in SUBSET Nat /\ S # {}
    <3>1. \A k \in S : k \in ks
      OBVIOUS
    <3> HIDE DEF S
    <3> QED BY <1>0, <2>4, <3>1
  <2>6. PICK x \in S : \A y \in S : x <= y
    BY <2>5, NatMin
  <2>7. Min(S) \in S /\ \A y \in S : Min(S) <= y
    <3> HIDE DEF S
    <3> QED BY <2>6 DEF Min
  <2>8. PICK m \in ks : m = Min(S) /\ i <= Cardinality(Upto(m))
    BY <2>7
  <2>9. InOrder(ks)[i] = m /\ \A y \in S : m <= y
    BY <1>1, <2>7, <2>8 DEF InOrder
  <2>10. m \in Nat
    BY <2>8
  <2>11. Upto(m) \ {m} = {j \in ks : j < m}
    <3>1. \A j \in ks : j <= m /\ j # m <=> j < m
      BY <1>0, <2>10
    <3> QED BY <3>1
  <2>12. Cardinality(Upto(m) \ {m}) = Cardinality(Upto(m)) - 1
    <3>1. m \in Upto(m)
      BY <2>8
    <3>2. IsFiniteSet(Upto(m))
      BY <1>2, <2>10
    <3> HIDE DEF Upto
    <3> QED BY <3>1, <3>2, FS_RemoveElement
  <2>13. Cardinality(Upto(m)) <= i
    <3>1. SUFFICES ASSUME i < Cardinality(Upto(m)) PROVE FALSE
      BY <1>2, <2>10
    <3> DEFINE B == {j \in ks : j < m}
    <3>2. i <= Cardinality(B) /\ Cardinality(B) \in Nat
      <4>1. Cardinality(Upto(m)) \in Nat
        BY <1>2, <2>10
      <4> QED BY <3>1, <4>1, <2>11, <2>12
    <3>3. B # {}
      <4>1. SUFFICES ASSUME B = {} PROVE FALSE
        OBVIOUS
      <4>2. Cardinality(B) = 0
        BY <4>1, FS_EmptySet
      <4> QED BY <3>2, <4>2
    <3>4. B \in SUBSET (1 .. n) /\ \A j \in B : j \in ks /\ j < m
      OBVIOUS
    <3>5. Max(B) \in B /\ \A y \in B : y <= Max(B)
      <4> HIDE DEF B
      <4> QED BY <3>3, <3>4, MaxIsIn
    <3>6. Upto(Max(B)) = B
      <4>1. Max(B) \in ks /\ Max(B) < m /\ \A y \in ks : y < m => y <= Max(B)
        BY <3>5
      <4>2. \A j \in ks : j <= Max(B) <=> j < m
        <5> DEFINE top == Max(B)
        <5>1. top \in Nat /\ top < m /\ \A y \in ks : y < m => y <= top
          BY <1>0, <4>1
        <5> HIDE DEF top
        <5>2. \A j \in ks : j <= top <=> j < m
          BY <1>0, <2>10, <5>1
        <5> QED BY <5>2 DEF top
      <4> QED BY <4>2
    <3>7. Max(B) \in S
      <4>1. Max(B) \in ks /\ i <= Cardinality(Upto(Max(B)))
        BY <3>2, <3>4, <3>5, <3>6
      <4> QED BY <4>1
    <3>8. Max(B) < m /\ Max(B) \in Nat
      BY <3>4, <3>5
    <3>9. m <= Max(B)
      <4> HIDE DEF B, S
      <4> QED BY <2>9, <3>7
    <3> HIDE DEF B, S
    <3> QED BY <3>9, <2>10, <3>8
  <2>14. Cardinality(Upto(m)) = i
    <3>1. Cardinality(Upto(m)) \in Nat
      BY <1>2, <2>10
    <3> QED BY <2>8, <2>13, <3>1
  <2> QED BY <2>8, <2>9, <2>14
<1> HIDE DEF Upto
<1> QED BY <1>1, <1>3

\* The entries are records, and those of a node are among them.
LEMMA OfNodeIs ==
  ASSUME DrawTypes
  PROVE  /\ DOMAIN neighbors = 1 .. Len(neighbors) /\ Len(neighbors) \in Nat
         /\ \A k \in DOMAIN neighbors : neighbors[k] \in Entry
         /\ \A n \in Peers : \A k \in OfNode(n) :
              k \in DOMAIN neighbors /\ neighbors[k].link # 0 /\ n \in EndsOf(neighbors[k])
<1>1. DOMAIN neighbors = 1 .. Len(neighbors) /\ Len(neighbors) \in Nat
  BY LenProperties DEF DrawTypes
<1>2. \A k \in DOMAIN neighbors : neighbors[k] \in Entry
  BY <1>1, ElementOfSeq DEF DrawTypes
<1> QED BY <1>1, <1>2 DEF OfNode

\* What the links that are put aside become when one is added behind them or taken from there.
LEMMA DeadIs ==
  ASSUME DrawTypes
  PROVE  /\ DOMAIN neighborsDead = 1 .. Len(neighborsDead) /\ Len(neighborsDead) \in Nat
         /\ \A l \in Nat : /\ Append(neighborsDead, l) \in Seq(Nat)
                           /\ Len(Append(neighborsDead, l)) = Len(neighborsDead) + 1
                           /\ \A i \in 1 .. Len(neighborsDead) + 1 :
                                Append(neighborsDead, l)[i]
                                  = IF i = Len(neighborsDead) + 1 THEN l ELSE neighborsDead[i]
         /\ neighborsDead # <<>> =>
              /\ Front(neighborsDead) \in Seq(Nat) /\ Len(neighborsDead) >= 1
              /\ Len(Front(neighborsDead)) = Len(neighborsDead) - 1
              /\ \A i \in 1 .. Len(neighborsDead) - 1 : Front(neighborsDead)[i] = neighborsDead[i]
              /\ Last(neighborsDead) = neighborsDead[Len(neighborsDead)]
<1> DEFINE s == neighborsDead
<1>1. s \in Seq(Nat) /\ DOMAIN s = 1 .. Len(s) /\ Len(s) \in Nat
  BY LenProperties DEF DrawTypes
<1>2. \A i \in 1 .. Len(s) : s[i] \in Nat
  BY <1>1, ElementOfSeq
<1> HIDE DEF s
<1>3. ASSUME NEW l \in Nat
      PROVE  /\ Append(s, l) \in Seq(Nat) /\ Len(Append(s, l)) = Len(s) + 1
             /\ \A i \in 1 .. Len(s) + 1 : Append(s, l)[i] = IF i = Len(s) + 1 THEN l ELSE s[i]
  <2>1. /\ Append(s, l) \in Seq(Nat) /\ Len(Append(s, l)) = Len(s) + 1
        /\ \A i \in 1 .. Len(s) : Append(s, l)[i] = s[i]
        /\ Append(s, l)[Len(s) + 1] = l
    BY <1>1, AppendProperties
  <2> QED BY <1>1, <2>1
<1>4. ASSUME s # <<>>
      PROVE  /\ Front(s) \in Seq(Nat) /\ Len(s) >= 1 /\ Len(Front(s)) = Len(s) - 1
             /\ \A i \in 1 .. Len(s) - 1 : Front(s)[i] = s[i]
             /\ Last(s) = s[Len(s)]
  <2>1. Len(s) >= 1
    BY <1>1, <1>4, EmptySeq
  <2>2. /\ SubSeq(s, 1, Len(s) - 1) \in Seq(Nat)
        /\ Len(SubSeq(s, 1, Len(s) - 1)) = IF 1 <= Len(s) - 1 THEN Len(s) - 1 - 1 + 1 ELSE 0
        /\ \A i \in 1 .. Len(s) - 1 - 1 + 1 : SubSeq(s, 1, Len(s) - 1)[i] = s[1 + i - 1]
    <3>1. \A i \in 1 .. Len(s) - 1 : s[i] \in Nat
      BY <1>1, <1>2
    <3>2. 1 \in Int /\ Len(s) - 1 \in Int
      BY <1>1
    <3> QED BY <3>1, <3>2, SubSeqProperties
  <2> QED BY <1>1, <2>1, <2>2 DEF Front, Last
<1> QED BY <1>1, <1>3, <1>4 DEF s

\* A step that leaves the ends and the links of the entries alone keeps the invariant, if it
\* draws no binding of a node that was deleted.
LEMMA SameEntries ==
  ASSUME DInv, DOMAIN neighbors' = DOMAIN neighbors, UNCHANGED <<neighborsDead, glinks, links>>,
         \A k \in DOMAIN neighbors : /\ neighbors'[k].a = neighbors[k].a
                                     /\ neighbors'[k].b = neighbors[k].b
                                     /\ neighbors'[k].link = neighbors[k].link,
         \A n \in Peers : state'[n] = "gone" =>
           state[n] = "gone" /\ \A b \in bindings' : b \in bindings \/ n \notin {b[1], b[2]}
  PROVE  Single' /\ Numbered' /\ Shared'
<1>1. \A k \in DOMAIN neighbors : EndsOf(neighbors'[k]) = EndsOf(neighbors[k])
  BY DEF EndsOf
<1>2. \A n : OfNode(n)' = OfNode(n)
  BY <1>1 DEF OfNode
<1>3. Single'
  BY <1>1 DEF DInv, Single
<1>4. Numbered'
  BY DEF DInv, Numbered
<1>5. ASSUME NEW n \in Peers PROVE glinks'[n] = {neighbors'[k].link : k \in OfNode(n)'}
  <2>1. \A k \in OfNode(n) : neighbors'[k].link = neighbors[k].link
    BY DEF OfNode
  <2>2. {neighbors'[k].link : k \in OfNode(n)} = {neighbors[k].link : k \in OfNode(n)}
    BY <2>1
  <2> QED BY <1>2, <2>2 DEF DInv, Shared
<1>6. ASSUME NEW n \in Peers, state'[n] = "gone"
      PROVE  OfNode(n)' = {} /\ \A b \in bindings' : n \notin {b[1], b[2]}
  BY <1>2, <1>6 DEF DInv, Shared
<1> QED BY <1>3, <1>4, <1>5, <1>6 DEF Shared

\* Only the age of an entry changes.
LEMMA OldChanges ==
  ASSUME DInv, NEW k \in DOMAIN neighbors, NEW o \in BOOLEAN,
         neighbors' = [neighbors EXCEPT ![k].old = o], createQueue' \in Seq(Peers \X Peers),
         UNCHANGED <<neighborsDead, glinks, links, linkIter, state, bindings, bindingTable, bindLinkQueue>>
  PROVE  DInv'
<1>0. DrawTypes
  BY DEF DInv
<1>1. /\ DOMAIN neighbors = 1 .. Len(neighbors) /\ Len(neighbors) \in Nat
      /\ \A j \in DOMAIN neighbors : neighbors[j] \in Entry
  BY <1>0, OfNodeIs
<1>2. DOMAIN neighbors' = DOMAIN neighbors
  OBVIOUS
<1>3. \A j \in DOMAIN neighbors : /\ neighbors'[j].a = neighbors[j].a
                                  /\ neighbors'[j].b = neighbors[j].b
                                  /\ neighbors'[j].link = neighbors[j].link
                                  /\ neighbors'[j] \in Entry
  BY <1>1 DEF Entry
<1>4. neighbors' \in [1 .. Len(neighbors) -> Entry]
  BY <1>1, <1>3
<1>5. neighbors' \in Seq(Entry)
  BY <1>1, <1>4, FcnIsSeq
<1>6. DrawTypes'
  BY <1>0, <1>5 DEF DrawTypes
<1> QED BY <1>2, <1>3, <1>6, SameEntries DEF DInv

\* Neighbor tables, the queues, bindings and the user.
LEMMA DrawKeeps ==
  ASSUME DInv,
         \/ \E p \in Pairs, lqi \in {0, 1} : MgmtLqi(p[1], p[2], lqi)
         \/ bindLinkTick \/ ShowLinks \/ setAutoFetchingFFD \/ NetworkState
         \/ \E n \in Peers, bs \in SUBSET Bound, last \in BOOLEAN : MgmtBind(n, {b \in bs : b[1] = n}, last)
         \/ \E n \in Peers : Wakes(n)
         \/ \E k \in DOMAIN neighbors : GrowsOld(k)
  PROVE  DInv'
<1>0. DrawTypes
  BY DEF DInv
<1>1. CASE \E p \in Pairs, lqi \in {0, 1} : MgmtLqi(p[1], p[2], lqi)
  <2> PICK p \in Pairs, lqi \in {0, 1} : MgmtLqi(p[1], p[2], lqi)
    BY <1>1
  <2>1. UNCHANGED <<neighbors, neighborsDead, glinks, links, linkIter, state, bindings, bindingTable, bindLinkQueue>>
    BY DEF MgmtLqi, linkTabVars, bindVars
  <2>2. <<p[1], p[2]>> \in Peers \X Peers
    BY DEF Pairs
  <2>3. createQueue' \in Seq(Peers \X Peers)
    <3>1. createQueue' = Append(createQueue, <<p[1], p[2]>>)
      BY DEF MgmtLqi
    <3> QED BY <1>0, <2>2, <3>1, AppendProperties DEF DrawTypes
  <2>4. DrawTypes'
    BY <1>0, <2>1, <2>3 DEF DrawTypes
  <2> QED BY <2>1, <2>4, SameEntries DEF DInv
<1>2. CASE bindLinkTick
  <2>1. UNCHANGED <<neighbors, neighborsDead, glinks, links, linkIter, state, createQueue, bindingTable>>
    BY <1>2 DEF bindLinkTick, linkTabVars
  <2> DEFINE n == Last(bindLinkQueue)
             bs == IF state[n] = "gone" THEN {} ELSE {b \in bindingTable[n] : Drawable(b)}
  <2>2. bindings' = bindings \cup bs /\ bindLinkQueue # <<>> /\ bindLinkQueue' = Front(bindLinkQueue)
    BY <1>2 DEF bindLinkTick
  <2>3. n \in Peers /\ bindLinkQueue' \in Seq(Peers)
    <3>1. Len(bindLinkQueue) \in Nat \ {0} /\ \A i \in 1 .. Len(bindLinkQueue) : bindLinkQueue[i] \in Peers
      BY <1>0, <2>2, EmptySeq, ElementOfSeq DEF DrawTypes
    <3>2. \A i \in 1 .. Len(bindLinkQueue) - 1 : bindLinkQueue[i] \in Peers
      BY <3>1
    <3>3. 1 \in Int /\ Len(bindLinkQueue) - 1 \in Int
      BY <3>1
    <3>4. SubSeq(bindLinkQueue, 1, Len(bindLinkQueue) - 1) \in Seq(Peers)
      BY <3>2, <3>3, SubSeqProperties
    <3> QED BY <2>2, <3>1, <3>4 DEF Last, Front
  <2>4. bs \subseteq bindingTable[n] /\ bindingTable[n] \subseteq Bound
    BY <1>0, <2>3 DEF DrawTypes
  <2>5. \A b \in bs : state[b[1]] # "gone" /\ state[b[2]] # "gone"
    BY DEF Drawable
  <2> HIDE DEF bs, n
  <2>6. DrawTypes'
    BY <1>0, <2>1, <2>2, <2>3, <2>4 DEF DrawTypes
  <2>7. \A m \in Peers : state'[m] = "gone" =>
          state[m] = "gone" /\ \A b \in bindings' : b \in bindings \/ m \notin {b[1], b[2]}
    BY <2>1, <2>2, <2>5
  <2> QED BY <2>1, <2>6, <2>7, SameEntries DEF DInv
<1>3. CASE ShowLinks \/ setAutoFetchingFFD \/ NetworkState
  <2>1. UNCHANGED <<neighbors, neighborsDead, glinks, links, linkIter, state, createQueue, bindings, bindingTable, bindLinkQueue>>
    BY <1>3 DEF ShowLinks, setAutoFetchingFFD, NetworkState, linkTabVars, bindVars
  <2>2. DrawTypes'
    BY <1>0, <2>1 DEF DrawTypes
  <2> QED BY <2>1, <2>2, SameEntries DEF DInv
<1>4. CASE \E n \in Peers, bs \in SUBSET Bound, last \in BOOLEAN : MgmtBind(n, {b \in bs : b[1] = n}, last)
  <2> PICK n \in Peers, bs \in SUBSET Bound, last \in BOOLEAN : MgmtBind(n, {b \in bs : b[1] = n}, last)
    BY <1>4
  <2> DEFINE cs == {b \in bs : b[1] = n}
  <2>1. UNCHANGED <<neighbors, neighborsDead, glinks, links, linkIter, state, createQueue, bindings>>
    BY DEF MgmtBind, linkTabVars
  <2>2. bindLinkQueue' \in {bindLinkQueue, Append(bindLinkQueue, n)}
    BY DEF MgmtBind, Queued
  <2>3. bindLinkQueue' \in Seq(Peers)
    <3>1. bindLinkQueue \in Seq(Peers)
      BY <1>0 DEF DrawTypes
    <3>2. Append(bindLinkQueue, n) \in Seq(Peers)
      BY <3>1, AppendProperties
    <3> QED BY <2>2, <3>1, <3>2
  <2>4. /\ cs \subseteq Bound
        /\ bindingTable' = [bindingTable EXCEPT ![n] = IF last THEN cs ELSE @ \cup cs]
    BY DEF MgmtBind
  <2> HIDE DEF cs
  <2>5. bindingTable' \in [Peers -> SUBSET Bound]
    BY <1>0, <2>4 DEF DrawTypes
  <2>6. DrawTypes'
    BY <1>0, <2>1, <2>3, <2>5 DEF DrawTypes
  <2> QED BY <2>1, <2>6, SameEntries DEF DInv
<1>5. CASE \E n \in Peers : Wakes(n)
  <2> PICK n \in Peers : Wakes(n)
    BY <1>5
  <2>1. UNCHANGED <<neighbors, neighborsDead, glinks, links, linkIter, createQueue, bindings, bindingTable, bindLinkQueue>>
    BY DEF Wakes, linkTabVars, bindVars
  <2>2. state' = [state EXCEPT ![n] = "ok"]
    BY DEF Wakes
  <2>3. DrawTypes'
    BY <1>0, <2>1, <2>2 DEF DrawTypes
  <2>4. \A m \in Peers : state'[m] = "gone" => state[m] = "gone"
    BY <1>0, <2>2 DEF DrawTypes
  <2> QED BY <2>1, <2>3, <2>4, SameEntries DEF DInv
<1>6. CASE \E k \in DOMAIN neighbors : GrowsOld(k)
  <2> PICK k \in DOMAIN neighbors : GrowsOld(k)
    BY <1>6
  <2>1. UNCHANGED <<neighborsDead, glinks, links, linkIter, state, createQueue, bindings, bindingTable, bindLinkQueue>>
    BY DEF GrowsOld, bindVars
  <2>2. neighbors' = [neighbors EXCEPT ![k].old = TRUE]
    BY DEF GrowsOld
  <2>3. DInv'
    BY <1>0, <2>1, <2>2, OldChanges DEF DrawTypes
  <2> QED BY <2>3
<1> QED BY <1>1, <1>2, <1>3, <1>4, <1>5, <1>6

\* An entry of a and b with the NodeLink l is added; l is new, or was put aside and is no more.
EntryAdded(a, b, l) ==
  /\ DOMAIN neighbors' = 1 .. Len(neighbors) + 1
  /\ \A k \in 1 .. Len(neighbors) : neighbors'[k] = neighbors[k]
  /\ EndsOf(neighbors'[Len(neighbors) + 1]) = {a, b} /\ neighbors'[Len(neighbors) + 1].link = l
LinkTaken(l) ==
  /\ l \in Nat /\ l # 0 /\ l <= links' /\ links <= links' /\ links \in Nat /\ links' \in Nat
  /\ neighborsDead' \in Seq(Nat) /\ DOMAIN neighborsDead' \subseteq DOMAIN neighborsDead
  /\ \A i \in DOMAIN neighborsDead' : neighborsDead'[i] = neighborsDead[i] /\ neighborsDead[i] # l
  /\ \A k \in DOMAIN neighbors : neighbors[k].link # l

\* The NodeLink of a new entry is in no other entry and no longer put aside.
LEMMA TakesLink ==
  ASSUME DrawTypes, Numbered, NEW l,
         l = IF neighborsDead = <<>> THEN links + 1 ELSE Last(neighborsDead),
         neighborsDead' = IF neighborsDead = <<>> THEN <<>> ELSE Front(neighborsDead),
         links' = IF neighborsDead = <<>> THEN links + 1 ELSE links
  PROVE  LinkTaken(l)
<1>1. CASE neighborsDead = <<>>
  <2>1. l = links + 1 /\ links' = links + 1 /\ neighborsDead' = <<>> /\ links \in Nat
    BY <1>1 DEF DrawTypes
  <2>2. \A k \in DOMAIN neighbors : neighbors[k].link \in Nat /\ neighbors[k].link <= links
    BY OfNodeIs DEF Numbered, Entry
  <2>3. \A k \in DOMAIN neighbors : neighbors[k].link # l
    BY <2>1, <2>2
  <2>4. neighborsDead' \in Seq(Nat) /\ DOMAIN neighborsDead' = {}
    BY <2>1
  <2> QED BY <2>1, <2>3, <2>4 DEF LinkTaken
<1>2. CASE neighborsDead # <<>>
  <2> DEFINE d == Len(neighborsDead)
  <2>1. /\ DOMAIN neighborsDead = 1 .. d /\ d \in Nat /\ d >= 1
        /\ Front(neighborsDead) \in Seq(Nat) /\ Len(Front(neighborsDead)) = d - 1
        /\ \A i \in 1 .. d - 1 : Front(neighborsDead)[i] = neighborsDead[i]
        /\ Last(neighborsDead) = neighborsDead[d]
    BY <1>2, DeadIs
  <2>2. /\ l = neighborsDead[d] /\ links' = links /\ links \in Nat
        /\ neighborsDead' = Front(neighborsDead)
    BY <1>2, <2>1 DEF DrawTypes
  <2>3. neighborsDead' \in Seq(Nat) /\ DOMAIN neighborsDead' = 1 .. d - 1
    BY <2>1, <2>2, LenProperties
  <2> HIDE DEF d
  <2>4. d \in DOMAIN neighborsDead /\ \A i \in 1 .. d - 1 : i \in DOMAIN neighborsDead /\ i # d
    BY <2>1
  <2>5. l \in 1 .. links
    BY <2>2, <2>4 DEF Numbered
  <2>6. \A i \in 1 .. d - 1 : neighborsDead[i] # l
    BY <2>2, <2>4 DEF Numbered
  <2>7. \A k \in DOMAIN neighbors : neighbors[k].link # l
    BY <2>2, <2>4 DEF Numbered
  <2>8. DOMAIN neighborsDead' \subseteq DOMAIN neighborsDead
    BY <2>3, <2>4
  <2>9. \A i \in DOMAIN neighborsDead' : neighborsDead'[i] = neighborsDead[i] /\ neighborsDead[i] # l
    BY <2>1, <2>2, <2>3, <2>6
  <2>10. l \in Nat /\ l # 0 /\ l <= links' /\ links <= links' /\ links' \in Nat
    BY <2>2, <2>5
  <2> QED BY <2>2, <2>3, <2>7, <2>8, <2>9, <2>10 DEF LinkTaken
<1> QED BY <1>1, <1>2

\* An entry that is added keeps the others and their NodeLinks.
LEMMA AddedKeeps ==
  ASSUME DrawTypes, Single, Numbered, Shared, NEW a \in Peers, NEW b \in Peers, NEW l,
         EntryAdded(a, b, l), LinkTaken(l), state[a] = "ok", state[b] = "ok",
         \A k \in DOMAIN neighbors : EndsOf(neighbors[k]) # {a, b},
         \A m \in Peers : glinks'[m] = glinks[m] \cup (IF m \in {a, b} THEN {l} ELSE {}),
         UNCHANGED <<state, bindings>>
  PROVE  Single' /\ Numbered' /\ Shared'
<1> DEFINE n == Len(neighbors)
<1>1. DOMAIN neighbors = 1 .. n /\ n \in Nat
  BY OfNodeIs
<1>2. \A k \in DOMAIN neighbors : neighbors[k].link \in Nat
  BY OfNodeIs DEF Entry
<1>3. /\ \A k \in DOMAIN neighbors : neighbors'[k] = neighbors[k]
      /\ EndsOf(neighbors'[n + 1]) = {a, b} /\ neighbors'[n + 1].link = l
  BY <1>1 DEF EntryAdded
<1>4. DOMAIN neighbors' = DOMAIN neighbors \cup {n + 1} /\ n + 1 \notin DOMAIN neighbors
  <2>1. DOMAIN neighbors' = 1 .. n + 1
    BY DEF EntryAdded
  <2> HIDE DEF n
  <2> QED BY <1>1, <2>1
<1> HIDE DEF n
<1>5. Single'
  <2> SUFFICES ASSUME NEW j \in DOMAIN neighbors', NEW k \in DOMAIN neighbors', j # k
               PROVE  /\ neighbors'[j].a # Nobody => EndsOf(neighbors'[j]) # EndsOf(neighbors'[k])
                      /\ neighbors'[j].link # 0 => neighbors'[j].link # neighbors'[k].link
    BY DEF Single
  <2>1. CASE j \in DOMAIN neighbors /\ k \in DOMAIN neighbors
    BY <1>3, <2>1 DEF Single
  <2>2. CASE j = n + 1 /\ k \in DOMAIN neighbors
    BY <1>3, <2>2 DEF LinkTaken
  <2>3. CASE j \in DOMAIN neighbors /\ k = n + 1
    BY <1>3, <2>3 DEF LinkTaken
  <2> QED BY <1>4, <2>1, <2>2, <2>3
<1>6. Numbered'
  <2>1. \A k \in DOMAIN neighbors' : neighbors'[k].link <= links'
    <3>1. \A k \in DOMAIN neighbors : neighbors[k].link <= links'
      BY <1>2 DEF Numbered, LinkTaken
    <3> QED BY <1>3, <1>4, <3>1 DEF LinkTaken
  <2>2. \A i \in DOMAIN neighborsDead' : neighborsDead'[i] \in 1 .. links'
    <3>1. \A i \in DOMAIN neighborsDead : neighborsDead[i] \in 1 .. links'
      BY DEF Numbered, LinkTaken
    <3> QED BY <3>1 DEF LinkTaken
  <2>3. \A i, j \in DOMAIN neighborsDead' : i # j => neighborsDead'[i] # neighborsDead'[j]
    BY DEF Numbered, LinkTaken
  <2>4. \A k \in DOMAIN neighbors', i \in DOMAIN neighborsDead' : neighbors'[k].link # neighborsDead'[i]
    <3> SUFFICES ASSUME NEW k \in DOMAIN neighbors', NEW i \in DOMAIN neighborsDead'
                 PROVE  neighbors'[k].link # neighborsDead'[i]
      OBVIOUS
    <3>1. CASE k \in DOMAIN neighbors
      BY <1>3, <3>1 DEF Numbered, LinkTaken
    <3>2. CASE k = n + 1
      BY <1>3, <3>2 DEF LinkTaken
    <3> QED BY <1>4, <3>1, <3>2
  <2> QED BY <2>1, <2>2, <2>3, <2>4 DEF Numbered
<1>7. \A m \in Peers : OfNode(m)' = OfNode(m) \cup (IF m \in {a, b} THEN {n + 1} ELSE {})
  BY <1>3, <1>4 DEF OfNode, LinkTaken
<1>8. ASSUME NEW m \in Peers PROVE glinks'[m] = {neighbors'[k].link : k \in OfNode(m)'}
  <2>1. \A k \in OfNode(m) : neighbors'[k].link = neighbors[k].link
    BY <1>3 DEF OfNode
  <2>2. glinks[m] = {neighbors[k].link : k \in OfNode(m)}
    BY DEF Shared
  <2> QED BY <1>3, <1>7, <2>1, <2>2
<1>9. ASSUME NEW m \in Peers, state'[m] = "gone"
      PROVE  OfNode(m)' = {} /\ \A c \in bindings' : m \notin {c[1], c[2]}
  <2>1. m \notin {a, b} /\ state[m] = "gone"
    BY <1>9
  <2> QED BY <1>7, <2>1 DEF Shared
<1> QED BY <1>5, <1>6, <1>8, <1>9 DEF Shared

\* A new entry takes a NodeLink that was put aside, or a new one.
LEMMA NewEntry ==
  ASSUME DInv, NEW a \in Peers, NEW b \in Peers, state[a] = "ok", state[b] = "ok",
         \A k \in DOMAIN neighbors : ~HasEntry(k, a, b), NEW l, LinkTaken(l),
         neighbors' = Append(neighbors, [a |-> a, b |-> b, link |-> l, old |-> FALSE]),
         glinks' = [glinks EXCEPT ![a] = @ \cup {l}, ![b] = @ \cup {l}],
         createQueue' \in Seq(Peers \X Peers),
         UNCHANGED <<linkIter, state, bindings, bindingTable, bindLinkQueue>>
  PROVE  DInv'
<1> DEFINE e == [a |-> a, b |-> b, link |-> l, old |-> FALSE]
<1>0. DrawTypes /\ Single /\ Numbered /\ Shared
  BY DEF DInv
<1>1. e \in Entry /\ EndsOf(e) = {a, b} /\ e.link = l
  BY DEF Entry, EndsOf, LinkTaken
<1>2. neighbors \in Seq(Entry) /\ neighbors' = Append(neighbors, e)
  BY <1>0 DEF DrawTypes
<1> HIDE DEF e
<1>3. /\ neighbors' \in Seq(Entry) /\ Len(neighbors') = Len(neighbors) + 1
      /\ \A k \in 1 .. Len(neighbors) : neighbors'[k] = neighbors[k]
      /\ neighbors'[Len(neighbors) + 1] = e
  BY <1>1, <1>2, AppendProperties
<1>4. EntryAdded(a, b, l)
  <2>1. DOMAIN neighbors' = 1 .. Len(neighbors')
    BY <1>3, LenProperties
  <2> QED BY <1>1, <1>3, <2>1 DEF EntryAdded
<1>5. \A m \in Peers : glinks'[m] = glinks[m] \cup (IF m \in {a, b} THEN {l} ELSE {})
  BY <1>0 DEF DrawTypes
<1>6. glinks' \in [Peers -> SUBSET Nat]
  BY <1>0 DEF DrawTypes, LinkTaken
<1>7. DrawTypes'
  BY <1>0, <1>3, <1>6 DEF DrawTypes, LinkTaken
<1>8. \A k \in DOMAIN neighbors : EndsOf(neighbors[k]) # {a, b}
  BY DEF HasEntry
<1>9. Single' /\ Numbered' /\ Shared'
  BY <1>0, <1>4, <1>5, <1>8, AddedKeeps
<1> QED BY <1>7, <1>9 DEF DInv

\* linkCreateTick
LEMMA CreateKeeps == DInv /\ linkCreateTick => DInv'
<1> SUFFICES ASSUME DInv, linkCreateTick PROVE DInv'
  OBVIOUS
<1> DEFINE p == Head(createQueue)
<1>1. DrawTypes /\ createQueue # <<>> /\ createQueue' = Tail(createQueue)
  BY DEF DInv, linkCreateTick
<1>2. p \in Peers \X Peers /\ createQueue' \in Seq(Peers \X Peers)
  BY <1>1, HeadTailProperties DEF DrawTypes
<1>3. /\ IF Linkable(p[1], p[2]) THEN linkInfo(p[1], p[2]) ELSE UNCHANGED linkTabVars
      /\ UNCHANGED <<state, bindings, bindingTable, bindLinkQueue>>
  BY DEF linkCreateTick, bindVars
<1> HIDE DEF p
<1>4. CASE ~Linkable(p[1], p[2])
  <2>1. UNCHANGED <<neighbors, neighborsDead, glinks, links, linkIter>>
    BY <1>3, <1>4 DEF linkTabVars
  <2>2. DrawTypes'
    BY <1>1, <1>2, <1>3, <2>1 DEF DrawTypes
  <2> QED BY <1>3, <2>1, <2>2, SameEntries DEF DInv
<1>5. CASE Linkable(p[1], p[2]) /\ \E k \in DOMAIN neighbors :
             /\ neighbors' = [neighbors EXCEPT ![k].old = FALSE]
             /\ UNCHANGED <<neighborsDead, glinks, links, linkIter>>
  BY <1>2, <1>3, <1>5, OldChanges
<1>6. CASE Linkable(p[1], p[2]) /\ \A k \in DOMAIN neighbors : ~HasEntry(k, p[1], p[2])
  <2>1. p[1] \in Peers /\ p[2] \in Peers /\ state[p[1]] = "ok" /\ state[p[2]] = "ok"
    BY <1>2, <1>6 DEF Linkable
  <2> DEFINE l == IF neighborsDead = <<>> THEN links + 1 ELSE Last(neighborsDead)
  <2>2. /\ neighbors' = Append(neighbors, [a |-> p[1], b |-> p[2], link |-> l, old |-> FALSE])
        /\ glinks' = [glinks EXCEPT ![p[1]] = @ \cup {l}, ![p[2]] = @ \cup {l}]
        /\ neighborsDead' = IF neighborsDead = <<>> THEN <<>> ELSE Front(neighborsDead)
        /\ links' = IF neighborsDead = <<>> THEN links + 1 ELSE links
        /\ UNCHANGED linkIter
    BY <1>3, <1>6 DEF linkInfo
  <2>3. \A k \in DOMAIN neighbors : ~HasEntry(k, p[1], p[2])
    BY <1>6
  <2> HIDE DEF l
  <2>4. LinkTaken(l)
    <3>1. DrawTypes /\ Numbered /\ l = IF neighborsDead = <<>> THEN links + 1 ELSE Last(neighborsDead)
      BY DEF DInv, l
    <3> QED BY <2>2, <3>1, TakesLink
  <2> QED BY <1>2, <1>3, <2>1, <2>2, <2>3, <2>4, NewEntry
<1> QED BY <1>3, <1>4, <1>5, <1>6 DEF linkInfo

\* The entries K have no NodeLink any more; theirs are put aside, once each.
EntriesCleared(K) ==
  /\ K \subseteq DOMAIN neighbors /\ DOMAIN neighbors' = DOMAIN neighbors
  /\ \A k \in DOMAIN neighbors \ K : neighbors'[k] = neighbors[k]
  /\ \A k \in K : /\ neighbors[k].link # 0 /\ neighbors'[k].link = 0
                  /\ \/ neighbors'[k].a = Nobody /\ EndsOf(neighbors'[k]) = {Nobody}
                     \/ /\ neighbors'[k].a = neighbors[k].a
                        /\ EndsOf(neighbors'[k]) = EndsOf(neighbors[k])
LinksAside(K) ==
  /\ DOMAIN neighborsDead \subseteq DOMAIN neighborsDead' /\ UNCHANGED links
  /\ \A i \in DOMAIN neighborsDead : neighborsDead'[i] = neighborsDead[i]
  /\ \A i \in DOMAIN neighborsDead' \ DOMAIN neighborsDead : \E k \in K : neighborsDead'[i] = neighbors[k].link
  /\ \A i, j \in DOMAIN neighborsDead' \ DOMAIN neighborsDead : i # j => neighborsDead'[i] # neighborsDead'[j]

\* What is put aside is in no entry and known to no node.
LEMMA ClearedKeeps ==
  ASSUME DInv, NEW K, EntriesCleared(K), LinksAside(K),
         \A m \in Peers :
           glinks'[m] = glinks[m] \ {neighbors[k].link : k \in {j \in K : m \in EndsOf(neighbors[j])}}
  PROVE  /\ Single' /\ Numbered'
         /\ \A m \in Peers : /\ OfNode(m)' = OfNode(m) \ K
                             /\ glinks'[m] = {neighbors'[k].link : k \in OfNode(m)'}
<1>0. DrawTypes /\ Single /\ Numbered /\ Shared
  BY DEF DInv
<1>1. /\ \A k \in DOMAIN neighbors : neighbors[k] \in Entry
      /\ \A k \in DOMAIN neighbors : neighbors[k].link \in Nat
  BY <1>0, OfNodeIs DEF Entry
<1>2. \A k \in DOMAIN neighbors : neighbors[k].a # Nobody => EndsOf(neighbors[k]) # {Nobody}
  BY DEF EndsOf
<1>3. Single'
  <2> SUFFICES ASSUME NEW j \in DOMAIN neighbors, NEW k \in DOMAIN neighbors, j # k
               PROVE  /\ neighbors'[j].a # Nobody => EndsOf(neighbors'[j]) # EndsOf(neighbors'[k])
                      /\ neighbors'[j].link # 0 => neighbors'[j].link # neighbors'[k].link
    BY DEF Single, EntriesCleared
  <2>1. /\ neighbors[j].a # Nobody => EndsOf(neighbors[j]) # EndsOf(neighbors[k])
        /\ neighbors[j].link # 0 => neighbors[j].link # neighbors[k].link
    BY <1>0 DEF Single
  <2>2. \/ neighbors'[j].a = Nobody
        \/ neighbors'[j].a = neighbors[j].a /\ EndsOf(neighbors'[j]) = EndsOf(neighbors[j])
    BY DEF EntriesCleared
  <2>3. EndsOf(neighbors'[k]) = {Nobody} \/ EndsOf(neighbors'[k]) = EndsOf(neighbors[k])
    BY DEF EntriesCleared
  <2>4. neighbors'[j].link # 0 => neighbors'[j].link = neighbors[j].link
    BY DEF EntriesCleared
  <2>5. neighbors'[k].link = 0 \/ neighbors'[k].link = neighbors[k].link
    BY DEF EntriesCleared
  <2>6. neighbors'[j].a # Nobody => EndsOf(neighbors'[j]) # EndsOf(neighbors'[k])
    BY <1>2, <2>1, <2>2, <2>3
  <2>7. neighbors'[j].link # 0 => neighbors'[j].link # neighbors'[k].link
    BY <2>1, <2>4, <2>5
  <2> QED BY <2>6, <2>7
<1>4. \A i \in DOMAIN neighborsDead' :
        \/ i \in DOMAIN neighborsDead /\ neighborsDead'[i] = neighborsDead[i]
        \/ i \notin DOMAIN neighborsDead /\ \E k \in K : neighborsDead'[i] = neighbors[k].link
  BY DEF LinksAside
<1>5. \A k \in K : k \in DOMAIN neighbors /\ neighbors[k].link \in 1 .. links
  BY <1>0, <1>1 DEF EntriesCleared, Numbered, DrawTypes
<1>6. Numbered'
  <2>1. \A k \in DOMAIN neighbors' : neighbors'[k].link <= links'
    <3>1. \A k \in DOMAIN neighbors : neighbors[k].link <= links /\ 0 <= links
      BY <1>0 DEF Numbered, DrawTypes
    <3> QED BY <3>1 DEF EntriesCleared, LinksAside
  <2>2. \A i \in DOMAIN neighborsDead' : neighborsDead'[i] \in 1 .. links'
    <3>1. \A i \in DOMAIN neighborsDead : neighborsDead[i] \in 1 .. links
      BY <1>0 DEF Numbered
    <3>2. links' = links
      BY DEF LinksAside
    <3> QED BY <1>4, <1>5, <3>1, <3>2
  <2>3. ASSUME NEW i \in DOMAIN neighborsDead', NEW j \in DOMAIN neighborsDead', i # j
        PROVE  neighborsDead'[i] # neighborsDead'[j]
    <3>1. CASE i \in DOMAIN neighborsDead /\ j \in DOMAIN neighborsDead
      BY <1>0, <1>4, <2>3, <3>1 DEF Numbered
    <3>2. CASE i \in DOMAIN neighborsDead /\ j \notin DOMAIN neighborsDead
      BY <1>0, <1>4, <1>5, <3>2 DEF Numbered
    <3>3. CASE i \notin DOMAIN neighborsDead /\ j \in DOMAIN neighborsDead
      BY <1>0, <1>4, <1>5, <3>3 DEF Numbered
    <3>4. CASE i \notin DOMAIN neighborsDead /\ j \notin DOMAIN neighborsDead
      BY <2>3, <3>4 DEF LinksAside
    <3> QED BY <3>1, <3>2, <3>3, <3>4
  <2>4. ASSUME NEW k \in DOMAIN neighbors', NEW i \in DOMAIN neighborsDead'
        PROVE  neighbors'[k].link # neighborsDead'[i]
    <3>0. k \in DOMAIN neighbors /\ neighborsDead'[i] # 0
      BY <1>4, <1>5, <2>2 DEF EntriesCleared
    <3>1. CASE k \in K
      BY <3>0, <3>1 DEF EntriesCleared
    <3>2. CASE k \notin K
      <4>1. neighbors'[k] = neighbors[k]
        BY <3>0, <3>2 DEF EntriesCleared
      <4>2. CASE i \in DOMAIN neighborsDead
        BY <1>0, <1>4, <3>0, <4>1, <4>2 DEF Numbered
      <4>3. CASE i \notin DOMAIN neighborsDead
        <5>1. PICK j \in K : neighborsDead'[i] = neighbors[j].link
          BY <1>4, <4>3
        <5>2. j # k /\ j \in DOMAIN neighbors /\ neighbors[j].link # 0
          BY <1>5, <3>2, <5>1 DEF EntriesCleared
        <5> QED BY <1>0, <3>0, <4>1, <5>1, <5>2 DEF Single
      <4> QED BY <4>2, <4>3
    <3> QED BY <3>1, <3>2
  <2> QED BY <2>1, <2>2, <2>3, <2>4 DEF Numbered
<1>7. ASSUME NEW m \in Peers
      PROVE  /\ OfNode(m)' = OfNode(m) \ K
             /\ glinks'[m] = {neighbors'[k].link : k \in OfNode(m)'}
  <2>1. OfNode(m)' = OfNode(m) \ K
    BY DEF OfNode, EntriesCleared
  <2> DEFINE T == {j \in K : m \in EndsOf(neighbors[j])}
  <2>2. T \subseteq OfNode(m) /\ OfNode(m) \ K = OfNode(m) \ T
    BY DEF OfNode, EntriesCleared
  <2>3. glinks'[m] = glinks[m] \ {neighbors[k].link : k \in T}
    OBVIOUS
  <2> HIDE DEF T
  <2>4. glinks[m] = {neighbors[k].link : k \in OfNode(m)}
    BY <1>0 DEF Shared
  <2>5. \A j, k \in OfNode(m) : j # k => neighbors[j].link # neighbors[k].link
    BY <1>0 DEF OfNode, Single
  <2>6. \A k \in OfNode(m) \ K : neighbors'[k].link = neighbors[k].link
    BY DEF EntriesCleared, OfNode
  <2>7. glinks'[m] = {neighbors[k].link : k \in OfNode(m) \ T}
    BY <2>2, <2>3, <2>4, <2>5
  <2>8. {neighbors[k].link : k \in OfNode(m) \ T} = {neighbors'[k].link : k \in OfNode(m) \ K}
    BY <2>2, <2>6
  <2> QED BY <2>1, <2>7, <2>8
<1> QED BY <1>3, <1>6, <1>7

\* linkTick puts aside the link of an entry.
LEMMA AsideKeeps ==
  ASSUME DInv, NEW k \in DOMAIN neighbors, neighbors[k].link # 0, PutAside(k), linkIter' \in Nat \ {0},
         UNCHANGED <<state, createQueue, links, bindings, bindingTable, bindLinkQueue>>
  PROVE  DInv'
<1> DEFINE l == neighbors[k].link
           d == Len(neighborsDead)
<1>0. DrawTypes /\ Shared
  BY DEF DInv
<1>1. /\ DOMAIN neighbors = 1 .. Len(neighbors) /\ Len(neighbors) \in Nat
      /\ \A j \in DOMAIN neighbors : neighbors[j] \in Entry /\ neighbors[j].link \in Nat
  BY <1>0, OfNodeIs DEF Entry
<1>2. /\ neighborsDead' = Append(neighborsDead, l)
      /\ neighbors' = [neighbors EXCEPT ![k].link = 0]
      /\ glinks' = [n \in Peers |-> glinks[n] \ (IF n \in EndsOf(neighbors[k]) THEN {l} ELSE {})]
  BY DEF PutAside
<1>3. /\ neighborsDead' \in Seq(Nat) /\ DOMAIN neighborsDead' = 1 .. d + 1 /\ DOMAIN neighborsDead = 1 .. d
      /\ d \in Nat /\ \A i \in 1 .. d : neighborsDead'[i] = neighborsDead[i]
      /\ neighborsDead'[d + 1] = l
  <2>1. l \in Nat /\ DOMAIN neighborsDead = 1 .. d /\ d \in Nat
    BY <1>0, <1>1, DeadIs
  <2> HIDE DEF l
  <2>2. /\ neighborsDead' \in Seq(Nat) /\ Len(neighborsDead') = d + 1
        /\ \A i \in 1 .. d + 1 : neighborsDead'[i] = IF i = d + 1 THEN l ELSE neighborsDead[i]
    BY <1>0, <1>2, <2>1, DeadIs
  <2>3. DOMAIN neighborsDead' = 1 .. d + 1
    BY <2>2, LenProperties
  <2> HIDE DEF d
  <2> QED BY <2>1, <2>2, <2>3
<1>4. /\ DOMAIN neighbors' = DOMAIN neighbors
      /\ \A j \in DOMAIN neighbors : neighbors'[j] \in Entry
      /\ \A j \in DOMAIN neighbors : j # k => neighbors'[j] = neighbors[j]
      /\ neighbors'[k].link = 0 /\ neighbors'[k].a = neighbors[k].a /\ neighbors'[k].b = neighbors[k].b
  BY <1>1, <1>2 DEF Entry
<1>5. EntriesCleared({k})
  <2>1. EndsOf(neighbors'[k]) = EndsOf(neighbors[k])
    BY <1>4 DEF EndsOf
  <2> QED BY <1>4, <2>1 DEF EntriesCleared
<1>6. LinksAside({k})
  <2> HIDE DEF d
  <2>1. DOMAIN neighborsDead' \ DOMAIN neighborsDead = {d + 1}
    BY <1>3
  <2>2. DOMAIN neighborsDead \subseteq DOMAIN neighborsDead'
    BY <1>3
  <2> QED BY <1>3, <2>1, <2>2 DEF LinksAside
<1>7. \A m \in Peers :
        glinks'[m] = glinks[m] \ {neighbors[i].link : i \in {j \in {k} : m \in EndsOf(neighbors[j])}}
  BY <1>2
<1>8. /\ Single' /\ Numbered'
      /\ \A m \in Peers : /\ OfNode(m)' = OfNode(m) \ {k}
                          /\ glinks'[m] = {neighbors'[i].link : i \in OfNode(m)'}
  BY <1>5, <1>6, <1>7, ClearedKeeps
<1>9. neighbors' \in Seq(Entry)
  <2>1. neighbors' \in [1 .. Len(neighbors) -> Entry]
    BY <1>1, <1>2, <1>4
  <2> QED BY <1>1, <2>1, FcnIsSeq
<1>10. glinks' \in [Peers -> SUBSET Nat]
  BY <1>0, <1>2 DEF DrawTypes
<1>11. DrawTypes'
  BY <1>0, <1>3, <1>9, <1>10 DEF DrawTypes
<1>12. Shared'
  BY <1>0, <1>8 DEF Shared
<1> QED BY <1>8, <1>11, <1>12 DEF DInv

\* linkTick removes an entry that has no link.
LEMMA RemoveKeeps ==
  ASSUME DInv, NEW k \in DOMAIN neighbors, neighbors[k].link = 0, linkIter' \in Nat \ {0},
         neighbors' = RemoveAt(neighbors, k),
         UNCHANGED <<state, createQueue, neighborsDead, glinks, links, bindings, bindingTable, bindLinkQueue>>
  PROVE  DInv'
<1> DEFINE n == Len(neighbors)
           From(i) == IF i < k THEN i ELSE i + 1
<1>0. DrawTypes /\ Single /\ Numbered /\ Shared
  BY DEF DInv
<1>1. DOMAIN neighbors = 1 .. n /\ n \in Nat
  BY <1>0, OfNodeIs
<1>2. /\ neighbors' \in Seq(Entry) /\ Len(neighbors') = n - 1
      /\ \A i \in 1 .. n - 1 : neighbors'[i] = IF i < k THEN neighbors[i] ELSE neighbors[i + 1]
  <2>1. neighbors \in Seq(Entry) /\ k \in 1 .. Len(neighbors)
    BY <1>0, <1>1 DEF DrawTypes
  <2> QED BY <2>1, RemoveAtProperties
<1>3. DOMAIN neighbors' = 1 .. n - 1
  BY <1>2, LenProperties
<1> HIDE DEF n
<1>4. /\ \A i \in DOMAIN neighbors' : From(i) \in DOMAIN neighbors /\ neighbors'[i] = neighbors[From(i)]
      /\ \A i, j \in DOMAIN neighbors' : i # j => From(i) # From(j)
      /\ \A j \in DOMAIN neighbors : j # k => \E i \in DOMAIN neighbors' : From(i) = j
  <2>1. ASSUME NEW i \in DOMAIN neighbors'
        PROVE  From(i) \in DOMAIN neighbors /\ neighbors'[i] = neighbors[From(i)]
    BY <1>1, <1>2, <1>3
  <2>2. ASSUME NEW i \in DOMAIN neighbors', NEW j \in DOMAIN neighbors', i # j PROVE From(i) # From(j)
    BY <1>1, <1>3, <2>2
  <2>3. ASSUME NEW j \in DOMAIN neighbors, j # k PROVE \E i \in DOMAIN neighbors' : From(i) = j
    <3>1. CASE j < k
      <4>1. j \in DOMAIN neighbors' /\ From(j) = j
        BY <1>1, <1>3, <3>1
      <4> QED BY <4>1
    <3>2. CASE ~(j < k)
      <4>1. j - 1 \in DOMAIN neighbors' /\ From(j - 1) = j
        BY <1>1, <1>3, <2>3, <3>2
      <4> QED BY <4>1
    <3> QED BY <3>1, <3>2
  <2> QED BY <2>1, <2>2, <2>3
<1> HIDE DEF From
<1>5. DrawTypes'
  BY <1>0, <1>2 DEF DrawTypes
<1>6. Single'
  BY <1>0, <1>4 DEF Single
<1>7. Numbered'
  BY <1>0, <1>4 DEF Numbered
<1>8. ASSUME NEW m \in Peers
      PROVE  {neighbors'[i].link : i \in OfNode(m)'} = {neighbors[j].link : j \in OfNode(m)}
  <2>1. \A i \in OfNode(m)' : From(i) \in OfNode(m) /\ neighbors'[i].link = neighbors[From(i)].link
    BY <1>4 DEF OfNode
  <2>2. \A j \in OfNode(m) : \E i \in OfNode(m)' : From(i) = j /\ neighbors'[i].link = neighbors[j].link
    <3> SUFFICES ASSUME NEW j \in OfNode(m)
                 PROVE  \E i \in OfNode(m)' : From(i) = j /\ neighbors'[i].link = neighbors[j].link
      OBVIOUS
    <3>1. j \in DOMAIN neighbors /\ j # k /\ neighbors[j].link # 0 /\ m \in EndsOf(neighbors[j])
      BY DEF OfNode
    <3>2. PICK i \in DOMAIN neighbors' : From(i) = j
      BY <1>4, <3>1
    <3>3. neighbors'[i] = neighbors[j] /\ i \in OfNode(m)'
      BY <1>4, <3>1, <3>2 DEF OfNode
    <3> QED BY <3>2, <3>3
  <2> QED BY <2>1, <2>2
<1>9. ASSUME NEW m \in Peers, OfNode(m) = {} PROVE OfNode(m)' = {}
  BY <1>4, <1>9 DEF OfNode
<1>10. Shared'
  BY <1>0, <1>8, <1>9 DEF Shared
<1> QED BY <1>5, <1>6, <1>7, <1>10 DEF DInv

\* linkTick
LEMMA TickKeeps == DInv /\ linkTick => DInv'
<1> SUFFICES ASSUME DInv, linkTick PROVE DInv'
  OBVIOUS
<1>0. DrawTypes
  BY DEF DInv
<1>1. At \in DOMAIN neighbors /\ At \in Nat \ {0} /\ At + 1 \in Nat \ {0}
  <2>1. neighbors # <<>> /\ neighbors \in Seq(Entry) /\ linkIter \in Nat \ {0}
    BY <1>0 DEF DrawTypes, linkTick
  <2>2. DOMAIN neighbors = 1 .. Len(neighbors) /\ Len(neighbors) \in Nat \ {0}
    BY <2>1, EmptySeq, LenProperties
  <2> QED BY <2>1, <2>2 DEF At
<1>2. UNCHANGED <<state, createQueue, links, bindings, bindingTable, bindLinkQueue>>
  BY DEF linkTick, bindVars
<1>3. CASE linkIter' = At + 1 /\ UNCHANGED <<neighbors, neighborsDead, glinks>>
  <2>1. DrawTypes'
    BY <1>0, <1>1, <1>2, <1>3 DEF DrawTypes
  <2> QED BY <1>2, <1>3, <2>1, SameEntries DEF DInv
<1>4. CASE neighbors[At].link # 0 /\ PutAside(At) /\ linkIter' \in {At, At + 1}
  BY <1>1, <1>2, <1>4, AsideKeeps
<1>5. CASE /\ neighbors[At].link = 0 /\ neighbors' = RemoveAt(neighbors, At)
           /\ linkIter' = At + 1 /\ UNCHANGED <<neighborsDead, glinks>>
  BY <1>1, <1>2, <1>5, RemoveKeeps
<1> QED BY <1>3, <1>4, <1>5 DEF linkTick, Current, Poor

\* deleteNode takes down each link of the node, and puts aside each once.
LEMMA DeletedKeeps ==
  ASSUME DInv, NEW n \in Peers, NEW s \in {"zombie", "gone"}, deleteNode(n, s)
  PROVE  DInv'
<1> DEFINE K == OfNode(n)
           c == Cardinality(K)
           d == Len(neighborsDead)
           tail == [i \in 1 .. c |-> neighbors[InOrder(K)[i]].link]
<1>0. DrawTypes /\ Single /\ Numbered /\ Shared
  BY DEF DInv
<1>1. /\ DOMAIN neighbors = 1 .. Len(neighbors) /\ Len(neighbors) \in Nat
      /\ \A j \in DOMAIN neighbors : neighbors[j] \in Entry /\ neighbors[j].link \in Nat
      /\ \A k \in K : k \in DOMAIN neighbors /\ neighbors[k].link # 0 /\ n \in EndsOf(neighbors[k])
  BY <1>0, OfNodeIs DEF Entry
<1>2. /\ state' = [state EXCEPT ![n] = s]
      /\ bindings' = IF s = "gone" THEN bindings \ LostBindings(n) ELSE bindings
      /\ neighbors' = [k \in DOMAIN neighbors |->
                         IF k \in K THEN [a |-> Nobody, b |-> Nobody, link |-> 0, old |-> TRUE]
                                    ELSE neighbors[k]]
      /\ neighborsDead' = neighborsDead \o tail
      /\ glinks' = [m \in Peers |->
                      glinks[m] \ {neighbors[k].link : k \in {j \in K : m \in EndsOf(neighbors[j])}}]
      /\ UNCHANGED <<createQueue, linkIter, links, bindingTable, bindLinkQueue>>
  BY DEF deleteNode
<1>3. /\ c \in Nat
      /\ \A i \in 1 .. c : InOrder(K)[i] \in K
      /\ \A i, j \in 1 .. c : i # j => InOrder(K)[i] # InOrder(K)[j]
  <2>1. K \in SUBSET (1 .. Len(neighbors))
    BY <1>1
  <2> HIDE DEF K
  <2> QED BY <1>1, <2>1, RankIsIn
<1> HIDE DEF K, c
<1>4. tail \in Seq(Nat) /\ Len(tail) = c /\ \A i \in 1 .. c : tail[i] = neighbors[InOrder(K)[i]].link
  <2>1. tail \in [1 .. c -> Nat]
    BY <1>1, <1>3
  <2> QED BY <1>3, <2>1, FcnIsSeq
<1> HIDE DEF tail
<1>5. /\ neighborsDead' \in Seq(Nat) /\ DOMAIN neighborsDead = 1 .. d /\ d \in Nat
      /\ DOMAIN neighborsDead' = 1 .. d + c
      /\ \A i \in 1 .. d : neighborsDead'[i] = neighborsDead[i]
      /\ \A i \in 1 .. d + c : i > d => neighborsDead'[i] = tail[i - d]
  <2>1. neighborsDead \in Seq(Nat) /\ DOMAIN neighborsDead = 1 .. d /\ d \in Nat
    BY <1>0, DeadIs DEF DrawTypes
  <2>2. /\ neighborsDead' \in Seq(Nat) /\ Len(neighborsDead') = d + c
        /\ \A i \in 1 .. d + c : neighborsDead'[i] = IF i <= d THEN neighborsDead[i] ELSE tail[i - d]
    BY <1>2, <1>4, <2>1, ConcatProperties
  <2>3. DOMAIN neighborsDead' = 1 .. d + c
    BY <2>2, LenProperties
  <2> HIDE DEF d
  <2>4. ASSUME NEW i \in 1 .. d PROVE neighborsDead'[i] = neighborsDead[i]
    <3>1. i \in 1 .. d + c /\ i <= d
      BY <1>3, <2>1
    <3> QED BY <2>2, <3>1
  <2>5. ASSUME NEW i \in 1 .. d + c, i > d PROVE neighborsDead'[i] = tail[i - d]
    <3>1. ~(i <= d)
      BY <1>3, <2>1, <2>5
    <3> QED BY <2>2, <3>1
  <2> QED BY <2>1, <2>2, <2>3, <2>4, <2>5
<1> HIDE DEF d
<1>6. EntriesCleared(K)
  BY <1>1, <1>2 DEF EntriesCleared, EndsOf
<1>7. LinksAside(K)
  <2>1. \A i \in DOMAIN neighborsDead' \ DOMAIN neighborsDead :
          /\ i - d \in 1 .. c /\ InOrder(K)[i - d] \in K
          /\ neighborsDead'[i] = neighbors[InOrder(K)[i - d]].link
    <3> SUFFICES ASSUME NEW i \in 1 .. d + c, i \notin 1 .. d
                 PROVE  /\ i - d \in 1 .. c /\ InOrder(K)[i - d] \in K
                        /\ neighborsDead'[i] = neighbors[InOrder(K)[i - d]].link
      BY <1>5
    <3>1. i > d /\ i - d \in 1 .. c
      BY <1>3, <1>5
    <3> QED BY <1>3, <1>4, <1>5, <3>1
  <2>2. ASSUME NEW i \in DOMAIN neighborsDead' \ DOMAIN neighborsDead,
               NEW j \in DOMAIN neighborsDead' \ DOMAIN neighborsDead, i # j
        PROVE  neighborsDead'[i] # neighborsDead'[j]
    <3>1. i - d \in 1 .. c /\ j - d \in 1 .. c /\ i - d # j - d
      <4>1. i \in Int /\ j \in Int /\ d \in Int
        BY <1>5
      <4>2. i - d # j - d
        BY <2>2, <4>1
      <4> QED BY <2>1, <4>2
    <3>2. InOrder(K)[i - d] # InOrder(K)[j - d]
      BY <1>3, <3>1
    <3>3. /\ InOrder(K)[i - d] \in K /\ neighborsDead'[i] = neighbors[InOrder(K)[i - d]].link
          /\ InOrder(K)[j - d] \in K /\ neighborsDead'[j] = neighbors[InOrder(K)[j - d]].link
      BY <2>1
    <3> QED BY <1>0, <1>1, <3>2, <3>3 DEF Single
  <2>3. DOMAIN neighborsDead \subseteq DOMAIN neighborsDead'
    BY <1>3, <1>5
  <2> QED BY <1>2, <1>5, <2>1, <2>2, <2>3 DEF LinksAside
<1>8. /\ Single' /\ Numbered'
      /\ \A m \in Peers : /\ OfNode(m)' = OfNode(m) \ K
                          /\ glinks'[m] = {neighbors'[k].link : k \in OfNode(m)'}
  <2>1. \A m \in Peers :
          glinks'[m] = glinks[m] \ {neighbors[k].link : k \in {j \in K : m \in EndsOf(neighbors[j])}}
    BY <1>2
  <2> QED BY <1>6, <1>7, <2>1, ClearedKeeps
<1>9. DrawTypes'
  <2>1. neighbors' \in [1 .. Len(neighbors) -> Entry]
    <3>1. [a |-> Nobody, b |-> Nobody, link |-> 0, old |-> TRUE] \in Entry
      BY DEF Entry
    <3> QED BY <1>1, <1>2, <3>1
  <2>2. neighbors' \in Seq(Entry)
    BY <1>1, <2>1, FcnIsSeq
  <2>3. glinks' \in [Peers -> SUBSET Nat]
    BY <1>0, <1>2 DEF DrawTypes
  <2>4. state' \in [Peers -> {"ok", "zombie", "gone"}] /\ bindings' \subseteq Bound
    BY <1>0, <1>2 DEF DrawTypes
  <2> QED BY <1>0, <1>2, <1>5, <2>2, <2>3, <2>4 DEF DrawTypes
<1>10. ASSUME NEW m \in Peers, state'[m] = "gone"
       PROVE  OfNode(m)' = {} /\ \A b \in bindings' : m \notin {b[1], b[2]}
  <2>1. CASE m # n
    <3>1. state[m] = "gone" /\ bindings' \subseteq bindings
      BY <1>0, <1>2, <1>10, <2>1 DEF DrawTypes
    <3> QED BY <1>0, <1>8, <3>1 DEF Shared
  <2>2. CASE m = n
    <3>1. s = "gone"
      BY <1>0, <1>2, <1>10, <2>2 DEF DrawTypes
    <3>2. OfNode(m)' = {}
      BY <1>8, <2>2 DEF K
    <3>3. \A b \in bindings' : m \notin {b[1], b[2]}
      BY <1>2, <2>2, <3>1 DEF LostBindings
    <3> QED BY <3>2, <3>3
  <2> QED BY <2>1, <2>2
<1> QED BY <1>8, <1>9, <1>10 DEF DInv, Shared

\* At the start there is nothing to draw.
LEMMA DrawStarts == DrawInit => DInv
<1> SUFFICES ASSUME DrawInit PROVE DInv
  OBVIOUS
<1>1. DOMAIN neighbors = {} /\ DOMAIN neighborsDead = {}
  BY DEF DrawInit
<1>2. DrawTypes
  BY DEF DrawInit, DrawTypes
<1>3. Single /\ Numbered
  BY <1>1 DEF Single, Numbered
<1>4. \A n \in Peers : OfNode(n) = {}
  BY <1>1 DEF OfNode
<1>5. Shared
  BY <1>4 DEF DrawInit, Shared
<1> QED BY <1>2, <1>3, <1>5 DEF DInv

\* The inductive invariant implies the property.
LEMMA DrawnIsSafe == DInv => LinksSafe
<1> SUFFICES ASSUME DInv PROVE LinksSafe
  OBVIOUS
<1>0. DrawTypes /\ Single /\ Numbered /\ Shared
  BY DEF DInv
<1>1. /\ \A k \in DOMAIN neighbors : neighbors[k] \in Entry
      /\ \A k \in DOMAIN neighbors : neighbors[k].link \in Nat
  BY <1>0, OfNodeIs DEF Entry
<1>2. DrawTypeOK
  <2>1. \A k \in DOMAIN neighbors : EndsOf(neighbors[k]) \subseteq Peers \cup {Nobody}
    BY <1>1 DEF EndsOf, Entry
  <2>2. \A k \in DOMAIN neighbors : neighbors[k].link \in 0 .. links
    BY <1>0, <1>1 DEF Numbered, DrawTypes
  <2> QED BY <1>0, <2>1, <2>2 DEF DrawTypeOK, DrawTypes
<1>3. \A k \in DOMAIN neighbors : neighbors[k].link \notin ToSet(neighborsDead)
  BY <1>0 DEF Numbered, ToSet
<1> QED BY <1>0, <1>2, <1>3 DEF LinksSafe, Single, Numbered, Shared

(* A node pair has one link, a NodeLink is drawn once or put aside once    *)
(* (linkInfo, linkTick and deleteNode share them), its nodes and no others *)
(* know it, and nothing is drawn to a node that was deleted.               *)
THEOREM LinksAreSound == DrawSpec => []LinksSafe
<1>1. DInv /\ [DrawNext]_drawVars => DInv'
  <2> SUFFICES ASSUME DInv, [DrawNext]_drawVars PROVE DInv'
    OBVIOUS
  <2>1. CASE UNCHANGED drawVars
    <3>1. UNCHANGED <<state, createQueue, neighbors, neighborsDead, glinks, links, linkIter, bindings,
                      bindingTable, bindLinkQueue>>
      BY <2>1 DEF drawVars, linkTabVars, bindVars
    <3>2. DrawTypes'
      BY <3>1 DEF DInv, DrawTypes
    <3> QED BY <3>1, <3>2, SameEntries DEF DInv
  <2>2. CASE linkCreateTick
    BY <2>2, CreateKeeps
  <2>3. CASE linkTick
    BY <2>3, TickKeeps
  <2>4. CASE \E n \in Peers, s \in {"zombie", "gone"} : deleteNode(n, s)
    BY <2>4, DeletedKeeps
  <2> QED BY <2>1, <2>2, <2>3, <2>4, DrawKeeps DEF DrawNext
<1> QED BY <1>1, DrawStarts, DrawnIsSafe, PTL DEF DrawSpec

----------------------------------------------------------------------------
(* The descriptors of the nodes.  The queue has one request for a node     *)
(* that listens, and the answers describe endpoints that are active.       *)

\* The entries of the fast discover list, one for each node.
FastEntries == [node : RxOn, errors : 0 .. 3, done : BOOLEAN, old : BOOLEAN]
FastWell(f) == /\ f \in Seq(FastEntries)
               /\ \A j, k \in DOMAIN f : f[j].node = f[k].node => j = k

\* The requests in the queue.
IsRequest(r) == r \in [node : Nodes, item : Items, ep : {r.ep}, st : {"sent", "confirmed", "cleared"},
                       asked : BOOLEAN, answered : BOOLEAN]
Sent(q)      == {k \in DOMAIN q : q[k].st # "confirmed" /\ q[k].node \in RxOn}
ZdpWell(q) ==
  /\ q \in Seq(ToSet(q)) /\ \A k \in DOMAIN q : IsRequest(q[k])
  /\ \A j, k \in DOMAIN q : (q[j].node = q[k].node /\ q[j].node \in RxOn) => j = k
  /\ Cardinality(Sent(q)) <= MaxApsRequestsZdp

\* An answer describes an endpoint only if it is active.
IsAnswer(a) ==
  /\ a \in [node : Nodes, item : Items, ep : {a.ep}, live : BOOLEAN,
            status : {"Success", "NotActive", "Error"}]
  /\ a.item = "SimpleDescriptor" /\ a.status = "Success" => a.ep \in Active[a.node]

\* What is known of the nodes.
NodesWell ==
  /\ eps \in [Nodes -> SUBSET UNION {Listed[n] : n \in Nodes}]
  /\ sds \in [Nodes -> SUBSET UNION {Active[n] : n \in Nodes}]
  /\ \A n \in Nodes : eps[n] \subseteq Listed[n] /\ sds[n] \subseteq Active[n]
  /\ item \in [Nodes -> Items \cup {"Unknown"}] /\ wait \in [Nodes -> BOOLEAN]
  /\ retries \in [Nodes -> [Items -> 0 .. MaxRetrys]]

\* The inductive invariant.
FetchWell ==
  /\ FastWell(fast) /\ ZdpWell(zdp) /\ (\A a \in air : IsAnswer(a))
  /\ fetchCur \in 0 .. Len(Order) /\ NodesWell

----------------------------------------------------------------------------
(* The queue.                                                              *)

\* Where the places of a shorter queue come from: there are no more of any kind.
LEMMA FewerPlaces ==
  ASSUME NEW S, IsFiniteSet(S), NEW R, NEW f \in [R -> S],
         \A x, y \in R : f[x] = f[y] => x = y
  PROVE  IsFiniteSet(R) /\ Cardinality(R) <= Cardinality(S)
<1>1. f \in Injection(R, S)
  BY DEF Injection, IsInjective
<1> QED BY <1>1, FS_Injection

\* The places of the queue, and those of its requests that are sent, are finitely many.
LEMMA SentFinite ==
  ASSUME NEW q, ZdpWell(q)
  PROVE  /\ DOMAIN q = 1 .. Len(q) /\ Len(q) \in Nat
         /\ IsFiniteSet(Sent(q)) /\ Cardinality(Sent(q)) \in Nat
<1>1. q \in Seq(ToSet(q))
  BY DEF ZdpWell
<1>2. DOMAIN q = 1 .. Len(q) /\ Len(q) \in Nat
  BY <1>1, LenProperties
<1>3. IsFiniteSet(1 .. Len(q))
  BY <1>2, FS_Interval
<1>4. Sent(q) \subseteq 1 .. Len(q)
  BY <1>2 DEF Sent
<1> QED BY <1>2, <1>3, <1>4, FS_Subset, FS_CardinalityType

\* A request leaves the queue.
LEMMA QueueLess ==
  ASSUME NEW q, ZdpWell(q), NEW k \in DOMAIN q
  PROVE  ZdpWell(RemoveAt(q, k))
<1> DEFINE t == RemoveAt(q, k)
           from(i) == IF i < k THEN i ELSE i + 1
<1>1. q \in Seq(ToSet(q)) /\ DOMAIN q = 1 .. Len(q) /\ Len(q) \in Nat /\ IsFiniteSet(Sent(q))
  BY SentFinite DEF ZdpWell
<1>2. /\ t \in Seq(ToSet(q)) /\ Len(t) = Len(q) - 1
      /\ \A i \in 1 .. Len(q) - 1 : t[i] = IF i < k THEN q[i] ELSE q[i + 1]
  BY <1>1, RemoveAtProperties
<1> HIDE DEF t
<1>3. DOMAIN t = 1 .. Len(q) - 1
  BY <1>2, LenProperties
<1>4. \A i \in DOMAIN t : from(i) \in DOMAIN q /\ t[i] = q[from(i)]
  BY <1>1, <1>2, <1>3
<1>5. \A i, j \in DOMAIN t : from(i) = from(j) => i = j
  BY <1>1, <1>3
<1>6. t \in Seq(ToSet(t))
  <2>1. t \in [1 .. Len(q) - 1 -> ToSet(t)] /\ Len(q) - 1 \in Nat
    BY <1>1, <1>2, <1>3 DEF ToSet
  <2> QED BY <2>1, FcnIsSeq
<1>7. Cardinality(Sent(t)) <= Cardinality(Sent(q))
  <2> DEFINE g == [i \in Sent(t) |-> from(i)]
  <2>1. g \in [Sent(t) -> Sent(q)]
    <3>1. \A i \in Sent(t) : from(i) \in Sent(q)
      <4> TAKE i \in Sent(t)
      <4>1. i \in DOMAIN t /\ t[i].st # "confirmed" /\ t[i].node \in RxOn
        BY DEF Sent
      <4>2. from(i) \in DOMAIN q /\ t[i] = q[from(i)]
        BY <1>4, <4>1
      <4> HIDE DEF from
      <4> QED BY <4>1, <4>2 DEF Sent
    <3> HIDE DEF from
    <3> QED BY <3>1
  <2>2. \A x, y \in Sent(t) : g[x] = g[y] => x = y
    <3>1. \A x \in Sent(t) : x \in DOMAIN t
      BY DEF Sent
    <3> QED BY <1>5, <3>1
  <2> HIDE DEF g
  <2> QED BY <1>1, <2>1, <2>2, FewerPlaces
<1>8. Cardinality(Sent(t)) <= MaxApsRequestsZdp
  <2>1. Cardinality(Sent(t)) \in Nat
    <3>1. IsFiniteSet(1 .. Len(q) - 1) /\ Sent(t) \subseteq 1 .. Len(q) - 1
      BY <1>1, <1>3, FS_Interval DEF Sent
    <3> QED BY <3>1, FS_Subset, FS_CardinalityType
  <2> QED BY <1>7, <2>1, SentFinite, FetchAssumption DEF ZdpWell
<1>9. \A i \in DOMAIN t : IsRequest(t[i])
  BY <1>4 DEF ZdpWell
<1>10. \A i, j \in DOMAIN t : (t[i].node = t[j].node /\ t[i].node \in RxOn) => i = j
  <2> SUFFICES ASSUME NEW i \in DOMAIN t, NEW j \in DOMAIN t, t[i].node = t[j].node, t[i].node \in RxOn
               PROVE  i = j
    OBVIOUS
  <2>1. from(i) = from(j)
    BY <1>4 DEF ZdpWell
  <2> QED BY <1>5, <2>1
<1> QED BY <1>6, <1>8, <1>9, <1>10 DEF ZdpWell, t

\* A request of the queue changes, and is not sent again.
LEMMA QueueMarked ==
  ASSUME NEW q, ZdpWell(q), NEW k \in DOMAIN q, NEW r, IsRequest(r), r.node = q[k].node,
         q[k].st = "confirmed" => r.st = "confirmed"
  PROVE  ZdpWell([q EXCEPT ![k] = r])
<1> DEFINE t == [q EXCEPT ![k] = r]
<1>1. DOMAIN q = 1 .. Len(q) /\ Len(q) \in Nat /\ IsFiniteSet(Sent(q)) /\ Cardinality(Sent(q)) \in Nat
  BY SentFinite
<1>2. DOMAIN t = DOMAIN q /\ t[k] = r /\ \A i \in DOMAIN q : i # k => t[i] = q[i]
  OBVIOUS
<1> HIDE DEF t
<1>3. t \in Seq(ToSet(t))
  <2>1. t = [i \in DOMAIN q |-> t[i]]
    BY DEF t
  <2>2. t \in [1 .. Len(q) -> ToSet(t)]
    BY <1>1, <1>2, <2>1 DEF ToSet
  <2> QED BY <1>1, <2>2, FcnIsSeq
<1>4. \A i \in DOMAIN t : IsRequest(t[i]) /\ t[i].node = q[i].node
  <2> TAKE i \in DOMAIN t
  <2>1. CASE i = k
    BY <1>2, <2>1
  <2>2. CASE i # k
    BY <1>2, <2>2 DEF ZdpWell
  <2> QED BY <2>1, <2>2
<1>5. Sent(t) \subseteq Sent(q)
  <2> SUFFICES ASSUME NEW i \in Sent(t) PROVE i \in Sent(q)
    OBVIOUS
  <2>1. i \in DOMAIN t /\ t[i].st # "confirmed" /\ t[i].node \in RxOn
    BY DEF Sent
  <2>2. q[i].st # "confirmed" /\ q[i].node \in RxOn
    BY <1>2, <1>4, <2>1
  <2> QED BY <1>2, <2>1, <2>2 DEF Sent
<1>6. Cardinality(Sent(t)) <= MaxApsRequestsZdp
  <2>1. Cardinality(Sent(t)) <= Cardinality(Sent(q)) /\ Cardinality(Sent(t)) \in Nat
    BY <1>1, <1>5, FS_Subset, FS_CardinalityType
  <2> QED BY <1>1, <2>1, FetchAssumption DEF ZdpWell
<1>7. \A i, j \in DOMAIN t : (t[i].node = t[j].node /\ t[i].node \in RxOn) => i = j
  BY <1>2, <1>4 DEF ZdpWell
<1> QED BY <1>3, <1>4, <1>6, <1>7 DEF ZdpWell, t

\* A request for a node that has none, if it listens, below the limit.
LEMMA QueueMore ==
  ASSUME NEW q, ZdpWell(q), NEW r, IsRequest(r),
         r.node \in RxOn => /\ \A k \in DOMAIN q : q[k].node # r.node
                            /\ Cardinality(Sent(q)) < MaxApsRequestsZdp
  PROVE  ZdpWell(Append(q, r))
<1> DEFINE t == Append(q, r)
           n == Len(q)
<1>1. DOMAIN q = 1 .. n /\ n \in Nat /\ IsFiniteSet(Sent(q)) /\ Cardinality(Sent(q)) \in Nat
  BY SentFinite
<1>2. q \in Seq(ToSet(q) \cup {r}) /\ r \in ToSet(q) \cup {r}
  <2>1. q \in [1 .. n -> ToSet(q) \cup {r}]
    <3>1. q \in [1 .. n -> ToSet(q)]
      BY <1>1, LenProperties, SeqDef DEF ZdpWell, ToSet
    <3> QED BY <3>1
  <2> QED BY <1>1, <2>1, FcnIsSeq
<1>3. /\ t \in Seq(ToSet(q) \cup {r}) /\ Len(t) = n + 1 /\ t[n + 1] = r
      /\ \A i \in 1 .. n : t[i] = q[i]
  BY <1>2, AppendProperties
<1> HIDE DEF t
<1>4. DOMAIN t = 1 .. n + 1
  BY <1>3, LenProperties
<1>5. t \in Seq(ToSet(t))
  <2>1. t \in [1 .. n + 1 -> ToSet(t)] /\ n + 1 \in Nat
    BY <1>1, <1>3, <1>4, SeqDef DEF ToSet
  <2> QED BY <2>1, FcnIsSeq
<1>6. \A i \in DOMAIN t : i = n + 1 \/ (i \in DOMAIN q /\ t[i] = q[i])
  BY <1>1, <1>3, <1>4
<1>7. \A i \in DOMAIN t : IsRequest(t[i])
  BY <1>3, <1>6 DEF ZdpWell
<1>8. \A i, j \in DOMAIN t : (t[i].node = t[j].node /\ t[i].node \in RxOn) => i = j
  BY <1>3, <1>6 DEF ZdpWell
<1>9. Cardinality(Sent(t)) <= MaxApsRequestsZdp
  <2>1. CASE r.node \in RxOn
    <3>1. Sent(t) \subseteq Sent(q) \cup {n + 1}
      BY <1>6 DEF Sent
    <3>2. /\ IsFiniteSet(Sent(q) \cup {n + 1})
          /\ Cardinality(Sent(q) \cup {n + 1}) <= Cardinality(Sent(q)) + 1
      <4> DEFINE S == Sent(q)
      <4>1. IsFiniteSet(S) /\ Cardinality(S) \in Nat
        BY <1>1
      <4> HIDE DEF S
      <4>2. /\ IsFiniteSet(S \cup {n + 1})
            /\ Cardinality(S \cup {n + 1}) = IF n + 1 \in S THEN Cardinality(S) ELSE Cardinality(S) + 1
        BY <4>1, FS_AddElement
      <4>3. IsFiniteSet(S \cup {n + 1}) /\ Cardinality(S \cup {n + 1}) <= Cardinality(S) + 1
        BY <4>1, <4>2
      <4> QED BY <4>3 DEF S
    <3>3. /\ Cardinality(Sent(t)) <= Cardinality(Sent(q) \cup {n + 1})
          /\ Cardinality(Sent(t)) \in Nat /\ Cardinality(Sent(q) \cup {n + 1}) \in Nat
      BY <3>1, <3>2, FS_Subset, FS_CardinalityType
    <3> QED BY <1>1, <2>1, <3>2, <3>3, FetchAssumption
  <2>2. CASE r.node \notin RxOn
    <3>1. Sent(t) \subseteq Sent(q)
      BY <1>3, <1>6, <2>2 DEF Sent
    <3>2. Cardinality(Sent(t)) <= Cardinality(Sent(q)) /\ Cardinality(Sent(t)) \in Nat
      BY <1>1, <3>1, FS_Subset, FS_CardinalityType
    <3> QED BY <1>1, <3>2, FetchAssumption DEF ZdpWell
  <2> QED BY <2>1, <2>2
<1> QED BY <1>5, <1>7, <1>8, <1>9 DEF ZdpWell, t

----------------------------------------------------------------------------
(* The fast discover list.                                                 *)

\* An entry of the fast discover list changes, for the node it was for.
LEMMA FastMarked ==
  ASSUME NEW f, FastWell(f), NEW k \in DOMAIN f, NEW e \in FastEntries, e.node = f[k].node
  PROVE  FastWell([f EXCEPT ![k] = e])
<1>1. f \in Seq(FastEntries) /\ DOMAIN f = 1 .. Len(f)
  BY LenProperties DEF FastWell
<1>2. [f EXCEPT ![k] = e] \in Seq(FastEntries)
  BY <1>1, ExceptSeq
<1>3. \A j \in DOMAIN f : [f EXCEPT ![k] = e][j].node = f[j].node
  OBVIOUS
<1> QED BY <1>2, <1>3 DEF FastWell

\* fastPrope adds an entry for a node that has none, and only clears the errors of one that has.
LEMMA FastProped ==
  ASSUME NEW f, FastWell(f), NEW n
  PROVE  FastWell(fastPrope(f, n))
<1>1. f \in Seq(FastEntries) /\ DOMAIN f = 1 .. Len(f) /\ Len(f) \in Nat
  BY LenProperties DEF FastWell
<1>2. CASE n \notin RxOn
  BY <1>2 DEF fastPrope
<1>3. CASE n \in RxOn /\ \E k \in DOMAIN f : f[k].node = n
  <2> DEFINE t == [k \in DOMAIN f |-> IF f[k].node = n THEN [f[k] EXCEPT !.errors = 0] ELSE f[k]]
  <2>1. \A k \in DOMAIN f : t[k] \in FastEntries /\ t[k].node = f[k].node
    <3> TAKE k \in DOMAIN f
    <3>1. f[k] \in FastEntries
      BY <1>1, ElementOfSeq
    <3> QED BY <3>1 DEF FastEntries
  <2>2. t = fastPrope(f, n) /\ t = [k \in 1 .. Len(f) |-> t[k]]
    BY <1>1, <1>3 DEF fastPrope
  <2> HIDE DEF t
  <2>3. t \in [1 .. Len(f) -> FastEntries]
    BY <1>1, <2>1, <2>2
  <2>4. t \in Seq(FastEntries) /\ DOMAIN t = DOMAIN f
    BY <1>1, <2>3, FcnIsSeq
  <2>5. \A j, k \in DOMAIN t : t[j].node = t[k].node => j = k
    BY <2>1, <2>4 DEF FastWell
  <2>6. FastWell(t)
    BY <2>4, <2>5 DEF FastWell
  <2> QED BY <2>2, <2>6
<1>4. CASE n \in RxOn /\ ~\E k \in DOMAIN f : f[k].node = n
  <2> DEFINE e == [node |-> n, errors |-> 0, done |-> FALSE, old |-> FALSE]
             t == Append(f, e)
  <2>1. e \in FastEntries /\ e.node = n /\ t = fastPrope(f, n)
    BY <1>4 DEF FastEntries, fastPrope
  <2> HIDE DEF e
  <2>2. /\ t \in Seq(FastEntries) /\ Len(t) = Len(f) + 1 /\ t[Len(f) + 1] = e
        /\ \A i \in 1 .. Len(f) : t[i] = f[i]
    BY <1>1, <2>1, AppendProperties
  <2> HIDE DEF t
  <2>3. \A i \in DOMAIN t : i = Len(f) + 1 \/ (i \in DOMAIN f /\ t[i] = f[i])
    BY <1>1, <2>2, LenProperties
  <2>4. \A i, j \in DOMAIN t : t[i].node = t[j].node => i = j
    BY <1>4, <2>1, <2>2, <2>3 DEF FastWell
  <2> QED BY <2>1, <2>2, <2>4 DEF FastWell
<1> QED BY <1>2, <1>3, <1>4

\* The last entry takes the place of the first.
LEMMA FastTaken ==
  ASSUME NEW f, FastWell(f), f # <<>>
  PROVE  FastWell(IF Len(f) > 1 THEN Front([f EXCEPT ![1] = Last(f)]) ELSE <<>>)
<1>1. f \in Seq(FastEntries) /\ DOMAIN f = 1 .. Len(f) /\ Len(f) \in Nat
  BY LenProperties DEF FastWell
<1>2. CASE ~(Len(f) > 1)
  <2>1. <<>> \in Seq(FastEntries) /\ DOMAIN <<>> = {}
    BY EmptySeq
  <2> QED BY <1>2, <2>1 DEF FastWell
<1>3. CASE Len(f) > 1
  <2> DEFINE g == [f EXCEPT ![1] = Last(f)]
             t == SubSeq(g, 1, Len(f) - 1)
             m == Len(f) - 1
  <2>1. /\ g \in Seq(FastEntries) /\ Len(g) = Len(f) /\ g[1] = f[Len(f)]
        /\ \A i \in 2 .. Len(f) : g[i] = f[i]
    <3>1. Last(f) \in FastEntries
      BY <1>1, <1>3, ElementOfSeq DEF Last
    <3> QED BY <1>1, <1>3, <3>1, ExceptSeq DEF Last
  <2> HIDE DEF g
  <2>2. m \in Nat /\ m >= 1 /\ \A i \in 1 .. m : g[i] \in FastEntries
    BY <1>1, <1>3, <2>1, ElementOfSeq
  <2>3. t \in Seq(FastEntries) /\ Len(t) = m /\ \A i \in 1 .. m : t[i] = g[i]
    <3>1. /\ t \in Seq(FastEntries) /\ Len(t) = IF 1 <= m THEN m - 1 + 1 ELSE 0
          /\ \A i \in 1 .. m - 1 + 1 : t[i] = g[1 + i - 1]
      BY <1>1, <2>1, <2>2, SubSeqProperties
    <3> QED BY <2>2, <3>1
  <2>4. Front(g) = t
    BY <2>1 DEF Front
  <2> HIDE DEF t
  <2>5. DOMAIN t = 1 .. m
    BY <2>3, LenProperties
  <2>6. \A i, j \in DOMAIN t : t[i].node = t[j].node => i = j
    <3> SUFFICES ASSUME NEW i \in 1 .. m, NEW j \in 1 .. m, t[i].node = t[j].node PROVE i = j
      BY <2>5
    <3> DEFINE o(x) == IF x = 1 THEN Len(f) ELSE x
    <3>1. \A x \in 1 .. m : o(x) \in DOMAIN f /\ t[x] = f[o(x)]
      BY <1>1, <1>3, <2>1, <2>3
    <3>2. o(i) = o(j)
      BY <3>1 DEF FastWell
    <3> QED BY <1>1, <3>2
  <2>7. FastWell(t)
    BY <2>3, <2>6 DEF FastWell
  <2> QED BY <1>3, <2>4, <2>7 DEF g
<1> QED BY <1>2, <1>3

\* The least of some numbers is one of them.
LEMMA MinIsIn ==
  ASSUME NEW S \in SUBSET Nat, S # {}
  PROVE  Min(S) \in S
BY NatMin DEF Min

\* The entry that fetchZdpTick takes first is an entry.
LEMMA PickedIsIn ==
  ASSUME FastWell(fast), Picked # 0
  PROVE  Picked \in DOMAIN fast
<1> DEFINE ok == {k \in DOMAIN fast : fast[k].errors <= 2}
<1>1. DOMAIN fast = 1 .. Len(fast) /\ Len(fast) \in Nat
  BY LenProperties DEF FastWell
<1>2. ok \in SUBSET Nat
  BY <1>1
<1>3. ok # {} /\ Picked = Min(ok)
  BY DEF Picked
<1>4. Picked \in ok
  <2> HIDE DEF ok
  <2> QED BY <1>2, <1>3, MinIsIn
<1> QED BY <1>4

----------------------------------------------------------------------------
(* The tick.                                                               *)

FetchItems == Items \cup {"Unknown"}
AllRetries == [Nodes -> [Items -> 0 .. MaxRetrys]]

\* One more retry of an item: retryIncr stops at the last one.
LEMMA IncrTyped ==
  ASSUME NEW r \in AllRetries, NEW n \in Nodes, NEW i \in FetchItems
  PROVE  Incr(r, n, i) \in AllRetries
<1>1. CASE i = "Unknown" \/ r[n][i] = MaxRetrys
  BY <1>1 DEF Incr
<1>2. CASE i \in Items /\ r[n][i] # MaxRetrys
  <2>1. r[n][i] \in 0 .. MaxRetrys /\ r[n][i] + 1 \in 0 .. MaxRetrys
    BY <1>2, FetchAssumption DEF AllRetries
  <2>2. Incr(r, n, i) = [r EXCEPT ![n] = [r[n] EXCEPT ![i] = r[n][i] + 1]]
    BY <1>2 DEF Incr, AllRetries, Items
  <2> QED BY <1>2, <2>1, <2>2 DEF AllRetries
<1> QED BY <1>1, <1>2 DEF FetchItems

\* An item starts over.
LEMMA ZeroTyped ==
  ASSUME NEW r \in AllRetries, NEW n \in Nodes, NEW i \in Items
  PROVE  [r EXCEPT ![n][i] = 0] \in AllRetries
<1>1. 0 \in 0 .. MaxRetrys
  BY FetchAssumption
<1> QED BY <1>1 DEF AllRetries

\* What needFetch leaves of the retries.
LEMMA AfterTyped ==
  ASSUME NEW r \in AllRetries, NEW n \in Nodes, NEW i \in FetchItems, NEW again
  PROVE  retriesAfter(r, n, i, again) \in AllRetries
BY ZeroTyped DEF retriesAfter, Enabled

\* The item after an item.
LEMMA NextTyped ==
  ASSUME NEW i \in FetchItems
  PROVE  nextCurFetchItem(i) \in FetchItems
BY DEF FetchItems, Items, nextCurFetchItem

\* What a tick changes of the nodes and the queue is well.
TickWell == /\ ZdpWell(zdp)' /\ item' \in [Nodes -> FetchItems] /\ wait' \in [Nodes -> BOOLEAN]
            /\ retries' \in AllRetries

\* A node that has no request waiting is asked, or passed over.
LEMMA AskWell ==
  ASSUME FetchWell, NEW n \in RxOn, NEW i \in Items, NEW cur \in FetchItems, NEW r \in AllRetries,
         Cardinality(Unconfirmed) < MaxApsRequestsZdp, AskNode(n, i, cur, r)
  PROVE  TickWell
<1> DEFINE e == Asks(n, i)
           free == ~\E k \in DOMAIN zdp : zdp[k].node = n
           q == [node |-> n, item |-> i, ep |-> e, st |-> "sent", asked |-> FALSE, answered |-> FALSE]
           r2 == IF i = "ActiveEndpoints" /\ e = 0 THEN Incr(r, n, i) ELSE r
<1>1. /\ n \in Nodes /\ item \in [Nodes -> FetchItems] /\ wait \in [Nodes -> BOOLEAN] /\ ZdpWell(zdp)
  BY FetchAssumption DEF FetchWell, NodesWell, FetchItems
<1>2. r2 \in AllRetries
  <2>1. Incr(r, n, i) \in AllRetries
    BY <1>1, IncrTyped DEF FetchItems
  <2> QED BY <2>1
<1>3. retries' = r2 \/ retries' = [r2 EXCEPT ![n][i] = 0]
  BY DEF AskNode
<1>4. retries' \in AllRetries
  <2>1. [r2 EXCEPT ![n][i] = 0] \in AllRetries
    <3> HIDE DEF r2
    <3> QED BY <1>1, <1>2, ZeroTyped
  <2> QED BY <1>2, <1>3, <2>1
<1>5. \/ /\ e # -1 /\ free /\ Put(n, i, e) /\ wait' = [wait EXCEPT ![n] = TRUE]
         /\ item' = [item EXCEPT ![n] = cur]
      \/ /\ item' = [item EXCEPT ![n] = nextCurFetchItem(cur)]
         /\ wait' = [wait EXCEPT ![n] = FALSE] /\ zdp' = zdp
  BY DEF AskNode
<1>6. item' \in [Nodes -> FetchItems] /\ wait' \in [Nodes -> BOOLEAN]
  <2>1. nextCurFetchItem(cur) \in FetchItems
    BY NextTyped
  <2> QED BY <1>1, <1>5, <2>1
<1>7. ZdpWell(zdp')
  <2>1. CASE zdp' = zdp
    BY <1>1, <2>1
  <2>2. CASE free /\ Put(n, i, e)
    <3>1. zdp' = Append(zdp, q)
      BY <2>2 DEF Put
    <3>2. IsRequest(q) /\ q.node = n
      BY <1>1 DEF IsRequest
    <3>3. Cardinality(Sent(zdp)) < MaxApsRequestsZdp
      <4>1. DOMAIN zdp = 1 .. Len(zdp) /\ Len(zdp) \in Nat
        BY <1>1, SentFinite
      <4>2. IsFiniteSet(Unconfirmed) /\ Sent(zdp) \subseteq Unconfirmed
        <5>1. Unconfirmed \subseteq 1 .. Len(zdp) /\ IsFiniteSet(1 .. Len(zdp))
          BY <4>1, FS_Interval DEF Unconfirmed
        <5>2. IsFiniteSet(Unconfirmed)
          BY <5>1, FS_Subset
        <5> QED BY <5>2 DEF Unconfirmed, Sent
      <4>3. Cardinality(Sent(zdp)) <= Cardinality(Unconfirmed) /\ Cardinality(Unconfirmed) \in Nat
            /\ Cardinality(Sent(zdp)) \in Nat
        BY <4>2, FS_Subset, FS_CardinalityType
      <4> QED BY <4>3, FetchAssumption
    <3> HIDE DEF q, e
    <3> QED BY <1>1, <2>2, <3>1, <3>2, <3>3, QueueMore
  <2> QED BY <1>5, <2>1, <2>2
<1> QED BY <1>4, <1>6, <1>7 DEF TickWell

\* The regular turn asks a node for its item, for the one after it, or for nothing.
LEMMA RegularWell ==
  ASSUME FetchWell, NEW n \in RxOn, NEW first \in Nat, first < Len(Order),
         Cardinality(Unconfirmed) < MaxApsRequestsZdp, Regular(n, first)
  PROVE  TickWell /\ fetchCur' \in {first, first + 1}
<1>0. /\ n \in Nodes /\ item \in [Nodes -> FetchItems] /\ wait \in [Nodes -> BOOLEAN] /\ ZdpWell(zdp)
      /\ retries \in AllRetries
  BY FetchAssumption DEF FetchWell, NodesWell, FetchItems, AllRetries
<1> DEFINE c1 == item[n]
           c2 == nextCurFetchItem(c1)
           r1(again) == retriesAfter(retries, n, c1, again)
           r2(again) == IF c2 = "Unknown" THEN r1(again) ELSE retriesAfter(r1(again), n, c2, again)
           quiet == /\ wait' = [wait EXCEPT ![n] = FALSE] /\ UNCHANGED <<zdp, fetched, depend, faults>>
<1>1. PICK again \in BOOLEAN :
        \/ needFetch(n, c1, again) /\ fetchCur' = first + 1 /\ AskNode(n, c1, c1, r1(again))
        \/ needFetch(n, c2, again) /\ fetchCur' = first + 1 /\ AskNode(n, c2, c2, r2(again))
        \/ fetchCur' = first + 1 /\ retries' = r1(again) /\ quiet /\ item' = item
        \/ fetchCur' \in {first, first + 1} /\ item' = [item EXCEPT ![n] = c2] /\ retries' = r2(again) /\ quiet
  BY DEF Regular
<1>2. c1 \in FetchItems /\ c2 \in FetchItems
  BY <1>0, NextTyped
<1>3. r1(again) \in AllRetries
  BY <1>0, <1>2, AfterTyped
<1>4. r2(again) \in AllRetries
  <2> HIDE DEF r1, c1, c2
  <2> QED BY <1>0, <1>2, <1>3, AfterTyped
<1>5. needFetch(n, c1, again) => c1 \in Items
  BY DEF needFetch, Enabled
<1>6. needFetch(n, c2, again) => c2 \in Items
  BY DEF needFetch, Enabled
<1> HIDE DEF r1, r2, c1, c2
<1>7. CASE needFetch(n, c1, again) /\ fetchCur' = first + 1 /\ AskNode(n, c1, c1, r1(again))
  BY <1>2, <1>3, <1>5, <1>7, AskWell
<1>8. CASE needFetch(n, c2, again) /\ fetchCur' = first + 1 /\ AskNode(n, c2, c2, r2(again))
  BY <1>2, <1>4, <1>6, <1>8, AskWell
<1>9. CASE fetchCur' = first + 1 /\ retries' = r1(again) /\ quiet /\ item' = item
  BY <1>0, <1>3, <1>9 DEF TickWell
<1>10. CASE fetchCur' \in {first, first + 1} /\ item' = [item EXCEPT ![n] = c2] /\ retries' = r2(again) /\ quiet
  BY <1>0, <1>2, <1>4, <1>10 DEF TickWell
<1> QED BY <1>1, <1>7, <1>8, <1>9, <1>10

\* fetchZdpTick takes an entry of the fast discover list or does a regular turn.
LEMMA FetchTickKeeps == FetchWell /\ fetchZdpTick => FetchWell'
<1> SUFFICES ASSUME FetchWell, fetchZdpTick PROVE FetchWell'
  OBVIOUS
<1>0. FastWell(fast) /\ ZdpWell(zdp) /\ Len(Order) \in Nat
  BY FetchAssumption, LenProperties DEF FetchWell
<1>1. CASE FinishFast
  <2>1. fast # <<>> /\ fast' = IF Len(fast) > 1 THEN Front([fast EXCEPT ![1] = Last(fast)]) ELSE <<>>
    BY <1>1 DEF FinishFast, HeadDone
  <2>2. FastWell(fast')
    BY <1>0, <2>1, FastTaken
  <2> QED BY <1>1, <2>2 DEF FinishFast, FetchWell, NodesWell, nodeVars
<1>2. CASE MarkDone
  <2> DEFINE e == [fast[Picked] EXCEPT !.done = TRUE]
  <2>1. Picked \in DOMAIN fast /\ fast[Picked] \in FastEntries
    BY <1>0, <1>2, PickedIsIn, ElementOfSeq, LenProperties DEF MarkDone, FastWell
  <2>2. e \in FastEntries /\ e.node = fast[Picked].node /\ fast' = [fast EXCEPT ![Picked] = e]
    BY <1>2, <2>1 DEF MarkDone, FastEntries
  <2> HIDE DEF e
  <2>3. FastWell(fast')
    BY <1>0, <2>1, <2>2, FastMarked
  <2> QED BY <1>2, <2>3 DEF MarkDone, FetchWell, NodesWell, nodeVars
<1>3. CASE FetchNode
  <2> DEFINE first == IF fetchCur >= Len(Order) THEN 0 ELSE fetchCur
             n == IF Picked # 0 THEN fast[Picked].node ELSE Order[first + 1]
  <2>1. first \in Nat /\ first < Len(Order)
    <3>1. Len(Order) # 0 /\ fetchCur \in 0 .. Len(Order)
      BY FetchAssumption, EmptySeq DEF FetchWell
    <3> QED BY <1>0, <3>1
  <2>2. /\ Picked # 0 => FastItem(Picked) # "Done"
        /\ UNCHANGED <<fast, air, desc, eps, sds, feps, seen>>
    BY <1>3 DEF FetchNode
  <2>3. \/ /\ fetchCur' = first + 1 /\ UNCHANGED <<zdp, item, retries, wait>>
        \/ /\ n \in RxOn /\ ~SkipsNode(n) /\ ~TooMany(n)
           /\ IF Picked # 0
              THEN fetchCur' = first + 1 /\ AskNode(n, FastItem(Picked), item[n], retries)
              ELSE Regular(n, first)
    BY <1>3 DEF FetchNode
  <2> HIDE DEF first, n
  <2>4. TickWell /\ fetchCur' \in 0 .. Len(Order)
    <3>1. CASE fetchCur' = first + 1 /\ UNCHANGED <<zdp, item, retries, wait>>
      BY <1>0, <2>1, <3>1 DEF TickWell, FetchWell, NodesWell, FetchItems, AllRetries
    <3>2. CASE n \in RxOn /\ ~SkipsNode(n) /\ ~TooMany(n)
               /\ IF Picked # 0
                  THEN fetchCur' = first + 1 /\ AskNode(n, FastItem(Picked), item[n], retries)
                  ELSE Regular(n, first)
      <4>1. Cardinality(Unconfirmed) < MaxApsRequestsZdp
        <5>1. Unconfirmed \subseteq 1 .. Len(zdp) /\ Len(zdp) \in Nat
          BY <1>0, SentFinite DEF Unconfirmed
        <5>2. IsFiniteSet(1 .. Len(zdp))
          BY <5>1, FS_Interval
        <5>3. Cardinality(Unconfirmed) \in Nat
          BY <5>1, <5>2, FS_Subset, FS_CardinalityType
        <5> QED BY <3>2, <5>3, FetchAssumption DEF TooMany
      <4>2. n \in Nodes /\ item[n] \in FetchItems /\ retries \in AllRetries
        BY <3>2, FetchAssumption DEF FetchWell, NodesWell, FetchItems, AllRetries
      <4>3. CASE Picked # 0
        <5>1. FastItem(Picked) \in Items
          BY <2>2, <4>3 DEF FastItem, Items
        <5> QED BY <1>0, <2>1, <3>2, <4>1, <4>2, <4>3, <5>1, AskWell
      <4>4. CASE Picked = 0
        <5>1. TickWell /\ fetchCur' \in {first, first + 1}
          BY <2>1, <3>2, <4>1, <4>4, RegularWell
        <5> QED BY <1>0, <2>1, <5>1
      <4> QED BY <4>3, <4>4
    <3> QED BY <2>3, <3>1, <3>2
  <2> QED BY <2>2, <2>4 DEF TickWell, FetchWell, NodesWell, FetchItems, AllRetries
<1> QED BY <1>1, <1>2, <1>3 DEF fetchZdpTick

----------------------------------------------------------------------------
(* The network, the confirms and the timeouts.                             *)

\* A request leaves the queue; answers stay what they are.
LEMMA ForgetWell ==
  ASSUME FetchWell, NEW k \in DOMAIN zdp, Forget(k)
  PROVE  ZdpWell(zdp') /\ \A a \in air' : IsAnswer(a)
<1>1. ZdpWell(zdp')
  BY QueueLess DEF FetchWell, Forget
<1>2. ASSUME NEW b \in air' PROVE IsAnswer(b)
  <2>1. PICK a \in air : b = [a EXCEPT !.live = @ /\ ~SameRequest(a, zdp[k])]
    BY DEF Forget
  <2>2. IsAnswer(a)
    BY DEF FetchWell
  <2>3. (a.live /\ ~SameRequest(a, zdp[k])) \in BOOLEAN
    OBVIOUS
  <2> QED BY <2>1, <2>2, <2>3 DEF IsAnswer
<1> QED BY <1>1, <1>2

\* A place of the queue with one of its marks changed.
LEMMA MarkWell ==
  ASSUME NEW q, ZdpWell(q), NEW k \in DOMAIN q
  PROVE  /\ ZdpWell([q EXCEPT ![k].asked = TRUE])
         /\ ZdpWell([q EXCEPT ![k].answered = TRUE])
         /\ ZdpWell([q EXCEPT ![k].st = "confirmed"])
<1>1. IsRequest(q[k])
  BY DEF ZdpWell
<1> DEFINE a == [q[k] EXCEPT !.asked = TRUE]
           b == [q[k] EXCEPT !.answered = TRUE]
           c == [q[k] EXCEPT !.st = "confirmed"]
<1>2. IsRequest(a) /\ a.node = q[k].node /\ a.st = q[k].st
  BY <1>1 DEF IsRequest
<1>3. IsRequest(b) /\ b.node = q[k].node /\ b.st = q[k].st
  BY <1>1 DEF IsRequest
<1>4. IsRequest(c) /\ c.node = q[k].node /\ c.st = "confirmed"
  BY <1>1 DEF IsRequest
<1>5. ZdpWell([q EXCEPT ![k] = a])
  <2> HIDE DEF a
  <2> QED BY <1>2, QueueMarked
<1>6. ZdpWell([q EXCEPT ![k] = b])
  <2> HIDE DEF b
  <2> QED BY <1>3, QueueMarked
<1>7. ZdpWell([q EXCEPT ![k] = c])
  <2> HIDE DEF c
  <2> QED BY <1>4, QueueMarked
<1> QED BY <1>5, <1>6, <1>7

\* A request that is not confirmed is cleared.
LEMMA ClearWell ==
  ASSUME NEW q, ZdpWell(q), NEW k \in DOMAIN q, q[k].st # "confirmed"
  PROVE  ZdpWell([q EXCEPT ![k].st = "cleared"])
<1> DEFINE c == [q[k] EXCEPT !.st = "cleared"]
<1>1. IsRequest(c) /\ c.node = q[k].node
  BY DEF ZdpWell, IsRequest
<1>2. ZdpWell([q EXCEPT ![k] = c])
  <2> HIDE DEF c
  <2> QED BY <1>1, QueueMarked
<1> QED BY <1>2

\* A node answers what it was asked, of an endpoint it has, or that it has none.
LEMMA NodeAnswersKeeps ==
  ASSUME FetchWell, NEW k \in DOMAIN zdp, NodeAnswers(k)
  PROVE  FetchWell'
<1> DEFINE a == Answer(zdp[k])
           b == [a EXCEPT !.status = "Error"]
<1>0. ZdpWell(zdp) /\ zdp' = [zdp EXCEPT ![k].asked = TRUE]
  BY DEF NodeAnswers, FetchWell
<1>1. ZdpWell(zdp') /\ IsRequest(zdp[k])
  <2>1. ZdpWell(zdp')
    BY <1>0, MarkWell
  <2> QED BY <1>0, <2>1 DEF ZdpWell
<1>2. IsAnswer(a)
  BY <1>1 DEF IsRequest, IsAnswer, Answer
<1>4. IsAnswer(b)
  <2> HIDE DEF a
  <2> QED BY <1>2 DEF IsAnswer
<1>3. air' \subseteq air \cup {a, b}
  BY DEF NodeAnswers
<1>5. \A x \in air' : IsAnswer(x)
  <2> HIDE DEF a, b
  <2> QED BY <1>2, <1>3, <1>4 DEF FetchWell
<1> QED BY <1>1, <1>5 DEF NodeAnswers, FetchWell, NodesWell, nodeVars

\* A confirm waits for the answer, or meets the answer that was there before it.
LEMMA ConfirmOkKeeps ==
  ASSUME FetchWell, NEW k \in DOMAIN zdp, ConfirmOk(k)
  PROVE  FetchWell'
<1>1. ZdpWell(zdp') /\ \A a \in air' : IsAnswer(a)
  <2>1. CASE zdp[k].answered
    BY <2>1, ForgetWell DEF ConfirmOk
  <2>2. CASE ~zdp[k].answered
    <3>1. zdp' = [zdp EXCEPT ![k].st = "confirmed"] /\ air' = air
      BY <2>2 DEF ConfirmOk
    <3>2. ZdpWell([zdp EXCEPT ![k].st = "confirmed"]) /\ \A a \in air : IsAnswer(a)
      BY MarkWell DEF FetchWell
    <3> QED BY <3>1, <3>2
  <2> QED BY <2>1, <2>2
<1>2. wait' \in [Nodes -> BOOLEAN]
  BY DEF ConfirmOk, FetchWell, NodesWell
<1> QED BY <1>1, <1>2 DEF ConfirmOk, FetchWell, NodesWell

\* A refused request leaves the queue, and its node goes on later.
LEMMA ConfirmErrorKeeps ==
  ASSUME FetchWell, NEW k \in DOMAIN zdp, ConfirmError(k)
  PROVE  FetchWell'
<1> DEFINE n == zdp[k].node
           f == {j \in DOMAIN fast : fast[j].node = n}
<1>1. ZdpWell(zdp') /\ \A a \in air' : IsAnswer(a)
  BY ForgetWell DEF ConfirmError
<1>2. n \in Nodes
  BY DEF FetchWell, ZdpWell, IsRequest
<1>3. wait' \in [Nodes -> BOOLEAN] /\ retries' \in AllRetries
  <2>1. retries \in AllRetries /\ item[n] \in FetchItems
    BY <1>2 DEF FetchWell, NodesWell, AllRetries, FetchItems
  <2>2. retries' = Incr(retries, n, item[n]) \/ retries' = retries
    BY DEF ConfirmError
  <2>3. PICK w \in {wait[n], TRUE} : wait' = [wait EXCEPT ![n] = w]
    BY DEF ConfirmError
  <2> HIDE DEF n
  <2>4. retries' \in AllRetries
    BY <1>2, <2>1, <2>2, IncrTyped
  <2>5. wait' \in [Nodes -> BOOLEAN]
    BY <1>2, <2>3 DEF FetchWell, NodesWell
  <2> QED BY <2>4, <2>5
<1>4. FastWell(fast')
  <2>1. CASE f = {}
    BY <2>1 DEF ConfirmError, FetchWell
  <2>2. CASE f # {}
    <3> DEFINE j == Min(f)
               e == [fast[j] EXCEPT !.errors = Min({fast[j].errors + 1, 3})]
    <3>1. FastWell(fast) /\ fast \in Seq(FastEntries) /\ DOMAIN fast = 1 .. Len(fast) /\ Len(fast) \in Nat
      BY LenProperties DEF FetchWell, FastWell
    <3>2. f \in SUBSET Nat
      BY <3>1
    <3>3. j \in f
      <4> HIDE DEF f
      <4> QED BY <2>2, <3>2, MinIsIn
    <3>4. j \in DOMAIN fast /\ fast[j] \in FastEntries
      BY <3>1, <3>3, ElementOfSeq
    <3>5. fast' = [fast EXCEPT ![j] = e]
      BY <2>2, <3>4 DEF ConfirmError, FastEntries
    <3> HIDE DEF j, f
    <3>6. fast[j].errors \in 0 .. 3
      BY <3>4 DEF FastEntries
    <3>7. Min({fast[j].errors + 1, 3}) \in 0 .. 3
      <4>1. fast[j].errors + 1 \in Int /\ 3 \in Int
        BY <3>6
      <4>2. Min({fast[j].errors + 1, 3}) = IF fast[j].errors + 1 <= 3 THEN fast[j].errors + 1 ELSE 3
        BY <4>1, MinOfTwo
      <4> QED BY <3>6, <4>2
    <3>8. e \in FastEntries /\ e.node = fast[j].node
      BY <3>4, <3>7 DEF FastEntries
    <3> HIDE DEF e
    <3> QED BY <3>1, <3>4, <3>5, <3>8, FastMarked
  <2> QED BY <2>1, <2>2
<1> QED BY <1>1, <1>3, <1>4 DEF ConfirmError, FetchWell, NodesWell, AllRetries

\* So does one whose time has passed.
LEMMA ExpireKeeps ==
  ASSUME FetchWell, NEW k \in DOMAIN zdp, Expire(k)
  PROVE  FetchWell'
<1>1. ZdpWell(zdp') /\ \A a \in air' : IsAnswer(a)
  BY ForgetWell DEF Expire
<1> QED BY <1>1 DEF Expire, FetchWell, NodesWell, nodeVars

----------------------------------------------------------------------------
(* The indications.                                                        *)

\* What every indication does: its request is done, and the node goes on.
LEMMA HeardWell ==
  ASSUME FetchWell, NEW a \in air, Heard(a)
  PROVE  /\ FastWell(fast') /\ ZdpWell(zdp') /\ (\A x \in air' : IsAnswer(x))
         /\ fetchCur' \in 0 .. Len(Order) /\ wait' \in [Nodes -> BOOLEAN]
         /\ item' \in [Nodes -> FetchItems] /\ a.node \in Nodes /\ a.item \in Items
         /\ a.item = "SimpleDescriptor" /\ a.status = "Success" => a.ep \in Active[a.node]
<1>1. IsAnswer(a) /\ FastWell(fast) /\ ZdpWell(zdp)
  BY DEF FetchWell
<1>2. FastWell(fast')
  BY <1>1, FastProped DEF Heard
<1>3. ZdpWell(zdp')
  <2> DEFINE m == {k \in DOMAIN zdp : a.live /\ zdp[k].st # "cleared" /\ SameRequest(a, zdp[k])}
  <2>1. /\ zdp' = IF m = {} THEN zdp
                  ELSE IF zdp[Min(m)].st = "confirmed" THEN RemoveAt(zdp, Min(m))
                  ELSE [zdp EXCEPT ![Min(m)].answered = TRUE]
    BY DEF Heard
  <2>2. m \in SUBSET Nat
    BY <1>1, SentFinite
  <2>3. m # {} => Min(m) \in DOMAIN zdp
    <3>1. m # {} => Min(m) \in m
      <4> HIDE DEF m
      <4> QED BY <2>2, MinIsIn
    <3> QED BY <3>1
  <2> HIDE DEF m
  <2> QED BY <1>1, <2>1, <2>3, QueueLess, MarkWell
<1> QED BY <1>1, <1>2, <1>3 DEF Heard, FetchWell, NodesWell, IsAnswer, FetchItems

\* The node descriptor.
LEMMA NodeDescRspKeeps ==
  ASSUME FetchWell, NEW a \in air, NodeDescRsp(a)
  PROVE  FetchWell'
<1>1. Heard(a) /\ UNCHANGED <<eps, sds>>
      /\ (retries' = [retries EXCEPT ![a.node][a.item] = 0] \/ retries' = Incr(retries, a.node, a.item))
  BY DEF NodeDescRsp, Fetched
<1>2. a.node \in Nodes /\ a.item \in Items /\ retries \in AllRetries
  BY <1>1, HeardWell DEF FetchWell, NodesWell, AllRetries
<1>3. retries' \in AllRetries
  BY <1>1, <1>2, ZeroTyped, IncrTyped DEF FetchItems
<1> QED BY <1>1, <1>3, HeardWell DEF FetchWell, NodesWell, FetchItems, AllRetries

\* The list of active endpoints.
LEMMA ActiveEpRspKeeps ==
  ASSUME FetchWell, NEW a \in air, ActiveEpRsp(a)
  PROVE  FetchWell'
<1> DEFINE n == a.node
           s == IF Listed[n] # eps[n] THEN sds[n] \cap Listed[n] ELSE sds[n]
<1>1. Heard(a) /\ a.item = "ActiveEndpoints"
  BY DEF ActiveEpRsp
<1>2. n \in Nodes /\ a.item \in Items /\ retries \in AllRetries
  BY <1>1, HeardWell DEF FetchWell, NodesWell, AllRetries
<1>3. CASE a.status = "Success"
  <2>1. /\ eps' = [eps EXCEPT ![n] = Listed[n]] /\ sds' = [sds EXCEPT ![n] = s]
        /\ retries' = [retries EXCEPT ![n][a.item] = 0,
                                      ![n]["SimpleDescriptor"] = IF desc[n] /\ n \in RxOn THEN 0 ELSE @]
    BY <1>3 DEF ActiveEpRsp
  <2>2. s \subseteq sds[n]
    OBVIOUS
  <2> HIDE DEF s
  <2>6. retries' \in AllRetries
    <3>1. 0 \in 0 .. MaxRetrys /\ "SimpleDescriptor" \in Items
      BY FetchAssumption DEF Items
    <3> HIDE DEF n
    <3> QED BY <1>2, <2>1, <3>1 DEF AllRetries
  <2>7. /\ eps' \in [Nodes -> SUBSET UNION {Listed[x] : x \in Nodes}]
        /\ sds' \in [Nodes -> SUBSET UNION {Active[x] : x \in Nodes}]
        /\ \A x \in Nodes : eps'[x] \subseteq Listed[x] /\ sds'[x] \subseteq Active[x]
    <3>1. /\ eps \in [Nodes -> SUBSET UNION {Listed[x] : x \in Nodes}]
          /\ sds \in [Nodes -> SUBSET UNION {Active[x] : x \in Nodes}]
          /\ \A x \in Nodes : eps[x] \subseteq Listed[x] /\ sds[x] \subseteq Active[x]
      BY DEF FetchWell, NodesWell
    <3> HIDE DEF n
    <3> QED BY <1>2, <2>1, <2>2, <3>1
  <2> QED BY <1>1, <2>6, <2>7, HeardWell DEF FetchWell, NodesWell, FetchItems, AllRetries
<1>4. CASE a.status # "Success"
  <2>1. retries' = Incr(retries, n, a.item) /\ eps' = eps /\ sds' = sds
    BY <1>4 DEF ActiveEpRsp
  <2>2. retries' \in AllRetries
    BY <1>2, <2>1, IncrTyped DEF FetchItems
  <2> QED BY <1>1, <2>1, <2>2, HeardWell DEF FetchWell, NodesWell, FetchItems, AllRetries
<1> QED BY <1>3, <1>4

\* A simple descriptor: the endpoint is described, or is taken off the list.
LEMMA SimpleDescRspKeeps ==
  ASSUME FetchWell, NEW a \in air, SimpleDescRsp(a)
  PROVE  FetchWell'
<1> DEFINE n == a.node
<1>1. Heard(a) /\ a.item = "SimpleDescriptor"
  BY DEF SimpleDescRsp
<1>2. n \in Nodes /\ a.item \in Items /\ retries \in AllRetries /\ (a.status = "Success" => a.ep \in Active[n])
  BY <1>1, HeardWell DEF FetchWell, NodesWell, AllRetries
<1>3. retries' = retries \/ retries' = Incr(retries, n, a.item) \/ retries' = [retries EXCEPT ![n][a.item] = 0]
  BY DEF SimpleDescRsp, Fetched
<1>4. retries' \in AllRetries
  BY <1>2, <1>3, ZeroTyped, IncrTyped DEF FetchItems
<1>5. /\ eps' = eps \/ \E e : eps' = [eps EXCEPT ![n] = @ \ {e}]
      /\ sds' = sds \/ (a.status = "Success" /\ sds' = [sds EXCEPT ![n] = @ \cup {a.ep}])
  BY DEF SimpleDescRsp
<1>6. /\ eps' \in [Nodes -> SUBSET UNION {Listed[x] : x \in Nodes}]
      /\ sds' \in [Nodes -> SUBSET UNION {Active[x] : x \in Nodes}]
      /\ \A x \in Nodes : eps'[x] \subseteq Listed[x] /\ sds'[x] \subseteq Active[x]
  <2> HIDE DEF n
  <2>1. /\ eps \in [Nodes -> SUBSET UNION {Listed[x] : x \in Nodes}]
        /\ sds \in [Nodes -> SUBSET UNION {Active[x] : x \in Nodes}]
        /\ \A x \in Nodes : eps[x] \subseteq Listed[x] /\ sds[x] \subseteq Active[x]
    BY DEF FetchWell, NodesWell
  <2>2. /\ eps' \in [Nodes -> SUBSET UNION {Listed[x] : x \in Nodes}]
        /\ \A x \in Nodes : eps'[x] \subseteq Listed[x]
    <3>1. CASE eps' = eps
      BY <2>1, <3>1
    <3>2. ASSUME NEW e, eps' = [eps EXCEPT ![n] = @ \ {e}] PROVE <2>2!:
      BY <1>2, <2>1, <3>2
    <3> QED BY <1>5, <3>1, <3>2
  <2>3. /\ sds' \in [Nodes -> SUBSET UNION {Active[x] : x \in Nodes}]
        /\ \A x \in Nodes : sds'[x] \subseteq Active[x]
    <3>1. CASE sds' = sds
      BY <2>1, <3>1
    <3>2. CASE a.ep \in Active[n] /\ sds' = [sds EXCEPT ![n] = @ \cup {a.ep}]
      BY <1>2, <2>1, <3>2
    <3> QED BY <1>2, <1>5, <3>1, <3>2
  <2> QED BY <2>2, <2>3
<1> QED BY <1>1, <1>4, <1>6, HeardWell DEF FetchWell, NodesWell, FetchItems, AllRetries

\* A device announces itself, and all is fetched anew.
LEMMA AnnounceKeeps ==
  ASSUME FetchWell, NEW n \in Nodes, Announce(n)
  PROVE  FetchWell'
<1>1. FastWell(fast')
  BY FastProped DEF Announce, FetchWell
<1>2. retries' \in AllRetries
  BY ZeroTyped DEF Announce, FetchWell, NodesWell, AllRetries, Items
<1> QED BY <1>1, <1>2 DEF Announce, FetchWell, NodesWell, AllRetries

\* A node that sleeps has polled, and is asked twice at most; it does not listen otherwise.
LEMMA MacPollKeeps ==
  ASSUME FetchWell, NEW n \in Nodes, MacPoll(n)
  PROVE  FetchWell'
<1>1. PICK i \in {"NodeDescriptor", "ActiveEndpoints"} :
        retries[n][i] < 2 /\ Put(n, i, 0) /\ retries' = [retries EXCEPT ![n][i] = @ + 1]
  BY DEF MacPoll
<1>2. i \in Items /\ n \notin RxOn
  BY DEF Items, MacPoll
<1>3. retries' \in AllRetries
  <2>1. retries \in AllRetries /\ retries[n][i] + 1 \in 0 .. MaxRetrys
    BY <1>1, <1>2, FetchAssumption DEF FetchWell, NodesWell, AllRetries
  <2> QED BY <1>1, <1>2, <2>1 DEF AllRetries
<1>4. ZdpWell(zdp')
  <2> DEFINE q == [node |-> n, item |-> i, ep |-> 0, st |-> "sent", asked |-> FALSE, answered |-> FALSE]
  <2>1. IsRequest(q) /\ q.node = n /\ zdp' = Append(zdp, q)
    BY <1>1, <1>2 DEF IsRequest, Put
  <2> HIDE DEF q
  <2> QED BY <1>2, <2>1, QueueMore DEF FetchWell
<1> QED BY <1>3, <1>4 DEF MacPoll, FetchWell, NodesWell, AllRetries

\* The request of a zombie is cleared, or leaves the queue.
LEMMA ZombieKeeps ==
  ASSUME FetchWell, NEW n \in Nodes, zombieTick(n)
  PROVE  FetchWell'
<1>1. ZdpWell(zdp') /\ \A a \in air' : IsAnswer(a)
  <2>1. CASE UNCHANGED <<zdp, air>>
    BY <2>1 DEF FetchWell
  <2>2. CASE \E k \in DOMAIN zdp : zdp[k].st = "confirmed" /\ Forget(k)
    BY <2>2, ForgetWell
  <2>3. CASE \E k \in DOMAIN zdp : /\ zdp[k].st # "confirmed" /\ air' = air
                                  /\ zdp' = [zdp EXCEPT ![k].st = "cleared"]
    <3>1. PICK k \in DOMAIN zdp : /\ zdp[k].st # "confirmed" /\ air' = air
                                 /\ zdp' = [zdp EXCEPT ![k].st = "cleared"]
      BY <2>3
    <3>2. ZdpWell([zdp EXCEPT ![k].st = "cleared"])
      BY <3>1, ClearWell DEF FetchWell
    <3> QED BY <3>1, <3>2 DEF FetchWell
  <2> QED BY <2>1, <2>2, <2>3 DEF zombieTick
<1> QED BY <1>1 DEF zombieTick, FetchWell, NodesWell

\* Time passes for an entry of the fast discover list.
LEMMA FastIsOldKeeps ==
  ASSUME FetchWell, NEW k \in DOMAIN fast, FastIsOld(k)
  PROVE  FetchWell'
<1> DEFINE e == [fast[k] EXCEPT !.old = TRUE]
<1>1. FastWell(fast) /\ fast[k] \in FastEntries
  BY ElementOfSeq, LenProperties DEF FetchWell, FastWell
<1>2. e \in FastEntries /\ e.node = fast[k].node /\ fast' = [fast EXCEPT ![k] = e]
  BY <1>1 DEF FastIsOld, FastEntries
<1> HIDE DEF e
<1>3. FastWell(fast')
  BY <1>1, <1>2, FastMarked
<1> QED BY <1>3 DEF FastIsOld, FetchWell, NodesWell, nodeVars

----------------------------------------------------------------------------
\* Nothing is fetched at first.
LEMMA FetchInitWell == FetchInit => FetchWell
<1> SUFFICES ASSUME FetchInit PROVE FetchWell
  OBVIOUS
<1>1. FastWell(<<>>)
  BY EmptySeq DEF FastWell
<1>2. ZdpWell(<<>>)
  <2>1. Sent(<<>>) = {} /\ Cardinality({}) = 0
    BY FS_EmptySet DEF Sent
  <2>2. <<>> \in Seq(ToSet(<<>>)) /\ DOMAIN <<>> = {}
    BY EmptySeq
  <2> DEFINE z == <<>>
  <2>3. z \in Seq(ToSet(z)) /\ DOMAIN z = {} /\ Cardinality(Sent(z)) = 0
    BY <2>1, <2>2
  <2> HIDE DEF z
  <2>4. ZdpWell(z)
    BY <2>3, FetchAssumption DEF ZdpWell
  <2> QED BY <2>4 DEF z
<1>3. 0 \in 0 .. Len(Order) /\ 0 \in 0 .. MaxRetrys
  BY FetchAssumption, LenProperties
<1> QED BY <1>1, <1>2, <1>3 DEF FetchInit, FetchWell, NodesWell, Items

\* No step breaks the invariant.
LEMMA FetchNextWell == FetchWell /\ [FetchNext]_fetchVars => FetchWell'
<1> SUFFICES ASSUME FetchWell, [FetchNext]_fetchVars PROVE FetchWell'
  OBVIOUS
<1>1. CASE fetchZdpTick
  BY <1>1, FetchTickKeeps
<1>2. CASE Receive
  BY <1>2, NodeDescRspKeeps, ActiveEpRspKeeps, SimpleDescRspKeeps DEF Receive
<1>3. CASE Confirm
  BY <1>3, ConfirmOkKeeps DEF Confirm
<1>4. CASE Answers
  BY <1>4, NodeAnswersKeeps DEF Answers
<1>5. CASE TimeOut
  BY <1>5, ExpireKeeps DEF TimeOut
<1>6. CASE WaitOver
  BY <1>6 DEF WaitOver, WaitEnds, FetchWell, NodesWell
<1>7. ASSUME NEW n \in Nodes, Announce(n) \/ MacPoll(n) \/ NotSeen(n) \/ zombieTick(n) PROVE FetchWell'
  <2>1. CASE NotSeen(n)
    BY <2>1 DEF NotSeen, FetchWell, NodesWell
  <2> QED BY <1>7, <2>1, AnnounceKeeps, MacPollKeeps, ZombieKeeps
<1>8. ASSUME NEW k \in DOMAIN zdp, ConfirmError(k) PROVE FetchWell'
  BY <1>8, ConfirmErrorKeeps
<1>9. ASSUME NEW k \in DOMAIN fast, FastIsOld(k) PROVE FetchWell'
  BY <1>9, FastIsOldKeeps
<1>10. CASE UNCHANGED fetchVars
  BY <1>10 DEF fetchVars, nodeVars, FetchWell, NodesWell
<1>11. CASE OthersQueued
  BY <1>11 DEF OthersQueued, FetchWell, NodesWell, nodeVars
<1> QED BY <1>1, <1>2, <1>3, <1>4, <1>5, <1>6, <1>7, <1>8, <1>9, <1>10, <1>11 DEF FetchNext

(* fetchZdpTick and the answers keep one entry for a node in              *)
(* m_fastDiscover, one request for a node that listens, and the limit of   *)
(* requests that are not confirmed, whatever is lost, late or refused.     *)
THEOREM FetchIsSound == FetchSpec => []FetchSafe
<1>1. FetchWell => FetchSafe
  <2> SUFFICES ASSUME FetchWell PROVE FetchSafe
    OBVIOUS
  <2>1. FetchTypeOK
    <3>1. \A k \in DOMAIN fast : fast[k] \in FastEntries
      BY ElementOfSeq, LenProperties DEF FetchWell, FastWell
    <3> QED BY <3>1 DEF FetchWell, NodesWell, FetchTypeOK, FastEntries
  <2>2. {k \in Unconfirmed : zdp[k].node \in RxOn} = Sent(zdp)
    BY DEF Unconfirmed, Sent
  <2> QED BY <2>1, <2>2 DEF FetchWell, FastWell, ZdpWell, FetchSafe
<1> QED BY <1>1, FetchInitWell, FetchNextWell, PTL DEF FetchSpec
=============================================================================
