------------------------------ MODULE MCParts -------------------------------
(***************************************************************************)
(* Components that share no state, checked in one run: part says which one *)
(* a behaviour is of.  The others keep an initial state of theirs.         *)
(***************************************************************************)
EXTENDS NodeStore, SerialLink, Framing, HttpClient, Links, AutoConnect, NodeFetch, VfsModel, TLC

VARIABLE part    \* the component

MCNoPos == -1    \* what NodeStore has for no position

\* Framing: SLIP's own bytes in sequence numbers, data and checksums.
Command(c, s, d) == [cmd |-> c, seq |-> s, status |-> 0, data |-> d]
MCCommands == {Command(2, 7, <<>>), Command(2, 0, <<192, 219>>), Command(7, 1, <<36, 0>>),
               Command(8, 219, <<220>>), Command(23, 36, <<>>), Command(1, 1, <<>>)}
MCLayout == 0 :> -1 @@ 1 :> -1 @@ 2 :> -2 @@ 7 :> 3 @@ 8 :> 1 @@ 23 :> 0

\* NodeFetch: a node that listens, requests of which are refused, lost or answered late; and
\* one that sleeps.  One of them at a time is heard of.
MCOrder     == <<"a", "s">>
MCEndpoints == "a" :> {1, 2} @@ "s" :> {1}
MCReqIds    == [IeeeAddr |-> 1, NodeDescriptor |-> 3, ActiveEndpoints |-> 6, SimpleDescriptor |-> 7]
Listens == FetchNext /\ ~seen'["s"] /\ retries'["s"] = retries["s"]
Sleeps  == FetchNext /\ ~seen'["a"] /\ faults' = 0

\* HttpClient: what a plugin, a file and a WebSocket server get, what nobody can read,
\* and a header that is an upgrade.
Http(k, h, b) == [kind |-> k, heads |-> h, body |-> b]
MCRequests == {Http("rest", 2, 2), Http("rest", 1, 0), Http("file", 1, 0), Http("ws", 2, 0),
               Http("bad", 1, 0), Http("tls", 1, 0), Http("upgrade", 1, 1)}

MCBound   == {<<1, 2>>, <<3, 1>>}    \* the bindings of Links
MCDevices == <<"a", "b">>            \* the devices of AutoConnect
MCNodeList == <<"a">>                \* the nodes VfsModel begins with

StoreWaits == Init /\ rows = {}
NoSerialLink == LinkInit
NoFraming == FrameInit
NoNodeFetch == FetchInit
HttpWaits == HttpInit /\ handlers = {}
NoLinks == DrawInit
NoVfsModel == VfsInit
NoAutoConnect == AutoInit

PartsInit ==
  \/ /\ part = "link" /\ LinkInit /\ NoFraming /\ NoNodeFetch /\ HttpWaits
     /\ NoLinks /\ NoVfsModel /\ NoAutoConnect /\ StoreWaits
  \/ /\ part = "frame" /\ FrameInit /\ NoSerialLink /\ NoNodeFetch /\ HttpWaits
     /\ NoLinks /\ NoVfsModel /\ NoAutoConnect /\ StoreWaits
  \/ /\ part = "fetch" /\ FetchInit /\ NoSerialLink /\ NoFraming /\ HttpWaits
     /\ NoLinks /\ NoVfsModel /\ NoAutoConnect /\ StoreWaits
  \/ /\ part = "sleepy" /\ FetchInit /\ NoSerialLink /\ NoFraming /\ HttpWaits
     /\ NoLinks /\ NoVfsModel /\ NoAutoConnect /\ StoreWaits
  \/ /\ part = "http" /\ HttpInit /\ NoSerialLink /\ NoFraming /\ NoNodeFetch
     /\ NoLinks /\ NoVfsModel /\ NoAutoConnect /\ StoreWaits
  \/ /\ part = "links" /\ DrawInit /\ NoSerialLink /\ NoFraming /\ NoNodeFetch
     /\ HttpWaits /\ NoVfsModel /\ NoAutoConnect /\ StoreWaits
  \/ /\ part = "vfs" /\ VfsInit /\ NoSerialLink /\ NoFraming /\ NoNodeFetch
     /\ HttpWaits /\ NoLinks /\ NoAutoConnect /\ StoreWaits
  \/ /\ part = "store" /\ Init /\ NoSerialLink /\ NoFraming /\ NoNodeFetch
     /\ HttpWaits /\ NoLinks /\ NoVfsModel /\ NoAutoConnect
  \/ /\ part = "window" /\ AutoInit /\ NoSerialLink /\ NoFraming /\ NoNodeFetch
     /\ HttpWaits /\ NoLinks /\ NoVfsModel /\ StoreWaits
PartsNext ==
  /\ UNCHANGED part
  /\ \/ /\ part = "link" /\ LinkNext
        /\ UNCHANGED <<frameVars, fetchVars, httpVars, drawVars, vfsVars, storeVars, autoVars>>
     \/ /\ part = "frame" /\ FrameNext
        /\ UNCHANGED <<linkVars, fetchVars, httpVars, drawVars, vfsVars, storeVars, autoVars>>
     \/ /\ part = "fetch" /\ Listens
        /\ UNCHANGED <<linkVars, frameVars, httpVars, drawVars, vfsVars, storeVars, autoVars>>
     \/ /\ part = "sleepy" /\ Sleeps
        /\ UNCHANGED <<linkVars, frameVars, httpVars, drawVars, vfsVars, storeVars, autoVars>>
     \/ /\ part = "http" /\ HttpNext
        /\ UNCHANGED <<linkVars, frameVars, fetchVars, drawVars, vfsVars, storeVars, autoVars>>
     \/ /\ part = "links" /\ DrawNext
        /\ UNCHANGED <<linkVars, frameVars, fetchVars, httpVars, vfsVars, storeVars, autoVars>>
     \/ /\ part = "vfs" /\ VfsNext
        /\ UNCHANGED <<linkVars, frameVars, fetchVars, httpVars, drawVars, storeVars, autoVars>>
     \/ /\ part = "store" /\ Next
        /\ UNCHANGED <<linkVars, frameVars, fetchVars, httpVars, drawVars, vfsVars, autoVars>>
     \/ /\ part = "window" /\ AutoNext
        /\ UNCHANGED <<linkVars, frameVars, fetchVars, httpVars, drawVars, vfsVars, storeVars>>
partsVars == <<part, linkVars, frameVars, fetchVars, httpVars, drawVars,
               vfsVars, storeVars, autoVars>>
PartsSpec == PartsInit /\ [][PartsNext]_partsVars
=============================================================================
