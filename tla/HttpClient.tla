----------------------------- MODULE HttpClient -----------------------------
(***************************************************************************)
(* One connection to the HTTP server, zmHttpClient: requests come in       *)
(* pieces, a header and perhaps content; each goes to a handler of a       *)
(* plugin, to a WebSocket server that takes the connection over, or is     *)
(* answered from a file.  A timer closes a connection that is silent.      *)
(* The limits of a header (more than 16 bytes, at most 8192) are left out: *)
(* its end is found as soon as it is there, however short or long it is.   *)
(*                                                                         *)
(* A request is [kind, heads, body]: heads pieces of header, body bytes of *)
(* content; its pieces are <<"h", n>>, the last of the header <<"e", n>>   *)
(* and <<"b", n>>, where n is its number.  The peer sends a request when   *)
(* the last was answered.                                                  *)
(***************************************************************************)
EXTENDS Integers, Sequences, SequencesExt, FiniteSets

CONSTANTS Requests,        \* the requests of a peer
          Handlers,        \* handlers of plugins, MaxHandlers at most
          MaxRequests      \* bound

\* A header has an end; a WebSocket handshake has no content.
ASSUME HttpAssumption ==
  /\ \A r \in Requests :
       r.heads \in Nat \ {0} /\ r.body \in Nat /\ (r.kind = "ws" => r.body = 0)
  /\ MaxRequests \in Nat

VARIABLES open, reading,   \* the socket; handleHttpRequest is connected to readyRead
          clientState,     \* m_clientState
          hdr,             \* the number of the request of m_hdr
          httpTimer, handlers, alive, toldGone,
          buf, unsent,     \* bytes in the socket, bytes the peer has yet to send
          reqs,            \* the requests so far
          answers          \* numbers of answered requests, 0 for one without its content

httpVars == <<open, reading, clientState, hdr, httpTimer, handlers, alive, toldGone, buf, unsent,
              reqs, answers>>

\* incomingConnection, registerClientHandler: every handler of the server is registered.
HttpInit ==
  /\ open = TRUE /\ reading = TRUE /\ clientState = "idle" /\ hdr = 0 /\ httpTimer = TRUE
  /\ handlers \in {h \in SUBSET Handlers : Cardinality(h) <= 2} /\ alive = handlers /\ toldGone = {}
  /\ buf = <<>> /\ unsent = <<>> /\ reqs = <<>> /\ answers = <<>>

Pieces(r, n) == [i \in 1 .. r.heads - 1 |-> <<"h", n>>] \o <<<<"e", n>>>> \o [i \in 1 .. r.body |-> <<"b", n>>]
Cur      == Len(reqs)
ByPlugin == {"rest", "upgrade", "ws"}      \* isHttpTarget of a handler

----------------------------------------------------------------------------
(* handleHttpRequest with the bytes b in the socket; a step names what is  *)
(* left, whether the socket stays open, and the request that is answered.  *)
HeaderEnd(b) == IF \E i \in DOMAIN b : b[i][1] = "e"
                THEN CHOOSE i \in DOMAIN b : b[i][1] = "e" /\ \A j \in 1 .. i - 1 : b[j][1] # "e" ELSE 0

CloseSocket(s) ==
  /\ open' = FALSE /\ httpTimer' = FALSE /\ clientState' = "idle" /\ buf' = <<>>
  /\ answers' = s /\ UNCHANGED <<hdr, reading>>
Wait(state, b, h) == /\ clientState' = state /\ buf' = b /\ hdr' = h /\ httpTimer' = TRUE
                     /\ UNCHANGED <<open, reading, answers>>

\* Mutant: content is handed on when some of it is there.
CompleteSome(r, b) == r.body = 0 \/ b # <<>>
Complete(r, b) == Len(b) >= r.body

\* The header is there: b is what follows it.
Serve(n, b) ==
  LET r    == reqs[n]
      body == {i \in DOMAIN b : b[i] = <<"b", n>>}
      done == Append(answers, IF Cardinality(body) = r.body THEN n ELSE 0)
  IN  IF r.kind = "ws"
      THEN \* the header stays in the socket for the WebSocket server
           \* if a handler takes it, else a file is sent
           /\ reading' = FALSE /\ httpTimer' = FALSE /\ clientState' = "idle" /\ hdr' = n
           /\ open' = (handlers # {}) /\ buf' = (IF handlers # {} THEN b ELSE <<>>)
           /\ answers' = done
      ELSE IF ~Complete(r, b) THEN Wait("content", b, n)
      ELSE IF r.kind \in ByPlugin /\ handlers # {}
      THEN /\ clientState' = "idle" /\ hdr' = n /\ httpTimer' = (r.kind # "upgrade")
           /\ buf' = SubSeq(b, r.body + 1, Len(b)) /\ answers' = done
           /\ UNCHANGED <<open, reading>>
      ELSE CloseSocket(done)                        \* handleHttpFileRequest

Skipped(b) == IF HeaderEnd(b) = 0 THEN b ELSE SubSeq(b, HeaderEnd(b) + 1, Len(b))
handleHttpRequest(b) ==
  IF clientState = "content" THEN Serve(hdr, b)
  ELSE IF reqs[Cur].kind = "tls" THEN CloseSocket(answers)
  ELSE IF HeaderEnd(b) = 0 THEN Wait("header", b, hdr)
  ELSE IF reqs[Cur].kind = "bad" THEN CloseSocket(Append(answers, Cur))
  ELSE Serve(Cur, IF reqs[Cur].kind = "ws" THEN b ELSE Skipped(b))

----------------------------------------------------------------------------
(* Peers, plugins and the timer.                                           *)
Request(r) ==
  /\ open /\ reading /\ unsent = <<>> /\ Len(answers) = Cur /\ Cur < MaxRequests
  /\ reqs' = Append(reqs, r) /\ unsent' = Pieces(r, Cur + 1)
  /\ UNCHANGED <<open, reading, clientState, hdr, httpTimer, handlers, alive, toldGone, buf, answers>>

\* The next k pieces arrive, in one read.
Arrive(k) ==
  /\ open /\ reading /\ k \in 1 .. Len(unsent)
  /\ unsent' = SubSeq(unsent, k + 1, Len(unsent))
  /\ handleHttpRequest(buf \o SubSeq(unsent, 1, k))
  /\ UNCHANGED <<handlers, alive, toldGone, reqs>>

timeout ==
  /\ httpTimer /\ httpTimer' = FALSE /\ open' = FALSE /\ clientState' = "idle"
  /\ UNCHANGED <<reading, hdr, handlers, alive, toldGone, buf, unsent, reqs, answers>>

PeerCloses ==
  /\ open /\ open' = FALSE
  /\ UNCHANGED <<reading, clientState, hdr, httpTimer, handlers, alive, toldGone, buf, unsent, reqs, answers>>

\* disconnected(): every handler that is left hears clientGone; the socket is deleted.
detachHandlers ==
  /\ ~open /\ (handlers # {} \/ httpTimer)
  /\ toldGone' = toldGone \cup handlers /\ handlers' = {} /\ httpTimer' = FALSE
  /\ UNCHANGED <<open, reading, clientState, hdr, alive, buf, unsent, reqs, answers>>

\* A plugin ends: handlerDeleted takes all handlers from the client.
Remaining(h) == {}

HandlerDestroyed(h) ==
  /\ h \in alive /\ alive' = alive \ {h} /\ handlers' = Remaining(h)
  /\ UNCHANGED <<open, reading, clientState, hdr, httpTimer, toldGone, buf, unsent, reqs, answers>>

HttpNext ==
  \/ timeout \/ PeerCloses \/ detachHandlers
  \/ \E r \in Requests : Request(r)
  \/ \E k \in 1 .. Len(unsent) : Arrive(k)
  \/ \E h \in Handlers : HandlerDestroyed(h)

HttpSpec == HttpInit /\ [][HttpNext]_httpVars

----------------------------------------------------------------------------
HttpTypeOK ==
  /\ clientState \in {"idle", "header", "content"} /\ handlers \subseteq Handlers /\ alive \subseteq Handlers
  /\ hdr \in 0 .. MaxRequests

(* However a request is cut into pieces, it is answered once, in turn and  *)
(* with all of its content, and nothing of it is left that would be taken  *)
(* for the next header.  A plugin that ended is not called.                *)
HttpSafe ==
  /\ HttpTypeOK
  /\ \A i \in DOMAIN answers : answers[i] = i
  /\ open /\ reading /\ clientState = "idle" => buf = <<>>
  /\ handlers \subseteq alive
=============================================================================
