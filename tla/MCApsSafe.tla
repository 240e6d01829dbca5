----------------------------- MODULE MCApsSafe -----------------------------
(***************************************************************************)
(* Three instances of ApsRequests in one run; part says which one a        *)
(* behaviour is of.  Requests with a delay, several of which are on the    *)
(* air; a sleeping node, to which more requests wait than it is sent at    *)
(* once, and which is silent; and one with fewer requests that answers.    *)
(* The constants of this module are what the three have together: its      *)
(* properties are stated for them.                                         *)
(***************************************************************************)
EXTENDS ApsRequests, TLC

CONSTANTS c, d, e, n1, n2

VARIABLE part

T == INSTANCE ApsRequests WITH Ids <- {c, d}, Nodes <- {n2}, Kinds <- {"ZDP"}, Sleepy <- {},
      Delays <- {TRUE}, MaxApsRequests <- 2, MaxApsBusyRequests <- 1, AirLimit <- 2

Plain == {"DEFAULT_RSP", "ZCL"}
L == INSTANCE ApsRequests WITH Nodes <- {n1}, Kinds <- Plain, Delays <- {FALSE},
      MaxApsRequests <- 0, MaxApsBusyRequests <- 4, QApsLen <- 1, AirLimit <- 0

C == INSTANCE ApsRequests WITH Ids <- {c, d}, Nodes <- {n1}, Kinds <- Plain, Delays <- {FALSE},
      MaxApsRequests <- 0, MaxApsBusyRequests <- 4, QApsLen <- 1, AirLimit <- 1

ApsInit == part \in {"told", "limits", "confirms"} /\ Init
ApsNext == /\ UNCHANGED part
           /\ \/ part = "told"     /\ T!Next
              \/ part = "limits"   /\ L!Next
              \/ part = "confirms" /\ C!Next
ApsSpec == ApsInit /\ [][ApsNext]_<<part, vars>>

\* Ids are only compared.
Symmetry == Permutations({c, d}) \cup Permutations({c, d, e})
\* Who was told is followed in the first instance only.
View == <<part, queue, qaps, cmds, air, online, otau, grouped, IF part = "told" THEN told ELSE {}>>
=============================================================================
