----------------------------- MODULE MCApsLive -----------------------------
(***************************************************************************)
(* Two instances of ApsRequests with fairness in one run; part says which  *)
(* one a behaviour is of.  Requests to one node; and two that wait or are  *)
(* under way at once, of image blocks, ordinary requests and broadcasts.   *)
(***************************************************************************)
EXTENDS Integers, Sequences, FiniteSets

CONSTANTS a, b, n1, all

VARIABLES part, queue, qaps, cmds, air, online, otau, grouped, told
apsVars == <<queue, qaps, cmds, air, online, otau, grouped, told>>
vars == <<part, apsVars>>

Ids == {a, b}

Q == INSTANCE ApsRequests WITH Nodes <- {n1}, Casts <- {}, Kinds <- {"ZDP"},
      Zombies <- {}, Sleepy <- {}, Unseen <- {}, PermitJoin <- FALSE, Delays <- {FALSE},
      MaxApsRequests <- 2, MaxApsBusyRequests <- 0, QApsLen <- 1, AirLimit <- 1

U == INSTANCE ApsRequests WITH Nodes <- {n1}, Casts <- {all}, Kinds <- {"OTA", "ZCL"},
      Zombies <- {}, Sleepy <- {}, Unseen <- {}, PermitJoin <- FALSE, Delays <- {FALSE},
      MaxApsRequests <- 1, MaxApsBusyRequests <- 0, QApsLen <- 1, AirLimit <- 0

ApsInit == \/ part = "queue"  /\ Q!Init
           \/ part = "update" /\ U!Init
ApsNext == /\ UNCHANGED part
           /\ \/ part = "queue"  /\ Q!Next
              \/ part = "update" /\ U!Next

\* The fairness of ApsRequests.
ApsFair ==
  /\ WF_apsVars(part = "queue" /\ Q!SendNext) /\ WF_apsVars(part = "update" /\ U!SendNext)
  /\ WF_apsVars(part = "queue" /\ Q!QueNextApsDataRequest)
  /\ WF_apsVars(part = "update" /\ U!QueNextApsDataRequest)
  /\ WF_apsVars(Q!TimeoutTick) /\ WF_apsVars(Q!GroupDelayPasses)
  /\ \A id \in Ids : WF_apsVars(Q!TimeRunsOut(id)) /\ WF_apsVars(Q!DelayPasses(id))
ApsSpec == ApsInit /\ [][ApsNext]_vars /\ ApsFair

\* The properties of ApsRequests.
BusyIsTold  == \A id \in Ids : []<>Q!IsTold(id)
IdleIsSent  == \A id \in Ids : []<>(part = "queue" => Q!IsSent(id))
BlockIsSent == \A id \in Ids : []<>U!NoBlock(id)
============================================================================
