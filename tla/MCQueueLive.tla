---------------------------- MODULE MCQueueLive ----------------------------
(***************************************************************************)
(* The ring of commands under any calls, and zmMaster that polls a device  *)
(* out of a network, both with fairness, in one run; part says which one a *)
(* behaviour is of, and the other keeps its initial state.                 *)
(***************************************************************************)
EXTENDS RingMachine, MCQueueInstances

VARIABLES part, Master

Q == INSTANCE CommandQueue WITH Ops <- MCOps, Args <- MCArgs, ApsIds <- {},
      ParamA <- 5, ParamTC <- 7, ParamKey <- 8, HostOps <- {}, UserDisconnects <- FALSE,
      HostLimit <- 0, Statuses <- OfflineStatuses, Unsolicited <- Never, Durations <- {1000},
      MaxCommandFails <- 1, QApsLen <- 0, WireLen <- 1

LiveInit == part \in {"ring", "polling"} /\ Init /\ Q!Init
LiveNext == /\ UNCHANGED part
            /\ \/ part = "ring"    /\ Next   /\ UNCHANGED Master
               \/ part = "polling" /\ Q!Next /\ UNCHANGED vars

\* The fairness of RingMachine and of CommandQueue.
LiveFair ==
  /\ WF_vars(part = "ring" /\ SendNext) /\ \A s \in Slots : SF_vars(part = "ring" /\ Leave(s))
  /\ WF_Master(part = "polling" /\ Q!TaskTimerFired) /\ WF_Master(part = "polling" /\ Q!TimerEvent)
  /\ WF_Master(part = "polling" /\ (Q!Answer \/ Q!LoseFrame))
  /\ WF_Master(part = "polling" /\ Q!Pass(1000))
LiveSpec == LiveInit /\ [][LiveNext]_<<part, vars, Master>> /\ LiveFair

\* The properties of CommandQueue; those of RingMachine have their own names.
EverySendComes == Q!EverySendComes
StatusIsAsked  == Q!StatusIsAsked
============================================================================
