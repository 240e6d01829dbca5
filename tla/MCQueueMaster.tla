--------------------------- MODULE MCQueueMaster ---------------------------
(***************************************************************************)
(* Three instances of CommandQueue in one run; part says which one a       *)
(* behaviour is of.  APS requests, whose ids go through the second queue;  *)
(* commands of the host that read, write and change the network; inter-PAN *)
(* requests and a user who disconnects.  The constants of this module are  *)
(* what the three have together: its properties are stated for them.  The  *)
(* user of the third one is left out of them: it is never in network, so   *)
(* the controller cannot miss that it is.                                  *)
(***************************************************************************)
EXTENDS CommandQueue, MCQueueInstances

VARIABLE part

A == INSTANCE CommandQueue WITH HostOps <- {}, UserDisconnects <- FALSE, HostLimit <- 0,
      Statuses <- ApsStatuses, QApsLen <- 1

H == INSTANCE CommandQueue WITH ApsIds <- {},
      HostOps <- {"READ_PARAM", "WRITE_PARAM", "NWK_LEAVE_REQ"},
      UserDisconnects <- FALSE, Statuses <- NetStatuses, MaxCommandFails <- 1, QApsLen <- 0

I == INSTANCE CommandQueue WITH ApsIds <- {},
      HostOps <- {"START_INTERPAN_MODE", "SEND_INTERPAN_REQ"},
      UserDisconnects <- TRUE, Statuses <- IpanStatuses, MaxCommandFails <- 1, QApsLen <- 0

MasterInit == part \in {"aps", "host", "ipan"} /\ Init
MasterNext == /\ UNCHANGED part
              /\ \/ part = "aps"  /\ A!Next
                 \/ part = "host" /\ H!Next
                 \/ part = "ipan" /\ I!Next
MasterSpec == MasterInit /\ [][MasterNext]_<<part, Master>>
=============================================================================
