-------------------------- MODULE MCQueueInstances --------------------------
(* What the small instances of CommandQueue are made of.                   *)

Status(net, conf, ind, free, config) ==
  [net |-> net, conf |-> conf, ind |-> ind, free |-> free, config |-> config,
   ipan |-> "NO_STATUS1", ipanInd |-> FALSE, ipanConf |-> FALSE]

MCArgs == {0, 1, 3, 5, 7, 8}
MCOps == {"STATUS", "VERSION", "FEATURE", "APS_DATA_REQ", "APS_DATA_CONFIRM",
          "APS_DATA_INDICATION", "ZDO_NET_CONFIRM", "INTERPAN_INDICATION",
          "INTERPAN_CONFIRM", "READ_PARAM", "WRITE_PARAM", "CHANGE_NET_STATE",
          "NWK_LEAVE_REQ", "START_INTERPAN_MODE", "SEND_INTERPAN_REQ"}

\* In network, with an APS slot free, or with a confirm and an indication to fetch.
ApsStatuses == {Status("ONLINE", FALSE, FALSE, TRUE, FALSE),
                Status("ONLINE", TRUE, TRUE, FALSE, FALSE)}
\* Joining succeeds or fails, the configuration changes.
NetStatuses == {Status("JOINING", FALSE, FALSE, FALSE, FALSE),
                Status("ONLINE", FALSE, FALSE, FALSE, TRUE),
                Status("OFFLINE", FALSE, FALSE, FALSE, FALSE)}

\* In network with nothing to fetch and no APS slot free.
QuietStatuses == {Status("ONLINE", FALSE, FALSE, FALSE, FALSE)}
\* Out of a network, with the inter-PAN state in a second byte.
IpanStatuses ==
  {[Status("OFFLINE", FALSE, FALSE, FALSE, FALSE) EXCEPT !.ipan = "NOT_CONNECTED"],
   [Status("OFFLINE", FALSE, FALSE, FALSE, FALSE) EXCEPT !.ipan = "CONNECTED", !.ipanInd = TRUE, !.ipanConf = TRUE]}
\* Out of a network: nothing but the status, version and features is asked for.
OfflineStatuses == {Status("OFFLINE", FALSE, FALSE, FALSE, FALSE)}
AllStatuses == ApsStatuses \cup NetStatuses \cup IpanStatuses
Never == {}
=============================================================================
