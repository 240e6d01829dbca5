--------------------------- MODULE MCAutoConnect ---------------------------
(***************************************************************************)
(* Two serial devices, of which the first can be opened and never answers. *)
(***************************************************************************)
EXTENDS AutoConnect

MCDevices == <<"a", "b">>

\* MaxCommandFails commands take longer to fail than nine ticks: meanwhile the window has
\* asked for the state, and messages do not lie about.
Silent == ForceReconnect /\ winConn /\ mq = <<>>
MCNext == AutoNext /\ (ForceReconnect => Silent)

\* The timers, the delivery of messages and the port; the user need not do anything.
MCFair ==
  /\ WF_autoVars(timerEvent) /\ WF_autoVars(Deliver) /\ WF_autoVars(ComConnected)
  /\ WF_autoVars(FirstPacket) /\ WF_autoVars(Silent /\ comDev \notin Alive)
  /\ WF_autoVars(PortError) /\ WF_autoVars(UpdateEnds) /\ WF_autoVars(UpdateOver)
MCSpec == AutoInit /\ [][MCNext]_autoVars /\ MCFair
============================================================================
