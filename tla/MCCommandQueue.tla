--------------------------- MODULE MCCommandQueue ---------------------------
(* Small instances of CommandQueue.                                        *)
EXTENDS CommandQueue, MCQueueInstances

\* Polling alone: the firmware, the wire and the event loop, no host and no user.
LoopNext == \/ OpenSerial \/ OnDeviceConnected \/ LinkLost \/ TaskTimerFired \/ TimerEvent
            \/ Answer \/ StatusChange \/ LoseFrame \/ TimePasses
LoopSpec == Init /\ [][LoopNext]_Master
=============================================================================
