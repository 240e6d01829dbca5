----------------------------- MODULE ApsService -----------------------------
(***************************************************************************)
(* What zmController promises the users of its APS requests: an accepted   *)
(* request stays pending until a confirm with its id was emitted, and no   *)
(* other request is taken under that id meanwhile.  How many confirms come *)
(* is left open: the device may confirm what was given up already.         *)
(***************************************************************************)
CONSTANT Ids

VARIABLES pending,  \* ids of accepted requests that are not forgotten yet
          told      \* ids a confirm was emitted for since they were accepted

vars == <<pending, told>>

Init == pending = {} /\ told = {}

Accept(id) ==
  /\ id \notin pending
  /\ pending' = pending \cup {id}
  /\ told' = told \ {id}

Tell(S) ==
  /\ S \subseteq pending
  /\ told' = told \cup S
  /\ pending' = pending

Forget(S) ==
  /\ S \subseteq pending \cap told
  /\ pending' = pending \ S
  /\ told' = told

\* The device confirmed that the request failed.
TellAndForget(id) ==
  /\ id \in pending
  /\ told' = told \cup {id}
  /\ pending' = pending \ {id}

Next ==
  \/ \E id \in Ids : Accept(id) \/ TellAndForget(id)
  \/ \E S \in SUBSET Ids : Tell(S) \/ Forget(S)

Spec == Init /\ [][Next]_vars
=============================================================================
