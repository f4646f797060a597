--------------------------- MODULE EventBusHistory ---------------------------
(***************************************************************************)
(* EventBus with history variables that remember which entries were left   *)
(* pending for COLLAB_EVENTS_PENDING_IDLE_MS, and for which entries the    *)
(* handlers have run, to say when they run again.                          *)
(***************************************************************************)
EXTENDS EventBus

VARIABLES
  slow, \* entries that have ever been idle for so long
  ran   \* entries whose handlers have run, whether they threw or not

historyVars == <<vars, slow, ran>>

\* The entries whose handlers run in this step.
Runs == {Current(c) : c \in {d \in Consumer : pc[d] = "dispatch" /\ pc'[d] \in {"ack", "failed"}}}

InitH == Init /\ slow = {} /\ ran = {}

NextH ==
  /\ Next
  /\ slow' = slow \cup idle'
  /\ ran' = ran \cup Runs

SpecH == InitH /\ [][NextH]_historyVars

\* The handlers run for an entry a second time only when it had been left pending for
\* COLLAB_EVENTS_PENDING_IDLE_MS: neither the other processes' scans for abandoned
\* entries, nor a process that starts again with part of its batch unconfirmed, nor one
\* whose handlers have just failed hands an entry out while somebody is busy with it.
NoNeedlessRetry == [][Runs \cap ran \subseteq slow]_historyVars
=============================================================================
