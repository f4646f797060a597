---------------------------- MODULE OutboxHistory ----------------------------
(***************************************************************************)
(* Outbox with a history variable that remembers which rows were claimed   *)
(* away from a claim that had run out, to say where duplicates come from.  *)
(***************************************************************************)
EXTENDS Outbox

VARIABLE takeovers

historyVars == <<vars, takeovers>>

TakenOver == {e \in Event : /\ status[e] = "processing" /\ e \in elapsed
                            /\ status'[e] = "processing"
                            /\ token'[e] \in Worker
                            /\ token'[e] # token[e]}

InitH == Init /\ takeovers = {}

NextH == Next /\ takeovers' = takeovers \cup TakenOver

SpecH == InitH /\ [][NextH]_historyVars

\* An event is in the stream twice only if an attempt was reported as failed
\* or its claim ran out; the claim tokens and SKIP LOCKED never let two runs
\* publish one row otherwise.
NoNeedlessDuplicate ==
  \A e \in Event : copies[e] > 1 => attempts[e] > 0 \/ e \in takeovers
=============================================================================
