------------------------------- MODULE Outbox -------------------------------
(***************************************************************************)
(* The transactional outbox of crm-collab: the table collab_outbox, the    *)
(* transactions that insert into it, and the collab worker, whose tick     *)
(* publishes due rows to the Redis stream and then does maintenance        *)
(* (purge of published rows, blocking of tasks past the approval SLA).     *)
(*                                                                         *)
(*   src/jobs/run-collab-outbox.ts          runCollabOutbox                *)
(*   src/modules/collab/events/collab-outbox.repository.ts                 *)
(*   src/jobs/prune-collab-outbox.ts        prunePublishedCollabOutbox     *)
(*   src/jobs/check-approval-sla.ts         checkClientApprovalSla         *)
(*   src/workers/collab.worker.ts           tick, runMaintenanceTasks      *)
(*                                                                         *)
(* Every SQL statement is one step; between two statements of a tick every *)
(* other process may run.  Times are abstracted to what the queries ask    *)
(* of them: "has the timer of this row run out" (see elapsed).             *)
(***************************************************************************)
EXTENDS Integers, FiniteSets

CONSTANTS
  NumEvents,  \* rows ever inserted; a row's number is its rank in created_at
  SlaEvent,   \* the rows inserted by the SLA job, the others by HTTP requests
  Worker,     \* concurrent runs of tick (one or more worker processes)
  Batch,      \* COLLAB_OUTBOX_BATCH_SIZE, the LIMIT of the claim
  PruneBatch, \* batchSize of the purge
  PowLimit,   \* attempts at which POWER(2, attempts) overflows (1024)
  CopyCap,    \* stream entries of one event are counted up to this bound
  NoToken,    \* claim_token IS NULL
  Orphan      \* a claim_token whose run is over

Event == 1 .. NumEvents

ASSUME OutboxAssumption ==
  /\ NumEvents \in Nat
  /\ SlaEvent \subseteq Event
  /\ Batch \in Nat \ {0}
  /\ PruneBatch \in Nat \ {0}
  /\ PowLimit \in Nat
  /\ CopyCap \in Nat \ {0}
  /\ NoToken \notin Worker
  /\ Orphan \notin Worker
  /\ NoToken # Orphan

VARIABLES
  business,   \* the events whose domain mutation has committed
  status,     \* collab_outbox.status; "absent": no row yet, "pruned": deleted
  token,      \* claim_token: a live run, Orphan or NoToken
  attempts,   \* attempts
  elapsed,    \* rows whose timer ran out: available_at of a failed row, the
              \* claim timeout of a processing row, the retention of a
              \* published row
  copies,     \* entries of the stream with this event, CopyCap meaning many
  phase,      \* where each run of tick is
  batch,      \* the rows the run has claimed and not yet published
  toPublish,  \* publishedIds not yet confirmed with markCollabOutboxPublished
  toFail,     \* rows for which a markCollabOutboxFailed is in flight
  raised,     \* a statement of the run threw: the tick ends after the marks
  slaQueue    \* tasks the SLA job blocked and has not yet emitted an event for

rowVars == <<status, token, attempts, elapsed>>
runVars == <<phase, batch, toPublish, toFail, raised, slaQueue>>
vars == <<business, rowVars, copies, runVars>>

Status == {"absent", "pending", "processing", "published", "failed", "pruned"}
Phase == {"idle", "claimed", "marking", "maintenance", "sla"}

-----------------------------------------------------------------------------

Init ==
  /\ business = {}
  /\ status = [e \in Event |-> "absent"]
  /\ token = [e \in Event |-> NoToken]
  /\ attempts = [e \in Event |-> 0]
  /\ elapsed = {}
  /\ copies = [e \in Event |-> 0]
  /\ phase = [w \in Worker |-> "idle"]
  /\ batch = [w \in Worker |-> {}]
  /\ toPublish = [w \in Worker |-> {}]
  /\ toFail = [w \in Worker |-> {}]
  /\ raised = [w \in Worker |-> FALSE]
  /\ slaQueue = [w \in Worker |-> {}]

-----------------------------------------------------------------------------
(* Producers and time.                                                     *)

\* createCollabOutboxEvent: the INSERT, status and attempts by their defaults.
CreateOutboxEvent(e) == status' = [status EXCEPT ![e] = "pending"]

\* Faulty variant: emit forgets tx, so the row stays when the caller's
\* transaction rolls back.
EmitOutsideTx(e) ==
  /\ e \notin SlaEvent
  /\ status[e] = "absent"
  /\ business' \in {business, business \cup {e}}
  /\ CreateOutboxEvent(e)
  /\ UNCHANGED <<token, attempts, elapsed, copies, runVars>>

\* emit(..., tx): the row is inserted by the caller's transaction, so the
\* domain mutation and the row commit together or not at all.
EmitInTx(e) ==
  /\ e \notin SlaEvent
  /\ e \notin business
  /\ business' = business \cup {e}
  /\ CreateOutboxEvent(e)
  /\ UNCHANGED <<token, attempts, elapsed, copies, runVars>>

\* Time passes: the backoff of a failed row, the 60 s of a claim or the
\* retention of a published row is over.
TimerElapses(e) ==
  /\ status[e] \in {"failed", "processing", "published"}
  /\ e \notin elapsed
  /\ elapsed' = elapsed \cup {e}
  /\ UNCHANGED <<business, status, token, attempts, copies, runVars>>

-----------------------------------------------------------------------------
(* runCollabOutbox.                                                        *)

\* Faulty variant: the claim forgets the timeout of processing rows.
CandidatesAnyClaim ==
  {e \in Event : \/ status[e] \in {"pending", "processing"}
                 \/ status[e] = "failed" /\ e \in elapsed}

\* Faulty variant: the claim never takes over an abandoned row.
CandidatesNoTakeover ==
  {e \in Event : \/ status[e] = "pending"
                 \/ status[e] = "failed" /\ e \in elapsed}

\* The WHERE of claimPendingCollabOutboxEvents.
Candidates ==
  {e \in Event : \/ status[e] = "pending"
                 \/ status[e] \in {"failed", "processing"} /\ e \in elapsed}

\* ORDER BY created_at ASC LIMIT n.
Oldest(S, n) == {e \in S : Cardinality({f \in S : f < e}) < n}

\* claimPendingCollabOutboxEvents with the run's fresh claimToken.
Claim(w) ==
  /\ phase[w] = "idle"
  /\ Candidates # {}
  /\ LET S == Oldest(Candidates, Batch) IN
       /\ status' = [e \in Event |-> IF e \in S THEN "processing" ELSE status[e]]
       /\ token' = [e \in Event |-> IF e \in S THEN w ELSE token[e]]
       /\ elapsed' = elapsed \ S
       /\ batch' = [batch EXCEPT ![w] = S]
  /\ phase' = [phase EXCEPT ![w] = "claimed"]
  /\ UNCHANGED <<business, attempts, copies, toPublish, toFail, raised, slaQueue>>

\* No Redis connection, or no candidate: the tick goes on to maintenance.
NothingToPublish(w) ==
  /\ phase[w] = "idle"
  /\ phase' = [phase EXCEPT ![w] = "maintenance"]
  /\ UNCHANGED <<business, rowVars, copies, batch, toPublish, toFail,
                 raised, slaQueue>>

\* Faulty variant: a pipeline without rejection counts as published whole.
PublishUnchecked(w, added, acked) ==
  /\ phase[w] = "claimed"
  /\ acked \subseteq added
  /\ copies' = [e \in Event |->
                  IF e \in added /\ copies[e] < CopyCap THEN copies[e] + 1 ELSE copies[e]]
  /\ toPublish' = [toPublish EXCEPT ![w] = batch[w]]
  /\ batch' = [batch EXCEPT ![w] = {}]
  /\ phase' = [phase EXCEPT ![w] = "marking"]
  /\ UNCHANGED <<business, rowVars, toFail, raised, slaQueue>>

\* The pipeline of XADDs.  "added" reached Redis; "acked" is what exec reports:
\* a rejected exec, an error or a missing result may hide an executed XADD.
Publish(w, added, acked) ==
  /\ phase[w] = "claimed"
  /\ acked \subseteq added
  /\ copies' = [e \in Event |->
                  IF e \in added /\ copies[e] < CopyCap THEN copies[e] + 1 ELSE copies[e]]
  /\ toPublish' = [toPublish EXCEPT ![w] = acked]
  /\ toFail' = [toFail EXCEPT ![w] = batch[w] \ acked]
  /\ batch' = [batch EXCEPT ![w] = {}]
  /\ phase' = [phase EXCEPT ![w] = "marking"]
  /\ UNCHANGED <<business, rowVars, raised, slaQueue>>

\* Faulty variants: the marks check only the status, or only the id.
HeldByAnyone(w, e) == status[e] = "processing"

HeldById(w, e) == status[e] # "absent"

\* The WHERE of both marks: status = 'processing' AND claim_token = mine.
Held(w, e) == status[e] = "processing" /\ token[e] = w

\* markCollabOutboxPublished(publishedIds, claimToken): one UPDATE for all.
MarkPublished(w) ==
  /\ phase[w] = "marking"
  /\ toPublish[w] # {}
  /\ LET S == {e \in toPublish[w] : Held(w, e)} IN
       /\ status' = [e \in Event |-> IF e \in S THEN "published" ELSE status[e]]
       /\ token' = [e \in Event |-> IF e \in S THEN NoToken ELSE token[e]]
       /\ elapsed' = elapsed \ S
  /\ toPublish' = [toPublish EXCEPT ![w] = {}]
  /\ UNCHANGED <<business, attempts, copies, phase, batch, toFail,
                 raised, slaQueue>>

\* Faulty variant: attempts is counted although no backoff can be computed.
MarkFailedUnbounded(w, e) ==
  /\ phase[w] = "marking"
  /\ e \in toFail[w]
  /\ Held(w, e)
  /\ status' = [status EXCEPT ![e] = "failed"]
  /\ token' = [token EXCEPT ![e] = NoToken]
  /\ attempts' = [attempts EXCEPT ![e] = @ + 1]
  /\ elapsed' = elapsed \ {e}
  /\ toFail' = [toFail EXCEPT ![w] = @ \ {e}]
  /\ UNCHANGED <<business, copies, phase, batch, toPublish, raised,
                 slaQueue>>

\* markCollabOutboxFailed(id, claimToken): the row waits for its backoff
\* LEAST(300, 5 * POWER(2, attempts)) seconds.
MarkFailed(w, e) ==
  /\ phase[w] = "marking"
  /\ e \in toFail[w]
  /\ ~(Held(w, e) /\ attempts[e] = PowLimit)
  /\ IF Held(w, e)
       THEN /\ status' = [status EXCEPT ![e] = "failed"]
            /\ token' = [token EXCEPT ![e] = NoToken]
            /\ attempts' = [attempts EXCEPT ![e] = @ + 1]
            /\ elapsed' = elapsed \ {e}
       ELSE UNCHANGED rowVars
  /\ toFail' = [toFail EXCEPT ![w] = @ \ {e}]
  /\ UNCHANGED <<business, copies, phase, batch, toPublish, raised,
                 slaQueue>>

\* A mark rejects: the database fails, or POWER(2, attempts) is out of range
\* (then always).  The row keeps the claim, the other marks go on.
MarkFailedRaises(w, e) ==
  /\ phase[w] = "marking"
  /\ e \in toFail[w]
  /\ toFail' = [toFail EXCEPT ![w] = @ \ {e}]
  /\ raised' = [raised EXCEPT ![w] = TRUE]
  /\ UNCHANGED <<business, rowVars, copies, phase, batch, toPublish,
                 slaQueue>>

MarkPublishedRaises(w) ==
  /\ phase[w] = "marking"
  /\ toPublish[w] # {}
  /\ toPublish' = [toPublish EXCEPT ![w] = {}]
  /\ raised' = [raised EXCEPT ![w] = TRUE]
  /\ UNCHANGED <<business, rowVars, copies, phase, batch, toFail,
                 slaQueue>>

\* The claim token of a run that is over is known to nobody any more.
Forget(w) ==
  token' = [e \in Event |-> IF token[e] = w THEN Orphan ELSE token[e]]

\* All marks are settled.  A rejected one makes runCollabOutbox throw, and
\* tick's catch skips the maintenance.
EndPublishing(w) ==
  /\ phase[w] = "marking"
  /\ toPublish[w] = {} /\ toFail[w] = {}
  /\ phase' = [phase EXCEPT ![w] = IF raised[w] THEN "idle" ELSE "maintenance"]
  /\ raised' = [raised EXCEPT ![w] = FALSE]
  /\ Forget(w)
  /\ UNCHANGED <<business, status, attempts, elapsed, copies, batch,
                 toPublish, toFail, slaQueue>>

-----------------------------------------------------------------------------
(* runMaintenanceTasks.                                                    *)

\* One micro-batch of prunePublishedCollabOutbox.
Prune(w, S) ==
  /\ phase[w] = "maintenance"
  /\ S # {} /\ Cardinality(S) <= PruneBatch
  /\ S \subseteq {e \in Event : status[e] = "published" /\ e \in elapsed}
  /\ status' = [e \in Event |-> IF e \in S THEN "pruned" ELSE status[e]]
  /\ elapsed' = elapsed \ S
  /\ UNCHANGED <<business, token, attempts, copies, runVars>>

\* checkClientApprovalSla: one UPDATE blocks the overdue tasks S and commits;
\* their events are emitted afterwards, without a transaction.
SlaBlock(w, S) ==
  /\ phase[w] = "maintenance"
  /\ S \subseteq SlaEvent \ business
  /\ business' = business \cup S
  /\ slaQueue' = [slaQueue EXCEPT ![w] = S]
  /\ phase' = [phase EXCEPT ![w] = "sla"]
  /\ UNCHANGED <<rowVars, copies, batch, toPublish, toFail, raised>>

\* emit(...) without tx: an INSERT of its own.
SlaEmit(w, e) ==
  /\ e \in slaQueue[w]
  /\ CreateOutboxEvent(e)
  /\ slaQueue' = [slaQueue EXCEPT ![w] = @ \ {e}]
  /\ UNCHANGED <<business, token, attempts, elapsed, copies, phase,
                 batch, toPublish, toFail, raised>>

\* The INSERT fails: the error is logged and the loop goes on.
SlaEmitFails(w, e) ==
  /\ e \in slaQueue[w]
  /\ slaQueue' = [slaQueue EXCEPT ![w] = @ \ {e}]
  /\ UNCHANGED <<business, rowVars, copies, phase, batch, toPublish,
                 toFail, raised>>

\* The tick is over: the tasks not due are skipped, and so are the ones after
\* a task that throws.
EndTick(w) ==
  /\ phase[w] \in {"maintenance", "sla"}
  /\ slaQueue[w] = {}
  /\ phase' = [phase EXCEPT ![w] = "idle"]
  /\ UNCHANGED <<business, rowVars, copies, batch, toPublish, toFail,
                 raised, slaQueue>>

\* The process dies, or shutdown closes the pool under a tick that outlives
\* its five seconds.  Whatever was in memory is gone.
Crash(w) ==
  /\ phase[w] # "idle"
  /\ phase' = [phase EXCEPT ![w] = "idle"]
  /\ batch' = [batch EXCEPT ![w] = {}]
  /\ toPublish' = [toPublish EXCEPT ![w] = {}]
  /\ toFail' = [toFail EXCEPT ![w] = {}]
  /\ raised' = [raised EXCEPT ![w] = FALSE]
  /\ slaQueue' = [slaQueue EXCEPT ![w] = {}]
  /\ Forget(w)
  /\ UNCHANGED <<business, status, attempts, elapsed, copies>>

-----------------------------------------------------------------------------

PublishStep(w) ==
  \E added \in SUBSET batch[w] : \E acked \in SUBSET added : Publish(w, added, acked)

PruneStep(w) == \E S \in SUBSET Event : Prune(w, S)

SlaBlockStep(w) == \E S \in SUBSET SlaEvent : SlaBlock(w, S)

Tick(w) ==
  \/ Claim(w)
  \/ NothingToPublish(w)
  \/ PublishStep(w)
  \/ MarkPublished(w)
  \/ \E e \in Event : MarkFailed(w, e)
  \/ MarkPublishedRaises(w)
  \/ \E e \in Event : MarkFailedRaises(w, e)
  \/ EndPublishing(w)
  \/ PruneStep(w)
  \/ SlaBlockStep(w)
  \/ \E e \in Event : SlaEmit(w, e)
  \/ \E e \in Event : SlaEmitFails(w, e)
  \/ EndTick(w)
  \/ Crash(w)

Next ==
  \/ \E e \in Event : EmitInTx(e)
  \/ \E e \in Event : TimerElapses(e)
  \/ \E w \in Worker : Tick(w)

Spec == Init /\ [][Next]_vars

(***************************************************************************)
(* Fairness.  setInterval keeps starting ticks and every await of a tick   *)
(* settles.  Failures may be frequent but are not the only thing that ever *)
(* happens: a run that keeps claiming rows sometimes has Redis, gets all   *)
(* its XADDs acknowledged and its UPDATE done within the claim timeout.    *)
(* Producers, the SLA job, the purge and crashes need not happen at all.   *)
(***************************************************************************)
PublishOnTime(w) ==
  /\ \A e \in batch[w] : Held(w, e)
  /\ Publish(w, batch[w], batch[w])

MarkOnTime(w) ==
  /\ \A e \in toPublish[w] : Held(w, e)
  /\ MarkPublished(w)

\* The step the run's current await leads to.
Advance(w) ==
  \/ PublishStep(w)
  \/ MarkPublished(w) \/ MarkPublishedRaises(w)
  \/ \E e \in Event : MarkFailed(w, e) \/ MarkFailedRaises(w, e)
  \/ EndPublishing(w)
  \/ \E e \in Event : SlaEmit(w, e) \/ SlaEmitFails(w, e)
  \/ EndTick(w)

Fairness ==
  /\ \A e \in Event : WF_vars(TimerElapses(e))
  /\ \A w \in Worker :
       /\ WF_vars(Advance(w))
       /\ SF_vars(Claim(w))
       /\ SF_vars(PublishOnTime(w))
       /\ SF_vars(MarkOnTime(w))

FairSpec == Spec /\ Fairness

-----------------------------------------------------------------------------
(* Properties.                                                             *)

\* Every variable has its type; a row is never counted past the attempts at
\* which its backoff can no longer be computed.
TypeOK ==
  /\ business \in SUBSET Event
  /\ status \in [Event -> Status]
  /\ token \in [Event -> Worker \cup {NoToken, Orphan}]
  /\ attempts \in [Event -> 0 .. PowLimit]
  /\ elapsed \in SUBSET Event
  /\ copies \in [Event -> 0 .. CopyCap]
  /\ phase \in [Worker -> Phase]
  /\ batch \in [Worker -> SUBSET Event]
  /\ toPublish \in [Worker -> SUBSET Event]
  /\ toFail \in [Worker -> SUBSET Event]
  /\ raised \in [Worker -> BOOLEAN]
  /\ slaQueue \in [Worker -> SUBSET Event]

Settled == {e \in Event : status[e] \in {"published", "pruned"}}

\* No committed event is lost between PostgreSQL and Redis, whatever crashes,
\* takeovers and ambiguous pipeline results happen: a row is marked published
\* (and later purged) only when its event is in the stream.
NoLostEvent == \A e \in Settled : copies[e] > 0

\* ADR-003's "evento fantasma": nothing is in the stream whose domain
\* mutation has not committed.
NoPhantomEvent == \A e \in Event : copies[e] > 0 => e \in business

\* The verdict a run writes on a row is the one of the run that holds the
\* claim: a run that lost its claim to another one changes nothing, even when
\* its answer from Redis comes in late.
HolderDecides ==
  \A e \in Event :
    status[e] = "processing" /\ status'[e] # "processing" =>
      \E w \in Worker :
        /\ token[e] = w
        /\ \/ status'[e] = "published" /\ e \in toPublish[w]
           \/ status'[e] = "failed" /\ e \in toFail[w]

\* Stated of every step of the outbox.
VerdictOfHolder == [][HolderDecides]_vars

\* A published row is never reopened: no late mark, claim or SLA emission of
\* any run puts it back in the queue, only the purge removes it, and the purge
\* removes nothing else.
NeverReopened ==
  \A e \in Event :
    /\ status[e] = "published" => status'[e] \in {"published", "pruned"}
    /\ status[e] = "pruned" => status'[e] = "pruned"
    /\ status'[e] = "pruned" => e \in Settled

\* Stated of every step of the outbox.
SettledForGood == [][NeverReopened]_vars

\* The outbox implements the abstract at-least-once delivery: only accepted
\* events are streamed, only streamed ones settled, and every row inserted is
\* published in the end - no backoff, lost claim, overflowing backoff
\* computation or older failing row holds it back forever.
Delivery == INSTANCE AtLeastOnce WITH
  accepted <- {e \in Event : status[e] # "absent"},
  streamed <- {e \in Event : copies[e] > 0},
  settled <- Settled

\* The detailed outbox, under its fairness, implements all of it.
ImplementsAtLeastOnce == Delivery!Spec

\* The safety part of the refinement.
ImplementsSafety == Delivery!Safety

\* ADR-003: "Cero perdida de eventos", because the mutation and its outbox row
\* commit in one transaction.  A committed mutation has its row, or the job
\* that committed it is still about to insert the row.
MutationHasRow ==
  \A e \in business : status[e] # "absent" \/ \E w \in Worker : e \in slaQueue[w]
=============================================================================
