# TLA+ specifications of crm-collab

This directory holds the formal models of crm-collab, the collaboration service
of the CRM: what each component does, in TLA+; small instances that TLC checks
exhaustively; and theorems that TLAPS proves for every value of the parameters.
Paths below are relative to the repository root, module names refer to the files
here. `PROJECT.json` is the machine-readable index: which definition models which
lines, which run checks what, which hazard is covered by which property.

## 1. Inventory

crm-collab is three kinds of processes over one PostgreSQL schema and one Redis:
API servers (`src/server.ts`), the collab worker (`src/workers/collab.worker.ts`)
and, in the API servers, consumers of two Redis streams.

| Component | State | Operations | Talks to | What is hard |
|---|---|---|---|---|
| Transactional outbox and worker | `collab_outbox` rows; claimed batch and results in memory of a tick | insert in the caller's transaction; claim, publish, mark, take over, purge; SLA job | PostgreSQL, Redis stream `collab.events` | overlapping ticks, claims that run out, ambiguous pipeline results, crash between two statements |
| Domain event bus | the stream, consumer group, pending list, dead letters | connect, XAUTOCLAIM, XREADGROUP, dispatch, XACK, dead-letter, disconnect | Redis; notification handler (PostgreSQL) | two consumers with one entry, delivery counts, lost answers, poison events, trimming |
| Contracts and amendments | `project_contracts`, `project_contract_amendments`, audit log | save draft, request signature, sign, and the same for amendments | PostgreSQL | status read before the transaction that depends on it |
| Identity replica | identity snapshots, in-process cache, auth stream and its dead letters | apply created / updated / deleted events, replay | Redis stream of crm-auth | reordered and replayed events, stale cache |
| Board | columns, tasks, subtasks, assignments, project summary | create, move, block, unblock tasks; reorder columns | outbox | positions under a unique index, the summary kept in step with the tasks |
| Change requests, brief | minor and formal requests, brief change log | create, resolve, edit the brief | outbox, board, chat | duplicate open requests, overlapping and repeated resolutions, events in another order than commits |
| Files, admin storage | file rows, latest approved file, cached access URLs; the objects in crm-media | upload, register, abort, approve, access, delete, purge | crm-media by synchronous HTTP commands | two stores without a common transaction, lost answers, lock order |
| Media client, circuit breaker | breaker state, outcomes in the window | check, record, send a command | crm-media | late answers, concurrent probes, outcomes recorded twice |
| Chat, members, notifications | messages, read marks, mentions, activity, members | post, mark as read, mark as seen, prune, add a member | outbox and bus | stamps older than commits, statements without a transaction, recipients decided later |
| Projects | project row | create, update | all of the above | mostly single statements |

What makes them correct: an event of a committed mutation reaches the stream and
is handled at least once, and nothing else does (outbox, bus); what was signed
stays what it was (contracts); the replica converges to the identity service
(identity); positions, summaries and references stay consistent under concurrent
requests (board, files, change requests); the right people are told, once, and
clients learn nothing internal (chat, assignments). `PROJECT.json` lists the hazards, each
at its line.

## 2. What is modelled

### Outbox.tla - `collab_outbox` and the worker

State: one record per row, spread over functions (`status`, `token`, `attempts`),
the set `elapsed` of rows whose current timer ran out (backoff of a failed row,
60 s of a claim, retention of a published row: this is all the queries ask about
time), the number of stream entries of each event (`copies`), `business` (the
committed mutations) and, per run of `tick`, its phase and what it has in memory.

| Action | Code |
|---|---|
| `EmitInTx` | `emit(..., tx)`: mutation and row in one commit |
| `Claim`, `NothingToPublish` | `claimPendingCollabOutboxEvents`, early returns of `runCollabOutbox` |
| `Publish` | the XADD pipeline: any subset of the batch reaches Redis, any subset of that is acknowledged |
| `MarkPublished`, `MarkFailed` | the two UPDATEs, conditional on status and claim token |
| `MarkPublishedRaises`, `MarkFailedRaises` | a mark rejects, by the database or by the overflow of `POWER(2, attempts)` |
| `EndPublishing`, `EndTick` | the end of `runCollabOutbox` and of the tick |
| `Prune` | a micro-batch of `prunePublishedCollabOutbox` |
| `SlaBlock`, `SlaEmit`, `SlaEmitFails` | `checkClientApprovalSla` |
| `Crash` | the process dies or is shut down under a running tick |
| `TimerElapses` | time |

`isTicking` prevents overlap inside a process; `Worker` is the set of ticks that
overlap nevertheless: several worker processes, and the marks that are still in
flight after `Promise.all` has rejected and the next tick has started. The calls
of `emit` in services all pass their transaction and are one action; the SLA job
is the only caller that does not. The bus in the worker process has no local
handlers, so its `dispatchLocal` does nothing.

`AtLeastOnce.tla` is the abstract specification: sets of accepted, streamed and
settled events. `Outbox!Delivery` is the refinement mapping. `OutboxHistory.tla`
adds a history variable (rows taken over from a claim that ran out) to say where
duplicates may come from.

### EventBus.tla - the consumers of `stream:collab.events`

State: the stream (ids are indices), how far MAXLEN trimmed it, the group's
position, pending list, idle entries and delivery counters; per API process where
it is in its loop, the rest of its batch and the `startId` of the XAUTOCLAIM
scan; the handled events and the dead-letter stream. Redis is external: its
commands are modelled as the code uses them. Every command and every database
statement is a step, and its answer may be lost after it took effect. Handlers of
an event in `Poison` always throw. Trimming with `~` may keep more than `MaxLen`
entries, never fewer. The dead-letter stream has a MAXLEN of its own, which is not
modelled: `dlq` is what was sent there.

`EventBusHistory.tla` adds two history variables, the entries that were ever idle
for `COLLAB_EVENTS_PENDING_IDLE_MS` and those whose handlers have run, to say when
handlers may run again for the same entry.

`ConsumerGroup.tla` is the abstract specification of the consumers of a stream:
the entries given to the group, those that have ended (handled, dead, junk or
trimmed) and those confirmed. An entry is given once, confirmed only after it has
ended, stays confirmed, and is confirmed sooner or later. `EventBus!Group` and
`Identity!Group` are the refinement mappings of the two consumers, which differ in
their code (one counts deliveries before the handler, the other after it) and not
in this promise.

### Contract.tla - contract and amendments of one project

Every request is split where the code is: the reads with their checks, then the
transaction, committed as one step with its audit entry. Roles are guards:
`Admin` and `Client` are the requests of that role that may be in flight at once.
Texts are abstracted to `Render[terms][name]`, not assumed injective, because
not every column is printed. A text stands for its hash. Rows without a snapshot
are initial states because `getContract` and `sign` treat them (`contentSnapshot`
is nullable). The project's name may change between any two renderings.

### Identity.tla - the replica of one user's identity

State: what happened to the user at crm-auth (`history`), the auth stream and its
consumer group, per API process where `RedisStreamConsumer` is, the snapshot row
(the number of the event it was written by), the dead letters, and whether a
replay was requested. One user is enough: the handlers of an event touch only the
rows of its `sub`. `AuthEmit`, `EmitBroken` and `AuthReplay` are crm-auth;
`Reclaim`, `Read`, `Validate`, `HandleAuthEvent`, `Ack`, `Failed`, `SendToDlq` and
their failing variants are the steps of the consumer's loop; `Replay` is
`replayAuthEventDlqEntry`, called by the automatic replayer (`AutoReplay`) or by
an operator.
Unlike the bus, the delivery count is read before the handler, an error of the
XACK is treated as an error of the handler, and an exception while reclaiming is
swallowed. The XADD and the XDEL of a replay are one step with two outcomes.
`disorder` is a history variable: it is set by a second delivery, by a replay
from the dead letters and by a read while another process has a batch. Trimming
is not modelled: neither that of the auth stream (by crm-auth, and by the MAXLEN of
the XADD of a replay) nor that of the dead letters (`AUTH_EVENTS_DLQ_MAXLEN`). An
entry that `NothingLost` finds among the dead letters may have been trimmed since.

### Board.tla - tasks of one project and the summary on the project row

State: per task its column, checklist (number of subtasks, number done),
`checklist_progress`, whether `completed_at` is set, and its block type; status
and progress of the project; per request where it is. `UpdateTask` and
`UnblockTask` are the reads and checks before the transaction; `Write` is the
transaction's statements, the summary included (`Aggregate` is the SQL of
`syncProjectStatusAndProgress`); `Commit` makes both visible. `CreateTask` and
`BlockTask` depend on nothing that can change after they read it and start at the
transaction. The updated task is locked from `Write` to `Commit`. The aggregate
sees what is committed at `Write`: PostgreSQL evaluates it once, before it may
have to wait for the project row. `CheckClientApprovalSla`,
`CreateMinorChangeRequest` (the task it creates on an empty board; two such
requests at once are not modelled) and `UpdateProject` (a summary set by hand)
write without recomputing. A patch gives each field as an option, a set with at
most one value. History variables: `raced`, the tasks written by a request that
had read an older row, and `missed`, whether the summary may be out of step.

### Columns.tla - positions of the board's columns

State: the position of each column, and per request the column and position that
`findTaskColumnById` read before its transaction. `CreatedAt` and `MovedTo` are
the sequences of tables the statements of a transaction produce; a transaction
commits only if the unique index of the migration accepts every one of them.

### Assignment.tla - assignees of a task and whom its events notify

State: the members, the list of assignees, the visibility to clients, per request
what it read before its transaction, the events and the notifications.
`UpdateTask`, `BlockTask` and `CreateTaskComment` are the reads, `CommitWrite`
the transaction of each, `NotifyOfTask` a delivery of an event to
`persistActivityNotification`, the first or another one. In which column the task
is, and who may move it there, is left to `Board`: every move is possible here.
Events are told apart by what they say, not by id, which merges repeated ones.

### Chat.tla - messages, read marks, mentions and activity

State: the three tables and the members; `clock` counts the stamps that
PostgreSQL's `now()` gives, when a transaction begins. A message is checked and
stamped (`PostChatMessage`) before it appears (`CommitChatMessage`).
`markChatAsRead` is three statements without a transaction, so three actions.
Admins have access without membership. Users keep their role; that a role changes
is Identity's subject.

### ChangeRequest.tla - requests, the brief's log, and what the client is told

A minor request is a check (`CheckOpenMinor`) and a later insertion. A resolution
has a time, the beginning of its transaction, which its event carries into the
outbox as `created_at`. The publication is that of `Outbox`, as far as the order of
the events of a request depends on it: a claim of the oldest rows that may skip
locked ones (`ClaimEvents`), every XADD of the pipeline (`PublishEvent`,
`PublishFails`), every mark (`MarkEventsPublished`, `MarkEventFailed`, `MarkRaises`),
the end of a backoff or of a claim and the death of a tick are steps of their own,
and the ticks of `Tick` overlap. `told` is the status in the last event sent.
`reordered` is a history variable: the requests whose events may have been sent in
another order than they were written in. Two ticks suffice for that: one claims the
first event, the other the second, and the second is sent first.

### Files.tla - file rows and the objects in crm-media

State: the state of each object in crm-media, the rows, the latest approved file,
the cached URLs, and per request how far it is. A command to crm-media is carried
out, refused, fails, or is carried out and its answer is lost (`Answers`). After the
answer "deleted" a request still has to delete the cached URL, by a statement of its
own (`ClearCache`) that may fail or never be reached (`uncache` in its state). The
transactions of approval and deletion are split between their two statements,
because they lock the file and the project row in opposite order. History
variables: `untold`, the keys of which the two stores were told different things,
and `contested`.

### CircuitBreaker.tla - `SimpleCircuitBreaker` under `sendMediaCommand`

The methods are operators on the breaker's record; `Answer` records an outcome in
whatever state the breaker has by then. Failures and successes are counted;
leaving the window and the end of the cooldown are steps.

### ProfileCache.tla - `profileCache` of the API processes

State: the version in the snapshot row, the cached version in each process, the
lookups that have read the row and not cached it yet, and the change a process is
applying. The cache is cleared before the deletion commits.

## 3. Runs

| Run | Instance | Shows |
|---|---|---|
| `outbox` | 2 ticks, 1 HTTP and 1 SLA event, overflow at 2 attempts, copies counted to 2 | `TypeOK`, `NoLostEvent`, `NoPhantomEvent`, `NoNeedlessDuplicate`, `VerdictOfHolder`, `SettledForGood` |
| `outbox_live` | 2 ticks, 1 HTTP and 1 SLA event, one row per claim, overflow at 1 attempt | `ImplementsAtLeastOnce`: safety and liveness of `AtLeastOnce` |
| `outbox_sla` (violation) | as `outbox` | `MutationHasRow` fails: see findings |
| `event_bus` | 2 consumers, an event (possibly several times) and junk entries, 3 entries, stream length 2, batches of 2, 2 deliveries | `TypeOK`, `NoSilentDrop`, `DlqAfterRetries`, `NoNeedlessRetry` |
| `event_bus_live` | 2 consumers, a poison and a healthy event, 2 entries, batches of 1, 2 deliveries | `ImplementsGroup`: safety and liveness of `ConsumerGroup` |
| `contract` | 1 administrator and 1 client request in flight, 3 terms, 2 names, 2 amendments | `TypeOK`, `Numbered`, `SignedTextAudited`, `AmendmentsCiteContract`, `SignedImmutable` |
| `contract_race` (violation) | 2 administrator requests in flight | `SignedImmutable` fails: see findings |
| `identity` | 2 consumers, 2 events of the user, broken and shutdown entries, 2 entries in the stream, batches of 2, 2 deliveries | `TypeOK`, `NothingLost`, `OrderlyConverges` |
| `identity_retry` (violation) | 1 consumer, 3 entries | `ReprocessedHarmless` fails: see findings |
| `board` | 2 tasks, 2 requests in flight, columns pending, client_approval, blocked, no checklists | `TypeOK`, `SummaryInStep`, `BlockTypeInColumn`, `TimeoutReleased` |
| `board_final` (violation) | 1 task, 1 request, a checklist half done | `FinalComplete` fails: see findings |
| `workspace` | one of seven components per behaviour, see below | the properties of `Files`, `CircuitBreaker`, `Columns`, `ChangeRequest`, `Chat`, `Assignment` and `ProfileCache` |

`workspace` checks seven modules in one run. They share no variable, so interleaving
them would add states and no behaviour: in their composition, `Workspace.tla`, the
initial value of `part` picks the component a behaviour follows, and the others
stay as they began. `MCWorkspace` gives the constants their values. The result is
that of seven separate runs; that the composition implements each component is
the theorem `WorkspaceImplementsComponents`.

| Part | Instance | Properties |
|---|---|---|
| files | 2 rows, 2 objects, 2 requests in flight, at most one of them a purge, 1 name, the contract may be signed | `TreeMatchesStore`, `ApprovedFileExists`, `VersionFree`, `CachedUrlAlive`, `SignedKept` |
| breaker | 3 commands in flight, the code's minimum of 5 outcomes, at most 7 kept | `CooldownHolds`, `OpensOnOwnEvidence` |
| columns | 3 columns and a fourth to create, positions 0 to 3, 2 requests | `OneColumnMoves` |
| requests | 2 requests, 1 task, 2 creations, 2 resolutions and 2 ticks in flight, 2 resolutions or edits of the brief in all, as "rejected" or "approved", batches of 2 | `OneOpenMinor`, `ToldWhatHolds` |
| chat | 2 messages, a worker and a client, both channels, 3 stamps | `NotifiedOnce`, `SeenMeansRead`, `InternalStaysInside` |
| tasks | 2 workers, a client who may join, 2 requests in flight, 3 transactions | `RightPeopleTold` |
| profiles | 2 processes, 2 lookups, 3 versions of one person | `OwnChangeCached` |

Two rows and two objects make a registration meet an abort, an approval meet a
deletion, and a purge of several files fail on one. Three commands let an answer
arrive after the breaker opened, half-opened and closed again. Four positions
have room on both sides of a move. Two resolutions of one request and two ticks make
every order in which two events can be claimed, sent and marked. Two stamps and a third for an activity
notification put a message between another one's stamp and commit. Three
transactions are a creation and two overlapping updates. The parts were also
checked by themselves with larger bounds: the chat with an administrator and 4
stamps, assignments with 4 transactions.

Why the bounds are enough to be interesting. Two ticks are what a takeover needs;
two events make a batch with a mixed result and, with one row per claim, an old
row that holds back a young one. The overflow limit 1024 is replaced by 1 or 2 so
that it is reached. Three entries of the stream with a length of 2 make an entry
trimmed while pending; an event next to junk entries tells an entry confirmed
in place of another, and junk handed to the handlers. Two consumers with batches of
2 let one scan while the other is in the middle of a batch, or is started again after
it died there. Two terms that print the same and one that does not tell
texts from terms. Two tasks and two requests make the overlap in which a summary
misses a commit; checklists are left to `board_final`, because with them two
tasks are out of TLC's reach. The proofs of section 5 do not depend on these bounds.

Bounds that cap unbounded things: `NumEvents`, `CopyCap` (outbox), `NumEntries`
and the delivery counter, which stops at `MaxRetries` because nothing asks for
more (bus, identity), `MaxAmendments` (contracts), `MaxPurges` (files), `MetricCap` (breaker),
`MaxPosition` (columns), `MaxBegun` and the number of ids of requests, which
`IdLeft` makes a creation wait for (change requests), `MaxClock` (chat), `MaxChanges` (assignments), `MaxVersion` (profiles). Symmetry
is used for ticks, consumers, names, tasks and requests, never in a run with a
liveness property. In `workspace` three pairs of values are interchangeable and
stand for whatever each part has two alike of. `CHECK_DEADLOCK FALSE` there and
wherever a bound ends the work: a bounded instance that has used up its messages
or files may stop.

Every property has a mutant in `PROJECT.json`: a faulty variant of one
definition, kept next to it in the module, under which TLC finds the property
violated.

### Fairness

Outbox. `setInterval` starts ticks again and again and every await settles: weak
fairness of the run's next step (`Advance`) and of time. Failures may be frequent
but not permanent: strong fairness of claiming, of a pipeline acknowledged in
full within the claim timeout, and of its mark. Without this nothing can be
delivered: Redis or PostgreSQL down for good. Producers, the SLA job, the purge
and crashes are never assumed to happen. The Redis clients are configured with
`maxRetriesPerRequest: null`, so a call made while Redis is down waits until it
is back; "every await settles" includes that it does come back.

Bus. Processes are restarted, the loop goes round and entries grow idle (weak
fairness); a command or a handler that is attempted infinitely often, interrupted
by crashes and lost answers, succeeds infinitely often in one process or another
(strong fairness of the processes taken together), except handlers of poison events,
which always throw.

### Findings

* `outbox_sla`. `checkClientApprovalSla` commits the block of the tasks and only
  then emits the events, each in an INSERT of its own whose failure is logged and
  forgotten. A failed INSERT or a crash between the two leaves a blocked task
  without its `task.blocked` event. ADR-003 promises that mutation and row share
  a transaction and that no event is lost.
* `contract_race`. `saveDraft` reads the status outside the transaction and its
  upsert is unconditional. Save A reads the draft; request B sends it for
  signature; the client signs; A commits, and the signed contract is a draft
  again, its signature erased. `docs/SECURITY.md` promises that no later edit of a
  signed contract is possible. The theorems of section 5 show that this needs two
  requests of one role in flight: serialising them per project, or repeating the
  status in the WHERE of the UPDATE, removes it.
* `identity_retry`. The handler fails for the first of two events in a batch; it
  stays pending, the second is applied; 30 s later the first is delivered again
  and its upsert, which compares no versions, overwrites the newer data, or brings
  back the row of a deleted user. `docs/TESTING.md` says that reprocessed events
  cause no inconsistency. `OrderlyConverges` of run `identity` states what does
  hold: without second deliveries, replays from the dead letters and parallel
  batches the replica is right, whatever fails or crashes.
* `board_final`. `unblockTask` takes any target column but the blocked one and
  writes it without the check that `updateTask` makes. A task with one of two
  subtasks done ends in the final column, and the project is `completed` at 50 %.

What the properties of `board` except is behaviour of the code, too. The summary
is out of step after the SLA job, after the automatic task of a minor request,
after an administrator's own value, and when two transactions overlap, until the
next sync that sees everything. A request that decided on an outdated row can
leave a block type outside the blocked column. And `TimeoutReleased` is about the
releasing step only: `blockTask`, or an `updateTask` with a `blockType`, lets a
worker turn a `client_timeout` into an impediment first. A task created directly
in the blocked column has no block type, so only an administrator can release it.

What the properties of `workspace` except, or what was met while modelling:

* Files. An approval that commits between the two statements of a deletion leaves
  `latestApprovedFileId` pointing to a deleted row, and the other order of the two
  is a deadlock PostgreSQL resolves by aborting one. An abort that looked before a
  registration inserted deletes the object of a live row. A purge records a file
  as freed although crm-media failed. The URL of a deleted object stays cached, and
  is served, until the request's own DELETE; if that fails, a retried deletion gets a
  404 and never clears it, so that it stays until it expires. A purged file can be approved. `deleteFile`, unlike the purge, does not
  ask whether the file belongs to a signed contract.
* Breaker. All concurrent commands pass in HALF_OPEN, and the late answer of a
  command sent before the breaker opened can close it or open it again. An answer
  that does not match the schema is recorded as two failures.
* Columns. A move to position 0, when it is occupied, sends the occupant to -1,
  where the moving column already is: the index refuses it and the request always
  fails. `schema.ts` does not declare the index; without it the occupant would be
  left at a negative position.
* Change requests. Two creations that overlap open two minor requests for one
  task. Overlapping resolutions may be announced in another order than they
  committed. So may resolutions that did not overlap: when their events are in the
  batches of two ticks, when a claim skipped the row of the earlier one because it was
  locked, and when an XADD was reported as failed or a claim ran out. "escalated", and the statuses of the other type, are announced to
  nobody; approving a formal request writes a row of the log, not the brief.
* Chat. An activity notification is stamped after its message, so reading up to
  that message never marks it as seen; reading up to a later one does, and reading
  single messages never does. A message that is committed between the statements
  of a reader has its mention marked as seen and not the message as read. An event
  delivered again after retention removed its notification creates it anew.
* Assignments. Two overlapping updates can announce an assignment twice or not at
  all; `blockTask` and `unblockTask` tell the assignees they read before the
  transaction; a comment is announced with the visibility read before it. An event
  whose list of assignees is empty notifies every member of its channel.
* Profiles. A lookup that overlaps a deletion caches the deleted person again, and
  other processes serve what they had for up to five minutes.

Not turned into a run: ADR-003 says a row is marked failed after a limit of
retries; the code marks it failed at the first failure and retries without limit.

## 4. Plan

The components that keep state are modelled, and every safety property of the
passing runs is a theorem. What is left is the composition of `Outbox` with
`EventBus`: an accepted event is handled or in the dead letters. Their interface
is the stream. What `AtLeastOnce` calls streamed is what `EventBus!Emit` appends;
`Emit` may append any event at any time, so the theorems on the bus hold for
whatever the outbox publishes, and `OutboxImplementsSafety`, `BusImplementsGroup`
and `BusNoSilentDrop` are the safety half of the chain. A module that says it in
one formula would need a pipeline that appends several entries in one step, which
`EventBus` splits into one `Emit` each, and entries trimmed before the group read
them, which the code may lose, as an exception.

## 5. Proofs

A theorem holds for every value of the constants that the named assumption of its
module admits: any number of tasks, consumers, requests, ticks, files and people.
The assumptions say what the constants are (disjoint sets, subsets, numbers), that
a set the code counts or takes a maximum of is finite, and that an option holds at
most one value; the passing runs evaluate them. The bounds of section 3
(`NumEntries`, `MaxClock` and so on) are parameters of the theorems, too, so they
hold however large a bound is.

Every invariant was checked by TLC before it was proved: the inductive ones
below, too, on the instances of section 3.

`OutboxProofs.tla`, from `OutboxAssumption`:

* `OutboxTypeCorrect`, `OutboxNoLostEvent`, `OutboxNoPhantomEvent`,
  `OutboxVerdictOfHolder`, `OutboxSettledForGood`, `OutboxNoNeedlessDuplicate`: the
  properties of run `outbox` of the same names;
* `OutboxImplementsSafety`: every step of the outbox is a step of `AtLeastOnce`
  or stutters, under the refinement mapping.

None of the invariants is inductive alone. `IInv` adds what links rows, stream
and memory: only committed mutations have rows (`RowsCommitted`); what a run has
claimed or is about to mark is a row, and what it is about to mark published is
already in the stream (`RunsHandleRows`); the events the SLA job still owes have
no row, and no two runs owe the same one (`SlaOwed`, without which a late SLA
insertion could reopen a published row); only rows reach the stream
(`StreamedRows`). `NoLostEvent` then follows at `MarkPublished`,
`NoPhantomEvent` at `Publish`, and the action properties from the conditions of
the two marks. `NoNeedlessDuplicate` needs that the token of a claim is that of a
run still publishing (`ClaimsLive`) and that, up to the first failure or takeover,
the run with the event in its batch is the one that holds the row (`FirstClaim`).

`EventBusProofs.tla`, from `BusAssumption`: `BusTypeCorrect`, `BusNoSilentDrop`,
`BusDlqAfterRetries`, `BusNoNeedlessRetry`, and `BusImplementsGroup`, that every step is
one of `ConsumerGroup` or stutters. What is pending, in a batch or dead was
delivered before (`Delivered`); nobody reads before the group exists
(`GroupFirst`); and the entry a consumer is about to confirm is accounted for, the
one it is about to give up on has used up its deliveries, although another
consumer may have the same entry in hand (`HandIsRight`). For `BusNoNeedlessRetry`,
about `EventBusHistory`, `HInv` says that an entry never idle for long enough is in
the batch of at most one consumer (`HandedOutOnce`), and that one whose handlers have
run is in a batch only as the entry its consumer is still confirming or giving up on
(`BusyWithIt`).

`IdentityProofs.tla`, from `IdentityAssumption`: `IdentityTypeCorrect`,
`IdentityNothingLost`, `IdentityOrderlyConverges`, and `IdentityImplementsGroup`, the
same refinement for these consumers. That a shutdown entry never becomes a dead
letter, a part of `TypeOK`, needs that the entry in hand is none at any place from
which it may become one (`MayDie`). `NothingLost` rests on an
invariant like the bus's. `OrderlyConverges` needs more (`Orderly`): the stream has
the events in their order and the newest among them; one consumer has a batch, the
end of what was delivered; and the row shows the last event up to the entry in
hand, at each step of the loop (`BatchOf`).

`ContractProofs.tla`, from `ContractAssumption`:

* `ContractTypeCorrect` and `AmendmentsNumbered` for any number of requests in
  flight. The inductive part of `Numbered`: a request that computed a number is
  at most one ahead of the amendments inserted, and the unique index does the
  rest (`WInv`);
* `SignedTextAuditedApart`, `AmendmentsCiteApart`, `SignedImmutableApart`: the
  three properties of signed texts for any number of requests in flight, from
  conditions that name the overlaps that do harm. `DraftsApart`: while a
  `requestSignature` is between its check and its commit, no other one and no
  `saveDraft` is. `SignersApart`: no two signatures of the contract overlap.
  `AmendersApart`: no two requests to sign, and no two signatures, of one amendment
  overlap. The first theorem needs the first condition, the second two of them, the
  third all. Every other overlap is harmless, for instance of two saves, of a
  signature with any other request, or of the requests on two amendments;
* `ContractSignedTextAudited`, `ContractAmendmentsCite`,
  `ContractSignedImmutable`: the same under `OneAtATime`, at most one request of an
  administrator and one of a client in flight, which implies the three conditions
  and is the instance of run `contract`.

The invariants behind them are layered as the conditions are. `DInv`: a save or a
request for signature decided on the status the contract still has
(`DraftFresh`), signatures in flight agree on what they read (`SignersAgree`), and
a contract waiting for its signature has a text of its own terms (`PendingText`).
`CInv`: a request on an amendment has read the signed contract (`CiteFresh`).
`AInv`: it has read the amendment as it still is (`AmendFresh`). No condition can
be left out: with two administrators and two clients TLC finds a counterexample to
`SignedTextAudited` without `DraftsApart`, to `AmendmentsCiteContract` without
`SignersApart` (two signatures of a row without a snapshot, rendered under two
names) and to `SignedImmutable` without `AmendersApart`. In run `contract_race` it is
`DraftsApart` that does not hold.

`BoardProofs.tla`, from `BoardAssumption`, with checklists, which the run `board`
leaves out: `BoardTypeCorrect`, `BoardSummaryInStep`, `BoardBlockTypeInColumn`,
`BoardTimeoutReleased`. `BoardInv` says what a request will leave behind if nobody
writes its task first (`Outcome`): a tidy row, with a block type in the blocked
column only and the progress of its subtasks; the same column and subtasks if it
leaves out the sync; and a released timeout only by who may release it
(`Decided`). That holds as long as the row it has read is the current one and
nobody wrote the task on the ground of an outdated one (`Fresh`). A sync that
nothing has overtaken has the aggregate of the tasks after its commit (`Summed`),
and no two transactions hold one task (`OneWriter`). That progress is a percentage
(`TypeOK`) and that two boards with the same columns and weights have the same
summary (`AggregateSame`) are facts about a fold over a set of tasks. They are
proved without an induction rule: a set of tasks for which the claim fails, of the
least size there is, would make it fail for the set without one of its elements
(`SumBound`, `SumsAgree`; `LeastExists` of `ExtremaLemmas.tla`).

`MediaProofs.tla`, from `BreakerAssumption` and `FilesAssumption`:

* `BreakerTypeCorrect`, `BreakerCooldownHolds`, `BreakerOpensOnOwnEvidence`: what a
  closed breaker counts is at most what was recorded since it closed (`Weighs`);
* `FilesTypeCorrect`, `FilesTreeMatchesStore`, `FilesApprovedFileExists`,
  `FilesVersionFree`, `FilesCachedUrlAlive`, `FilesSignedKept`. Keys of rows are
  those of objects that were uploaded, and no two existing rows share one
  (`KeysKept`, `KeysApart`); of the registrations of one name one has a version
  (`OneCounts`, the advisory lock); and `Knows` lists what a request in flight may
  rely on at each of its steps, for instance that the object of a file is gone
  before its row is deleted, and that the part of a purge that is done is gone or
  known to be at odds. Only an abort, a deletion or a purge has a URL to delete
  from the cache.

`WorkspaceProofs.tla`, from the assumptions of the components:

* profile cache: `CacheTypeCorrect`, `CacheOwnChange`. What an upsert is about to
  cache is the current row, and nothing is cached of what is about to be deleted
  (`CacheAhead`);
* chat: `ChatTypeCorrect`, `ChatInternalStaysInside`, `ChatSeenMeansRead`,
  `ChatNotifiedOnce`. Mentions are for those mentioned and activity for the others
  (`FiledFor`); what a reader is about to mark as seen it has marked as read,
  except for what was committed meanwhile (`CoveredFor`);
* change requests: `RequestTypeCorrect`, `RequestOneOpenMinor`,
  `RequestToldWhatHolds`. Without overlap there is one creation about to insert or
  one open request (`AloneOn`), and resolutions in flight are counted against the
  bound (`CountedFor`). `InTurn` is about a request nothing was reordered of: its
  events are due, claimed by the one tick that knows of them, or published, each kind
  older than the one before, and not in the batches of two ticks (`Queued`); the one
  resolution in flight is younger than all of them (`OneInFlight`); the youngest has
  the status of the row, and the youngest sent is what was told (`UpToDate`). It holds
  as long as no tick died with one of them (`Orphan`), whose claim then has to run out;
* assignments: `AssignmentTypeCorrect`, `AssignmentRightPeopleTold`. What a request
  read still holds unless it counts as late (`RequestOK`), and an event of external
  interest is one a client may know of (`EventOK`);
* columns: `ColumnsTypeCorrect`, `ColumnsOneMoves`. The columns stay distinct and
  non-negative; the tables that a transaction's statements produce are computed
  for every position of the moved column (`Along`).

`ExtremaLemmas.tla` has the facts about `Min`, `Max` and the lowest entries of a
set that the consumers, the file versions and the sums rest on.

The theorems on the seven components of run `workspace` are about each
component's own specification (`FilesSpec`, `ChatSpec` and so on).
`WorkspaceImplementsComponents` carries them over to the composition that the run
checks, and `WorkspaceTypeCorrect` puts the type invariants together to
`WorkspaceTypeOK`.

Checked by TLC only: liveness under fairness, that is `ImplementsAtLeastOnce` and
`ImplementsGroup` beyond their safety parts; the prover has no rules for fairness
and `ENABLED`.

## 6. Not modelled

The typing store (an in-process map with a time to live that nothing depends on),
the in-memory bus (a development fallback), the HTTP layer with authentication and rate limiting (the
models start at the service call, role checks are guards), configuration, schema
and seed scripts, OpenAPI and gateway documents, logging, metrics and health
checks. Payloads, texts of notifications and file contents are data no property
tells apart. Of projects, the row's descriptive fields, the archived flag and listings are
left out; of notifications, those of files, requests and projects, whose
recipients are fixed by the event's type and which the handler of `Chat` and
`Assignment` writes.
