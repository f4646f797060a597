--------------------------- MODULE ChangeRequest ---------------------------
(***************************************************************************)
(* Change requests of a project, its brief and the brief's change log.     *)
(*                                                                         *)
(*   src/modules/collab/change-request/change-request.service.ts           *)
(*   src/modules/collab/brief/brief.service.ts                             *)
(*                                                                         *)
(* A minor request is inserted by a READ COMMITTED transaction after a     *)
(* SELECT of the open ones, with no lock and no unique index between the   *)
(* two.  A resolution does not look at the request's status, so a request  *)
(* may be resolved again and again, each time in one transaction with its  *)
(* log row, chat message and event.  The event carries the time at which   *)
(* its transaction began, and the outbox claims and sends the oldest first *)
(* (src/jobs/run-collab-outbox.ts), while the row keeps what the           *)
(* transaction that committed last wrote.  The ticks of the outbox may     *)
(* overlap; what module Outbox says of them is kept here as far as the     *)
(* order of the events depends on it.  Which task a minor request without  *)
(* a task is given is Board's subject.                                     *)
(***************************************************************************)
EXTENDS Integers, FiniteSets

CONSTANTS
  Request,     \* ids of project_change_requests
  Task,        \* tasks of the project
  Client,      \* creations of minor requests that may be in flight at once
  Admin,       \* resolutions that may be in flight at once
  Tick,        \* runs of runCollabOutbox that may be under way at once
  NoTick,
  PublishBatch, \* COLLAB_OUTBOX_BATCH_SIZE
  Verdict,     \* statuses a resolution may ask for, all four of Resolution or some
  MaxBegun     \* bound: resolutions and manual edits of the brief begun

Resolution == {"accepted", "rejected", "escalated", "approved"}

ASSUME ChangeRequestAssumption ==
  /\ IsFiniteSet(Request) /\ IsFiniteSet(Client) /\ IsFiniteSet(Admin)
  /\ NoTick \notin Tick
  /\ PublishBatch \in Nat /\ MaxBegun \in Nat
  /\ Verdict \subseteq Resolution

VARIABLES
  request,     \* project_change_requests
  creation,    \* the creations
  resolving,   \* the resolutions, with the time their transaction began
  begun,       \* the clock: resolutions and edits of the brief begun so far
  event,       \* collab_outbox, by created_at: what the event says
  outbox,      \* collab_outbox: status of the row and the tick that claimed it
  tick,        \* what each tick has claimed and not sent yet, sent, and failed to send
  told,        \* the status in the last event sent on the request
  brief,       \* project_brief_change_log, log: the number of rows with no source;
               \* logOf: with the request as source
  approvals,   \* history: resolutions of the request as "approved"
  overlapped,  \* history: tasks two creations of minor requests overlapped on
  reordered    \* history: requests of which the order of the events may be another
               \* than that of the resolutions (see ToldWhatHolds)

publication == <<event, outbox, tick, told>>
resolution == <<resolving, begun, publication, approvals, reordered>>
requestVars == <<request, creation, resolution, brief, overlapped>>
beforehand == <<request, creation, resolving, begun, brief, approvals, overlapped>>

Time == 1 .. MaxBegun

NoRequest == [type |-> "none", task |-> "none", status |-> "none"]
NoCreation == [pc |-> "idle", task |-> "none"]
NoResolving == [pc |-> "idle"]
NoEvent == [r |-> "none", status |-> "none"]
IdleTick == [batch |-> {}, sent |-> {}, refused |-> {}]

\* A row that no tick has claimed.
Unclaimed(st) == [st |-> st, by |-> NoTick]

ChangeRequestInit ==
  /\ request = [r \in Request |-> NoRequest]
  /\ creation = [k \in Client |-> NoCreation]
  /\ resolving = [a \in Admin |-> NoResolving]
  /\ begun = 0
  /\ event = [e \in Time |-> NoEvent]
  /\ outbox = [e \in Time |-> Unclaimed("none")]
  /\ tick = [p \in Tick |-> IdleTick]
  /\ told = [r \in Request |-> "none"]
  /\ brief = [log |-> 0, logOf |-> [r \in Request |-> 0]]
  /\ approvals = [r \in Request |-> 0]
  /\ overlapped = {} /\ reordered = {}

Open(type, t) ==
  {r \in Request : request[r].type = type /\ request[r].task = t /\ request[r].status = "open"}

-----------------------------------------------------------------------------
(* Creation.                                                               *)

\* Bound: a creation begins while Request has an id for it and for those under way.
IdLeft ==
  Cardinality({k \in Client : creation[k].pc = "insert"})
  < Cardinality({r \in Request : request[r] = NoRequest})

Checked(k, t) ==
  /\ IdLeft
  /\ creation' = [creation EXCEPT ![k] = [pc |-> "insert", task |-> t]]
  /\ overlapped' = IF \E j \in Client : creation[j].pc = "insert" /\ creation[j].task = t
                   THEN overlapped \cup {t} ELSE overlapped
  /\ UNCHANGED <<request, brief, resolution>>

\* listChangeRequestsByProject(projectId, "minor") shows no open one on the task.
\* Faulty variant: without the check.
CheckOpenMinorNever(k, t) ==
  /\ creation[k].pc = "idle"
  /\ Checked(k, t)

CheckOpenMinor(k, t) ==
  /\ creation[k].pc = "idle"
  /\ Open("minor", t) = {}
  /\ Checked(k, t)

Opened(type, t) == [type |-> type, task |-> t, status |-> "open"]

\* createChangeRequest with its chat message, audit row and event, and the commit.
CreateMinorChangeRequest(k, r) ==
  /\ creation[k].pc = "insert" /\ request[r] = NoRequest
  /\ request' = [request EXCEPT ![r] = Opened("minor", creation[k].task)]
  /\ creation' = [creation EXCEPT ![k] = NoCreation]
  /\ UNCHANGED <<brief, resolution, overlapped>>

CreationFails(k) ==
  /\ creation[k].pc = "insert"
  /\ creation' = [creation EXCEPT ![k] = NoCreation]
  /\ UNCHANGED <<request, brief, resolution, overlapped>>

\* The task of a formal request is optional, not looked up, and not modelled.
CreateFormalChangeRequest(r) ==
  /\ IdLeft /\ request[r] = NoRequest
  /\ request' = [request EXCEPT ![r] = Opened("formal", "none")]
  /\ UNCHANGED <<creation, brief, resolution, overlapped>>

-----------------------------------------------------------------------------
(* Resolution.                                                             *)

\* The statuses of each type of request that are announced by an event.
Announced(type) == IF type = "minor" THEN {"accepted", "rejected"} ELSE {"approved", "rejected"}

\* createBriefChangeLog, for an approved formal request.
Logs(r, status) == request[r].type = "formal" /\ status = "approved"
Logged(r) == [brief EXCEPT !.logOf[r] = @ + 1]

\* updateChangeRequestById, whatever the status was.
Resolved(r, status) == [request EXCEPT ![r].status = status]

\* findChangeRequestById, then the transaction begins.
BeginResolution(a, r, status) ==
  /\ resolving[a] = NoResolving /\ request[r] # NoRequest
  /\ begun < MaxBegun /\ begun' = begun + 1
  /\ resolving' = [resolving EXCEPT ![a] = [pc |-> "tx", r |-> r, status |-> status, at |-> begun']]
  /\ reordered' = IF \E b \in Admin : resolving[b] # NoResolving /\ resolving[b].r = r
                  THEN reordered \cup {r} ELSE reordered
  /\ UNCHANGED <<request, creation, publication, brief, approvals, overlapped>>

\* The INSERT of the event, if the status is announced.
Emitted(r, status, at) ==
  IF status \in Announced(request[r].type)
  THEN /\ event' = [event EXCEPT ![at] = [r |-> r, status |-> status]]
       /\ outbox' = [outbox EXCEPT ![at] = Unclaimed("due")]
  ELSE UNCHANGED <<event, outbox>>

\* The transaction: updateChangeRequestById, which waits for the row, then the log
\* row, the chat message and the event, and the commit.
ResolveChangeRequest(a) ==
  /\ resolving[a] # NoResolving
  /\ LET r == resolving[a].r
         status == resolving[a].status
     IN  /\ request' = Resolved(r, status)
         /\ brief' = IF Logs(r, status) THEN Logged(r) ELSE brief
         /\ Emitted(r, status, resolving[a].at)
         /\ approvals' = [approvals EXCEPT ![r] = IF status = "approved" THEN @ + 1 ELSE @]
  /\ resolving' = [resolving EXCEPT ![a] = NoResolving]
  /\ UNCHANGED <<creation, begun, tick, told, overlapped, reordered>>

ResolutionFails(a) ==
  /\ resolving[a] # NoResolving
  /\ resolving' = [resolving EXCEPT ![a] = NoResolving]
  /\ UNCHANGED <<request, creation, begun, publication, brief, approvals, overlapped, reordered>>

-----------------------------------------------------------------------------
(* Publication.  A claim, every XADD of the pipeline and every mark is a   *)
(* step of its own.                                                        *)

\* The WHERE of claimPendingCollabOutboxEvents.
Due == {e \in Time : outbox[e].st \in {"due", "expired"}}

\* ORDER BY created_at ASC LIMIT n.
OldestOf(S) == {e \in S : Cardinality({f \in S : f < e}) < PublishBatch}

\* Requests with an event in S that has an earlier one, which the claim of S skipped
\* or another tick has not sent yet.
Passed(S, skip) ==
  {r \in Request : \E e \in Time, f \in S :
     /\ e < f /\ event[e].r = r /\ event[f].r = r
     /\ e \in skip \/ \E q \in Tick : e \in tick[q].batch}

\* claimPendingCollabOutboxEvents.  It skips rows that are locked: by another claim,
\* which may roll back.
ClaimEvents(p, skip) ==
  LET S == OldestOf(Due \ skip) IN
  /\ tick[p] = IdleTick /\ S # {}
  /\ outbox' = [e \in Time |-> IF e \in S THEN [st |-> "claimed", by |-> p] ELSE outbox[e]]
  /\ tick' = [tick EXCEPT ![p].batch = S]
  /\ reordered' = reordered \cup Passed(S, skip)
  /\ UNCHANGED <<beforehand, event, told>>

\* The pipeline holds the claimed rows in the order the claim returned them.
\* Faulty variant: without its last ORDER BY, in any order.
NextToSendAny(p, e) == e \in tick[p].batch

NextToSend(p, e) == e \in tick[p].batch /\ \A f \in tick[p].batch : e <= f

Told(e) == [told EXCEPT ![event[e].r] = event[e].status]

\* An XADD whose result is there and no error.
PublishEvent(p, e) ==
  /\ NextToSend(p, e)
  /\ tick' = [tick EXCEPT ![p].batch = @ \ {e}, ![p].sent = @ \cup {e}]
  /\ told' = Told(e)
  /\ UNCHANGED <<beforehand, event, outbox, reordered>>

\* An XADD that is reported as failed, whether it was executed or not.
PublishFails(p, e, added) ==
  /\ NextToSend(p, e)
  /\ tick' = [tick EXCEPT ![p].batch = @ \ {e}, ![p].refused = @ \cup {e}]
  /\ told' = IF added THEN Told(e) ELSE told
  /\ reordered' = reordered \cup {event[e].r}
  /\ UNCHANGED <<beforehand, event, outbox>>

\* status = 'processing' AND claim_token = mine.
HeldBy(p, e) == outbox[e].st \in {"claimed", "expired"} /\ outbox[e].by = p

\* markCollabOutboxPublished, one UPDATE.
MarkEventsPublished(p) ==
  /\ tick[p].batch = {} /\ tick[p].sent # {}
  /\ outbox' = [e \in Time |-> IF e \in tick[p].sent /\ HeldBy(p, e)
                               THEN Unclaimed("published") ELSE outbox[e]]
  /\ tick' = [tick EXCEPT ![p].sent = {}]
  /\ UNCHANGED <<beforehand, event, told, reordered>>

\* markCollabOutboxFailed: the row waits for its backoff.
MarkEventFailed(p, e) ==
  /\ tick[p].batch = {} /\ e \in tick[p].refused
  /\ outbox' = IF HeldBy(p, e) THEN [outbox EXCEPT ![e] = Unclaimed("waiting")] ELSE outbox
  /\ tick' = [tick EXCEPT ![p].refused = @ \ {e}]
  /\ UNCHANGED <<beforehand, event, told, reordered>>

\* Rows whose claim token nobody knows any more.
Forgotten(p, S) ==
  [e \in Time |-> IF e \in S /\ HeldBy(p, e) THEN [outbox[e] EXCEPT !.by = NoTick] ELSE outbox[e]]

\* One of these marks rejects; the others go on.
MarkRaises(p, S) ==
  /\ tick[p].batch = {} /\ S # {}
  /\ S \in {tick[p].sent} \cup {{e} : e \in tick[p].refused}
  /\ tick' = [tick EXCEPT ![p].sent = @ \ S, ![p].refused = @ \ S]
  /\ outbox' = Forgotten(p, S)
  /\ UNCHANGED <<beforehand, event, told, reordered>>

\* The process dies.
TickCrashes(p) ==
  /\ tick[p] # IdleTick
  /\ tick' = [tick EXCEPT ![p] = IdleTick]
  /\ outbox' = Forgotten(p, Time)
  /\ UNCHANGED <<beforehand, event, told, reordered>>

\* The backoff of the row is over.
RetryDue(e) ==
  /\ outbox[e].st = "waiting"
  /\ outbox' = [outbox EXCEPT ![e] = Unclaimed("due")]
  /\ UNCHANGED <<beforehand, event, tick, told, reordered>>

\* OUTBOX_CLAIM_TIMEOUT_MS passes: another tick may claim the row as well.
ClaimRunsOut(e) ==
  /\ outbox[e].st = "claimed"
  /\ outbox' = [outbox EXCEPT ![e].st = "expired"]
  /\ reordered' = reordered \cup {event[e].r}
  /\ UNCHANGED <<beforehand, event, tick, told>>

-----------------------------------------------------------------------------
(* The brief.                                                              *)

\* patchBrief: upsertBrief, and a row of the change log without a source.
PatchBrief ==
  /\ begun < MaxBegun /\ begun' = begun + 1
  /\ brief' = [brief EXCEPT !.log = @ + 1]
  /\ UNCHANGED <<request, creation, resolving, publication, approvals, overlapped, reordered>>

ChangeRequestNext ==
  \/ \E k \in Client, t \in Task : CheckOpenMinor(k, t)
  \/ \E k \in Client, r \in Request : CreateMinorChangeRequest(k, r)
  \/ \E k \in Client : CreationFails(k)
  \/ \E r \in Request : CreateFormalChangeRequest(r)
  \/ \E a \in Admin, r \in Request, status \in Verdict : BeginResolution(a, r, status)
  \/ \E a \in Admin : ResolveChangeRequest(a) \/ ResolutionFails(a)
  \/ \E p \in Tick :
       \/ \E skip \in SUBSET Due : ClaimEvents(p, skip)
       \/ \E e \in Time :
            PublishEvent(p, e) \/ (\E b \in BOOLEAN : PublishFails(p, e, b)) \/ MarkEventFailed(p, e)
       \/ MarkEventsPublished(p)
       \/ \E S \in SUBSET Time : MarkRaises(p, S)
       \/ TickCrashes(p)
  \/ \E e \in Time : RetryDue(e) \/ ClaimRunsOut(e)
  \/ PatchBrief

ChangeRequestSpec == ChangeRequestInit /\ [][ChangeRequestNext]_requestVars

-----------------------------------------------------------------------------
(* Properties.                                                             *)

ChangeRequestTypeOK ==
  /\ request \in [Request -> {NoRequest} \cup
       [type : {"minor", "formal"}, task : Task \cup {"none"}, status : {"open"} \cup Resolution]]
  /\ creation \in [Client -> [pc : {"idle", "insert"}, task : Task \cup {"none"}]]
  /\ begun \in 0..MaxBegun
  /\ resolving \in [Admin -> {NoResolving} \cup
       [pc : {"tx"}, r : Request, status : Resolution, at : Time]]
  /\ event \in [Time -> {NoEvent} \cup [r : Request, status : Resolution]]
  /\ outbox \in [Time -> [st : {"none", "due", "waiting", "claimed", "expired", "published"},
                          by : Tick \cup {NoTick}]]
  /\ tick \in [Tick -> [batch : SUBSET Time, sent : SUBSET Time, refused : SUBSET Time]]
  /\ told \in [Request -> {"none"} \cup Resolution]
  /\ brief \in [log : 0..MaxBegun, logOf : [Request -> 0..MaxBegun]]
  /\ approvals \in [Request -> 0..MaxBegun]
  /\ overlapped \subseteq Task /\ reordered \subseteq Request

\* A task has at most one open minor request, "Ya existe un ajuste menor abierto
\* para esta tarea": two can only come from creations that overlapped, since
\* nothing but the SELECT stands between them.
OneOpenMinor ==
  \A t \in Task \ overlapped : Cardinality(Open("minor", t)) <= 1

\* What the client is told last of a request is its status: once the rows of its
\* events are marked as published, a status that is announced agrees with the last
\* event sent, and the change log has one row for each approval of a formal request,
\* however often and in whatever order it was resolved, and while ticks of the outbox
\* overlap.  Only where one of these happened to events of the request may they have
\* been sent in another order: two resolutions overlapped; an XADD was reported as
\* failed; a claim ran out (its tick was slow, or crashed between sending and marking);
\* a tick claimed a later event while another had not sent an earlier one yet, or had
\* locked its row.
\* (Escalated, and the statuses of the other type, are set without telling anyone.)
ToldWhatHolds ==
  \A r \in Request :
    /\ request[r].type = "formal" => brief.logOf[r] = approvals[r]
    /\ /\ r \notin reordered
       /\ \A e \in Time : event[e].r = r => outbox[e].st = "published"
       /\ request[r].status = "rejected" \/ request[r].status =
             IF request[r].type = "formal" THEN "approved" ELSE "accepted"
       => told[r] = request[r].status

=============================================================================
