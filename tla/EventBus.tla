------------------------------ MODULE EventBus ------------------------------
(***************************************************************************)
(* The consuming side of stream:collab.events: the API processes read it   *)
(* as one Redis consumer group, hand every event to the local handlers     *)
(* (the notification writer), acknowledge what succeeded, leave what       *)
(* failed pending, and move it to the dead-letter stream after             *)
(* COLLAB_EVENTS_MAX_RETRIES deliveries.                                   *)
(*                                                                         *)
(*   src/modules/collab/events/redis-streams.event-bus.ts                  *)
(*   src/modules/collab/notification/activity-notification.handler.ts      *)
(*                                                                         *)
(* Redis (the stream, its trimming, the group's pending list) is external  *)
(* and modelled by the commands the code sends it; each command and each   *)
(* database statement is one step.  The environment appends: the outbox    *)
(* worker appends an event once or, after a retry, several times.          *)
(***************************************************************************)
EXTENDS Integers, FiniteSets, Sequences, FiniteSetsExt

CONSTANTS
  Event,      \* events, by their id
  Poison,     \* events whose handlers always throw
  Junk,       \* entries without a parsable payload, and shutdown sentinels
  Consumer,   \* API processes
  BatchSize,  \* COLLAB_EVENTS_BATCH_SIZE, the COUNT of both reads
  MaxRetries, \* COLLAB_EVENTS_MAX_RETRIES
  MaxLen,     \* REDIS_STREAMS_MAXLEN
  NumEntries  \* bound: entries ever appended

ASSUME BusAssumption ==
  /\ Poison \subseteq Event
  /\ Junk \cap Event = {}
  /\ BatchSize \in Nat \ {0}
  /\ MaxRetries \in Nat \ {0}
  /\ MaxLen \in Nat \ {0}
  /\ NumEntries \in Nat

VARIABLES
  stream,     \* the entries ever appended, in order; an id is an index
  trimmed,    \* ids up to this one were dropped by MAXLEN
  group,      \* -1: no group yet; else the id the group was created at
  last,       \* last-delivered-id of the group
  pel,        \* the group's pending entries
  idle,       \* pending entries not delivered for COLLAB_EVENTS_PENDING_IDLE_MS
  deliveries, \* delivery counter of each entry, counted up to MaxRetries
  pc,         \* where each consumer is in its read loop
  queue,      \* the rest of the batch it is working through
  scan,       \* startId of its next XAUTOCLAIM; ScanDone: the read comes next
  handled,    \* events whose notifications are in the database
  dlq         \* entries sent to the dead-letter stream, of which MAXLEN ~
              \* COLLAB_EVENTS_DLQ_MAXLEN may since have dropped the oldest

redisVars == <<stream, trimmed, group, last, pel, idle, deliveries>>
vars == <<redisVars, pc, queue, scan, handled, dlq>>

Id == 1 .. NumEntries
ScanDone == -1
Loc == {"down", "recover", "read", "dispatch", "failed", "dlq", "ack"}

Init ==
  /\ stream = <<>>
  /\ trimmed = 0
  /\ group = -1
  /\ last = 0
  /\ pel = {}
  /\ idle = {}
  /\ deliveries = [i \in Id |-> 0]
  /\ pc = [c \in Consumer |-> "down"]
  /\ queue = [c \in Consumer |-> {}]
  /\ scan = [c \in Consumer |-> 0]
  /\ handled = {}
  /\ dlq = {}

-----------------------------------------------------------------------------
(* The environment and time.                                               *)

\* XADD MAXLEN ~ of the outbox worker, or the sentinel of disconnect.  "~" lets
\* Redis keep more than MaxLen entries, never fewer.
Emit(x) ==
  /\ Len(stream) < NumEntries
  /\ stream' = Append(stream, x)
  /\ trimmed' \in trimmed .. Max({trimmed, Len(stream) + 1 - MaxLen})
  /\ UNCHANGED <<group, last, pel, idle, deliveries, pc, queue, scan,
                 handled, dlq>>

IdleElapses(i) ==
  /\ i \in pel \ idle
  /\ idle' = idle \cup {i}
  /\ UNCHANGED <<stream, trimmed, group, last, pel, deliveries, pc, queue,
                 scan, handled, dlq>>

-----------------------------------------------------------------------------
(* connect and readLoop.                                                   *)

\* connect: XGROUP CREATE at "$" the first time, "already exists" later on.
Connect(c) ==
  /\ pc[c] = "down"
  /\ IF group = -1
       THEN group' = Len(stream) /\ last' = Len(stream)
       ELSE UNCHANGED <<group, last>>
  /\ pc' = [pc EXCEPT ![c] = "recover"]
  /\ UNCHANGED <<stream, trimmed, pel, idle, deliveries, queue, scan, handled, dlq>>

\* COUNT BatchSize: the entries with the lowest ids.
Lowest(S) == {i \in S : Cardinality({j \in S : j < i}) < BatchSize}

\* Start working through the batch S; without one, go on to "else".  The loop
\* goes on afterwards with the XAUTOCLAIM from "next".
Begin(c, S, else, next) ==
  /\ scan' = [scan EXCEPT ![c] = next]
  /\ queue' = [queue EXCEPT ![c] = S]
  /\ pc' = [pc EXCEPT ![c] = IF S = {} THEN else ELSE "dispatch"]

\* nextStartId: XAUTOCLAIM stops at BatchSize entries or at the end of the
\* pending list, which it reports as 0-0.
NextStart(taken) ==
  LET after == {i \in pel : \A j \in taken : j < i} IN
    IF Cardinality(taken) < BatchSize \/ after = {} THEN 0 ELSE Min(after)

\* recoverPendingMessages: XAUTOCLAIM of the entries from startId on that are
\* idle for long enough.  Entries that MAXLEN dropped leave the pending list
\* and are not returned.  The scan goes on after the batch, unless it is where
\* it was before.
\* Faulty variant: with a min-idle-time of 0.
RecoverAtOnce(c) ==
  /\ pc[c] = "recover"
  /\ LET taken == Lowest({i \in pel : i >= scan[c]})
         S == {i \in taken : i > trimmed}
         next == NextStart(taken) IN
       /\ deliveries' = [i \in Id |-> IF i \in S /\ deliveries[i] < MaxRetries
                                      THEN deliveries[i] + 1 ELSE deliveries[i]]
       /\ pel' = pel \ (taken \ S)
       /\ idle' = idle \ taken
       /\ Begin(c, S, "read", IF S = {} \/ next = scan[c] THEN ScanDone ELSE next)
  /\ UNCHANGED <<stream, trimmed, group, last, handled, dlq>>

Recover(c) ==
  /\ pc[c] = "recover"
  /\ LET taken == Lowest({i \in pel : i >= scan[c] /\ (i \in idle \/ i <= trimmed)})
         S == {i \in taken : i > trimmed}
         next == NextStart(taken) IN
       /\ deliveries' = [i \in Id |-> IF i \in S /\ deliveries[i] < MaxRetries
                                      THEN deliveries[i] + 1 ELSE deliveries[i]]
       /\ pel' = pel \ (taken \ S)
       /\ idle' = idle \ taken
       /\ Begin(c, S, "read", IF S = {} \/ next = scan[c] THEN ScanDone ELSE next)
  /\ UNCHANGED <<stream, trimmed, group, last, handled, dlq>>

\* XREADGROUP ... ">": entries never delivered to the group, or none when the
\* BLOCK times out.
Read(c) ==
  /\ pc[c] = "read"
  /\ LET S == Lowest({i \in last + 1 .. Len(stream) : i > trimmed}) IN
       /\ last' = Max({last} \cup S)
       /\ pel' = pel \cup S
       /\ deliveries' = [i \in Id |-> IF i \in S THEN 1 ELSE deliveries[i]]
       /\ Begin(c, S, "recover", 0)
  /\ UNCHANGED <<stream, trimmed, group, idle, handled, dlq>>

-----------------------------------------------------------------------------
(* processMessages and processMessage.                                     *)

Current(c) == Min(queue[c])

\* Go on with the next entry of the batch, or with the loop.
Continue(c) ==
  LET rest == queue[c] \ {Current(c)} IN
    /\ queue' = [queue EXCEPT ![c] = rest]
    /\ pc' = [pc EXCEPT ![c] = IF rest # {} THEN "dispatch"
                              ELSE IF scan[c] = ScanDone THEN "read" ELSE "recover"]
    /\ UNCHANGED scan

\* An exception leaves processMessages: the rest of the batch stays pending.
Abandon(c) ==
  /\ queue' = [queue EXCEPT ![c] = {}]
  /\ scan' = [scan EXCEPT ![c] = 0]
  /\ pc' = [pc EXCEPT ![c] = "recover"]

\* persistActivityNotification: a row per recipient, ON CONFLICT DO NOTHING for
\* the ones that are there already.
Notify(x) == handled' = handled \cup {x}

\* Entries without a usable payload are confirmed and dropped.  Otherwise all
\* handlers ran and none threw.
\* Faulty variant: without the early returns, whatever the payload is.
DispatchOkUnparsed(c) ==
  /\ pc[c] = "dispatch"
  /\ stream[Current(c)] \notin Poison
  /\ Notify(stream[Current(c)])
  /\ pc' = [pc EXCEPT ![c] = "ack"]
  /\ UNCHANGED <<redisVars, queue, scan, dlq>>

DispatchOk(c) ==
  /\ pc[c] = "dispatch"
  /\ LET x == stream[Current(c)] IN
       /\ x \notin Poison
       /\ IF x \in Junk THEN UNCHANGED handled ELSE Notify(x)
  /\ pc' = [pc EXCEPT ![c] = "ack"]
  /\ UNCHANGED <<redisVars, queue, scan, dlq>>

\* Faulty variant: the entry is confirmed although a handler threw.
DispatchFailsSilently(c) ==
  /\ pc[c] = "dispatch"
  /\ stream[Current(c)] \notin Junk
  /\ pc' = [pc EXCEPT ![c] = "ack"]
  /\ UNCHANGED <<redisVars, queue, scan, handled, dlq>>

\* A handler throws; an INSERT whose answer is lost may still have happened.
DispatchFails(c) ==
  /\ pc[c] = "dispatch"
  /\ LET x == stream[Current(c)] IN
       /\ x \notin Junk
       /\ \/ UNCHANGED handled
          \/ x \notin Poison /\ Notify(x)
  /\ pc' = [pc EXCEPT ![c] = "failed"]
  /\ UNCHANGED <<redisVars, queue, scan, dlq>>

\* getDeliveryCount: XPENDING of the entry; 1 when it is no longer pending or
\* when Redis does not answer.
DeliveryCounts(i) == {1} \cup (IF i \in pel THEN {deliveries[i]} ELSE {})

\* Faulty variants: one delivery too few, and a limit that is never reached.
AfterFailureEarly(c, n) ==
  /\ pc[c] = "failed"
  /\ n \in DeliveryCounts(Current(c))
  /\ IF n + 1 >= MaxRetries
       THEN pc' = [pc EXCEPT ![c] = "dlq"] /\ UNCHANGED <<queue, scan>>
       ELSE Continue(c)
  /\ UNCHANGED <<redisVars, handled, dlq>>

AfterFailureNever(c, n) ==
  /\ pc[c] = "failed"
  /\ n \in DeliveryCounts(Current(c))
  /\ Continue(c)
  /\ UNCHANGED <<redisVars, handled, dlq>>

\* Deliveries used up: to the dead-letter stream, else left pending.
AfterFailure(c, n) ==
  /\ pc[c] = "failed"
  /\ n \in DeliveryCounts(Current(c))
  /\ IF n >= MaxRetries
       THEN pc' = [pc EXCEPT ![c] = "dlq"] /\ UNCHANGED <<queue, scan>>
       ELSE Continue(c)
  /\ UNCHANGED <<redisVars, handled, dlq>>

\* sendToDlq.  Nothing in the code reads the dead-letter stream again, and what its
\* own MAXLEN drops is not modelled.
SendToDlq(c) ==
  /\ pc[c] = "dlq"
  /\ dlq' = dlq \cup {Current(c)}
  /\ pc' = [pc EXCEPT ![c] = "ack"]
  /\ UNCHANGED <<redisVars, queue, scan, handled>>

\* The XADD to the dead-letter stream throws, done or not.
SendToDlqFails(c) ==
  /\ pc[c] = "dlq"
  /\ dlq' \in {dlq, dlq \cup {Current(c)}}
  /\ Abandon(c)
  /\ UNCHANGED <<redisVars, handled>>

\* XACK, by whichever consumer has the entry in hand.
Ack(c) ==
  /\ pc[c] = "ack"
  /\ pel' = pel \ {Current(c)}
  /\ idle' = idle \ {Current(c)}
  /\ Continue(c)
  /\ UNCHANGED <<stream, trimmed, group, last, deliveries, handled, dlq>>

\* The XACK throws, done or not.
AckFails(c) ==
  /\ pc[c] = "ack"
  /\ pel' \in {pel, pel \ {Current(c)}}
  /\ idle' = idle \cap pel'
  /\ Abandon(c)
  /\ UNCHANGED <<stream, trimmed, group, last, deliveries, handled, dlq>>

\* The process stops, by disconnect or by a crash, and loses its batch.
Stop(c) ==
  /\ pc[c] # "down"
  /\ pc' = [pc EXCEPT ![c] = "down"]
  /\ queue' = [queue EXCEPT ![c] = {}]
  /\ scan' = [scan EXCEPT ![c] = 0]
  /\ UNCHANGED <<redisVars, handled, dlq>>

-----------------------------------------------------------------------------

Step(c) ==
  \/ Connect(c)
  \/ Recover(c)
  \/ Read(c)
  \/ DispatchOk(c)
  \/ DispatchFails(c)
  \/ \E n \in 1 .. MaxRetries : AfterFailure(c, n)
  \/ SendToDlq(c)
  \/ SendToDlqFails(c)
  \/ Ack(c)
  \/ AckFails(c)
  \/ Stop(c)

Next ==
  \/ \E x \in Event \cup Junk : Emit(x)
  \/ \E i \in Id : IdleElapses(i)
  \/ \E c \in Consumer : Step(c)

Spec == Init /\ [][Next]_vars

(***************************************************************************)
(* Fairness.  The API processes are started again after they stop, the     *)
(* read loop goes round, pending entries grow idle.  Answers may be lost   *)
(* and processes die often, but not every time: what the processes attempt *)
(* again and again succeeds sometimes, in some of them, except a handler   *)
(* that always throws.                                                     *)
(***************************************************************************)
Loop(c) ==
  \/ Recover(c) \/ Read(c) \/ DispatchOk(c) \/ DispatchFails(c)
  \/ \E n \in 1 .. MaxRetries : AfterFailure(c, n)
  \/ SendToDlq(c) \/ SendToDlqFails(c) \/ Ack(c) \/ AckFails(c)

HandlersDecide(c) ==
  \/ DispatchOk(c)
  \/ DispatchFails(c) /\ stream[Current(c)] \in Poison

Fairness ==
  /\ \A i \in Id : WF_vars(IdleElapses(i))
  /\ \A c \in Consumer : WF_vars(Connect(c)) /\ WF_vars(Loop(c))
  /\ SF_vars(\E c \in Consumer : Recover(c))
  /\ SF_vars(\E c \in Consumer : HandlersDecide(c))
  /\ SF_vars(\E c \in Consumer : AfterFailure(c, MaxRetries))
  /\ SF_vars(\E c \in Consumer : SendToDlq(c))
  /\ SF_vars(\E c \in Consumer : Ack(c))

FairSpec == Spec /\ Fairness

-----------------------------------------------------------------------------
(* Properties.                                                             *)

\* Every variable has its type: nothing but events is handed to the handlers, never
\* a malformed entry or the sentinel of a shutdown.
TypeOK ==
  /\ stream \in Seq(Event \cup Junk) /\ Len(stream) <= NumEntries
  /\ trimmed \in 0 .. Len(stream)
  /\ group \in -1 .. Len(stream)
  /\ last \in 0 .. Len(stream)
  /\ pel \subseteq Id
  /\ idle \subseteq pel
  /\ deliveries \in [Id -> 0 .. MaxRetries]
  /\ pc \in [Consumer -> Loc]
  /\ queue \in [Consumer -> SUBSET Id]
  /\ scan \in [Consumer -> ScanDone .. NumEntries]
  /\ handled \subseteq Event
  /\ dlq \subseteq Id

\* An entry needs nothing more: it is junk, its event is handled, or it was sent
\* to the dead-letter stream.
Accounted(i) == stream[i] \in Junk \/ stream[i] \in handled \/ i \in dlq

\* No event is silently dropped: an entry the group was given and that is no
\* longer pending is accounted for, whichever consumers processed it at the
\* same time, crashed or lost an answer - unless MAXLEN dropped it first.  (The
\* dead-letter stream has a MAXLEN of its own: a dead letter may be gone later.)
NoSilentDrop ==
  \A i \in 1 .. Len(stream) :
    group < i /\ i <= last /\ i \notin pel => Accounted(i) \/ i <= trimmed

\* An event is given up on only after it was delivered MaxRetries times.
DlqAfterRetries == \A i \in dlq : deliveries[i] >= MaxRetries

\* The entries the group was given, and those nothing more has to happen to.
Given == {i \in Id : deliveries[i] > 0}
Ended == {i \in 1 .. Len(stream) : Accounted(i) \/ i <= trimmed}

\* The consumers keep the promise of a consumer group: an entry leaves the
\* pending list only after it has ended, never comes back, and leaves it in the
\* end - neither an event whose handlers always throw nor a consumer that keeps
\* dying in the middle of a batch keeps it, or the entries behind it, pending.
Group == INSTANCE ConsumerGroup WITH
  Entry <- Id, given <- Given, ended <- Ended, confirmed <- Given \ pel

\* The consumers, under their fairness, keep all of it.
ImplementsGroup == Group!Spec

\* The safety part of the refinement.
ImplementsGroupSafety == Group!Safety
=============================================================================
