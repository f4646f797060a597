------------------------------ MODULE Identity ------------------------------
(***************************************************************************)
(* The local replica of one user's identity: crm-auth publishes what       *)
(* happens to the user in stream:auth.identity, the API processes read it  *)
(* as one consumer group and write user_identity_snapshots; what cannot be *)
(* processed goes to the dead letters, from where it may be put back.      *)
(*                                                                         *)
(*   cima-contracts/src/event-consumer.ts             RedisStreamConsumer  *)
(*   src/modules/collab/events/auth-event-handler.ts  handleAuthEvent      *)
(*   src/shared/identity-snapshot-store.ts            the upsert, the      *)
(*                                                    anonymisation        *)
(*   src/modules/collab/events/auth-events-dlq.ts     dead letters         *)
(*                                                                         *)
(* crm-auth and Redis are external.  Each Redis command and each database  *)
(* transaction is one step, and an answer may be lost after its effect.    *)
(* The profile cache of the processes is not part of this module.          *)
(***************************************************************************)
EXTENDS Integers, FiniteSets, Sequences, FiniteSetsExt

CONSTANTS
  NumEvents,   \* bound: what happens to the user, numbered in order
  Broken,      \* entries that fail parsing, their version or their schema
  Consumer,    \* API processes
  BatchSize,   \* batchSize, the COUNT of both reads
  MaxRetries,  \* AUTH_EVENTS_MAX_RETRIES
  NumEntries   \* bound: entries ever appended to the stream

ASSUME IdentityAssumption ==
  /\ NumEvents \in Nat
  /\ Broken \cap Int = {}
  /\ BatchSize \in Nat \ {0}
  /\ MaxRetries \in Nat \ {0}
  /\ NumEntries \in Nat

VARIABLES
  history,    \* what happened to the user: "upsert" or "deleted", in order
  stream,     \* the entries ever appended: event numbers, Shutdown, broken ones
  last,       \* last-delivered-id of the group
  pel,        \* the group's pending entries
  idle,       \* pending entries not delivered for AUTH_EVENTS_PENDING_IDLE_MS
  deliveries, \* delivery counter of each entry, counted up to MaxRetries
  pc,         \* where each consumer is in its loop
  origin,     \* the command its batch came from, "read" without a batch
  queue,      \* the rest of the batch
  count,      \* the delivery count it read before calling the handler
  row,        \* the snapshot row: the event it was written by, 0 without one
  applied,    \* history: the events whose handler has committed
  dlq,        \* entries sent to the dead letters and not removed by a replay, of
              \* which MAXLEN ~ AUTH_EVENTS_DLQ_MAXLEN may have dropped the oldest
  wanted,     \* a replay was requested from crm-auth
  disorder    \* history: something made processing leave the stream's order

redisVars == <<last, pel, idle, deliveries>>
loopVars == <<pc, origin, queue, count>>
vars == <<history, stream, redisVars, loopVars, row, applied, dlq, wanted, disorder>>

Event == 1 .. NumEvents
Shutdown == 0    \* the entry that wakes up a blocked read
Id == 1 .. NumEntries
Loc == {"down", "reclaim", "read", "validate", "handle", "ack", "failed", "dlq", "ackDead"}

Init ==
  /\ history = <<>> /\ stream = <<>>
  /\ last = 0 /\ pel = {} /\ idle = {}
  /\ deliveries = [i \in Id |-> 0]
  /\ pc = [c \in Consumer |-> "down"]
  /\ origin = [c \in Consumer |-> "read"]
  /\ queue = [c \in Consumer |-> {}]
  /\ count = [c \in Consumer |-> 1]
  /\ row = 0 /\ applied = {} /\ dlq = {}
  /\ wanted = FALSE /\ disorder = FALSE

Deleted == history # <<>> /\ history[Len(history)] = "deleted"

-----------------------------------------------------------------------------
(* crm-auth, the operator and time.                                        *)

Add(x) == Len(stream) < NumEntries /\ stream' = Append(stream, x)

\* crm-auth publishes the next event of the user: registered or updated, in
\* the end deleted.
AuthEmit(kind) ==
  /\ Len(history) < NumEvents /\ ~Deleted
  /\ kind = "deleted" => history # <<>>
  /\ history' = Append(history, kind)
  /\ Add(Len(history) + 1)
  /\ UNCHANGED <<redisVars, loopVars, row, applied, dlq, wanted, disorder>>

\* Something this consumer does not accept.
EmitBroken(x) ==
  /\ Add(x)
  /\ UNCHANGED <<history, redisVars, loopVars, row, applied, dlq, wanted, disorder>>

\* crm-auth answers a replay request with the users it has.
AuthReplay ==
  /\ wanted
  /\ wanted' = FALSE
  /\ IF history = <<>> \/ Deleted THEN UNCHANGED stream ELSE Add(Len(history))
  /\ UNCHANGED <<history, redisVars, loopVars, row, applied, dlq, disorder>>

\* replayAuthEventDlqEntry: XADD to the stream, then XDEL, if it is asked for
\* (removeAfterReplay); it is missed when the process dies.  An entry without a
\* payload is refused: the broken ones that are put back here are those with one.
\* (One that the MAXLEN of the dead letters has dropped could not be put back any
\* more; here it may be.)  The MAXLEN of this XADD, as that of crm-auth's, is left
\* out: no entry of the stream itself is dropped.
Replay(i, remove) ==
  /\ i \in dlq
  /\ Add(stream[i])
  /\ dlq' \in {dlq} \cup (IF remove THEN {dlq \ {i}} ELSE {})
  /\ disorder' = TRUE
  /\ UNCHANGED <<history, redisVars, loopVars, row, applied, wanted>>

\* startAuthDlqReplayer: one entry of its cycle, which has others between them.
AutoReplay(i) == Replay(i, TRUE)

IdleElapses(i) ==
  /\ i \in pel \ idle
  /\ idle' = idle \cup {i}
  /\ UNCHANGED <<history, stream, last, pel, deliveries, loopVars, row, applied, dlq,
                 wanted, disorder>>

-----------------------------------------------------------------------------
(* start, readLoop, reclaimPending.                                        *)

\* With an empty table a replay is requested, if the query and the XADD succeed.
CheckAndTriggerReplay == wanted' \in {wanted, wanted \/ row = 0}

\* The group starts at "0", so creating it changes nothing here.
Start(c) ==
  /\ pc[c] = "down"
  /\ pc' = [pc EXCEPT ![c] = "reclaim"]
  /\ CheckAndTriggerReplay
  /\ UNCHANGED <<history, stream, redisVars, origin, queue, count, row, applied, dlq, disorder>>

\* stop, whose XADD of the shutdown entry may fail, or a crash, which has none.
\* The 3 seconds stop waits for the loop may or may not be enough for the batch.
Stop(c) ==
  /\ pc[c] # "down"
  /\ Add(Shutdown) \/ UNCHANGED stream
  /\ pc' = [pc EXCEPT ![c] = "down"]
  /\ origin' = [origin EXCEPT ![c] = "read"]
  /\ queue' = [queue EXCEPT ![c] = {}]
  /\ count' = [count EXCEPT ![c] = 1]
  /\ UNCHANGED <<history, redisVars, row, applied, dlq, wanted, disorder>>

Lowest(S) == {i \in S : Cardinality({j \in S : j < i}) < BatchSize}

\* The loop's next command when the batch of "from" is done or abandoned: an
\* exception while reclaiming is swallowed, one while reading restarts the loop.
After(from) == IF from = "reclaim" THEN "read" ELSE "reclaim"

Begin(c, from, S) ==
  /\ queue' = [queue EXCEPT ![c] = S]
  /\ origin' = [origin EXCEPT ![c] = IF S = {} THEN "read" ELSE from]
  /\ pc' = [pc EXCEPT ![c] = IF S = {} THEN After(from) ELSE "validate"]
  /\ UNCHANGED count

\* XAUTOCLAIM from 0-0, once per turn; an error counts as nothing to reclaim.
Reclaim(c, S) ==
  /\ pc[c] = "reclaim"
  /\ S \in {{}, Lowest(idle)}
  /\ deliveries' = [i \in Id |-> IF i \in S /\ deliveries[i] < MaxRetries
                                 THEN deliveries[i] + 1 ELSE deliveries[i]]
  /\ idle' = idle \ S
  /\ disorder' = (disorder \/ S # {})
  /\ Begin(c, "reclaim", S)
  /\ UNCHANGED <<history, stream, last, pel, row, applied, dlq, wanted>>

\* XREADGROUP ... ">".
Read(c) ==
  /\ pc[c] = "read"
  /\ LET S == Lowest(last + 1 .. Len(stream)) IN
       /\ last' = Max({last} \cup S)
       /\ pel' = pel \cup S
       /\ deliveries' = [i \in Id |-> IF i \in S THEN 1 ELSE deliveries[i]]
       /\ disorder' = (disorder \/ (S # {} /\ \E d \in Consumer : queue[d] # {}))
       /\ Begin(c, "read", S)
  /\ UNCHANGED <<history, stream, idle, row, applied, dlq, wanted>>

-----------------------------------------------------------------------------
(* processMessages.                                                        *)

\* Faulty variant: the batch is worked through from its end.
CurrentNewest(c) == Max(queue[c])

Current(c) == Min(queue[c])

Continue(c) ==
  LET rest == queue[c] \ {Current(c)} IN
    /\ queue' = [queue EXCEPT ![c] = rest]
    /\ pc' = [pc EXCEPT ![c] = IF rest = {} THEN After(origin[c]) ELSE "validate"]
    /\ origin' = [origin EXCEPT ![c] = IF rest = {} THEN "read" ELSE @]
    /\ count' = [count EXCEPT ![c] = 1]

\* An exception leaves processMessages: the rest of the batch stays pending.
Abandon(c) ==
  /\ queue' = [queue EXCEPT ![c] = {}]
  /\ pc' = [pc EXCEPT ![c] = After(origin[c])]
  /\ origin' = [origin EXCEPT ![c] = "read"]
  /\ count' = [count EXCEPT ![c] = 1]

\* getDeliveryCount: 1 when the entry is no longer pending or Redis fails.
DeliveryCounts(i) == {1} \cup (IF i \in pel THEN {deliveries[i]} ELSE {})

\* A shutdown entry is confirmed, a broken one goes to the dead letters at once;
\* for the others the delivery count is read.
\* Faulty variant: a shutdown entry is taken for one without a payload.
ValidateShutdownDead(c, n) ==
  /\ pc[c] = "validate"
  /\ LET i == Current(c) IN
       \/ stream[i] \in Broken \cup {Shutdown} /\ n = 1 /\ pc' = [pc EXCEPT ![c] = "dlq"]
       \/ /\ stream[i] \in Event
          /\ n \in DeliveryCounts(i)
          /\ pc' = [pc EXCEPT ![c] = "handle"]
  /\ count' = [count EXCEPT ![c] = n]
  /\ UNCHANGED <<history, stream, redisVars, origin, queue, row, applied, dlq, wanted, disorder>>

Validate(c, n) ==
  /\ pc[c] = "validate"
  /\ LET i == Current(c) IN
       \/ stream[i] = Shutdown /\ n = 1 /\ pc' = [pc EXCEPT ![c] = "ackDead"]
       \/ stream[i] \in Broken /\ n = 1 /\ pc' = [pc EXCEPT ![c] = "dlq"]
       \/ /\ stream[i] \in Event
          /\ n \in DeliveryCounts(i)
          /\ pc' = [pc EXCEPT ![c] = "handle"]
  /\ count' = [count EXCEPT ![c] = n]
  /\ UNCHANGED <<history, stream, redisVars, origin, queue, row, applied, dlq, wanted, disorder>>

\* Whatever the row holds is overwritten or deleted.
UpsertUserIdentitySnapshot(k) == row' = k
AnonymizeUserPII == row' = 0

Apply(k) ==
  /\ IF history[k] = "deleted" THEN AnonymizeUserPII ELSE UpsertUserIdentitySnapshot(k)
  /\ applied' = applied \cup {k}

HandleAuthEvent(c) ==
  /\ pc[c] = "handle"
  /\ Apply(stream[Current(c)])
  /\ pc' = [pc EXCEPT ![c] = "ack"]
  /\ UNCHANGED <<history, stream, redisVars, origin, queue, count, dlq, wanted, disorder>>

\* The handler throws, perhaps after its statement committed.
HandlerFails(c) ==
  /\ pc[c] = "handle"
  /\ Apply(stream[Current(c)]) \/ UNCHANGED <<row, applied>>
  /\ pc' = [pc EXCEPT ![c] = "failed"]
  /\ UNCHANGED <<history, stream, redisVars, origin, queue, count, dlq, wanted, disorder>>

Ack(c) ==
  /\ pc[c] \in {"ack", "ackDead"}
  /\ pel' = pel \ {Current(c)}
  /\ idle' = idle \ {Current(c)}
  /\ Continue(c)
  /\ UNCHANGED <<history, stream, last, deliveries, row, applied, dlq, wanted, disorder>>

\* The XACK throws, done or not.  After the handler it is inside the try, so it
\* is treated as a failure of the handler.
AckFails(c) ==
  /\ pc[c] \in {"ack", "ackDead"}
  /\ pel' \in {pel, pel \ {Current(c)}}
  /\ idle' = idle \cap pel'
  /\ IF pc[c] = "ack"
       THEN pc' = [pc EXCEPT ![c] = "failed"] /\ UNCHANGED <<origin, queue, count>>
       ELSE Abandon(c)
  /\ UNCHANGED <<history, stream, last, deliveries, row, applied, dlq, wanted, disorder>>

\* Faulty variant: what could be retried is confirmed.
FailedConfirms(c) ==
  /\ pc[c] = "failed"
  /\ pc' = [pc EXCEPT ![c] = IF count[c] < MaxRetries THEN "ackDead" ELSE "dlq"]
  /\ UNCHANGED <<history, stream, redisVars, origin, queue, count, row, applied, dlq, wanted,
                 disorder>>

\* Left pending for a retry, or to the dead letters.
Failed(c) ==
  /\ pc[c] = "failed"
  /\ IF count[c] < MaxRetries
       THEN Continue(c)
       ELSE pc' = [pc EXCEPT ![c] = "dlq"] /\ UNCHANGED <<origin, queue, count>>
  /\ UNCHANGED <<history, stream, redisVars, row, applied, dlq, wanted, disorder>>

\* handleDlq and appendAuthEventToDlq.  What its MAXLEN drops stays in "dlq", which
\* says what was sent there.
AppendAuthEventToDlq(i) == dlq' = dlq \cup {i}

SendToDlq(c) ==
  /\ pc[c] = "dlq"
  /\ AppendAuthEventToDlq(Current(c))
  /\ pc' = [pc EXCEPT ![c] = "ackDead"]
  /\ UNCHANGED <<history, stream, redisVars, origin, queue, count, row, applied, wanted, disorder>>

\* The XADD throws, done or not.
SendToDlqFails(c) ==
  /\ pc[c] = "dlq"
  /\ AppendAuthEventToDlq(Current(c)) \/ UNCHANGED dlq
  /\ Abandon(c)
  /\ UNCHANGED <<history, stream, redisVars, row, applied, wanted, disorder>>

-----------------------------------------------------------------------------

Next ==
  \/ \E kind \in {"upsert", "deleted"} : AuthEmit(kind)
  \/ \E x \in Broken : EmitBroken(x)
  \/ AuthReplay
  \/ \E i \in Id : AutoReplay(i) \/ Replay(i, FALSE)
  \/ \E i \in Id : IdleElapses(i)
  \/ \E c \in Consumer :
       \/ Start(c)
       \/ Stop(c)
       \/ \E S \in SUBSET Id : Reclaim(c, S)
       \/ Read(c)
       \/ \E n \in 1 .. MaxRetries : Validate(c, n)
       \/ HandleAuthEvent(c)
       \/ HandlerFails(c)
       \/ Ack(c)
       \/ AckFails(c)
       \/ Failed(c)
       \/ SendToDlq(c)
       \/ SendToDlqFails(c)

Spec == Init /\ [][Next]_vars

-----------------------------------------------------------------------------
(* Properties.                                                             *)

\* Every variable has its type: only events and broken entries become dead letters,
\* and may be put back into the stream, never the shutdown entry of a process.
TypeOK ==
  /\ history \in Seq({"upsert", "deleted"}) /\ Len(history) <= NumEvents
  /\ stream \in Seq(Event \cup {Shutdown} \cup Broken) /\ Len(stream) <= NumEntries
  /\ last \in 0 .. Len(stream)
  /\ pel \subseteq 1 .. last
  /\ idle \subseteq pel
  /\ deliveries \in [Id -> 0 .. MaxRetries]
  /\ pc \in [Consumer -> Loc]
  /\ origin \in [Consumer -> {"reclaim", "read"}]
  /\ queue \in [Consumer -> SUBSET (1 .. last)]
  /\ count \in [Consumer -> 1 .. MaxRetries]
  /\ row \in 0 .. Len(history)
  /\ applied \subseteq 1 .. Len(history)
  /\ dlq \subseteq {i \in 1 .. last : stream[i] # Shutdown}
  /\ wanted \in BOOLEAN /\ disorder \in BOOLEAN

\* An entry needs nothing more: it was applied or asks for nothing, it was sent
\* to the dead letters, or it was put back into the stream from there.
Settled(i) ==
  \/ stream[i] \in applied \cup {Shutdown}
  \/ i \in dlq
  \/ \E j \in i + 1 .. Len(stream) : stream[j] = stream[i]

\* No identity event is lost, whoever crashes, steals entries or loses answers:
\* an entry that is no longer pending is settled.  It says nothing of the two
\* streams' own limits: the dead letters keep the newest AUTH_EVENTS_DLQ_MAXLEN, so
\* an older dead letter may be gone before anybody puts it back, and putting one
\* back may push the stream over its MAXLEN.
NothingLost == \A i \in 1 .. last \ pel : Settled(i)

\* The consumers have nothing left to do and there are no dead letters.
Quiet == pel = {} /\ last = Len(stream) /\ dlq = {} /\ \A c \in Consumer : queue[c] = {}

\* The row shows the last thing that happened to the user.
IsCurrent == row = IF Deleted THEN 0 ELSE Len(history)

\* The replica is right once everything is processed, as long as no entry was
\* delivered twice, put back from the dead letters or processed while another
\* consumer had a batch: failures, crashes, broken entries and replays by
\* crm-auth alone do no harm.
OrderlyConverges == Quiet /\ ~disorder => IsCurrent

\* TESTING.md: "eventos duplicados o reprocesados no generen inconsistencias ni
\* corrompan el estado local".  The replica is right once everything is
\* processed, retries included.
ReprocessedHarmless == Quiet => IsCurrent

Ended == {i \in 1 .. Len(stream) : Settled(i)}

\* The consumers keep the safety part of the promise of a consumer group.
Group == INSTANCE ConsumerGroup WITH
  Entry <- Id, given <- 1 .. last, ended <- Ended, confirmed <- 1 .. last \ pel

\* An identity event leaves the pending list only after it was applied, became
\* a dead letter or was put back, and never becomes pending again.
ImplementsGroupSafety == Group!Safety
=============================================================================
