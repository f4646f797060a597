---------------------------- MODULE MediaProofs ----------------------------
(***************************************************************************)
(* Proofs about the circuit breaker of the media client, for any number of *)
(* commands in flight and any threshold, and about the files of a project, *)
(* for any number of files, keys and requests in flight.                   *)
(***************************************************************************)
EXTENDS CircuitBreaker, Files, ExtremaLemmas, TLAPS

(* The breaker.                                                            *)

\* The evidence of a closed breaker is what was recorded since it closed.
Weighs == breaker.state = "CLOSED" =>
            weighed = MinRequests \/ breaker.failures + breaker.successes <= weighed

BreakerInv == BreakerTypeOK /\ Weighs

\* A shorthand for the records the breaker may be, whatever its counts.
Breakers == [state : {"CLOSED", "OPEN", "HALF_OPEN"}, failures : Nat, successes : Nat,
             cooled : BOOLEAN]

\* The records the methods build, field by field.
LEMMA TransitionToIs ==
  ASSUME NEW b \in Breakers, NEW st \in {"CLOSED", "OPEN", "HALF_OPEN"}
  PROVE  LET r == TransitionTo(b, st) IN
         /\ r \in Breakers /\ r.state = st
         /\ r.failures = b.failures /\ r.successes = b.successes
  BY DEF TransitionTo, Breakers

\* The breaker after its counters are set.
LEMMA CountsAre ==
  ASSUME NEW b \in Breakers, NEW f \in Nat, NEW s \in Nat
  PROVE  /\ LET r == [b EXCEPT !.failures = f, !.successes = s] IN
            /\ r \in Breakers /\ r.state = b.state
            /\ r.failures = f /\ r.successes = s
         /\ LET r == [b EXCEPT !.failures = f] IN
            /\ r \in Breakers /\ r.state = b.state
            /\ r.failures = f /\ r.successes = b.successes
         /\ LET r == [b EXCEPT !.successes = s] IN
            /\ r \in Breakers /\ r.state = b.state
            /\ r.failures = b.failures /\ r.successes = s
  BY DEF Breakers

\* What recordFailure does: nothing to an open breaker, it opens a half-open one,
\* and opens a closed one only when there are enough outcomes in the window.
LEMMA RecordFailureIs ==
  ASSUME NEW b \in Breakers
  PROVE  LET r == RecordFailure(b) IN
         /\ r \in Breakers
         /\ b.state = "OPEN" => r = b
         /\ b.state # "OPEN" => /\ r.failures = b.failures + 1
                                /\ r.successes = b.successes
         /\ b.state = "HALF_OPEN" => r.state = "OPEN"
         /\ b.state = "CLOSED" => r.state \in {"CLOSED", "OPEN"}
         /\ b.state = "CLOSED" /\ r.state = "OPEN" =>
              b.failures + 1 + b.successes >= MinRequests
  <1> DEFINE b1 == [b EXCEPT !.failures = b.failures + 1]
  <1>1. b.failures + 1 \in Nat /\ b.successes \in Nat
    BY DEF Breakers
  <1>2. /\ b1 \in Breakers /\ b1.state = b.state
        /\ b1.failures = b.failures + 1 /\ b1.successes = b.successes
    BY <1>1, CountsAre
  <1>3. RecordFailure(b) = IF b.state = "OPEN" THEN b ELSE CheckFailureRate(b1)
    BY DEF RecordFailure
  <1> HIDE DEF b1
  <1>4. CheckFailureRate(b1) =
          IF b1.state = "HALF_OPEN" \/ RateExceeded(b1) THEN TransitionTo(b1, "OPEN") ELSE b1
    BY DEF CheckFailureRate
  <1>5. RateExceeded(b1) => b.failures + 1 + b.successes >= MinRequests
    BY <1>2 DEF RateExceeded
  <1>6. LET r == TransitionTo(b1, "OPEN") IN
        r \in Breakers /\ r.state = "OPEN" /\ r.failures = b1.failures /\ r.successes = b1.successes
    BY <1>2, TransitionToIs
  <1>7. b.state \in {"CLOSED", "OPEN", "HALF_OPEN"}
    BY DEF Breakers
  <1>8. QED
    BY <1>2, <1>3, <1>4, <1>5, <1>6, <1>7

\* What recordSuccess does: it closes a half-open breaker with an empty window, and
\* counts in a closed one.
LEMMA RecordSuccessIs ==
  ASSUME NEW b \in Breakers
  PROVE  LET r == RecordSuccess(b) IN
         /\ r \in Breakers
         /\ b.state = "OPEN" => r = b
         /\ b.state = "HALF_OPEN" => r.state = "CLOSED" /\ r.failures = 0 /\ r.successes = 0
         /\ b.state = "CLOSED" => /\ r.state = "CLOSED" /\ r.failures = b.failures
                                  /\ r.successes = b.successes + 1
  <1> DEFINE b1 == TransitionTo(b, "CLOSED")
             b2 == [b1 EXCEPT !.failures = 0, !.successes = 0]
             b3 == [b EXCEPT !.successes = b.successes + 1]
  <1>1. b1 \in Breakers /\ b1.state = "CLOSED"
    BY TransitionToIs
  <1>2. b2 \in Breakers /\ b2.state = "CLOSED" /\ b2.failures = 0 /\ b2.successes = 0
    <2> HIDE DEF b1
    <2>1. QED
      BY <1>1 DEF Breakers
  <1>3. /\ b3 \in Breakers /\ b3.state = b.state /\ b3.failures = b.failures
        /\ b3.successes = b.successes + 1
    <2>1. b.successes \in Nat /\ b.successes + 1 \in Nat
      BY DEF Breakers
    <2>2. QED
      BY <2>1, CountsAre, Zenon
  <1>4. /\ b.state = "HALF_OPEN" => RecordSuccess(b) = b2
        /\ b.state = "CLOSED" => RecordSuccess(b) = b3
        /\ b.state = "OPEN" => RecordSuccess(b) = b
    BY DEF RecordSuccess
  <1>5. b.state \in {"CLOSED", "OPEN", "HALF_OPEN"}
    BY DEF Breakers
  <1> HIDE DEF b1, b2, b3
  <1>6. QED
    BY <1>2, <1>3, <1>4, <1>5

\* What an answer does to the breaker, in the terms of the invariant.
LEMMA RecordedIs ==
  ASSUME NEW b \in Breakers, NEW outcome \in Outcome
  PROVE  LET r == Recorded(b, outcome)
             w == Weight(outcome)
         IN
         /\ r \in Breakers
         /\ r.failures + r.successes <= b.failures + b.successes + w
         /\ b.state = "OPEN" => r = b
         /\ r.state = "CLOSED" /\ b.state # "CLOSED" => r.failures = 0 /\ r.successes = 0
         /\ b.state = "CLOSED" /\ r.state = "OPEN" =>
              b.failures + b.successes + w >= MinRequests
         /\ w \in 0..2
  <1>1. CASE outcome = "success"
    BY <1>1, RecordSuccessIs DEF Recorded, Weight, Breakers
  <1>2. CASE outcome = "failure"
    BY <1>2, RecordFailureIs DEF Recorded, Weight, Breakers
  <1>3. CASE outcome = "malformed"
    <2> DEFINE b1 == RecordFailure(b)
               b2 == RecordFailure(b1)
    <2>1. Recorded(b, outcome) = b2 /\ Weight(outcome) = 2
      BY <1>3 DEF Recorded, Weight
    <2>2. /\ b1 \in Breakers
          /\ b.state = "OPEN" => b1 = b
          /\ b.state # "OPEN" => b1.failures = b.failures + 1 /\ b1.successes = b.successes
          /\ b.state = "HALF_OPEN" => b1.state = "OPEN"
          /\ b.state = "CLOSED" => b1.state \in {"CLOSED", "OPEN"}
          /\ b.state = "CLOSED" /\ b1.state = "OPEN" =>
               b.failures + 1 + b.successes >= MinRequests
      BY RecordFailureIs
    <2>3. /\ b2 \in Breakers
          /\ b1.state = "OPEN" => b2 = b1
          /\ b1.state # "OPEN" => b2.failures = b1.failures + 1 /\ b2.successes = b1.successes
          /\ b1.state = "HALF_OPEN" => b2.state = "OPEN"
          /\ b1.state = "CLOSED" => b2.state \in {"CLOSED", "OPEN"}
          /\ b1.state = "CLOSED" /\ b2.state = "OPEN" =>
               b1.failures + 1 + b1.successes >= MinRequests
      BY <2>2, RecordFailureIs
    <2> HIDE DEF b1, b2
    <2>4. QED
      BY <2>1, <2>2, <2>3, BreakerAssumption DEF Breakers
  <1>4. CASE outcome = "unsigned"
    BY <1>4 DEF Recorded, Weight, Breakers
  <1>5. QED
    BY <1>1, <1>2, <1>3, <1>4 DEF Outcome

\* A breaker within its type is one of Breakers.
LEMMA BreakerIsBreaker == BreakerTypeOK => breaker \in Breakers
  BY BreakerAssumption DEF BreakerTypeOK, Breakers

\* The invariant holds before any command is sent.
LEMMA BreakerInvInit == BreakerInit => BreakerInv
  BY BreakerAssumption DEF BreakerInit, BreakerInv, BreakerTypeOK, Weighs

\* Every step keeps the invariant, respects the cooldown and opens a closed breaker
\* only on enough evidence of its own.
LEMMA BreakerStep ==
  ASSUME BreakerInv, [BreakerNext]_breakerVars
  PROVE  /\ BreakerInv'
         /\ breaker.state = "OPEN" /\ ~ breaker.cooled /\ ~ UNCHANGED breakerVars =>
              /\ breaker'.state = "OPEN"
              /\ \A c \in Command : command'[c] = "sent" => command[c] = "sent"
         /\ breaker.state = "CLOSED" /\ breaker'.state = "OPEN" => weighed' >= MinRequests
  <1> USE BreakerAssumption DEF BreakerInv, BreakerTypeOK, Weighs
  <1>0. breaker \in Breakers
    BY BreakerIsBreaker
  <1>1. ASSUME NEW c \in Command, SendMediaCommand(c)
        PROVE  /\ BreakerInv'
               /\ breaker.state # "OPEN" \/ breaker.cooled
               /\ breaker.state = "CLOSED" => breaker'.state = "CLOSED"
    BY <1>1 DEF SendMediaCommand, Allows, CheckCall, TransitionTo
  <1>2. ASSUME NEW c \in Command, NEW outcome \in Outcome, Answer(c, outcome)
        PROVE  /\ BreakerInv'
               /\ breaker.state = "OPEN" => breaker' = breaker
               /\ \A d \in Command : command'[d] = "sent" => command[d] = "sent"
               /\ breaker.state = "CLOSED" /\ breaker'.state = "OPEN" => weighed' >= MinRequests
    <2> DEFINE r == Recorded(breaker, outcome)
               w == Weight(outcome)
    <2>1. /\ r \in Breakers
          /\ r.failures + r.successes <= breaker.failures + breaker.successes + w
          /\ breaker.state = "OPEN" => r = breaker
          /\ r.state = "CLOSED" /\ breaker.state # "CLOSED" => r.failures = 0 /\ r.successes = 0
          /\ breaker.state = "CLOSED" /\ r.state = "OPEN" =>
               breaker.failures + breaker.successes + w >= MinRequests
          /\ w \in 0..2
      BY <1>0, RecordedIs
    <2>2. /\ breaker' = r
          /\ breaker.failures + breaker.successes < MetricCap
          /\ command' = [command EXCEPT ![c] = "idle"]
          /\ weighed' = IF r.state = "CLOSED" /\ breaker.state # "CLOSED" THEN 0
                        ELSE IF weighed + w > MinRequests THEN MinRequests ELSE weighed + w
      BY <1>2 DEF Answer, Capped
    <2> HIDE DEF r, w
    <2>3. BreakerTypeOK'
      <3>1. r.failures \in 0..MetricCap + 1 /\ r.successes \in 0..MetricCap + 1
        BY <2>1, <2>2 DEF Breakers
      <3>2. r \in [state : {"CLOSED", "OPEN", "HALF_OPEN"}, failures : 0..MetricCap + 1,
                   successes : 0..MetricCap + 1, cooled : BOOLEAN]
        BY <2>1, <3>1 DEF Breakers
      <3>3. QED
        BY <2>1, <2>2, <3>2
    <2>4. Weighs'
      BY <2>1, <2>2 DEF Breakers
    <2>5. QED
      BY <2>1, <2>2, <2>3, <2>4 DEF Breakers
  <1>3. ASSUME CooldownElapses
        PROVE  /\ BreakerInv'
               /\ breaker'.state = breaker.state /\ command' = command
    BY <1>3 DEF CooldownElapses
  <1>4. ASSUME CleanOldMetrics
        PROVE  /\ BreakerInv'
               /\ breaker'.state = breaker.state /\ command' = command
    <2>1. PICK f \in 0..breaker.failures, s \in 0..breaker.successes :
            /\ f + s < breaker.failures + breaker.successes
            /\ breaker' = [breaker EXCEPT !.failures = f, !.successes = s]
            /\ UNCHANGED <<command, weighed>>
      BY <1>4 DEF CleanOldMetrics
    <2>2. f \in 0..MetricCap + 1 /\ s \in 0..MetricCap + 1
      BY <2>1
    <2> HIDE DEF BreakerInv, BreakerTypeOK, Weighs
    <2>a. f \in Nat /\ s \in Nat
      BY <2>2
    <2>b. LET r == [breaker EXCEPT !.failures = f, !.successes = s] IN
          r \in Breakers /\ r.state = breaker.state /\ r.failures = f /\ r.successes = s
      BY <1>0, <2>a DEF Breakers
    <2>3. breaker' \in Breakers
      BY <2>1, <2>b
    <2>4. /\ breaker'.state = breaker.state
          /\ breaker'.failures = f /\ breaker'.successes = s
      BY <2>1, <2>b
    <2> USE DEF BreakerInv, BreakerTypeOK, Weighs
    <2>5. breaker' \in [state : {"CLOSED", "OPEN", "HALF_OPEN"}, failures : 0..MetricCap + 1,
                        successes : 0..MetricCap + 1, cooled : BOOLEAN]
      BY <2>2, <2>3, <2>4 DEF Breakers
    <2>6. QED
      BY <2>1, <2>2, <2>4, <2>5
  <1>5. CASE UNCHANGED breakerVars
    BY <1>5 DEF breakerVars
  <1>6. QED
    BY <1>1, <1>2, <1>3, <1>4, <1>5 DEF BreakerNext

\* The invariant holds in every reachable state.
LEMMA BreakerInvAlways == BreakerSpec => []BreakerInv
  BY BreakerInvInit, BreakerStep, PTL DEF BreakerSpec

\* The variables of the breaker keep their types: however many answers come in at
\* once, the window holds at most one outcome more than its bound.
THEOREM BreakerTypeCorrect == BreakerSpec => []BreakerTypeOK
  <1>1. BreakerInv => BreakerTypeOK
    BY DEF BreakerInv
  <1>2. QED
    BY <1>1, BreakerInvAlways, PTL

\* No answer, however late, ends the cooldown or lets a command through.
THEOREM BreakerCooldownHolds == BreakerSpec => CooldownHolds
  <1> DEFINE A == breaker.state = "OPEN" /\ ~ breaker.cooled =>
                    /\ breaker'.state = "OPEN"
                    /\ \A c \in Command : command'[c] = "sent" => command[c] = "sent"
  <1>1. BreakerInv /\ [BreakerNext]_breakerVars => [A]_breakerVars
    BY BreakerStep, Zenon
  <1>2. QED
    BY <1>1, BreakerInvAlways, PTL DEF BreakerSpec, CooldownHolds

\* A closed breaker opens only on outcomes recorded since it closed.
THEOREM BreakerOpensOnOwnEvidence == BreakerSpec => OpensOnOwnEvidence
  <1> DEFINE A == breaker.state = "CLOSED" /\ breaker'.state = "OPEN" => weighed' >= MinRequests
  <1>1. BreakerInv /\ [BreakerNext]_breakerVars => [A]_breakerVars
    BY BreakerStep, Zenon
  <1>2. QED
    BY <1>1, BreakerInvAlways, PTL DEF BreakerSpec, OpensOnOwnEvidence
-----------------------------------------------------------------------------
(* The files of a project: records.                                        *)

\* The requests and the rows there may be.
Requests == [pc : {"idle", "register", "insert", "abort", "aborted", "cache", "approved",
                   "clear", "deleteRow", "purge"},
             f : File \cup {NoFile}, key : StorageKey \cup {"none"},
             name : FileName \cup {"none"}, folder : {"contracts", "other"},
             visible : BOOLEAN, version : Nat,
             todo : SUBSET File, all : SUBSET File, match : BOOLEAN,
             uncache : SUBSET StorageKey, forced : BOOLEAN]

FileRows == [st : {"none", "deleted"} \cup Present, key : StorageKey \cup {"none"},
             name : FileName \cup {"none"}, folder : {"contracts", "other"}, version : Nat,
             approved : BOOLEAN, visible : BOOLEAN]

\* A handler without a request.
LEMMA IdleIs ==
  Idle \in Requests /\ Idle.pc = "idle" /\ Idle.todo = {} /\ Idle.all = {} /\ Idle.uncache = {}
  BY FilesAssumption DEF Idle, Requests

-----------------------------------------------------------------------------
(* The files of a project: what every step keeps.                          *)

\* The row of a file that was ever registered has a key, and that key an object that
\* was uploaded.
KeysKept ==
  \A f \in File : row[f].st # "none" => row[f].key \in StorageKey /\ object[row[f].key] # "none"

\* No two files that exist have one key.
KeysApart == \A f, g \in File : Exists(f) /\ Exists(g) /\ row[f].key = row[g].key => f = g

\* The advisory lock: of the registrations of one name, one has a version.
OneCounts ==
  \A g, h \in Handler :
    /\ handler[g].pc = "insert" /\ handler[h].pc = "insert"
    /\ handler[g].name = handler[h].name
    => g = h

\* What a request in flight may rely on: a file registered while an abort was about
\* to delete its object is known to be at odds; the file of an approval exists; the
\* object of a file being deleted is not stored, and the file is the latest approved
\* one only with the project locked or contested; only a deletion that is not over
\* has the cache to clear; a purge that is neither forced nor from before the
\* signature has no contract to do.
Knows(q) ==
  /\ q.pc \in {"register", "insert", "abort", "cache"} =>
       q.key \in StorageKey /\ object[q.key] # "none"
  /\ q.pc = "abort" => \A f \in File : Exists(f) /\ row[f].key = q.key => q.key \in untold
  /\ q.pc = "approved" => q.f \in File /\ Exists(q.f)
  /\ q.pc \in {"clear", "deleteRow"} =>
       q.f \in File /\ row[q.f].st # "none" /\ ~Stored(row[q.f].key)
  /\ q.pc = "deleteRow" /\ q.f = latest => q.match \/ contested
  /\ q.pc \notin {"aborted", "clear", "purge"} => q.uncache = {}
  /\ q.pc = "aborted" => \A j, k \in q.uncache : j = k
  /\ q.todo # {} => q.pc = "purge"
  /\ q.pc = "purge" => q.todo \subseteq q.all /\ \A f \in q.all : f \in File /\ row[f].st # "none"
  /\ q.pc = "purge" => \A f \in q.all \ q.todo : Stored(row[f].key) => row[f].key \in untold
  /\ q.pc = "purge" => q.forced \/ \A f \in q.todo : row[f].folder # "contracts"

AllKnow == \A h \in Handler : Knows(handler[h])

FilesInv ==
  /\ FilesTypeOK
  /\ KeysKept /\ KeysApart /\ OneCounts /\ AllKnow
  /\ TreeMatchesStore /\ ApprovedFileExists /\ VersionFree /\ CachedUrlAlive

\* A step that registers no file changes neither the key of one, nor the name and
\* version of one that exists.
SameFile(f) ==
  /\ row[f].st = "none" <=> row'[f].st = "none"
  /\ row'[f].key = row[f].key
  /\ row'[f].folder = row[f].folder \/ row'[f].folder = "other"
  /\ row'[f].st \in Present =>
       row[f].st \in Present /\ row'[f].name = row[f].name /\ row'[f].version = row[f].version

SameFiles == \A f \in File : SameFile(f)

\* An object is uploaded once, and deleted for good; what is once at odds stays so.
ObjectsAge ==
  /\ \A k \in StorageKey : object[k] # "none" =>
       object'[k] # "none" /\ (object'[k] = "stored" => object[k] = "stored")
  /\ untold \subseteq untold'

\* The version that findLatestVersion leads to is free.
LEMMA VersionIs ==
  ASSUME FilesTypeOK, NEW n, NEW v, v = Max(VersionsOf(n) \cup {0}) + 1
  PROVE  v \in Nat /\ v \notin VersionsOf(n)
  <1> DEFINE G == {g \in File : Exists(g) /\ row[g].name = n}
             F == [f \in G |-> row[f].version]
             V == VersionsOf(n)
  <1>1. \A f \in File : row[f].version \in Nat
    BY DEF FilesTypeOK
  <1>2. V = {row[f].version : f \in G}
    BY DEF VersionsOf
  <1>3. IsFiniteSet(G)
    <2>1. G \in SUBSET File
      OBVIOUS
    <2>2. QED
      BY <2>1, FilesAssumption, FS_Subset
  <1>4. F \in Surjection(G, V)
    BY <1>2 DEF Surjection
  <1>5. IsFiniteSet(V)
    <2> HIDE DEF F, G, V
    <2>1. QED
      BY <1>3, <1>4, FS_Surjection
  <1>6. V \subseteq Nat
    BY <1>1, <1>2
  <1> HIDE DEF V
  <1>7. V \cup {0} \subseteq Nat /\ IsFiniteSet(V \cup {0}) /\ V \cup {0} # {}
    BY <1>5, <1>6, FS_AddElement
  <1>8. PICK m \in Nat : m = Max(V \cup {0}) /\ \A y \in V : m >= y
    <2>1. Max(V \cup {0}) \in V \cup {0} /\ \A y \in V \cup {0} : Max(V \cup {0}) >= y
      BY <1>7, FiniteMax
    <2>2. QED
      BY <1>7, <2>1
  <1>9. v = m + 1
    BY <1>8 DEF V
  <1>10. m + 1 \notin V
    BY <1>6, <1>8
  <1>11. QED
    BY <1>9, <1>10 DEF V

\* What a request relies on stays true while others go on.
LEMMA KnowsKept ==
  ASSUME KeysKept, SameFiles, ObjectsAge, NEW q, Knows(q),
         q.pc = "approved" => row'[q.f].st \in Present,
         q.pc = "deleteRow" /\ q.f = latest' => q.match \/ contested'
  PROVE  Knows(q)'
  <1> USE DEF Exists, Stored, Present
  <1>1. /\ \A f \in File : row[f].st # "none" =>
             /\ row'[f].st # "none" /\ row'[f].key = row[f].key /\ row[f].key \in StorageKey
             /\ object'[row[f].key] = "stored" => object[row[f].key] = "stored"
             /\ row'[f].folder = row[f].folder \/ row'[f].folder = "other"
        /\ untold \subseteq untold'
    BY DEF KeysKept, SameFiles, SameFile, ObjectsAge
  <1>2. q.pc \in {"register", "insert", "abort", "cache"} =>
          q.key \in StorageKey /\ object'[q.key] # "none"
    BY DEF Knows, ObjectsAge
  <1>3. q.pc = "abort" =>
          \A f \in File : row'[f].st \in Present /\ row'[f].key = q.key => q.key \in untold'
    BY DEF Knows, SameFiles, SameFile, ObjectsAge
  <1>4. q.pc = "approved" => q.f \in File /\ row'[q.f].st \in Present
    BY DEF Knows
  <1>5. q.pc \in {"clear", "deleteRow"} =>
          q.f \in File /\ row'[q.f].st # "none" /\ object'[row'[q.f].key] # "stored"
    BY <1>1 DEF Knows
  <1>6. q.pc = "purge" => q.todo \subseteq q.all /\ \A f \in q.all : f \in File /\ row'[f].st # "none"
    BY <1>1 DEF Knows
  <1>7. q.pc = "purge" =>
          \A f \in q.all \ q.todo : object'[row'[f].key] = "stored" => row'[f].key \in untold'
    BY <1>1 DEF Knows
  <1>8. q.pc = "purge" => q.forced \/ \A f \in q.todo : row'[f].folder # "contracts"
    BY <1>1 DEF Knows
  <1>9. QED
    BY <1>2, <1>3, <1>4, <1>5, <1>6, <1>7, <1>8 DEF Knows

\* A step that registers no file, and changes the requests of H only, keeps what the
\* others rely on, the keys apart and the versions free.
LEMMA RequestsKept ==
  ASSUME FilesInv, SameFiles, ObjectsAge, NEW H \in SUBSET Handler,
         \A g \in Handler \ H : handler'[g] = handler[g],
         \A g \in Handler \ H : handler[g].pc = "approved" => row'[handler[g].f].st \in Present,
         \A g \in Handler \ H : handler[g].pc = "deleteRow" /\ handler[g].f = latest' =>
                                  handler[g].match \/ contested',
         \A h \in H : Knows(handler[h])',
         \A h \in H : handler'[h].pc = "insert" =>
           /\ \A g \in Handler \ {h} : handler'[g].pc = "insert" => handler'[g].name # handler'[h].name
           /\ \A f \in File : row'[f].st \in Present /\ row'[f].name = handler'[h].name =>
                                row'[f].version # handler'[h].version
  PROVE  KeysKept' /\ KeysApart' /\ OneCounts' /\ VersionFree' /\ AllKnow'
  <1>0. KeysKept /\ KeysApart /\ OneCounts /\ VersionFree /\ AllKnow
    BY DEF FilesInv
  <1>1. KeysKept'
    BY <1>0 DEF KeysKept, SameFiles, SameFile, ObjectsAge
  <1>2. KeysApart'
    BY <1>0 DEF KeysApart, SameFiles, SameFile, Exists
  <1>3. OneCounts'
    BY <1>0 DEF OneCounts
  <1>4. VersionFree'
    <2>1. ASSUME NEW h \in Handler, handler'[h].pc = "insert",
                 NEW f \in File, row'[f].st \in Present, row'[f].name = handler'[h].name,
                 handler'[h].version = row'[f].version
          PROVE  FALSE
      <3>1. h \notin H /\ handler'[h] = handler[h]
        BY <2>1
      <3>2. row[f].st \in Present /\ row[f].name = handler[h].name /\ handler[h].version = row[f].version
        BY <2>1, <3>1 DEF SameFiles, SameFile
      <3>3. handler[h].version \in VersionsOf(handler[h].name)
        BY <3>2 DEF VersionsOf, Exists
      <3>4. QED
        BY <1>0, <2>1, <3>1, <3>3 DEF VersionFree
    <2>2. QED
      BY <2>1 DEF VersionFree, VersionsOf, Exists
  <1>5. AllKnow'
    <2>1. ASSUME NEW g \in Handler \ H PROVE Knows(handler[g])'
      <3>1. PICK q : q = handler[g] /\ q = handler'[g]
        OBVIOUS
      <3>2. Knows(q)
        BY <1>0, <3>1 DEF AllKnow
      <3>3. Knows(q)'
        BY <1>0, <3>1, <3>2, KnowsKept
      <3>4. QED
        BY <3>1, <3>3 DEF Knows
    <2>2. QED
      BY <2>1 DEF AllKnow
  <1>6. QED
    BY <1>1, <1>2, <1>3, <1>4, <1>5

\* The storage tree stays true if the objects a step deletes and the requests that
\* end with half of their work done are accounted for, as are the files that it
\* marks as purged or deletes.
LEMMA TreeKept ==
  ASSUME FilesInv, SameFiles, ObjectsAge,
         \A f \in File : row'[f].st = "live" =>
           /\ row[f].st = "live"
           /\ Stored(row[f].key) => \/ object'[row[f].key] = "stored"
                                    \/ row[f].key \in untold'
                                    \/ \E h \in Handler : f \in Half(h)'
           /\ (\E h \in Handler : f \in Half(h)) => \/ object'[row[f].key] = "stored"
                                                    \/ row[f].key \in untold'
                                                    \/ \E h \in Handler : f \in Half(h)',
         \A f \in File : row'[f].st = "purged" /\ row[f].st # "purged" =>
           object'[row[f].key] # "stored" \/ row[f].key \in untold',
         \A f \in File : row'[f].st = "deleted" /\ row[f].st # "deleted" =>
           object'[row[f].key] # "stored"
  PROVE  TreeMatchesStore'
  <1>0. TreeMatchesStore /\ KeysKept
    BY DEF FilesInv
  <1>1. ASSUME NEW f \in File, row'[f].st = "live"
        PROVE  \/ object'[row'[f].key] = "stored" \/ row'[f].key \in untold'
               \/ \E h \in Handler : f \in Half(h)'
    <2>1. Stored(row[f].key) \/ row[f].key \in untold \/ \E h \in Handler : f \in Half(h)
      BY <1>0, <1>1 DEF TreeMatchesStore, Counted
    <2>2. row'[f].key = row[f].key /\ untold \subseteq untold'
      BY DEF SameFiles, SameFile, ObjectsAge
    <2>3. QED
      BY <1>1, <2>1, <2>2
  <1>2. ASSUME NEW f \in File, row'[f].st = "purged"
        PROVE  object'[row'[f].key] # "stored" \/ row'[f].key \in untold'
    BY <1>0, <1>2 DEF TreeMatchesStore, Freed, Stored, KeysKept, SameFiles, SameFile, ObjectsAge
  <1>3. ASSUME NEW f \in File, row'[f].st = "deleted"
        PROVE  object'[row'[f].key] # "stored"
    BY <1>0, <1>3 DEF TreeMatchesStore, Stored, KeysKept, SameFiles, SameFile, ObjectsAge
  <1>4. QED
    BY <1>1, <1>2, <1>3 DEF TreeMatchesStore, Counted, Freed, Stored

\* A step that leaves the rows, and the objects, as they are.
LEMMA RowsUnchanged ==
  ASSUME UNCHANGED row
  PROVE  SameFiles
  BY DEF SameFiles, SameFile

\* What a request is doing to its files depends on the request only.
LEMMA HalfKept ==
  ASSUME NEW h, handler'[h] = handler[h]
  PROVE  Half(h)' = Half(h)
  BY DEF Half

-----------------------------------------------------------------------------
(* Steps that only change a request.                                       *)

\* The request of an idle handler, and one that stops being a registration, has
\* nothing half done.
LEMMA NothingHalf ==
  ASSUME NEW h, handler[h].pc \notin {"clear", "deleteRow", "purge"}
  PROVE  Half(h) = {}
  BY DEF Half

\* A step that caches no URL keeps what is said of the cache if the objects that go
\* and the requests that stop being about to clear it are accounted for.
LEMMA CacheKept ==
  ASSUME FilesInv, cached' \subseteq cached, untold \subseteq untold',
         \A k \in cached' : object[k] = "stored" =>
           object'[k] = "stored" \/ k \in untold' \/ \E g \in Handler : k \in handler'[g].uncache,
         \A k \in cached', g \in Handler : k \in handler[g].uncache =>
           k \in untold' \/ k \in handler'[g].uncache
  PROVE  CachedUrlAlive'
  BY DEF FilesInv, CachedUrlAlive, Stored, Uncaching

\* A request that begins or goes on without changing anything else.
LEMMA RequestOnly ==
  ASSUME FilesInv, NEW h \in Handler, NEW q \in Requests, handler' = [handler EXCEPT ![h] = q],
         UNCHANGED <<object, row, latest, cached, signed, history>>,
         Knows(q),
         q.pc = "insert" =>
           /\ \A g \in Handler \ {h} : handler[g].pc = "insert" => handler[g].name # q.name
           /\ q.version \notin VersionsOf(q.name),
         \/ handler[h].pc \notin {"aborted", "clear", "deleteRow", "purge"}
         \/ /\ handler[h].pc = "clear" /\ handler[h].uncache = {}
            /\ q.pc = "deleteRow" /\ q.f = handler[h].f
  PROVE  FilesInv'
  <1> USE DEF history
  <1>0. FilesTypeOK /\ handler \in [Handler -> Requests]
    BY DEF FilesInv, FilesTypeOK, Requests
  <1>1. /\ handler'[h] = q /\ \A g \in Handler \ {h} : handler'[g] = handler[g]
        /\ handler' \in [Handler -> Requests]
    BY <1>0
  <1>2. FilesTypeOK'
    BY <1>0, <1>1 DEF FilesTypeOK, Requests
  <1>3. SameFiles /\ ObjectsAge
    BY RowsUnchanged DEF ObjectsAge
  <1>4. Knows(handler[h])'
    BY <1>1 DEF Knows, Exists, Stored
  <1>5. AllKnow
    BY DEF FilesInv
  <1>6. \A g \in Handler \ {h} :
          /\ handler[g].pc = "approved" => row'[handler[g].f].st \in Present
          /\ handler[g].pc = "deleteRow" /\ handler[g].f = latest' => handler[g].match \/ contested'
    BY <1>5 DEF AllKnow, Knows, Exists
  <1>7. KeysKept' /\ KeysApart' /\ OneCounts' /\ VersionFree' /\ AllKnow'
    <2>1. PICK H \in SUBSET Handler : H = {h}
      OBVIOUS
    <2>2. handler'[h].pc = "insert" =>
            /\ \A g \in Handler \ {h} : handler'[g].pc = "insert" => handler'[g].name # handler'[h].name
            /\ \A f \in File : row'[f].st \in Present /\ row'[f].name = handler'[h].name =>
                                 row'[f].version # handler'[h].version
      BY <1>1 DEF VersionsOf, Exists
    <2>3. QED
      BY <1>1, <1>3, <1>4, <1>6, <2>1, <2>2, RequestsKept
  <1>8. \A g \in Handler, f \in File : f \in Half(g) => f \in Half(g)'
    <2>1. Half(h) \subseteq Half(h)'
      <3>1. CASE handler[h].pc \notin {"aborted", "clear", "deleteRow", "purge"}
        BY <3>1, NothingHalf
      <3>2. CASE handler[h].pc = "clear" /\ q.pc = "deleteRow" /\ q.f = handler[h].f
        BY <1>1, <3>2 DEF Half
      <3>3. QED
        BY <3>1, <3>2
    <2>2. ASSUME NEW g \in Handler \ {h} PROVE Half(g)' = Half(g)
      BY <1>1, <2>2, HalfKept
    <2>3. QED
      BY <2>1, <2>2
  <1>9. TreeMatchesStore'
    BY <1>3, <1>8, TreeKept DEF Stored
  <1>10. ApprovedFileExists' /\ CachedUrlAlive'
    <2>1. handler[h].uncache = {}
      BY <1>5 DEF AllKnow, Knows
    <2>2. CachedUrlAlive'
      BY <1>1, <2>1, CacheKept
    <2>3. QED
      BY <2>2 DEF FilesInv, ApprovedFileExists, Exists
  <1>11. QED
    BY <1>2, <1>7, <1>9, <1>10 DEF FilesInv

\* uploadFileMetadata begins with an object that is stored.
LEMMA UploadFileMetadataStep ==
  ASSUME FilesInv, NEW h \in Handler, NEW k \in StorageKey, NEW n \in FileName,
         NEW folder \in Folder, NEW v \in Visibility, UploadFileMetadata(h, k, n, folder, v)
  PROVE  FilesInv'
  <1>1. PICK q : q = [Idle EXCEPT !.pc = "register", !.key = k, !.name = n, !.folder = folder,
                                  !.visible = v]
    OBVIOUS
  <1>2. q \in Requests /\ q.pc = "register" /\ q.key = k /\ q.todo = {} /\ q.uncache = {}
    BY <1>1, FilesAssumption DEF Idle, Requests
  <1>3. /\ handler' = [handler EXCEPT ![h] = q] /\ handler[h].pc = "idle"
        /\ UNCHANGED <<object, row, latest, cached, signed, history>> /\ object[k] = "stored"
    BY <1>1 DEF UploadFileMetadata, Becomes, IsFree, ObjectRegistered, Stored
  <1>4. Knows(q)
    BY <1>2, <1>3 DEF Knows
  <1>5. QED
    BY <1>2, <1>3, <1>4, RequestOnly

\* abortUnregisteredFileUpload begins with a key that no file has.
LEMMA AbortUnregisteredStep ==
  ASSUME FilesInv, NEW h \in Handler, NEW k \in StorageKey, AbortUnregistered(h, k)
  PROVE  FilesInv'
  <1>1. PICK q : q = [Idle EXCEPT !.pc = "abort", !.key = k]
    OBVIOUS
  <1>2. q \in Requests /\ q.pc = "abort" /\ q.key = k /\ q.todo = {} /\ q.uncache = {}
    BY <1>1, FilesAssumption DEF Idle, Requests
  <1>3. /\ handler' = [handler EXCEPT ![h] = q] /\ handler[h].pc = "idle"
        /\ UNCHANGED <<object, row, latest, cached, signed, history>>
        /\ object[k] # "none" /\ ~Registered(k)
    BY <1>1 DEF AbortUnregistered, Becomes, IsFree
  <1>4. Knows(q)
    BY <1>2, <1>3 DEF Knows, Registered
  <1>5. QED
    BY <1>2, <1>3, <1>4, RequestOnly

\* getFileAccess gets a URL for an object that is stored.
LEMMA GetFileAccessStep ==
  ASSUME FilesInv, NEW h \in Handler, NEW f \in File, NEW role, GetFileAccess(h, role, f)
  PROVE  FilesInv'
  <1>0. row[f].key \in StorageKey /\ object[row[f].key] # "none"
    BY DEF GetFileAccess, FilesInv, KeysKept
  <1>1. PICK q : q = [Idle EXCEPT !.pc = "cache", !.key = row[f].key]
    OBVIOUS
  <1>2. q \in Requests /\ q.pc = "cache" /\ q.key = row[f].key /\ q.todo = {} /\ q.uncache = {}
    BY <1>0, <1>1, FilesAssumption DEF Idle, Requests
  <1>3. /\ handler' = [handler EXCEPT ![h] = q] /\ handler[h].pc = "idle"
        /\ UNCHANGED <<object, row, latest, cached, signed, history>>
    BY <1>1 DEF GetFileAccess, Becomes, IsFree
  <1>4. Knows(q)
    BY <1>0, <1>2, <1>3 DEF Knows
  <1>5. QED
    BY <1>2, <1>3, <1>4, RequestOnly

\* approveFile locks a row that exists.
LEMMA ApproveFileStep ==
  ASSUME FilesInv, NEW h \in Handler, NEW f \in File, NEW role, ApproveFile(h, role, f)
  PROVE  FilesInv'
  <1>1. PICK q : q = [Idle EXCEPT !.pc = "approved", !.f = f]
    OBVIOUS
  <1>2. q \in Requests /\ q.pc = "approved" /\ q.f = f /\ q.todo = {} /\ q.uncache = {}
    BY <1>1, FilesAssumption DEF Idle, Requests
  <1>3. /\ handler' = [handler EXCEPT ![h] = q] /\ handler[h].pc = "idle"
        /\ UNCHANGED <<object, row, latest, cached, signed, history>> /\ Exists(f)
    BY <1>1 DEF ApproveFile, Becomes, IsFree
  <1>4. Knows(q)
    BY <1>2, <1>3 DEF Knows
  <1>5. QED
    BY <1>2, <1>3, <1>4, RequestOnly

\* clearLatestApprovedFileIfMatches locks the project if the file is the latest.
LEMMA ClearLatestStep ==
  ASSUME FilesInv, NEW h \in Handler, ClearLatest(h)
  PROVE  FilesInv'
  <1>0. /\ handler[h] \in Requests /\ Knows(handler[h])
        /\ handler[h].pc = "clear" /\ handler[h].uncache = {}
    BY DEF FilesInv, FilesTypeOK, Requests, AllKnow, ClearLatest
  <1>1. PICK m \in BOOLEAN : m = (latest = handler[h].f)
    OBVIOUS
  <1>2. PICK q : q = [handler[h] EXCEPT !.pc = "deleteRow", !.match = m]
    OBVIOUS
  <1>3. /\ q \in Requests /\ q.pc = "deleteRow" /\ q.f = handler[h].f /\ q.match = m
        /\ q.todo = handler[h].todo /\ q.uncache = {}
    BY <1>0, <1>2 DEF Requests
  <1>4. /\ handler' = [handler EXCEPT ![h] = q]
        /\ UNCHANGED <<object, row, latest, cached, signed, history>>
    BY <1>1, <1>2 DEF ClearLatest, Becomes
  <1>5. Knows(q)
    BY <1>0, <1>1, <1>3 DEF Knows
  <1>6. QED
    BY <1>0, <1>3, <1>4, <1>5, RequestOnly

\* A purge that is not forced begins before the signature, or without contracts.
LEMMA PurgeStep ==
  ASSUME FilesInv, NEW h \in Handler, NEW S \in SUBSET File, NEW force \in BOOLEAN,
         Purge(h, S, force)
  PROVE  FilesInv'
  <1>1. PICK C \in SUBSET File : C = PurgeCandidates(S, force)
    BY DEF PurgeCandidates
  <1>2. PICK forced \in BOOLEAN : forced = (force \/ ~signed)
    OBVIOUS
  <1>3. PICK q : q = [Idle EXCEPT !.pc = "purge", !.todo = C, !.all = C, !.forced = forced]
    OBVIOUS
  <1>4. q \in Requests /\ q.pc = "purge" /\ q.todo = C /\ q.all = C /\ q.forced = forced
    BY <1>3, FilesAssumption DEF Idle, Requests
  <1>5. /\ handler' = [handler EXCEPT ![h] = q] /\ handler[h].pc = "idle"
        /\ UNCHANGED <<object, row, latest, cached, signed, history>>
    BY <1>1, <1>2, <1>3 DEF Purge, Becomes, IsFree
  <1>6. Knows(q)
    <2>1. \A f \in C : f \in File /\ row[f].st # "none"
      BY <1>1 DEF PurgeCandidates
    <2>2. forced \/ \A f \in C : row[f].folder # "contracts"
      BY <1>1, <1>2 DEF PurgeCandidates, IsSignedContract
    <2>3. QED
      BY <1>4, <2>1, <2>2 DEF Knows
  <1>7. QED
    BY <1>4, <1>5, <1>6, RequestOnly

\* findLatestVersion under the advisory lock finds a version that is free, and no
\* other registration of the name has one.
LEMMA LockVersionStep ==
  ASSUME FilesInv, NEW h \in Handler, LockVersion(h)
  PROVE  FilesInv'
  <1>0. handler[h] \in Requests /\ Knows(handler[h]) /\ handler[h].pc = "register" /\ FilesTypeOK
    BY DEF FilesInv, FilesTypeOK, Requests, AllKnow, LockVersion
  <1>1. PICK n : n = handler[h].name
    OBVIOUS
  <1>2. PICK v \in Nat : v = Max(VersionsOf(n) \cup {0}) + 1 /\ v \notin VersionsOf(n)
    BY <1>0, VersionIs
  <1>3. PICK q : q = [handler[h] EXCEPT !.pc = "insert", !.version = v]
    OBVIOUS
  <1>4. /\ q \in Requests /\ q.pc = "insert" /\ q.version = v /\ q.name = n
        /\ q.key = handler[h].key /\ q.todo = handler[h].todo /\ q.uncache = handler[h].uncache
    BY <1>0, <1>1, <1>3 DEF Requests
  <1>5. /\ handler' = [handler EXCEPT ![h] = q]
        /\ UNCHANGED <<object, row, latest, cached, signed, history>>
    BY <1>1, <1>2, <1>3 DEF LockVersion, Becomes
  <1>6. \A g \in Handler \ {h} : handler[g].pc = "insert" => handler[g].name # n
    BY <1>1 DEF LockVersion
  <1>7. Knows(q)
    BY <1>0, <1>4 DEF Knows
  <1>8. QED
    BY <1>0, <1>2, <1>4, <1>5, <1>6, <1>7, RequestOnly

-----------------------------------------------------------------------------
(* Steps that delete an object.                                            *)

\* What a deletion in crm-media does: only k may go, and the answer tells so unless
\* it got lost; after a definite answer it is not stored.
LEMMA DeleteInMediaIs ==
  ASSUME FilesTypeOK, NEW k \in StorageKey, object[k] # "none", NEW answer,
         DeleteInMedia(k, answer)
  PROVE  /\ \A j \in StorageKey \ {k} : object'[j] = object[j]
         /\ object' \in [StorageKey -> {"none", "stored", "gone"}]
         /\ object'[k] # "none" /\ (object'[k] = "stored" => object[k] = "stored")
         /\ object'[k] # "stored" => object[k] # "stored" \/ answer \in {"deleted", "lost"}
         /\ answer = "failed" => object'[k] = object[k]
         /\ object'[k] = "stored" => answer = "failed"
         /\ answer \in {"deleted", "notFound", "failed", "lost"}
  <1>1. object \in [StorageKey -> {"none", "stored", "gone"}]
    BY DEF FilesTypeOK
  <1>2. CASE object[k] = "stored"
    <2>1. answer \in {"deleted", "failed", "lost"}
      BY <1>2 DEF DeleteInMedia, Answers, Stored
    <2>2. object' = IF answer # "failed" THEN [object EXCEPT ![k] = "gone"] ELSE object
      BY <1>2 DEF DeleteInMedia, Stored
    <2>3. QED
      BY <1>1, <1>2, <2>1, <2>2
  <1>3. CASE object[k] # "stored"
    <2>1. answer \in {"notFound", "failed"}
      BY <1>3 DEF DeleteInMedia, Answers, Stored
    <2>2. object' = object
      BY <1>3, <2>1 DEF DeleteInMedia, Stored
    <2>3. QED
      BY <1>1, <1>3, <2>1, <2>2
  <1>4. QED
    BY <1>2, <1>3

\* A deletion keeps the invariant if its request still accounts for the files of the
\* object, or they are known to be at odds, and if it will clear the cache.
LEMMA DeletionKept ==
  ASSUME FilesInv, NEW h \in Handler, NEW k \in StorageKey, object[k] # "none", NEW answer,
         DeleteInMedia(k, answer), NEW q \in Requests, handler' = [handler EXCEPT ![h] = q],
         UNCHANGED <<row, latest, cached, signed, contested>>,
         untold' \in {untold, untold \cup {k}}, answer = "lost" => k \in untold',
         handler[h].uncache \subseteq q.uncache, answer = "deleted" => k \in q.uncache,
         Knows(q)', q.pc # "insert",
         \A f \in File : f \in Half(h) => f \in Half(h)',
         object[k] = "stored" /\ object'[k] # "stored" =>
           \A f \in File : row[f].st = "live" /\ row[f].key = k => k \in untold' \/ f \in Half(h)'
  PROVE  FilesInv'
  <1>0. FilesTypeOK /\ handler \in [Handler -> Requests]
    BY DEF FilesInv, FilesTypeOK, Requests
  <1>1. /\ handler'[h] = q /\ \A g \in Handler \ {h} : handler'[g] = handler[g]
        /\ handler' \in [Handler -> Requests]
    BY <1>0
  <1>2. /\ \A j \in StorageKey \ {k} : object'[j] = object[j]
        /\ object' \in [StorageKey -> {"none", "stored", "gone"}]
        /\ object'[k] # "none" /\ (object'[k] = "stored" => object[k] = "stored")
        /\ object'[k] # "stored" => object[k] # "stored" \/ answer \in {"deleted", "lost"}
    BY <1>0, DeleteInMediaIs
  <1>3. FilesTypeOK'
    BY <1>0, <1>1, <1>2 DEF FilesTypeOK, Requests
  <1>4. SameFiles /\ ObjectsAge
    BY <1>2, RowsUnchanged DEF ObjectsAge
  <1>5. Knows(handler[h])'
    BY <1>1 DEF Knows
  <1>6. AllKnow
    BY DEF FilesInv
  <1>7. \A g \in Handler \ {h} :
          /\ handler[g].pc = "approved" => row'[handler[g].f].st \in Present
          /\ handler[g].pc = "deleteRow" /\ handler[g].f = latest' => handler[g].match \/ contested'
    BY <1>6 DEF AllKnow, Knows, Exists
  <1>8. KeysKept' /\ KeysApart' /\ OneCounts' /\ VersionFree' /\ AllKnow'
    <2>1. PICK H \in SUBSET Handler : H = {h}
      OBVIOUS
    <2>2. handler'[h].pc # "insert"
      BY <1>1
    <2>3. QED
      BY <1>1, <1>4, <1>5, <1>7, <2>1, <2>2, RequestsKept
  <1>9. \A g \in Handler, f \in File : f \in Half(g) => f \in Half(g)'
    <2>1. ASSUME NEW g \in Handler \ {h} PROVE Half(g)' = Half(g)
      BY <1>1, <2>1, HalfKept
    <2>2. QED
      BY <2>1
  <1>10. TreeMatchesStore'
    <2>1. ASSUME NEW f \in File, row'[f].st = "live"
          PROVE  /\ row[f].st = "live"
                 /\ Stored(row[f].key) => \/ object'[row[f].key] = "stored"
                                          \/ row[f].key \in untold'
                                          \/ \E g \in Handler : f \in Half(g)'
      <3>1. row[f].st = "live" /\ row[f].key \in StorageKey
        BY <2>1 DEF FilesInv, KeysKept
      <3>2. CASE row[f].key = k
        BY <2>1, <3>1, <3>2 DEF Stored
      <3>3. CASE row[f].key # k
        BY <1>2, <3>1, <3>3 DEF Stored
      <3>4. QED
        BY <3>2, <3>3
    <2>2. QED
      BY <1>4, <1>9, <2>1, TreeKept
  <1>11. ApprovedFileExists'
    BY DEF FilesInv, ApprovedFileExists, Exists
  <1>12. CachedUrlAlive'
    <2>1. cached \subseteq StorageKey
      BY <1>0 DEF FilesTypeOK
    <2>2. \A j \in cached' : object[j] = "stored" =>
            object'[j] = "stored" \/ j \in untold' \/ \E g \in Handler : j \in handler'[g].uncache
      BY <1>1, <1>2, <2>1
    <2>3. QED
      BY <1>1, <2>2, CacheKept
  <1>13. QED
    BY <1>3, <1>8, <1>10, <1>11, <1>12 DEF FilesInv

\* The abort of an upload deletes the object of a file only if the file was
\* registered meanwhile, and that is known.
LEMMA AbortDeleteStep ==
  ASSUME FilesInv, NEW h \in Handler, NEW answer, AbortDelete(h, answer)
  PROVE  FilesInv'
  <1>1. PICK k : k = handler[h].key
    OBVIOUS
  <1>2. handler[h].pc = "abort" /\ Knows(handler[h])
    BY DEF AbortDelete, FilesInv, AllKnow
  <1>3. /\ k \in StorageKey /\ object[k] # "none"
        /\ \A f \in File : row[f].st = "live" /\ row[f].key = k => k \in untold
    BY <1>1, <1>2 DEF Knows, Exists, Present
  <1>4. /\ DeleteInMedia(k, answer)
        /\ handler' = [handler EXCEPT ![h] = IF answer = "deleted"
                         THEN [Idle EXCEPT !.pc = "aborted", !.uncache = {k}] ELSE Idle]
        /\ untold' = IF answer = "lost" THEN untold \cup {k} ELSE untold
        /\ UNCHANGED <<row, latest, cached, signed, contested>>
    BY <1>1 DEF AbortDelete, Becomes
  <1>5. PICK q \in Requests :
          /\ handler' = [handler EXCEPT ![h] = q] /\ q.pc \in {"idle", "aborted"} /\ q.todo = {}
          /\ q.pc = "idle" => q.uncache = {}
          /\ q.pc = "aborted" => q.uncache = {k}
          /\ answer = "deleted" => q.uncache = {k}
    <2>1. CASE answer = "deleted"
      <3>1. PICK q : q = [Idle EXCEPT !.pc = "aborted", !.uncache = {k}]
        OBVIOUS
      <3>2. q \in Requests /\ q.pc = "aborted" /\ q.todo = {} /\ q.uncache = {k}
        BY <1>3, <3>1, FilesAssumption DEF Idle, Requests
      <3>3. QED
        BY <1>4, <2>1, <3>1, <3>2
    <2>2. CASE answer # "deleted"
      BY <1>4, <2>2, IdleIs
    <2>3. QED
      BY <2>1, <2>2
  <1>6. Knows(q)' /\ q.pc # "insert"
    BY <1>5 DEF Knows
  <1>7. Half(h) = {} /\ handler[h].uncache = {}
    BY <1>2, NothingHalf DEF Knows
  <1>8. QED
    BY <1>3, <1>4, <1>5, <1>6, <1>7, DeletionKept

\* deleteFile goes on only when the object is gone, and then has a row to change.
LEMMA DeleteFileStep ==
  ASSUME FilesInv, NEW h \in Handler, NEW f \in File, NEW answer, DeleteFile(h, f, answer)
  PROVE  FilesInv'
  <1>1. PICK k : k = row[f].key
    OBVIOUS
  <1>2. /\ handler[h].pc = "idle" /\ Exists(f) /\ DeleteInMedia(k, answer)
        /\ handler' = [handler EXCEPT ![h] =
                         IF answer \in {"deleted", "notFound"}
                         THEN [Idle EXCEPT !.pc = "clear", !.f = f, !.uncache = ToUncache(k, answer)]
                         ELSE Idle]
        /\ untold' = IF answer = "lost" THEN untold \cup {k} ELSE untold
        /\ UNCHANGED <<row, latest, cached, signed, contested>>
    BY <1>1 DEF DeleteFile, Becomes, IsFree
  <1>3. /\ k \in StorageKey /\ object[k] # "none" /\ FilesTypeOK /\ row[f].st # "none"
        /\ \A g \in File : row[g].st = "live" /\ row[g].key = k => g = f
    BY <1>1, <1>2 DEF FilesInv, KeysKept, KeysApart, Exists, Present
  <1>4. /\ answer = "failed" => object'[k] = object[k]
        /\ object'[k] = "stored" => answer = "failed"
        /\ answer \in {"deleted", "notFound", "failed", "lost"}
    BY <1>2, <1>3, DeleteInMediaIs
  <1>5. Half(h) = {} /\ handler[h].uncache = {}
    BY <1>2, NothingHalf DEF FilesInv, AllKnow, Knows
  <1>6. CASE answer \in {"deleted", "notFound"}
    <2>0. PICK K \in SUBSET StorageKey : K = ToUncache(k, answer) /\ (answer = "deleted" => k \in K)
      BY <1>3 DEF ToUncache
    <2>1. PICK q : q = [Idle EXCEPT !.pc = "clear", !.f = f, !.uncache = K]
      OBVIOUS
    <2>2. q \in Requests /\ q.pc = "clear" /\ q.f = f /\ q.todo = {} /\ q.uncache = K
      BY <2>1, FilesAssumption DEF Idle, Requests
    <2>3. handler' = [handler EXCEPT ![h] = q]
      BY <1>2, <1>6, <2>0, <2>1
    <2>4. object'[k] # "stored" /\ row' = row
      BY <1>2, <1>4, <1>6
    <2>5. Knows(q)'
      BY <1>1, <1>3, <2>2, <2>4 DEF Knows, Stored
    <2>6. f \in Half(h)'
      <3>1. handler'[h] = q
        BY <2>3 DEF FilesInv, FilesTypeOK
      <3>2. QED
        BY <2>2, <3>1 DEF Half
    <2>7. \A g \in File : row[g].st = "live" /\ row[g].key = k => g \in Half(h)'
      BY <1>3, <2>6
    <2>8. untold' = untold /\ answer # "lost" /\ q.pc # "insert"
      BY <1>2, <1>6, <2>2
    <2>9. /\ handler[h].uncache \subseteq q.uncache /\ (answer = "deleted" => k \in q.uncache)
          /\ \A g \in File : g \in Half(h) => g \in Half(h)'
          /\ untold' \in {untold, untold \cup {k}} /\ (answer = "lost" => k \in untold')
      BY <1>5, <2>0, <2>2, <2>8
    <2>10. /\ DeleteInMedia(k, answer)
           /\ UNCHANGED <<row, latest, cached, signed, contested>>
      BY <1>2
    <2>11. \A g \in File : row[g].st = "live" /\ row[g].key = k => k \in untold' \/ g \in Half(h)'
      BY <2>7
    <2>12. QED
      BY <1>3, <2>2, <2>3, <2>5, <2>8, <2>9, <2>10, <2>11, DeletionKept
  <1>7. CASE answer \in {"failed", "lost"}
    <2>1. PICK q \in Requests : q = Idle /\ q.pc = "idle" /\ q.todo = {} /\ q.uncache = {}
      BY IdleIs
    <2>2. handler' = [handler EXCEPT ![h] = q] /\ q.pc # "insert" /\ answer # "deleted"
      BY <1>2, <1>7, <2>1
    <2>3. Knows(q)'
      BY <2>1 DEF Knows
    <2>4. object[k] = "stored" /\ object'[k] # "stored" =>
            \A g \in File : row[g].st = "live" /\ row[g].key = k => k \in untold' \/ g \in Half(h)'
      BY <1>2, <1>4, <1>7
    <2>5. QED
      BY <1>2, <1>3, <1>5, <2>1, <2>2, <2>3, <2>4, DeletionKept
  <1>8. QED
    BY <1>4, <1>6, <1>7

\* A purge has a file less to do, of which the object is gone or known to be kept.
LEMMA PurgeObjectStep ==
  ASSUME FilesInv, NEW h \in Handler, NEW f \in File, NEW answer, PurgeObject(h, f, answer)
  PROVE  /\ FilesInv'
         /\ Stored(row[f].key) /\ IsSignedContract(f) => handler[h].forced
  <1>0. /\ handler[h].pc = "purge" /\ f \in handler[h].todo /\ Knows(handler[h])
        /\ handler[h] \in Requests /\ FilesTypeOK
    BY DEF PurgeObject, FilesInv, FilesTypeOK, Requests, AllKnow
  <1>1. PICK k, T : k = row[f].key /\ T = handler[h].todo \ {f}
    OBVIOUS
  <1>5. row[f].st # "none" /\ k \in StorageKey /\ object[k] # "none"
    BY <1>0, <1>1 DEF Knows, FilesInv, KeysKept
  <1>a. PICK K \in SUBSET StorageKey :
          /\ K = handler[h].uncache \cup ToUncache(k, answer)
          /\ handler[h].uncache \subseteq K /\ (answer = "deleted" => k \in K)
    <2>1. handler[h].uncache \subseteq StorageKey
      BY <1>0 DEF Requests
    <2>2. PICK K \in SUBSET StorageKey : K = ToUncache(k, answer) /\ (answer = "deleted" => k \in K)
      BY <1>5 DEF ToUncache
    <2>3. handler[h].uncache \cup K \in SUBSET StorageKey
      BY <2>1
    <2>4. QED
      BY <2>2, <2>3
  <1>2. PICK q : q = [handler[h] EXCEPT !.todo = T, !.uncache = K]
    OBVIOUS
  <1>3. /\ DeleteInMedia(k, answer) /\ handler' = [handler EXCEPT ![h] = q]
        /\ untold' = IF answer \in {"failed", "lost"} THEN untold \cup {k} ELSE untold
        /\ UNCHANGED <<row, latest, cached, signed, contested>>
    BY <1>1, <1>a, <1>2 DEF PurgeObject, Becomes
  <1>4. /\ q \in Requests /\ q.pc = "purge" /\ q.todo = T /\ q.all = handler[h].all
        /\ q.forced = handler[h].forced /\ q.uncache = K
    BY <1>0, <1>1, <1>2 DEF Requests
  <1>6. /\ object'[k] = "stored" => answer = "failed" /\ object[k] = "stored"
        /\ \A j \in StorageKey \ {k} : object'[j] = object[j]
        /\ answer = "failed" => object'[k] = object[k]
    BY <1>0, <1>3, <1>5, DeleteInMediaIs
  <1>7. object'[k] = "stored" => k \in untold'
    BY <1>3, <1>6
  <1>8. Knows(q)'
    <2>1. \A g \in handler[h].all : g \in File /\ row[g].st # "none" /\ row[g].key \in StorageKey
      BY <1>0, <1>1 DEF Knows, FilesInv, KeysKept
    <2>2. ASSUME NEW g \in handler[h].all \ T, object'[row[g].key] = "stored"
          PROVE  row[g].key \in untold'
      <3>1. CASE g = f
        BY <1>1, <1>7, <2>2, <3>1
      <3>2. CASE g # f
        <4>1. g \in handler[h].all \ handler[h].todo
          BY <1>1, <2>2, <3>2
        <4>2. object[row[g].key] = "stored"
          BY <1>6, <2>1, <2>2
        <4>3. row[g].key \in untold
          BY <1>0, <4>1, <4>2 DEF Knows, Stored
        <4>4. QED
          BY <1>3, <4>3
      <3>3. QED
        BY <3>1, <3>2
    <2>3. T \subseteq handler[h].all
      BY <1>0, <1>1 DEF Knows
    <2>4. handler[h].forced \/ \A g \in T : row[g].folder # "contracts"
      BY <1>0, <1>1 DEF Knows
    <2>5. row' = row
      BY <1>3
    <2>6. QED
      BY <1>4, <2>1, <2>2, <2>3, <2>4, <2>5 DEF Knows, Stored
  <1>9. handler'[h] = q /\ Half(h) = handler[h].all \ handler[h].todo /\ Half(h)' = q.all \ q.todo
    <2>1. handler'[h] = q
      BY <1>3 DEF FilesInv, FilesTypeOK
    <2>2. Half(h) = handler[h].all \ handler[h].todo
      BY <1>0 DEF Half
    <2>3. Half(h)' = q.all \ q.todo
      BY <1>4, <2>1 DEF Half
    <2>4. QED
      BY <2>1, <2>2, <2>3
  <1>10. \A g \in File : g \in Half(h) => g \in Half(h)'
    BY <1>1, <1>4, <1>9
  <1>11. ASSUME object[k] = "stored", object'[k] # "stored", NEW g \in File, row[g].st = "live",
                row[g].key = k
         PROVE  k \in untold' \/ g \in Half(h)'
    <2>1. row[f].st # "deleted"
      BY <1>1, <1>11 DEF FilesInv, TreeMatchesStore, Stored
    <2>2. Exists(f) /\ Exists(g)
      BY <1>0, <1>5, <1>11, <2>1 DEF Exists, Present, FilesTypeOK
    <2>3. g = f
      BY <1>1, <1>11, <2>2 DEF FilesInv, KeysApart
    <2>4. f \in handler[h].all
      BY <1>0 DEF Knows
    <2>5. QED
      BY <1>1, <1>4, <1>9, <2>3, <2>4
  <1>12. FilesInv'
    <2>1. untold' \in {untold, untold \cup {k}} /\ (answer = "lost" => k \in untold') /\ q.pc # "insert"
      BY <1>3, <1>4
    <2>2. object[k] = "stored" /\ object'[k] # "stored" =>
            \A g \in File : row[g].st = "live" /\ row[g].key = k => k \in untold' \/ g \in Half(h)'
      BY <1>11
    <2>3. /\ q \in Requests /\ handler[h].uncache \subseteq q.uncache
          /\ answer = "deleted" => k \in q.uncache
      BY <1>a, <1>4
    <2>4. QED
      BY <1>3, <1>5, <1>8, <1>10, <2>1, <2>2, <2>3, DeletionKept
  <1>13. IsSignedContract(f) => handler[h].forced
    BY <1>0 DEF Knows, IsSignedContract
  <1>14. QED
    BY <1>12, <1>13

-----------------------------------------------------------------------------
(* Steps that end a request, or are none of a request.                     *)

\* A step after which the requests of H are over keeps the invariant if it changes no
\* file that another one approves, and leaves the tree, the latest approved file and
\* the cached URLs in order.
LEMMA RequestsEnd ==
  ASSUME FilesInv, FilesTypeOK', SameFiles, ObjectsAge, NEW H \in SUBSET Handler,
         \A g \in Handler \ H : handler'[g] = handler[g],
         \A h \in H : handler'[h] = Idle,
         \A g \in Handler \ H : handler[g].pc = "approved" => row'[handler[g].f].st \in Present,
         \A g \in Handler \ H : handler[g].pc = "deleteRow" /\ handler[g].f = latest' =>
                                  handler[g].match \/ contested',
         TreeMatchesStore', ApprovedFileExists', CachedUrlAlive'
  PROVE  FilesInv'
  <1>1. ASSUME NEW h \in H PROVE Knows(handler[h])' /\ handler'[h].pc # "insert"
    <2>1. PICK q : q = handler'[h] /\ q.pc = "idle" /\ q.todo = {} /\ q.uncache = {}
      BY IdleIs
    <2>2. QED
      BY <2>1 DEF Knows
  <1>2. KeysKept' /\ KeysApart' /\ OneCounts' /\ VersionFree' /\ AllKnow'
    BY <1>1, RequestsKept
  <1>3. QED
    BY <1>2 DEF FilesInv

\* What the requests in flight rely on, for those that a step does not end.
LEMMA OthersKnow ==
  ASSUME FilesInv
  PROVE  \A g \in Handler :
           /\ handler[g].pc = "approved" => row[handler[g].f].st \in Present
           /\ handler[g].pc = "deleteRow" /\ handler[g].f = latest => handler[g].match \/ contested
  BY DEF FilesInv, AllKnow, Knows, Exists

\* The types that the state and a request have.
LEMMA FilesTypes ==
  ASSUME FilesInv
  PROVE  /\ FilesTypeOK /\ handler \in [Handler -> Requests] /\ row \in [File -> FileRows]
         /\ object \in [StorageKey -> {"none", "stored", "gone"}]
  BY DEF FilesInv, FilesTypeOK, Requests, FileRows

\* A URL of crm-media is used to upload once.
LEMMA UploadStep ==
  ASSUME FilesInv, NEW k \in StorageKey, Upload(k)
  PROVE  FilesInv'
  <1>0. /\ UNCHANGED <<row, latest, cached, signed, handler, untold, contested>>
        /\ object' = [object EXCEPT ![k] = "stored"] /\ object[k] = "none"
    BY DEF Upload, history
  <1>1. FilesTypeOK'
    BY <1>0, FilesTypes DEF FilesTypeOK
  <1>2. SameFiles /\ ObjectsAge
    BY <1>0, FilesTypes, RowsUnchanged DEF ObjectsAge
  <1>3. \A g \in Handler : Half(g)' = Half(g)
    BY <1>0, HalfKept
  <1>4. \A f \in File : row[f].st # "none" => row[f].key # k /\ object'[row[f].key] = object[row[f].key]
    BY <1>0, FilesTypes DEF FilesInv, KeysKept
  <1>5. TreeMatchesStore'
    BY <1>0, <1>2, <1>3, <1>4, TreeKept DEF Stored
  <1>6. ApprovedFileExists' /\ CachedUrlAlive'
    BY <1>0, FilesTypes DEF FilesInv, FilesTypeOK, ApprovedFileExists, CachedUrlAlive, Exists, Stored, Uncaching
  <1>7. PICK H \in SUBSET Handler : H = {}
    OBVIOUS
  <1>8. QED
    BY <1>0, <1>1, <1>2, <1>5, <1>6, <1>7, OthersKnow, RequestsEnd

\* A cached URL expires.
LEMMA UrlExpiresStep ==
  ASSUME FilesInv, NEW k \in StorageKey, UrlExpires(k)
  PROVE  FilesInv'
  <1>0. UNCHANGED <<object, row, latest, signed, handler, untold, contested>> /\ cached' \subseteq cached
    BY DEF UrlExpires, history
  <1>1. FilesTypeOK'
    BY <1>0, FilesTypes DEF FilesTypeOK
  <1>2. SameFiles /\ ObjectsAge
    BY <1>0, RowsUnchanged DEF ObjectsAge
  <1>3. \A g \in Handler : Half(g)' = Half(g)
    BY <1>0, HalfKept
  <1>4. TreeMatchesStore'
    BY <1>0, <1>2, <1>3, TreeKept DEF Stored
  <1>5. ApprovedFileExists' /\ CachedUrlAlive'
    BY <1>0 DEF FilesInv, ApprovedFileExists, CachedUrlAlive, Exists, Stored, Uncaching
  <1>6. PICK H \in SUBSET Handler : H = {}
    OBVIOUS
  <1>7. QED
    BY <1>0, <1>1, <1>2, <1>4, <1>5, <1>6, OthersKnow, RequestsEnd

\* The contract is signed.
LEMMA ContractSignedStep ==
  ASSUME FilesInv, ContractSigned
  PROVE  FilesInv'
  <1>0. UNCHANGED <<object, row, latest, cached, handler, untold, contested>> /\ signed' = TRUE
    BY DEF ContractSigned, history
  <1>1. FilesTypeOK'
    BY <1>0, FilesTypes DEF FilesTypeOK
  <1>2. SameFiles /\ ObjectsAge
    BY <1>0, RowsUnchanged DEF ObjectsAge
  <1>3. \A g \in Handler : Half(g)' = Half(g)
    BY <1>0, HalfKept
  <1>4. TreeMatchesStore'
    BY <1>0, <1>2, <1>3, TreeKept DEF Stored
  <1>5. ApprovedFileExists' /\ CachedUrlAlive'
    BY <1>0 DEF FilesInv, ApprovedFileExists, CachedUrlAlive, Exists, Stored, Uncaching
  <1>6. PICK H \in SUBSET Handler : H = {}
    OBVIOUS
  <1>7. QED
    BY <1>0, <1>1, <1>2, <1>4, <1>5, <1>6, OthersKnow, RequestsEnd

\* A URL is cached, and known to be dead if its object has gone.
LEMMA CacheAccessUrlStep ==
  ASSUME FilesInv, NEW h \in Handler, CacheAccessUrl(h)
  PROVE  FilesInv'
  <1>1. PICK k : k = handler[h].key
    OBVIOUS
  <1>2. k \in StorageKey /\ handler[h].pc = "cache"
    BY <1>1 DEF CacheAccessUrl, FilesInv, AllKnow, Knows
  <1>3. /\ UNCHANGED <<object, row, latest, signed, contested>>
        /\ cached' = cached \cup {k}
        /\ untold' = IF Stored(k) \/ Uncaching(k) THEN untold ELSE untold \cup {k}
        /\ handler' = [handler EXCEPT ![h] = Idle]
    BY <1>1 DEF CacheAccessUrl, Becomes
  <1>4. /\ handler'[h] = Idle /\ \A g \in Handler \ {h} : handler'[g] = handler[g]
        /\ handler' \in [Handler -> Requests]
    BY <1>3, FilesTypes, IdleIs
  <1>5. FilesTypeOK'
    BY <1>2, <1>3, <1>4, FilesTypes DEF FilesTypeOK, Requests
  <1>6. SameFiles /\ ObjectsAge
    BY <1>3, RowsUnchanged DEF ObjectsAge
  <1>7. \A g \in Handler, f \in File : f \in Half(g) => f \in Half(g)'
    BY <1>2, <1>4, HalfKept, NothingHalf
  <1>8. TreeMatchesStore'
    BY <1>3, <1>6, <1>7, TreeKept DEF Stored
  <1>9. ApprovedFileExists' /\ CachedUrlAlive'
    <2>1. handler[h].uncache = {}
      BY <1>2 DEF FilesInv, AllKnow, Knows
    <2>2. \A j : Uncaching(j) => Uncaching(j)'
      BY <1>4, <2>1 DEF Uncaching
    <2>3. CachedUrlAlive'
      BY <1>3, <2>2 DEF FilesInv, CachedUrlAlive, Stored
    <2>4. QED
      BY <1>3, <2>3 DEF FilesInv, ApprovedFileExists, Exists
  <1>10. PICK H \in SUBSET Handler : H = {h}
    OBVIOUS
  <1>11. QED
    BY <1>3, <1>4, <1>5, <1>6, <1>8, <1>9, <1>10, OthersKnow, RequestsEnd

\* A request breaks off; what it has done to an object and not to its row is noted.
LEMMA RequestFailsStep ==
  ASSUME FilesInv, NEW h \in Handler, RequestFails(h)
  PROVE  FilesInv'
  <1>1. /\ UNCHANGED <<object, row, latest, cached, signed, contested>>
        /\ untold' = untold \cup {row[f].key : f \in {g \in Half(h) : ~Stored(row[g].key)}}
                            \cup handler[h].uncache
        /\ handler' = [handler EXCEPT ![h] = Idle]
    BY DEF RequestFails, Becomes
  <1>2. \A f \in Half(h) : f \in File /\ row[f].key \in StorageKey
    <2>1. Knows(handler[h])
      BY DEF FilesInv, AllKnow
    <2>2. \A f \in Half(h) : f \in File /\ row[f].st # "none"
      BY <2>1 DEF Knows, Half
    <2>3. QED
      BY <2>2 DEF FilesInv, KeysKept
  <1>3. untold \subseteq untold' /\ (untold \subseteq StorageKey => untold' \subseteq StorageKey)
    BY <1>1, <1>2, FilesTypes DEF Requests
  <1>4. /\ handler'[h] = Idle /\ \A g \in Handler \ {h} : handler'[g] = handler[g]
        /\ handler' \in [Handler -> Requests]
    BY <1>1, FilesTypes, IdleIs
  <1>5. FilesTypeOK'
    BY <1>1, <1>3, <1>4, FilesTypes DEF FilesTypeOK, Requests
  <1>6. SameFiles /\ ObjectsAge
    BY <1>1, <1>3, RowsUnchanged DEF ObjectsAge
  <1>7. ASSUME NEW f \in File, NEW g \in Handler, f \in Half(g)
        PROVE  Stored(row[f].key) \/ row[f].key \in untold' \/ f \in Half(g)'
    <2>1. CASE g = h
      BY <1>1, <1>7, <2>1
    <2>2. CASE g # h
      BY <1>4, <1>7, <2>2, HalfKept
    <2>3. QED
      BY <2>1, <2>2
  <1>8. TreeMatchesStore'
    BY <1>1, <1>6, <1>7, TreeKept DEF Stored
  <1>9. ApprovedFileExists' /\ CachedUrlAlive'
    <2>1. CachedUrlAlive'
      BY <1>1, <1>3, <1>4, CacheKept
    <2>2. QED
      BY <1>1, <2>1 DEF FilesInv, ApprovedFileExists, Exists
  <1>10. PICK H \in SUBSET Handler : H = {h}
    OBVIOUS
  <1>11. QED
    BY <1>1, <1>4, <1>5, <1>6, <1>8, <1>9, <1>10, OthersKnow, RequestsEnd

\* The cache is cleared after a deletion, or the failure to do so is noted; the other
\* requests and the files are as they were.
LEMMA ClearCacheStep ==
  ASSUME FilesInv, NEW h \in Handler, NEW k \in StorageKey, ClearCache(h, k) \/ ClearCacheFails(h, k)
  PROVE  FilesInv'
  <1>1. PICK q : q = CacheDone(h, k)
    OBVIOUS
  <1>2. /\ UNCHANGED <<object, row, latest, signed, contested>> /\ cached' \subseteq cached
        /\ k \in handler[h].uncache /\ handler' = [handler EXCEPT ![h] = q]
        /\ untold' \in {untold, untold \cup {k}} /\ (k \in cached' => k \in untold')
    BY <1>1 DEF ClearCache, ClearCacheFails, Becomes, history
  <1>3. PICK p \in Requests : p = handler[h] /\ Knows(p)
    BY FilesTypes DEF FilesInv, AllKnow
  <1>a. p.pc \in {"aborted", "clear", "purge"}
    BY <1>2, <1>3 DEF Knows
  <1>4. /\ q \in Requests /\ q.todo = p.todo /\ q.uncache = p.uncache \ {k}
        /\ p.pc = "aborted" => q.pc = "idle" /\ q.uncache = {}
        /\ p.pc # "aborted" => q.pc = p.pc /\ q.f = p.f /\ q.all = p.all /\ q.forced = p.forced
    <2>1. CASE p.pc = "aborted"
      <3>1. q = Idle
        BY <1>1, <1>3, <2>1 DEF CacheDone
      <3>2. p.todo = {} /\ p.uncache \ {k} = {}
        BY <1>2, <1>3, <2>1 DEF Knows
      <3>3. QED
        BY <2>1, <3>1, <3>2, IdleIs
    <2>2. CASE p.pc # "aborted"
      <3>1. q = [p EXCEPT !.uncache = p.uncache \ {k}]
        BY <1>1, <1>3, <2>2 DEF CacheDone
      <3>2. QED
        BY <2>2, <3>1 DEF Requests
    <2>3. QED
      BY <2>1, <2>2
  <1>5. /\ handler'[h] = q /\ \A g \in Handler \ {h} : handler'[g] = handler[g]
        /\ handler' \in [Handler -> Requests]
    BY <1>2, <1>4, FilesTypes
  <1>6. FilesTypeOK'
    BY <1>2, <1>5, FilesTypes DEF FilesTypeOK, Requests
  <1>7. SameFiles /\ ObjectsAge
    BY <1>2, RowsUnchanged DEF ObjectsAge
  <1>8. Knows(q)
    BY <1>3, <1>a, <1>4 DEF Knows
  <1>9. Knows(handler[h])'
    <2>1. Knows(q)'
      BY <1>a, <1>4, <1>7, <1>8, KnowsKept DEF FilesInv
    <2>2. QED
      BY <1>5, <2>1 DEF Knows
  <1>10. handler'[h].pc \in {"idle", "clear", "purge"}
    BY <1>a, <1>4, <1>5
  <1>11. KeysKept' /\ KeysApart' /\ OneCounts' /\ VersionFree' /\ AllKnow'
    <2>1. PICK H \in SUBSET Handler : H = {h}
      OBVIOUS
    <2>2. \A g \in Handler :
            /\ handler[g].pc = "approved" => row'[handler[g].f].st \in Present
            /\ handler[g].pc = "deleteRow" /\ handler[g].f = latest' => handler[g].match \/ contested'
      BY <1>2, OthersKnow
    <2>3. QED
      BY <1>5, <1>7, <1>9, <1>10, <2>1, <2>2, RequestsKept
  <1>12. TreeMatchesStore'
    <2>1. Half(h) \subseteq Half(h)'
      BY <1>3, <1>a, <1>4, <1>5 DEF Half
    <2>2. \A g \in Handler, f \in File : f \in Half(g) => f \in Half(g)'
      BY <1>5, <2>1, HalfKept
    <2>3. QED
      BY <1>2, <1>7, <2>2, TreeKept DEF Stored
  <1>13. CachedUrlAlive'
    <2>1. \A j \in cached', g \in Handler : j \in handler[g].uncache =>
            j \in untold' \/ j \in handler'[g].uncache
      BY <1>2, <1>3, <1>4, <1>5
    <2>2. QED
      BY <1>2, <2>1, CacheKept
  <1>14. ApprovedFileExists'
    BY <1>2 DEF FilesInv, ApprovedFileExists, Exists
  <1>15. QED
    BY <1>6, <1>11, <1>12, <1>13, <1>14 DEF FilesInv

-----------------------------------------------------------------------------
(* Steps that change a row.                                                *)

\* updateProjectFile changes the visibility of a file.
LEMMA UpdateProjectFileStep ==
  ASSUME FilesInv, NEW role, NEW f \in File, NEW v \in Visibility, UpdateProjectFile(role, f, v)
  PROVE  FilesInv'
  <1>0. /\ UNCHANGED <<object, latest, cached, signed, handler, untold, contested>>
        /\ row' = [row EXCEPT ![f].visible = v] /\ v \in BOOLEAN
    BY FilesAssumption DEF UpdateProjectFile, history
  <1>1. PICK r : r = [row[f] EXCEPT !.visible = v]
    OBVIOUS
  <1>2. row[f] \in FileRows
    BY FilesTypes
  <1>3. /\ r \in FileRows /\ r.st = row[f].st /\ r.key = row[f].key /\ r.name = row[f].name
        /\ r.folder = row[f].folder /\ r.version = row[f].version /\ r.approved = row[f].approved
    BY <1>0, <1>1, <1>2 DEF FileRows
  <1>4. row'[f] = r /\ (\A g \in File \ {f} : row'[g] = row[g]) /\ row' \in [File -> FileRows]
    BY <1>0, <1>1, <1>3, FilesTypes
  <1>5. FilesTypeOK'
    BY <1>0, <1>4, FilesTypes DEF FilesTypeOK, FileRows
  <1>6. SameFiles /\ ObjectsAge
    BY <1>0, <1>3, <1>4 DEF SameFiles, SameFile, ObjectsAge
  <1>7. \A g \in File : row'[g].st = row[g].st /\ row'[g].approved = row[g].approved
    BY <1>3, <1>4
  <1>8. \A g \in Handler : Half(g)' = Half(g)
    BY <1>0, HalfKept
  <1>9. TreeMatchesStore'
    BY <1>0, <1>6, <1>7, <1>8, TreeKept DEF Stored
  <1>10. ApprovedFileExists' /\ CachedUrlAlive'
    BY <1>0, <1>7, FilesTypes DEF FilesInv, FilesTypeOK, ApprovedFileExists, CachedUrlAlive, Exists, Stored,
       Uncaching
  <1>11. \A g \in Handler : handler[g].pc = "approved" => row'[handler[g].f].st \in Present
    BY <1>7 DEF FilesInv, AllKnow, Knows, Exists
  <1>12. PICK H \in SUBSET Handler : H = {}
    OBVIOUS
  <1>13. QED
    BY <1>0, <1>5, <1>6, <1>9, <1>10, <1>11, <1>12, OthersKnow, RequestsEnd

\* An approval commits: its file exists, and if a deletion of it is between its
\* statements that is known.
LEMMA ApproveCommitStep ==
  ASSUME FilesInv, NEW h \in Handler, ApproveCommit(h)
  PROVE  FilesInv'
  <1>0. handler[h].pc = "approved" /\ handler[h].f \in File /\ Exists(handler[h].f)
    BY DEF ApproveCommit, FilesInv, AllKnow, Knows
  <1>1. PICK f \in File : f = handler[h].f
    BY <1>0
  <1>2. /\ UNCHANGED <<object, cached, signed, untold>>
        /\ row' = [row EXCEPT ![f].approved = TRUE] /\ latest' = f
        /\ contested' = \E g \in Handler : handler[g].pc = "deleteRow" /\ handler[g].f = f
        /\ handler' = [handler EXCEPT ![h] = Idle]
    BY <1>1 DEF ApproveCommit, Becomes
  <1>3. PICK r : r = [row[f] EXCEPT !.approved = TRUE]
    OBVIOUS
  <1>4. row[f] \in FileRows
    BY FilesTypes
  <1>5. /\ r \in FileRows /\ r.st = row[f].st /\ r.key = row[f].key /\ r.name = row[f].name
        /\ r.folder = row[f].folder /\ r.version = row[f].version /\ r.approved
    BY <1>3, <1>4 DEF FileRows
  <1>6. row'[f] = r /\ (\A g \in File \ {f} : row'[g] = row[g]) /\ row' \in [File -> FileRows]
    BY <1>2, <1>3, <1>5, FilesTypes
  <1>7. /\ handler'[h] = Idle /\ \A g \in Handler \ {h} : handler'[g] = handler[g]
        /\ handler' \in [Handler -> Requests]
    BY <1>2, FilesTypes, IdleIs
  <1>8. FilesTypeOK'
    BY <1>2, <1>6, <1>7, FilesTypes DEF FilesTypeOK, FileRows, Requests
  <1>9. SameFiles /\ ObjectsAge
    BY <1>2, <1>5, <1>6 DEF SameFiles, SameFile, ObjectsAge
  <1>10. \A g \in File : row'[g].st = row[g].st
    BY <1>5, <1>6
  <1>11. \A g \in Handler, e \in File : e \in Half(g) => e \in Half(g)'
    BY <1>0, <1>7, HalfKept, NothingHalf
  <1>12. TreeMatchesStore'
    BY <1>2, <1>9, <1>10, <1>11, TreeKept DEF Stored
  <1>13. ApprovedFileExists'
    BY <1>0, <1>1, <1>2, <1>5, <1>6 DEF ApprovedFileExists, Exists
  <1>14. CachedUrlAlive'
    <2>1. handler[h].uncache = {}
      BY <1>0 DEF FilesInv, AllKnow, Knows
    <2>2. QED
      BY <1>2, <1>7, <2>1, CacheKept
  <1>15. \A g \in Handler : /\ handler[g].pc = "approved" => row'[handler[g].f].st \in Present
                            /\ handler[g].pc = "deleteRow" /\ handler[g].f = latest' => contested'
    BY <1>2, <1>10 DEF FilesInv, AllKnow, Knows, Exists
  <1>16. PICK H \in SUBSET Handler : H = {h}
    OBVIOUS
  <1>17. QED
    BY <1>7, <1>8, <1>9, <1>12, <1>13, <1>14, <1>15, <1>16, RequestsEnd

\* A deletion removes its row: the object is not stored, no approval holds the row,
\* and if it is the latest approved file the project forgets it.
LEMMA DeleteRowStep ==
  ASSUME FilesInv, NEW h \in Handler, DeleteRow(h)
  PROVE  FilesInv'
  <1>0. /\ handler[h].pc = "deleteRow" /\ Knows(handler[h]) /\ handler[h] \in Requests
        /\ \A g \in Handler : handler[g].pc = "approved" => handler[g].f # handler[h].f
    BY FilesTypes DEF DeleteRow, FilesInv, AllKnow, RowLocked
  <1>1. PICK f \in File : f = handler[h].f
    BY <1>0 DEF Knows
  <1>2. row[f].st # "none" /\ object[row[f].key] # "stored" /\ row[f].key \in StorageKey
    BY <1>0, <1>1 DEF Knows, Stored, FilesInv, KeysKept
  <1>3. PICK r : r = [NoRow EXCEPT !.st = "deleted", !.key = row[f].key]
    OBVIOUS
  <1>4. PICK m \in BOOLEAN : m = handler[h].match
    BY <1>0 DEF Requests
  <1>5. /\ UNCHANGED <<object, cached, signed, untold>>
        /\ row' = [row EXCEPT ![f] = r] /\ latest' = IF m THEN NoFile ELSE latest
        /\ contested' = (contested /\ ~m)
        /\ handler' = [handler EXCEPT ![h] = Idle]
    BY <1>1, <1>3, <1>4 DEF DeleteRow, Becomes
  <1>6. r \in FileRows /\ r.st = "deleted" /\ r.key = row[f].key /\ r.folder = "other"
    BY <1>2, <1>3 DEF FileRows, NoRow, Present
  <1>7. row'[f] = r /\ (\A g \in File \ {f} : row'[g] = row[g]) /\ row' \in [File -> FileRows]
    BY <1>5, <1>6, FilesTypes
  <1>8. /\ handler'[h] = Idle /\ \A g \in Handler \ {h} : handler'[g] = handler[g]
        /\ handler' \in [Handler -> Requests]
    BY <1>5, FilesTypes, IdleIs
  <1>9. latest \in File \cup {NoFile} /\ contested \in BOOLEAN
    BY FilesTypes DEF FilesTypeOK
  <1>10. FilesTypeOK'
    BY <1>5, <1>7, <1>8, <1>9, FilesTypes DEF FilesTypeOK, FileRows, Requests
  <1>11. SameFiles /\ ObjectsAge
    BY <1>2, <1>5, <1>6, <1>7 DEF SameFiles, SameFile, ObjectsAge, Present
  <1>12. Half(h) = {f}
    BY <1>0, <1>1 DEF Half
  <1>13. \A g \in Handler, e \in File \ {f} : e \in Half(g) => e \in Half(g)'
    BY <1>8, <1>12, HalfKept
  <1>14. TreeMatchesStore'
    BY <1>2, <1>5, <1>6, <1>7, <1>11, <1>13, TreeKept DEF Stored
  <1>15. ApprovedFileExists'
    <2>1. ASSUME latest' # NoFile, ~contested' PROVE Exists(latest)' /\ row'[latest'].approved
      <3>1. ~m /\ latest' = latest /\ ~contested
        BY <1>5, <2>1
      <3>2. latest # f
        BY <1>0, <1>1, <1>4, <3>1 DEF Knows
      <3>3. Exists(latest) /\ row[latest].approved /\ latest \in File
        BY <1>9, <2>1, <3>1 DEF FilesInv, ApprovedFileExists
      <3>4. QED
        BY <1>7, <3>1, <3>2, <3>3 DEF Exists
    <2>2. QED
      BY <2>1 DEF ApprovedFileExists
  <1>16. CachedUrlAlive'
    <2>1. handler[h].uncache = {}
      BY <1>0 DEF Knows
    <2>2. QED
      BY <1>5, <1>8, <2>1, CacheKept
  <1>17. \A g \in Handler : handler[g].pc = "approved" => row'[handler[g].f].st \in Present
    BY <1>0, <1>1, <1>7 DEF FilesInv, AllKnow, Knows, Exists
  <1>18. \A g \in Handler : handler[g].pc = "deleteRow" /\ handler[g].f = latest' =>
                              handler[g].match \/ contested'
    BY <1>5, FilesAssumption DEF FilesInv, AllKnow, Knows
  <1>19. PICK H \in SUBSET Handler : H = {h}
    OBVIOUS
  <1>20. QED
    BY <1>8, <1>10, <1>11, <1>14, <1>15, <1>16, <1>17, <1>18, <1>19, RequestsEnd

\* markFilesAsPurged, of the files whose objects the purge has deleted.
LEMMA MarkFilesAsPurgedStep ==
  ASSUME FilesInv, NEW h \in Handler, MarkFilesAsPurged(h)
  PROVE  FilesInv'
  <1>0. /\ handler[h].pc = "purge" /\ handler[h].todo = {} /\ handler[h].uncache = {}
        /\ Knows(handler[h])
    BY DEF MarkFilesAsPurged, FilesInv, AllKnow
  <1>1. PICK S : S = handler[h].all
    OBVIOUS
  <1>2. /\ UNCHANGED <<object, latest, cached, signed, untold, contested>>
        /\ row' = Purged(S) /\ handler' = [handler EXCEPT ![h] = Idle]
    BY <1>1 DEF MarkFilesAsPurged, Becomes, history
  <1>3. ASSUME NEW f \in File
        PROVE  /\ row'[f] \in FileRows /\ row'[f].key = row[f].key /\ row'[f].folder = row[f].folder
               /\ row'[f].name = row[f].name /\ row'[f].version = row[f].version
               /\ row'[f].approved = row[f].approved
               /\ row'[f].st = IF f \in S /\ row[f].st \in Present THEN "purged" ELSE row[f].st
    <2>1. PICK o \in FileRows : o = row[f]
      BY FilesTypes
    <2>2. row'[f] = IF f \in S /\ o.st \in Present THEN [o EXCEPT !.st = "purged"] ELSE o
      BY <1>2, <2>1 DEF Purged, Exists
    <2>3. PICK r : r = [o EXCEPT !.st = "purged"]
      OBVIOUS
    <2>4. /\ r \in FileRows /\ r.key = o.key /\ r.folder = o.folder /\ r.name = o.name
          /\ r.version = o.version /\ r.approved = o.approved /\ r.st = "purged"
      BY <2>3 DEF FileRows, Present
    <2>5. QED
      BY <2>1, <2>2, <2>3, <2>4
  <1>4. row' \in [File -> FileRows]
    BY <1>2, <1>3 DEF Purged
  <1>5. /\ handler'[h] = Idle /\ \A g \in Handler \ {h} : handler'[g] = handler[g]
        /\ handler' \in [Handler -> Requests]
    BY <1>2, FilesTypes, IdleIs
  <1>6. FilesTypeOK'
    BY <1>2, <1>4, <1>5, FilesTypes DEF FilesTypeOK, FileRows, Requests
  <1>7. SameFiles /\ ObjectsAge
    BY <1>2, <1>3 DEF SameFiles, SameFile, ObjectsAge, Present
  <1>8. Half(h) = S
    BY <1>0, <1>1 DEF Half
  <1>9. \A f \in File : row'[f].st = "live" => row[f].st = "live" /\ f \notin S
    BY <1>3 DEF Present
  <1>10. \A f \in File \ S, g \in Handler : f \in Half(g) => f \in Half(g)'
    BY <1>5, <1>8, HalfKept
  <1>11. ASSUME NEW f \in File, row'[f].st = "purged", row[f].st # "purged"
         PROVE  object'[row[f].key] # "stored" \/ row[f].key \in untold'
    <2>1. f \in handler[h].all \ handler[h].todo
      BY <1>0, <1>1, <1>3, <1>11
    <2>2. QED
      BY <1>0, <1>2, <2>1 DEF Knows, Stored
  <1>12. \A f \in File : row'[f].st = "deleted" => row[f].st = "deleted"
    BY <1>3
  <1>13. TreeMatchesStore'
    BY <1>2, <1>7, <1>9, <1>10, <1>11, <1>12, TreeKept DEF Stored
  <1>14. ApprovedFileExists'
    BY <1>2, <1>3, FilesTypes DEF FilesInv, FilesTypeOK, ApprovedFileExists, Exists, Present
  <1>15. CachedUrlAlive'
    BY <1>0, <1>2, <1>5, CacheKept
  <1>16. \A g \in Handler : handler[g].pc = "approved" => row'[handler[g].f].st \in Present
    BY <1>3 DEF FilesInv, AllKnow, Knows, Exists, Present
  <1>17. PICK H \in SUBSET Handler : H = {h}
    OBVIOUS
  <1>18. QED
    BY <1>2, <1>5, <1>6, <1>7, <1>13, <1>14, <1>15, <1>16, <1>17, OthersKnow, RequestsEnd

\* createFile inserts a row with a key that no other file has, a version that is free,
\* and an object that is stored and about to stay, or is known to be at odds.
LEMMA CreateFileStep ==
  ASSUME FilesInv, NEW h \in Handler, NEW f \in File, CreateFile(h, f)
  PROVE  FilesInv'
  <1>0. PICK q \in Requests : q = handler[h]
    BY FilesTypes
  <1>1. PICK r : r = [NoRow EXCEPT !.st = "live", !.key = q.key, !.name = q.name,
                                   !.folder = q.folder, !.version = q.version, !.visible = q.visible]
    OBVIOUS
  <1>2. /\ q.pc = "insert" /\ row[f].st = "none" /\ ~Registered(q.key)
        /\ row' = [row EXCEPT ![f] = r] /\ handler' = [handler EXCEPT ![h] = Idle]
        /\ untold' = IF Stored(q.key) /\ \A g \in Handler : ~(handler[g].pc = "abort" /\ handler[g].key = q.key)
                     THEN untold ELSE untold \cup {q.key}
        /\ UNCHANGED <<object, latest, cached, signed, contested>>
    BY <1>0, <1>1 DEF CreateFile, Becomes
  <1>3. q.key \in StorageKey /\ object[q.key] # "none"
    BY <1>0, <1>2 DEF FilesInv, AllKnow, Knows
  <1>4. /\ r \in FileRows /\ r.st = "live" /\ r.key = q.key /\ r.name = q.name
        /\ r.version = q.version
    BY <1>1 DEF Requests, FileRows, NoRow, Present
  <1>5. row'[f] = r /\ (\A g \in File \ {f} : row'[g] = row[g]) /\ row' \in [File -> FileRows]
    BY <1>2, <1>4, FilesTypes
  <1>6. /\ handler'[h] = Idle /\ \A g \in Handler \ {h} : handler'[g] = handler[g]
        /\ handler' \in [Handler -> Requests]
    BY <1>2, FilesTypes, IdleIs
  <1>7. FilesTypeOK'
    BY <1>2, <1>3, <1>5, <1>6, FilesTypes DEF FilesTypeOK, FileRows, Requests
  <1>8. KeysKept'
    BY <1>2, <1>3, <1>4, <1>5 DEF FilesInv, KeysKept
  <1>9. KeysApart'
    BY <1>2, <1>4, <1>5 DEF FilesInv, KeysApart, Exists, Registered
  <1>10. \A g \in Handler : handler'[g].pc # "idle" => g # h /\ handler'[g] = handler[g]
    BY <1>6, IdleIs
  <1>11. OneCounts'
    BY <1>10 DEF FilesInv, OneCounts
  <1>12. VersionFree'
    <2>1. ASSUME NEW g \in Handler, handler'[g].pc = "insert", NEW e \in File,
                 row'[e].st \in Present, row'[e].name = handler'[g].name,
                 handler'[g].version = row'[e].version
          PROVE  FALSE
      <3>1. g # h /\ handler'[g] = handler[g]
        BY <1>10, <2>1
      <3>2. handler[g].name # q.name
        BY <1>0, <1>2, <2>1, <3>1 DEF FilesInv, OneCounts
      <3>3. e # f
        BY <1>4, <1>5, <2>1, <3>1, <3>2
      <3>4. handler[g].version \in VersionsOf(handler[g].name)
        BY <1>5, <2>1, <3>1, <3>3 DEF VersionsOf, Exists
      <3>5. QED
        BY <2>1, <3>1, <3>4 DEF FilesInv, VersionFree
    <2>2. QED
      BY <2>1 DEF VersionFree, VersionsOf, Exists
  <1>13. AllKnow'
    <2>1. ASSUME NEW g \in Handler PROVE Knows(handler[g])'
      <3>1. PICK p : p = handler'[g]
        OBVIOUS
      <3>2. CASE g = h
        <4>1. p.pc = "idle" /\ p.todo = {} /\ p.uncache = {}
          BY <1>6, <3>1, <3>2, IdleIs
        <4>2. QED
          BY <3>1, <4>1 DEF Knows
      <3>3. CASE g # h
        <4>1. p = handler[g] /\ Knows(p)
          BY <1>6, <3>1, <3>3 DEF FilesInv, AllKnow
        <4>2. p.pc = "abort" =>
                \A e \in File : row'[e].st \in Present /\ row'[e].key = p.key => p.key \in untold'
          BY <1>2, <1>4, <1>5, <4>1 DEF Knows, Exists
        <4>3. /\ p.pc \in {"approved", "clear", "deleteRow"} => p.f # f
              /\ p.pc = "purge" => f \notin p.all
          BY <1>2, <4>1 DEF Knows, Exists, Present
        <4>4. /\ p.pc = "approved" => p.f \in File /\ row'[p.f].st \in Present
              /\ p.pc \in {"clear", "deleteRow"} =>
                   p.f \in File /\ row'[p.f].st # "none" /\ object'[row'[p.f].key] # "stored"
          BY <1>2, <1>5, <4>1, <4>3 DEF Knows, Exists, Stored
        <4>5. p.pc = "purge" =>
                /\ p.todo \subseteq p.all /\ \A e \in p.all : e \in File /\ row'[e].st # "none"
                /\ \A e \in p.all \ p.todo :
                     object'[row'[e].key] = "stored" => row'[e].key \in untold'
                /\ p.forced \/ \A e \in p.todo : row'[e].folder # "contracts"
          BY <1>2, <1>5, <4>1, <4>3 DEF Knows, Stored
        <4>6. /\ p.pc \in {"register", "insert", "abort", "cache"} =>
                   p.key \in StorageKey /\ object'[p.key] # "none"
              /\ p.pc = "deleteRow" /\ p.f = latest' => p.match \/ contested'
              /\ p.todo # {} => p.pc = "purge"
              /\ p.pc \notin {"aborted", "clear", "purge"} => p.uncache = {}
              /\ p.pc = "aborted" => \A j, k \in p.uncache : j = k
          BY <1>2, <4>1 DEF Knows
        <4>7. QED
          BY <3>1, <4>2, <4>4, <4>5, <4>6 DEF Knows, Exists, Stored
      <3>4. QED
        BY <3>2, <3>3
    <2>2. QED
      BY <2>1 DEF AllKnow
  <1>14. TreeMatchesStore'
    <2>1. \A g \in Handler, e \in File : e \in Half(g) => e \in Half(g)'
      BY <1>0, <1>2, <1>6, HalfKept, NothingHalf
    <2>2. ASSUME NEW e \in File \ {f}
          PROVE  /\ row'[e].st = "live" => \/ object'[row'[e].key] = "stored"
                                           \/ row'[e].key \in untold'
                                           \/ \E g \in Handler : e \in Half(g)'
                 /\ row'[e].st = "purged" =>
                      object'[row'[e].key] # "stored" \/ row'[e].key \in untold'
                 /\ row'[e].st = "deleted" => object'[row'[e].key] # "stored"
      BY <1>2, <1>5, <2>1 DEF FilesInv, TreeMatchesStore, Counted, Freed, Stored
    <2>3. object'[row'[f].key] = "stored" \/ row'[f].key \in untold'
      BY <1>2, <1>4, <1>5 DEF Stored
    <2>4. row'[f].st = "live"
      BY <1>4, <1>5
    <2>5. QED
      BY <2>2, <2>3, <2>4 DEF TreeMatchesStore, Counted, Freed, Stored
  <1>15. ApprovedFileExists'
    BY <1>2, <1>5, FilesTypes DEF FilesInv, FilesTypeOK, ApprovedFileExists, Exists, Present
  <1>16. CachedUrlAlive'
    <2>1. handler[h].uncache = {}
      BY <1>0, <1>2 DEF FilesInv, AllKnow, Knows
    <2>2. QED
      BY <1>2, <1>6, <2>1, CacheKept
  <1>17. QED
    BY <1>7, <1>8, <1>9, <1>11, <1>12, <1>13, <1>14, <1>15, <1>16 DEF FilesInv

-----------------------------------------------------------------------------
(* The files: every step, and the theorems.                                *)

\* What SignedKept says of a step.
OnlyForced ==
  \A h \in Handler, f \in File :
    /\ f \in handler[h].todo /\ f \notin handler'[h].todo
    /\ IsSignedContract(f) /\ Stored(row[f].key) /\ object'[row[f].key] = "gone"
    => handler[h].forced

\* A step that deletes no object removes no document of a contract.
LEMMA NoObjectGoes ==
  ASSUME UNCHANGED object
  PROVE  OnlyForced
  BY DEF OnlyForced, Stored

\* A step of a request that is not a purge ends none.
LEMMA NoPurgeStep ==
  ASSUME FilesInv, NEW h \in Handler, handler[h].pc # "purge", NEW q, handler' = [handler EXCEPT ![h] = q]
  PROVE  OnlyForced
  <1>1. handler[h].todo = {}
    BY DEF FilesInv, AllKnow, Knows
  <1>2. \A g \in Handler \ {h} : handler'[g] = handler[g]
    BY FilesTypes
  <1>3. QED
    BY <1>1, <1>2 DEF OnlyForced

\* Every step keeps the invariant, and the documents of a signed contract.
LEMMA FilesStep ==
  ASSUME FilesInv, FilesNext
  PROVE  FilesInv' /\ OnlyForced
  <1>1. ASSUME ContractSigned PROVE FilesInv' /\ OnlyForced
    BY <1>1, ContractSignedStep, NoObjectGoes DEF ContractSigned
  <1>2. ASSUME NEW k \in StorageKey, Upload(k) PROVE FilesInv' /\ OnlyForced
    <2>1. handler' = handler
      BY <1>2 DEF Upload
    <2>2. OnlyForced
      BY <2>1 DEF OnlyForced
    <2>3. QED
      BY <1>2, <2>2, UploadStep
  <1>3. ASSUME NEW k \in StorageKey, UrlExpires(k) PROVE FilesInv' /\ OnlyForced
    BY <1>3, UrlExpiresStep, NoObjectGoes DEF UrlExpires
  <1>4. ASSUME NEW f \in File, NEW role \in FileRole, NEW v \in Visibility, UpdateProjectFile(role, f, v)
        PROVE  FilesInv' /\ OnlyForced
    BY <1>4, UpdateProjectFileStep, NoObjectGoes DEF UpdateProjectFile
  <1>5. ASSUME NEW h \in Handler, NEW k \in StorageKey, Register(h, k)
        PROVE  FilesInv' /\ OnlyForced
    <2>1. PICK n \in FileName, folder \in Folder, v \in Visibility : UploadFileMetadata(h, k, n, folder, v)
      BY <1>5 DEF Register
    <2>2. QED
      BY <2>1, UploadFileMetadataStep, NoObjectGoes DEF UploadFileMetadata
  <1>6. ASSUME NEW h \in Handler, NEW k \in StorageKey, AbortUnregistered(h, k)
        PROVE  FilesInv' /\ OnlyForced
    BY <1>6, AbortUnregisteredStep, NoObjectGoes DEF AbortUnregistered
  <1>7. ASSUME NEW h \in Handler, NEW f \in File, CreateFile(h, f)
        PROVE  FilesInv' /\ OnlyForced
    BY <1>7, CreateFileStep, NoObjectGoes DEF CreateFile
  <1>8. ASSUME NEW h \in Handler, NEW f \in File, NEW role \in FileRole, GetFileAccess(h, role, f)
        PROVE  FilesInv' /\ OnlyForced
    BY <1>8, GetFileAccessStep, NoObjectGoes DEF GetFileAccess
  <1>9. ASSUME NEW h \in Handler, NEW f \in File, NEW role \in FileRole, ApproveFile(h, role, f)
        PROVE  FilesInv' /\ OnlyForced
    BY <1>9, ApproveFileStep, NoObjectGoes DEF ApproveFile
  <1>10. ASSUME NEW h \in Handler, NEW S \in SUBSET File, NEW force \in BOOLEAN, Purge(h, S, force)
         PROVE  FilesInv' /\ OnlyForced
    BY <1>10, PurgeStep, NoObjectGoes DEF Purge
  <1>11. ASSUME NEW h \in Handler, NEW a, AbortDelete(h, a)
         PROVE  FilesInv' /\ OnlyForced
    <2>1. PICK q : handler[h].pc # "purge" /\ handler' = [handler EXCEPT ![h] = q]
      BY <1>11 DEF AbortDelete, Becomes
    <2>2. OnlyForced
      BY <2>1, NoPurgeStep
    <2>3. QED
      BY <1>11, <2>2, AbortDeleteStep
  <1>12. ASSUME NEW h \in Handler, NEW f \in File, NEW a, DeleteFile(h, f, a)
         PROVE  FilesInv' /\ OnlyForced
    <2>1. PICK q : handler[h].pc # "purge" /\ handler' = [handler EXCEPT ![h] = q]
      BY <1>12 DEF DeleteFile, Becomes, IsFree
    <2>2. OnlyForced
      BY <2>1, NoPurgeStep
    <2>3. QED
      BY <1>12, <2>2, DeleteFileStep
  <1>13. ASSUME NEW h \in Handler, NEW f \in File, NEW a, PurgeObject(h, f, a)
         PROVE  FilesInv' /\ OnlyForced
    <2>1. /\ FilesInv'
          /\ Stored(row[f].key) /\ IsSignedContract(f) => handler[h].forced
      BY <1>13, PurgeObjectStep
    <2>2. PICK r \in Requests : r = handler[h]
      BY FilesTypes
    <2>3. PICK q : q = [r EXCEPT !.todo = r.todo \ {f},
                                 !.uncache = r.uncache \cup ToUncache(row[f].key, a)]
      OBVIOUS
    <2>4. q.todo = r.todo \ {f}
      BY <2>3 DEF Requests
    <2>5. handler' = [handler EXCEPT ![h] = q]
      BY <1>13, <2>2, <2>3 DEF PurgeObject, Becomes
    <2>6. handler'[h] = q /\ \A g \in Handler \ {h} : handler'[g] = handler[g]
      BY <2>5, FilesTypes
    <2>7. ASSUME NEW g \in Handler, NEW e \in File, e \in handler[g].todo, e \notin handler'[g].todo
          PROVE  g = h /\ e = f
      BY <2>2, <2>4, <2>6, <2>7
    <2>8. OnlyForced
      BY <2>1, <2>7 DEF OnlyForced
    <2>9. QED
      BY <2>1, <2>8
  <1>14. ASSUME NEW h \in Handler, LockVersion(h) PROVE FilesInv' /\ OnlyForced
    BY <1>14, LockVersionStep, NoObjectGoes DEF LockVersion
  <1>15. ASSUME NEW h \in Handler, CacheAccessUrl(h) PROVE FilesInv' /\ OnlyForced
    BY <1>15, CacheAccessUrlStep, NoObjectGoes DEF CacheAccessUrl
  <1>16. ASSUME NEW h \in Handler, ApproveCommit(h) PROVE FilesInv' /\ OnlyForced
    BY <1>16, ApproveCommitStep, NoObjectGoes DEF ApproveCommit
  <1>17. ASSUME NEW h \in Handler, ClearLatest(h) PROVE FilesInv' /\ OnlyForced
    BY <1>17, ClearLatestStep, NoObjectGoes DEF ClearLatest
  <1>18. ASSUME NEW h \in Handler, DeleteRow(h) PROVE FilesInv' /\ OnlyForced
    BY <1>18, DeleteRowStep, NoObjectGoes DEF DeleteRow
  <1>19. ASSUME NEW h \in Handler, MarkFilesAsPurged(h) PROVE FilesInv' /\ OnlyForced
    BY <1>19, MarkFilesAsPurgedStep, NoObjectGoes DEF MarkFilesAsPurged
  <1>20. ASSUME NEW h \in Handler, RequestFails(h) PROVE FilesInv' /\ OnlyForced
    BY <1>20, RequestFailsStep, NoObjectGoes DEF RequestFails
  <1>21. ASSUME NEW h \in Handler, NEW k \in StorageKey, ClearCache(h, k) \/ ClearCacheFails(h, k)
         PROVE  FilesInv' /\ OnlyForced
    BY <1>21, ClearCacheStep, NoObjectGoes DEF ClearCache, ClearCacheFails
  <1>22. QED
    BY <1>1, <1>2, <1>3, <1>4, <1>5, <1>6, <1>7, <1>8, <1>9, <1>10, <1>11, <1>12, <1>13,
       <1>14, <1>15, <1>16, <1>17, <1>18, <1>19, <1>20, <1>21, Zenon DEF FilesNext

\* A project begins without files.
LEMMA FilesInitInv == FilesInit => FilesInv
  <1> SUFFICES ASSUME FilesInit PROVE FilesInv
    OBVIOUS
  <1>1. NoRow \in FileRows /\ NoRow.st = "none"
    BY DEF NoRow, FileRows, Present
  <1>2. /\ \A f \in File : row[f] = NoRow
        /\ \A h \in Handler : handler[h] = Idle
        /\ row \in [File -> FileRows] /\ handler \in [Handler -> Requests]
    BY <1>1, IdleIs DEF FilesInit
  <1>3. /\ \A f \in File : row[f].st = "none"
        /\ \A h \in Handler : handler[h].pc = "idle" /\ handler[h].todo = {} /\ handler[h].uncache = {}
        /\ latest = NoFile /\ cached = {}
    BY <1>1, <1>2, IdleIs DEF FilesInit
  <1>4. FilesTypeOK
    BY <1>2 DEF FilesInit, FilesTypeOK, FileRows, Requests
  <1>5. AllKnow
    BY <1>3 DEF AllKnow, Knows
  <1>6. KeysKept /\ KeysApart /\ OneCounts /\ ApprovedFileExists /\ VersionFree /\ CachedUrlAlive
    BY <1>3 DEF KeysKept, KeysApart, OneCounts, ApprovedFileExists, VersionFree, CachedUrlAlive,
                Exists, Present
  <1>7. TreeMatchesStore
    BY <1>3 DEF TreeMatchesStore, Counted, Freed
  <1>8. QED
    BY <1>4, <1>5, <1>6, <1>7 DEF FilesInv

\* A step of the files, or none.
LEMMA FilesBoxStep == FilesInv /\ [FilesNext]_filesVars => FilesInv' /\ [OnlyForced]_filesVars
  <1>1. ASSUME FilesInv, UNCHANGED filesVars PROVE FilesInv'
    BY <1>1 DEF filesVars, FilesInv, FilesTypeOK, KeysKept, KeysApart, OneCounts, AllKnow, Knows,
                TreeMatchesStore, ApprovedFileExists, VersionFree, CachedUrlAlive, Exists, Stored,
                Counted, Freed, Half, VersionsOf, Uncaching
  <1>2. QED
    BY <1>1, FilesStep, Zenon

\* The invariant holds in every reachable state.
LEMMA FilesInvAlways == FilesSpec => []FilesInv
  BY FilesInitInv, FilesBoxStep, PTL DEF FilesSpec

\* The variables of the files keep their types.
THEOREM FilesTypeCorrect == FilesSpec => []FilesTypeOK
  <1>1. FilesInv => FilesTypeOK
    BY DEF FilesInv
  <1>2. QED
    BY <1>1, FilesInvAlways, PTL

\* The storage tree tells what crm-media stores, whatever requests overlap or fail
\* between the two stores, but for what is known to be at odds.
THEOREM FilesTreeMatchesStore == FilesSpec => []TreeMatchesStore
  <1>1. FilesInv => TreeMatchesStore
    BY DEF FilesInv
  <1>2. QED
    BY <1>1, FilesInvAlways, PTL

\* The latest approved file of the project exists and is approved, unless its
\* approval came between the statements of its deletion.
THEOREM FilesApprovedFileExists == FilesSpec => []ApprovedFileExists
  <1>1. FilesInv => ApprovedFileExists
    BY DEF FilesInv
  <1>2. QED
    BY <1>1, FilesInvAlways, PTL

\* A version computed under the advisory lock is still free when its row is inserted,
\* for any number of registrations, deletions and purges.
THEOREM FilesVersionFree == FilesSpec => []VersionFree
  <1>1. FilesInv => VersionFree
    BY DEF FilesInv
  <1>2. QED
    BY <1>1, FilesInvAlways, PTL

\* A cached access URL is one of a stored object, for any number of requests, unless
\* the request that had the object deleted has yet to run its DELETE on the cache,
\* that DELETE failed or was never reached, the answer of crm-media was lost, or the
\* URL had been granted before the deletion and was cached after the DELETE.
THEOREM FilesCachedUrlAlive == FilesSpec => []CachedUrlAlive
  <1>1. FilesInv => CachedUrlAlive
    BY DEF FilesInv
  <1>2. QED
    BY <1>1, FilesInvAlways, PTL

\* A purge removes the document of a signed contract only when it is forced, or looked
\* before the signature.
THEOREM FilesSignedKept == FilesSpec => SignedKept
  <1>1. FilesInv /\ [FilesNext]_filesVars => [OnlyForced]_filesVars
    BY FilesBoxStep
  <1>2. QED
    BY <1>1, FilesInvAlways, PTL DEF FilesSpec, SignedKept, OnlyForced
=============================================================================
