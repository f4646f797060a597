-------------------------- MODULE WorkspaceProofs --------------------------
(***************************************************************************)
(* Proofs about the components that share nothing with each other: the     *)
(* profile cache, change requests, the chat, assignments and the columns   *)
(* of a board, for any number of people, messages, requests and processes. *)
(* MediaProofs has those about files and the circuit breaker.  At the end, *)
(* that the workspace implements each of its components.                   *)
(***************************************************************************)
EXTENDS Workspace, MediaProofs

(* The profile cache.                                                      *)

\* The row an upsert is about to cache is the current one unless another process has
\* changed it, and nothing is cached of what is about to be deleted.
CacheAhead ==
  \A p \in Process :
    /\ change[p].op = "upsert" /\ changedBy[change[p].u] = p
         => change[p].row = snapshot[change[p].u]
    /\ change[p].op = "delete" /\ <<p, change[p].u>> \notin overtaken
         => profile[p][change[p].u] = 0

CacheInv == ProfileCacheTypeOK /\ CacheAhead /\ OwnChangeCached

Upserts == [op : {"upsert"}, u : Person, row : 1 .. MaxVersion]
Deletions == [op : {"delete"}, u : Person]
Lookups == [pc : {"read"}, p : Process, u : Person, row : 1 .. MaxVersion]

\* The fields of what is in flight.
LEMMA InFlightIs ==
  ASSUME ProfileCacheTypeOK
  PROVE  /\ \A p \in Process :
              /\ change[p] = NoChange \/ change[p] \in Upserts \/ change[p] \in Deletions
              /\ change[p] = NoChange <=> change[p].op \notin {"upsert", "delete"}
              /\ change[p].op = "upsert" => change[p].u \in Person /\ change[p].row \in 1 .. MaxVersion
              /\ change[p].op = "delete" => change[p].u \in Person
         /\ \A l \in Lookup :
              lookup[l] # NoLookup => /\ lookup[l].p \in Process /\ lookup[l].u \in Person
                                      /\ lookup[l].row \in 1 .. MaxVersion
  <1>1. ASSUME NEW p \in Process
        PROVE  change[p] = NoChange \/ change[p] \in Upserts \/ change[p] \in Deletions
    BY DEF ProfileCacheTypeOK, Upserts, Deletions
  <1>2. NoChange.op = "none"
    BY DEF NoChange
  <1>3. \A r \in Upserts : r.op = "upsert" /\ r.u \in Person /\ r.row \in 1 .. MaxVersion
    BY DEF Upserts
  <1>4. \A r \in Deletions : r.op = "delete" /\ r.u \in Person
    BY DEF Deletions
  <1>5. ASSUME NEW p \in Process
        PROVE  /\ change[p] = NoChange <=> change[p].op \notin {"upsert", "delete"}
               /\ change[p].op = "upsert" => change[p].u \in Person /\ change[p].row \in 1 .. MaxVersion
               /\ change[p].op = "delete" => change[p].u \in Person
    BY <1>1, <1>2, <1>3, <1>4
  <1>6. \A r \in Lookups : r.p \in Process /\ r.u \in Person /\ r.row \in 1 .. MaxVersion
    BY DEF Lookups
  <1>7. ASSUME NEW l \in Lookup PROVE lookup[l] = NoLookup \/ lookup[l] \in Lookups
    BY DEF ProfileCacheTypeOK, Lookups
  <1>8. QED
    BY <1>1, <1>5, <1>6, <1>7

\* The invariant holds at the start.
LEMMA CacheInitInv == ProfileCacheInit => CacheInv
  <1> SUFFICES ASSUME ProfileCacheInit PROVE CacheInv
    OBVIOUS
  <1>1. ProfileCacheTypeOK
    BY ProfileCacheAssumption DEF ProfileCacheInit, ProfileCacheTypeOK
  <1>2. \A p \in Process : change[p].op = "none"
    BY DEF ProfileCacheInit, NoChange
  <1>3. CacheAhead
    BY <1>2 DEF CacheAhead
  <1>4. OwnChangeCached
    BY DEF ProfileCacheInit, OwnChangeCached
  <1>5. QED
    BY <1>1, <1>3, <1>4 DEF CacheInv

\* What a lookup does to the caches.
LEMMA LookupStep ==
  ASSUME CacheInv, NEW l \in Lookup,
         CacheProfile(l) \/ \E p \in Process, u \in Person : GetUserProfiles(l, p, u)
  PROVE  CacheInv'
  <1> USE ProfileCacheAssumption DEF CacheInv
  <1>1. ASSUME NEW p \in Process, NEW u \in Person, GetUserProfiles(l, p, u) PROVE CacheInv'
    <2>1. /\ snapshot[u] # 0
          /\ lookup' = [lookup EXCEPT ![l] = [pc |-> "read", p |-> p, u |-> u, row |-> snapshot[u]]]
          /\ UNCHANGED <<snapshot, version, profile, change, changedBy, overtaken>>
      BY <1>1 DEF GetUserProfiles
    <2>2. [pc |-> "read", p |-> p, u |-> u, row |-> snapshot[u]] \in Lookups
      BY <2>1 DEF ProfileCacheTypeOK, Lookups
    <2>3. ProfileCacheTypeOK'
      BY <2>1, <2>2 DEF ProfileCacheTypeOK, Lookups
    <2>4. QED
      BY <2>1, <2>3 DEF CacheAhead, OwnChangeCached, Changing
  <1>2. CASE CacheProfile(l)
    <2>1. PICK p \in Process, u \in Person, r \in 1 .. MaxVersion :
            lookup[l] # NoLookup /\ lookup[l].p = p /\ lookup[l].u = u /\ lookup[l].row = r
      BY <1>2, InFlightIs DEF CacheProfile
    <2>2. /\ profile' = [profile EXCEPT ![p][u] = r]
          /\ overtaken' = IF r # snapshot[u] \/ Changing(p, u)
                          THEN overtaken \cup {<<p, u>>} ELSE overtaken
          /\ lookup' = [lookup EXCEPT ![l] = NoLookup]
          /\ UNCHANGED <<snapshot, version, change, changedBy>>
      BY <1>2, <2>1 DEF CacheProfile
    <2>3. /\ profile'[p][u] = r
          /\ \A q \in Process, w \in Person : q # p \/ w # u => profile'[q][w] = profile[q][w]
          /\ profile' \in [Process -> [Person -> 0 .. MaxVersion]]
      BY <2>2 DEF ProfileCacheTypeOK
    <2>4. ProfileCacheTypeOK'
      BY <2>2, <2>3 DEF ProfileCacheTypeOK
    <2>5. ASSUME NEW q \in Process,
                 change[q].op = "delete", <<q, change[q].u>> \notin overtaken'
          PROVE  profile'[q][change[q].u] = 0
      <3>1. PICK w \in Person : w = change[q].u
        BY <2>5, InFlightIs
      <3>2. <<q, w>> \notin overtaken /\ profile[q][w] = 0
        BY <2>2, <2>5, <3>1 DEF CacheAhead
      <3>3. CASE q = p /\ w = u
        <4>1. Changing(p, u)
          BY <2>5, <3>1, <3>3 DEF Changing, NoChange
        <4>2. QED
          BY <2>2, <2>5, <3>1, <3>3, <4>1
      <3>4. QED
        BY <2>3, <3>1, <3>2, <3>3
    <2>6. CacheAhead'
      BY <2>2, <2>5 DEF CacheAhead
    <2>7. ASSUME NEW w \in Person, NEW q \in Process,
                 changedBy[w] = q, ~ Changing(q, w), <<q, w>> \notin overtaken'
          PROVE  profile'[q][w] \in {0, snapshot[w]}
      <3>1. <<q, w>> \notin overtaken /\ profile[q][w] \in {0, snapshot[w]}
        BY <2>2, <2>7 DEF OwnChangeCached
      <3>2. CASE q = p /\ w = u
        BY <2>2, <2>3, <2>7, <3>2
      <3>3. QED
        BY <2>3, <3>1, <3>2
    <2>8. OwnChangeCached'
      BY <2>2, <2>7 DEF OwnChangeCached, Changing
    <2>9. QED
      BY <2>4, <2>6, <2>8
  <1>3. QED
    BY <1>1, <1>2

\* An entry expires, or a process forgets all.
LEMMA ForgetStep ==
  ASSUME CacheInv, NEW p \in Process, Restart(p) \/ \E u \in Person : PurgeExpired(p, u)
  PROVE  CacheInv'
  <1> USE ProfileCacheAssumption DEF CacheInv
  <1>1. ASSUME NEW u \in Person, PurgeExpired(p, u) PROVE CacheInv'
    <2>1. /\ profile' = [profile EXCEPT ![p][u] = 0]
          /\ UNCHANGED <<snapshot, version, lookup, change, changedBy, overtaken>>
      BY <1>1 DEF PurgeExpired
    <2>2. /\ profile' \in [Process -> [Person -> 0 .. MaxVersion]]
          /\ \A q \in Process, w \in Person : profile'[q][w] \in {0, profile[q][w]}
      BY <2>1 DEF ProfileCacheTypeOK
    <2>3. ProfileCacheTypeOK'
      BY <2>1, <2>2 DEF ProfileCacheTypeOK
    <2>4. CacheAhead'
      <3>1. \A q \in Process : change[q].op = "delete" => change[q].u \in Person
        BY InFlightIs
      <3>2. QED
        BY <2>1, <2>2, <3>1 DEF CacheAhead
    <2>5. OwnChangeCached'
      BY <2>1, <2>2 DEF OwnChangeCached, Changing
    <2>6. QED
      BY <2>3, <2>4, <2>5
  <1>2. CASE Restart(p)
    <2>1. /\ profile' = [profile EXCEPT ![p] = [u \in Person |-> 0]]
          /\ lookup' = [l \in Lookup |->
                          IF lookup[l] # NoLookup /\ lookup[l].p = p THEN NoLookup ELSE lookup[l]]
          /\ change' = [change EXCEPT ![p] = NoChange]
          /\ overtaken' = overtaken \ ({p} \X Person)
          /\ UNCHANGED <<snapshot, version, changedBy>>
      BY <1>2 DEF Restart
    <2>2. /\ profile' \in [Process -> [Person -> 0 .. MaxVersion]]
          /\ \A u \in Person : profile'[p][u] = 0
          /\ \A q \in Process \ {p} : profile'[q] = profile[q] /\ change'[q] = change[q]
          /\ change'[p] = NoChange
          /\ \A q \in Process \ {p}, w \in Person : <<q, w>> \notin overtaken' => <<q, w>> \notin overtaken
      BY <2>1 DEF ProfileCacheTypeOK
    <2>3. ProfileCacheTypeOK'
      BY <2>1, <2>2 DEF ProfileCacheTypeOK
    <2>4. CacheAhead'
      <3>1. ASSUME NEW q \in Process \ {p}
            PROVE  /\ change'[q].op = "upsert" /\ changedBy'[change'[q].u] = q
                        => change'[q].row = snapshot'[change'[q].u]
                   /\ change'[q].op = "delete" /\ <<q, change'[q].u>> \notin overtaken'
                        => profile'[q][change'[q].u] = 0
        <4>1. change[q].op = "delete" => change[q].u \in Person
          BY InFlightIs
        <4>2. QED
          BY <2>1, <2>2, <4>1 DEF CacheAhead
      <3>2. change'[p].op \notin {"upsert", "delete"}
        BY <2>2 DEF NoChange
      <3>3. QED
        BY <3>1, <3>2 DEF CacheAhead
    <2>5. OwnChangeCached'
      BY <2>1, <2>2 DEF OwnChangeCached, Changing
    <2>6. QED
      BY <2>3, <2>4, <2>5
  <1>3. QED
    BY <1>1, <1>2

\* The steps of an event that change the row.
LEMMA RowStep ==
  ASSUME CacheInv, NEW p \in Process,
         AnonymizeUserPII(p) \/ \E u \in Person : UpsertSnapshot(p, u)
  PROVE  CacheInv'
  <1> USE ProfileCacheAssumption DEF CacheInv
  <1>0. /\ \A q \in Process : change[q].op \in {"upsert", "delete"} => change[q].u \in Person
        /\ \A q \in Process : change[q] = NoChange <=> change[q].op \notin {"upsert", "delete"}
        /\ change \in [Process -> {NoChange} \cup Upserts \cup Deletions]
    BY InFlightIs DEF ProfileCacheTypeOK, Upserts, Deletions
  <1>1. ASSUME NEW u \in Person, UpsertSnapshot(p, u) PROVE CacheInv'
    <2>1. PICK v : v = version + 1
      OBVIOUS
    <2>2. PICK q : q = [op |-> "upsert", u |-> u, row |-> v]
      OBVIOUS
    <2>3. /\ change[p] = NoChange /\ version < MaxVersion /\ version' = v
          /\ snapshot' = [snapshot EXCEPT ![u] = v]
          /\ changedBy' = [changedBy EXCEPT ![u] = p]
          /\ change' = [change EXCEPT ![p] = q]
          /\ UNCHANGED <<profile, lookup, overtaken>>
      BY <1>1, <2>1, <2>2 DEF UpsertSnapshot
    <2>4. v \in 1 .. MaxVersion
      BY <2>1, <2>3 DEF ProfileCacheTypeOK
    <2>5. q \in Upserts /\ q.op = "upsert" /\ q.u = u /\ q.row = v
      BY <2>2, <2>4 DEF Upserts
    <2>6. /\ change' \in [Process -> {NoChange} \cup Upserts \cup Deletions]
          /\ change'[p] = q /\ \A o \in Process \ {p} : change'[o] = change[o]
          /\ snapshot'[u] = v /\ \A w \in Person \ {u} : snapshot'[w] = snapshot[w]
          /\ changedBy'[u] = p /\ \A w \in Person \ {u} : changedBy'[w] = changedBy[w]
      BY <1>0, <2>3, <2>5 DEF ProfileCacheTypeOK
    <2>7. ProfileCacheTypeOK'
      <3>1. snapshot' \in [Person -> 0 .. MaxVersion] /\ version' \in 0 .. MaxVersion
        BY <2>3, <2>4 DEF ProfileCacheTypeOK
      <3>2. changedBy' \in [Person -> Process \cup {NoProcess}]
        BY <2>3 DEF ProfileCacheTypeOK
      <3>3. QED
        BY <2>3, <2>6, <3>1, <3>2 DEF ProfileCacheTypeOK, Upserts, Deletions
    <2>8. CacheAhead'
      <3>1. ASSUME NEW o \in Process
            PROVE  /\ change'[o].op = "upsert" /\ changedBy'[change'[o].u] = o
                        => change'[o].row = snapshot'[change'[o].u]
                   /\ change'[o].op = "delete" /\ <<o, change'[o].u>> \notin overtaken'
                        => profile'[o][change'[o].u] = 0
        <4>1. CASE o = p
          BY <2>5, <2>6, <4>1
        <4>2. CASE o # p
          <5>1. change'[o] = change[o]
            BY <2>6, <4>2
          <5>2. ASSUME change[o].op = "upsert", changedBy'[change[o].u] = o
                PROVE  change[o].row = snapshot'[change[o].u]
            <6>1. change[o].u \in Person /\ change[o].u # u
              BY <1>0, <2>6, <4>2, <5>2
            <6>2. QED
              BY <2>6, <5>2, <6>1 DEF CacheAhead
          <5>3. QED
            BY <2>3, <5>1, <5>2 DEF CacheAhead
        <4>3. QED
          BY <4>1, <4>2
      <3>2. QED
        BY <3>1 DEF CacheAhead
    <2>9. OwnChangeCached'
      <3>1. ASSUME NEW w \in Person, NEW o \in Process,
                   changedBy'[w] = o, ~ Changing(o, w)', <<o, w>> \notin overtaken
            PROVE  profile[o][w] \in {0, snapshot'[w]}
        <4>1. CASE w = u
          <5>1. o = p /\ change'[o] = q /\ q # NoChange /\ q.u = w
            BY <2>5, <2>6, <3>1, <4>1 DEF NoChange
          <5>2. QED
            BY <3>1, <5>1 DEF Changing
        <4>2. CASE w # u
          <5>1. changedBy[w] = o /\ snapshot'[w] = snapshot[w]
            BY <2>6, <3>1, <4>2
          <5>2. ~ Changing(o, w)
            BY <2>3, <2>6, <3>1 DEF Changing
          <5>3. QED
            BY <3>1, <5>1, <5>2 DEF OwnChangeCached
        <4>3. QED
          BY <4>1, <4>2
      <3>2. QED
        BY <2>3, <3>1 DEF OwnChangeCached
    <2>10. QED
      BY <2>7, <2>8, <2>9
  <1>2. CASE AnonymizeUserPII(p)
    <2>1. PICK u \in Person : u = change[p].u /\ change[p].op = "delete"
      BY <1>0, <1>2 DEF AnonymizeUserPII
    <2>2. /\ snapshot' = [snapshot EXCEPT ![u] = 0]
          /\ changedBy' = [changedBy EXCEPT ![u] = p]
          /\ change' = [change EXCEPT ![p] = NoChange]
          /\ UNCHANGED <<version, profile, lookup, overtaken>>
      BY <1>2, <2>1 DEF AnonymizeUserPII
    <2>3. /\ change'[p] = NoChange /\ \A o \in Process \ {p} : change'[o] = change[o]
          /\ snapshot'[u] = 0 /\ \A w \in Person \ {u} : snapshot'[w] = snapshot[w]
          /\ changedBy'[u] = p /\ \A w \in Person \ {u} : changedBy'[w] = changedBy[w]
      BY <2>2 DEF ProfileCacheTypeOK
    <2>4. ProfileCacheTypeOK'
      BY <2>2 DEF ProfileCacheTypeOK
    <2>5. CacheAhead'
      <3>1. ASSUME NEW o \in Process
            PROVE  /\ change'[o].op = "upsert" /\ changedBy'[change'[o].u] = o
                        => change'[o].row = snapshot'[change'[o].u]
                   /\ change'[o].op = "delete" /\ <<o, change'[o].u>> \notin overtaken'
                        => profile'[o][change'[o].u] = 0
        <4>1. CASE o = p
          BY <2>3, <4>1 DEF NoChange
        <4>2. CASE o # p
          <5>1. change'[o] = change[o]
            BY <2>3, <4>2
          <5>2. ASSUME change[o].op = "upsert", changedBy'[change[o].u] = o
                PROVE  change[o].row = snapshot'[change[o].u]
            <6>1. change[o].u \in Person /\ change[o].u # u
              BY <1>0, <2>3, <4>2, <5>2
            <6>2. QED
              BY <2>3, <5>2, <6>1 DEF CacheAhead
          <5>3. QED
            BY <2>2, <5>1, <5>2 DEF CacheAhead
        <4>3. QED
          BY <4>1, <4>2
      <3>2. QED
        BY <3>1 DEF CacheAhead
    <2>6. OwnChangeCached'
      <3>1. ASSUME NEW w \in Person, NEW o \in Process,
                   changedBy'[w] = o, ~ Changing(o, w)', <<o, w>> \notin overtaken
            PROVE  profile[o][w] \in {0, snapshot'[w]}
        <4>1. CASE w = u
          BY <2>1, <2>3, <3>1, <4>1 DEF CacheAhead
        <4>2. CASE w # u
          <5>1. changedBy[w] = o /\ snapshot'[w] = snapshot[w]
            BY <2>3, <3>1, <4>2
          <5>2. ~ Changing(o, w)
            BY <2>1, <2>3, <3>1, <4>2 DEF Changing
          <5>3. QED
            BY <3>1, <5>1, <5>2 DEF OwnChangeCached
        <4>3. QED
          BY <4>1, <4>2
      <3>2. QED
        BY <2>2, <3>1 DEF OwnChangeCached
    <2>7. QED
      BY <2>4, <2>5, <2>6
  <1>3. QED
    BY <1>1, <1>2

\* A process ends its work on u, or begins to delete it: the others see nothing of it.
LEMMA OwnEntryStep ==
  ASSUME CacheInv, NEW p \in Process, NEW u \in Person, NEW q, NEW r \in 0 .. MaxVersion,
         change' = [change EXCEPT ![p] = q],
         q = NoChange \/ (q \in Deletions /\ q.u = u /\ r = 0),
         change[p].op \in {"upsert", "delete"} => change[p].u = u,
         profile' \in [Process -> [Person -> 0 .. MaxVersion]],
         \A o \in Process, w \in Person : o # p \/ w # u => profile'[o][w] = profile[o][w],
         <<p, u>> \notin overtaken' => profile'[p][u] = r,
         overtaken' \in {overtaken, overtaken \ {<<p, u>>}},
         r = 0 \/ (changedBy[u] = p => r = snapshot[u]),
         UNCHANGED <<snapshot, version, lookup, changedBy>>
  PROVE  CacheInv'
  <1> USE ProfileCacheAssumption DEF CacheInv
  <1>0. /\ \A o \in Process : change[o].op \in {"upsert", "delete"} => change[o].u \in Person
        /\ \A o \in Process : change[o] = NoChange <=> change[o].op \notin {"upsert", "delete"}
        /\ change \in [Process -> {NoChange} \cup Upserts \cup Deletions]
    BY InFlightIs DEF ProfileCacheTypeOK, Upserts, Deletions
  <1>2. /\ change'[p] = q /\ \A o \in Process \ {p} : change'[o] = change[o]
        /\ change' \in [Process -> {NoChange} \cup Upserts \cup Deletions]
    BY <1>0
  <1>4. \A o \in Process, w \in Person : o # p \/ w # u => (<<o, w>> \in overtaken' <=> <<o, w>> \in overtaken)
    OBVIOUS
  <1>5. ProfileCacheTypeOK'
    <2>1. overtaken' \subseteq Process \X Person
      BY DEF ProfileCacheTypeOK
    <2>2. QED
      BY <1>2, <2>1 DEF ProfileCacheTypeOK, Upserts, Deletions
  <1>6. CacheAhead'
    <2>1. ASSUME NEW o \in Process \ {p}
          PROVE  /\ change'[o].op = "upsert" /\ changedBy'[change'[o].u] = o
                      => change'[o].row = snapshot'[change'[o].u]
                 /\ change'[o].op = "delete" /\ <<o, change'[o].u>> \notin overtaken'
                      => profile'[o][change'[o].u] = 0
      <3>1. change'[o] = change[o] /\ (change[o].op = "delete" => change[o].u \in Person)
        BY <1>0, <1>2
      <3>2. QED
        BY <1>4, <3>1 DEF CacheAhead
    <2>2. CASE q = NoChange
      <3>1. change'[p].op = "none"
        BY <1>2, <2>2 DEF NoChange
      <3>2. QED
        BY <2>1, <3>1 DEF CacheAhead
    <2>3. CASE q \in Deletions /\ q.u = u /\ r = 0
      <3>1. change'[p].op = "delete" /\ change'[p].u = u
        BY <1>2, <2>3 DEF Deletions
      <3>2. QED
        BY <2>1, <2>3, <3>1 DEF CacheAhead
    <2>4. QED
      BY <2>2, <2>3
  <1>7. OwnChangeCached'
    <2>1. ASSUME NEW w \in Person, NEW o \in Process,
                 changedBy[w] = o, ~ Changing(o, w)', <<o, w>> \notin overtaken'
          PROVE  profile'[o][w] \in {0, snapshot[w]}
      <3>1. CASE o = p /\ w = u
        BY <2>1, <3>1
      <3>2. CASE o # p
        <4>1. ~ Changing(o, w) /\ <<o, w>> \notin overtaken
          BY <1>2, <1>4, <2>1, <3>2 DEF Changing
        <4>2. QED
          BY <2>1, <3>2, <4>1 DEF OwnChangeCached
      <3>3. CASE o = p /\ w # u
        <4>1. ~ Changing(o, w) /\ <<o, w>> \notin overtaken
          BY <1>0, <1>4, <2>1, <3>3 DEF Changing
        <4>2. QED
          BY <2>1, <3>3, <4>1 DEF OwnChangeCached
      <3>4. QED
        BY <3>1, <3>2, <3>3
    <2>2. QED
      BY <2>1 DEF OwnChangeCached
  <1>8. QED
    BY <1>5, <1>6, <1>7

\* The steps of an event that change the cache, and one that comes to nothing.
LEMMA OwnCacheStep ==
  ASSUME CacheInv, NEW p \in Process,
         CacheUpserted(p) \/ AnonymizeFails(p) \/ \E u \in Person : ClearProfile(p, u)
  PROVE  CacheInv'
  <1> USE ProfileCacheAssumption DEF CacheInv
  <1>0. /\ change[p].op \in {"upsert", "delete"} => change[p].u \in Person
        /\ change[p].op = "upsert" => change[p].row \in 1 .. MaxVersion
        /\ change[p] = NoChange <=> change[p].op \notin {"upsert", "delete"}
    BY InFlightIs
  <1>1. ASSUME NEW u \in Person, NEW r \in 0 .. MaxVersion, profile' = [profile EXCEPT ![p][u] = r]
        PROVE  /\ profile' \in [Process -> [Person -> 0 .. MaxVersion]]
               /\ \A o \in Process, w \in Person : o # p \/ w # u => profile'[o][w] = profile[o][w]
               /\ profile'[p][u] = r
    BY <1>1 DEF ProfileCacheTypeOK
  <1>2. 0 \in 0 .. MaxVersion
    OBVIOUS
  <1>3. CASE CacheUpserted(p)
    <2>1. PICK u \in Person, r \in 0 .. MaxVersion :
            change[p].op = "upsert" /\ change[p].u = u /\ change[p].row = r
      BY <1>0, <1>3 DEF CacheUpserted
    <2>2. changedBy[u] = p => r = snapshot[u]
      BY <2>1 DEF CacheAhead
    <2>3. /\ change' = [change EXCEPT ![p] = NoChange]
          /\ profile' = [profile EXCEPT ![p][u] = r]
          /\ overtaken' = overtaken \ {<<p, u>>}
          /\ UNCHANGED <<snapshot, version, lookup, changedBy>>
      BY <1>3, <2>1 DEF CacheUpserted
    <2>4. overtaken' \in {overtaken, overtaken \ {<<p, u>>}}
      BY <2>3
    <2>5. /\ profile' \in [Process -> [Person -> 0 .. MaxVersion]]
          /\ \A o \in Process, w \in Person : o # p \/ w # u => profile'[o][w] = profile[o][w]
          /\ profile'[p][u] = r
      BY <1>1, <2>3
    <2>6. /\ change' = [change EXCEPT ![p] = NoChange]
          /\ UNCHANGED <<snapshot, version, lookup, changedBy>>
      BY <2>3
    <2>7. QED
      BY <2>1, <2>2, <2>4, <2>5, <2>6, OwnEntryStep
  <1>4. CASE AnonymizeFails(p)
    <2>1. PICK u \in Person : change[p].op = "delete" /\ change[p].u = u
      BY <1>0, <1>4 DEF AnonymizeFails
    <2>2. /\ change' = [change EXCEPT ![p] = NoChange]
          /\ UNCHANGED <<snapshot, version, profile, lookup, changedBy, overtaken>>
      BY <1>4 DEF AnonymizeFails
    <2>3. <<p, u>> \notin overtaken' => profile'[p][u] = 0
      BY <2>1, <2>2 DEF CacheAhead
    <2>4. profile' \in [Process -> [Person -> 0 .. MaxVersion]]
      BY <2>2 DEF ProfileCacheTypeOK
    <2>5. overtaken' \in {overtaken, overtaken \ {<<p, u>>}}
      BY <2>2
    <2>6. QED
      BY <1>2, <2>1, <2>2, <2>3, <2>4, <2>5, OwnEntryStep
  <1>5. ASSUME NEW u \in Person, ClearProfile(p, u) PROVE CacheInv'
    <2>1. PICK q : q = [op |-> "delete", u |-> u]
      OBVIOUS
    <2>2. q \in Deletions /\ q.u = u
      BY <2>1 DEF Deletions
    <2>3. /\ change[p].op \notin {"upsert", "delete"}
          /\ change' = [change EXCEPT ![p] = q]
          /\ profile' = [profile EXCEPT ![p][u] = 0]
          /\ overtaken' = overtaken \ {<<p, u>>}
          /\ UNCHANGED <<snapshot, version, lookup, changedBy>>
      BY <1>0, <1>5, <2>1 DEF ClearProfile
    <2>4. overtaken' \in {overtaken, overtaken \ {<<p, u>>}}
      BY <2>3
    <2>5. /\ profile' \in [Process -> [Person -> 0 .. MaxVersion]]
          /\ \A o \in Process, w \in Person : o # p \/ w # u => profile'[o][w] = profile[o][w]
          /\ profile'[p][u] = 0
      BY <1>1, <1>2, <2>3
    <2>6. /\ change[p].op \notin {"upsert", "delete"}
          /\ change' = [change EXCEPT ![p] = q]
          /\ UNCHANGED <<snapshot, version, lookup, changedBy>>
      BY <2>3
    <2>7. QED
      BY <1>2, <2>2, <2>4, <2>5, <2>6, OwnEntryStep
  <1>6. QED
    BY <1>3, <1>4, <1>5

\* Every step of the cache keeps the invariant.
LEMMA CacheStep == CacheInv /\ [ProfileCacheNext]_cacheVars => CacheInv'
  <1> SUFFICES ASSUME CacheInv, [ProfileCacheNext]_cacheVars PROVE CacheInv'
    OBVIOUS
  <1>1. CASE UNCHANGED cacheVars
    BY <1>1 DEF cacheVars, CacheInv, ProfileCacheTypeOK, CacheAhead, OwnChangeCached, Changing
  <1>2. CASE ProfileCacheNext
    BY <1>2, LookupStep, ForgetStep, RowStep, OwnCacheStep DEF ProfileCacheNext
  <1>3. QED
    BY <1>1, <1>2

\* The variables of the profile cache keep their types.
THEOREM CacheTypeCorrect == ProfileCacheSpec => []ProfileCacheTypeOK
  <1>1. CacheInv => ProfileCacheTypeOK
    BY DEF CacheInv
  <1>2. QED
    BY <1>1, CacheInitInv, CacheStep, PTL DEF ProfileCacheSpec

\* A process that made the last change to a user serves nothing older than it, but for
\* a lookup that overlapped the change: for any number of processes and lookups.
THEOREM CacheOwnChange == ProfileCacheSpec => []OwnChangeCached
  <1>1. CacheInv => OwnChangeCached
    BY DEF CacheInv
  <1>2. QED
    BY <1>1, CacheInitInv, CacheStep, PTL DEF ProfileCacheSpec


-----------------------------------------------------------------------------
(* The chat.                                                               *)

\* What there is about a message, for u.  Marks and notifications are about messages
\* that can be seen; a mention is for one of those mentioned, activity for the others;
\* and activity is stamped after its message.
FiledFor(u, m) ==
  /\ <<u, m>> \in readMark => Visible(m)
  /\ mention[<<u, m>>] # "none" => Visible(m) /\ u \in message[m].mentioned /\ u # message[m].author
  /\ activity[<<u, m>>].st # "none" =>
       Visible(m) /\ u \notin message[m].mentioned /\ u # message[m].author
  /\ activity[<<u, m>>].st \in {"unseen", "seen"} => message[m].at <= activity[<<u, m>>].at

\* What a request is about to mark as seen it has marked as read, but for what was
\* committed meanwhile.
CoveredFor(u, m) ==
  /\ reader[u].pc \in {"mentions", "activity"} /\ Visible(m)
  /\ message[m].channel = reader[u].channel /\ message[m].at <= reader[u].at
  => <<u, m>> \in readMark \/ <<u, m>> \in excused

\* SeenMeansRead and InternalStaysInside, of one user and message.
SeenFor(u, m) ==
  mention[<<u, m>>] \in {"seen", "pruned"} \/ activity[<<u, m>>].st \in {"seen", "pruned"}
    => <<u, m>> \in readMark \/ <<u, m>> \in excused

InsideFor(u, m) ==
  RoleOf[u] = "client" /\ Visible(m) /\ message[m].channel = "internal" =>
    /\ <<u, m>> \notin readMark
    /\ mention[<<u, m>>] = "none" /\ activity[<<u, m>>].st = "none"

About(u, m) == FiledFor(u, m) /\ CoveredFor(u, m) /\ SeenFor(u, m) /\ InsideFor(u, m)

\* A message has a stamp that was given, and an internal one has no client in it.
Written(m) ==
  message[m].st \in {"open", "posted"} =>
    /\ message[m].at <= clock
    /\ message[m].channel = "internal" =>
         \A v \in Account : v \in message[m].mentioned \/ v = message[m].author => RoleOf[v] # "client"

ChatInv ==
  /\ ChatTypeOK
  /\ \A m \in Message : Written(m)
  /\ \A u \in Account, m \in Message : About(u, m)

Messages ==
  [st : {"open", "posted"}, author : Account, channel : Channel,
   mentioned : SUBSET Account, at : 1 .. MaxClock]
Readers == [pc : {"mentions", "activity"}, channel : Channel, at : 1 .. MaxClock]
Activities == [st : {"none", "unseen", "seen", "pruned"}, at : 0 .. MaxClock]

\* The fields of messages, of requests in flight and of activity.
LEMMA ChatFields ==
  ASSUME ChatTypeOK
  PROVE  /\ \A m \in Message :
              /\ message[m] = NoMessage \/ message[m] \in Messages
              /\ message[m] = NoMessage <=> message[m].st \notin {"open", "posted"}
              /\ message[m].st \in {"open", "posted"} =>
                   /\ message[m].author \in Account /\ message[m].channel \in Channel
                   /\ message[m].mentioned \subseteq Account /\ message[m].at \in 1 .. MaxClock
         /\ \A u \in Account :
              /\ reader[u] = NoReader \/ reader[u] \in Readers
              /\ reader[u] = NoReader <=> reader[u].pc \notin {"mentions", "activity"}
              /\ reader[u].pc \in {"mentions", "activity"} =>
                   reader[u].channel \in Channel /\ reader[u].at \in 1 .. MaxClock
         /\ \A u \in Account, m \in Message :
              /\ activity[<<u, m>>] \in Activities
              /\ activity[<<u, m>>].st \in {"none", "unseen", "seen", "pruned"}
              /\ activity[<<u, m>>].at \in 0 .. MaxClock
              /\ mention[<<u, m>>] \in {"none", "unseen", "seen", "pruned"}
  <1>1. NoMessage.st = "none" /\ NoReader.pc = "idle"
    BY DEF NoMessage, NoReader
  <1>2. \A r \in Messages : /\ r.st \in {"open", "posted"} /\ r.author \in Account
                            /\ r.channel \in Channel /\ r.mentioned \subseteq Account
                            /\ r.at \in 1 .. MaxClock
    BY DEF Messages
  <1>3. \A r \in Readers : /\ r.pc \in {"mentions", "activity"} /\ r.channel \in Channel
                           /\ r.at \in 1 .. MaxClock
    BY DEF Readers
  <1>4. \A r \in Activities : r.st \in {"none", "unseen", "seen", "pruned"} /\ r.at \in 0 .. MaxClock
    BY DEF Activities
  <1>5. ASSUME NEW m \in Message PROVE message[m] = NoMessage \/ message[m] \in Messages
    BY DEF ChatTypeOK, Messages
  <1>6. ASSUME NEW u \in Account PROVE reader[u] = NoReader \/ reader[u] \in Readers
    BY DEF ChatTypeOK, Readers
  <1>7. ASSUME NEW u \in Account, NEW m \in Message
        PROVE  activity[<<u, m>>] \in Activities /\ mention[<<u, m>>] \in {"none", "unseen", "seen", "pruned"}
    <2>1. <<u, m>> \in Account \X Message
      OBVIOUS
    <2>2. QED
      BY <2>1 DEF ChatTypeOK, Activities
  <1>8. QED
    BY <1>1, <1>2, <1>3, <1>4, <1>5, <1>6, <1>7

\* The invariant holds at the start.
LEMMA ChatInitInv == ChatInit => ChatInv
  <1> SUFFICES ASSUME ChatInit PROVE ChatInv
    OBVIOUS
  <1> USE ChatAssumption
  <1>1. ChatTypeOK
    <2>1. \A r \in {"admin", "worker", "client"} : r \in {"admin", "worker", "client", "none"}
      OBVIOUS
    <2>2. member \in [Account -> {"admin", "worker", "client", "none"}]
      BY DEF ChatInit
    <2>3. \A u \in Account : member[u] \in {"none", RoleOf[u]}
      BY DEF ChatInit
    <2>4. activity \in [Account \X Message -> [st : {"none", "unseen", "seen", "pruned"}, at : 0 .. MaxClock]]
      BY DEF ChatInit
    <2>5. QED
      BY <2>2, <2>3, <2>4 DEF ChatInit, ChatTypeOK
  <1>2. ASSUME NEW m \in Message PROVE message[m].st = "none"
    BY DEF ChatInit, NoMessage
  <1>3. ASSUME NEW u \in Account PROVE reader[u].pc = "idle"
    BY DEF ChatInit, NoReader
  <1>4. ASSUME NEW u \in Account, NEW m \in Message PROVE About(u, m)
    <2>1. <<u, m>> \in Account \X Message
      OBVIOUS
    <2>2. /\ mention[<<u, m>>] = "none" /\ activity[<<u, m>>].st = "none"
          /\ <<u, m>> \notin readMark
      BY <2>1 DEF ChatInit
    <2>3. QED
      BY <1>2, <1>3, <2>2 DEF About, FiledFor, CoveredFor, SeenFor, InsideFor, Visible
  <1>5. ASSUME NEW m \in Message PROVE Written(m)
    BY <1>2 DEF Written
  <1>6. QED
    BY <1>1, <1>4, <1>5 DEF ChatInv

\* A message, its marks and notifications for u that nobody touches: a reading request
\* of u is the same, or has ended.
LEMMA AboutSame ==
  ASSUME NEW u, NEW m, About(u, m),
         message'[m] = message[m],
         mention'[<<u, m>>] = mention[<<u, m>>],
         activity'[<<u, m>>] = activity[<<u, m>>],
         <<u, m>> \in readMark' <=> <<u, m>> \in readMark,
         <<u, m>> \in excused => <<u, m>> \in excused',
         reader'[u] = reader[u] \/ reader'[u].pc \notin {"mentions", "activity"}
  PROVE  About(u, m)'
  BY DEF About, FiledFor, CoveredFor, SeenFor, InsideFor, Visible

\* A member joins, or has another role.
LEMMA MemberStep ==
  ASSUME ChatInv, NEW u \in Account, NEW role \in {"admin", "worker", "client"},
         UpsertProjectMember(u, role)
  PROVE  ChatInv'
  <1> USE ChatAssumption
  <1>1. UNCHANGED <<clock, message, readMark, mention, activity, reader, excused>>
    BY DEF UpsertProjectMember
  <1>2. role = RoleOf[u] \/ (RoleOf[u] = "admin" /\ role = "worker")
    BY DEF UpsertProjectMember, Compatible
  <1>3. member' = [member EXCEPT ![u] = role]
    BY DEF UpsertProjectMember, WithRole
  <1>4. /\ member' \in [Account -> {"admin", "worker", "client", "none"}]
        /\ \A v \in Account : member'[v] \in {"none", RoleOf[v]}
                              \/ (RoleOf[v] = "admin" /\ member'[v] = "worker")
    BY <1>2, <1>3 DEF ChatInv, ChatTypeOK
  <1>5. ChatTypeOK'
    BY <1>1, <1>4 DEF ChatInv, ChatTypeOK
  <1>6. \A v \in Account, m \in Message : About(v, m)'
    BY <1>1, AboutSame DEF ChatInv
  <1>7. \A m \in Message : Written(m)'
    BY <1>1 DEF ChatInv, Written
  <1>8. QED
    BY <1>5, <1>6, <1>7 DEF ChatInv

\* The transaction of a message begins.
LEMMA PostStep ==
  ASSUME ChatInv, NEW u \in Account, NEW m \in Message, NEW ch \in Channel,
         NEW mentioned \in SUBSET Account, PostChatMessage(u, m, ch, mentioned)
  PROVE  ChatInv'
  <1> USE ChatAssumption
  <1>1. /\ message[m] = NoMessage /\ UNCHANGED <<member, readMark, mention, activity, reader, excused>>
        /\ clock' = clock + 1 /\ clock < MaxClock
    BY DEF PostChatMessage, Stamp
  <1>2. ch = "internal" => RoleOf[u] # "client" /\ \A v \in mentioned : RoleOf[v] # "client"
    <2>1. SUFFICES ASSUME ch = "internal" PROVE RoleOf[u] # "client" /\ \A v \in mentioned : RoleOf[v] # "client"
      OBVIOUS
    <2>2. MemberRole(u) \in {"admin", "worker"}
      BY <2>1 DEF PostChatMessage, CanUse
    <2>3. \A v \in mentioned : member[v] \in {"admin", "worker"}
      BY <2>1 DEF PostChatMessage, MayMention
    <2>4. \A v \in Account : member[v] \in {"none", RoleOf[v]} \/ (RoleOf[v] = "admin" /\ member[v] = "worker")
      BY DEF ChatInv, ChatTypeOK
    <2>5. QED
      BY <2>2, <2>3, <2>4 DEF MemberRole
  <1>3. PICK r : r = [st |-> "open", author |-> u, channel |-> ch, mentioned |-> mentioned, at |-> clock + 1]
    OBVIOUS
  <1>4. /\ r \in Messages /\ r.st = "open" /\ r.author = u /\ r.channel = ch
        /\ r.mentioned = mentioned /\ r.at = clock + 1
    <2>1. clock + 1 \in 1 .. MaxClock
      BY <1>1 DEF ChatInv, ChatTypeOK
    <2>2. QED
      BY <1>3, <2>1 DEF Messages
  <1>5. message' = [message EXCEPT ![m] = r]
    BY <1>1, <1>3 DEF PostChatMessage
  <1>6. message \in [Message -> {NoMessage} \cup Messages]
    BY DEF ChatInv, ChatTypeOK, Messages
  <1>7. /\ message' \in [Message -> {NoMessage} \cup Messages] /\ message'[m] = r
        /\ \A k \in Message \ {m} : message'[k] = message[k]
    BY <1>4, <1>5, <1>6
  <1>8. ChatTypeOK'
    <2>1. clock' \in 0 .. MaxClock
      BY <1>1 DEF ChatInv, ChatTypeOK
    <2>2. QED
      BY <1>1, <1>7, <2>1 DEF ChatInv, ChatTypeOK, Messages
  <1>9. ASSUME NEW k \in Message PROVE Written(k)'
    <2>1. CASE k = m
      <3>1. clock' \in Int /\ r.at = clock'
        BY <1>1, <1>4 DEF ChatInv, ChatTypeOK
      <3>2. QED
        BY <1>2, <1>4, <1>7, <2>1, <3>1 DEF Written
    <2>2. CASE k # m
      <3>1. message[k].st \in {"open", "posted"} => message[k].at \in Int
        BY ChatFields DEF ChatInv
      <3>2. clock \in Int /\ Written(k)
        BY DEF ChatInv, ChatTypeOK
      <3>3. QED
        BY <1>1, <1>7, <2>2, <3>1, <3>2 DEF Written
    <2>3. QED
      BY <2>1, <2>2
  <1>10. ASSUME NEW v \in Account, NEW k \in Message PROVE About(v, k)'
    <2>1. About(v, k)
      BY DEF ChatInv
    <2>2. CASE k = m
      <3>1. message[k].st = "none" /\ message'[k].st = "open"
        BY <1>1, <1>4, <1>7, <2>2 DEF NoMessage
      <3>2. QED
        BY <1>1, <2>1, <3>1 DEF About, FiledFor, CoveredFor, SeenFor, InsideFor, Visible
    <2>3. CASE k # m
      BY <1>1, <1>7, <2>1, <2>3, AboutSame
    <2>4. QED
      BY <2>2, <2>3
  <1>11. QED
    BY <1>8, <1>9, <1>10 DEF ChatInv

\* It does not commit.
LEMMA PostFailsStep ==
  ASSUME ChatInv, NEW m \in Message, PostFails(m)
  PROVE  ChatInv'
  <1>1. /\ message[m].st = "open" /\ message' = [message EXCEPT ![m] = NoMessage]
        /\ UNCHANGED <<clock, member, readMark, mention, activity, reader, excused>>
    BY DEF PostFails
  <1>2. /\ message' \in [Message -> {NoMessage} \cup Messages] /\ message'[m] = NoMessage
        /\ \A k \in Message \ {m} : message'[k] = message[k]
    BY <1>1 DEF ChatInv, ChatTypeOK, Messages
  <1>3. ChatTypeOK'
    BY <1>1, <1>2 DEF ChatInv, ChatTypeOK, Messages
  <1>4. message'[m].st = "none"
    BY <1>2 DEF NoMessage
  <1>5. ASSUME NEW k \in Message PROVE Written(k)'
    BY <1>1, <1>2, <1>4 DEF ChatInv, Written
  <1>6. ASSUME NEW v \in Account, NEW k \in Message PROVE About(v, k)'
    <2>1. About(v, k)
      BY DEF ChatInv
    <2>2. CASE k = m
      BY <1>1, <1>4, <2>1, <2>2 DEF About, FiledFor, CoveredFor, SeenFor, InsideFor, Visible
    <2>3. CASE k # m
      BY <1>1, <1>2, <2>1, <2>3, AboutSame
    <2>4. QED
      BY <2>2, <2>3
  <1>7. QED
    BY <1>3, <1>5, <1>6 DEF ChatInv

\* It commits, with its mentions: those who are reading are excused.
LEMMA CommitStep ==
  ASSUME ChatInv, NEW m \in Message, CommitChatMessage(m)
  PROVE  ChatInv'
  <1> USE ChatAssumption
  <1>1. /\ message[m].st = "open" /\ message' = [message EXCEPT ![m].st = "posted"]
        /\ readMark' = readMark \cup {<<message[m].author, m>>}
        /\ excused' = excused \cup (Reading(message[m].channel) \X {m})
        /\ mention' = Mentioned(m)
        /\ UNCHANGED <<clock, member, activity, reader>>
    BY DEF CommitChatMessage
  <1>2. /\ message[m] \in Messages /\ message[m].author \in Account
        /\ message[m].mentioned \subseteq Account
    <2>1. message[m] # NoMessage
      BY <1>1 DEF NoMessage
    <2>2. QED
      BY <1>1, <2>1, ChatFields DEF ChatInv
  <1>3. PICK r : r = [message[m] EXCEPT !.st = "posted"]
    OBVIOUS
  <1>4. /\ r \in Messages /\ r.st = "posted" /\ r.author = message[m].author
        /\ r.channel = message[m].channel /\ r.mentioned = message[m].mentioned /\ r.at = message[m].at
    BY <1>2, <1>3 DEF Messages
  <1>5. /\ message' \in [Message -> {NoMessage} \cup Messages] /\ message'[m] = r
        /\ \A k \in Message \ {m} : message'[k] = message[k]
    <2>1. message \in [Message -> {NoMessage} \cup Messages]
      BY DEF ChatInv, ChatTypeOK, Messages
    <2>2. message' = [message EXCEPT ![m] = r]
      BY <1>1, <1>3, <2>1
    <2>3. QED
      BY <1>4, <2>1, <2>2
  <1>6. ASSUME NEW n \in Account \X Message
        PROVE  mention'[n] = IF n[2] = m /\ n[1] \in message[m].mentioned \ {message[m].author}
                             THEN "unseen" ELSE mention[n]
    BY <1>1 DEF Mentioned
  <1>7. mention' \in [Account \X Message -> {"none", "unseen", "seen", "pruned"}]
    <2>1. \A n \in Account \X Message : mention[n] \in {"none", "unseen", "seen", "pruned"}
      BY DEF ChatInv, ChatTypeOK
    <2>2. QED
      BY <1>1, <2>1 DEF Mentioned
  <1>8. ChatTypeOK'
    <2>1. readMark' \subseteq Account \X Message
      BY <1>1, <1>2 DEF ChatInv, ChatTypeOK
    <2>2. Reading(message[m].channel) \subseteq Account
      BY DEF Reading
    <2>3. excused' \subseteq Account \X Message
      BY <1>1, <2>2 DEF ChatInv, ChatTypeOK
    <2>4. QED
      BY <1>1, <1>5, <1>7, <2>1, <2>3 DEF ChatInv, ChatTypeOK, Messages
  <1>9. ASSUME NEW k \in Message PROVE Written(k)'
    BY <1>1, <1>4, <1>5 DEF ChatInv, Written
  <1>10. ASSUME NEW v \in Account, NEW k \in Message PROVE About(v, k)'
    <2>1. About(v, k)
      BY DEF ChatInv
    <2>2. <<v, k>> \in Account \X Message /\ <<v, k>>[1] = v /\ <<v, k>>[2] = k
      OBVIOUS
    <2>3. mention'[<<v, k>>] = IF k = m /\ v \in message[m].mentioned \ {message[m].author}
                               THEN "unseen" ELSE mention[<<v, k>>]
      BY <1>6, <2>2
    <2>4. /\ <<v, k>> \in readMark' <=> <<v, k>> \in readMark \/ (k = m /\ v = message[m].author)
          /\ <<v, k>> \in excused' <=>
               <<v, k>> \in excused \/ (k = m /\ v \in Reading(message[m].channel))
      BY <1>1
    <2>5. CASE k # m
      BY <1>1, <1>5, <2>1, <2>3, <2>4, <2>5, AboutSame
    <2>6. CASE k = m
      <3>1. /\ mention[<<v, k>>] = "none" /\ activity'[<<v, k>>].st = "none" /\ <<v, k>> \notin readMark
            /\ mention'[<<v, k>>] = IF v \in message[m].mentioned /\ v # message[m].author
                                    THEN "unseen" ELSE "none"
        BY <1>1, <2>1, <2>3, <2>6 DEF About, FiledFor, Visible
      <3>2. FiledFor(v, k)'
        BY <1>4, <1>5, <2>4, <2>6, <3>1 DEF FiledFor, Visible
      <3>3. CoveredFor(v, k)'
        <4>1. reader[v].pc \in {"mentions", "activity"} => reader[v] # NoReader
          BY DEF NoReader
        <4>2. QED
          BY <1>1, <1>4, <1>5, <2>4, <2>6, <4>1 DEF CoveredFor, Reading
      <3>4. SeenFor(v, k)'
        BY <3>1 DEF SeenFor
      <3>5. InsideFor(v, k)'
        <4>1. /\ message[m].channel = "internal" =>
                   (v \in message[m].mentioned \/ v = message[m].author => RoleOf[v] # "client")
          BY <1>1 DEF ChatInv, Written
        <4>2. QED
          BY <1>4, <1>5, <2>4, <2>6, <3>1, <4>1 DEF InsideFor
      <3>6. QED
        BY <3>2, <3>3, <3>4, <3>5 DEF About
    <2>7. QED
      BY <2>5, <2>6
  <1>11. QED
    BY <1>8, <1>9, <1>10 DEF ChatInv

\* A step that leaves messages and members alone keeps the invariant if it keeps the
\* types and what there is about every message.
LEMMA MarksStep ==
  ASSUME ChatInv, UNCHANGED <<member, message>>, clock' \in 0 .. MaxClock, clock <= clock',
         readMark' \subseteq Account \X Message,
         mention' \in [Account \X Message -> {"none", "unseen", "seen", "pruned"}],
         activity' \in [Account \X Message -> Activities],
         reader' \in [Account -> {NoReader} \cup Readers],
         excused' \subseteq Account \X Message,
         \A u \in Account, m \in Message : About(u, m)'
  PROVE  ChatInv'
  <1> USE ChatAssumption
  <1>1. ChatTypeOK'
    BY DEF ChatInv, ChatTypeOK, Activities, Readers
  <1>2. ASSUME NEW m \in Message PROVE Written(m)'
    <2>1. message[m].st \in {"open", "posted"} => message[m].at \in Int
      BY ChatFields DEF ChatInv
    <2>2. clock \in Int /\ clock' \in Int /\ Written(m)
      BY DEF ChatInv, ChatTypeOK
    <2>3. QED
      BY <2>1, <2>2 DEF Written
  <1>3. QED
    BY <1>1, <1>2 DEF ChatInv

\* The types of what a step may leave alone.
LEMMA ChatTypes ==
  ASSUME ChatInv
  PROVE  /\ clock \in 0 .. MaxClock /\ clock <= clock
         /\ readMark \subseteq Account \X Message
         /\ mention \in [Account \X Message -> {"none", "unseen", "seen", "pruned"}]
         /\ activity \in [Account \X Message -> Activities]
         /\ reader \in [Account -> {NoReader} \cup Readers]
         /\ excused \subseteq Account \X Message
  BY ChatAssumption DEF ChatInv, ChatTypeOK, Activities, Readers

\* Activity is written for those who may know of the message and were not mentioned.
LEMMA PersistStep ==
  ASSUME ChatInv, NEW m \in Message, PersistActivityNotification(m)
  PROVE  ChatInv'
  <1> USE ChatAssumption
  <1>1. PICK new : new = {u \in Recipients(m) : activity[<<u, m>>].st \in {"none", "pruned"}}
    OBVIOUS
  <1>2. PICK r : r = [st |-> "unseen", at |-> clock + 1]
    OBVIOUS
  <1>3. /\ Visible(m) /\ clock < MaxClock /\ clock' = clock + 1
        /\ activity' = [n \in Account \X Message |->
                          IF n[2] = m /\ n[1] \in new THEN r ELSE activity[n]]
        /\ UNCHANGED <<member, message, readMark, mention, reader, excused>>
    BY <1>1, <1>2 DEF PersistActivityNotification, Stamp
  <1>4. clock \in Int /\ clock + 1 \in 0 .. MaxClock /\ clock <= clock + 1
    BY <1>3, ChatTypes
  <1>5. r \in Activities /\ r.st = "unseen" /\ r.at = clock + 1
    BY <1>2, <1>4 DEF Activities
  <1>6. activity' \in [Account \X Message -> Activities]
    <2>1. activity \in [Account \X Message -> Activities]
      BY ChatTypes
    <2>2. QED
      BY <1>3, <1>5, <2>1
  <1>7. ASSUME NEW v \in Account, NEW k \in Message PROVE About(v, k)'
    <2>1. About(v, k)
      BY DEF ChatInv
    <2>2. <<v, k>> \in Account \X Message /\ <<v, k>>[1] = v /\ <<v, k>>[2] = k
      OBVIOUS
    <2>3. activity'[<<v, k>>] = IF k = m /\ v \in new THEN r ELSE activity[<<v, k>>]
      BY <1>3, <2>2
    <2>4. CASE ~ (k = m /\ v \in new)
      BY <1>3, <2>1, <2>3, <2>4, AboutSame
    <2>5. CASE k = m /\ v \in new
      <3>1. /\ activity'[<<v, k>>].st = "unseen" /\ activity'[<<v, k>>].at = clock + 1
        BY <1>5, <2>3, <2>5
      <3>2. /\ member[v] # "none" /\ v # message[m].author /\ v \notin message[m].mentioned
            /\ message[m].channel = "external" \/ member[v] # "client"
        BY <1>1, <2>5 DEF Recipients
      <3>3. message[m].at \in Int /\ message[m].at <= clock
        BY <1>3, ChatFields DEF ChatInv, Visible, Written
      <3>4. FiledFor(v, k)'
        <4>1. message[m].at <= clock + 1
          BY <1>4, <3>3
        <4>2. QED
          BY <1>3, <2>1, <2>5, <3>1, <3>2, <4>1 DEF About, FiledFor, Visible
      <3>5. CoveredFor(v, k)'
        BY <1>3, <2>1 DEF About, CoveredFor, Visible
      <3>6. SeenFor(v, k)'
        BY <1>3, <2>1, <3>1 DEF About, SeenFor
      <3>7. InsideFor(v, k)'
        <4>1. member[v] \in {"none", RoleOf[v]} \/ (RoleOf[v] = "admin" /\ member[v] = "worker")
          BY DEF ChatInv, ChatTypeOK
        <4>2. message'[k].channel = "internal" => RoleOf[v] # "client"
          BY <1>3, <2>5, <3>2, <4>1
        <4>3. QED
          BY <4>2 DEF InsideFor
      <3>8. QED
        BY <3>4, <3>5, <3>6, <3>7 DEF About
    <2>6. QED
      BY <2>4, <2>5
  <1>8. QED
    BY <1>3, <1>4, <1>6, <1>7, ChatTypes, MarksStep

\* The first statement of markChatAsRead marks the messages up to the one read.
LEMMA ReadStep ==
  ASSUME ChatInv, NEW u \in Account, NEW ch \in Channel, NEW m \in Message, MarkChatAsRead(u, ch, m)
  PROVE  ChatInv'
  <1> USE ChatAssumption
  <1>1. PICK r : r = [pc |-> "mentions", channel |-> ch, at |-> message[m].at]
    OBVIOUS
  <1>2. /\ CanUse(u, ch) /\ Visible(m) /\ message[m].channel = ch
        /\ readMark' = readMark \cup ({u} \X UpTo(ch, message[m].at))
        /\ reader' = [reader EXCEPT ![u] = r]
        /\ UNCHANGED <<clock, member, message, mention, activity, excused>>
    BY <1>1 DEF MarkChatAsRead
  <1>3. /\ r \in Readers /\ r.pc = "mentions" /\ r.channel = ch /\ r.at = message[m].at
    <2>1. message[m].at \in 1 .. MaxClock
      BY <1>2, ChatFields DEF ChatInv, Visible
    <2>2. QED
      BY <1>1, <2>1 DEF Readers
  <1>4. /\ reader' \in [Account -> {NoReader} \cup Readers] /\ reader'[u] = r
        /\ \A v \in Account \ {u} : reader'[v] = reader[v]
    BY <1>2, <1>3, ChatTypes
  <1>5. readMark' \subseteq Account \X Message
    <2>1. UpTo(ch, message[m].at) \subseteq Message
      BY DEF UpTo
    <2>2. QED
      BY <1>2, <2>1, ChatTypes
  <1>6. ch = "internal" => RoleOf[u] # "client"
    <2>1. member[u] \in {"none", RoleOf[u]} \/ (RoleOf[u] = "admin" /\ member[u] = "worker")
      BY DEF ChatInv, ChatTypeOK
    <2>2. QED
      BY <1>2, <2>1 DEF CanUse, MemberRole
  <1>7. ASSUME NEW v \in Account, NEW k \in Message PROVE About(v, k)'
    <2>1. About(v, k)
      BY DEF ChatInv
    <2>2. <<v, k>> \in readMark' <=>
            <<v, k>> \in readMark
            \/ (v = u /\ Visible(k) /\ message[k].channel = ch /\ message[k].at <= message[m].at)
      BY <1>2 DEF UpTo
    <2>3. CASE v # u
      BY <1>2, <1>4, <2>1, <2>2, <2>3, AboutSame
    <2>4. CASE v = u
      <3>1. FiledFor(v, k)'
        BY <1>2, <2>1, <2>2 DEF About, FiledFor, Visible
      <3>2. CoveredFor(v, k)'
        BY <1>2, <1>3, <1>4, <2>2, <2>4 DEF CoveredFor, Visible
      <3>3. SeenFor(v, k)'
        BY <1>2, <2>1, <2>2 DEF About, SeenFor
      <3>4. InsideFor(v, k)'
        BY <1>2, <1>6, <2>1, <2>2, <2>4 DEF About, InsideFor, Visible
      <3>5. QED
        BY <3>1, <3>2, <3>3, <3>4 DEF About
    <2>5. QED
      BY <2>3, <2>4
  <1>8. QED
    BY <1>2, <1>4, <1>5, <1>7, ChatTypes, MarksStep

\* What marking mentions as seen leaves.
LEMMA SeenIs ==
  ASSUME ChatInv, NEW S, mention' = Seen(mention, S)
  PROVE  /\ mention' \in [Account \X Message -> {"none", "unseen", "seen", "pruned"}]
         /\ \A u \in Account, m \in Message :
              \/ mention'[<<u, m>>] = mention[<<u, m>>]
              \/ <<u, m>> \in S /\ mention[<<u, m>>] = "unseen" /\ mention'[<<u, m>>] = "seen"
  <1>1. mention \in [Account \X Message -> {"none", "unseen", "seen", "pruned"}]
    BY ChatTypes
  <1>2. DOMAIN mention = Account \X Message
    BY <1>1
  <1>3. mention' = [n \in Account \X Message |->
                      IF n \in S /\ mention[n] = "unseen" THEN "seen" ELSE mention[n]]
    BY <1>2 DEF Seen
  <1>4. mention' \in [Account \X Message -> {"none", "unseen", "seen", "pruned"}]
    BY <1>1, <1>3
  <1>5. \A n \in Account \X Message :
          \/ mention'[n] = mention[n]
          \/ n \in S /\ mention[n] = "unseen" /\ mention'[n] = "seen"
    BY <1>3
  <1>6. QED
    BY <1>4, <1>5

\* Its second statement marks mentions as seen.
LEMMA MentionsStep ==
  ASSUME ChatInv, NEW u \in Account, MarkMentionsSeen(u)
  PROVE  ChatInv'
  <1> USE ChatAssumption
  <1>1. PICK r : r = [reader[u] EXCEPT !.pc = "activity"]
    OBVIOUS
  <1>2. /\ reader[u] # NoReader /\ reader[u].pc = "mentions" /\ reader[u] \in Readers
    BY ChatFields DEF MarkMentionsSeen, ChatInv
  <1>3. /\ r \in Readers /\ r.pc = "activity" /\ r.channel = reader[u].channel /\ r.at = reader[u].at
    BY <1>1, <1>2 DEF Readers
  <1>4. PICK S : S = {u} \X UpTo(reader[u].channel, reader[u].at)
    OBVIOUS
  <1>5. /\ mention' = Seen(mention, S)
        /\ UNCHANGED <<clock, member, message, readMark, activity, excused>>
    BY <1>4 DEF MarkMentionsSeen, MentionsUpTo
  <1>6. /\ reader' \in [Account -> {NoReader} \cup Readers] /\ reader'[u] = r
        /\ \A v \in Account \ {u} : reader'[v] = reader[v]
    <2>1. reader' = [reader EXCEPT ![u] = r]
      BY <1>1, ChatTypes DEF MarkMentionsSeen
    <2>2. QED
      BY <1>3, <2>1, ChatTypes
  <1>7. /\ mention' \in [Account \X Message -> {"none", "unseen", "seen", "pruned"}]
        /\ \A v \in Account, k \in Message :
              \/ mention'[<<v, k>>] = mention[<<v, k>>]
              \/ <<v, k>> \in S /\ mention[<<v, k>>] = "unseen" /\ mention'[<<v, k>>] = "seen"
    BY <1>5, SeenIs
  <1>8. ASSUME NEW v \in Account, NEW k \in Message PROVE About(v, k)'
    <2>1. About(v, k)
      BY DEF ChatInv
    <2>2. FiledFor(v, k)'
      BY <1>5, <1>7, <2>1 DEF About, FiledFor, Visible
    <2>3. CoveredFor(v, k)'
      <3>1. reader'[v] = reader[v] \/
              (/\ v = u /\ reader'[v].channel = reader[v].channel /\ reader'[v].at = reader[v].at)
        BY <1>3, <1>6
      <3>2. reader'[v].pc \in {"mentions", "activity"} => reader[v].pc \in {"mentions", "activity"}
        BY <1>2, <1>6
      <3>3. QED
        BY <1>5, <2>1, <3>1, <3>2 DEF About, CoveredFor, Visible
    <2>4. SeenFor(v, k)'
      <3>1. CASE mention'[<<v, k>>] = mention[<<v, k>>]
        BY <1>5, <2>1, <3>1 DEF About, SeenFor
      <3>2. CASE <<v, k>> \in S
        <4>1. /\ v = u /\ Visible(k) /\ message[k].channel = reader[v].channel
              /\ message[k].at <= reader[v].at
          BY <1>4, <3>2 DEF UpTo
        <4>2. <<v, k>> \in readMark \/ <<v, k>> \in excused
          BY <1>2, <2>1, <4>1 DEF About, CoveredFor
        <4>3. QED
          BY <1>5, <4>2 DEF SeenFor
      <3>3. QED
        BY <1>7, <3>1, <3>2
    <2>5. InsideFor(v, k)'
      BY <1>5, <1>7, <2>1 DEF About, InsideFor, Visible
    <2>6. QED
      BY <2>2, <2>3, <2>4, <2>5 DEF About
  <1>9. QED
    BY <1>5, <1>6, <1>7, <1>8, ChatTypes, MarksStep

\* A request of markChatAsRead has ended, or not.
ReaderEnds(u) == reader' = reader \/ reader' = [reader EXCEPT ![u] = NoReader]

\* What becomes of a user's requests then.
LEMMA ReaderEndsIs ==
  ASSUME ChatInv, NEW u \in Account, ReaderEnds(u)
  PROVE  /\ reader' \in [Account -> {NoReader} \cup Readers]
         /\ \A v \in Account : reader'[v] = reader[v] \/ reader'[v].pc \notin {"mentions", "activity"}
  <1>1. NoReader.pc = "idle"
    BY DEF NoReader
  <1>2. QED
    BY <1>1, ChatTypes DEF ReaderEnds

\* Notifications become seen or are pruned: those about a message that is marked as
\* read, or that are excused.
LEMMA SeenStep ==
  ASSUME ChatInv, NEW u \in Account, ReaderEnds(u), UNCHANGED <<clock, member, message>>,
         readMark' \subseteq Account \X Message, excused' \subseteq Account \X Message,
         \A v \in Account, m \in Message :
           /\ <<v, m>> \in readMark => <<v, m>> \in readMark'
           /\ <<v, m>> \in readMark' => <<v, m>> \in readMark
                \/ (Visible(m) /\ (message[m].channel = "internal" => RoleOf[v] # "client"))
           /\ <<v, m>> \in excused => <<v, m>> \in excused',
         mention' \in [Account \X Message -> {"none", "unseen", "seen", "pruned"}],
         activity' \in [Account \X Message -> Activities],
         \A v \in Account, m \in Message :
           /\ mention[<<v, m>>] = "none" => mention'[<<v, m>>] = "none"
           /\ activity[<<v, m>>].st = "none" => activity'[<<v, m>>].st = "none"
           /\ activity'[<<v, m>>].st \in {"unseen", "seen"} =>
                activity[<<v, m>>].st \in {"unseen", "seen"} /\ activity'[<<v, m>>].at = activity[<<v, m>>].at
           /\ \/ mention'[<<v, m>>] = mention[<<v, m>>] /\ activity'[<<v, m>>] = activity[<<v, m>>]
              \/ <<v, m>> \in readMark' \/ <<v, m>> \in excused'
              \/ mention[<<v, m>>] \in {"seen", "pruned"} \/ activity[<<v, m>>].st \in {"seen", "pruned"}
  PROVE  ChatInv'
  <1>1. ASSUME NEW v \in Account, NEW k \in Message PROVE About(v, k)'
    <2>1. About(v, k)
      BY DEF ChatInv
    <2>2. reader'[v] = reader[v] \/ reader'[v].pc \notin {"mentions", "activity"}
      BY ReaderEndsIs
    <2>3. FiledFor(v, k)'
      BY <2>1 DEF About, FiledFor, Visible
    <2>4. CoveredFor(v, k)'
      BY <2>1, <2>2 DEF About, CoveredFor, Visible
    <2>5. SeenFor(v, k)'
      BY <2>1 DEF About, SeenFor
    <2>6. InsideFor(v, k)'
      BY <2>1 DEF About, InsideFor, Visible
    <2>7. QED
      BY <2>3, <2>4, <2>5, <2>6 DEF About
  <1>2. reader' \in [Account -> {NoReader} \cup Readers]
    BY ReaderEndsIs
  <1>3. clock' \in 0 .. MaxClock /\ clock <= clock'
    BY ChatTypes
  <1>4. QED
    BY <1>1, <1>2, <1>3, MarksStep

\* The third statement marks activity as seen, by stamps that come after those of the
\* messages.
LEMMA ActivitiesStep ==
  ASSUME ChatInv, NEW u \in Account, MarkActivitiesSeen(u)
  PROVE  ChatInv'
  <1> USE ChatAssumption
  <1>1. /\ reader[u].pc = "activity"
        /\ UNCHANGED <<clock, member, message, readMark, mention, excused>>
    BY DEF MarkActivitiesSeen
  <1>2. ReaderEnds(u)
    BY DEF ReaderEnds, MarkActivitiesSeen
  <1>3. \A n \in Account \X Message :
          \/ activity'[n] = activity[n]
          \/ /\ n[1] = u /\ activity[n].st = "unseen"
             /\ message[n[2]].channel = reader[u].channel /\ activity[n].at <= reader[u].at
             /\ activity'[n] = [activity[n] EXCEPT !.st = "seen"]
    BY DEF MarkActivitiesSeen
  <1>5. ASSUME NEW n \in Account \X Message
        PROVE  /\ activity'[n] \in Activities
               /\ \/ activity'[n] = activity[n]
                  \/ /\ n[1] = u /\ activity[n].st = "unseen" /\ activity'[n].st = "seen"
                     /\ activity'[n].at = activity[n].at
                     /\ message[n[2]].channel = reader[u].channel /\ activity[n].at <= reader[u].at
    <2>1. activity[n] \in Activities
      BY ChatTypes
    <2>2. PICK x : x = [activity[n] EXCEPT !.st = "seen"]
      OBVIOUS
    <2>3. x \in Activities /\ x.st = "seen" /\ x.at = activity[n].at
      BY <2>1, <2>2 DEF Activities
    <2>4. \/ activity'[n] = activity[n]
          \/ /\ n[1] = u /\ activity[n].st = "unseen" /\ activity'[n] = x
             /\ message[n[2]].channel = reader[u].channel /\ activity[n].at <= reader[u].at
      BY <1>3, <2>2
    <2>5. QED
      BY <2>1, <2>3, <2>4
  <1>6. activity' \in [Account \X Message -> Activities]
    <2>1. activity' = [n \in Account \X Message |-> activity'[n]]
      BY DEF MarkActivitiesSeen
    <2>2. QED
      BY <1>5, <2>1
  <1>7. ASSUME NEW v \in Account, NEW m \in Message
        PROVE  \/ activity'[<<v, m>>] = activity[<<v, m>>]
               \/ /\ activity[<<v, m>>].st = "unseen" /\ activity'[<<v, m>>].st = "seen"
                  /\ activity'[<<v, m>>].at = activity[<<v, m>>].at
                  /\ <<v, m>> \in readMark \/ <<v, m>> \in excused
    <2>1. <<v, m>> \in Account \X Message /\ <<v, m>>[1] = v /\ <<v, m>>[2] = m
      OBVIOUS
    <2>2. SUFFICES ASSUME /\ v = u /\ activity[<<v, m>>].st = "unseen" /\ activity'[<<v, m>>].st = "seen"
                          /\ activity'[<<v, m>>].at = activity[<<v, m>>].at
                          /\ message[m].channel = reader[u].channel /\ activity[<<v, m>>].at <= reader[u].at
                   PROVE  <<v, m>> \in readMark \/ <<v, m>> \in excused
      BY <1>5, <2>1
    <2>3. About(v, m)
      BY DEF ChatInv
    <2>4. Visible(m) /\ message[m].at <= activity[<<v, m>>].at
      BY <2>2, <2>3 DEF About, FiledFor
    <2>5. message[m].at \in Int /\ activity[<<v, m>>].at \in Int /\ reader[u].at \in Int
      BY <1>1, <2>4, ChatFields DEF ChatInv, Visible
    <2>6. message[m].at <= reader[u].at
      BY <2>2, <2>4, <2>5
    <2>7. QED
      BY <1>1, <2>2, <2>3, <2>4, <2>6 DEF About, CoveredFor
  <1>8. QED
    BY <1>1, <1>2, <1>6, <1>7, ChatTypes, SeenStep

\* A request of markChatAsRead ends after some of its statements.
LEMMA ReadFailsStep ==
  ASSUME ChatInv, NEW u \in Account, ReadFails(u)
  PROVE  ChatInv'
  <1>1. /\ ReaderEnds(u) /\ UNCHANGED <<clock, member, message, readMark, mention, activity, excused>>
    BY DEF ReadFails, ReaderEnds
  <1>2. QED
    BY <1>1, ChatTypes, SeenStep

\* One message is marked as read, with its mention.
LEMMA MessageReadStep ==
  ASSUME ChatInv, NEW u \in Account, NEW ch \in Channel, NEW m \in Message, MarkMessageRead(u, ch, m)
  PROVE  ChatInv'
  <1> USE ChatAssumption
  <1>1. /\ CanUse(u, ch) /\ Visible(m) /\ message[m].channel = ch
        /\ readMark' = readMark \cup {<<u, m>>} /\ mention' = Seen(mention, {<<u, m>>})
        /\ UNCHANGED <<clock, member, message, activity, reader, excused>>
    BY DEF MarkMessageRead
  <1>2. ReaderEnds(u)
    BY <1>1 DEF ReaderEnds
  <1>3. ch = "internal" => RoleOf[u] # "client"
    <2>1. member[u] \in {"none", RoleOf[u]} \/ (RoleOf[u] = "admin" /\ member[u] = "worker")
      BY DEF ChatInv, ChatTypeOK
    <2>2. QED
      BY <1>1, <2>1 DEF CanUse, MemberRole
  <1>4. /\ mention' \in [Account \X Message -> {"none", "unseen", "seen", "pruned"}]
        /\ \A v \in Account, k \in Message :
              \/ mention'[<<v, k>>] = mention[<<v, k>>]
              \/ /\ <<v, k>> \in {<<u, m>>}
                 /\ mention[<<v, k>>] = "unseen" /\ mention'[<<v, k>>] = "seen"
    BY <1>1, SeenIs
  <1>5. readMark' \subseteq Account \X Message
    BY <1>1, ChatTypes
  <1>6. \A v \in Account, k \in Message :
          <<v, k>> \in readMark' <=> <<v, k>> \in readMark \/ (v = u /\ k = m)
    BY <1>1
  <1>7. \A v \in Account, k \in Message : <<v, k>> \in {<<u, m>>} => v = u /\ k = m
    OBVIOUS
  <1>8. /\ activity' \in [Account \X Message -> Activities] /\ excused' \subseteq Account \X Message
        /\ UNCHANGED <<clock, member, message>>
    BY <1>1, ChatTypes
  <1>9. ASSUME NEW v \in Account, NEW k \in Message
        PROVE  /\ <<v, k>> \in readMark => <<v, k>> \in readMark'
               /\ <<v, k>> \in readMark' => <<v, k>> \in readMark
                    \/ (Visible(k) /\ (message[k].channel = "internal" => RoleOf[v] # "client"))
               /\ <<v, k>> \in excused => <<v, k>> \in excused'
    BY <1>1, <1>3, <1>6
  <1>10. ASSUME NEW v \in Account, NEW k \in Message
        PROVE  /\ mention[<<v, k>>] = "none" => mention'[<<v, k>>] = "none"
               /\ activity'[<<v, k>>] = activity[<<v, k>>]
               /\ mention'[<<v, k>>] = mention[<<v, k>>] \/ <<v, k>> \in readMark'
    <2>1. activity'[<<v, k>>] = activity[<<v, k>>]
      BY <1>1
    <2>2. mention'[<<v, k>>] = mention[<<v, k>>]
          \/ (v = u /\ k = m /\ mention[<<v, k>>] = "unseen")
      BY <1>4, <1>7
    <2>3. QED
      BY <1>6, <2>1, <2>2
  <1>11. QED
    BY <1>2, <1>4, <1>5, <1>8, <1>9, <1>10, SeenStep

\* A notification is marked as seen by hand, or pruned.
LEMMA NotificationStep ==
  ASSUME ChatInv, NEW a \in Account, NEW m \in Message,
         MarkNotificationSeen(<<a, m>>) \/ PruneReadNotifications(<<a, m>>)
  PROVE  ChatInv'
  <1> USE ChatAssumption
  <1>0. <<a, m>> \in Account \X Message
    OBVIOUS
  <1>1. UNCHANGED <<clock, member, message, readMark, reader>> /\ ReaderEnds(a)
    BY DEF MarkNotificationSeen, PruneReadNotifications, ReaderEnds
  <1>2. /\ excused' \subseteq Account \X Message /\ excused \subseteq excused'
    BY <1>0, ChatTypes DEF MarkNotificationSeen, PruneReadNotifications
  <1>3. PICK x \in Activities, y \in {"none", "unseen", "seen", "pruned"} :
          /\ activity' = [activity EXCEPT ![<<a, m>>] = x]
          /\ mention' = [mention EXCEPT ![<<a, m>>] = y]
          /\ activity[<<a, m>>].st = "none" => x.st = "none"
          /\ mention[<<a, m>>] = "none" => y = "none"
          /\ x.st \in {"unseen", "seen"} =>
               activity[<<a, m>>].st \in {"unseen", "seen"} /\ x.at = activity[<<a, m>>].at
          /\ \/ <<a, m>> \in excused'
             \/ mention[<<a, m>>] \in {"seen", "pruned"} \/ activity[<<a, m>>].st \in {"seen", "pruned"}
    <2>1. /\ activity[<<a, m>>] \in Activities /\ mention[<<a, m>>] \in {"none", "unseen", "seen", "pruned"}
          /\ activity = [activity EXCEPT ![<<a, m>>] = activity[<<a, m>>]]
          /\ mention = [mention EXCEPT ![<<a, m>>] = mention[<<a, m>>]]
      BY <1>0, ChatTypes
    <2>2. PICK s : s = [activity[<<a, m>>] EXCEPT !.st = "seen"]
      OBVIOUS
    <2>3. s \in Activities /\ s.st = "seen" /\ s.at = activity[<<a, m>>].at
      BY <2>1, <2>2 DEF Activities
    <2>4. PICK z : z = [st |-> "pruned", at |-> 0]
      OBVIOUS
    <2>5. z \in Activities /\ z.st = "pruned"
      BY <2>4 DEF Activities
    <2>6. CASE MarkNotificationSeen(<<a, m>>)
      <3>1. <<a, m>> \in excused'
        BY <2>6 DEF MarkNotificationSeen
      <3>2. CASE /\ activity[<<a, m>>].st = "unseen" /\ activity' = SeenActivity(<<a, m>>)
                 /\ UNCHANGED mention
        <4>1. activity' = [activity EXCEPT ![<<a, m>>] = s]
          BY <2>2, <3>2 DEF SeenActivity
        <4>2. QED
          BY <2>1, <2>3, <3>1, <3>2, <4>1
      <3>3. CASE /\ mention[<<a, m>>] = "unseen" /\ mention' = [mention EXCEPT ![<<a, m>>] = "seen"]
                 /\ UNCHANGED activity
        BY <2>1, <3>1, <3>3
      <3>4. QED
        BY <2>6, <3>2, <3>3 DEF MarkNotificationSeen
    <2>7. CASE PruneReadNotifications(<<a, m>>)
      <3>1. CASE /\ activity[<<a, m>>].st = "seen" /\ activity' = [activity EXCEPT ![<<a, m>>] = z]
                 /\ UNCHANGED mention
        BY <2>1, <2>5, <3>1
      <3>2. CASE /\ mention[<<a, m>>] = "seen" /\ mention' = [mention EXCEPT ![<<a, m>>] = "pruned"]
                 /\ UNCHANGED activity
        BY <2>1, <3>2
      <3>3. QED
        BY <2>4, <2>7, <3>1, <3>2 DEF PruneReadNotifications
    <2>8. QED
      BY <2>6, <2>7
  <1>4. /\ activity' \in [Account \X Message -> Activities]
        /\ mention' \in [Account \X Message -> {"none", "unseen", "seen", "pruned"}]
    BY <1>0, <1>3, ChatTypes
  <1>5. ASSUME NEW v \in Account, NEW k \in Message
        PROVE  \/ activity'[<<v, k>>] = activity[<<v, k>>] /\ mention'[<<v, k>>] = mention[<<v, k>>]
               \/ v = a /\ k = m /\ activity'[<<v, k>>] = x /\ mention'[<<v, k>>] = y
    BY <1>3, ChatTypes
  <1>6. ASSUME NEW v \in Account, NEW k \in Message
        PROVE  /\ mention[<<v, k>>] = "none" => mention'[<<v, k>>] = "none"
               /\ activity[<<v, k>>].st = "none" => activity'[<<v, k>>].st = "none"
               /\ activity'[<<v, k>>].st \in {"unseen", "seen"} =>
                    activity[<<v, k>>].st \in {"unseen", "seen"} /\ activity'[<<v, k>>].at = activity[<<v, k>>].at
               /\ \/ mention'[<<v, k>>] = mention[<<v, k>>] /\ activity'[<<v, k>>] = activity[<<v, k>>]
                  \/ <<v, k>> \in readMark' \/ <<v, k>> \in excused'
                  \/ mention[<<v, k>>] \in {"seen", "pruned"} \/ activity[<<v, k>>].st \in {"seen", "pruned"}
    BY <1>3, <1>5
  <1>7. readMark' \subseteq Account \X Message
    BY <1>1, ChatTypes
  <1>8. QED
    BY <1>1, <1>2, <1>4, <1>6, <1>7, SeenStep

\* Every step of the chat keeps the invariant.
LEMMA ChatStep == ChatInv /\ [ChatNext]_chatVars => ChatInv'
  <1> SUFFICES ASSUME ChatInv, [ChatNext]_chatVars PROVE ChatInv'
    OBVIOUS
  <1>1. CASE UNCHANGED chatVars
    <2>1. UNCHANGED <<clock, member, message, readMark, mention, activity, reader, excused>>
      BY <1>1 DEF chatVars
    <2>2. \A u \in Account, m \in Message : About(u, m)'
      BY <2>1, AboutSame DEF ChatInv
    <2>3. QED
      BY <2>1, <2>2, ChatTypes, MarksStep
  <1>2. CASE ChatNext
    <2>1. CASE \E u \in Account, role \in {"admin", "worker", "client"} : UpsertProjectMember(u, role)
      BY <2>1, MemberStep
    <2>2. CASE \E u \in Account, m \in Message, ch \in Channel, mentioned \in SUBSET Account :
                 PostChatMessage(u, m, ch, mentioned)
      BY <2>2, PostStep
    <2>3. CASE \E m \in Message : CommitChatMessage(m) \/ PostFails(m) \/ PersistActivityNotification(m)
      BY <2>3, CommitStep, PostFailsStep, PersistStep
    <2>4. CASE \E u \in Account, ch \in Channel, m \in Message :
                 MarkChatAsRead(u, ch, m) \/ MarkMessageRead(u, ch, m)
      BY <2>4, ReadStep, MessageReadStep
    <2>5. CASE \E u \in Account : MarkMentionsSeen(u) \/ MarkActivitiesSeen(u) \/ ReadFails(u)
      BY <2>5, MentionsStep, ActivitiesStep, ReadFailsStep
    <2>6. CASE \E n \in Account \X Message : MarkNotificationSeen(n) \/ PruneReadNotifications(n)
      <3>1. PICK u \in Account, m \in Message :
              MarkNotificationSeen(<<u, m>>) \/ PruneReadNotifications(<<u, m>>)
        BY <2>6
      <3>2. QED
        BY <3>1, NotificationStep
    <2>7. QED
      BY <1>2, <2>1, <2>2, <2>3, <2>4, <2>5, <2>6 DEF ChatNext
  <1>3. QED
    BY <1>1, <1>2

\* The variables of the chat keep their types: a member's role is always one that the
\* user's role in the identity service allows.
THEOREM ChatTypeCorrect == ChatSpec => []ChatTypeOK
  <1>1. ChatInv => ChatTypeOK
    BY DEF ChatInv
  <1>2. QED
    BY <1>1, ChatInitInv, ChatStep, PTL DEF ChatSpec

\* Nothing of the internal channel reaches a client, for any number of users, messages
\* and changes of membership between the check, the commit and the consumer.
THEOREM ChatInternalStaysInside == ChatSpec => []InternalStaysInside
  <1>1. ChatInv => InternalStaysInside
    BY DEF ChatInv, About, InsideFor, InternalStaysInside
  <1>2. QED
    BY <1>1, ChatInitInv, ChatStep, PTL DEF ChatSpec

\* Reading marks as seen no notification about a message it did not mark as read,
\* but for those marked by hand and those committed between the statements.
THEOREM ChatSeenMeansRead == ChatSpec => []SeenMeansRead
  <1>1. ChatInv => SeenMeansRead
    <2>1. SUFFICES ASSUME ChatInv, NEW u \in Account, NEW m \in Message, <<u, m>> \notin excused,
                          \/ mention[<<u, m>>] \in {"seen", "pruned"}
                          \/ activity[<<u, m>>].st \in {"seen", "pruned"}
                   PROVE  <<u, m>> \in readMark
      BY DEF SeenMeansRead
    <2>2. QED
      BY <2>1 DEF ChatInv, About, SeenFor
  <1>2. QED
    BY <1>1, ChatInitInv, ChatStep, PTL DEF ChatSpec

\* A user is told of a message once: a mention and activity about the same message
\* exclude each other, so that the unread count is one of messages.
THEOREM ChatNotifiedOnce == ChatSpec => []NotifiedOnce
  <1>1. ChatInv => NotifiedOnce
    <2>1. SUFFICES ASSUME ChatInv, NEW u \in Account
                   PROVE  /\ UnreadCount(u) = Cardinality(UnreadMentions(u) \cup UnreadActivities(u))
                          /\ \A m \in Message :
                               LET mentioned == mention[<<u, m>>] # "none"
                                   active == activity[<<u, m>>].st # "none"
                               IN  ~ (mentioned /\ active) /\ (mentioned \/ active => message[m].author # u)
      BY DEF NotifiedOnce
    <2>2. ASSUME NEW m \in Message
          PROVE  /\ ~ (mention[<<u, m>>] # "none" /\ activity[<<u, m>>].st # "none")
                 /\ mention[<<u, m>>] # "none" \/ activity[<<u, m>>].st # "none" => message[m].author # u
      BY <2>1 DEF ChatInv, About, FiledFor
    <2>3. PICK A, B : A = UnreadMentions(u) /\ B = UnreadActivities(u)
      OBVIOUS
    <2>4. A \subseteq Message /\ B \subseteq Message /\ A \cap B = {}
      BY <2>2, <2>3 DEF UnreadMentions, UnreadActivities
    <2>5. IsFiniteSet(A) /\ IsFiniteSet(B)
      BY <2>4, FS_Subset, ChatAssumption
    <2>6. Cardinality(A) \in Nat /\ Cardinality(B) \in Nat /\ Cardinality(A \cap B) = 0
      BY <2>4, <2>5, FS_CardinalityType, FS_EmptySet
    <2>7. Cardinality(A \cup B) = Cardinality(A) + Cardinality(B) - Cardinality(A \cap B)
      BY <2>5, FS_Union
    <2>8. Cardinality(A \cup B) = Cardinality(A) + Cardinality(B)
      BY <2>6, <2>7
    <2>9. UnreadCount(u) = Cardinality(UnreadMentions(u) \cup UnreadActivities(u))
      BY <2>3, <2>8 DEF UnreadCount
    <2>10. QED
      BY <2>2, <2>9
  <1>2. QED
    BY <1>1, ChatInitInv, ChatStep, PTL DEF ChatSpec

-----------------------------------------------------------------------------
(* Change requests.                                                        *)

\* Inserting(k, t): creation k has seen no open minor request on t.
Inserting(k, t) == creation[k].pc = "insert" /\ creation[k].task = t

\* Where no two creations overlapped, there is one to insert or one inserted.
AloneOn(t) ==
  /\ \A j, k \in Client : Inserting(j, t) /\ Inserting(k, t) => j = k
  /\ \A k \in Client, r \in Request : Inserting(k, t) => r \notin Open("minor", t)
  /\ \A r, s \in Request : r \in Open("minor", t) /\ s \in Open("minor", t) => r = s

Alone == \A t \in Task \ overlapped : AloneOn(t)

InResolution == {a \in Admin : resolving[a].pc = "tx"}

\* The approvals counted are of resolutions begun and not in flight; the log has no
\* more rows, as many for a formal request, and a request that is not there has none.
CountedFor(r) ==
  /\ approvals[r] + Cardinality(InResolution) <= begun
  /\ brief.logOf[r] <= approvals[r]
  /\ request[r].type = "formal" => brief.logOf[r] = approvals[r]
  /\ request[r].type \notin {"minor", "formal"} => approvals[r] = 0

AllCounted == (\A r \in Request : CountedFor(r)) /\ brief.log <= begun

\* A resolution in flight began on a request that was there.
OnRequest == \A a \in InResolution : request[resolving[a].r].type \in {"minor", "formal"}

\* The events of r in the outbox; tick q knows of e.
EventsOf(r) == {e \in Time : event[e] # NoEvent /\ event[e].r = r}
Has(q, e) == e \in tick[q].batch \cup tick[q].sent \cup tick[q].refused

\* The outbox has the rows of the events, the ticks know of no others, and the time of
\* a resolution in flight is its own.
Rows ==
  /\ \A e \in Time : event[e] = NoEvent <=> outbox[e].st = "none"
  /\ \A e \in Time : event[e] # NoEvent => e <= begun
  /\ \A e \in Time, q \in Tick : Has(q, e) => event[e] # NoEvent
  /\ \A a \in InResolution :
       /\ resolving[a].at <= begun /\ event[resolving[a].at] = NoEvent
       /\ \A b \in InResolution : resolving[b].at = resolving[a].at => a = b

\* A row is claimed by a tick that does not know of it any more: it cannot be marked
\* before the claim runs out.
Orphan(e) == outbox[e].st = "claimed" /\ \A q \in Tick : ~ Has(q, e)

\* An event that no tick has sent yet.
Waits(e) == outbox[e].st = "due" \/ \E q \in Tick : e \in tick[q].batch

\* The events of r are due, claimed by the one tick that knows of them, or published;
\* those that are due are younger than the claimed ones, these than the ones sent.
Queued(r) ==
  /\ \A e \in EventsOf(r) : outbox[e].st \in {"due", "claimed", "published"}
  /\ \A e \in EventsOf(r), q \in Tick :
       /\ e \notin tick[q].refused
       /\ e \in tick[q].batch \cup tick[q].sent => outbox[e] = [st |-> "claimed", by |-> q]
  /\ \A e, f \in EventsOf(r) :
       e < f => (outbox[e].st = "due" => outbox[f].st = "due") /\ (Waits(e) => Waits(f))
  /\ \A e, f \in EventsOf(r), p, q \in Tick : e \in tick[p].batch /\ f \in tick[q].batch => p = q

\* One resolution of r is in flight, younger than the events.
OneInFlight(r) ==
  \A a \in InResolution : resolving[a].r = r =>
    /\ \A e \in EventsOf(r) : e < resolving[a].at
    /\ \A b \in InResolution : resolving[b].r = r => a = b

\* A status that is announced is that of the youngest event; the one told is that of the
\* youngest event sent.
UpToDate(r) ==
  /\ request[r].status \in Announced(request[r].type) =>
       \E e \in EventsOf(r) : event[e].status = request[r].status /\ \A f \in EventsOf(r) : f <= e
  /\ \A e \in EventsOf(r) :
       ~ Waits(e) /\ (\A f \in EventsOf(r) : e < f => Waits(f)) => told[r] = event[e].status

InTurn(r) == Queued(r) /\ OneInFlight(r) /\ UpToDate(r)

\* Where nothing was reordered and no claim forgotten.
InOrder(r) == r \notin reordered /\ \A e \in EventsOf(r) : ~ Orphan(e)

AllInTurn == \A r \in Request : InOrder(r) => InTurn(r)

RequestInv == ChangeRequestTypeOK /\ Alone /\ AllCounted /\ OnRequest /\ Rows /\ AllInTurn

ChangeRequests ==
  [type : {"minor", "formal"}, task : Task \cup {"none"}, status : {"open"} \cup Resolution]
Resolutions == [pc : {"tx"}, r : Request, status : Resolution, at : Time]
RequestEvents == [r : Request, status : Resolution]
Creations == [pc : {"idle", "insert"}, task : Task \cup {"none"}]
Briefs == [log : 0 .. MaxBegun, logOf : [Request -> 0 .. MaxBegun]]
OutboxRows ==
  [st : {"none", "due", "waiting", "claimed", "expired", "published"}, by : Tick \cup {NoTick}]
Ticks == [batch : SUBSET Time, sent : SUBSET Time, refused : SUBSET Time]

\* The types, under these names.
LEMMA RequestTypes ==
  ChangeRequestTypeOK <=>
    /\ request \in [Request -> {NoRequest} \cup ChangeRequests]
    /\ creation \in [Client -> Creations]
    /\ begun \in 0 .. MaxBegun
    /\ resolving \in [Admin -> {NoResolving} \cup Resolutions]
    /\ event \in [Time -> {NoEvent} \cup RequestEvents]
    /\ outbox \in [Time -> OutboxRows]
    /\ tick \in [Tick -> Ticks]
    /\ told \in [Request -> {"none"} \cup Resolution]
    /\ brief \in Briefs
    /\ approvals \in [Request -> 0 .. MaxBegun]
    /\ overlapped \subseteq Task /\ reordered \subseteq Request
  BY DEF ChangeRequestTypeOK, ChangeRequests, Creations, Resolutions, RequestEvents, Briefs,
     OutboxRows, Ticks

\* The fields of requests, resolutions, events and ticks.
LEMMA RequestFields ==
  ASSUME ChangeRequestTypeOK
  PROVE  /\ \A r \in Request :
              /\ request[r] = NoRequest \/ request[r] \in ChangeRequests
              /\ request[r] = NoRequest <=> request[r].type \notin {"minor", "formal"}
              /\ request[r] = NoRequest => request[r].status = "none"
              /\ request[r].type \in {"minor", "formal"} =>
                   /\ request[r].task \in Task \cup {"none"}
                   /\ request[r].status \in {"open"} \cup Resolution
              /\ approvals[r] \in 0 .. MaxBegun /\ approvals[r] \in Int
              /\ brief.logOf[r] \in 0 .. MaxBegun /\ brief.logOf[r] \in Int
         /\ \A a \in Admin :
              /\ resolving[a] = NoResolving \/ resolving[a] \in Resolutions
              /\ resolving[a] = NoResolving <=> resolving[a].pc # "tx"
              /\ resolving[a].pc = "tx" =>
                   /\ resolving[a].r \in Request /\ resolving[a].status \in Resolution
                   /\ resolving[a].at \in Time /\ resolving[a].at \in Int
         /\ begun \in Int /\ begun \in 0 .. MaxBegun /\ brief.log \in Int
  <1> USE ChangeRequestAssumption
  <1>1. NoRequest.type = "none" /\ NoRequest.status = "none" /\ NoResolving.pc = "idle"
    BY DEF NoRequest, NoResolving
  <1>2. \A x \in ChangeRequests : /\ x.type \in {"minor", "formal"} /\ x.task \in Task \cup {"none"}
                                  /\ x.status \in {"open"} \cup Resolution
    BY DEF ChangeRequests
  <1>3. \A x \in Resolutions : /\ x.pc = "tx" /\ x.r \in Request /\ x.status \in Resolution
                               /\ x.at \in Time
    BY DEF Resolutions
  <1>5. \A i \in Time : i \in Int
    BY DEF Time
  <1>6. \A i \in 0 .. MaxBegun : i \in Int
    OBVIOUS
  <1>7. ASSUME NEW r \in Request PROVE request[r] = NoRequest \/ request[r] \in ChangeRequests
    BY RequestTypes
  <1>8. ASSUME NEW r \in Request PROVE approvals[r] \in 0 .. MaxBegun /\ brief.logOf[r] \in 0 .. MaxBegun
    BY RequestTypes DEF Briefs
  <1>9. ASSUME NEW a \in Admin PROVE resolving[a] = NoResolving \/ resolving[a] \in Resolutions
    BY RequestTypes
  <1>11. \A r \in Request :
              /\ request[r] = NoRequest \/ request[r] \in ChangeRequests
              /\ request[r] = NoRequest <=> request[r].type \notin {"minor", "formal"}
              /\ request[r] = NoRequest => request[r].status = "none"
              /\ request[r].type \in {"minor", "formal"} =>
                   /\ request[r].task \in Task \cup {"none"}
                   /\ request[r].status \in {"open"} \cup Resolution
    BY <1>1, <1>2, <1>7
  <1>12. \A a \in Admin :
              /\ resolving[a] = NoResolving \/ resolving[a] \in Resolutions
              /\ resolving[a] = NoResolving <=> resolving[a].pc # "tx"
              /\ resolving[a].pc = "tx" =>
                   /\ resolving[a].r \in Request /\ resolving[a].status \in Resolution
                   /\ resolving[a].at \in Time /\ resolving[a].at \in Int
    BY <1>1, <1>3, <1>5, <1>9
  <1>13. begun \in 0 .. MaxBegun /\ brief.log \in 0 .. MaxBegun
    BY RequestTypes DEF Briefs
  <1>14. QED
    BY <1>6, <1>8, <1>11, <1>12, <1>13

\* How many resolutions are in flight as one begins or ends.
LEMMA InFlightCount ==
  /\ IsFiniteSet(InResolution) /\ Cardinality(InResolution) \in Nat
  /\ \A a \in InResolution : /\ Cardinality(InResolution \ {a}) = Cardinality(InResolution) - 1
                             /\ Cardinality(InResolution) >= 1
  /\ \A a \in Admin \ InResolution : Cardinality(InResolution \cup {a}) = Cardinality(InResolution) + 1
  <1>1. IsFiniteSet(InResolution)
    BY ChangeRequestAssumption, FS_Subset DEF InResolution
  <1>2. Cardinality(InResolution) \in Nat
    BY <1>1, FS_CardinalityType
  <1>3. \A a \in Admin \ InResolution : Cardinality(InResolution \cup {a}) = Cardinality(InResolution) + 1
    BY <1>1, FS_AddElement
  <1>4. ASSUME NEW a \in InResolution
        PROVE  /\ Cardinality(InResolution \ {a}) = Cardinality(InResolution) - 1
               /\ Cardinality(InResolution) >= 1
    <2>1. Cardinality(InResolution \ {a}) = Cardinality(InResolution) - 1
      BY <1>1, FS_RemoveElement
    <2>2. Cardinality(InResolution \ {a}) \in Nat
      BY <1>1, FS_RemoveElement, FS_CardinalityType
    <2>3. QED
      BY <1>2, <2>1, <2>2
  <1>5. QED
    BY <1>1, <1>2, <1>3, <1>4

\* The invariant holds at the start.
LEMMA RequestInitInv == ChangeRequestInit => RequestInv
  <1> SUFFICES ASSUME ChangeRequestInit PROVE RequestInv
    OBVIOUS
  <1> USE ChangeRequestAssumption
  <1>1. NoRequest.type = "none" /\ NoResolving.pc = "idle" /\ NoCreation.pc = "idle"
    BY DEF NoRequest, NoResolving, NoCreation
  <1>2. ChangeRequestTypeOK
    <2>1. creation \in [Client -> Creations]
      BY DEF ChangeRequestInit, Creations, NoCreation
    <2>2. brief \in Briefs
      BY DEF ChangeRequestInit, Briefs
    <2>3. Unclaimed("none") \in OutboxRows /\ IdleTick \in Ticks
      BY DEF Unclaimed, OutboxRows, IdleTick, Ticks
    <2>4. outbox \in [Time -> OutboxRows] /\ tick \in [Tick -> Ticks]
      BY <2>3 DEF ChangeRequestInit
    <2>5. QED
      BY <2>1, <2>2, <2>4, RequestTypes DEF ChangeRequestInit
  <1>3. InResolution = {}
    BY <1>1 DEF ChangeRequestInit, InResolution
  <1>4. \A k \in Client : creation[k].pc = "idle"
    BY <1>1 DEF ChangeRequestInit
  <1>5. \A r \in Request : request[r].type = "none" /\ request[r].status = "none"
    BY DEF ChangeRequestInit, NoRequest
  <1>6. Alone
    BY <1>4, <1>5 DEF Alone, AloneOn, Inserting, Open
  <1>7. AllCounted
    <2>1. Cardinality(InResolution) = 0
      BY <1>3, FS_EmptySet
    <2>2. begun = 0 /\ brief.log = 0 /\ \A r \in Request : approvals[r] = 0 /\ brief.logOf[r] = 0
      BY DEF ChangeRequestInit
    <2>3. QED
      BY <2>1, <2>2 DEF AllCounted, CountedFor
  <1>8. OnRequest
    BY <1>3 DEF OnRequest
  <1>9. Rows
    <2>1. \A e \in Time : event[e] = NoEvent /\ outbox[e].st = "none"
      BY DEF ChangeRequestInit, Unclaimed
    <2>2. \A e \in Time, q \in Tick : ~ Has(q, e)
      BY DEF ChangeRequestInit, IdleTick, Has
    <2>3. QED
      BY <1>3, <2>1, <2>2 DEF Rows
  <1>10. AllInTurn
    <2>1. \A r \in Request : EventsOf(r) = {}
      BY DEF ChangeRequestInit, EventsOf
    <2>2. \A r \in Request : request[r].status \notin Announced(request[r].type)
      BY <1>5 DEF Announced
    <2>3. QED
      BY <1>3, <2>1, <2>2 DEF AllInTurn, InTurn, Queued, OneInFlight, UpToDate
  <1>11. QED
    BY <1>2, <1>6, <1>7, <1>8, <1>9, <1>10 DEF RequestInv
\* A step of which the events of r notice nothing but marks: in the state after it they are
\* in the same order, as the resolutions are.
LEMMA InTurnKept ==
  ASSUME NEW r, InTurn(r),
         \A e : e \in EventsOf(r)' <=> e \in EventsOf(r),
         \A e \in EventsOf(r) :
           /\ event'[e] = event[e] /\ outbox'[e].st \in {"due", "claimed", "published"}
           /\ outbox'[e].st = "due" <=> outbox[e].st = "due"
           /\ \A q \in Tick :
                /\ e \notin tick'[q].refused
                /\ e \in tick'[q].batch <=> e \in tick[q].batch
                /\ e \in tick'[q].batch \cup tick'[q].sent => outbox'[e] = [st |-> "claimed", by |-> q],
         told'[r] = told[r],
         \/ request'[r].type = request[r].type /\ request'[r].status = request[r].status
         \/ request'[r].status \notin Announced(request'[r].type),
         \A a \in InResolution' : resolving'[a].r = r => a \in InResolution /\ resolving'[a] = resolving[a]
  PROVE  InTurn(r)'
  <1>1. \A e \in EventsOf(r) : Waits(e)' <=> Waits(e)
    BY DEF Waits
  <1>2. Queued(r)'
    <2>1. /\ \A e \in EventsOf(r)' : outbox'[e].st \in {"due", "claimed", "published"}
          /\ \A e \in EventsOf(r)', q \in Tick :
               /\ e \notin tick'[q].refused
               /\ e \in tick'[q].batch \cup tick'[q].sent => outbox'[e] = [st |-> "claimed", by |-> q]
      OBVIOUS
    <2>2. \A e, f \in EventsOf(r)' :
            e < f => (outbox'[e].st = "due" => outbox'[f].st = "due") /\ (Waits(e)' => Waits(f)')
      BY <1>1 DEF InTurn, Queued
    <2>3. \A e, f \in EventsOf(r)', p, q \in Tick :
            e \in tick'[p].batch /\ f \in tick'[q].batch => p = q
      <3>1. ASSUME NEW e \in EventsOf(r), NEW f \in EventsOf(r), NEW p \in Tick, NEW q \in Tick,
                   e \in tick'[p].batch, f \in tick'[q].batch
            PROVE  p = q
        <4>1. e \in tick[p].batch /\ f \in tick[q].batch
          BY <3>1
        <4>2. QED
          BY <4>1 DEF InTurn, Queued
      <3>2. QED
        BY <3>1
    <2>4. QED
      BY <2>1, <2>2, <2>3 DEF Queued
  <1>3. OneInFlight(r)'
    BY DEF InTurn, OneInFlight
  <1>4. UpToDate(r)'
    <2>1. \A e \in EventsOf(r)' :
            ~ Waits(e)' /\ (\A f \in EventsOf(r)' : e < f => Waits(f)') => told'[r] = event'[e].status
      BY <1>1 DEF InTurn, UpToDate
    <2>2. ASSUME request'[r].status \in Announced(request'[r].type)
          PROVE  \E e \in EventsOf(r)' :
                   event'[e].status = request'[r].status /\ \A f \in EventsOf(r)' : f <= e
      BY <2>2 DEF InTurn, UpToDate, Announced
    <2>3. QED
      BY <2>1, <2>2 DEF UpToDate
  <1>5. QED
    BY <1>2, <1>3, <1>4 DEF InTurn

\* The outbox as it is, and the same resolutions of r or fewer.
LEMMA InTurnSame ==
  ASSUME NEW r, InTurn(r), UNCHANGED <<event, outbox, tick, told>>,
         \/ request'[r].type = request[r].type /\ request'[r].status = request[r].status
         \/ request'[r].status \notin Announced(request'[r].type),
         \A a \in InResolution' : resolving'[a].r = r => a \in InResolution /\ resolving'[a] = resolving[a]
  PROVE  InTurn(r)'
  <1>1. EventsOf(r)' = EventsOf(r)
    BY DEF EventsOf
  <1>2. \A e \in EventsOf(r) :
           /\ event'[e] = event[e] /\ outbox'[e].st \in {"due", "claimed", "published"}
           /\ outbox'[e].st = "due" <=> outbox[e].st = "due"
           /\ \A q \in Tick :
                /\ e \notin tick'[q].refused
                /\ e \in tick'[q].batch <=> e \in tick[q].batch
                /\ e \in tick'[q].batch \cup tick'[q].sent => outbox'[e] = [st |-> "claimed", by |-> q]
    BY DEF InTurn, Queued
  <1>3. QED
    BY <1>1, <1>2, InTurnKept

\* Nothing is put right while the outbox stays as it is.
LEMMA InOrderSame ==
  ASSUME NEW r, UNCHANGED <<event, outbox, tick>>, reordered \subseteq reordered', InOrder(r)'
  PROVE  InOrder(r)
  BY DEF InOrder, EventsOf, Orphan, Has

\* A creation, of a minor or a formal request.
LEMMA CreationStep ==
  ASSUME RequestInv, UNCHANGED <<brief, resolution>>, ChangeRequestTypeOK', Alone',
         \A r \in Request :
           \/ request'[r] = request[r]
           \/ request[r] = NoRequest /\ request'[r].type \in {"minor", "formal"} /\ request'[r].status = "open"
  PROVE  RequestInv'
  <1>1. UNCHANGED <<resolving, begun, event, outbox, tick, told, approvals, reordered>>
    BY DEF resolution, publication
  <1>2. InResolution' = InResolution
    BY <1>1 DEF InResolution
  <1>3. ASSUME NEW r \in Request PROVE CountedFor(r)'
    <2>1. CountedFor(r)
      BY DEF RequestInv, AllCounted
    <2>2. request[r] = NoRequest => brief.logOf[r] = approvals[r]
      <3>1. request[r] = NoRequest => approvals[r] = 0
        BY <2>1, RequestFields DEF RequestInv, CountedFor
      <3>2. brief.logOf[r] \in Int /\ brief.logOf[r] >= 0
        BY RequestFields DEF RequestInv
      <3>3. QED
        BY <2>1, <3>1, <3>2 DEF CountedFor
    <2>3. QED
      BY <1>1, <1>2, <2>1, <2>2 DEF CountedFor
  <1>4. OnRequest'
    <2>1. ASSUME NEW a \in InResolution PROVE request'[resolving[a].r].type \in {"minor", "formal"}
      <3>1. resolving[a].r \in Request /\ request[resolving[a].r].type \in {"minor", "formal"}
        BY RequestFields DEF RequestInv, OnRequest, InResolution
      <3>2. QED
        BY <3>1
    <2>2. QED
      BY <1>1, <1>2, <2>1 DEF OnRequest
  <1>5. Rows'
    BY <1>1, <1>2 DEF RequestInv, Rows, Has
  <1>6. ASSUME NEW r \in Request, InOrder(r)' PROVE InTurn(r)'
    <2>1. InTurn(r)
      BY <1>1, <1>6, InOrderSame DEF RequestInv, AllInTurn
    <2>2. "open" \notin Announced(request'[r].type)
      BY DEF Announced
    <2>3. QED
      BY <1>1, <1>2, <2>1, <2>2, InTurnSame
  <1>7. AllCounted'
    BY <1>1, <1>3 DEF RequestInv, AllCounted
  <1>8. QED
    BY <1>1, <1>4, <1>5, <1>6, <1>7 DEF RequestInv, AllInTurn

\* The check before the insertion of a minor request.
LEMMA CheckStep ==
  ASSUME RequestInv, NEW k \in Client, NEW t \in Task, CheckOpenMinor(k, t)
  PROVE  RequestInv'
  <1>1. PICK c : c = [pc |-> "insert", task |-> t]
    OBVIOUS
  <1>2. c \in Creations /\ c.pc = "insert" /\ c.task = t
    BY <1>1 DEF Creations
  <1>3. /\ Open("minor", t) = {} /\ creation' = [creation EXCEPT ![k] = c]
        /\ overlapped' = IF \E j \in Client : creation[j].pc = "insert" /\ creation[j].task = t
                         THEN overlapped \cup {t} ELSE overlapped
        /\ UNCHANGED <<request, brief, resolution>>
    BY <1>1 DEF CheckOpenMinor, Checked
  <1>4. /\ creation' \in [Client -> Creations] /\ creation'[k] = c
        /\ \A j \in Client \ {k} : creation'[j] = creation[j]
    BY <1>2, <1>3, RequestTypes DEF RequestInv
  <1>5. overlapped' \subseteq Task /\ overlapped \subseteq overlapped'
    BY <1>3, RequestTypes DEF RequestInv
  <1>6. ChangeRequestTypeOK'
    BY <1>3, <1>4, <1>5 DEF RequestInv, resolution, publication, ChangeRequestTypeOK, ChangeRequests, Creations
  <1>7. \A s : Open("minor", s)' = Open("minor", s)
    BY <1>3 DEF Open
  <1>8. ASSUME NEW s \in Task \ overlapped' PROVE AloneOn(s)'
    <2>1. AloneOn(s)
      BY <1>5 DEF RequestInv, Alone
    <2>2. \A j \in Client : Inserting(j, s)' <=> (Inserting(j, s) /\ j # k) \/ (j = k /\ s = t)
      BY <1>2, <1>4 DEF Inserting
    <2>3. CASE s = t
      <3>1. \A j \in Client : ~ Inserting(j, s)
        BY <1>3, <2>3 DEF Inserting
      <3>2. QED
        BY <1>3, <1>7, <2>1, <2>2, <2>3, <3>1 DEF AloneOn
    <2>4. CASE s # t
      BY <1>7, <2>1, <2>2, <2>4 DEF AloneOn
    <2>5. QED
      BY <2>3, <2>4
  <1>9. QED
    BY <1>3, <1>6, <1>8, CreationStep DEF Alone

\* The insertion.
LEMMA CreateMinorStep ==
  ASSUME RequestInv, NEW k \in Client, NEW r \in Request, CreateMinorChangeRequest(k, r)
  PROVE  RequestInv'
  <1>1. PICK t, c, x : t = creation[k].task /\ c = NoCreation /\ x = Opened("minor", t)
    OBVIOUS
  <1>2. /\ creation[k].pc = "insert" /\ request[r] = NoRequest
        /\ request' = [request EXCEPT ![r] = x] /\ creation' = [creation EXCEPT ![k] = c]
        /\ UNCHANGED <<brief, resolution, overlapped>>
    BY <1>1 DEF CreateMinorChangeRequest
  <1>3. t \in Task \cup {"none"}
    BY <1>1, RequestTypes DEF RequestInv, Creations
  <1>4. c \in Creations /\ c.pc = "idle"
    BY <1>1 DEF Creations, NoCreation
  <1>5. x \in ChangeRequests /\ x.type = "minor" /\ x.task = t /\ x.status = "open"
    BY <1>1, <1>3 DEF Opened, ChangeRequests
  <1>6. /\ creation' \in [Client -> Creations] /\ creation'[k] = c
        /\ \A j \in Client \ {k} : creation'[j] = creation[j]
    BY <1>2, <1>4, RequestTypes DEF RequestInv
  <1>7. /\ request' \in [Request -> {NoRequest} \cup ChangeRequests] /\ request'[r] = x
        /\ \A s \in Request \ {r} : request'[s] = request[s]
    BY <1>2, <1>5, RequestTypes DEF RequestInv
  <1>8. ChangeRequestTypeOK'
    BY <1>2, <1>6, <1>7 DEF RequestInv, resolution, publication, ChangeRequestTypeOK, ChangeRequests, Creations
  <1>9. ASSUME NEW s \in Task \ overlapped PROVE AloneOn(s)'
    <2>1. AloneOn(s)
      BY DEF RequestInv, Alone
    <2>2. \A j \in Client : Inserting(j, s)' => Inserting(j, s) /\ j # k
      BY <1>4, <1>6 DEF Inserting
    <2>3. \A q \in Request : q \in Open("minor", s)' <=> q \in Open("minor", s) \/ (q = r /\ s = t)
      <3>1. request[r].type = "none"
        BY <1>2 DEF NoRequest
      <3>2. QED
        BY <1>5, <1>7, <3>1 DEF Open
    <2>4. CASE s = t
      <3>1. Inserting(k, s)
        BY <1>1, <1>2, <2>4 DEF Inserting
      <3>2. QED
        BY <2>1, <2>2, <2>3, <2>4, <3>1 DEF AloneOn
    <2>5. CASE s # t
      BY <2>1, <2>2, <2>3, <2>5 DEF AloneOn
    <2>6. QED
      BY <2>4, <2>5
  <1>10. Alone'
    BY <1>2, <1>9 DEF Alone
  <1>11. \A s \in Request :
           \/ request'[s] = request[s]
           \/ request[s] = NoRequest /\ request'[s].type \in {"minor", "formal"} /\ request'[s].status = "open"
    BY <1>2, <1>5, <1>7
  <1>12. QED
    BY <1>2, <1>8, <1>10, <1>11, CreationStep

\* It fails.
LEMMA CreationFailsStep ==
  ASSUME RequestInv, NEW k \in Client, CreationFails(k)
  PROVE  RequestInv'
  <1>1. PICK c : c = NoCreation
    OBVIOUS
  <1>2. /\ creation' = [creation EXCEPT ![k] = c]
        /\ UNCHANGED <<request, brief, resolution, overlapped>>
    BY <1>1 DEF CreationFails
  <1>3. c \in Creations /\ c.pc = "idle"
    BY <1>1 DEF Creations, NoCreation
  <1>4. /\ creation' \in [Client -> Creations] /\ creation'[k] = c
        /\ \A j \in Client \ {k} : creation'[j] = creation[j]
    BY <1>2, <1>3, RequestTypes DEF RequestInv
  <1>5. ChangeRequestTypeOK'
    BY <1>2, <1>4 DEF RequestInv, resolution, publication, ChangeRequestTypeOK, ChangeRequests, Creations
  <1>6. \A s : Open("minor", s)' = Open("minor", s)
    BY <1>2 DEF Open
  <1>7. \A j \in Client, s \in Task : Inserting(j, s)' => Inserting(j, s)
    BY <1>3, <1>4 DEF Inserting
  <1>8. Alone'
    BY <1>2, <1>6, <1>7 DEF RequestInv, Alone, AloneOn
  <1>9. QED
    BY <1>2, <1>5, <1>8, CreationStep

\* A formal request is created.
LEMMA CreateFormalStep ==
  ASSUME RequestInv, NEW r \in Request, CreateFormalChangeRequest(r)
  PROVE  RequestInv'
  <1>1. PICK x : x = Opened("formal", "none")
    OBVIOUS
  <1>2. /\ request[r] = NoRequest /\ request' = [request EXCEPT ![r] = x]
        /\ UNCHANGED <<creation, brief, resolution, overlapped>>
    BY <1>1 DEF CreateFormalChangeRequest
  <1>3. x \in ChangeRequests /\ x.type = "formal" /\ x.status = "open"
    BY <1>1 DEF Opened, ChangeRequests
  <1>4. /\ request' \in [Request -> {NoRequest} \cup ChangeRequests] /\ request'[r] = x
        /\ \A s \in Request \ {r} : request'[s] = request[s]
    BY <1>2, <1>3, RequestTypes DEF RequestInv
  <1>5. ChangeRequestTypeOK'
    BY <1>2, <1>4 DEF RequestInv, resolution, publication, ChangeRequestTypeOK, ChangeRequests, Creations
  <1>6. \A s \in Task, q \in Request : q \in Open("minor", s)' => q \in Open("minor", s)
    BY <1>3, <1>4 DEF Open
  <1>7. \A j \in Client, s \in Task : Inserting(j, s)' <=> Inserting(j, s)
    BY <1>2 DEF Inserting
  <1>8. Alone'
    BY <1>2, <1>6, <1>7 DEF RequestInv, Alone, AloneOn
  <1>9. \A s \in Request :
           \/ request'[s] = request[s]
           \/ request[s] = NoRequest /\ request'[s].type \in {"minor", "formal"} /\ request'[s].status = "open"
    BY <1>2, <1>3, <1>4
  <1>10. QED
    BY <1>2, <1>5, <1>8, <1>9, CreationStep

\* A brief is edited by hand.
LEMMA PatchStep ==
  ASSUME RequestInv, PatchBrief
  PROVE  RequestInv'
  <1> USE ChangeRequestAssumption
  <1>1. PICK b : b = [brief EXCEPT !.log = brief.log + 1]
    OBVIOUS
  <1>2. /\ begun < MaxBegun /\ begun' = begun + 1 /\ brief' = b
        /\ UNCHANGED <<request, creation, resolving, event, outbox, tick, told, approvals,
                       overlapped, reordered>>
    BY <1>1 DEF PatchBrief, publication
  <1>3. /\ brief \in Briefs /\ brief.log \in 0 .. MaxBegun /\ brief.log <= begun
        /\ begun \in 0 .. MaxBegun
    BY RequestTypes DEF RequestInv, AllCounted, Briefs
  <1>4. brief.log + 1 \in 0 .. MaxBegun /\ begun' \in 0 .. MaxBegun
    BY <1>2, <1>3
  <1>5. b \in Briefs /\ b.logOf = brief.logOf /\ b.log = brief.log + 1
    BY <1>1, <1>3, <1>4 DEF Briefs
  <1>6. ChangeRequestTypeOK'
    BY <1>2, <1>4, <1>5 DEF RequestInv, ChangeRequestTypeOK, Briefs
  <1>7. Alone'
    BY <1>2 DEF RequestInv, Alone, AloneOn, Inserting, Open
  <1>8. InResolution' = InResolution
    BY <1>2 DEF InResolution
  <1>9. AllCounted'
    <2>1. brief'.log <= begun'
      BY <1>2, <1>3, <1>5
    <2>2. ASSUME NEW r \in Request PROVE CountedFor(r)'
      <3>1. CountedFor(r) /\ approvals[r] \in Int /\ begun \in Int /\ Cardinality(InResolution) \in Nat
        BY RequestFields, InFlightCount DEF RequestInv, AllCounted
      <3>2. approvals[r] + Cardinality(InResolution) <= begun + 1
        BY <3>1 DEF CountedFor
      <3>3. QED
        BY <1>2, <1>5, <1>8, <3>1, <3>2 DEF CountedFor
    <2>3. QED
      BY <2>1, <2>2 DEF AllCounted
  <1>10. OnRequest'
    BY <1>2, <1>8 DEF RequestInv, OnRequest
  <1>11. Rows'
    <2>1. \A e \in Time : event[e] # NoEvent => e <= begun + 1
      BY <1>3 DEF RequestInv, Rows, Time
    <2>2. \A a \in InResolution : resolving[a].at <= begun + 1
      BY <1>3, RequestFields DEF RequestInv, Rows, InResolution
    <2>3. QED
      BY <1>2, <1>8, <2>1, <2>2 DEF RequestInv, Rows, Has
  <1>12. ASSUME NEW r \in Request, InOrder(r)' PROVE InTurn(r)'
    <2>1. InTurn(r)
      BY <1>2, <1>12, InOrderSame DEF RequestInv, AllInTurn
    <2>2. QED
      BY <1>2, <1>8, <2>1, InTurnSame
  <1>13. QED
    BY <1>6, <1>7, <1>9, <1>10, <1>11, <1>12 DEF RequestInv, AllInTurn

\* A step that leaves creations alone, and the type and task of every request: none is
\* opened.
LEMMA AloneKept ==
  ASSUME RequestInv, UNCHANGED <<creation, overlapped>>,
         \A r \in Request : /\ request'[r].type = request[r].type /\ request'[r].task = request[r].task
                            /\ request'[r].status = "open" => request[r].status = "open"
  PROVE  Alone'
  <1>1. \A s \in Task, q \in Request : q \in Open("minor", s)' => q \in Open("minor", s)
    BY DEF Open
  <1>2. \A j \in Client, s \in Task : Inserting(j, s)' <=> Inserting(j, s)
    BY DEF Inserting
  <1>3. QED
    BY <1>1, <1>2 DEF RequestInv, Alone, AloneOn

\* A resolution begins.
LEMMA BeginStep ==
  ASSUME RequestInv, NEW a \in Admin, NEW r \in Request, NEW status \in Verdict,
         BeginResolution(a, r, status)
  PROVE  RequestInv'
  <1> USE ChangeRequestAssumption
  <1>1. PICK x : x = [pc |-> "tx", r |-> r, status |-> status, at |-> begun + 1]
    OBVIOUS
  <1>2. /\ resolving[a] = NoResolving /\ request[r] # NoRequest
        /\ begun < MaxBegun /\ begun' = begun + 1
        /\ resolving' = [resolving EXCEPT ![a] = x]
        /\ reordered' = IF \E b \in Admin : resolving[b] # NoResolving /\ resolving[b].r = r
                        THEN reordered \cup {r} ELSE reordered
        /\ UNCHANGED <<request, creation, event, outbox, tick, told, brief, approvals, overlapped>>
    BY <1>1 DEF BeginResolution, publication
  <1>3. begun \in Int /\ begun + 1 \in 0 .. MaxBegun /\ begun + 1 \in Time
    BY <1>2, RequestFields DEF RequestInv, Time
  <1>4. x \in Resolutions /\ x.pc = "tx" /\ x.r = r /\ x.at = begun + 1
    BY <1>1, <1>3 DEF Resolutions
  <1>5. /\ resolving' \in [Admin -> {NoResolving} \cup Resolutions] /\ resolving'[a] = x
        /\ \A b \in Admin \ {a} : resolving'[b] = resolving[b]
    BY <1>2, <1>4, RequestTypes DEF RequestInv
  <1>6. ChangeRequestTypeOK'
    <2>1. reordered' \subseteq Request
      BY <1>2, RequestTypes DEF RequestInv
    <2>2. QED
      BY <1>2, <1>3, <1>5, <2>1 DEF RequestInv, ChangeRequestTypeOK, Resolutions
  <1>7. a \in Admin \ InResolution /\ InResolution' = InResolution \cup {a}
    <2>1. a \notin InResolution
      BY <1>2 DEF InResolution, NoResolving
    <2>2. InResolution' = InResolution \cup {a}
      BY <1>4, <1>5 DEF InResolution
    <2>3. QED
      BY <2>1, <2>2
  <1>8. Alone'
    BY <1>2, AloneKept
  <1>9. AllCounted'
    <2>1. ASSUME NEW s \in Request PROVE CountedFor(s)'
      <3>1. Cardinality(InResolution') = Cardinality(InResolution) + 1 /\ Cardinality(InResolution) \in Int
        BY <1>7, InFlightCount
      <3>2. CountedFor(s) /\ approvals[s] \in Int
        BY RequestFields DEF RequestInv, AllCounted
      <3>3. approvals[s] + Cardinality(InResolution') <= begun'
        BY <1>2, <1>3, <3>1, <3>2 DEF CountedFor
      <3>4. QED
        BY <1>2, <3>2, <3>3 DEF CountedFor
    <2>2. brief.log \in Int /\ brief.log <= begun
      BY RequestFields DEF RequestInv, AllCounted
    <2>3. brief'.log <= begun'
      BY <1>2, <1>3, <2>2
    <2>4. QED
      BY <2>1, <2>3 DEF AllCounted
  <1>10. OnRequest'
    <2>1. request[r].type \in {"minor", "formal"}
      BY <1>2, RequestFields DEF RequestInv
    <2>2. \A b \in InResolution : resolving'[b] = resolving[b]
      BY <1>5, <1>7 DEF InResolution
    <2>3. QED
      BY <1>2, <1>4, <1>5, <1>7, <2>1, <2>2 DEF RequestInv, OnRequest
  <1>11. \A e \in Time : event[e] # NoEvent => e <= begun /\ e \in Int
    BY DEF RequestInv, Rows, Time
  <1>12. \A b \in InResolution : /\ resolving'[b] = resolving[b] /\ resolving[b].at \in Int
                                 /\ resolving[b].at <= begun
    BY <1>5, <1>7, RequestFields DEF RequestInv, Rows, InResolution
  <1>13. Rows'
    <2>1. event[begun + 1] = NoEvent
      BY <1>3, <1>11
    <2>2. ASSUME NEW b \in InResolution'
          PROVE  /\ resolving'[b].at <= begun' /\ event[resolving'[b].at] = NoEvent
                 /\ \A c \in InResolution' : resolving'[c].at = resolving'[b].at => b = c
      <3>1. CASE b = a
        <4>1. \A c \in InResolution : resolving'[c].at # begun + 1
          BY <1>3, <1>12
        <4>2. QED
          BY <1>2, <1>3, <1>4, <1>5, <1>7, <2>1, <3>1, <4>1
      <3>2. CASE b # a
        <4>1. b \in InResolution /\ resolving'[b].at = resolving[b].at /\ resolving[b].at # begun + 1
          BY <1>3, <1>7, <1>12, <2>2, <3>2
        <4>2. resolving[b].at <= begun + 1
          BY <1>3, <1>12, <4>1
        <4>3. QED
          BY <1>2, <1>4, <1>5, <1>7, <1>12, <3>2, <4>1, <4>2 DEF RequestInv, Rows
      <3>3. QED
        BY <3>1, <3>2
    <2>3. \A e \in Time : event[e] # NoEvent => e <= begun + 1
      BY <1>3, <1>11
    <2>4. QED
      BY <1>2, <2>2, <2>3 DEF RequestInv, Rows, Has
  <1>14. ASSUME NEW s \in Request, InOrder(s)' PROVE InTurn(s)'
    <2>1. InTurn(s)
      BY <1>2, <1>14, InOrderSame DEF RequestInv, AllInTurn
    <2>2. CASE s # r
      <3>1. \A b \in InResolution' : resolving'[b].r = s => b \in InResolution /\ resolving'[b] = resolving[b]
        BY <1>4, <1>5, <1>7, <2>2 DEF InResolution
      <3>2. QED
        BY <1>2, <2>1, <3>1, InTurnSame
    <2>3. CASE s = r
      <3>1. \A b \in InResolution' : resolving'[b].r = s => b = a
        <4>1. \A b \in Admin : ~ (resolving[b] # NoResolving /\ resolving[b].r = r)
          BY <1>2, <1>14, <2>3 DEF InOrder
        <4>2. \A b \in InResolution : b \in Admin /\ b # a /\ resolving[b] # NoResolving
          BY <1>7 DEF InResolution, NoResolving
        <4>3. QED
          BY <1>5, <1>7, <2>3, <4>1, <4>2
      <3>2. \A e \in EventsOf(s) : e < begun + 1
        BY <1>3, <1>11 DEF EventsOf
      <3>3. OneInFlight(s)'
        <4>1. EventsOf(s)' = EventsOf(s)
          BY <1>2 DEF EventsOf
        <4>2. QED
          BY <1>4, <1>5, <3>1, <3>2, <4>1 DEF OneInFlight
      <3>4. Queued(s)' /\ UpToDate(s)'
        BY <1>2, <2>1 DEF InTurn, Queued, UpToDate, EventsOf, Waits
      <3>5. QED
        BY <3>3, <3>4 DEF InTurn
    <2>4. QED
      BY <2>2, <2>3
  <1>15. QED
    BY <1>6, <1>8, <1>9, <1>10, <1>13, <1>14 DEF RequestInv, AllInTurn

\* It ends, by a commit or not: who is in flight then.
LEMMA ResolverEnds ==
  ASSUME RequestInv, NEW a \in Admin, resolving[a] # NoResolving,
         resolving' = [resolving EXCEPT ![a] = NoResolving]
  PROVE  /\ a \in InResolution /\ InResolution' = InResolution \ {a}
         /\ resolving' \in [Admin -> {NoResolving} \cup Resolutions]
         /\ \A b \in InResolution' : b \in InResolution /\ b # a /\ resolving'[b] = resolving[b]
         /\ Cardinality(InResolution') = Cardinality(InResolution) - 1
         /\ Cardinality(InResolution) \in Int
  <1>1. a \in InResolution
    BY RequestFields DEF RequestInv, InResolution
  <1>2. NoResolving.pc = "idle"
    BY DEF NoResolving
  <1>3. /\ resolving' \in [Admin -> {NoResolving} \cup Resolutions] /\ resolving'[a] = NoResolving
        /\ \A b \in Admin \ {a} : resolving'[b] = resolving[b]
    BY RequestTypes DEF RequestInv
  <1>4. InResolution' = InResolution \ {a}
    BY <1>2, <1>3 DEF InResolution
  <1>5. \A b \in InResolution' : b \in InResolution /\ b # a /\ resolving'[b] = resolving[b]
    BY <1>3, <1>4 DEF InResolution
  <1>6. QED
    BY <1>1, <1>3, <1>4, <1>5, InFlightCount

\* A resolution fails.
LEMMA ResolutionFailsStep ==
  ASSUME RequestInv, NEW a \in Admin, ResolutionFails(a)
  PROVE  RequestInv'
  <1>1. /\ resolving[a] # NoResolving /\ resolving' = [resolving EXCEPT ![a] = NoResolving]
        /\ UNCHANGED <<request, creation, begun, event, outbox, tick, told, brief, approvals,
                       overlapped, reordered>>
    BY DEF ResolutionFails, publication
  <1>2. /\ InResolution' = InResolution \ {a}
        /\ resolving' \in [Admin -> {NoResolving} \cup Resolutions]
        /\ \A b \in InResolution' : b \in InResolution /\ b # a /\ resolving'[b] = resolving[b]
        /\ Cardinality(InResolution') = Cardinality(InResolution) - 1
        /\ Cardinality(InResolution) \in Int
    BY <1>1, ResolverEnds
  <1>3. ChangeRequestTypeOK'
    BY <1>1, <1>2 DEF RequestInv, ChangeRequestTypeOK, Resolutions
  <1>4. Alone'
    BY <1>1, AloneKept
  <1>5. ASSUME NEW s \in Request PROVE CountedFor(s)'
    <2>1. CountedFor(s) /\ approvals[s] \in Int /\ begun \in Int
      BY RequestFields DEF RequestInv, AllCounted
    <2>2. approvals[s] + Cardinality(InResolution') <= begun
      BY <1>2, <2>1 DEF CountedFor
    <2>3. QED
      BY <1>1, <2>1, <2>2 DEF CountedFor
  <1>6. AllCounted' /\ OnRequest' /\ Rows'
    BY <1>1, <1>2, <1>5 DEF RequestInv, AllCounted, OnRequest, Rows, Has
  <1>7. ASSUME NEW s \in Request, InOrder(s)' PROVE InTurn(s)'
    BY <1>1, <1>2, <1>7, InOrderSame, InTurnSame DEF RequestInv, AllInTurn
  <1>8. QED
    BY <1>3, <1>4, <1>6, <1>7 DEF RequestInv, AllInTurn

\* The events on r once one more is written, by the only resolution of r in flight.
LEMMA InTurnResolved ==
  ASSUME NEW r, InTurn(r), NEW a \in InResolution, resolving[a].r = r, NEW e \in Time,
         e = resolving[a].at, event'[e] # NoEvent, event'[e].r = r, event'[e].status = request'[r].status,
         outbox'[e].st = "due", \A q \in Tick : ~ Has(q, e),
         \A f \in Time \ {e} : event'[f] = event[f] /\ outbox'[f] = outbox[f],
         UNCHANGED <<tick, told>>,
         \A b \in InResolution' : b \in InResolution /\ b # a /\ resolving'[b] = resolving[b]
  PROVE  InTurn(r)'
  <1>1. \A f : f \in EventsOf(r)' <=> f \in EventsOf(r) \/ f = e
    BY DEF EventsOf
  <1>2. /\ \A f \in EventsOf(r) : f < e /\ f \in Int /\ f # e /\ e \in Int
        /\ \A f \in EventsOf(r) : event'[f] = event[f] /\ outbox'[f] = outbox[f]
    BY DEF InTurn, OneInFlight, EventsOf, Time
  <1>3. Waits(e)' /\ \A f \in EventsOf(r) : Waits(f)' <=> Waits(f)
    BY <1>2 DEF Waits
  <1>4. \A q \in Tick : e \notin tick[q].batch /\ e \notin tick[q].sent /\ e \notin tick[q].refused
    BY DEF Has
  <1>5. Queued(r)'
    <2>1. /\ \A f \in EventsOf(r)' : outbox'[f].st \in {"due", "claimed", "published"}
          /\ \A f \in EventsOf(r)', q \in Tick :
               /\ f \notin tick'[q].refused
               /\ f \in tick'[q].batch \cup tick'[q].sent => outbox'[f] = [st |-> "claimed", by |-> q]
      BY <1>1, <1>2, <1>4 DEF InTurn, Queued
    <2>2. \A f, g \in EventsOf(r)' :
            f < g => (outbox'[f].st = "due" => outbox'[g].st = "due") /\ (Waits(f)' => Waits(g)')
      <3>1. ASSUME NEW f \in EventsOf(r)', NEW g \in EventsOf(r)', f < g
            PROVE  (outbox'[f].st = "due" => outbox'[g].st = "due") /\ (Waits(f)' => Waits(g)')
        <4>1. CASE g = e
          BY <1>3, <4>1
        <4>2. CASE g # e
          <5>1. g \in EventsOf(r) /\ f \in EventsOf(r)
            BY <1>1, <1>2, <3>1, <4>2
          <5>2. QED
            BY <1>2, <1>3, <3>1, <5>1 DEF InTurn, Queued
        <4>3. QED
          BY <4>1, <4>2
      <3>2. QED
        BY <3>1
    <2>3. \A f, g \in EventsOf(r)', p, q \in Tick :
            f \in tick'[p].batch /\ g \in tick'[q].batch => p = q
      BY <1>1, <1>4 DEF InTurn, Queued
    <2>4. QED
      BY <2>1, <2>2, <2>3 DEF Queued
  <1>6. OneInFlight(r)'
    BY DEF InTurn, OneInFlight
  <1>7. UpToDate(r)'
    <2>1. \A f \in EventsOf(r)' : f <= e
      BY <1>1, <1>2 DEF Time
    <2>2. ASSUME NEW f \in EventsOf(r)', ~ Waits(f)', \A g \in EventsOf(r)' : f < g => Waits(g)'
          PROVE  told'[r] = event'[f].status
      <3>1. f \in EventsOf(r)
        BY <1>1, <1>3, <2>2
      <3>2. \A g \in EventsOf(r) : f < g => Waits(g)
        BY <1>1, <1>3, <2>2
      <3>3. QED
        BY <1>2, <1>3, <2>2, <3>1, <3>2 DEF InTurn, UpToDate
    <2>3. QED
      BY <1>1, <2>1, <2>2 DEF UpToDate
  <1>8. QED
    BY <1>5, <1>6, <1>7 DEF InTurn

\* A resolution commits.
LEMMA ResolveStep ==
  ASSUME RequestInv, NEW a \in Admin, ResolveChangeRequest(a)
  PROVE  RequestInv'
  <1> USE ChangeRequestAssumption
  <1>1. resolving[a] # NoResolving /\ resolving' = [resolving EXCEPT ![a] = NoResolving]
    BY DEF ResolveChangeRequest
  <1>2. /\ a \in InResolution /\ InResolution' = InResolution \ {a}
        /\ resolving' \in [Admin -> {NoResolving} \cup Resolutions]
        /\ \A b \in InResolution' : b \in InResolution /\ b # a /\ resolving'[b] = resolving[b]
        /\ Cardinality(InResolution') = Cardinality(InResolution) - 1
        /\ Cardinality(InResolution) \in Int
    BY <1>1, ResolverEnds
  <1>3. PICK r \in Request, status \in Resolution, e \in Time :
          r = resolving[a].r /\ status = resolving[a].status /\ e = resolving[a].at
    BY <1>2, RequestFields DEF RequestInv, InResolution
  <1>4. request[r].type \in {"minor", "formal"} /\ request[r] \in ChangeRequests
    BY <1>2, <1>3, RequestFields DEF RequestInv, OnRequest
  <1>5. PICK x, n, b, o : /\ x = [request[r] EXCEPT !.status = status]
                          /\ n = [r |-> r, status |-> status]
                          /\ b = [brief EXCEPT !.logOf[r] = brief.logOf[r] + 1]
                          /\ o = Unclaimed("due")
    OBVIOUS
  <1>6. /\ request' = [request EXCEPT ![r] = x]
        /\ brief' = IF Logs(r, status) THEN b ELSE brief
        /\ approvals' = [approvals EXCEPT ![r] = IF status = "approved" THEN approvals[r] + 1 ELSE approvals[r]]
        /\ UNCHANGED <<creation, begun, tick, told, overlapped, reordered>>
    BY <1>3, <1>5 DEF ResolveChangeRequest, Resolved, Logged
  <1>a. IF status \in Announced(request[r].type)
        THEN event' = [event EXCEPT ![e] = n] /\ outbox' = [outbox EXCEPT ![e] = o]
        ELSE UNCHANGED <<event, outbox>>
    BY <1>3, <1>5 DEF ResolveChangeRequest, Emitted
  <1>7. /\ x \in ChangeRequests /\ x.status = status
        /\ x.type = request[r].type /\ x.task = request[r].task
    BY <1>4, <1>5 DEF ChangeRequests
  <1>8. /\ n \in RequestEvents /\ n.r = r /\ n.status = status /\ n # NoEvent
        /\ o \in OutboxRows /\ o.st = "due"
    BY <1>5 DEF RequestEvents, NoEvent, Resolution, Unclaimed, OutboxRows
  <1>9. /\ request' \in [Request -> {NoRequest} \cup ChangeRequests] /\ request'[r] = x
        /\ \A s \in Request \ {r} : request'[s] = request[s]
    BY <1>6, <1>7, RequestTypes DEF RequestInv
  <1>b. /\ event' \in [Time -> {NoEvent} \cup RequestEvents] /\ outbox' \in [Time -> OutboxRows]
        /\ \A f \in Time \ {e} : event'[f] = event[f] /\ outbox'[f] = outbox[f]
        /\ status \in Announced(request[r].type) => event'[e] = n /\ outbox'[e] = o
        /\ status \notin Announced(request[r].type) => event' = event /\ outbox' = outbox
    BY <1>a, <1>8, RequestTypes DEF RequestInv
  <1>c. /\ event[e] = NoEvent /\ outbox[e].st = "none" /\ e <= begun
        /\ \A q \in Tick : ~ Has(q, e)
        /\ \A c \in InResolution' : resolving[c].at # e
    BY <1>2, <1>3 DEF RequestInv, Rows
  <1>10. /\ approvals[r] \in Int /\ approvals[r] >= 0 /\ approvals[r] + 1 <= MaxBegun
         /\ brief.logOf[r] \in Int /\ brief.logOf[r] >= 0 /\ brief.logOf[r] <= approvals[r]
         /\ brief \in Briefs
    <2>1. /\ approvals[r] \in Int /\ approvals[r] >= 0 /\ brief.logOf[r] \in Int /\ brief.logOf[r] >= 0
          /\ begun \in Int /\ begun <= MaxBegun /\ brief \in Briefs
      BY RequestFields, RequestTypes DEF RequestInv
    <2>2. /\ approvals[r] + Cardinality(InResolution) <= begun /\ Cardinality(InResolution) >= 1
          /\ brief.logOf[r] <= approvals[r]
      BY <1>2, InFlightCount DEF RequestInv, AllCounted, CountedFor
    <2>3. QED
      BY <1>2, <2>1, <2>2
  <1>11. /\ approvals' \in [Request -> 0 .. MaxBegun]
         /\ approvals'[r] = IF status = "approved" THEN approvals[r] + 1 ELSE approvals[r]
         /\ \A s \in Request \ {r} : approvals'[s] = approvals[s]
    <2>1. approvals \in [Request -> 0 .. MaxBegun]
      BY RequestTypes DEF RequestInv
    <2>2. (IF status = "approved" THEN approvals[r] + 1 ELSE approvals[r]) \in 0 .. MaxBegun
      BY <1>10
    <2>3. QED
      BY <1>6, <2>1, <2>2
  <1>12. /\ b \in Briefs /\ b.log = brief.log
         /\ b.logOf[r] = brief.logOf[r] + 1 /\ \A s \in Request \ {r} : b.logOf[s] = brief.logOf[s]
    <2>1. PICK L : L = [brief.logOf EXCEPT ![r] = brief.logOf[r] + 1]
      OBVIOUS
    <2>2. brief.logOf[r] + 1 \in 0 .. MaxBegun
      BY <1>10
    <2>3. brief.logOf \in [Request -> 0 .. MaxBegun]
      BY <1>10 DEF Briefs
    <2>4. /\ L \in [Request -> 0 .. MaxBegun] /\ L[r] = brief.logOf[r] + 1
          /\ \A s \in Request \ {r} : L[s] = brief.logOf[s]
      BY <2>1, <2>2, <2>3
    <2>5. b = [brief EXCEPT !.logOf = L]
      BY <1>5, <2>1
    <2>6. QED
      BY <1>10, <2>4, <2>5 DEF Briefs
  <1>13. brief' \in Briefs /\ brief'.log = brief.log
    BY <1>6, <1>10, <1>12
  <1>14. ChangeRequestTypeOK'
    BY <1>2, <1>6, <1>9, <1>11, <1>13, <1>b
       DEF RequestInv, ChangeRequestTypeOK, Resolutions, ChangeRequests, RequestEvents, Briefs, OutboxRows
  <1>15. Alone'
    <2>1. status # "open"
      BY DEF Resolution
    <2>2. QED
      BY <1>6, <1>7, <1>9, <2>1, AloneKept
  <1>16. ASSUME NEW s \in Request PROVE CountedFor(s)'
    <2>1. CountedFor(s) /\ approvals[s] \in Int /\ brief.logOf[s] \in Int /\ begun \in Int
      BY RequestFields DEF RequestInv, AllCounted
    <2>2. CASE s # r
      <3>1. /\ approvals'[s] = approvals[s] /\ request'[s] = request[s]
            /\ brief'.logOf[s] = brief.logOf[s]
        BY <1>6, <1>9, <1>11, <1>12, <2>2
      <3>2. approvals[s] + Cardinality(InResolution') <= begun
        BY <1>2, <2>1 DEF CountedFor
      <3>3. QED
        BY <1>6, <2>1, <3>1, <3>2 DEF CountedFor
    <2>3. CASE s = r
      <3>1. approvals'[s] \in {approvals[s], approvals[s] + 1}
        BY <1>11, <2>3
      <3>2. approvals'[s] + Cardinality(InResolution') <= begun
        BY <1>2, <2>1, <3>1 DEF CountedFor
      <3>3. request'[s].type = request[s].type /\ request'[s].type \in {"minor", "formal"}
        BY <1>4, <1>7, <1>9, <2>3
      <3>4. brief'.logOf[s] = IF request[s].type = "formal" /\ status = "approved"
                              THEN brief.logOf[s] + 1 ELSE brief.logOf[s]
        BY <1>6, <1>12, <2>3 DEF Logs
      <3>5. /\ brief'.logOf[s] <= approvals'[s]
            /\ request[s].type = "formal" => brief'.logOf[s] = approvals'[s]
        BY <1>11, <2>1, <2>3, <3>4 DEF CountedFor
      <3>6. QED
        BY <1>6, <3>2, <3>3, <3>5 DEF CountedFor
    <2>4. QED
      BY <2>2, <2>3
  <1>17. OnRequest'
    <2>1. ASSUME NEW c \in InResolution' PROVE request'[resolving'[c].r].type \in {"minor", "formal"}
      <3>1. /\ resolving'[c].r \in Request /\ resolving'[c].r = resolving[c].r
            /\ request[resolving'[c].r].type \in {"minor", "formal"}
        BY <1>2, RequestFields DEF RequestInv, OnRequest, InResolution
      <3>2. QED
        BY <1>7, <1>9, <3>1
    <2>2. QED
      BY <2>1 DEF OnRequest
  <1>18. Rows'
    <2>1. \A f \in Time : event'[f] = NoEvent <=> outbox'[f].st = "none"
      BY <1>8, <1>b, <1>c DEF RequestInv, Rows
    <2>2. \A f \in Time : event'[f] # NoEvent => f <= begun
      BY <1>b, <1>c DEF RequestInv, Rows
    <2>3. \A f \in Time, q \in Tick : Has(q, f)' => event'[f] # NoEvent
      BY <1>6, <1>b, <1>c DEF RequestInv, Rows, Has
    <2>4. ASSUME NEW c \in InResolution'
          PROVE  resolving'[c].at <= begun /\ event'[resolving'[c].at] = NoEvent
      <3>1. c \in InResolution /\ resolving'[c] = resolving[c] /\ resolving[c].at \in Time \ {e}
        BY <1>2, <1>c, <2>4, RequestFields DEF RequestInv, InResolution
      <3>2. QED
        BY <1>b, <3>1 DEF RequestInv, Rows
    <2>5. \A c, d \in InResolution' : resolving'[d].at = resolving'[c].at => c = d
      BY <1>2 DEF RequestInv, Rows
    <2>6. QED
      BY <1>6, <2>1, <2>2, <2>3, <2>4, <2>5 DEF Rows
  <1>19. ASSUME NEW s \in Request, InOrder(s)' PROVE InTurn(s)'
    <2>1. /\ \A f \in EventsOf(s) : /\ f \in Time \ {e} /\ f \in EventsOf(s)'
                                    /\ event'[f] = event[f] /\ outbox'[f] = outbox[f]
          /\ \A f \in EventsOf(s)' :
               f \in EventsOf(s) \/ (f = e /\ s = r /\ status \in Announced(request[r].type))
      BY <1>8, <1>b, <1>c DEF EventsOf
    <2>2. InOrder(s)
      BY <1>6, <1>19, <2>1 DEF InOrder, Orphan, Has
    <2>3. InTurn(s)
      BY <2>2 DEF RequestInv, AllInTurn
    <2>4. CASE s = r /\ status \in Announced(request[r].type)
      <3>1. event'[e] # NoEvent /\ event'[e].r = s /\ event'[e].status = request'[s].status /\ outbox'[e].st = "due"
        BY <1>7, <1>8, <1>9, <1>b, <2>4
      <3>2. resolving[a].r = s /\ e = resolving[a].at
        BY <1>3, <2>4
      <3>3. QED
        BY <1>2, <1>6, <1>b, <1>c, <2>3, <3>1, <3>2, InTurnResolved
    <2>5. CASE ~ (s = r /\ status \in Announced(request[r].type))
      <3>1. \A f : f \in EventsOf(s)' <=> f \in EventsOf(s)
        BY <2>1, <2>5
      <3>2. \A f \in EventsOf(s) :
              /\ outbox'[f].st \in {"due", "claimed", "published"}
              /\ \A q \in Tick :
                   /\ f \notin tick'[q].refused
                   /\ f \in tick'[q].batch \cup tick'[q].sent => outbox'[f] = [st |-> "claimed", by |-> q]
        BY <1>6, <2>1, <2>3 DEF InTurn, Queued
      <3>3. \/ request'[s].type = request[s].type /\ request'[s].status = request[s].status
            \/ request'[s].status \notin Announced(request'[s].type)
        BY <1>7, <1>9, <2>5
      <3>4. QED
        BY <1>2, <1>6, <2>1, <2>3, <3>1, <3>2, <3>3, InTurnKept
    <2>6. QED
      BY <2>4, <2>5
  <1>20. AllCounted'
    <2>1. brief'.log <= begun'
      BY <1>6, <1>13 DEF RequestInv, AllCounted
    <2>2. QED
      BY <1>16, <2>1 DEF AllCounted
  <1>21. QED
    BY <1>14, <1>15, <1>17, <1>18, <1>19, <1>20 DEF RequestInv, AllInTurn

\* A step of the outbox: it leaves events as they are, knows of no others, and a claim
\* that is forgotten stays forgotten until it has run out.
LEMMA OutboxStep ==
  ASSUME RequestInv, UNCHANGED <<beforehand, event>>,
         outbox' \in [Time -> OutboxRows], tick' \in [Tick -> Ticks],
         told' \in [Request -> {"none"} \cup Resolution],
         reordered \subseteq reordered', reordered' \subseteq Request,
         \A e \in Time : outbox'[e].st = "none" <=> outbox[e].st = "none",
         \A e \in Time, q \in Tick : Has(q, e)' => event[e] # NoEvent,
         \A e \in Time : Orphan(e) => Orphan(e)' \/ event[e].r \in reordered',
         \A r \in Request : InTurn(r) /\ InOrder(r)' => InTurn(r)'
  PROVE  RequestInv'
  <1>1. UNCHANGED <<request, creation, resolving, begun, brief, approvals, overlapped>>
    BY DEF beforehand
  <1>2. ChangeRequestTypeOK'
    BY <1>1 DEF RequestInv, ChangeRequestTypeOK, OutboxRows, Ticks
  <1>3. Alone'
    BY <1>1, AloneKept
  <1>4. InResolution' = InResolution
    BY <1>1 DEF InResolution
  <1>5. AllCounted' /\ OnRequest'
    BY <1>1, <1>4 DEF RequestInv, AllCounted, CountedFor, OnRequest
  <1>6. Rows'
    BY <1>1, <1>4 DEF RequestInv, Rows
  <1>7. ASSUME NEW r \in Request, InOrder(r)' PROVE InTurn(r)'
    <2>1. EventsOf(r)' = EventsOf(r)
      BY DEF EventsOf
    <2>2. \A e \in EventsOf(r) : ~ Orphan(e)
      BY <1>7, <2>1 DEF InOrder, EventsOf
    <2>3. InOrder(r)
      BY <1>7, <2>2 DEF InOrder
    <2>4. QED
      BY <1>7, <2>3 DEF RequestInv, AllInTurn
  <1>8. QED
    BY <1>2, <1>3, <1>5, <1>6, <1>7 DEF RequestInv, AllInTurn

\* Its steps change nothing before the outbox.
LEMMA BeforeOutbox ==
  ASSUME UNCHANGED <<beforehand, event>>
  PROVE  /\ UNCHANGED <<request, resolving>> /\ InResolution' = InResolution
         /\ \A r : EventsOf(r)' = EventsOf(r)
  BY DEF beforehand, InResolution, EventsOf

\* Events the step does not touch are in turn after it.
LEMMA InTurnUntouched ==
  ASSUME NEW r, InTurn(r), UNCHANGED <<beforehand, event>>, told'[r] = told[r],
         \A e \in EventsOf(r) :
           /\ outbox'[e] = outbox[e]
           /\ \A q \in Tick : /\ e \in tick'[q].batch <=> e \in tick[q].batch
                              /\ e \in tick'[q].sent => e \in tick[q].sent
                              /\ e \in tick'[q].refused => e \in tick[q].refused
  PROVE  InTurn(r)'
  <1>1. \A e \in EventsOf(r) :
           /\ event'[e] = event[e] /\ outbox'[e].st \in {"due", "claimed", "published"}
           /\ \A q \in Tick :
                /\ e \notin tick'[q].refused
                /\ e \in tick'[q].batch \cup tick'[q].sent => outbox'[e] = [st |-> "claimed", by |-> q]
    BY DEF InTurn, Queued
  <1>2. QED
    BY <1>1, BeforeOutbox, InTurnKept

\* Of what a claim takes, it takes the oldest.
LEMMA OldestFirst ==
  ASSUME NEW S \in SUBSET Time, NEW e \in S, NEW f \in OldestOf(S), e < f
  PROVE  e \in OldestOf(S)
  <1> USE ChangeRequestAssumption
  <1>1. PICK A, B : A = {g \in S : g < e} /\ B = {g \in S : g < f}
    OBVIOUS
  <1>a. f \in Time /\ e \in Time
    BY DEF OldestOf
  <1>2. A \subseteq B /\ B \subseteq Time
    <2>1. \A g \in Time : g < e => g < f
      BY <1>a DEF Time
    <2>2. QED
      BY <1>1, <2>1
  <1>3. IsFiniteSet(Time)
    BY FS_Interval DEF Time
  <1>4. IsFiniteSet(B)
    BY <1>2, <1>3, FS_Subset
  <1>5. IsFiniteSet(A) /\ Cardinality(A) <= Cardinality(B)
    BY <1>2, <1>4, FS_Subset
  <1>6. Cardinality(A) \in Nat /\ Cardinality(B) \in Nat
    BY <1>4, <1>5, FS_CardinalityType
  <1>7. Cardinality(B) < PublishBatch
    BY <1>1 DEF OldestOf
  <1>8. Cardinality(A) < PublishBatch
    BY <1>5, <1>6, <1>7
  <1>9. QED
    BY <1>1, <1>8 DEF OldestOf

\* The events of a request that a claim has not passed over are in turn after it.
LEMMA InTurnClaimed ==
  ASSUME ChangeRequestTypeOK, NEW r, InTurn(r), UNCHANGED <<beforehand, event, told>>,
         NEW p \in Tick, NEW skip \in SUBSET Due, NEW S, S = OldestOf(Due \ skip), r \notin Passed(S, skip),
         r \in Request, tick[p] = IdleTick,
         tick' \in [Tick -> Ticks], tick'[p].batch = S, tick'[p].sent = {}, tick'[p].refused = {},
         \A q \in Tick \ {p} : tick'[q] = tick[q],
         \A e \in S : outbox'[e] = [st |-> "claimed", by |-> p],
         \A e \in Time \ S : outbox'[e] = outbox[e]
  PROVE  InTurn(r)'
  <1>1. S \subseteq Due /\ S \cap skip = {} /\ Due \subseteq Time
    BY DEF OldestOf, Due
  <1>2. /\ EventsOf(r)' = EventsOf(r) /\ UNCHANGED <<request, resolving>> /\ InResolution' = InResolution
        /\ EventsOf(r) \subseteq Time /\ \A e \in EventsOf(r) : event[e].r = r
    BY BeforeOutbox DEF EventsOf
  <1>3. tick[p].batch = {} /\ tick[p].sent = {} /\ tick[p].refused = {}
    BY DEF IdleTick
  <1>4. \A e \in EventsOf(r) : e \in S => outbox[e].st = "due"
    BY <1>1 DEF InTurn, Queued, Due
  <1>a. \A e \in EventsOf(r), q \in Tick :
          e \in tick[q].batch \cup tick[q].sent => outbox[e] = [st |-> "claimed", by |-> q]
    BY DEF InTurn, Queued
  <1>b. \A e \in Time, q \in Tick : outbox[e] = [st |-> "claimed", by |-> q] => outbox[e].st = "claimed"
    OBVIOUS
  <1>5. \A e \in EventsOf(r), q \in Tick : e \in S => e \notin tick[q].batch \cup tick[q].sent
    BY <1>2, <1>4, <1>a, <1>b
  <1>c. \A e \in EventsOf(r) : /\ e \in S => outbox'[e].st = "claimed"
                               /\ e \notin S => outbox'[e] = outbox[e]
    <2>1. PICK x : x = [st |-> "claimed", by |-> p] /\ x.st = "claimed"
      OBVIOUS
    <2>2. \A e \in S : outbox'[e] = x
      BY <2>1
    <2>3. QED
      BY <1>2, <2>1, <2>2
  <1>6. \A e, f \in EventsOf(r) : e < f /\ f \in S => e \notin skip /\ \A q \in Tick : e \notin tick[q].batch
    BY <1>2 DEF Passed
  <1>7. \A e \in EventsOf(r) : Waits(e)' <=> Waits(e)
    <2>1. ASSUME NEW e \in EventsOf(r), e \in S PROVE Waits(e)' /\ Waits(e)
      BY <1>4, <2>1 DEF Waits
    <2>2. ASSUME NEW e \in EventsOf(r), e \notin S PROVE Waits(e)' <=> Waits(e)
      <3>1. outbox'[e] = outbox[e]
        BY <1>2, <2>2
      <3>2. \A q \in Tick : e \in tick'[q].batch <=> e \in tick[q].batch
        BY <1>3, <2>2
      <3>3. QED
        BY <3>1, <3>2 DEF Waits
    <2>3. QED
      BY <2>1, <2>2
  <1>8. Queued(r)'
    <2>1. \A e \in EventsOf(r) : outbox'[e].st \in {"due", "claimed", "published"}
      BY <1>c DEF InTurn, Queued
    <2>2. ASSUME NEW e \in EventsOf(r), NEW q \in Tick
          PROVE  /\ e \notin tick'[q].refused
                 /\ e \in tick'[q].batch \cup tick'[q].sent => outbox'[e] = [st |-> "claimed", by |-> q]
      <3>1. CASE q = p
        BY <3>1
      <3>2. CASE q # p
        <4>1. tick'[q] = tick[q] /\ e \notin tick[q].refused
          BY <3>2 DEF InTurn, Queued
        <4>2. ASSUME e \in tick[q].batch \cup tick[q].sent PROVE outbox'[e] = [st |-> "claimed", by |-> q]
          <5>1. e \notin S /\ outbox[e] = [st |-> "claimed", by |-> q]
            BY <1>5, <4>2 DEF InTurn, Queued
          <5>2. QED
            BY <1>2, <5>1
        <4>3. QED
          BY <4>1, <4>2
      <3>3. QED
        BY <3>1, <3>2
    <2>3. ASSUME NEW e \in EventsOf(r), NEW f \in EventsOf(r), e < f, outbox'[e].st = "due"
          PROVE  outbox'[f].st = "due"
      <3>1. e \notin S /\ outbox[e].st = "due"
        BY <1>c, <2>3
      <3>2. outbox[f].st = "due"
        BY <2>3, <3>1 DEF InTurn, Queued
      <3>3. ASSUME f \in S PROVE FALSE
        <4>1. e \in Due \ skip /\ Due \ skip \in SUBSET Time
          BY <1>1, <1>2, <1>6, <2>3, <3>1, <3>3 DEF Due
        <4>2. e \in S
          BY <2>3, <3>3, <4>1, OldestFirst
        <4>3. QED
          BY <3>1, <4>2
      <3>4. QED
        BY <1>2, <3>2, <3>3
    <2>4. \A e, f \in EventsOf(r) : e < f => (Waits(e)' => Waits(f)')
      BY <1>7 DEF InTurn, Queued
    <2>5. ASSUME NEW e \in EventsOf(r), NEW f \in EventsOf(r), NEW q \in Tick \ {p},
                 e \in S, f \in tick[q].batch
          PROVE  FALSE
      <3>1. outbox[f].st = "claimed" /\ outbox[e].st = "due" /\ e # f
        BY <1>2, <1>4, <1>a, <1>b, <2>5
      <3>2. e < f \/ f < e
        BY <1>2, <3>1 DEF Time
      <3>3. ~ e < f
        BY <3>1 DEF InTurn, Queued
      <3>4. ~ f < e
        BY <1>6, <2>5
      <3>5. QED
        BY <3>2, <3>3, <3>4
    <2>6. ASSUME NEW e \in EventsOf(r), NEW f \in EventsOf(r), NEW t \in Tick, NEW q \in Tick,
                 e \in tick'[t].batch, f \in tick'[q].batch
          PROVE  t = q
      <3>1. CASE t # p /\ q # p
        <4>1. e \in tick[t].batch /\ f \in tick[q].batch
          BY <2>6, <3>1
        <4>2. QED
          BY <4>1 DEF InTurn, Queued
      <3>2. CASE t = p /\ q # p
        <4>1. e \in S /\ q \in Tick \ {p} /\ f \in tick[q].batch
          BY <2>6, <3>2
        <4>2. QED
          BY <2>5, <4>1
      <3>3. CASE t # p /\ q = p
        <4>1. f \in S /\ t \in Tick \ {p} /\ e \in tick[t].batch
          BY <2>6, <3>3
        <4>2. QED
          BY <2>5, <4>1
      <3>4. QED
        BY <3>1, <3>2, <3>3
    <2>7. QED
      BY <1>2, <2>1, <2>2, <2>3, <2>4, <2>6 DEF Queued
  <1>9. OneInFlight(r)'
    BY <1>2 DEF InTurn, OneInFlight
  <1>10. UpToDate(r)'
    BY <1>2, <1>7 DEF InTurn, UpToDate, Announced
  <1>11. QED
    BY <1>8, <1>9, <1>10 DEF InTurn

\* A tick claims rows.
LEMMA ClaimStep ==
  ASSUME RequestInv, NEW p \in Tick, NEW skip \in SUBSET Due, ClaimEvents(p, skip)
  PROVE  RequestInv'
  <1>1. PICK S : S = OldestOf(Due \ skip)
    OBVIOUS
  <1>2. PICK x, t : x = [st |-> "claimed", by |-> p] /\ t = [tick[p] EXCEPT !.batch = S]
    OBVIOUS
  <1>3. /\ tick[p] = IdleTick
        /\ outbox' = [e \in Time |-> IF e \in S THEN x ELSE outbox[e]]
        /\ tick' = [tick EXCEPT ![p] = t]
        /\ reordered' = reordered \cup Passed(S, skip)
        /\ UNCHANGED <<beforehand, event, told>>
    BY <1>1, <1>2 DEF ClaimEvents
  <1>4. S \subseteq Due /\ Due \subseteq Time
    BY <1>1 DEF OldestOf, Due
  <1>5. /\ tick \in [Tick -> Ticks] /\ outbox \in [Time -> OutboxRows] /\ x \in OutboxRows
        /\ ChangeRequestTypeOK
    BY <1>2, RequestTypes DEF RequestInv, OutboxRows
  <1>6. t \in Ticks /\ t.batch = S /\ t.sent = {} /\ t.refused = {}
    BY <1>2, <1>3, <1>4, <1>5 DEF Ticks, IdleTick
  <1>7. /\ tick' \in [Tick -> Ticks] /\ tick'[p] = t /\ \A q \in Tick \ {p} : tick'[q] = tick[q]
        /\ outbox' \in [Time -> OutboxRows]
        /\ \A e \in S : outbox'[e] = x
        /\ \A e \in Time \ S : outbox'[e] = outbox[e]
    BY <1>3, <1>4, <1>5, <1>6
  <1>8. \A e \in S : outbox[e].st \notin {"none", "claimed"}
    BY <1>4 DEF Due
  <1>9. \A e \in Time : outbox'[e].st = "none" <=> outbox[e].st = "none"
    BY <1>2, <1>7, <1>8
  <1>10. \A e \in Time, q \in Tick : Has(q, e)' => event[e] # NoEvent
    <2>1. \A e \in S : event[e] # NoEvent
      BY <1>4, <1>8 DEF RequestInv, Rows
    <2>2. QED
      BY <1>6, <1>7, <2>1 DEF RequestInv, Rows, Has
  <1>11. \A e \in Time : Orphan(e) => Orphan(e)'
    <2>1. ASSUME NEW e \in Time, Orphan(e) PROVE Orphan(e)'
      <3>1. e \notin S /\ outbox'[e] = outbox[e]
        BY <1>7, <1>8, <2>1 DEF Orphan
      <3>2. \A q \in Tick : ~ Has(q, e)'
        BY <1>6, <1>7, <2>1, <3>1 DEF Orphan, Has
      <3>3. QED
        BY <2>1, <3>1, <3>2 DEF Orphan
    <2>2. QED
      BY <2>1
  <1>12. \A r \in Request : InTurn(r) /\ InOrder(r)' => InTurn(r)'
    <2>1. ASSUME NEW r \in Request, InTurn(r), InOrder(r)' PROVE InTurn(r)'
      <3>1. r \notin Passed(S, skip)
        BY <1>3, <2>1 DEF InOrder
      <3>2. QED
        BY <1>1, <1>2, <1>3, <1>5, <1>6, <1>7, <2>1, <3>1, InTurnClaimed
    <2>2. QED
      BY <2>1
  <1>13. reordered \subseteq reordered' /\ reordered' \subseteq Request /\ told' \in [Request -> {"none"} \cup Resolution]
    BY <1>3, RequestTypes DEF RequestInv, Passed
  <1>14. UNCHANGED <<beforehand, event>>
    BY <1>3
  <1>15. QED
    BY <1>7, <1>9, <1>10, <1>11, <1>12, <1>13, <1>14, OutboxStep

\* A tick sends the event on r that is next.
LEMMA InTurnSent ==
  ASSUME ChangeRequestTypeOK, NEW r, InTurn(r), UNCHANGED <<beforehand, event, outbox>>,
         NEW p \in Tick, NEW e \in EventsOf(r), NextToSend(p, e), told'[r] = event[e].status,
         tick'[p].batch = tick[p].batch \ {e}, tick'[p].sent = tick[p].sent \cup {e},
         tick'[p].refused = tick[p].refused, \A q \in Tick \ {p} : tick'[q] = tick[q]
  PROVE  InTurn(r)'
  <1> USE ChangeRequestAssumption
  <1>1. /\ EventsOf(r)' = EventsOf(r) /\ UNCHANGED <<request, resolving>> /\ InResolution' = InResolution
        /\ EventsOf(r) \subseteq Time
    BY BeforeOutbox DEF EventsOf
  <1>2. e \in tick[p].batch /\ \A f \in tick[p].batch : e <= f
    BY DEF NextToSend
  <1>3. \A f \in EventsOf(r), q \in Tick :
          f \in tick[q].batch \cup tick[q].sent => outbox[f] = [st |-> "claimed", by |-> q]
    BY DEF InTurn, Queued
  <1>4. outbox[e] = [st |-> "claimed", by |-> p] /\ outbox[e].st = "claimed" /\ outbox[e].by = p
    <2>1. outbox[e] = [st |-> "claimed", by |-> p]
      BY <1>2, <1>3
    <2>2. QED
      BY <2>1
  <1>5. \A q \in Tick : e \in tick[q].batch => q = p
    BY <1>2 DEF InTurn, Queued
  <1>6. Waits(e) /\ ~ Waits(e)'
    <2>1. \A q \in Tick : e \notin tick'[q].batch
      BY <1>5
    <2>2. QED
      BY <1>2, <1>4, <2>1 DEF Waits
  <1>7. \A f \in EventsOf(r) : f # e => (Waits(f)' <=> Waits(f))
    <2>1. ASSUME NEW f \in EventsOf(r), f # e PROVE \A q \in Tick : f \in tick'[q].batch <=> f \in tick[q].batch
      BY <2>1
    <2>2. QED
      BY <2>1 DEF Waits
  <1>8. \A f \in EventsOf(r) : f < e => ~ Waits(f)
    <2>1. ASSUME NEW f \in EventsOf(r), f < e, Waits(f) PROVE FALSE
      <3>1. outbox[f].st # "due"
        BY <1>4, <2>1 DEF InTurn, Queued
      <3>2. PICK q \in Tick : f \in tick[q].batch
        BY <2>1, <3>1 DEF Waits
      <3>3. q = p
        BY <1>2, <3>2 DEF InTurn, Queued
      <3>4. e <= f /\ e \in Int /\ f \in Int
        BY <1>1, <1>2, <3>2, <3>3 DEF Time
      <3>5. QED
        BY <2>1, <3>4
    <2>2. QED
      BY <2>1
  <1>9. Queued(r)'
    <2>1. \A f \in EventsOf(r) : outbox[f].st \in {"due", "claimed", "published"}
      BY DEF InTurn, Queued
    <2>2. ASSUME NEW f \in EventsOf(r), NEW q \in Tick
          PROVE  /\ f \notin tick'[q].refused
                 /\ f \in tick'[q].batch \cup tick'[q].sent => outbox[f] = [st |-> "claimed", by |-> q]
      <3>1. f \notin tick'[q].refused
        BY DEF InTurn, Queued
      <3>2. f \in tick'[q].batch \cup tick'[q].sent => f \in tick[q].batch \cup tick[q].sent
        BY <1>2
      <3>3. QED
        BY <1>3, <3>1, <3>2
    <2>3. \A f, g \in EventsOf(r) :
            f < g => (outbox[f].st = "due" => outbox[g].st = "due") /\ (Waits(f)' => Waits(g)')
      BY <1>6, <1>7, <1>8 DEF InTurn, Queued
    <2>4. ASSUME NEW f \in EventsOf(r), NEW g \in EventsOf(r), NEW t \in Tick, NEW q \in Tick,
                 f \in tick'[t].batch, g \in tick'[q].batch
          PROVE  t = q
      <3>1. f \in tick[t].batch /\ g \in tick[q].batch
        BY <2>4
      <3>2. QED
        BY <3>1 DEF InTurn, Queued
    <2>5. QED
      BY <1>1, <2>1, <2>2, <2>3, <2>4 DEF Queued
  <1>10. OneInFlight(r)'
    BY <1>1 DEF InTurn, OneInFlight
  <1>11. UpToDate(r)'
    <2>1. ASSUME NEW f \in EventsOf(r), ~ Waits(f)', \A g \in EventsOf(r) : f < g => Waits(g)'
          PROVE  f = e
      <3>1. ~ f < e
        BY <1>6, <2>1
      <3>2. ~ e < f
        BY <1>6, <1>7, <2>1 DEF InTurn, Queued
      <3>3. f \in Int /\ e \in Int
        BY <1>1 DEF Time
      <3>4. QED
        BY <3>1, <3>2, <3>3
    <2>2. request'[r].status \in Announced(request'[r].type) =>
            \E f \in EventsOf(r) : event[f].status = request'[r].status /\ \A g \in EventsOf(r) : g <= f
      BY <1>1 DEF InTurn, UpToDate, Announced
    <2>3. QED
      BY <1>1, <2>1, <2>2 DEF UpToDate
  <1>12. QED
    BY <1>9, <1>10, <1>11 DEF InTurn

\* A tick sends an event, or is told that it did not.
LEMMA SendStep ==
  ASSUME RequestInv, NEW p \in Tick, NEW e \in Time,
         PublishEvent(p, e) \/ \E added \in BOOLEAN : PublishFails(p, e, added)
  PROVE  RequestInv'
  <1>1. PICK B, N, R, t : /\ B = tick[p].batch \ {e} /\ N \subseteq tick[p].sent \cup {e}
                          /\ R \subseteq tick[p].refused \cup {e}
                          /\ PublishEvent(p, e) => N = tick[p].sent \cup {e} /\ R = tick[p].refused
                          /\ ~ PublishEvent(p, e) => N = tick[p].sent /\ R = tick[p].refused \cup {e}
                          /\ t = [tick[p] EXCEPT !.batch = B, !.sent = N, !.refused = R]
    <2>1. CASE PublishEvent(p, e)
      BY <2>1
    <2>2. CASE ~ PublishEvent(p, e)
      BY <2>2
    <2>3. QED
      BY <2>1, <2>2
  <1>2. /\ NextToSend(p, e) /\ UNCHANGED <<beforehand, event, outbox>>
        /\ tick' = [tick EXCEPT ![p] = t]
        /\ told' = Told(e) \/ told' = told
        /\ PublishEvent(p, e) => told' = Told(e) /\ reordered' = reordered
        /\ ~ PublishEvent(p, e) => reordered' = reordered \cup {event[e].r}
    <2>1. CASE PublishEvent(p, e)
      BY <1>1, <2>1 DEF PublishEvent
    <2>2. CASE ~ PublishEvent(p, e)
      <3>1. PICK added \in BOOLEAN : PublishFails(p, e, added)
        BY <2>2
      <3>2. QED
        BY <1>1, <2>2, <3>1 DEF PublishFails
    <2>3. QED
      BY <2>1, <2>2
  <1>3. /\ tick \in [Tick -> Ticks] /\ ChangeRequestTypeOK /\ e \in tick[p].batch
        /\ outbox' \in [Time -> OutboxRows]
    BY <1>2, RequestTypes DEF RequestInv, NextToSend
  <1>4. PICK r \in Request : r = event[e].r /\ event[e].status \in Resolution /\ event[e] # NoEvent
    <2>1. event[e] # NoEvent
      BY <1>3 DEF RequestInv, Rows, Has
    <2>2. event[e] \in RequestEvents
      BY <1>3, <2>1, RequestTypes
    <2>3. QED
      BY <2>1, <2>2 DEF RequestEvents
  <1>5. t \in Ticks /\ t.batch = B /\ t.sent = N /\ t.refused = R
    BY <1>1, <1>3 DEF Ticks
  <1>6. tick' \in [Tick -> Ticks] /\ tick'[p] = t /\ \A q \in Tick \ {p} : tick'[q] = tick[q]
    BY <1>2, <1>3, <1>5
  <1>7. /\ told' \in [Request -> {"none"} \cup Resolution]
        /\ told' = Told(e) => told'[r] = event[e].status
        /\ \A s \in Request \ {r} : told'[s] = told[s]
    BY <1>2, <1>3, <1>4, RequestTypes DEF Told
  <1>8. reordered \subseteq reordered' /\ reordered' \subseteq Request
    BY <1>2, <1>4, RequestTypes DEF RequestInv
  <1>9. \A f \in Time, q \in Tick : Has(q, f)' <=> Has(q, f)
    <2>1. \A f : f \in B \cup N \cup R <=> f \in tick[p].batch \cup tick[p].sent \cup tick[p].refused
      BY <1>1, <1>3
    <2>2. QED
      BY <1>5, <1>6, <2>1 DEF Has
  <1>10. \A f \in Time : Orphan(f) => Orphan(f)'
    BY <1>2, <1>9 DEF Orphan
  <1>11. \A s \in Request : InTurn(s) /\ InOrder(s)' => InTurn(s)'
    <2>1. ASSUME NEW s \in Request, InTurn(s), InOrder(s)' PROVE InTurn(s)'
      <3>1. CASE s # r
        <4>1. \A f \in EventsOf(s) : f # e
          BY <1>4, <3>1 DEF EventsOf
        <4>2. \A f \in EventsOf(s), q \in Tick :
                /\ f \in tick'[q].batch <=> f \in tick[q].batch
                /\ f \in tick'[q].sent => f \in tick[q].sent
                /\ f \in tick'[q].refused => f \in tick[q].refused
          BY <1>1, <1>5, <1>6, <4>1
        <4>3. QED
          BY <1>2, <1>7, <2>1, <3>1, <4>2, InTurnUntouched
      <3>2. CASE s = r
        <4>1. PublishEvent(p, e)
          BY <1>2, <1>4, <2>1, <3>2 DEF InOrder
        <4>2. e \in EventsOf(s) /\ told'[s] = event[e].status
          BY <1>2, <1>4, <1>7, <3>2, <4>1 DEF EventsOf
        <4>3. N = tick[p].sent \cup {e} /\ R = tick[p].refused
          BY <1>1, <4>1
        <4>4. QED
          BY <1>1, <1>2, <1>3, <1>5, <1>6, <2>1, <4>2, <4>3, InTurnSent
      <3>3. QED
        BY <3>1, <3>2
    <2>2. QED
      BY <2>1
  <1>12. UNCHANGED <<beforehand, event>> /\ \A f \in Time : outbox'[f].st = "none" <=> outbox[f].st = "none"
    BY <1>2
  <1>13. \A f \in Time, q \in Tick : Has(q, f)' => event[f] # NoEvent
    BY <1>9 DEF RequestInv, Rows
  <1>14. QED
    BY <1>3, <1>6, <1>7, <1>8, <1>10, <1>11, <1>12, <1>13, OutboxStep

\* A tick forgets some of what it knows; the rows of which it knows nothing keep their
\* claims.
LEMMA TickStep ==
  ASSUME RequestInv, UNCHANGED <<beforehand, event, told, reordered>>, NEW p \in Tick, NEW t \in Ticks,
         tick' = [tick EXCEPT ![p] = t], t.batch \subseteq tick[p].batch,
         t.sent \subseteq tick[p].sent, t.refused \subseteq tick[p].refused,
         outbox' \in [Time -> OutboxRows],
         \A e \in Time : outbox'[e].st = "none" <=> outbox[e].st = "none",
         \A e \in Time : Orphan(e) => outbox'[e].st = "claimed",
         \A r \in Request : InTurn(r) /\ InOrder(r)' => InTurn(r)'
  PROVE  RequestInv'
  <1>1. tick \in [Tick -> Ticks]
    BY RequestTypes DEF RequestInv
  <1>2. tick' \in [Tick -> Ticks] /\ tick'[p] = t /\ \A q \in Tick \ {p} : tick'[q] = tick[q]
    BY <1>1
  <1>3. \A e \in Time, q \in Tick : Has(q, e)' => Has(q, e)
    BY <1>2 DEF Has
  <1>4. \A e \in Time : Orphan(e) => Orphan(e)'
    BY <1>3 DEF Orphan
  <1>5. told' \in [Request -> {"none"} \cup Resolution] /\ reordered \subseteq reordered' /\ reordered' \subseteq Request
    BY RequestTypes DEF RequestInv
  <1>6. \A e \in Time, q \in Tick : Has(q, e)' => event[e] # NoEvent
    BY <1>3 DEF RequestInv, Rows
  <1>7. UNCHANGED <<beforehand, event>>
    OBVIOUS
  <1>8. QED
    BY <1>2, <1>4, <1>5, <1>6, <1>7, OutboxStep

\* What the ticks know of the events of r, in turn.
LEMMA InTurnFields ==
  ASSUME NEW r, InTurn(r)
  PROVE  /\ EventsOf(r) \subseteq Time
         /\ \A e \in EventsOf(r) : outbox[e].st \in {"due", "claimed", "published"}
         /\ \A e \in EventsOf(r), q \in Tick :
              /\ e \notin tick[q].refused
              /\ e \in tick[q].batch \cup tick[q].sent =>
                   outbox[e] = [st |-> "claimed", by |-> q] /\ outbox[e].st = "claimed" /\ outbox[e].by = q
  <1>1. \A e \in EventsOf(r) : outbox[e].st \in {"due", "claimed", "published"}
    BY DEF InTurn, Queued
  <1>2. ASSUME NEW e \in EventsOf(r), NEW q \in Tick
        PROVE  /\ e \notin tick[q].refused
               /\ e \in tick[q].batch \cup tick[q].sent =>
                    outbox[e] = [st |-> "claimed", by |-> q] /\ outbox[e].st = "claimed" /\ outbox[e].by = q
    <2>1. e \notin tick[q].refused
      BY DEF InTurn, Queued
    <2>2. ASSUME e \in tick[q].batch \cup tick[q].sent PROVE outbox[e] = [st |-> "claimed", by |-> q]
      BY <2>2 DEF InTurn, Queued
    <2>3. QED
      BY <2>1, <2>2
  <1>3. QED
    BY <1>1, <1>2 DEF EventsOf

\* The rows of what was sent are marked.
LEMMA MarkPublishedStep ==
  ASSUME RequestInv, NEW p \in Tick, MarkEventsPublished(p)
  PROVE  RequestInv'
  <1>1. PICK x, t : x = Unclaimed("published") /\ t = [tick[p] EXCEPT !.sent = {}]
    OBVIOUS
  <1>2. /\ tick[p].batch = {} /\ tick' = [tick EXCEPT ![p] = t]
        /\ outbox' = [e \in Time |-> IF e \in tick[p].sent /\ HeldBy(p, e) THEN x ELSE outbox[e]]
        /\ UNCHANGED <<beforehand, event, told, reordered>>
    BY <1>1 DEF MarkEventsPublished
  <1>3. tick \in [Tick -> Ticks] /\ outbox \in [Time -> OutboxRows]
    BY RequestTypes DEF RequestInv
  <1>4. x \in OutboxRows /\ x.st = "published"
    BY <1>1 DEF Unclaimed, OutboxRows
  <1>5. t \in Ticks /\ t.batch = {} /\ t.sent = {} /\ t.refused = tick[p].refused
    BY <1>1, <1>2, <1>3 DEF Ticks
  <1>6. tick'[p] = t /\ \A q \in Tick \ {p} : tick'[q] = tick[q]
    BY <1>2, <1>3
  <1>7. /\ outbox' \in [Time -> OutboxRows]
        /\ \A e \in Time : IF e \in tick[p].sent /\ HeldBy(p, e) THEN outbox'[e] = x ELSE outbox'[e] = outbox[e]
    BY <1>2, <1>3, <1>4
  <1>8. \A e \in Time : outbox'[e].st = "none" <=> outbox[e].st = "none"
    BY <1>4, <1>7 DEF HeldBy
  <1>9. \A e \in Time : Orphan(e) => outbox'[e].st = "claimed"
    BY <1>7 DEF Orphan, Has
  <1>10. ASSUME NEW r \in Request, InTurn(r) PROVE InTurn(r)'
    <2>1. \A e \in EventsOf(r) :
            /\ outbox'[e].st \in {"due", "claimed", "published"}
            /\ outbox'[e].st = "due" <=> outbox[e].st = "due"
      BY <1>4, <1>7, <1>10, InTurnFields DEF HeldBy
    <2>2. ASSUME NEW e \in EventsOf(r), NEW q \in Tick
          PROVE  /\ e \notin tick'[q].refused
                 /\ e \in tick'[q].batch <=> e \in tick[q].batch
                 /\ e \in tick'[q].batch \cup tick'[q].sent => outbox'[e] = [st |-> "claimed", by |-> q]
      <3>1. CASE q = p
        BY <1>2, <1>5, <1>6, <1>10, <3>1, InTurnFields
      <3>2. CASE q # p
        <4>1. tick'[q] = tick[q]
          BY <1>6, <3>2
        <4>2. ASSUME e \in tick[q].batch \cup tick[q].sent PROVE outbox'[e] = [st |-> "claimed", by |-> q]
          <5>1. outbox[e] = [st |-> "claimed", by |-> q] /\ outbox[e].by = q /\ e \in Time
            BY <1>10, <4>2, InTurnFields
          <5>2. QED
            BY <1>7, <3>2, <5>1 DEF HeldBy
        <4>3. QED
          BY <1>10, <4>1, <4>2, InTurnFields
      <3>3. QED
        BY <3>1, <3>2
    <2>3. QED
      BY <1>2, <1>10, <2>1, <2>2, BeforeOutbox, InTurnKept
  <1>11. QED
    BY <1>2, <1>5, <1>7, <1>8, <1>9, <1>10, TickStep

\* The row of an event that was refused is marked: it is none of a request in turn.
LEMMA MarkFailedStep ==
  ASSUME RequestInv, NEW p \in Tick, NEW e \in Time, MarkEventFailed(p, e)
  PROVE  RequestInv'
  <1>1. PICK x, t, R : /\ x = Unclaimed("waiting") /\ R = tick[p].refused \ {e}
                       /\ t = [tick[p] EXCEPT !.refused = R]
    OBVIOUS
  <1>2. /\ e \in tick[p].refused /\ tick' = [tick EXCEPT ![p] = t]
        /\ outbox' = IF HeldBy(p, e) THEN [outbox EXCEPT ![e] = x] ELSE outbox
        /\ UNCHANGED <<beforehand, event, told, reordered>>
    BY <1>1 DEF MarkEventFailed
  <1>3. tick \in [Tick -> Ticks] /\ outbox \in [Time -> OutboxRows]
    BY RequestTypes DEF RequestInv
  <1>4. x \in OutboxRows /\ x.st = "waiting"
    BY <1>1 DEF Unclaimed, OutboxRows
  <1>5. t \in Ticks /\ t.batch = tick[p].batch /\ t.sent = tick[p].sent /\ t.refused = R
    BY <1>1, <1>3 DEF Ticks
  <1>6. tick'[p] = t /\ \A q \in Tick \ {p} : tick'[q] = tick[q]
    BY <1>2, <1>3
  <1>7. /\ outbox' \in [Time -> OutboxRows] /\ \A f \in Time \ {e} : outbox'[f] = outbox[f]
        /\ outbox'[e] = outbox[e] \/ (HeldBy(p, e) /\ outbox'[e] = x)
    BY <1>2, <1>3, <1>4
  <1>8. \A f \in Time : outbox'[f].st = "none" <=> outbox[f].st = "none"
    BY <1>4, <1>7 DEF HeldBy
  <1>9. \A f \in Time : Orphan(f) => outbox'[f].st = "claimed"
    BY <1>2, <1>7 DEF Orphan, Has
  <1>10. ASSUME NEW r \in Request, InTurn(r) PROVE InTurn(r)'
    <2>1. \A f \in EventsOf(r) : f \in Time /\ f # e
      <3>1. \A f \in EventsOf(r) : f \in Time /\ f \notin tick[p].refused
        BY <1>10, InTurnFields
      <3>2. QED
        BY <1>2, <3>1
    <2>2. \A f \in EventsOf(r) :
            /\ outbox'[f] = outbox[f]
            /\ \A q \in Tick : /\ f \in tick'[q].batch <=> f \in tick[q].batch
                               /\ f \in tick'[q].sent => f \in tick[q].sent
                               /\ f \in tick'[q].refused => f \in tick[q].refused
      BY <1>1, <1>5, <1>6, <1>7, <2>1
    <2>3. QED
      BY <1>2, <1>10, <2>2, InTurnUntouched
  <1>11. R \subseteq tick[p].refused
    BY <1>1
  <1>12. QED
    BY <1>2, <1>5, <1>7, <1>8, <1>9, <1>10, <1>11, TickStep

\* A tick forgets rows for good: their requests are no longer in order.
LEMMA ForgottenStep ==
  ASSUME RequestInv, NEW p \in Tick, NEW S \in SUBSET Time, NEW t \in Ticks,
         UNCHANGED <<beforehand, event, told, reordered>>,
         tick' = [tick EXCEPT ![p] = t], outbox' = Forgotten(p, S),
         t.batch \subseteq tick[p].batch, t.sent \subseteq tick[p].sent, t.refused \subseteq tick[p].refused,
         \A e \in tick[p].batch : e \in S \/ e \in t.batch,
         \A e \in S : e \notin tick[p].refused => e \notin t.batch \cup t.sent
  PROVE  RequestInv'
  <1>1. tick \in [Tick -> Ticks] /\ outbox \in [Time -> OutboxRows]
    BY RequestTypes DEF RequestInv
  <1>2. tick'[p] = t /\ \A q \in Tick \ {p} : tick'[q] = tick[q]
    BY <1>1
  <1>3. /\ outbox' \in [Time -> OutboxRows]
        /\ \A e \in Time : /\ outbox'[e].st = outbox[e].st
                           /\ ~ (e \in S /\ HeldBy(p, e)) => outbox'[e] = outbox[e]
    <2>1. ASSUME NEW e \in Time
          PROVE  /\ outbox'[e] \in OutboxRows /\ outbox'[e].st = outbox[e].st
                 /\ ~ (e \in S /\ HeldBy(p, e)) => outbox'[e] = outbox[e]
      <3>1. PICK x : x = [outbox[e] EXCEPT !.by = NoTick]
        OBVIOUS
      <3>2. x \in OutboxRows /\ x.st = outbox[e].st
        BY <1>1, <3>1 DEF OutboxRows
      <3>3. outbox'[e] = IF e \in S /\ HeldBy(p, e) THEN x ELSE outbox[e]
        BY <3>1 DEF Forgotten
      <3>4. QED
        BY <1>1, <3>2, <3>3
    <2>2. QED
      BY <2>1 DEF Forgotten
  <1>4. \A e \in Time : outbox'[e].st = "none" <=> outbox[e].st = "none"
    BY <1>3
  <1>5. \A e \in Time : Orphan(e) => outbox'[e].st = "claimed"
    BY <1>3 DEF Orphan
  <1>6. ASSUME NEW r \in Request, InTurn(r), InOrder(r)' PROVE InTurn(r)'
    <2>1. EventsOf(r)' = EventsOf(r)
      BY DEF EventsOf
    <2>2. ASSUME NEW e \in EventsOf(r), e \in S PROVE ~ Has(p, e)
      <3>1. SUFFICES ASSUME Has(p, e) PROVE FALSE
        OBVIOUS
      <3>2. /\ e \in Time /\ e \notin tick[p].refused /\ e \in tick[p].batch \cup tick[p].sent
            /\ outbox[e].st = "claimed" /\ outbox[e].by = p
        BY <1>6, <3>1, InTurnFields DEF Has
      <3>3. ~ Has(p, e)'
        BY <1>2, <2>2, <3>2 DEF Has
      <3>4. ASSUME NEW q \in Tick \ {p}, Has(q, e)' PROVE FALSE
        <4>1. e \in tick[q].batch \cup tick[q].sent \cup tick[q].refused
          BY <1>2, <3>4 DEF Has
        <4>2. outbox[e].by = q
          BY <1>6, <4>1, InTurnFields
        <4>3. QED
          BY <3>2, <4>2
      <3>5. Orphan(e)'
        BY <1>3, <3>2, <3>3, <3>4 DEF Orphan
      <3>6. QED
        BY <1>6, <2>1, <3>5 DEF InOrder
    <2>3. \A e \in EventsOf(r) : outbox'[e] = outbox[e]
      <3>1. ASSUME NEW e \in EventsOf(r), e \in S, HeldBy(p, e) PROVE FALSE
        <4>1. e \in Time /\ outbox[e].st = "claimed" /\ outbox[e].by = p
          BY <1>6, <3>1, InTurnFields DEF HeldBy
        <4>2. ~ Orphan(e)'
          BY <1>6, <2>1 DEF InOrder
        <4>3. PICK q \in Tick : Has(q, e)'
          BY <1>3, <4>1, <4>2 DEF Orphan
        <4>4. Has(q, e)
          BY <1>2, <4>3 DEF Has
        <4>5. q = p
          BY <1>6, <4>1, <4>4, InTurnFields DEF Has
        <4>6. QED
          BY <2>2, <3>1, <4>4, <4>5
      <3>2. QED
        BY <1>3, <1>6, <3>1, InTurnFields
    <2>4. \A e \in EventsOf(r), q \in Tick :
            /\ e \in tick'[q].batch <=> e \in tick[q].batch
            /\ e \in tick'[q].sent => e \in tick[q].sent
            /\ e \in tick'[q].refused => e \in tick[q].refused
      <3>1. \A e \in EventsOf(r) : e \in t.batch <=> e \in tick[p].batch
        BY <1>6, <2>2, InTurnFields DEF Has
      <3>2. QED
        BY <1>2, <3>1
    <2>5. UNCHANGED <<beforehand, event>> /\ told'[r] = told[r]
      OBVIOUS
    <2>6. QED
      BY <1>6, <2>3, <2>4, <2>5, InTurnUntouched
  <1>7. UNCHANGED <<beforehand, event, told, reordered>>
    OBVIOUS
  <1>8. QED
    BY <1>3, <1>4, <1>5, <1>6, <1>7, TickStep

\* A mark rejects.
LEMMA MarkRaisesStep ==
  ASSUME RequestInv, NEW p \in Tick, NEW S \in SUBSET Time, MarkRaises(p, S)
  PROVE  RequestInv'
  <1>1. PICK t : t = [tick[p] EXCEPT !.sent = tick[p].sent \ S, !.refused = tick[p].refused \ S]
    OBVIOUS
  <1>2. /\ tick[p].batch = {} /\ S \in {tick[p].sent} \cup {{e} : e \in tick[p].refused}
        /\ tick' = [tick EXCEPT ![p] = t] /\ outbox' = Forgotten(p, S)
        /\ UNCHANGED <<beforehand, event, told, reordered>>
    BY <1>1 DEF MarkRaises
  <1>3. tick \in [Tick -> Ticks]
    BY RequestTypes DEF RequestInv
  <1>4. /\ t \in Ticks /\ t.batch = tick[p].batch
        /\ t.sent = tick[p].sent \ S /\ t.refused = tick[p].refused \ S
    BY <1>1, <1>3 DEF Ticks
  <1>5. \A e \in S : e \notin t.batch \cup t.sent
    BY <1>2, <1>4
  <1>6. QED
    BY <1>2, <1>4, <1>5, ForgottenStep

\* The process of a tick dies.
LEMMA TickCrashesStep ==
  ASSUME RequestInv, NEW p \in Tick, TickCrashes(p)
  PROVE  RequestInv'
  <1>1. PICK t : t = IdleTick
    OBVIOUS
  <1>2. /\ tick' = [tick EXCEPT ![p] = t] /\ outbox' = Forgotten(p, Time)
        /\ UNCHANGED <<beforehand, event, told, reordered>>
    BY <1>1 DEF TickCrashes
  <1>3. t \in Ticks /\ t.batch = {} /\ t.sent = {} /\ t.refused = {}
    BY <1>1 DEF IdleTick, Ticks
  <1>4. tick[p].batch \subseteq Time
    BY RequestTypes DEF RequestInv, Ticks
  <1>5. QED
    BY <1>2, <1>3, <1>4, ForgottenStep

\* A row becomes due again, or a claim runs out: neither is of a request in order.
LEMMA RowStirsStep ==
  ASSUME RequestInv, NEW e \in Time, RetryDue(e) \/ ClaimRunsOut(e)
  PROVE  RequestInv'
  <1>1. PICK x \in OutboxRows :
          /\ outbox' = [outbox EXCEPT ![e] = x] /\ x.st # "none" /\ outbox[e].st # "none"
          /\ UNCHANGED <<beforehand, event, tick, told>>
          /\ \/ outbox[e].st = "waiting" /\ reordered' = reordered
             \/ outbox[e].st = "claimed" /\ reordered' = reordered \cup {event[e].r}
    <2>1. outbox[e] \in OutboxRows
      BY RequestTypes DEF RequestInv
    <2>2. CASE RetryDue(e)
      <3>1. Unclaimed("due") \in OutboxRows /\ Unclaimed("due").st # "none"
        BY DEF Unclaimed, OutboxRows
      <3>2. QED
        BY <2>2, <3>1 DEF RetryDue
    <2>3. CASE ClaimRunsOut(e)
      <3>1. PICK y : y = [outbox[e] EXCEPT !.st = "expired"]
        OBVIOUS
      <3>2. y \in OutboxRows /\ y.st # "none"
        BY <2>1, <3>1 DEF OutboxRows
      <3>3. QED
        BY <2>3, <3>1, <3>2 DEF ClaimRunsOut
    <2>4. QED
      BY <2>2, <2>3
  <1>2. /\ outbox \in [Time -> OutboxRows] /\ tick \in [Tick -> Ticks]
        /\ told \in [Request -> {"none"} \cup Resolution] /\ reordered \subseteq Request
        /\ event \in [Time -> {NoEvent} \cup RequestEvents]
    BY RequestTypes DEF RequestInv
  <1>3. /\ outbox' \in [Time -> OutboxRows] /\ outbox'[e] = x
        /\ \A f \in Time \ {e} : outbox'[f] = outbox[f]
    BY <1>1, <1>2
  <1>4. event[e].r \in Request
    <2>1. event[e] # NoEvent
      BY <1>1 DEF RequestInv, Rows
    <2>2. QED
      BY <1>2, <2>1 DEF RequestEvents
  <1>5. reordered \subseteq reordered' /\ reordered' \subseteq Request
    BY <1>1, <1>2, <1>4
  <1>6. \A f \in Time : Orphan(f) => Orphan(f)' \/ event[f].r \in reordered'
    <2>1. ASSUME NEW f \in Time, Orphan(f), f # e PROVE Orphan(f)'
      BY <1>1, <1>3, <2>1 DEF Orphan, Has
    <2>2. Orphan(e) => event[e].r \in reordered'
      BY <1>1 DEF Orphan
    <2>3. QED
      BY <2>1, <2>2
  <1>7. ASSUME NEW r \in Request, InTurn(r), InOrder(r)' PROVE InTurn(r)'
    <2>1. e \notin EventsOf(r)
      <3>1. SUFFICES ASSUME e \in EventsOf(r) PROVE FALSE
        OBVIOUS
      <3>2. event[e].r = r /\ outbox[e].st # "waiting"
        BY <1>7, <3>1, InTurnFields DEF EventsOf
      <3>3. QED
        BY <1>1, <1>7, <3>2 DEF InOrder
    <2>2. \A f \in EventsOf(r) : outbox'[f] = outbox[f]
      BY <1>3, <1>7, <2>1, InTurnFields
    <2>3. QED
      BY <1>1, <1>7, <2>2, InTurnUntouched
  <1>8. \A f \in Time : outbox'[f].st = "none" <=> outbox[f].st = "none"
    BY <1>1, <1>3
  <1>9. \A f \in Time, q \in Tick : Has(q, f)' => event[f] # NoEvent
    BY <1>1 DEF RequestInv, Rows, Has
  <1>10. tick' \in [Tick -> Ticks] /\ told' \in [Request -> {"none"} \cup Resolution]
    BY <1>1, <1>2
  <1>11. QED
    BY <1>1, <1>3, <1>5, <1>6, <1>7, <1>8, <1>9, <1>10, OutboxStep

\* Every step of change requests keeps the invariant.
LEMMA RequestStep == RequestInv /\ [ChangeRequestNext]_requestVars => RequestInv'
  <1> SUFFICES ASSUME RequestInv, [ChangeRequestNext]_requestVars PROVE RequestInv'
    OBVIOUS
  <1>1. CASE UNCHANGED requestVars
    <2>1. /\ UNCHANGED <<request, creation, brief, overlapped, resolution>>
      BY <1>1 DEF requestVars, resolution
    <2>2. ChangeRequestTypeOK' /\ Alone'
      BY <2>1 DEF RequestInv, ChangeRequestTypeOK, resolution, publication, Alone, AloneOn, Inserting, Open
    <2>3. QED
      BY <2>1, <2>2, CreationStep
  <1>2. CASE ChangeRequestNext
    <2>1. CASE \E k \in Client, t \in Task : CheckOpenMinor(k, t)
      BY <2>1, CheckStep
    <2>2. CASE \E k \in Client, r \in Request : CreateMinorChangeRequest(k, r)
      BY <2>2, CreateMinorStep
    <2>3. CASE \E k \in Client : CreationFails(k)
      BY <2>3, CreationFailsStep
    <2>4. CASE \E r \in Request : CreateFormalChangeRequest(r)
      BY <2>4, CreateFormalStep
    <2>5. CASE \E a \in Admin, r \in Request, status \in Verdict : BeginResolution(a, r, status)
      BY <2>5, BeginStep
    <2>6. CASE \E a \in Admin : ResolveChangeRequest(a) \/ ResolutionFails(a)
      BY <2>6, ResolveStep, ResolutionFailsStep
    <2>7. CASE \E p \in Tick : \E skip \in SUBSET Due : ClaimEvents(p, skip)
      BY <2>7, ClaimStep
    <2>8. CASE \E p \in Tick, e \in Time : PublishEvent(p, e) \/ \E b \in BOOLEAN : PublishFails(p, e, b)
      BY <2>8, SendStep
    <2>9. CASE \E p \in Tick, e \in Time : MarkEventFailed(p, e)
      BY <2>9, MarkFailedStep
    <2>10. CASE \E p \in Tick : MarkEventsPublished(p) \/ TickCrashes(p)
      BY <2>10, MarkPublishedStep, TickCrashesStep
    <2>11. CASE \E p \in Tick : \E S \in SUBSET Time : MarkRaises(p, S)
      BY <2>11, MarkRaisesStep
    <2>12. CASE \E e \in Time : RetryDue(e) \/ ClaimRunsOut(e)
      BY <2>12, RowStirsStep
    <2>13. CASE PatchBrief
      BY <2>13, PatchStep
    <2>14. QED
      BY <1>2, <2>1, <2>2, <2>3, <2>4, <2>5, <2>6, <2>7, <2>8, <2>9, <2>10, <2>11, <2>12, <2>13
         DEF ChangeRequestNext
  <1>3. QED
    BY <1>1, <1>2

\* The variables of change requests keep their types: no request is approved, and no row
\* of the change log written, more often than resolutions and edits were begun.
THEOREM RequestTypeCorrect == ChangeRequestSpec => []ChangeRequestTypeOK
  <1>1. RequestInv => ChangeRequestTypeOK
    BY DEF RequestInv
  <1>2. QED
    BY <1>1, RequestInitInv, RequestStep, PTL DEF ChangeRequestSpec

\* A task has at most one open minor request unless two creations overlapped on it, for
\* any number of tasks, requests and creations in flight.
THEOREM RequestOneOpenMinor == ChangeRequestSpec => []OneOpenMinor
  <1>1. RequestInv => OneOpenMinor
    <2>1. SUFFICES ASSUME RequestInv, NEW t \in Task \ overlapped PROVE Cardinality(Open("minor", t)) <= 1
      BY DEF OneOpenMinor
    <2>2. PICK S : S = Open("minor", t)
      OBVIOUS
    <2>3. \A r, s \in S : r = s
      <3>1. S \subseteq Request
        BY <2>2 DEF Open
      <3>2. QED
        BY <2>1, <2>2, <3>1 DEF RequestInv, Alone, AloneOn
    <2>4. CASE S = {}
      BY <2>2, <2>4, FS_EmptySet
    <2>5. CASE S # {}
      <3>1. PICK r : S = {r}
        BY <2>3, <2>5
      <3>2. Cardinality({r}) = 1
        BY FS_Singleton
      <3>3. Cardinality(Open("minor", t)) = 1
        BY <2>2, <3>1, <3>2, Zenon
      <3>4. QED
        BY <3>3
    <2>6. QED
      BY <2>4, <2>5
  <1>2. QED
    BY <1>1, RequestInitInv, RequestStep, PTL DEF ChangeRequestSpec

\* What the client is told last of a request is its status, and the change log has one
\* row for each approval: for any number of ticks of the outbox that claim, send and mark
\* side by side, crash or fail to mark, and any number of requests and resolutions, where
\* no two resolutions of the request overlapped, no XADD of its events was reported as
\* failed, no claim on them ran out, and no tick claimed one past an older one that another
\* tick had locked or had yet to send.
THEOREM RequestToldWhatHolds == ChangeRequestSpec => []ToldWhatHolds
  <1>1. RequestInv => ToldWhatHolds
    <2>1. SUFFICES ASSUME RequestInv, NEW r \in Request
                   PROVE  /\ request[r].type = "formal" => brief.logOf[r] = approvals[r]
                          /\ /\ r \notin reordered
                             /\ \A e \in Time : event[e].r = r => outbox[e].st = "published"
                             /\ request[r].status = "rejected" \/ request[r].status =
                                  IF request[r].type = "formal" THEN "approved" ELSE "accepted"
                             => told[r] = request[r].status
      BY DEF ToldWhatHolds
    <2>2. request[r].type = "formal" => brief.logOf[r] = approvals[r]
      BY <2>1 DEF RequestInv, AllCounted, CountedFor
    <2>3. ASSUME r \notin reordered, \A e \in Time : event[e].r = r => outbox[e].st = "published",
                 request[r].status = "rejected" \/ request[r].status =
                   IF request[r].type = "formal" THEN "approved" ELSE "accepted"
          PROVE  told[r] = request[r].status
      <3>1. request[r].type \in {"minor", "formal"}
        BY <2>1, <2>3, RequestFields DEF RequestInv
      <3>2. request[r].status \in Announced(request[r].type)
        BY <2>3, <3>1 DEF Announced
      <3>3. \A e \in EventsOf(r) : outbox[e].st = "published" /\ e \in Int
        BY <2>3 DEF EventsOf, Time
      <3>4. InTurn(r)
        BY <2>1, <2>3, <3>3 DEF RequestInv, AllInTurn, InOrder, Orphan
      <3>5. PICK e \in EventsOf(r) : event[e].status = request[r].status /\ \A f \in EventsOf(r) : f <= e
        BY <3>2, <3>4 DEF InTurn, UpToDate
      <3>6. ~ Waits(e)
        <4>1. ASSUME NEW q \in Tick, e \in tick[q].batch PROVE FALSE
          <5>1. outbox[e].st = "claimed"
            BY <3>4, <4>1, InTurnFields
          <5>2. QED
            BY <3>3, <5>1
        <4>2. QED
          BY <3>3, <4>1 DEF Waits
      <3>7. \A f \in EventsOf(r) : ~ e < f
        BY <3>3, <3>5
      <3>8. QED
        BY <3>4, <3>5, <3>6, <3>7 DEF InTurn, UpToDate
    <2>4. QED
      BY <2>2, <2>3
  <1>2. QED
    BY <1>1, RequestInitInv, RequestStep, PTL DEF ChangeRequestSpec

-----------------------------------------------------------------------------
(* Assignments.                                                            *)

TaskRequests ==
  [pc : {"update", "block", "comment"}, actor : Staff \cup Guest, assignees : SUBSET SUBSET Staff,
   visible : SUBSET BOOLEAN, move : Move, before : SUBSET Staff, saw : BOOLEAN, late : BOOLEAN]

\* A request in flight, q: what it asks for, what it read, and, unless another change
\* came in between, that what it read still holds.
RequestOK(q) ==
  /\ q.actor \in team
  /\ UNION q.assignees \subseteq Assignable
  /\ \A S, T \in q.assignees : S = T
  /\ q.before \subseteq Assignable
  /\ q.pc # "update" => q.assignees = {}
  /\ q.pc = "comment" => q.visible = {} /\ q.move = "stay"
  /\ q.pc = "comment" /\ q.saw => shown \/ q.late
  /\ q.assignees # {} /\ ~ q.late => q.before = assigned

RequestsOK == \A w \in InFlight : RequestOK(writer[w])

\* An event is by a member, names people who can be assigned, and if it is of external
\* interest a client may know of it.
EventOK(e) ==
  /\ e.actor \in team /\ e.to \subseteq Assignable
  /\ e.fair \in BOOLEAN
  /\ e.external => e.fair

EventsOK == \A e \in emitted : EventOK(e)

\* Before the task is there, nothing is.
NothingYet == changes = 0 => assigned = {} /\ InFlight = {}

AssignmentInv ==
  /\ AssignmentTypeOK
  /\ writer \in [Writer -> {NoWriter} \cup TaskRequests]
  /\ changes + Cardinality(InFlight) <= MaxChanges
  /\ \A a \in Staff : tellings[a] <= changes
  /\ RequestsOK /\ EventsOK /\ NothingYet /\ RightPeopleTold

\* The fields of an event.
LEMMA TaskEventIs ==
  ASSUME NEW e, NEW type, NEW u, NEW to, NEW visible, NEW fair,
         e = TaskEvent(type, u, to, visible, fair)
  PROVE  /\ e.type = type /\ e.actor = u /\ e.to = to
         /\ e.external = visible /\ e.fair = fair
  BY Zenon DEF TaskEvent

\* What the events on the assignees are.
LEMMA AssignedIs ==
  ASSUME NEW u, NEW S, NEW e \in AssignedEvents(u, S)
  PROVE  /\ e.type = "assigned" /\ e.actor = u /\ ~ e.external /\ e.fair \in BOOLEAN
         /\ e.to \subseteq S \ {u}
  <1>1. PICK a \in S \ {u}, no \in BOOLEAN : ~ no /\ e = TaskEvent("assigned", u, {a}, no, no)
    BY DEF AssignedEvents
  <1>2. e.type = "assigned" /\ e.actor = u /\ e.to = {a} /\ e.external = no /\ e.fair = no
    BY <1>1, TaskEventIs
  <1>3. QED
    BY <1>1, <1>2

\* What the events on a move are.
LEMMA MovedIs ==
  ASSUME NEW q, NEW S, NEW visible \in BOOLEAN, NEW e \in MovementEvents(q, S, visible)
  PROVE  /\ e.type \in {"moved", "blocked", "unblocked"} /\ e.actor = q.actor
         /\ e.external = visible /\ e.fair = visible
         /\ e.to = S \/ e.to = {}
  <1>1. \/ e = TaskEvent("moved", q.actor, S, visible, visible)
        \/ \E type \in {"blocked", "unblocked"} : e = TaskEvent(type, q.actor, {}, visible, visible)
    BY DEF MovementEvents, ToEveryone
  <1>2. CASE e = TaskEvent("moved", q.actor, S, visible, visible)
    BY <1>2, TaskEventIs
  <1>3. ASSUME NEW type \in {"blocked", "unblocked"}, e = TaskEvent(type, q.actor, {}, visible, visible)
        PROVE  /\ e.type = type /\ e.actor = q.actor
               /\ e.external = visible /\ e.fair = visible
               /\ e.to = {}
    BY <1>3, TaskEventIs
  <1>4. QED
    BY <1>1, <1>2, <1>3

\* What a request emits: events that are right, and of assignments those to the new
\* assignees other than the actor.
LEMMA EmittedIs ==
  ASSUME NEW q \in TaskRequests, RequestOK(q), NEW S, S \subseteq Assignable, NEW visible \in BOOLEAN,
         q.pc = "comment" /\ q.saw => visible \/ q.late
  PROVE  /\ \A e \in Emits(q, S, visible) : EventOK(e)
         /\ \A a : (\E e \in Emits(q, S, visible) : e.type = "assigned" /\ a \in e.to)
                     <=> q.pc = "update" /\ a \in NewAssignees(q) /\ a # q.actor
  <1>0. q.saw \in BOOLEAN /\ q.late \in BOOLEAN /\ q.pc \in {"update", "block", "comment"}
    BY DEF TaskRequests
  <1>1. CASE q.pc = "update"
    <2>1. Emits(q, S, visible) = MovementEvents(q, S, visible) \cup AssignedEvents(q.actor, NewAssignees(q))
      BY <1>1 DEF Emits
    <2>2. NewAssignees(q) \subseteq Assignable
      BY DEF RequestOK, NewAssignees
    <2>3. \A e \in MovementEvents(q, S, visible) : EventOK(e) /\ e.type # "assigned"
      BY MovedIs DEF RequestOK, EventOK
    <2>4. \A e \in AssignedEvents(q.actor, NewAssignees(q)) : EventOK(e)
      BY <2>2, AssignedIs DEF RequestOK, EventOK
    <2>5. ASSUME NEW a, a \in NewAssignees(q), a # q.actor
          PROVE  \E e \in AssignedEvents(q.actor, NewAssignees(q)) : e.type = "assigned" /\ a \in e.to
      <3>0. PICK no \in BOOLEAN : no = FALSE
        OBVIOUS
      <3>1. PICK e : e = TaskEvent("assigned", q.actor, {a}, no, no)
        OBVIOUS
      <3>2. e \in AssignedEvents(q.actor, NewAssignees(q))
        BY <2>5, <3>0, <3>1 DEF AssignedEvents
      <3>3. e.type = "assigned" /\ e.to = {a}
        BY <3>1, TaskEventIs
      <3>4. QED
        BY <3>2, <3>3
    <2>6. \A a : (\E e \in AssignedEvents(q.actor, NewAssignees(q)) : a \in e.to)
                   => a \in NewAssignees(q) /\ a # q.actor
      BY AssignedIs
    <2>7. QED
      BY <1>1, <2>1, <2>3, <2>4, <2>5, <2>6
  <1>2. CASE q.pc = "block"
    <2>1. Emits(q, S, visible) = MovementEvents(q, q.before, visible)
      BY <1>2 DEF Emits
    <2>2. \A e \in MovementEvents(q, q.before, visible) : EventOK(e) /\ e.type # "assigned"
      BY MovedIs DEF RequestOK, EventOK
    <2>3. QED
      BY <1>2, <2>1, <2>2
  <1>3. CASE q.pc = "comment"
    <2>1. PICK fair \in BOOLEAN : fair = (visible \/ q.late)
      BY <1>0
    <2>2. PICK e : e = TaskEvent("comment", q.actor, S, q.saw, fair)
      OBVIOUS
    <2>3. Emits(q, S, visible) = {e}
      BY <1>3, <2>1, <2>2 DEF Emits
    <2>4. e.type = "comment" /\ e.actor = q.actor /\ e.to = S /\ e.external = q.saw /\ e.fair = fair
      BY <1>0, <2>2, TaskEventIs
    <2>5. EventOK(e)
      BY <1>3, <2>1, <2>4 DEF RequestOK, EventOK
    <2>6. QED
      BY <1>3, <2>3, <2>4, <2>5
  <1>4. QED
    BY <1>0, <1>1, <1>2, <1>3

\* Types and counts of the requests in flight.
LEMMA WritersAre ==
  ASSUME AssignmentInv
  PROVE  /\ \A w \in InFlight : w \in Writer /\ writer[w] \in TaskRequests /\ RequestOK(writer[w])
         /\ \A w \in Writer : writer[w] \in TaskRequests => w \in InFlight
         /\ team \subseteq Staff \cup Guest /\ Assignable \subseteq Staff
         /\ changes \in Int /\ changes >= 0 /\ changes <= MaxChanges
         /\ IsFiniteSet(InFlight) /\ Cardinality(InFlight) \in Int /\ Cardinality(InFlight) >= 0
         /\ \A w \in InFlight : Cardinality(InFlight \ {w}) = Cardinality(InFlight) - 1
         /\ \A w \in Writer \ InFlight : Cardinality(InFlight \cup {w}) = Cardinality(InFlight) + 1
         /\ \A a \in Staff : tellings[a] \in Int /\ tellings[a] >= 0
  <1> USE AssignmentAssumption
  <1>1. \A w \in InFlight : w \in Writer /\ writer[w] \in TaskRequests /\ RequestOK(writer[w])
    BY DEF AssignmentInv, RequestsOK, InFlight
  <1>2. \A w \in Writer : writer[w] \in TaskRequests => w \in InFlight
    BY DEF InFlight, TaskRequests, NoWriter
  <1>3. IsFiniteSet(InFlight)
    BY FS_Subset DEF InFlight
  <1>4. Cardinality(InFlight) \in Nat
    BY <1>3, FS_CardinalityType
  <1>5. \A w \in InFlight : Cardinality(InFlight \ {w}) = Cardinality(InFlight) - 1
    BY <1>3, FS_RemoveElement
  <1>6. \A w \in Writer \ InFlight : Cardinality(InFlight \cup {w}) = Cardinality(InFlight) + 1
    BY <1>3, FS_AddElement
  <1>7. /\ team \subseteq Staff \cup Guest /\ Assignable \subseteq Staff
        /\ changes \in Int /\ changes >= 0 /\ changes <= MaxChanges
        /\ \A a \in Staff : tellings[a] \in Int /\ tellings[a] >= 0
    BY DEF AssignmentInv, AssignmentTypeOK, Assignable
  <1>8. Cardinality(InFlight) \in Int /\ Cardinality(InFlight) >= 0
    BY <1>4
  <1>9. QED
    BY <1>1, <1>2, <1>3, <1>5, <1>6, <1>7, <1>8

\* The invariant holds at the start.
LEMMA AssignmentInitInv == AssignmentInit => AssignmentInv
  <1> SUFFICES ASSUME AssignmentInit PROVE AssignmentInv
    OBVIOUS
  <1> USE AssignmentAssumption
  <1>1. InFlight = {}
    BY DEF AssignmentInit, InFlight
  <1>2. Cardinality(InFlight) = 0
    BY <1>1, FS_EmptySet
  <1>3. AssignmentTypeOK
    <2>1. tellings \in [Staff -> 0 .. MaxChanges] /\ 0 \in 0 .. MaxChanges
      BY DEF AssignmentInit
    <2>2. /\ team \subseteq Staff \cup Guest /\ assigned \subseteq Assignable /\ shown \in BOOLEAN
          /\ changes = 0 /\ notice \subseteq team \X BOOLEAN /\ crossed \subseteq Staff
      BY DEF AssignmentInit
    <2>3. emitted = {} /\ \A w \in Writer : writer[w] = NoWriter
      BY DEF AssignmentInit
    <2>4. QED
      BY <2>1, <2>2, <2>3 DEF AssignmentTypeOK
  <1>4. \A a \in Staff : tellings[a] = 0
    BY DEF AssignmentInit
  <1>5. writer \in [Writer -> {NoWriter} \cup TaskRequests]
    BY DEF AssignmentInit
  <1>6. changes = 0
    BY DEF AssignmentInit
  <1>7. changes + Cardinality(InFlight) <= MaxChanges /\ \A a \in Staff : tellings[a] <= changes
    BY <1>2, <1>4, <1>6
  <1>8. RequestsOK /\ EventsOK /\ NothingYet /\ RightPeopleTold
    BY <1>1 DEF AssignmentInit, RequestsOK, EventsOK, NothingYet, RightPeopleTold
  <1>9. QED
    BY <1>3, <1>5, <1>7, <1>8 DEF AssignmentInv

\* Somebody joins.
LEMMA JoinStep ==
  ASSUME AssignmentInv, NEW u \in Staff \cup Guest, JoinTeam(u)
  PROVE  AssignmentInv'
  <1>1. /\ team' = team \cup {u}
        /\ UNCHANGED <<assigned, shown, writer, changes, emitted, notice, tellings, crossed>>
    BY DEF JoinTeam
  <1>2. team \subseteq team' /\ team' \subseteq Staff \cup Guest /\ Assignable \subseteq Assignable'
    BY <1>1, WritersAre DEF Assignable
  <1>3. InFlight' = InFlight
    BY <1>1 DEF InFlight
  <1>4. RequestsOK'
    <2>1. ASSUME NEW w \in InFlight PROVE RequestOK(writer[w])'
      <3>1. RequestOK(writer[w])
        BY WritersAre
      <3>2. QED
        BY <1>1, <1>2, <3>1 DEF RequestOK
    <2>2. QED
      BY <1>3, <2>1 DEF RequestsOK
  <1>5. EventsOK'
    BY <1>1, <1>2 DEF AssignmentInv, EventsOK, EventOK
  <1>6. AssignmentTypeOK'
    BY <1>1, <1>2 DEF AssignmentInv, AssignmentTypeOK
  <1>7. NothingYet' /\ RightPeopleTold'
    BY <1>1, <1>3 DEF AssignmentInv, NothingYet, RightPeopleTold
  <1>8. QED
    BY <1>1, <1>3, <1>4, <1>5, <1>6, <1>7 DEF AssignmentInv

\* A request begins: what it asks for is allowed, and what it reads is what holds.
LEMMA RequestBegins ==
  ASSUME AssignmentInv, NEW w \in Writer, NEW pc \in {"update", "block", "comment"},
         NEW u \in team, NEW patch, patch.assignees \in SUBSET SUBSET Staff,
         patch.visible \in SUBSET BOOLEAN, patch.move \in Move,
         UNION patch.assignees \subseteq Assignable, \A S, T \in patch.assignees : S = T,
         pc # "update" => patch.assignees = {},
         pc = "comment" => patch.visible = {} /\ patch.move = "stay",
         Begin(w, pc, u, patch)
  PROVE  AssignmentInv'
  <1> USE AssignmentAssumption
  <1>0. PICK saw \in BOOLEAN, no \in BOOLEAN : saw = (pc = "comment" /\ shown) /\ no = FALSE
    BY DEF AssignmentInv, AssignmentTypeOK
  <1>1. PICK before :
          /\ saw = (pc = "comment" /\ shown) /\ no = FALSE
          /\ before = IF pc = "block" \/ patch.assignees # {} THEN assigned ELSE {}
    BY <1>0
  <1>2. PICK q : q = [pc |-> pc, actor |-> u, assignees |-> patch.assignees, visible |-> patch.visible,
                      move |-> patch.move, before |-> before, saw |-> saw, late |-> no]
    OBVIOUS
  <1>3. before \subseteq Assignable /\ before \in SUBSET Staff /\ u \in Staff \cup Guest
    BY <1>1, WritersAre DEF AssignmentInv, AssignmentTypeOK
  <1>4. /\ q \in TaskRequests /\ q.pc = pc /\ q.actor = u /\ q.assignees = patch.assignees
        /\ q.visible = patch.visible /\ q.move = patch.move /\ q.before = before
        /\ q.saw = saw /\ q.late = no
    BY <1>2, <1>3 DEF TaskRequests
  <1>5. /\ writer[w] = NoWriter /\ changes > 0 /\ changes + Cardinality(InFlight) < MaxChanges
        /\ writer' = [writer EXCEPT ![w] = q]
        /\ UNCHANGED <<team, assigned, shown, changes, emitted, notice, tellings, crossed>>
    BY <1>1, <1>2 DEF Begin, TaskExists
  <1>6. /\ writer' \in [Writer -> {NoWriter} \cup TaskRequests] /\ writer'[w] = q
        /\ \A v \in Writer \ {w} : writer'[v] = writer[v]
    BY <1>4, <1>5 DEF AssignmentInv
  <1>7. w \in Writer \ InFlight /\ InFlight' = InFlight \cup {w}
    <2>1. q # NoWriter
      BY <1>4 DEF NoWriter
    <2>2. QED
      BY <1>5, <1>6, <2>1 DEF InFlight
  <1>8. changes' + Cardinality(InFlight') <= MaxChanges
    BY <1>5, <1>7, WritersAre
  <1>9. RequestsOK'
    <2>1. ASSUME NEW v \in InFlight' PROVE RequestOK(writer[v])'
      <3>1. CASE v = w
        <4>1. /\ q.pc = "comment" /\ q.saw => shown
              /\ q.assignees # {} => q.before = assigned
          BY <1>1, <1>4
        <4>2. UNION q.assignees \subseteq Assignable'
          BY <1>4, <1>5 DEF Assignable
        <4>3. q.before \subseteq Assignable'
          BY <1>3, <1>4, <1>5 DEF Assignable
        <4>4. QED
          BY <1>4, <1>5, <1>6, <3>1, <4>1, <4>2, <4>3 DEF RequestOK
      <3>2. CASE v # w
        <4>1. v \in InFlight /\ writer'[v] = writer[v]
          BY <1>6, <1>7, <3>2 DEF InFlight
        <4>2. RequestOK(writer[v])
          BY <4>1, WritersAre
        <4>3. QED
          BY <1>5, <4>1, <4>2 DEF RequestOK, Assignable
      <3>3. QED
        BY <3>1, <3>2
    <2>2. QED
      BY <2>1 DEF RequestsOK
  <1>10. EventsOK' /\ RightPeopleTold' /\ NothingYet'
    <2>1. changes' # 0
      BY <1>5, WritersAre
    <2>2. QED
      BY <1>5, <2>1 DEF AssignmentInv, EventsOK, EventOK, Assignable, RightPeopleTold, NothingYet
  <1>11. AssignmentTypeOK'
    <2>1. \A v \in Writer : writer'[v] = NoWriter \/ writer'[v].before \subseteq Assignable'
      BY <1>9 DEF RequestsOK, RequestOK, InFlight
    <2>2. QED
      BY <1>5, <2>1 DEF AssignmentInv, AssignmentTypeOK, Assignable
  <1>12. QED
    BY <1>5, <1>6, <1>8, <1>9, <1>10, <1>11 DEF AssignmentInv

\* The requests there are.
LEMMA BeginSteps ==
  ASSUME AssignmentInv, NEW w \in Writer,
         \/ \E u \in Staff, patch \in TaskPatch : UpdateTask(w, u, patch)
         \/ \E u \in Staff \cup Guest :
              \/ \E visible \in {{}, {TRUE}} :
                   BlockTask(w, u, "unblocked", visible) \/ BlockTask(w, u, "blocked", visible)
              \/ CreateTaskComment(w, u)
  PROVE  AssignmentInv'
  <1> USE AssignmentAssumption
  <1>1. ASSUME NEW u \in Staff, NEW patch \in TaskPatch, UpdateTask(w, u, patch) PROVE AssignmentInv'
    <2>1. u \in team /\ UNION patch.assignees \subseteq Assignable /\ Begin(w, "update", u, patch)
      BY <1>1 DEF UpdateTask, Assignable
    <2>2. /\ patch.assignees \in SUBSET SUBSET Staff /\ patch.visible \in SUBSET BOOLEAN
          /\ patch.move \in Move /\ \A S, T \in patch.assignees : S = T
      OBVIOUS
    <2>3. QED
      BY <2>1, <2>2, RequestBegins
  <1>2. ASSUME NEW u \in Staff \cup Guest, NEW visible \in {{}, {TRUE}}, NEW move \in {"blocked", "unblocked"},
               BlockTask(w, u, move, visible)
        PROVE  AssignmentInv'
    <2>1. PICK patch : patch = [assignees |-> {}, visible |-> visible, move |-> move]
      OBVIOUS
    <2>2. patch.assignees = {} /\ patch.visible = visible /\ patch.move = move
      BY <2>1
    <2>3. u \in team /\ Begin(w, "block", u, patch)
      BY <1>2, <2>1 DEF BlockTask
    <2>4. /\ patch.assignees \in SUBSET SUBSET Staff /\ patch.visible \in SUBSET BOOLEAN
          /\ patch.move \in Move /\ UNION patch.assignees \subseteq Assignable
          /\ \A S, T \in patch.assignees : S = T
      BY <2>2 DEF Move
    <2>5. QED
      BY <2>2, <2>3, <2>4, RequestBegins
  <1>3. ASSUME NEW u \in Staff \cup Guest, CreateTaskComment(w, u) PROVE AssignmentInv'
    <2>1. PICK patch : patch = [assignees |-> {}, visible |-> {}, move |-> "stay"]
      OBVIOUS
    <2>2. patch.assignees = {} /\ patch.visible = {} /\ patch.move = "stay"
      BY <2>1
    <2>3. u \in team /\ Begin(w, "comment", u, patch)
      BY <1>3, <2>1 DEF CreateTaskComment
    <2>4. /\ patch.assignees \in SUBSET SUBSET Staff /\ patch.visible \in SUBSET BOOLEAN
          /\ patch.move \in Move /\ UNION patch.assignees \subseteq Assignable
          /\ \A S, T \in patch.assignees : S = T
      BY <2>2 DEF Move
    <2>5. QED
      BY <2>2, <2>3, <2>4, RequestBegins
  <1>4. QED
    BY <1>1, <1>2, <1>3

\* A request fails.
LEMMA WriteFailsStep ==
  ASSUME AssignmentInv, NEW w \in Writer, WriteFails(w)
  PROVE  AssignmentInv'
  <1>1. /\ writer[w] # NoWriter /\ writer' = [writer EXCEPT ![w] = NoWriter]
        /\ UNCHANGED <<team, assigned, shown, changes, emitted, notice, tellings, crossed>>
    BY DEF WriteFails
  <1>2. /\ writer' \in [Writer -> {NoWriter} \cup TaskRequests] /\ writer'[w] = NoWriter
        /\ \A v \in Writer \ {w} : writer'[v] = writer[v]
    BY <1>1 DEF AssignmentInv
  <1>3. w \in InFlight /\ InFlight' = InFlight \ {w}
    BY <1>1, <1>2 DEF InFlight
  <1>4. changes' + Cardinality(InFlight') <= MaxChanges
    <2>1. changes + Cardinality(InFlight) <= MaxChanges /\ MaxChanges \in Int
      BY AssignmentAssumption DEF AssignmentInv
    <2>2. Cardinality(InFlight') = Cardinality(InFlight) - 1 /\ Cardinality(InFlight) \in Int
      BY <1>3, WritersAre
    <2>3. changes \in Int
      BY WritersAre
    <2>4. QED
      BY <1>1, <2>1, <2>2, <2>3
  <1>5. RequestsOK'
    <2>1. ASSUME NEW v \in InFlight' PROVE RequestOK(writer[v])'
      <3>1. v \in InFlight /\ writer'[v] = writer[v]
        BY <1>2, <1>3 DEF InFlight
      <3>2. RequestOK(writer[v])
        BY <3>1, WritersAre
      <3>3. QED
        BY <1>1, <3>1, <3>2 DEF RequestOK, Assignable
    <2>2. QED
      BY <2>1 DEF RequestsOK
  <1>6. EventsOK' /\ RightPeopleTold' /\ NothingYet'
    BY <1>1, <1>3 DEF AssignmentInv, EventsOK, EventOK, Assignable, RightPeopleTold, NothingYet
  <1>7. AssignmentTypeOK'
    <2>1. \A v \in Writer : writer'[v] = NoWriter \/ writer'[v].before \subseteq Assignable'
      BY <1>5 DEF RequestsOK, RequestOK, InFlight
    <2>2. QED
      BY <1>1, <2>1 DEF AssignmentInv, AssignmentTypeOK, Assignable
  <1>8. QED
    BY <1>1, <1>2, <1>4, <1>5, <1>6, <1>7 DEF AssignmentInv

\* The task is created.
LEMMA CreateTaskStep ==
  ASSUME AssignmentInv, NEW u \in Staff, NEW S \in SUBSET Staff, NEW visible \in BOOLEAN,
         CreateTask(u, S, visible)
  PROVE  AssignmentInv'
  <1> USE AssignmentAssumption
  <1>1. /\ ~ (changes > 0) /\ u \in Assignable /\ S \subseteq Assignable
        /\ changes < MaxChanges /\ changes' = changes + 1
        /\ assigned' = S /\ shown' = visible /\ emitted' = AssignedEvents(u, S)
        /\ tellings' = Tellings(u, S, S \ {u}) /\ UNCHANGED <<team, writer, notice, crossed>>
    BY DEF CreateTask, TaskExists
  <1>2. changes = 0 /\ changes' = 1 /\ MaxChanges >= 1
    BY <1>1, WritersAre
  <1>3. assigned = {} /\ InFlight = {} /\ InFlight' = {}
    <2>1. InFlight' = InFlight
      BY <1>1 DEF InFlight
    <2>2. QED
      BY <1>2, <2>1 DEF AssignmentInv, NothingYet
  <1>4. \A a \in Staff : tellings'[a] = IF a \in S THEN 1 ELSE 0
    BY <1>1, <1>3 DEF Tellings
  <1>5. tellings' \in [Staff -> 0 .. MaxChanges]
    <2>1. tellings' = [a \in Staff |-> tellings'[a]]
      BY <1>1 DEF Tellings
    <2>2. \A a \in Staff : tellings'[a] \in 0 .. MaxChanges
      BY <1>2, <1>4
    <2>3. QED
      BY <2>1, <2>2
  <1>6. RequestsOK' /\ NothingYet'
    BY <1>2, <1>3 DEF RequestsOK, NothingYet
  <1>7. EventsOK'
    <2>1. ASSUME NEW e \in AssignedEvents(u, S) PROVE EventOK(e)
      BY <1>1, AssignedIs DEF EventOK, Assignable
    <2>2. QED
      BY <1>1, <2>1 DEF EventsOK, EventOK, Assignable
  <1>8. RightPeopleTold'
    BY <1>1, <1>4 DEF AssignmentInv, RightPeopleTold
  <1>9. AssignmentTypeOK'
    <2>1. \A w \in Writer : writer'[w] = NoWriter
      BY <1>3 DEF InFlight
    <2>2. changes' \in 0 .. MaxChanges /\ assigned' \subseteq Assignable'
      BY <1>1, <1>2 DEF Assignable
    <2>3. QED
      BY <1>1, <1>5, <1>7, <2>1, <2>2 DEF AssignmentInv, AssignmentTypeOK, EventsOK, EventOK
  <1>10. changes' + Cardinality(InFlight') <= MaxChanges
    BY <1>2, <1>3, FS_EmptySet
  <1>11. \A a \in Staff : tellings'[a] <= changes'
    BY <1>2, <1>4
  <1>12. QED
    BY <1>1, <1>6, <1>7, <1>8, <1>9, <1>10, <1>11 DEF AssignmentInv

\* The option of an update, or what it leaves: the assignees after it, and visibility.
LEMMA AfterIs ==
  ASSUME AssignmentInv, NEW q \in TaskRequests, RequestOK(q)
  PROVE  /\ ListAfter(q) \subseteq Assignable
         /\ q.assignees = {} => ListAfter(q) = assigned
         /\ q.assignees # {} => UNION q.assignees = ListAfter(q)
         /\ ShownAfter(q) \in BOOLEAN
         /\ q.visible = {} /\ q.move = "stay" => ShownAfter(q) = shown
  <1>1. /\ assigned \subseteq Assignable /\ shown \in BOOLEAN
    BY DEF AssignmentInv, AssignmentTypeOK
  <1>2. q.visible \subseteq BOOLEAN
    BY DEF TaskRequests
  <1>3. ASSUME q.assignees # {}
        PROVE  UNION q.assignees = ListAfter(q) /\ ListAfter(q) \subseteq Assignable
    <2>1. ListAfter(q) \in q.assignees
      BY <1>3 DEF ListAfter, Or
    <2>2. UNION q.assignees = ListAfter(q)
      BY <2>1 DEF RequestOK
    <2>3. QED
      BY <2>2 DEF RequestOK
  <1>4. ASSUME q.assignees = {} PROVE ListAfter(q) = assigned
    BY <1>4 DEF ListAfter, Or
  <1>5. ShownAfter(q) \in BOOLEAN
    <2>1. CASE q.visible = {}
      BY <1>1, <2>1 DEF ShownAfter, Or
    <2>2. CASE q.visible # {}
      <3>1. Or(q.visible, shown) \in q.visible
        BY <2>2 DEF Or
      <3>2. QED
        BY <1>2, <3>1 DEF ShownAfter
    <2>3. QED
      BY <2>1, <2>2
  <1>6. q.visible = {} /\ q.move = "stay" => ShownAfter(q) = shown
    BY DEF ShownAfter, Or
  <1>7. QED
    BY <1>1, <1>3, <1>4, <1>5, <1>6

\* The transaction of a request commits.
LEMMA WriteStep ==
  ASSUME AssignmentInv, NEW w \in Writer, CommitWrite(w)
  PROVE  AssignmentInv'
  <1> USE AssignmentAssumption
  <1>1. PICK q : q = writer[w]
    OBVIOUS
  <1>2. w \in InFlight /\ q \in TaskRequests /\ RequestOK(q)
    <2>1. w \in InFlight
      BY DEF CommitWrite, InFlight
    <2>2. QED
      BY <1>1, <2>1, WritersAre
  <1>3. PICK S : S = ListAfter(q)
    OBVIOUS
  <1>23. PICK visible \in BOOLEAN : visible = ShownAfter(q)
    BY <1>2, AfterIs
  <1>4. PICK E : E = Emits(q, S, visible)
    OBVIOUS
  <1>5. PICK T : T = UNION {e.to : e \in {f \in E : f.type = "assigned"}}
    OBVIOUS
  <1>6. /\ changes' = changes + 1 /\ assigned' = S /\ shown' = visible /\ emitted' = emitted \cup E
        /\ tellings' = Tellings(q.actor, S, T)
        /\ crossed' = (IF q.late THEN crossed \cup UNION q.assignees ELSE crossed) \cap S
        /\ UNCHANGED <<team, notice>>
    BY <1>1, <1>3, <1>23, <1>4, <1>5 DEF CommitWrite
  <1>7. /\ S \subseteq Assignable
        /\ q.assignees = {} => S = assigned
        /\ q.assignees # {} => UNION q.assignees = S
        /\ q.visible = {} /\ q.move = "stay" => visible = shown
    BY <1>2, <1>3, <1>23, AfterIs
  <1>8. /\ \A e \in E : EventOK(e)
        /\ \A a : a \in T <=> q.pc = "update" /\ a \in NewAssignees(q) /\ a # q.actor
    <2>1. q.pc = "comment" /\ q.saw => visible \/ q.late
      BY <1>2, <1>7 DEF RequestOK
    <2>2. /\ \A e \in E : EventOK(e)
          /\ \A a : (\E e \in E : e.type = "assigned" /\ a \in e.to)
                     <=> q.pc = "update" /\ a \in NewAssignees(q) /\ a # q.actor
      BY <1>2, <1>4, <1>7, <2>1, EmittedIs
    <2>3. \A a : a \in T <=> \E e \in E : e.type = "assigned" /\ a \in e.to
      BY <1>5
    <2>4. QED
      BY <2>2, <2>3
  <1>9. Assignable' = Assignable
    BY <1>6 DEF Assignable
  <1>10. ASSUME NEW v \in InFlight \ {w}
         PROVE  /\ writer'[v] \in TaskRequests
                /\ \/ writer'[v] = writer[v] /\ S = assigned /\ visible = shown
                   \/ /\ writer'[v].late
                      /\ writer'[v].pc = writer[v].pc /\ writer'[v].actor = writer[v].actor
                      /\ writer'[v].assignees = writer[v].assignees
                      /\ writer'[v].visible = writer[v].visible /\ writer'[v].move = writer[v].move
                      /\ writer'[v].before = writer[v].before
    <2>1. writer[v] \in TaskRequests /\ v \in Writer
      BY WritersAre
    <2>2. PICK yes \in BOOLEAN : yes = TRUE
      OBVIOUS
    <2>3. PICK x : x = [writer[v] EXCEPT !.late = yes]
      OBVIOUS
    <2>4. /\ x \in TaskRequests /\ x.late = yes /\ x.pc = writer[v].pc /\ x.actor = writer[v].actor
          /\ x.assignees = writer[v].assignees /\ x.visible = writer[v].visible
          /\ x.move = writer[v].move /\ x.before = writer[v].before
      BY <2>1, <2>3 DEF TaskRequests
    <2>5. writer'[v] = IF S # assigned \/ visible # shown THEN x ELSE writer[v]
      BY <1>1, <1>3, <1>23, <2>1, <2>2, <2>3 DEF CommitWrite
    <2>6. CASE S # assigned \/ visible # shown
      BY <2>2, <2>4, <2>5, <2>6
    <2>7. CASE S = assigned /\ visible = shown
      BY <2>1, <2>5, <2>7
    <2>8. QED
      BY <2>6, <2>7
  <1>11. /\ writer' \in [Writer -> {NoWriter} \cup TaskRequests] /\ InFlight' = InFlight \ {w}
    <2>1. writer' = [v \in Writer |-> writer'[v]] /\ writer'[w] = NoWriter
      BY DEF CommitWrite
    <2>2. \A v \in Writer \ InFlight : v # w /\ writer'[v] = NoWriter
      BY <1>2 DEF CommitWrite, InFlight
    <2>3. \A v \in InFlight \ {w} : writer'[v] \in TaskRequests /\ writer'[v] # NoWriter
      BY <1>10 DEF TaskRequests, NoWriter
    <2>4. \A v \in Writer : writer'[v] \in {NoWriter} \cup TaskRequests
      BY <2>1, <2>2, <2>3
    <2>5. InFlight' = InFlight \ {w}
      <3>1. \A v : v \in InFlight' <=> v \in Writer /\ writer'[v] # NoWriter
        BY DEF InFlight
      <3>2. \A v \in InFlight : v \in Writer
        BY WritersAre
      <3>3. QED
        BY <2>1, <2>2, <2>3, <3>1, <3>2
    <2>6. QED
      BY <2>1, <2>4, <2>5
  <1>12. RequestsOK'
    <2>1. ASSUME NEW v \in InFlight' PROVE RequestOK(writer[v])'
      <3>1. v \in InFlight \ {w}
        BY <1>11
      <3>2. RequestOK(writer[v])
        BY <3>1, WritersAre
      <3>3. CASE writer'[v] = writer[v] /\ S = assigned /\ visible = shown
        BY <1>6, <1>9, <3>2, <3>3 DEF RequestOK
      <3>4. CASE /\ writer'[v].late
                 /\ writer'[v].pc = writer[v].pc /\ writer'[v].actor = writer[v].actor
                 /\ writer'[v].assignees = writer[v].assignees
                 /\ writer'[v].visible = writer[v].visible /\ writer'[v].move = writer[v].move
                 /\ writer'[v].before = writer[v].before
        BY <1>6, <1>9, <3>2, <3>4 DEF RequestOK
      <3>5. QED
        BY <1>10, <3>1, <3>3, <3>4
    <2>2. QED
      BY <2>1 DEF RequestsOK
  <1>13. EventsOK'
    <2>1. ASSUME NEW e \in emitted' PROVE EventOK(e)
      BY <1>6, <1>8 DEF AssignmentInv, EventsOK
    <2>2. QED
      BY <1>6, <1>9, <2>1 DEF EventsOK, EventOK
  <1>14. changes' + Cardinality(InFlight') <= MaxChanges /\ changes' \in 0 .. MaxChanges
    <2>1. changes + Cardinality(InFlight) <= MaxChanges /\ MaxChanges \in Int
      BY DEF AssignmentInv
    <2>2. /\ Cardinality(InFlight') = Cardinality(InFlight) - 1 /\ Cardinality(InFlight) \in Int
          /\ Cardinality(InFlight') >= 0
      <3>1. Cardinality(InFlight') = Cardinality(InFlight) - 1 /\ Cardinality(InFlight) \in Int
        BY <1>2, <1>11, WritersAre
      <3>2. IsFiniteSet(InFlight')
        BY <1>11, WritersAre, FS_Subset
      <3>3. Cardinality(InFlight') \in Nat
        BY <3>2, FS_CardinalityType
      <3>4. QED
        BY <3>1, <3>3
    <2>3. changes \in Int /\ changes >= 0
      BY WritersAre
    <2>4. QED
      BY <1>6, <2>1, <2>2, <2>3
  <1>15. \A a \in Staff :
           tellings'[a] = IF a \notin S THEN 0
                          ELSE (IF a \in assigned THEN tellings[a] ELSE 0)
                               + (IF a \in T \/ (a = q.actor /\ a \notin assigned) THEN 1 ELSE 0)
    BY <1>6 DEF Tellings
  <1>16. \A a \in Staff : tellings'[a] \in Int /\ tellings'[a] >= 0 /\ tellings'[a] <= changes'
    <2>1. ASSUME NEW a \in Staff
          PROVE  tellings'[a] \in Int /\ tellings'[a] >= 0 /\ tellings'[a] <= changes'
      <3>1. /\ tellings[a] \in Int /\ tellings[a] >= 0 /\ tellings[a] <= changes /\ changes \in Int
            /\ changes >= 0
        BY WritersAre DEF AssignmentInv
      <3>2. tellings'[a] \in {0, 1, tellings[a], tellings[a] + 1}
        BY <1>15, <3>1
      <3>3. QED
        BY <1>6, <3>1, <3>2
    <2>2. QED
      BY <2>1
  <1>17. tellings' \in [Staff -> 0 .. MaxChanges]
    <2>1. tellings' = [a \in Staff |-> tellings'[a]]
      BY <1>6 DEF Tellings
    <2>2. \A a \in Staff : tellings'[a] \in 0 .. MaxChanges
      BY <1>14, <1>16
    <2>3. QED
      BY <2>1, <2>2
  <1>18. RightPeopleTold'
    <2>1. ASSUME NEW a \in S, a \notin crossed' PROVE tellings'[a] = 1
      <3>1. a \in Staff
        BY <1>7, WritersAre
      <3>2. a \notin crossed /\ ~ (q.late /\ a \in UNION q.assignees)
        BY <1>6, <2>1
      <3>3. CASE q.assignees = {}
        <4>1. a \in assigned /\ a \notin T
          BY <1>7, <1>8, <3>3 DEF NewAssignees
        <4>2. tellings[a] = 1
          BY <3>2, <4>1 DEF AssignmentInv, RightPeopleTold
        <4>3. QED
          BY <1>15, <3>1, <4>1, <4>2
      <3>4. CASE q.assignees # {}
        <4>1. UNION q.assignees = S /\ ~ q.late
          BY <1>7, <3>2, <3>4
        <4>2. q.pc = "update" /\ q.before = assigned
          BY <1>2, <3>4, <4>1 DEF RequestOK, TaskRequests
        <4>3. a \in T <=> a \notin assigned /\ a # q.actor
          BY <1>8, <4>1, <4>2 DEF NewAssignees
        <4>4. a \in assigned => tellings[a] = 1
          BY <3>2 DEF AssignmentInv, RightPeopleTold
        <4>5. QED
          BY <1>15, <3>1, <4>3, <4>4
      <3>5. QED
        BY <3>3, <3>4
    <2>2. QED
      BY <1>6, <2>1 DEF AssignmentInv, RightPeopleTold
  <1>19. NothingYet'
    BY <1>6, WritersAre DEF NothingYet
  <1>20. AssignmentTypeOK'
    <2>1. \A v \in Writer : writer'[v] = NoWriter \/ writer'[v].before \subseteq Assignable'
      BY <1>12 DEF RequestsOK, RequestOK, InFlight
    <2>2. crossed' \subseteq Staff
      BY <1>6, <1>7, WritersAre
    <2>3. /\ team' \subseteq Staff \cup Guest /\ assigned' \subseteq Assignable' /\ shown' \in BOOLEAN
          /\ notice' \subseteq team' \X BOOLEAN
      BY <1>6, <1>7, <1>9 DEF AssignmentInv, AssignmentTypeOK
    <2>4. \A e \in emitted' : e.actor \in team' /\ e.to \subseteq Assignable'
      BY <1>13 DEF EventsOK, EventOK
    <2>5. QED
      BY <1>14, <1>17, <2>1, <2>2, <2>3, <2>4 DEF AssignmentTypeOK
  <1>21. QED
    BY <1>11, <1>12, <1>13, <1>14, <1>16, <1>18, <1>19, <1>20 DEF AssignmentInv

\* An event is delivered: no client among those it names, and none of those who are told
\* without being named unless the task could be seen.
LEMMA NotifyStep ==
  ASSUME AssignmentInv, NEW e \in emitted, NotifyOfTask(e)
  PROVE  AssignmentInv'
  <1>1. /\ notice' = notice \cup (TaskRecipients(e) \X {e.fair})
        /\ UNCHANGED <<team, assigned, shown, writer, changes, emitted, tellings, crossed>>
    BY DEF NotifyOfTask
  <1>2. EventOK(e)
    BY DEF AssignmentInv, EventsOK
  <1>3. TaskRecipients(e) \subseteq team
    BY DEF TaskRecipients
  <1>4. \A u \in TaskRecipients(e) : u \in Guest => e.fair
    <2>1. \A u \in TaskRecipients(e) : u \in e.to \/ e.external \/ u \in Staff
      BY DEF TaskRecipients
    <2>2. QED
      BY <1>2, <2>1, AssignmentAssumption DEF EventOK, Assignable
  <1>5. \A n \in notice' : n[1] \in Guest => n[2]
    BY <1>1, <1>4 DEF AssignmentInv, RightPeopleTold
  <1>6. notice' \subseteq team \X BOOLEAN
    BY <1>1, <1>2, <1>3 DEF AssignmentInv, AssignmentTypeOK, EventOK
  <1>7. AssignmentTypeOK'
    BY <1>1, <1>6 DEF AssignmentInv, AssignmentTypeOK, Assignable
  <1>8. RequestsOK' /\ EventsOK' /\ NothingYet' /\ InFlight' = InFlight
    BY <1>1 DEF AssignmentInv, RequestsOK, RequestOK, EventsOK, EventOK, NothingYet, InFlight, Assignable
  <1>9. RightPeopleTold'
    BY <1>1, <1>5 DEF AssignmentInv, RightPeopleTold
  <1>10. QED
    BY <1>1, <1>7, <1>8, <1>9 DEF AssignmentInv

\* Every step of assignments keeps the invariant.
LEMMA AssignmentStep == AssignmentInv /\ [AssignmentNext]_assignmentVars => AssignmentInv'
  <1> SUFFICES ASSUME AssignmentInv, [AssignmentNext]_assignmentVars PROVE AssignmentInv'
    OBVIOUS
  <1>1. CASE UNCHANGED assignmentVars
    BY <1>1 DEF assignmentVars, AssignmentInv, AssignmentTypeOK, RequestsOK, RequestOK, EventsOK,
                EventOK, NothingYet, RightPeopleTold, InFlight, Assignable
  <1>2. CASE AssignmentNext
    <2>1. CASE \E u \in Staff \cup Guest : JoinTeam(u)
      BY <2>1, JoinStep
    <2>2. CASE \E u \in Staff, S \in SUBSET Staff, visible \in BOOLEAN : CreateTask(u, S, visible)
      BY <2>2, CreateTaskStep
    <2>3. CASE \E w \in Writer : CommitWrite(w) \/ WriteFails(w)
      BY <2>3, WriteStep, WriteFailsStep
    <2>4. CASE \E e \in emitted : NotifyOfTask(e)
      BY <2>4, NotifyStep
    <2>5. ASSUME NEW w \in Writer,
                 \/ \E u \in Staff, patch \in TaskPatch : UpdateTask(w, u, patch)
                 \/ \E u \in Staff \cup Guest :
                      \/ \E visible \in {{}, {TRUE}} :
                           BlockTask(w, u, "unblocked", visible) \/ BlockTask(w, u, "blocked", visible)
                      \/ CreateTaskComment(w, u)
          PROVE  AssignmentInv'
      BY <2>5, BeginSteps
    <2>6. QED
      BY <1>2, <2>1, <2>2, <2>3, <2>4, <2>5 DEF AssignmentNext
  <1>3. QED
    BY <1>1, <1>2

\* The variables of assignments keep their types: whoever is assigned, or named by an
\* event, is a worker or administrator of the project.
THEOREM AssignmentTypeCorrect == AssignmentSpec => []AssignmentTypeOK
  <1>1. AssignmentInv => AssignmentTypeOK
    BY DEF AssignmentInv
  <1>2. QED
    BY <1>1, AssignmentInitInv, AssignmentStep, PTL DEF AssignmentSpec

\* Every assignee is told exactly once of the assignment that holds, unless updates
\* overlapped, and no client of what happened to a task that was hidden: for any number
\* of people, requests in flight and deliveries.
THEOREM AssignmentRightPeopleTold == AssignmentSpec => []RightPeopleTold
  <1>1. AssignmentInv => RightPeopleTold
    BY DEF AssignmentInv
  <1>2. QED
    BY <1>1, AssignmentInitInv, AssignmentStep, PTL DEF AssignmentSpec

-----------------------------------------------------------------------------
(* Columns.                                                                *)

\* The columns of a board, finitely many, have positions of their own, none of them negative, and an
\* edit is of a column that is there.
ColumnsInv ==
  /\ ColumnsTypeOK
  /\ Distinct(position)
  /\ \A c \in Placed : position[c] \in 0 .. MaxPosition
  /\ \A e \in Editor : edit[e].pc = "move" => edit[e].column \in Placed
  /\ IsFiniteSet(Placed)

\* Where a column in the way of a move ends up.
Along(x, from, to) ==
  IF to > from THEN IF x > from /\ x <= to THEN x - 1 ELSE x
  ELSE IF x >= to /\ x < from THEN x + 1 ELSE x

\* The index accepts every statement, and the last one holds.
LEMMA LastOfThree ==
  ASSUME NEW p1, NEW p2, NEW p3, NEW s, s = <<p1, p2, p3>>
  PROVE  Final(s) = p3 /\ (Accepted(s) => Distinct(p1) /\ Distinct(p2) /\ Distinct(p3))
  <1>1. DOMAIN s = 1 .. 3 /\ s[1] = p1 /\ s[2] = p2 /\ s[3] = p3
    OBVIOUS
  <1>2. Cardinality(1 .. 3) = 3
    <2>1. 1 \in Int /\ 3 \in Int
      OBVIOUS
    <2>2. Cardinality(1 .. 3) = IF 1 > 3 THEN 0 ELSE 3 - 1 + 1
      BY <2>1, FS_Interval, Zenon
    <2>3. QED
      BY <2>2
  <1>3. Final(s) = p3
    BY <1>1, <1>2 DEF Final
  <1>4. QED
    BY <1>1, <1>3 DEF Accepted

\* The same for four statements.
LEMMA LastOfFour ==
  ASSUME NEW p1, NEW p2, NEW p3, NEW p4, NEW s, s = <<p1, p2, p3, p4>>
  PROVE  Final(s) = p4 /\ (Accepted(s) => Distinct(p2) /\ Distinct(p4))
  <1>1. DOMAIN s = 1 .. 4 /\ s[2] = p2 /\ s[4] = p4
    OBVIOUS
  <1>2. Cardinality(1 .. 4) = 4
    <2>1. 1 \in Int /\ 4 \in Int
      OBVIOUS
    <2>2. Cardinality(1 .. 4) = IF 1 > 4 THEN 0 ELSE 4 - 1 + 1
      BY <2>1, FS_Interval, Zenon
    <2>3. QED
      BY <2>2
  <1>3. Final(s) = p4
    BY <1>1, <1>2 DEF Final
  <1>4. QED
    BY <1>1, <1>3 DEF Accepted

\* The statements of a creation, if none is refused, make room and put the column there.
LEMMA CreatedIs ==
  ASSUME NEW c \in Column \ Placed, NEW n \in Nat, \A d \in Placed : position[d] \in Nat,
         Commit(CreatedAt(c, n))
  PROVE  /\ DOMAIN position' = Placed \cup {c} /\ position'[c] = n
         /\ \A d \in Placed : position'[d] = IF position[d] >= n THEN position[d] + 1 ELSE position[d]
         /\ Distinct(position') /\ \A d \in DOMAIN position' : position'[d] <= MaxPosition
         /\ position' = [d \in DOMAIN position' |-> position'[d]]
  <1>1. PICK p1 : p1 = [d \in Placed |-> IF position[d] >= n /\ position[d] >= 0 THEN -position[d] - 1 ELSE position[d]]
    OBVIOUS
  <1>2. PICK p2 : p2 = [d \in Placed |-> IF p1[d] < 0 THEN -p1[d] - 0 ELSE p1[d]]
    OBVIOUS
  <1>3. PICK p3 : p3 = Put(p2, c, n)
    OBVIOUS
  <1>4. DOMAIN p1 = Placed /\ DOMAIN p2 = Placed
    BY <1>1, <1>2
  <1>5. CreatedAt(c, n) = <<p1, p2, p3>>
    BY <1>1, <1>2, <1>3, <1>4 DEF CreatedAt, Negate, Placed
  <1>6. Distinct(p3) /\ position' = p3 /\ \A d \in DOMAIN p3 : p3[d] <= MaxPosition
    BY <1>5, LastOfThree DEF Commit
  <1>7. \A d \in Placed : p2[d] = IF position[d] >= n THEN position[d] + 1 ELSE position[d]
    BY <1>1, <1>2
  <1>8. DOMAIN p3 = Placed \cup {c} /\ p3[c] = n /\ \A d \in Placed : p3[d] = p2[d]
    BY <1>3, <1>4 DEF Put
  <1>9. p3 = [d \in DOMAIN p3 |-> p3[d]]
    BY <1>3 DEF Put
  <1>10. QED
    BY <1>6, <1>7, <1>8, <1>9

\* The same of a move, from a position that may be an old one.
LEMMA MovedIsTo ==
  ASSUME NEW c \in Placed, NEW from \in Nat, NEW to \in Nat, to # from,
         \A d \in Placed : position[d] \in Nat,
         Commit(MovedTo(c, from, to))
  PROVE  /\ DOMAIN position' = Placed /\ position'[c] = to
         /\ \A d \in Placed \ {c} : position'[d] = Along(position[d], from, to)
         /\ Distinct(position') /\ \A d \in DOMAIN position' : position'[d] <= MaxPosition
         /\ position' = [d \in DOMAIN position' |-> position'[d]]
  <1>1. PICK p1 : p1 = Put(position, c, -1)
    OBVIOUS
  <1>2. DOMAIN p1 = Placed /\ p1[c] = -1 /\ \A d \in Placed \ {c} : p1[d] = position[d]
    BY <1>1 DEF Put, Placed
  <1>3. PICK p2 : p2 = IF to > from
                       THEN [d \in Placed |-> IF p1[d] > from /\ p1[d] <= to THEN -p1[d] - 1 ELSE p1[d]]
                       ELSE [d \in Placed |-> IF p1[d] >= to /\ p1[d] < from THEN -p1[d] - 1 ELSE p1[d]]
    OBVIOUS
  <1>4. DOMAIN p2 = Placed
    BY <1>3
  <1>5. PICK p3 : p3 = [d \in Placed |-> IF p2[d] < -1 THEN -p2[d] - (IF to > from THEN 2 ELSE 0) ELSE p2[d]]
    OBVIOUS
  <1>6. PICK p4 : p4 = Put(p3, c, to)
    OBVIOUS
  <1>7. MovedTo(c, from, to) = <<p1, p2, p3, p4>>
    BY <1>1, <1>2, <1>3, <1>4, <1>5, <1>6 DEF MovedTo, Negate
  <1>8. Distinct(p2) /\ Distinct(p4) /\ position' = p4 /\ \A d \in DOMAIN p4 : p4[d] <= MaxPosition
    BY <1>7, LastOfFour DEF Commit
  <1>9. DOMAIN p4 = Placed /\ p4[c] = to /\ \A d \in Placed \ {c} : p4[d] = p3[d]
    BY <1>5, <1>6 DEF Put
  <1>10. ASSUME NEW d \in Placed \ {c} PROVE p3[d] = Along(position[d], from, to)
    <2>1. position[d] \in Nat /\ p1[d] = position[d] /\ p2[c] = -1
      BY <1>2, <1>3
    <2>2. p2[d] # -1
      BY <1>4, <1>8, <2>1 DEF Distinct
    <2>3. p2[d] = IF to > from
                  THEN IF position[d] > from /\ position[d] <= to THEN -position[d] - 1 ELSE position[d]
                  ELSE IF position[d] >= to /\ position[d] < from THEN -position[d] - 1 ELSE position[d]
      BY <1>3, <2>1
    <2>4. p3[d] = IF p2[d] < -1 THEN -p2[d] - (IF to > from THEN 2 ELSE 0) ELSE p2[d]
      BY <1>5
    <2>5. CASE to > from
      BY <2>1, <2>2, <2>3, <2>4, <2>5 DEF Along
    <2>6. CASE to < from
      BY <2>1, <2>2, <2>3, <2>4, <2>6 DEF Along
    <2>7. QED
      BY <2>5, <2>6
  <1>11. p4 = [d \in DOMAIN p4 |-> p4[d]]
    BY <1>6 DEF Put
  <1>12. QED
    BY <1>8, <1>9, <1>10, <1>11

Edits == [pc : {"move"}, column : Column, from : 0 .. MaxPosition, to : Place]

\* The fields of an edit, and positions as numbers.
LEMMA EditIs ==
  ASSUME ColumnsInv
  PROVE  /\ \A e \in Editor :
              /\ edit[e] = NoEdit <=> edit[e].pc # "move"
              /\ edit[e] # NoEdit =>
                   /\ edit[e].column \in Placed /\ edit[e].column \in Column
                   /\ edit[e].from \in Nat /\ edit[e].to \in Nat /\ edit[e].to \in Place
         /\ \A d \in Placed : position[d] \in Nat /\ position[d] <= MaxPosition
         /\ Placed \subseteq Column
         /\ edit \in [Editor -> {NoEdit} \cup Edits]
  <1> USE ColumnsAssumption
  <1>1. NoEdit.pc = "idle"
    BY DEF NoEdit
  <1>2. \A x \in Edits : /\ x.pc = "move" /\ x.column \in Column /\ x.from \in 0 .. MaxPosition
                         /\ x.to \in Place
    BY DEF Edits
  <1>3. edit \in [Editor -> {NoEdit} \cup Edits]
    BY DEF ColumnsInv, ColumnsTypeOK, Edits
  <1>4. \A i \in 0 .. MaxPosition : i \in Nat
    OBVIOUS
  <1>5. \A i \in Place : i \in Nat
    BY <1>4
  <1>6. ASSUME NEW e \in Editor
        PROVE  /\ edit[e] = NoEdit <=> edit[e].pc # "move"
               /\ edit[e] # NoEdit =>
                   /\ edit[e].column \in Placed /\ edit[e].column \in Column
                   /\ edit[e].from \in Nat /\ edit[e].to \in Nat /\ edit[e].to \in Place
    <2>1. edit[e] = NoEdit \/ edit[e] \in Edits
      BY <1>3
    <2>2. edit[e].pc = "move" => edit[e].column \in Placed
      BY DEF ColumnsInv
    <2>3. QED
      BY <1>1, <1>2, <1>4, <1>5, <2>1, <2>2
  <1>7. \A d \in Placed : position[d] \in Nat /\ position[d] <= MaxPosition
    BY DEF ColumnsInv
  <1>8. Placed \subseteq Column
    BY DEF ColumnsInv, ColumnsTypeOK
  <1>9. QED
    BY <1>3, <1>6, <1>7, <1>8

\* A move keeps the order of the other columns, and puts none before the first place.
LEMMA AlongKeeps ==
  ASSUME NEW x \in Nat, NEW y \in Nat, NEW from \in Nat, NEW to \in Nat, x < y
  PROVE  /\ Along(x, from, to) <= Along(y, from, to)
         /\ Along(x, from, to) \in Nat /\ Along(y, from, to) \in Nat
  BY DEF Along

\* A position after a move is a number.
LEMMA AlongType ==
  ASSUME NEW x \in Nat, NEW from \in Nat, NEW to \in Nat
  PROVE  Along(x, from, to) \in Nat
  BY DEF Along

\* What OneColumnMoves says of the columns' order.
OrderKept ==
  /\ \A c \in DOMAIN position' : position'[c] >= 0
  /\ \E c \in Column : SameOrder(position, position', Placed \ {c})

\* Whatever a transaction of an edit leaves is in order.
LEMMA PlacesKept ==
  ASSUME ColumnsInv, Placed \subseteq DOMAIN position', DOMAIN position' \subseteq Column,
         IsFiniteSet(DOMAIN position'),
         position' \in [DOMAIN position' -> Nat],
         Distinct(position'), \A d \in DOMAIN position' : position'[d] <= MaxPosition,
         edit' \in [Editor -> {NoEdit} \cup Edits],
         \A e \in Editor : edit'[e].pc = "move" => edit'[e].column \in Placed
  PROVE  ColumnsInv'
  <1> USE ColumnsAssumption
  <1>1. \A d \in DOMAIN position' : position'[d] \in Nat /\ position'[d] \in 0 .. MaxPosition
    OBVIOUS
  <1>2. Placed' = DOMAIN position'
    BY DEF Placed
  <1>3. position' \in [DOMAIN position' -> Int]
    OBVIOUS
  <1>4. ColumnsTypeOK'
    BY <1>2, <1>3 DEF ColumnsTypeOK, Edits
  <1>5. QED
    BY <1>1, <1>2, <1>4 DEF ColumnsInv, Placed

\* A column is created.
LEMMA CreateColumnStep ==
  ASSUME ColumnsInv, NEW c \in Column, NEW n \in Place, CreateTaskColumn(c, n)
  PROVE  ColumnsInv' /\ OrderKept /\ UNCHANGED edit
  <1> USE ColumnsAssumption
  <1>1. c \in Column \ Placed /\ Commit(CreatedAt(c, n)) /\ edit' = edit /\ n \in Nat
    BY DEF CreateTaskColumn
  <1>2. \A d \in Placed : position[d] \in Nat
    BY EditIs
  <1>3. /\ DOMAIN position' = Placed \cup {c} /\ position'[c] = n
        /\ \A d \in Placed : position'[d] = IF position[d] >= n THEN position[d] + 1 ELSE position[d]
        /\ Distinct(position') /\ \A d \in DOMAIN position' : position'[d] <= MaxPosition
        /\ position' = [d \in DOMAIN position' |-> position'[d]]
    BY <1>1, <1>2, CreatedIs
  <1>4. \A d \in DOMAIN position' : position'[d] \in Nat
    BY <1>1, <1>2, <1>3
  <1>5. position' \in [DOMAIN position' -> Nat]
    BY <1>3, <1>4
  <1>6. ColumnsInv'
    <2>1. /\ edit' \in [Editor -> {NoEdit} \cup Edits] /\ Placed \subseteq Column
          /\ \A e \in Editor : edit'[e].pc = "move" => edit'[e].column \in Placed
      BY <1>1, EditIs DEF ColumnsInv
    <2>2. IsFiniteSet(DOMAIN position')
      BY <1>3, FS_AddElement DEF ColumnsInv
    <2>3. QED
      BY <1>3, <1>5, <2>1, <2>2, PlacesKept
  <1>7. SameOrder(position, position', Placed \ {c})
    BY <1>2, <1>3 DEF SameOrder
  <1>8. OrderKept
    <2>1. \A d \in DOMAIN position' : position'[d] >= 0
      BY <1>4
    <2>2. QED
      BY <1>7, <2>1, Zenon DEF OrderKept
  <1>9. QED
    BY <1>1, <1>6, <1>8

\* A column is moved.
LEMMA MoveColumnStep ==
  ASSUME ColumnsInv, NEW e \in Editor, edit[e] # NoEdit, edit[e].to # edit[e].from,
         Commit(MovedTo(edit[e].column, edit[e].from, edit[e].to)),
         edit' = [edit EXCEPT ![e] = NoEdit]
  PROVE  ColumnsInv' /\ OrderKept
  <1> USE ColumnsAssumption
  <1>1. PICK c, from, to : c = edit[e].column /\ from = edit[e].from /\ to = edit[e].to
    OBVIOUS
  <1>2. c \in Placed /\ c \in Column /\ from \in Nat /\ to \in Nat /\ to # from
    BY <1>1, EditIs
  <1>3. \A d \in Placed : position[d] \in Nat
    BY EditIs
  <1>4. Commit(MovedTo(c, from, to))
    BY <1>1
  <1>5. /\ DOMAIN position' = Placed /\ position'[c] = to
        /\ \A d \in Placed \ {c} : position'[d] = Along(position[d], from, to)
        /\ Distinct(position') /\ \A d \in DOMAIN position' : position'[d] <= MaxPosition
        /\ position' = [d \in DOMAIN position' |-> position'[d]]
    BY <1>2, <1>3, <1>4, MovedIsTo
  <1>6. \A d \in DOMAIN position' : position'[d] \in Nat
    <2>1. ASSUME NEW d \in Placed \ {c} PROVE position'[d] \in Nat
      <3>1. position[d] \in Nat /\ position'[d] = Along(position[d], from, to)
        BY <1>3, <1>5
      <3>2. QED
        BY <1>2, <3>1, AlongType
    <2>2. QED
      BY <1>2, <1>5, <2>1
  <1>7. position' \in [DOMAIN position' -> Nat]
    BY <1>5, <1>6
  <1>8. ColumnsInv'
    <2>1. NoEdit.pc = "idle"
      BY DEF NoEdit
    <2>2. edit' \in [Editor -> {NoEdit} \cup Edits] /\ Placed \subseteq Column
      BY EditIs
    <2>3. \A f \in Editor : edit'[f].pc = "move" => edit'[f].column \in Placed
      BY <2>1, EditIs DEF ColumnsInv
    <2>4. QED
      BY <1>5, <1>7, <2>2, <2>3, PlacesKept DEF ColumnsInv
  <1>9. SameOrder(position, position', Placed \ {c})
    <2>1. ASSUME NEW d \in Placed \ {c}, NEW f \in Placed \ {c}, position[d] < position[f]
          PROVE  position'[d] < position'[f]
      <3>1. position'[d] <= position'[f] /\ position'[d] \in Nat /\ position'[f] \in Nat
        <4>1. /\ position[d] \in Nat /\ position'[d] = Along(position[d], from, to)
              /\ position[f] \in Nat /\ position'[f] = Along(position[f], from, to)
          BY <1>3, <1>5
        <4>2. PICK x \in Nat, y \in Nat : x = position[d] /\ y = position[f]
          BY <4>1
        <4>3. x < y /\ from \in Nat /\ to \in Nat
          BY <1>2, <2>1, <4>2
        <4>4. /\ Along(x, from, to) <= Along(y, from, to)
              /\ Along(x, from, to) \in Nat /\ Along(y, from, to) \in Nat
          BY <4>3, AlongKeeps
        <4>5. position'[d] = Along(x, from, to) /\ position'[f] = Along(y, from, to)
          BY <4>1, <4>2
        <4>6. QED
          BY <4>4, <4>5
      <3>2. d # f
        BY <1>3, <2>1
      <3>3. position'[d] # position'[f]
        BY <1>5, <3>2 DEF Distinct
      <3>4. QED
        BY <3>1, <3>3
    <2>2. QED
      BY <2>1 DEF SameOrder
  <1>10. OrderKept
    <2>1. \A d \in DOMAIN position' : position'[d] >= 0
      BY <1>6
    <2>2. QED
      BY <1>2, <1>9, <2>1, Zenon DEF OrderKept
  <1>11. QED
    BY <1>8, <1>10

\* Among columns without gaps, a move from the current position opens none.
LEMMA DenseKept ==
  ASSUME ColumnsInv, NEW c \in Placed, NEW to \in Nat, to # position[c],
         to < Cardinality(Placed), Dense(position), Commit(MovedTo(c, position[c], to))
  PROVE  Dense(position')
  <1>0. PICK from \in Nat : from = position[c]
    BY EditIs
  <1>1. PICK n : from = position[c] /\ n = Cardinality(Placed)
    BY <1>0
  <1>2. {position[d] : d \in Placed} = 0 .. n - 1
    BY <1>1 DEF Dense, Placed
  <1>3. \A d \in Placed : position[d] \in Nat
    BY EditIs
  <1>4. /\ DOMAIN position' = Placed /\ position'[c] = to
        /\ \A d \in Placed \ {c} : position'[d] = Along(position[d], from, to)
    BY <1>1, <1>3, MovedIsTo
  <1>5. n \in Nat
    BY <1>1, FS_CardinalityType DEF ColumnsInv
  <1>6. from \in 0 .. n - 1 /\ to \in 0 .. n - 1
    BY <1>1, <1>2, <1>5
  <1>7. ASSUME NEW d \in Placed PROVE position'[d] \in 0 .. n - 1
    <2>1. CASE d = c
      BY <1>4, <1>6, <2>1
    <2>2. CASE d # c
      <3>1. position[d] \in 0 .. n - 1 /\ position'[d] = Along(position[d], from, to)
        BY <1>2, <1>4, <2>2
      <3>2. QED
        BY <1>5, <1>6, <3>1 DEF Along
    <2>3. QED
      BY <2>1, <2>2
  <1>8. ASSUME NEW k \in 0 .. n - 1 PROVE \E d \in Placed : position'[d] = k
    <2>1. CASE k = to
      BY <1>4, <2>1
    <2>2. CASE k # to
      <3>1. PICK x \in 0 .. n - 1 : x # from /\ Along(x, from, to) = k
        <4>1. CASE to > from /\ from <= k /\ k < to
          <5>1. k + 1 \in 0 .. n - 1 /\ k + 1 # from /\ Along(k + 1, from, to) = k
            BY <1>5, <1>6, <4>1 DEF Along
          <5>2. QED
            BY <5>1
        <4>2. CASE to < from /\ to < k /\ k <= from
          <5>1. k - 1 \in 0 .. n - 1 /\ k - 1 # from /\ Along(k - 1, from, to) = k
            BY <1>5, <1>6, <4>2 DEF Along
          <5>2. QED
            BY <5>1
        <4>3. CASE ~ (to > from /\ from <= k /\ k < to) /\ ~ (to < from /\ to < k /\ k <= from)
          <5>1. k # from /\ Along(k, from, to) = k
            BY <1>1, <1>5, <1>6, <2>2, <4>3 DEF Along
          <5>2. QED
            BY <5>1
        <4>4. QED
          BY <4>1, <4>2, <4>3
      <3>2. PICK d \in Placed : position[d] = x
        BY <1>2
      <3>3. d # c
        BY <1>1, <3>1, <3>2
      <3>4. QED
        BY <1>4, <3>1, <3>2, <3>3
    <2>3. QED
      BY <2>1, <2>2
  <1>9. {position'[d] : d \in Placed} = 0 .. n - 1
    BY <1>7, <1>8
  <1>10. QED
    BY <1>1, <1>4, <1>9 DEF Dense

\* What OneColumnMoves says of columns without gaps.
GapsKept ==
  \A e \in Editor :
    /\ edit[e] # NoEdit /\ edit'[e] = NoEdit
    /\ edit[e].from = position[edit[e].column]
    /\ edit[e].to < Cardinality(Placed) /\ Dense(position)
    => Dense(position')

\* Columns that do not move are in order.
LEMMA StillStep ==
  ASSUME ColumnsInv, position' = position, Column # {},
         edit' \in [Editor -> {NoEdit} \cup Edits],
         \A e \in Editor : edit'[e].pc = "move" => edit'[e].column \in Placed
  PROVE  ColumnsInv' /\ OrderKept /\ GapsKept
  <1>1. DOMAIN position' = Placed /\ \A d \in Placed : position[d] \in Nat /\ position[d] <= MaxPosition
    BY EditIs DEF Placed
  <1>2. ColumnsInv'
    <2>1. ColumnsTypeOK'
      BY EditIs DEF ColumnsInv, ColumnsTypeOK, Edits, Placed
    <2>2. QED
      BY <1>1, <2>1 DEF ColumnsInv, Placed
  <1>3. OrderKept
    BY <1>1 DEF OrderKept, SameOrder
  <1>4. GapsKept
    BY DEF GapsKept
  <1>5. QED
    BY <1>2, <1>3, <1>4

\* Every step of the columns keeps the invariant, and what OneColumnMoves says.
LEMMA ColumnsStep ==
  ASSUME ColumnsInv, ColumnsNext
  PROVE  ColumnsInv' /\ OrderKept /\ GapsKept
  <1> USE ColumnsAssumption
  <1>1. ASSUME NEW c \in Column, NEW n \in Place, CreateTaskColumn(c, n)
        PROVE  ColumnsInv' /\ OrderKept /\ GapsKept
    <2>1. ColumnsInv' /\ OrderKept /\ edit' = edit
      BY <1>1, CreateColumnStep
    <2>2. QED
      BY <2>1 DEF GapsKept
  <1>2. ASSUME NEW e \in Editor, NEW c \in Column, NEW to \in Place, FindTaskColumn(e, c, to)
        PROVE  ColumnsInv' /\ OrderKept /\ GapsKept
    <2>1. PICK q : q = [pc |-> "move", column |-> c, from |-> position[c], to |-> to]
      OBVIOUS
    <2>2. c \in Placed /\ edit' = [edit EXCEPT ![e] = q] /\ position' = position
      BY <1>2, <2>1 DEF FindTaskColumn
    <2>3. position[c] \in 0 .. MaxPosition
      BY <2>2 DEF ColumnsInv
    <2>4. q \in Edits /\ q.column = c
      BY <2>1, <2>3 DEF Edits
    <2>5. edit' \in [Editor -> {NoEdit} \cup Edits]
      BY <2>2, <2>4, EditIs
    <2>6. \A f \in Editor : edit'[f].pc = "move" => edit'[f].column \in Placed
      BY <2>2, <2>4, EditIs DEF ColumnsInv
    <2>7. QED
      BY <2>2, <2>5, <2>6, StillStep
  <1>3. ASSUME NEW e \in Editor, edit[e] # NoEdit, edit' = [edit EXCEPT ![e] = NoEdit], position' = position
        PROVE  ColumnsInv' /\ OrderKept /\ GapsKept
    <2>1. edit' \in [Editor -> {NoEdit} \cup Edits] /\ Column # {}
      BY <1>3, EditIs
    <2>2. NoEdit.pc = "idle"
      BY DEF NoEdit
    <2>3. \A f \in Editor : edit'[f].pc = "move" => edit'[f].column \in Placed
      BY <1>3, <2>2, EditIs DEF ColumnsInv
    <2>4. QED
      BY <1>3, <2>1, <2>3, StillStep
  <1>4. ASSUME NEW e \in Editor, UpdateTaskColumn(e)
        PROVE  ColumnsInv' /\ OrderKept /\ GapsKept
    <2>1. edit[e] # NoEdit /\ edit' = [edit EXCEPT ![e] = NoEdit]
      BY <1>4 DEF UpdateTaskColumn
    <2>2. CASE edit[e].to = edit[e].from
      <3>1. position' = position
        BY <1>4, <2>2 DEF UpdateTaskColumn
      <3>2. QED
        BY <1>3, <2>1, <3>1
    <2>3. CASE edit[e].to # edit[e].from
      <3>1. Commit(MovedTo(edit[e].column, edit[e].from, edit[e].to))
        BY <1>4, <2>3 DEF UpdateTaskColumn
      <3>2. ColumnsInv' /\ OrderKept
        BY <2>1, <2>3, <3>1, MoveColumnStep
      <3>3. ASSUME NEW f \in Editor, edit[f] # NoEdit, edit'[f] = NoEdit,
                   edit[f].from = position[edit[f].column],
                   edit[f].to < Cardinality(Placed), Dense(position)
            PROVE  Dense(position')
        <4>1. f = e
          BY <2>1, <3>3, EditIs
        <4>2. edit[e].column \in Placed /\ edit[e].to \in Nat
          BY <2>1, EditIs
        <4>3. QED
          BY <2>3, <3>1, <3>3, <4>1, <4>2, DenseKept
      <3>4. QED
        BY <3>2, <3>3 DEF GapsKept
    <2>4. QED
      BY <2>2, <2>3
  <1>5. ASSUME NEW e \in Editor, EditFails(e)
        PROVE  ColumnsInv' /\ OrderKept /\ GapsKept
    BY <1>3, <1>5 DEF EditFails
  <1>6. QED
    BY <1>1, <1>2, <1>4, <1>5 DEF ColumnsNext

\* The columns of a new project are at 0, 1, ...
LEMMA ColumnsInitInv == ColumnsInit => ColumnsInv
  <1> SUFFICES ASSUME ColumnsInit PROVE ColumnsInv
    OBVIOUS
  <1> USE ColumnsAssumption
  <1>0. PICK n \in Nat : n = Len(DefaultColumns)
    OBVIOUS
  <1>1. PICK S : S = {DefaultColumns[i] : i \in 1 .. n}
    OBVIOUS
  <1>2. DOMAIN DefaultColumns = 1 .. n
    BY <1>0
  <1>3. position = [c \in S |-> CHOOSE p \in 0 .. n - 1 : DefaultColumns[p + 1] = c]
    BY <1>0, <1>1, <1>2 DEF ColumnsInit
  <1>4. Placed = S
    BY <1>3 DEF Placed
  <1>5. ASSUME NEW c \in S
        PROVE  position[c] \in 0 .. n - 1 /\ DefaultColumns[position[c] + 1] = c
    <2>1. PICK i \in 1 .. n : DefaultColumns[i] = c
      BY <1>1
    <2>2. i - 1 \in 0 .. n - 1 /\ (i - 1) + 1 = i
      OBVIOUS
    <2>3. \E p \in 0 .. n - 1 : DefaultColumns[p + 1] = c
      BY <2>1, <2>2
    <2>4. QED
      BY <1>3, <2>3
  <1>6. S \subseteq Column
    BY <1>0, <1>1
  <1>7. \A c \in S : position[c] \in 0 .. MaxPosition /\ position[c] \in Int
    BY <1>0, <1>5
  <1>8. Distinct(position)
    BY <1>4, <1>5 DEF Distinct, Placed
  <1>9. IsFiniteSet(S)
    <2>1. IsFiniteSet(1 .. n)
      BY FS_Interval
    <2>2. DefaultColumns \in [1 .. n -> S]
      BY <1>1, <1>2
    <2>3. DefaultColumns \in Surjection(1 .. n, S)
      BY <1>1, <2>2 DEF Surjection
    <2>4. QED
      BY <2>1, <2>3, FS_Surjection
  <1>10. \A e \in Editor : edit[e] = NoEdit /\ edit[e].pc # "move"
    BY DEF ColumnsInit, NoEdit
  <1>11. ColumnsTypeOK
    <2>1. position \in [S -> Int]
      BY <1>3, <1>7
    <2>2. edit \in [Editor -> {NoEdit}]
      BY DEF ColumnsInit
    <2>3. QED
      BY <1>4, <1>6, <2>1, <2>2 DEF ColumnsTypeOK
  <1>12. QED
    BY <1>4, <1>7, <1>8, <1>9, <1>10, <1>11 DEF ColumnsInv

\* A step of the columns, or none.
LEMMA ColumnsBoxStep == ColumnsInv /\ [ColumnsNext]_columnsVars => ColumnsInv'
  <1>1. ASSUME ColumnsInv, UNCHANGED columnsVars PROVE ColumnsInv'
    BY <1>1 DEF columnsVars, ColumnsInv, ColumnsTypeOK, Placed, Distinct
  <1>2. QED
    BY <1>1, ColumnsStep

\* The variables of the columns keep their types.
THEOREM ColumnsTypeCorrect == ColumnsSpec => []ColumnsTypeOK
  <1>1. ColumnsInv => ColumnsTypeOK
    BY DEF ColumnsInv
  <1>2. QED
    BY <1>1, ColumnsInitInv, ColumnsBoxStep, PTL DEF ColumnsSpec

\* Whatever an edit did on its way through the negative positions, and however old the
\* position it started from, the other columns keep their order and none is left at a
\* negative position; among columns without gaps it opens none: for any board.
THEOREM ColumnsOneMoves == ColumnsSpec => OneColumnMoves
  <1>1. ColumnsInv /\ [ColumnsNext]_columnsVars
          => [OrderKept /\ GapsKept]_columnsVars
    BY ColumnsStep
  <1>2. QED
    BY <1>1, ColumnsInitInv, ColumnsBoxStep, PTL DEF ColumnsSpec, OneColumnMoves, OrderKept, GapsKept

-----------------------------------------------------------------------------
(* The workspace.                                                          *)

\* A step of the workspace is a step of one component and leaves the others.
LEMMA StepsOfComponents ==
  [WorkspaceNext]_workspaceVars =>
    /\ UNCHANGED part
    /\ [FilesNext]_filesVars
    /\ [BreakerNext]_breakerVars
    /\ [ColumnsNext]_columnsVars
    /\ [ChangeRequestNext]_requestVars
    /\ [ChatNext]_chatVars
    /\ [AssignmentNext]_assignmentVars
    /\ [ProfileCacheNext]_cacheVars
  BY Zenon
  DEF WorkspaceNext, workspaceVars, StepOfFiles, StepOfBreaker, StepOfColumns,
      StepOfRequests, StepOfChat, StepOfTasks, StepOfProfiles

\* Every behaviour of the workspace is one of each of its components, so what
\* is proved of a component holds of the workspace whose runs TLC explores.
THEOREM WorkspaceImplementsComponents ==
  WorkspaceSpec => /\ FilesSpec
                   /\ BreakerSpec
                   /\ ColumnsSpec
                   /\ ChangeRequestSpec
                   /\ ChatSpec
                   /\ AssignmentSpec
                   /\ ProfileCacheSpec
  <1>1. WorkspaceInit => /\ FilesInit
                         /\ BreakerInit
                         /\ ColumnsInit
                         /\ ChangeRequestInit
                         /\ ChatInit
                         /\ AssignmentInit
                         /\ ProfileCacheInit
    BY DEF WorkspaceInit
  <1>2. QED
    BY <1>1, StepsOfComponents, PTL
    DEF WorkspaceSpec, FilesSpec, BreakerSpec, ColumnsSpec, ChangeRequestSpec, ChatSpec,
        AssignmentSpec, ProfileCacheSpec

\* Whichever part a behaviour of the workspace follows, its variables keep
\* their types.
THEOREM WorkspaceTypeCorrect == WorkspaceSpec => []WorkspaceTypeOK
  <1>1. WorkspaceInit => part \in Part
    BY DEF WorkspaceInit
  <1>2. part \in Part /\ [WorkspaceNext]_workspaceVars => (part \in Part)'
    BY StepsOfComponents
  <1>3. WorkspaceSpec => [](part \in Part)
    BY <1>1, <1>2, PTL DEF WorkspaceSpec
  <1>4. /\ part \in Part
        /\ FilesTypeOK /\ BreakerTypeOK /\ ColumnsTypeOK /\ ChangeRequestTypeOK
        /\ ChatTypeOK /\ AssignmentTypeOK /\ ProfileCacheTypeOK
        => WorkspaceTypeOK
    BY DEF Part, WorkspaceTypeOK
  <1>5. QED
    BY <1>3, <1>4, WorkspaceImplementsComponents, FilesTypeCorrect, BreakerTypeCorrect,
       ColumnsTypeCorrect, RequestTypeCorrect, ChatTypeCorrect, AssignmentTypeCorrect,
       CacheTypeCorrect, PTL
=============================================================================
