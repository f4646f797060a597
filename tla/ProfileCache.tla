---------------------------- MODULE ProfileCache ----------------------------
(***************************************************************************)
(* The cache of user profiles each process keeps over the identity replica.*)
(*                                                                         *)
(*   src/shared/identity-snapshot-store.ts                                 *)
(*                                                                         *)
(* The consumer of a process applies one identity event at a time, while   *)
(* its requests look profiles up.  An upsert writes the row and then the   *)
(* cache; a deletion clears the cache and then commits; a lookup reads the *)
(* row and then fills the cache.  What the events say is Identity's        *)
(* subject: here a snapshot is a version, or absent.                       *)
(***************************************************************************)
EXTENDS Integers

CONSTANTS
  Process,     \* API and worker processes
  NoProcess,
  Person,      \* user subs
  Lookup,      \* lookups that may be in flight at once
  MaxVersion   \* bound: upserts

ASSUME ProfileCacheAssumption == NoProcess \notin Process /\ MaxVersion \in Nat

VARIABLES
  snapshot,    \* user_identity_snapshots: version, 0 when there is no row
  version,     \* the last version written
  profile,     \* profileCache of each process: version, 0 when not cached
  lookup,      \* lookups between their SELECT and the cache
  change,      \* the event each process is applying
  changedBy,   \* history: the process that made the last change to the row
  overtaken    \* history: (process, user) whose entry was cached by a lookup that
               \* overlapped a change

cacheVars == <<snapshot, version, profile, lookup, change, changedBy, overtaken>>

NoLookup == [pc |-> "idle"]
NoChange == [op |-> "none"]

ProfileCacheInit ==
  /\ snapshot = [u \in Person |-> 0]
  /\ version = 0
  /\ profile = [p \in Process |-> [u \in Person |-> 0]]
  /\ lookup = [l \in Lookup |-> NoLookup]
  /\ change = [p \in Process |-> NoChange]
  /\ changedBy = [u \in Person |-> NoProcess]
  /\ overtaken = {}

Changing(p, u) == change[p] # NoChange /\ change[p].u = u

-----------------------------------------------------------------------------
(* Lookups.                                                                *)

\* A profile that is not cached is read; one that is cached is returned.
GetUserProfiles(l, p, u) ==
  /\ lookup[l] = NoLookup /\ profile[p][u] = 0 /\ snapshot[u] # 0
  /\ lookup' = [lookup EXCEPT ![l] = [pc |-> "read", p |-> p, u |-> u, row |-> snapshot[u]]]
  /\ UNCHANGED <<snapshot, version, profile, change, changedBy, overtaken>>

CacheProfile(l) ==
  /\ lookup[l] # NoLookup
  /\ LET p == lookup[l].p
         u == lookup[l].u
     IN  /\ profile' = [profile EXCEPT ![p][u] = lookup[l].row]
         /\ overtaken' = IF lookup[l].row # snapshot[u] \/ Changing(p, u)
                         THEN overtaken \cup {<<p, u>>} ELSE overtaken
  /\ lookup' = [lookup EXCEPT ![l] = NoLookup]
  /\ UNCHANGED <<snapshot, version, change, changedBy>>

\* The entry's five minutes are over.
PurgeExpired(p, u) ==
  /\ profile[p][u] # 0
  /\ profile' = [profile EXCEPT ![p][u] = 0]
  /\ UNCHANGED <<snapshot, version, lookup, change, changedBy, overtaken>>

-----------------------------------------------------------------------------
(* Events.                                                                 *)

UpsertSnapshot(p, u) ==
  /\ change[p] = NoChange /\ version < MaxVersion
  /\ version' = version + 1
  /\ snapshot' = [snapshot EXCEPT ![u] = version']
  /\ changedBy' = [changedBy EXCEPT ![u] = p]
  /\ change' = [change EXCEPT ![p] = [op |-> "upsert", u |-> u, row |-> version']]
  /\ UNCHANGED <<profile, lookup, overtaken>>

CacheUpserted(p) ==
  /\ change[p].op = "upsert"
  /\ profile' = [profile EXCEPT ![p][change[p].u] = change[p].row]
  /\ overtaken' = overtaken \ {<<p, change[p].u>>}
  /\ change' = [change EXCEPT ![p] = NoChange]
  /\ UNCHANGED <<snapshot, version, lookup, changedBy>>

\* anonymizeUserPII, and deleteUserIdentitySnapshot: the cache first.
\* Faulty variant: the cache is left alone.
ClearProfileNever(p, u) ==
  /\ change[p] = NoChange
  /\ change' = [change EXCEPT ![p] = [op |-> "delete", u |-> u]]
  /\ UNCHANGED <<snapshot, version, profile, lookup, changedBy, overtaken>>

ClearProfile(p, u) ==
  /\ change[p] = NoChange
  /\ profile' = [profile EXCEPT ![p][u] = 0]
  /\ overtaken' = overtaken \ {<<p, u>>}
  /\ change' = [change EXCEPT ![p] = [op |-> "delete", u |-> u]]
  /\ UNCHANGED <<snapshot, version, lookup, changedBy>>

AnonymizeUserPII(p) ==
  /\ change[p].op = "delete"
  /\ snapshot' = [snapshot EXCEPT ![change[p].u] = 0]
  /\ changedBy' = [changedBy EXCEPT ![change[p].u] = p]
  /\ change' = [change EXCEPT ![p] = NoChange]
  /\ UNCHANGED <<version, profile, lookup, overtaken>>

AnonymizeFails(p) ==
  /\ change[p].op = "delete"
  /\ change' = [change EXCEPT ![p] = NoChange]
  /\ UNCHANGED <<snapshot, version, profile, lookup, changedBy, overtaken>>

\* The process ends: its cache, lookups and change are gone.
Restart(p) ==
  /\ profile' = [profile EXCEPT ![p] = [u \in Person |-> 0]]
  /\ lookup' = [l \in Lookup |->
                  IF lookup[l] # NoLookup /\ lookup[l].p = p THEN NoLookup ELSE lookup[l]]
  /\ change' = [change EXCEPT ![p] = NoChange]
  /\ overtaken' = overtaken \ ({p} \X Person)
  /\ UNCHANGED <<snapshot, version, changedBy>>

ProfileCacheNext ==
  \/ \E l \in Lookup, p \in Process, u \in Person : GetUserProfiles(l, p, u)
  \/ \E l \in Lookup : CacheProfile(l)
  \/ \E p \in Process, u \in Person :
       PurgeExpired(p, u) \/ UpsertSnapshot(p, u) \/ ClearProfile(p, u)
  \/ \E p \in Process :
       CacheUpserted(p) \/ AnonymizeUserPII(p) \/ AnonymizeFails(p) \/ Restart(p)

ProfileCacheSpec == ProfileCacheInit /\ [][ProfileCacheNext]_cacheVars

-----------------------------------------------------------------------------
(* Properties.                                                             *)

ProfileCacheTypeOK ==
  /\ snapshot \in [Person -> 0..MaxVersion]
  /\ version \in 0..MaxVersion
  /\ profile \in [Process -> [Person -> 0..MaxVersion]]
  /\ lookup \in [Lookup -> {NoLookup} \cup
       [pc : {"read"}, p : Process, u : Person, row : 1..MaxVersion]]
  /\ change \in [Process -> {NoChange} \cup [op : {"upsert"}, u : Person, row : 1..MaxVersion]
                                       \cup [op : {"delete"}, u : Person]]
  /\ changedBy \in [Person -> Process \cup {NoProcess}]
  /\ overtaken \subseteq Process \X Person

\* The process that applied the last change to a user, a deletion above all, does
\* not go on serving the profile from before it: what it has cached is the current
\* row, and nothing once the user is deleted.  The exception is a lookup that read
\* the row before the change and cached it after the change's own write to the
\* cache.  (Other processes serve what they cached for up to five minutes.)
OwnChangeCached ==
  \A u \in Person, p \in Process :
    changedBy[u] = p /\ ~ Changing(p, u) /\ <<p, u>> \notin overtaken
      => profile[p][u] \in {0, snapshot[u]}

=============================================================================
