------------------------------- MODULE Files -------------------------------
(***************************************************************************)
(* The files of one project: rows of project_files, the objects crm-media  *)
(* stores for them, the cached access URLs and the project's latest        *)
(* approved file.                                                          *)
(*                                                                         *)
(*   src/modules/collab/file/file-upload.service.ts      register, abort   *)
(*   src/modules/collab/file/file-management.service.ts  approve, access,  *)
(*                                                       delete, update    *)
(*   src/modules/collab/board/board-task-interaction.service.ts            *)
(*                                                       files of a task   *)
(*   src/modules/collab/admin-storage/                   tree, purge       *)
(*   src/shared/media-command-client.ts                  commands to media *)
(*                                                                         *)
(* Rows and objects are two stores no transaction spans.  A request is     *)
(* split at its commands to crm-media and, where another request can come  *)
(* between them, at the statements of its transaction.  crm-media and the  *)
(* network are external: a command is carried out, refused (404 when there *)
(* is no object), fails, or is carried out and its answer lost.            *)
(***************************************************************************)
EXTENDS Integers, FiniteSets, FiniteSetsExt

CONSTANTS
  File,        \* ids of project_files
  NoFile,
  StorageKey,  \* object keys, each with a fresh uuid
  FileName,    \* sanitized names; versions are counted per name
  Folder,      \* folders a file may be registered in
  Visibility,  \* values of isClientVisible
  Handler,     \* requests that may be in flight at once
  MaxPurges    \* bound: purges among them

ASSUME FilesAssumption ==
  /\ NoFile \notin File
  /\ IsFiniteSet(File)
  /\ Folder \subseteq {"contracts", "other"}
  /\ Visibility \subseteq BOOLEAN
  /\ MaxPurges \in Nat

VARIABLES
  object,      \* per key: not uploaded yet, stored, gone
  row,         \* project_files, "deleted" once removed
  latest,      \* latestApprovedFileId of the project row
  cached,      \* keys with an unexpired row in media_access_cache
  signed,      \* the project's contract is signed
  handler,     \* the requests
  untold,      \* history: keys of which rows, cache and crm-media have not been
               \* told the same
  contested    \* history: the latest approval committed between the statements
               \* of a deletion of its file

filesVars == <<object, row, latest, cached, signed, handler, untold, contested>>
history == <<untold, contested>>

FileRole == {"admin", "worker", "client"}
Present == {"live", "purged"}

NoRow == [st |-> "none", key |-> "none", name |-> "none", folder |-> "other",
          version |-> 0, approved |-> FALSE, visible |-> FALSE]

\* f, key, name, folder: what the request is about; version: computed under the
\* advisory lock; todo, all: files of a purge; match: the
\* deletion has cleared, and locked, the project row; uncache: keys crm-media has
\* answered to have deleted and whose row of the cache is still to be deleted.
\* History: forced, the purge was forced, or the contract not signed when it looked.
Idle == [pc |-> "idle", f |-> NoFile, key |-> "none", name |-> "none", folder |-> "other",
         visible |-> FALSE, version |-> 0, todo |-> {}, all |-> {}, match |-> FALSE,
         uncache |-> {}, forced |-> FALSE]

FilesInit ==
  /\ object = [k \in StorageKey |-> "none"]
  /\ row = [f \in File |-> NoRow]
  /\ latest = NoFile
  /\ cached = {}
  /\ signed = FALSE
  /\ handler = [h \in Handler |-> Idle]
  /\ untold = {} /\ contested = FALSE

Exists(f) == row[f].st \in Present
Stored(k) == object[k] = "stored"
IsFree(h) == handler[h].pc = "idle"

\* An approval holds the lock of its file, a deletion that of the project row.
RowLocked(f) == \E h \in Handler : handler[h].pc = "approved" /\ handler[h].f = f
ProjectLocked == \E h \in Handler : handler[h].pc = "deleteRow" /\ handler[h].match

Becomes(h, q) == handler' = [handler EXCEPT ![h] = q]

-----------------------------------------------------------------------------
(* crm-media.                                                              *)

\* createMediaDocumentUploadUrl for generateProjectFileUploadUrl and
\* generateTaskFileUploadUrl; the browser uploads to that URL, once.
Upload(k) ==
  /\ object[k] = "none"
  /\ object' = [object EXCEPT ![k] = "stored"]
  /\ UNCHANGED <<row, latest, cached, signed, handler, history>>

\* The answers a deletion of k may get.
Answers(k) == IF Stored(k) THEN {"deleted", "failed", "lost"} ELSE {"notFound", "failed"}

\* deleteDocumentInMedia, the command.
DeleteInMedia(k, answer) ==
  /\ answer \in Answers(k)
  /\ object' = IF Stored(k) /\ answer # "failed" THEN [object EXCEPT ![k] = "gone"] ELSE object

\* The access cache is cleared on the answer "deleted" only, not when the object
\* is not found any more, and by a statement of its own.
ToUncache(k, answer) == IF answer = "deleted" THEN {k} ELSE {}

\* Some request has its answer and has yet to clear the cache.
Uncaching(k) == \E h \in Handler : k \in handler[h].uncache

\* A request after its statement on the cache; an abort has nothing else to do.
CacheDone(h, k) ==
  IF handler[h].pc = "aborted" THEN Idle ELSE [handler[h] EXCEPT !.uncache = @ \ {k}]

\* DELETE FROM media_access_cache.
\* Faulty variant: missing.
ClearCacheNever(h, k) ==
  /\ k \in handler[h].uncache
  /\ Becomes(h, CacheDone(h, k))
  /\ UNCHANGED <<object, row, latest, cached, signed, history>>

ClearCache(h, k) ==
  /\ k \in handler[h].uncache
  /\ cached' = cached \ {k}
  /\ Becomes(h, CacheDone(h, k))
  /\ UNCHANGED <<object, row, latest, signed, history>>

\* It fails.  A purge swallows this error like any other of a deletion; for the
\* others it is RequestFails.
ClearCacheFails(h, k) ==
  /\ handler[h].pc = "purge" /\ k \in handler[h].uncache
  /\ Becomes(h, CacheDone(h, k))
  /\ untold' = untold \cup {k}
  /\ UNCHANGED <<object, row, latest, cached, signed, contested>>

\* The row of the cache expires, or the worker prunes it.
UrlExpires(k) ==
  /\ k \in cached
  /\ cached' = cached \ {k}
  /\ UNCHANGED <<object, row, latest, signed, handler, history>>

-----------------------------------------------------------------------------
(* Registration of an uploaded object.                                     *)

\* assertProductionObjectRegistered: crm-media knows the object.
ObjectRegistered(k) == Stored(k)

\* A file of a task is always filed under the shared deliverables.
UploadFileMetadata(h, k, n, folder, visible) ==
  /\ IsFree(h) /\ ObjectRegistered(k)
  /\ Becomes(h, [Idle EXCEPT !.pc = "register", !.key = k, !.name = n, !.folder = folder,
                             !.visible = visible])
  /\ UNCHANGED <<object, row, latest, cached, signed, history>>

VersionsOf(n) == {row[f].version : f \in {g \in File : Exists(g) /\ row[g].name = n}}

\* lockFileVersionSequence, then findLatestVersion.
\* Faulty variant: without the lock.
LockVersionNoLock(h) ==
  /\ handler[h].pc = "register"
  /\ Becomes(h, [handler[h] EXCEPT !.pc = "insert",
                                   !.version = Max(VersionsOf(handler[h].name) \cup {0}) + 1])
  /\ UNCHANGED <<object, row, latest, cached, signed, history>>

LockVersion(h) ==
  /\ handler[h].pc = "register"
  /\ \A g \in Handler : ~(handler[g].pc = "insert" /\ handler[g].name = handler[h].name)
  /\ Becomes(h, [handler[h] EXCEPT !.pc = "insert",
                                   !.version = Max(VersionsOf(handler[h].name) \cup {0}) + 1])
  /\ UNCHANGED <<object, row, latest, cached, signed, history>>

\* findFileByStoragePath.
Registered(k) == \E f \in File : Exists(f) /\ row[f].key = k

\* createFile and commit, unless the storage path already has a row or the
\* version is taken (unique indexes).  What it has checked may be out of date: the
\* object may have gone, or an abort be about to delete it.
CreateFile(h, f) ==
  LET q == handler[h] IN
  /\ q.pc = "insert" /\ row[f].st = "none"
  /\ ~Registered(q.key)
  /\ q.version \notin VersionsOf(q.name)
  /\ row' = [row EXCEPT ![f] = [NoRow EXCEPT !.st = "live", !.key = q.key, !.name = q.name,
                                             !.folder = q.folder, !.version = q.version,
                                             !.visible = q.visible]]
  /\ Becomes(h, Idle)
  /\ untold' = IF Stored(q.key) /\ \A g \in Handler : ~(handler[g].pc = "abort" /\ handler[g].key = q.key)
               THEN untold ELSE untold \cup {q.key}
  /\ UNCHANGED <<object, latest, cached, signed, contested>>

\* abortUnregisteredFileUpload: no row has the path ...
AbortUnregistered(h, k) ==
  /\ IsFree(h) /\ object[k] # "none"
  /\ ~Registered(k)
  /\ Becomes(h, [Idle EXCEPT !.pc = "abort", !.key = k])
  /\ UNCHANGED <<object, row, latest, cached, signed, history>>

\* ... and its object is deleted; an error but 404 is the caller's.
AbortDelete(h, answer) ==
  LET k == handler[h].key IN
  /\ handler[h].pc = "abort"
  /\ DeleteInMedia(k, answer)
  /\ Becomes(h, IF answer = "deleted"
                THEN [Idle EXCEPT !.pc = "aborted", !.uncache = {k}] ELSE Idle)
  /\ untold' = IF answer = "lost" THEN untold \cup {k} ELSE untold
  /\ UNCHANGED <<row, latest, cached, signed, contested>>

-----------------------------------------------------------------------------
(* Access, approval, edition.                                              *)

\* getCachedAccessUrl, and the answer of crm-media when there is none.
CachedUrl(k) == k \in cached
GrantedUrl(k) == ~CachedUrl(k) /\ Stored(k)

\* getFileAccess of a file that is not purged and that the actor may see: the
\* cache has no URL for it, and crm-media grants one.
GetFileAccess(h, role, f) ==
  /\ IsFree(h) /\ row[f].st = "live"
  /\ role = "client" => row[f].visible
  /\ GrantedUrl(row[f].key)
  /\ Becomes(h, [Idle EXCEPT !.pc = "cache", !.key = row[f].key])
  /\ UNCHANGED <<object, row, latest, cached, signed, history>>

\* cacheAccessUrl, perhaps after the object has gone and the cache was cleared.
CacheAccessUrl(h) ==
  LET k == handler[h].key IN
  /\ handler[h].pc = "cache"
  /\ cached' = cached \cup {k}
  /\ untold' = IF Stored(k) \/ Uncaching(k) THEN untold ELSE untold \cup {k}
  /\ Becomes(h, Idle)
  /\ UNCHANGED <<object, row, latest, signed, contested>>

\* approveFile: what it reads first is asked again by markFileApproved, which
\* finds the row and locks it.  Nobody asks whether the file is purged.
ApproveFile(h, role, f) ==
  /\ IsFree(h) /\ role \in {"admin", "client"}
  /\ Exists(f) /\ ~RowLocked(f)
  /\ Becomes(h, [Idle EXCEPT !.pc = "approved", !.f = f])
  /\ UNCHANGED <<object, row, latest, cached, signed, history>>

\* The update of the project, which may wait for a deletion, and the commit.
ApproveCommit(h) ==
  LET f == handler[h].f IN
  /\ handler[h].pc = "approved" /\ ~ProjectLocked
  /\ row' = [row EXCEPT ![f].approved = TRUE]
  /\ latest' = f
  /\ contested' = \E g \in Handler : handler[g].pc = "deleteRow" /\ handler[g].f = f
  /\ Becomes(h, Idle)
  /\ UNCHANGED <<object, cached, signed, untold>>

\* updateProjectFile: one UPDATE of a row that is still there.
UpdateProjectFile(role, f, visible) ==
  /\ role \in {"admin", "worker"} /\ Exists(f) /\ ~RowLocked(f)
  /\ row' = [row EXCEPT ![f].visible = visible]
  /\ UNCHANGED <<object, latest, cached, signed, handler, history>>

-----------------------------------------------------------------------------
(* Deletion and purge.                                                     *)

\* deleteFile by an administrator or the file's creator.  The object goes first;
\* only 404 is tolerated.
\* Faulty variant: every error is.
DeleteFileTolerant(h, f, answer) ==
  LET k == row[f].key IN
  /\ IsFree(h) /\ Exists(f)
  /\ DeleteInMedia(k, answer)
  /\ Becomes(h, [Idle EXCEPT !.pc = "clear", !.f = f, !.uncache = ToUncache(k, answer)])
  /\ untold' = IF answer = "lost" THEN untold \cup {k} ELSE untold
  /\ UNCHANGED <<row, latest, cached, signed, contested>>

DeleteFile(h, f, answer) ==
  LET k == row[f].key IN
  /\ IsFree(h) /\ Exists(f)
  /\ DeleteInMedia(k, answer)
  /\ Becomes(h, IF answer \in {"deleted", "notFound"}
                THEN [Idle EXCEPT !.pc = "clear", !.f = f, !.uncache = ToUncache(k, answer)]
                ELSE Idle)
  /\ untold' = IF answer = "lost" THEN untold \cup {k} ELSE untold
  /\ UNCHANGED <<row, latest, cached, signed, contested>>

\* clearLatestApprovedFileIfMatches: locks the project row if it matches.
\* Faulty variant: missing.
ClearLatestNever(h) ==
  /\ handler[h].pc = "clear" /\ handler[h].uncache = {}
  /\ Becomes(h, [handler[h] EXCEPT !.pc = "deleteRow"])
  /\ UNCHANGED <<object, row, latest, cached, signed, history>>

ClearLatest(h) ==
  LET f == handler[h].f IN
  /\ handler[h].pc = "clear" /\ handler[h].uncache = {}
  /\ latest = f => ~ProjectLocked
  /\ Becomes(h, [handler[h] EXCEPT !.pc = "deleteRow", !.match = (latest = f)])
  /\ UNCHANGED <<object, row, latest, cached, signed, history>>

\* deleteFileById, which waits for an approval of the file, and the commit.
DeleteRow(h) ==
  LET f == handler[h].f IN
  /\ handler[h].pc = "deleteRow" /\ ~RowLocked(f)
  /\ row' = [row EXCEPT ![f] = [NoRow EXCEPT !.st = "deleted", !.key = row[f].key]]
  /\ latest' = IF handler[h].match THEN NoFile ELSE latest
  /\ contested' = (contested /\ ~handler[h].match)
  /\ Becomes(h, Idle)
  /\ UNCHANGED <<object, cached, signed, untold>>

IsSignedContract(f) == row[f].folder = "contracts" /\ signed

\* purgeSingleFile (one candidate) and purgeBatch: the rows that are not purged,
\* without those of a signed contract unless it is forced.
\* Faulty variant: the signed ones, too.
PurgeCandidatesAll(S, force) == {f \in S : row[f].st = "live"}

PurgeCandidates(S, force) == {f \in S : row[f].st = "live" /\ (IsSignedContract(f) => force)}

Purge(h, S, force) ==
  LET C == PurgeCandidates(S, force) IN
  /\ IsFree(h) /\ C # {}
  /\ Cardinality({g \in Handler : handler[g].pc = "purge"}) < MaxPurges
  /\ Becomes(h, [Idle EXCEPT !.pc = "purge", !.todo = C, !.all = C, !.forced = force \/ ~signed])
  /\ UNCHANGED <<object, row, latest, cached, signed, history>>

\* The deletions of a purge run side by side; every error of crm-media is swallowed.
PurgeObject(h, f, answer) ==
  LET k == row[f].key IN
  /\ handler[h].pc = "purge" /\ f \in handler[h].todo
  /\ DeleteInMedia(k, answer)
  /\ Becomes(h, [handler[h] EXCEPT !.todo = @ \ {f}, !.uncache = @ \cup ToUncache(k, answer)])
  /\ untold' = IF answer \in {"failed", "lost"} THEN untold \cup {k} ELSE untold
  /\ UNCHANGED <<row, latest, cached, signed, contested>>

\* markFilesAsPurged, of the rows that still exist.
Purged(S) ==
  [f \in File |-> IF f \in S /\ Exists(f) THEN [row[f] EXCEPT !.st = "purged"] ELSE row[f]]

\* It comes when every deletion has settled, and waits for the locks of the rows.
MarkFilesAsPurged(h) ==
  /\ handler[h].pc = "purge" /\ handler[h].todo = {} /\ handler[h].uncache = {}
  /\ \A f \in handler[h].all : ~RowLocked(f)
  /\ row' = Purged(handler[h].all)
  /\ Becomes(h, Idle)
  /\ UNCHANGED <<object, latest, cached, signed, history>>

\* Files whose object a request has deleted, or found missing, and whose row it
\* still has to change.
Half(h) ==
  CASE handler[h].pc \in {"clear", "deleteRow"} -> {handler[h].f}
    [] handler[h].pc = "purge" -> handler[h].all \ handler[h].todo
    [] OTHER -> {}

\* A check, the database or the process fails; PostgreSQL aborts one of an
\* approval and a deletion that wait for each other.
RequestFails(h) ==
  /\ ~IsFree(h)
  /\ untold' = untold \cup {row[f].key : f \in {g \in Half(h) : ~Stored(row[g].key)}}
                      \cup handler[h].uncache
  /\ Becomes(h, Idle)
  /\ UNCHANGED <<object, row, latest, cached, signed, contested>>

\* The client signs the contract (module Contract).
ContractSigned ==
  /\ ~signed /\ signed' = TRUE
  /\ UNCHANGED <<object, row, latest, cached, handler, history>>

\* uploadFileMetadata, and uploadTaskFileMetadata for the folder "other".
Register(h, k) ==
  \E n \in FileName, folder \in Folder, v \in Visibility : UploadFileMetadata(h, k, n, folder, v)

FilesNext ==
  \/ ContractSigned
  \/ \E k \in StorageKey : Upload(k) \/ UrlExpires(k)
  \/ \E f \in File, role \in FileRole, v \in Visibility : UpdateProjectFile(role, f, v)
  \/ \E h \in Handler :
       \/ \E k \in StorageKey :
            Register(h, k) \/ AbortUnregistered(h, k) \/ ClearCache(h, k) \/ ClearCacheFails(h, k)
       \/ \E f \in File :
            CreateFile(h, f) \/ \E role \in FileRole : GetFileAccess(h, role, f) \/ ApproveFile(h, role, f)
       \/ \E S \in SUBSET File, force \in BOOLEAN : Purge(h, S, force)
       \/ \E a \in {"deleted", "notFound", "failed", "lost"} :
            AbortDelete(h, a) \/ \E f \in File : DeleteFile(h, f, a) \/ PurgeObject(h, f, a)
       \/ LockVersion(h) \/ CacheAccessUrl(h) \/ ApproveCommit(h)
       \/ ClearLatest(h) \/ DeleteRow(h) \/ MarkFilesAsPurged(h)
       \/ RequestFails(h)

FilesSpec == FilesInit /\ [][FilesNext]_filesVars

-----------------------------------------------------------------------------
(* Properties.                                                             *)

\* Every variable has its type; what a request is about exists.
FilesTypeOK ==
  /\ object \in [StorageKey -> {"none", "stored", "gone"}]
  /\ row \in [File -> [st : {"none", "deleted"} \cup Present, key : StorageKey \cup {"none"},
                       name : FileName \cup {"none"}, folder : {"contracts", "other"}, version : Nat,
                       approved : BOOLEAN, visible : BOOLEAN]]
  /\ latest \in File \cup {NoFile}
  /\ cached \subseteq StorageKey
  /\ signed \in BOOLEAN
  /\ handler \in [Handler -> [pc : {"idle", "register", "insert", "abort", "aborted", "cache",
                                    "approved", "clear", "deleteRow", "purge"},
                              f : File \cup {NoFile}, key : StorageKey \cup {"none"},
                              name : FileName \cup {"none"}, folder : {"contracts", "other"},
                              visible : BOOLEAN, version : Nat,
                              todo : SUBSET File, all : SUBSET File, match : BOOLEAN,
                              uncache : SUBSET StorageKey, forced : BOOLEAN]]
  /\ untold \subseteq StorageKey
  /\ contested \in BOOLEAN

\* getStorageTree counts a file as occupying space, or as freed.
Counted(f) == row[f].st = "live"
Freed(f) == row[f].st = "purged"

\* The storage tree tells what crm-media stores: the object of a counted file is
\* there, that of a purged file is not, and a file whose row deleteFile removed has
\* left no object behind that nobody can name any more.  Except for a deletion in progress or
\* broken off between its two stores, a registration that overlapped a deletion of
\* its object, an answer that got lost, and a purge that crm-media did not carry
\* out, which is recorded as done all the same.
TreeMatchesStore ==
  \A f \in File :
    /\ Counted(f) => \/ Stored(row[f].key)
                     \/ row[f].key \in untold
                     \/ \E h \in Handler : f \in Half(h)
    /\ Freed(f) => ~Stored(row[f].key) \/ row[f].key \in untold
    /\ row[f].st = "deleted" => ~Stored(row[f].key)

\* The project's latest approved file exists and is approved, unless an approval
\* of it committed between the two statements of its deletion.
ApprovedFileExists ==
  latest # NoFile => contested \/ (Exists(latest) /\ row[latest].approved)

\* The version a registration has computed under the advisory lock is still free
\* when it inserts its row: two uploads of one name never make each other fail.
VersionFree ==
  \A h \in Handler : handler[h].pc = "insert" => handler[h].version \notin VersionsOf(handler[h].name)

\* A purge removes the document of a signed contract only when it is forced, or
\* when the contract was signed after the purge had looked.
SignedKept ==
  [][\A h \in Handler, f \in File :
       /\ f \in handler[h].todo /\ f \notin handler'[h].todo
       /\ IsSignedContract(f) /\ Stored(row[f].key) /\ object'[row[f].key] = "gone"
       => handler[h].forced]_filesVars

\* A cached access URL is one of a stored object.  Only where: crm-media has
\* deleted the object and the request that asked for it has yet to run its DELETE on
\* the cache, that DELETE failed or was never reached, the answer was lost, or the
\* URL had been granted before the deletion and was cached after the DELETE.
CachedUrlAlive == \A k \in cached : Stored(k) \/ Uncaching(k) \/ k \in untold
=============================================================================
