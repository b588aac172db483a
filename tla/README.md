# Archivon Core: verification project

TLA+ models of Archivon Core (Go API, PostgreSQL schema, Stratum gateway), the
TLC runs that check them on small instances, and TLAPS proofs for instances of
any size.

## 1. The system

Archivon keeps archive folders closed until a client proves work. A client asks
for a folder, the request becomes a *PoW job*, mining devices connected to the
built-in Stratum gateway submit shares for it, and a job whose shares reach the
required work in one proof window opens a *time-limited access session*, through
which the client lists and downloads files over HTTP or read-only WebDAV.

| Component | State | Operations | Talks to |
|---|---|---|---|
| access queue (`internal/access`) | `pow_jobs`, `access_sessions`, access policy | create, cancel, close, close as administrator, reconcile (expire sessions, time out jobs, complete the proved job, promote the oldest) | called by clients, administrators and by the gateway after each share |
| compute gateway (`internal/compute`) | TCP connections, per-connection work, map of worker names, `compute_workers`, `pow_shares` | authorize, dispatch work, submit, disconnect, settings, worker statistics | reads the running job, inserts shares, calls reconcile |
| archive (`internal/archive`) | `protected_folders`, `files`, `folder_entries`, `folder_permissions`, `admin_dav_sessions`, objects on disk | create and delete folders, upload, delete files, permissions, client downloads and WebDAV, administrator WebDAV, folder backups | revokes sessions and cancels jobs on revocation and deletion, and promotes the next job |
| policy seal (`internal/policyseal`, archive) | `pow_policy_seal`, a trigger | seal, verify, backfill at startup | KMS |
| KMS (`internal/kms`) | master key, key slots | readiness, MAC | read by archive |
| accounts (`internal/auth`) | `users`, `user_sessions`, session policy | bootstrap, login, logout, change and reset of passwords, block, delete | revokes access when a user is deleted |
| audit (`internal/audit`) | `audit_events`, `log_cleanup_backups` | query, export, cleanup with backup, restore | every handler writes events |
| startup (`cmd/api`, `internal/database`) | `schema_migrations` | migrations, backfill, gateway start | all |
| frontend (`main.tsx`) | views | polls jobs and sessions | drives reconcile |

What makes it hard: every handler is a goroutine of its own on READ COMMITTED
transactions, with checks made before the transaction that acts on them; nothing
on the server runs by itself, so progress depends on requests that come; the
gateway shares state between a reader, a dispatcher and the HTTP handlers and
writes to the database outside its locks; objects on disk are outside every
transaction.

What has to hold, per component:

- *access queue*: one running job and one active session at most; a session only
  for proved work; no access after a revocation; the queue never waits for
  nothing; every job and session ends.
- *gateway*: the worker table agrees with the connections; a miner always works
  on what the service believes it works on; enough work is noticed; connections
  and their entries go away.
- *archive*: rows, tree and objects agree whatever fails; replacing and deleting
  lose nothing else; a backup is coherent and restored whole.
- *accounts*: the latest client login wins; a block or reset ends what was open;
  there is always a super administrator; who has been deleted acts no more.
- *policy seal*: a folder's policy never becomes weaker, and a folder that was
  sealed can be opened again.
- *audit*: a cleaned event is in a backup, and comes back at most once.

## 2. Modules

| Module | What it is |
|---|---|
| `AccessQueue`, `MCAccessQueue` | the access queue, with the operations of archive and auth that end its jobs and sessions |
| `AccessGate` | abstract: what the queue promises however requests overlap |
| `OneOperation` | abstract: what the queue promises when requests do not overlap |
| `AccessQueueProofs`, `AccessGateProofs` | theorems about `AccessQueue`: its invariants, and that it implements `AccessGate` |
| `AccessSerialProofs` | theorems about `AccessQueue` while requests do not overlap: its stronger invariants, and that it implements `OneOperation` |
| `StratumGateway`, `MCStratumGateway` | the gateway |
| `StratumGatewayProofs` | theorems about `StratumGateway` |
| `ArchiveStorage`, `MCArchiveStorage` | folders, files, objects on disk, WebDAV uploads, folder backups |
| `FolderArchive` | abstract: what the archive promises to whoever downloads files |
| `ArchiveStorageProofs` | theorems about `ArchiveStorage`: its invariants, and that it implements `FolderArchive` |
| `FolderPolicy`, `MCFolderPolicy` | the policy of a folder and its seal, the key file, the start of the server |
| `FolderPolicyProofs` | theorems about `FolderPolicy` |
| `Accounts`, `MCAccounts` | users and login sessions |
| `LoginRegister` | abstract: what accounts and logins promise however requests overlap |
| `AccountsProofs` | theorems about `Accounts`: its invariants, and that it implements `LoginRegister` |
| `AuditTrail`, `MCAuditTrail` | audit events, their cleanup and restore |
| `EventLedger` | abstract: what the log and its backups promise |
| `AuditTrailProofs` | theorems about `AuditTrail`: its invariants, and that it implements `EventLedger` |

The components meet in these modules: what revocations and deletions of the
archive and of the accounts do to jobs and sessions is in `AccessQueue`; the
reconcile that the gateway calls after a share is `ReconcileShare` there and
`Reconcile` in `AccessQueue`; the deletion of a user is an action of `AccessQueue` (jobs,
sessions, grants), `Accounts` (login sessions) and `AuditTrail` (actors), each with
the part of the transaction that touches its tables.

Each module's comments name the handler behind an action. `PROJECT.json` maps
every definition to source lines. A definition marked *Variant* is not part of the
specification: it is a plausible mistake in the definition after it, kept to show
that a property would notice it.

### 2.1 AccessQueue

Variables are tables: `jobs` (`pow_jobs`), `sessions` (`access_sessions`), `grants`
(`folder_permissions`), `folders` and `users` (the active ones). `req` holds each
HTTP request between two of its transactions, with what it has read; `earned` is a
history of the jobs whose work was accepted in full.

| Action | Code |
|---|---|
| `Reconcile`, `ExpireSessions`, `TimeoutJobs`, `TimeoutCommit`, `CompleteRunningJobs`, `OpenSession`, `SkipOpenSession`, `Promote`, `PromoteCommit`, `Return` | `reconcile` and its steps, `access/service.go` 788-1046 |
| `CreateCheck`, `CreateTx`, `CreateInsert` | `createJob` |
| `Cancel`, `Close`, `CloseAsAdmin` and their `...Commit` | `cancelJob`, `closeSession`, `closeSessionAsAdmin` |
| `Grant`, `Revoke`, `RevokeCommit`, `DeleteFolder`, `DeleteUser` and their `...Commit` | the archive and auth handlers that revoke |
| `Abort` | an error of any statement, a refused constraint, a client that has gone |
| `SessionLapses`, `JobDue`, `GrantLapses`, `WorkProved` | time and shares |

Abstractions: a row's `created_at` order is the order of its number; deadlines are
flags that time raises; recorded work is the flag `proved`, which falls back only
when a job is started again; `now()` is fixed at the start of a transaction, hence
the set `due` a transaction carries; the decision whether a job may start and the
choice of the job to promote see one snapshot; the promoting `UPDATE` names its row
by id alone, so it takes effect whatever became of that row. `min_workers` is
always 1 and the code compares it with nothing. The status `failed` is never
written.

`AccessGate` has four variables: the jobs that work counts for, the jobs whose work
was accepted, the open sessions, and the job that paid for each session. Its
refinement mapping reads them from the tables (`Gate` in `AccessQueue`); a session
row's `pow_job_id` is `paidBy`. It says what no interleaving may break: work is
accepted for the one running job only, a session opens only where none is open, by
work that was accepted, under a number never used, and nothing closed opens
again. `OneOperation` is stronger: a running job *or* an open session, and a job
gives way to the session it paid for in one step. The code implements it only
while requests do not overlap (section 5).

### 2.2 StratumGateway

A connection has two processes: the reader (`handleConn`, with the steps of
`authorize` and `submitShare`) and the dispatcher (`workDispatchLoop`). `conn` and
`disp` hold what each is at and what the peer was last told, `connections` the
service's map, `rows` the worker table. The gateway's mutexes guard single
statements in the code, and the steps are the stretches between them. Every query
whose answer is used later is a step of its own, as policy, job and a connection's
work change in between, and each may fail.

| Action | Code |
|---|---|
| `Connect`, `Authorize`, `Refuse`, `FindJob`, `UpsertWorker`, `Register`, `WriteStatus`, `Welcome`, `Assign`, `Notify` | `authorize`: the policy, the password, the running job, the worker row, the map, the row's status, and what is sent |
| `Tick`, `DispatchLookup`, `DispatchPolicy`, `DispatchFails`, `DispatchAssign`, `DispatchNotify`, `DispatchStops` | `workDispatchLoop`: the work noted, the running job, the policy, and what is sent |
| `Submit`, `SubmitBadVersion`, `CheckRunning`, `InsertShare`, `ReconcileShare`, `Answer` | `submitShare` |
| `Hangup`, `Unregister`, `WriteOffline` | the end of `handleConn` and what it defers |
| `Drop`, `Restart`, `StartJob`, `EndJob`, `UpdateSettings` | the peer, the process, the queue and the administrator |

The verdict on a share is a Boolean; work beyond the requirement is capped at it; a
connection identity is used once, as the random ids are.

### 2.3 ArchiveStorage

`folder` and `files` are the rows (with the `folder_entries` row of a file as the
field `entry`), `dirs` the collections, `disk` what lies under an object's
directory (nothing, a partial data file, or content), `backup` the last archive an
administrator downloaded, `request` the requests, `lost` a history of the objects
that a crash or a failed removal left. A handler writes its object (`StartWriting`,
`Write`), runs its transaction (`Commit`) and removes what it replaced (`Remove`).
A transaction is one step, because what it has not committed is invisible; only
`handleDeleteFolder` takes two, since it holds the folder's row from
`SELECT ... FOR UPDATE` on (`Locked`) and lists the objects to remove before it
marks the files. `LoseAnswer` is a COMMIT that happened and whose answer did not
arrive: the handler then cleans up as if it had not happened.

Collections are one level deep and named once: all readers join them by path, so
two rows of one path are one collection.

`FolderArchive` is what a client sees of it: folders, the place of each file, which
files are in the archive, and what a download gives. There a file comes in, replaces
another, or goes in one step. The mapping `Archive` takes the data from `disk` and
everything else from the rows, so it holds the two together, which no transaction
does: that an object is written before and removed after its row counts may not be
visible. A file comes in with its data, and what it holds never changes. Only where
the answer to a COMMIT may be lost (`MayComeEmpty`, which the mapping sets to
`LostAnswers`) may a file come in without data: the handler has removed the object
of the row that took effect.

Display names ("name (copy 2)") are
reduced to whether a file is shown under its plain path. Requests of one
administrator session are not ordered among themselves.

### 2.4 Accounts

`users` and `sessions` are the tables `users` and `user_sessions`, `req` the requests.
A handler's checks (cookie, role, target, password) are one step and its transaction
another. Most transactions are one step because their first statement on the account
takes its row lock; a login takes the lock, reads the sessions (`LoginLock`) and
writes and commits (`LoginCommit`), and meanwhile logouts, expiry and every other
account go on. The bootstrap has its advisory lock in the same way. The audit event
of every transaction refers to its actor, and that foreign key (`Audited`) is what
stops an administrator who was deleted in between. A password is reduced to
whether it is temporary (`must_change_password`).

`older` is history that no guard reads. A block or reset marks with it every row of the
account (`Aged`), whatever the revocation has made of that row, and every login that
has the account's lock already (`LoginsAge`), whose row takes the mark over.
`RevocationEndsSessions` says that no marked row is active. A revocation that left one
device out would break it, and so would one that does not wait for the lock of a login,
which is what the two variants `RevokedLatest` and `BlockUnlocked` do.

`LoginRegister` is what remains if every operation happens at once: the accounts, which
of them are blocked or have to change their password, whose each open session is, and
which are over. An administrative operation happens only while somebody is there who
ranks above the account; the register has no requests and so does not say that this is
who asked. A login replaces the sessions that are open
at that moment; a block, a reset and a deletion end them together with the change of the
account. The mapping `Register` forgets the requests and the rows that have ended. A
reset or block of an account that was deleted meanwhile commits and changes nothing,
which is a stutter.

Two things the code lets happen are in the model and in no property, since nothing
in the repository promises otherwise: a login that passed its check before a block
opens a session after it, which works again when the account is unblocked (only if
the two overlap, `BlockedIsOutCorrect`); and a
change of password that verified the old one before a reset replaces the reset one.

### 2.5 FolderPolicy

`folders` has of each `protected_folders` row its status, its policy and its seal;
`key` is what the master key file holds, and None stands for every reason
`kms.Status` has for not being ready; `server` is the process; `req` the requests.
The KMS reads the file at every call, so the key may change between any two.

| Action | Code |
|---|---|
| `Start`, `BootVerify`, `BootDone` | `main`: `kmsService.Ready`, `BackfillFolderPoWPolicySeals`, and serving |
| `CreateSeal`, `CreateInsert` | `handleCreateFolder`: the seal before the transaction, then the row; the reload that follows is a `VerifyRead` |
| `VerifyRead`, `VerifyCompute`, `VerifyFill` | the two `ensureFolderPoWPolicySeal` and the SELECTs before them: `folderByID`, `ensureFolderActive`, `loadFolderPolicy`, the listings |
| `UpdateDefault` | `handleSettings` of the access service |
| `DeleteFolder`, `Finish`, `Crash`, `ReplaceKey` | deletion, the end of a request, the end of the process, the operator |

Abstractions: the four numbers are one; a seal is the pair of the key and the
printed number, which is what an HMAC distinguishes. Column and seal round on
their own: `numeric(24,6)` rounds the decimal number, ties away from zero, and
`%.6f` the binary number that stands for it. They can differ only on a tie, so a
value is its last kept digit and whether it is exact or a tie that is printed down
or up. A folder
created with a tie that is printed down is stored, answered with
`folder_reload_failed`, and from then on refused by every reader; the next start of
the server ends on it. The model has all of that, `AcceptedIsSealed` says that no
reader takes such a folder for a good one, and `ServerComesUp` that a start fails
for nothing else. Of two readers that fill one seal with different keys, the
second goes on with its request; what it goes on with are the sealed numbers,
though under another key, and this is all that `AcceptedIsSealed` promises. The
start does not ask whether its fill matched a row, and neither does `BootVerify`.

### 2.6 AuditTrail

`events` and `backups` are `audit_events` and `log_cleanup_backups`; `documents` the
backups whose document an administrator has received. A row that a cleanup deleted
keeps its fields under the place "gone": they are those of the document. The advisory
locks of cleanup and restore are the guards `LockFree`, the rows locked by
`SELECT ... FOR UPDATE` delay the deletion of their actor (`Locked`), and the foreign
keys of actors are guards of every insertion. `DeleteLimit` stands for the 65535
placeholders of one statement, `DocumentLimit` for the 20 MB that a restore reads.
A cleanup selects file activity up to any time, which covers every retention
setting. The answer of a cleanup can get lost after its commit (`Abort` in the state
"deliver"): the events are then in no document anybody has, although the backup's
metadata says `downloaded: true`. No property forbids that, since the code does it
by design: it commits before it answers.

`EventLedger` is the log without requests: an event is recorded, a user is forgotten, a
cleanup moves file activity into a backup, a restore brings all of a backup back, if
everyone it names still exists. The mapping `Ledger` takes the log from the rows in the
table and the content of a backup from its row, so it says that what a cleanup selected
and what a restore checked is still so at the commit.

## 3. Runs

| Run | Checks | Bounds |
|---|---|---|
| `access_serial` | with requests one after the other and failures at any transaction: the queue never idles, no job beside a session, revocation is complete, a proof is spent once, the queue implements `OneOperation`, and under polling every job and session ends | 2 users, 1 folder, 2 jobs, 2 sessions |
| `access_race` | with requests that overlap: the queue implements `AccessGate`, success only with a session, nothing of deleted users, ends are final | 1 user, 2 overlapping requests, 2 jobs, 2 sessions |
| `access_revoke_session` | a promise of migration 0012 that overlapping requests break | as small as the counterexample |
| `gateway_peers` | worker rows against connections, what closed is forgotten, work noticed | 2 connections, 2 names, 1 job |
| `gateway_live` | the miner searches what its shares are verified with, work is dispatched, dead connections close | 1 connection, 2 jobs, 2 difficulties |
| `gateway_reauthorize` | a promise that a second `mining.authorize` breaks | 1 connection |
| `storage_race` | rows, tree and objects agree, active files have their data, one PUT replaces a file, the service implements `FolderArchive` | 1 folder, 3 files, 2 paths, 2 requests, no lost answers |
| `storage_backup` | backups are coherent and restored whole, no object is orphaned unnoticed | 2 folders, 3 files, 2 requests, lost answers |
| `storage_deleted_folder` | a folder's deletion leaves a file behind | 1 folder |
| `accounts` | logins replace each other without conflict, revocations end sessions, deleted actors, the super administrator stays, the accounts implement `LoginRegister` | 3 accounts, 3 sessions, 2 requests |
| `policy` | a running server has sealed all folders, readers accept what is sealed, a seal is final, the server comes up again | 2 folders, 2 keys, 2 requests, 4 values (exact, zero after rounding, both ties), 2 faults |
| `audit_trail` | no event is lost or doubled, log entries about backups stay, actors are kept, the log implements `EventLedger` | 2 users, 5 events, 2 backups, 2 requests, limits of 2 |

Bounds. Two overlapping requests are enough for every race found by hand in the
code, which are between one check and one transaction of another request; two jobs
give a running one and the one it is replaced by; two sessions give one that ended
and one that follows. What holds for more of them is proved where section 4 says
so. `MaxAuthorize` bounds repeated authorizations of a
connection, `Operations` what administrators ask for in a run, `MaxFaults` how often
the server ends or its key changes. Two documents that hold two of five events each
let a restore meet a second cleanup, and limits of two are exceeded.

Fairness. In `access_serial` reconcile requests keep coming and their steps are
taken, as the frontend polls every two seconds while a job is open and every five
otherwise (`main.tsx` 1072-1093) and the gateway reconciles after every share;
an aborted transaction may repeat any number of times but not forever. In
`gateway_live` the reader and the dispatcher goroutines are scheduled (weak
fairness). A broken link ends the connection, by the end of the stream or by TCP's
keepalive of 30 seconds (`compute/service.go` 457-460; there is no read deadline), and
the two queries of the dispatcher do not fail every time: strong fairness, because
other steps can disable these in between. In `policy` the server is
started whenever it is down, as the containers are (`restart: unless-stopped`,
`deploy/docker-compose.yml` 15), and a start goes on by itself; no request and no
change of the key is assumed.

## 4. Proofs

### 4.1 Access queue

`AccessQueueProofs` proves for every number of users, folders, jobs, sessions and
concurrent requests:

- `TypeCorrect`: `Spec => []TypeOK`;
- `TenantExclusiveCorrect`, `SessionEarnedCorrect`, `SucceededHasSessionCorrect`,
  `DeletedUserOwnsNothingCorrect`: the safety invariants of `access_race`. A deleted
  user has no rows in any of the three tables: no job, no session (`RowsHaveOwners`)
  and no permission (`GrantsHaveOwners`).

The four are conjuncts of one inductive invariant, `SafetyInv`. None is inductive
alone, since a request carries rows it read earlier: `OpensAreEarned` says that the
job a request is about to open a session for has earned it, `PicksAreRows` that the
job it is about to promote exists, `ProvedIsEarned` that a job with enough work is in
the history, and `EarnedAreRows` that the history speaks of rows. The proof has one
lemma per group of actions (reconcile, client operations, revocations,
environment) and uses that `Commit`, the check of the constraints at the end of a
transaction, implies exclusivity whatever the transaction did. The assumptions are
those of the module: job and session ids are numbers, and `None` is no id.

### 4.2 Accounts

`AccountsProofs` proves the type invariant (`AccountsTypeCorrect`) and all five properties
of the run `accounts` for every number of accounts, sessions and requests:
`InsertsNeverConflictCorrect`, `RevocationEndsSessionsCorrect`, the action
properties `DeletedActorActsNoMoreCorrect` and `SuperAdminStaysCorrect`, and the
refinement `AccountsImplementRegister`. The inductive
invariant `Inv` adds what the locks give: a login that holds the lock of an account
is the only one, its account is present, and the sessions it has found include every
active one (`LoginLocks`); a bootstrap under way is the only one and finds no super
administrator (`BootstrapLocks`); a request that needs a user or target has one
(`RequestFields`), and the target of an administrative operation is never a super
administrator. `FreeSafe` shows once that a step without a lock keeps all of it when it
revives no session and respects the locks of others; the actions are instances.

`AccountsImplementRegister` needs four facts more (`RegisterInv`): what a login has found
are sessions of its account, also after they have ended; who began an administrative
operation ranks above its target; a super administrator is never deleted; and an unused
row belongs to nobody. `RequestMoves` and `RowMoves` say how the record of a request and
the row of a session may change at all, and the four follow from them. With `LoginLocks`
what a login found is then exactly what is open when it commits (`LoginIsOneStep`); that
the actor is still there is the foreign key of its audit event (`ActorIsThere`).

`BlockedIsOutCorrect` is about requests that do not overlap (`SerialSpec`, as in 4.8):
then a blocked account has no active session. It needs that whoever has passed the
check of a login is not blocked (`LoginsAreOpen`): only the transaction of a block
blocks (`BlockMoves`), and it is not beside a login. The
assumption is that of the module: every account has one of the three roles, session ids are numbers,
and `None` is neither.

### 4.3 The access gate

`AccessGateProofs` proves `QueueImplementsGate`, `Spec => ImplementsGate`: under
`GateInv`, which extends `SafetyInv`, the initial state of the queue is an initial state
of the gate and every step is a step of the gate or a stutter: `WorkProved` is
`Earn`, `OpenSession` is `Admit`, and everything else closes, ends, promotes or
starts, which is `Turn`. The mapping names rows, so the proof first states what
each action may do to a session row and to the running jobs, and then takes the
commit's constraints for exclusivity. The same facts give the action properties
`SessionEndIsFinalCorrect` and `EndedJobOnlyRestartsCorrect`.

### 4.4 Folder policies

`FolderPolicyProofs` proves `PolicyTypeCorrect`, `RunningServerSealedAllCorrect`,
`AcceptedIsSealedCorrect` and `SealIsFinalCorrect`, for all keys, values, folders and
requests. The inductive invariant `PolicyInv` adds that no request is under way while
the server starts (`QuietBoot`), that a start has sealed what it has passed
(`SealedSoFar`), that a creation has its identity for itself (`Creator`), and that what
a reader has read stays true: the numbers, and the seal once there is one (`Reader`).
One lemma says what a step may do to a row (`RowsKept`), and each reader's facts follow
from it without looking at the step again.

### 4.5 Audit trail

`AuditTrailProofs` proves `TrailTypeCorrect`, `EveryEventKeptCorrect`,
`BackupsAreOnRecordCorrect`, `ActorsAreKeptCorrect` and the refinement
`TrailImplementsLedger`, for all numbers of users, events,
backups and requests and for all limits. The inductive invariant ties the requests
to the tables: what a cleanup picked is still in the table and locked, what a restore
picked is what its backup holds, the backup is not restored, and of each kind one
request at most is inside its transaction, which is what the advisory locks are
for. The refinement follows from it commit by commit (`CleanupIsOneStep`,
`RestoreIsOneStep`): the picked events are in the table and no backup holds them, or the
other way round, and a log entry is new in both (`AddedEnters`).

### 4.6 Gateway

`StratumGatewayProofs` proves the type invariant and the invariants of `gateway_peers` and
`gateway_live` (`GatewayTypeCorrect`, `AuthorizedIsCountedCorrect`, `ClosedIsForgottenCorrect`,
`BlockedIsOfflineCorrect`, `EnoughWorkIsNoticedCorrect`, `MinerKnowsWorkCorrect`) for
every number of connections, names, jobs and difficulties, any requirement, and any
bound `MaxAuthorize`. No lock is held from one step of a goroutine to the next, so the
inductive invariant `GatewayInv` says what each goroutine carries:

- `Named`, `RowsSeen`: a step that uses a name has one, and the row of a name in use
  was written and is not blocked;
- `Counted`, `Entries`: the map has an entry of each authorized connection, and of a
  connection that authorized once no other;
- `Carried`, `Recorded`: work that is carried is work for a job, and work is recorded
  only for jobs that ran, so that a job starts with none;
- `Noticed`: `EnoughWorkIsNoticed` with the job named: it is the connection with a
  share for that job that is about to reconcile;
- `Told1`: of a connection that authorized once, in each step of its reader and its
  dispatcher, what the miner was told and what it is about to be told. That the
  dispatcher does not run before the first authorization is over is part of it. It is
  what a second authorization breaks, as `gateway_reauthorize` shows.

Each action has a lemma; `ConnStep`, `SharesSame` and `RowsKept` say once what a step
that touches one connection, no share or no entry leaves alone. The assumptions are
those of the module: difficulties and the requirement are positive, and `None` is no
job, name or connection.

### 4.7 Storage

`ArchiveStorageProofs` proves the type invariant (`StorageTypeCorrect`) and all
properties of `storage_race` and `storage_backup` (`ReplacedOnceCorrect`,
`FilesAreInTheTreeCorrect`, `BackupIsOneTreeCorrect`, `ObjectsAreOwnedCorrect`,
`ActiveFileIsStoredCorrect`, `RestoreIsWholeCorrect`, `ServiceImplementsArchive`) for
every number of folders, files, paths, collections and concurrent requests, with or
without lost answers; only `ActiveFileIsStoredCorrect` assumes `LostAnswers = FALSE`,
without which it is false (section 5). What a request read in one step it uses in a later
one, so the inductive invariant `StorageInv` says of each request what still holds of it:

- `Tables`: a row that was made is complete, in a folder that was made, and what it
  replaced is deleted, beside `ReplacedOnce` and `FilesAreInTheTree`;
- `Writes`, `Apart`: no row names the objects of a writer yet, their data is what the
  rows will say, and no other request has them; an imported folder is its importer's;
- `Target`: the folder a request found was made and stays so (it may be deleted);
- `Deletes`: with the folder's row locked, the list of objects to remove misses none,
  and what is about to be removed is deleted;
- `Exports`: a line of a manifest whose collection is not in it is of a file that was
  deleted and is still to be copied, so that the copy fails. This is why a backup is
  one tree although nothing locks it;
- `Stored`, `Owned`: the last two properties, what is left to remove being deleted.

A step of one request is safe if it spares what the others rely on (`Spares`) and
claims nothing of theirs (`Claims`): `OthersSafe` and `ApartSafe` show that once, and
`QuietSafe`, `DiskSafe`, `TransactionSafe` and `DeletedSafe` reduce the actions to it.
The assumptions are those of the module; `Objects` is finite because the file shown
at a path is the first in an order.

`ServiceImplementsArchive` proves `Spec => ImplementsArchive`, lost answers included.
Three things are needed beside `StorageInv`. Only four kinds of
steps touch `files` or `protected_folders` at all (`TableWriters`), and a step that
touches an object on disk finds it unused, its own or deleted (`DiskWriters`), so the
data of an active file stays what it was (`DiskStays`, as a property of every behaviour
`ActiveDataStaysCorrect`) and no download changes (`Unseen`).
`TableChange` says the same of the files that a transaction does not name. A lost answer
is one step with the clean-up that follows it, which takes the data of the request's own
files only, so these come in without data (`MayComeEmpty`). And
a request must know what it is about to do: the file a PUT replaces is at the path it
writes to, since its lookup (`Replacing`); a folder about to be deleted is active and
nobody else's to delete, since its row was locked (`Deleting`). Each transaction is
then one step of `FolderArchive`: `Add`, `Replace`, `Restore`, `Delete` or
`DeleteFolder`. `Add` is possible in a deleted folder, which is the finding of
section 5.

`DeletedFolderIsEmptyCorrect` shows that the finding needs requests that overlap: under
`SerialSpec` the folder that an upload, a PUT or a MKCOL has found active stays so until
its transaction (`FoundStays`).

### 4.8 Access queue, requests that do not overlap

`AccessSerialProofs` proves the safety properties of `access_serial` for any number of
users, folders, jobs, sessions and request slots, as long as no request begins before
the last one has ended or failed: `SerialSpec == Spec /\ []OneAtATime`. `OneSlotIsSerial`
says that an instance with one slot, which is what the run has, is one of them. Between
the steps of the request time goes on, shares come in, permissions lapse, and every
transaction may abort.

- `QueueNeverIdleCorrect`, `NoJobBesideSessionCorrect`, `RevocationIsCompleteCorrect`,
  `ProofSpentOnceCorrect`: the four invariants;
- `QueueImplementsOperation`: the refinement of `OneOperation`;
- `RevocationClosesSessions`: the promise of migration 0012 that
  `access_revoke_session` refutes for overlapping requests.

The invariant `SerialInv` is the four, with `PaidOnce`, which says that the job of
a session has succeeded and so cannot be picked again, and `Knows`, which says of the one
request that what it has read is still so: the job it is about to open a session for
runs, the permission it checked is there, its answer to "may this job start?" is right,
and what it chose to promote is the job to promote once what it ends has ended
(`Ready`). `Ready` is the heart of it: a transaction ends rows and promotes in one
commit, but it chose the job in a snapshot before the commit. `ChooseSerial` establishes
it, `TimeSerial` keeps it while the environment moves, and `CommitSerial` turns it into
`QueueNeverIdle` and `NoJobBesideSession`, given what remains of jobs and sessions
without those it ends (`Without`, `WithoutSessions`, `ToPromoteReady`). `OperationStep`
shows in the same pass over the actions that a commit is one step of `OneOperation`.
`GateInv` (4.3) holds as well and is used throughout.

### 4.9 What is only model-checked

Out of the prover's reach, and left to TLC: liveness under fairness (`JobsEnd`,
`SessionsEnd`, `ServerComesUp`, `WorkIsDispatched`, `GoneIsClosed`), ENABLED, and what
recursive definitions compute for all inputs. Every safety property of the passing runs
is a theorem. The type invariants are theorems too (`TypeCorrect`, `StorageTypeCorrect`,
`GatewayTypeCorrect`, `AccountsTypeCorrect`, `PolicyTypeCorrect`, `TrailTypeCorrect`); of
them only that of `AccessQueue` is also checked by a run.

The proofs keep their leaves small: one row, one record or one set at a time, with the
facts it needs, so that the provers find them with a fraction of their default time.

## 5. What the violated runs show

They are listed as findings in `PROJECT.json` with the sentence of the repository
they contradict. In short: a permission revoked while a reconcile is under way does
not stop the session it opens; a connection that authorizes twice is not given
work; a file can outlive its folder. The first and the last need requests that
overlap: without that the property broken is a theorem (`RevocationClosesSessions`,
`DeletedFolderIsEmptyCorrect`).

Overlapping requests break more of what `access_serial` checks than the first finding
shows, and no run with two requests has these properties. Two reconciles
may both insert a session for the job they have read; the constraint of one open session
stops the second only while the first is open. A job that was created while a session
opened can run beside it, and since `openSessionForCompletedJob` rolls its cancellation
back, only its timeout or its client ends it. The hazards in `PROJECT.json` say
at each of them which part no property covers.

Four more disagreements have no run of their own. `createJob` decides that its job
may start, another request opens a session, and the job is inserted as running
beside it, though `main.tsx` 2150 says "Only one active access operation is allowed
at a time": `ImplementsOperation` holds for requests that do not overlap only, and
fails with `Requests = {r1, r2}`. The job that `createJob` inserts on a permission it
checked before is open after the revocation. A connection that authorizes under a
second name stays counted under the first after it has closed. An upload whose
COMMIT took effect but whose answer was lost removes the object of a file that is
now active: `ActiveFileIsStored` fails with `LostAnswers = TRUE`, and so `storage_race`
excludes lost answers.

## 6. Not modelled

- Reads that change nothing (listings, downloads, WebDAV GET and PROPFIND, the
  terminal views, audit queries and exports); the check of a folder's seal they begin
  with is `VerifyRead`.
- Administrator WebDAV sessions, which only expire.
- The proof windows of `bestAttemptProgress`: the work of a job only grows in
  `AccessQueue`. The windows include both of their ends (a listed hazard).
- The migrations. They run in one transaction before the server does anything else.
- Errors of the database while the server starts, other than the ones that end it:
  the start is repeated.
- The database's connection pool. `handleListFolders` holds one connection and may
  need a second one (a listed hazard).
- The hash of a share, cryptography, formatting, the frontend's views, configuration,
  the stratum debugger, deployment.

Next would be: a module of the proof windows; administrator WebDAV sessions with their
credentials.
