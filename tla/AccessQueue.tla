---------------------------- MODULE AccessQueue ----------------------------
(***************************************************************************)
(* The access service of one tenant: the queue of Proof-of-Work jobs       *)
(* (table pow_jobs) and the time-limited access sessions (table            *)
(* access_sessions) a completed job opens, together with the operations of *)
(* the archive and auth services that close sessions and cancel jobs.      *)
(*                                                                         *)
(* Every HTTP handler of the access service first runs "reconcile", four   *)
(* separate database transactions, and then its own operation.  Handlers   *)
(* run concurrently, one goroutine per request, with PostgreSQL's default  *)
(* READ COMMITTED isolation.  A request is a record in "req" that moves    *)
(* from one transaction to the next; what it read earlier and uses later   *)
(* is kept in the record.                                                  *)
(*                                                                         *)
(* A transaction that ends in promoting the oldest queued job has two      *)
(* steps here: in the first the promoting statement takes its snapshot and *)
(* chooses the job, in the second the whole transaction takes effect.  The *)
(* statement names the chosen row by id alone, so what other requests      *)
(* commit between the two steps does not stop it.                          *)
(***************************************************************************)
EXTENDS Naturals, FiniteSets

CONSTANTS Users,      \* client users of the tenant
          Folders,    \* protected folders of the tenant
          Jobs,       \* identities of pow_jobs rows, in the order of created_at
          Sessions,   \* identities of access_sessions rows
          Requests,   \* requests that can be in progress at the same time
          None        \* no row

ASSUME IdsAreNumbers == Jobs \subseteq Nat /\ Sessions \subseteq Nat
ASSUME NoneIsNoRow == None \notin Jobs \cup Sessions \cup Users \cup Folders

VARIABLES jobs,       \* table pow_jobs
          sessions,   \* table access_sessions
          grants,     \* table folder_permissions
          folders,    \* protected_folders rows with status 'active'
          users,      \* users rows
          req,        \* progress of each request
          earned      \* history: jobs for which enough valid work was accepted

vars == <<jobs, sessions, grants, folders, users, req, earned>>

-----------------------------------------------------------------------------
(* Rows.  "none" is an identity no INSERT has used, "deleted" a row that a  *)
(* DELETE removed.  "overdue" and "lapsed" say that the deadline stored in  *)
(* the row has passed; "proved" that the shares recorded since started_at   *)
(* reach required_work_th in one proof window.                              *)

JobStatus == {"none", "queued", "running", "succeeded", "canceled",
              "timeout", "deleted"}
OpenStatus == {"queued", "running"}
EndStatus == {"succeeded", "canceled", "timeout"}
SessionStatus == {"none", "active", "closed", "expired", "revoked", "deleted"}

Job == [status : JobStatus, user : Users \cup {None},
        folder : Folders \cup {None}, overdue : BOOLEAN, proved : BOOLEAN]
Session == [status : SessionStatus, job : Jobs \cup {None}, lapsed : BOOLEAN]

NoJob == [status |-> "none", user |-> None, folder |-> None,
          overdue |-> FALSE, proved |-> FALSE]
NoSession == [status |-> "none", job |-> None, lapsed |-> FALSE]

Steps == {"idle", "timeout", "timeoutCommit", "complete", "open", "promote",
          "promoteCommit", "handler", "createTx", "createInsert",
          "cancelCommit", "closeCommit", "adminCloseCommit", "revokeCommit",
          "deleteFolderCommit", "deleteUserCommit"}

Request == [pc : Steps, pick : Jobs \cup {None}, job : Jobs \cup {None},
            session : Sessions \cup {None}, user : Users \cup {None},
            folder : Folders \cup {None}, start : BOOLEAN,
            due : SUBSET Jobs]

AtStep(pc) == [pc |-> pc, pick |-> None, job |-> None, session |-> None,
               user |-> None, folder |-> None, start |-> FALSE, due |-> {}]
Idle == AtStep("idle")

TypeOK ==
  /\ jobs \in [Jobs -> Job]
  /\ sessions \in [Sessions -> Session]
  /\ grants \in [Users \X Folders -> {"none", "granted", "lapsed"}]
  /\ folders \subseteq Folders
  /\ users \subseteq Users
  /\ req \in [Requests -> Request]
  /\ earned \subseteq Jobs

Init ==
  /\ jobs = [j \in Jobs |-> NoJob]
  /\ sessions = [s \in Sessions |-> NoSession]
  /\ grants = [uf \in Users \X Folders |-> "none"]
  /\ folders = Folders
  /\ users = Users
  /\ req = [r \in Requests |-> Idle]
  /\ earned = {}

-----------------------------------------------------------------------------
(* Queries, over the tables a transaction sees (its own writes included).   *)

Running(js) == {j \in Jobs : js[j].status = "running"}
Queued(js) == {j \in Jobs : js[j].status = "queued"}
OpenSessions(ss) == {s \in Sessions : ss[s].status = "active" /\ ~ss[s].lapsed}
First(ids) == {i \in ids : \A k \in ids : i <= k}

\* canStartJobTx: no running job and no unexpired active session
CanStart(js, ss) == Running(js) = {} /\ OpenSessions(ss) = {}

\* The rows the UPDATE of promoteNextQueuedTx and of both versions of
\* promoteNextQueuedAccessJobTx selects: the oldest queued job, if any may start
ToPromote(js, ss) == IF CanStart(js, ss) THEN First(Queued(js)) ELSE {}

\* canUnlock: a permission that has not expired, on an active folder
CanUnlock(u, f) == grants[<<u, f>>] = "granted" /\ f \in folders

UserOf(s) == jobs[sessions[s].job].user
FolderOf(s) == jobs[sessions[s].job].folder

\* Unique index pow_jobs_one_running_per_tenant
OneRunning(js) == \A j, k \in Running(js) : j = k

-----------------------------------------------------------------------------
(* Updates.                                                                 *)

EndJobs(js, set, status) ==
  [j \in Jobs |-> IF j \in set THEN [js[j] EXCEPT !.status = status] ELSE js[j]]

EndSessions(ss, set, status) ==
  [s \in Sessions |-> IF s \in set THEN [ss[s] EXCEPT !.status = status]
                                   ELSE ss[s]]

\* The promoting UPDATE names its row by id only and sets started_at to now:
\* the deadline and the proof windows of the job begin again
Promoted(js, pick) ==
  [j \in Jobs |-> IF j = pick /\ js[j].status # "deleted"
                  THEN [js[j] EXCEPT !.status = "running", !.overdue = FALSE,
                                     !.proved = FALSE]
                  ELSE js[j]]

\* Variants of Due: the status is not tested; only queued jobs time out
DueInAnyStatus(js) == {j \in Jobs : js[j].overdue}
DueQueued(js) == {j \in Queued(js) : js[j].overdue}

\* Both a running and a queued job time out, from started_at or created_at
Due(js) == {j \in Jobs : js[j].status \in OpenStatus /\ js[j].overdue}

\* Variant of TimedOut: a status pow_jobs does not have
TimedOutAsExpired(js, set) == EndJobs(js, set, "expired")

TimedOut(js, set) == EndJobs(js, set, "timeout")
Canceled(js, j) == EndJobs(js, {j}, "canceled")

JobsOf(u, f) == {j \in Jobs : jobs[j].status \in OpenStatus
                              /\ jobs[j].user = u /\ jobs[j].folder = f}
SessionsOf(u, f) == {s \in Sessions : sessions[s].status = "active"
                                      /\ UserOf(s) = u /\ FolderOf(s) = f}

JobsIn(f) == {j \in Jobs : jobs[j].status \in OpenStatus /\ jobs[j].folder = f}
SessionsIn(f) == {s \in Sessions : sessions[s].status = "active" /\ FolderOf(s) = f}

JobsBy(u) == {j \in Jobs : jobs[j].status # "none" /\ jobs[j].user = u}
SessionsBy(u) == {s \in Sessions : sessions[s].status # "none" /\ UserOf(s) = u}

-----------------------------------------------------------------------------
(* Request steps.                                                           *)

Goto(r, record) == req' = [req EXCEPT ![r] = record]
Unchanged == UNCHANGED <<jobs, sessions, grants, folders, users, earned>>

\* First step of a transaction that promotes: the snapshot of the promotion,
\* which sees the transaction's own writes js and ss
Choose(r, js, ss, record) ==
  /\ \/ \E j \in ToPromote(js, ss) : Goto(r, [record EXCEPT !.pick = j])
     \/ ToPromote(js, ss) = {} /\ Goto(r, record)
  /\ Unchanged

\* Second step: the transaction's writes and the promotion become visible.
\* Where the unique index refuses the promotion only Abort is left
Commit(r, js, ss, record) ==
  /\ OneRunning(Promoted(js, req[r].pick))
  /\ jobs' = Promoted(js, req[r].pick)
  /\ sessions' = ss
  /\ Goto(r, record)
  /\ UNCHANGED earned

\* A database error (a violated index or foreign key, a missing key of the key
\* manager, a lost connection) or a canceled request context: the open
\* transaction is rolled back, the committed ones stay
Abort(r) ==
  /\ req[r].pc # "idle"
  /\ Goto(r, Idle)
  /\ Unchanged

-----------------------------------------------------------------------------
(* reconcile.                                                               *)

\* Variants of ExpireSessions: the status is not tested; the comparison of
\* expires_at is reversed
ExpireInAnyStatus(r) ==
  /\ req[r].pc = "idle"
  /\ sessions' = EndSessions(sessions, {s \in Sessions : sessions[s].lapsed}, "expired")
  /\ Goto(r, AtStep("timeout"))
  /\ UNCHANGED <<jobs, grants, folders, users, earned>>
ExpireUnlapsed(r) ==
  /\ req[r].pc = "idle"
  /\ sessions' = EndSessions(sessions, OpenSessions(sessions), "expired")
  /\ Goto(r, AtStep("timeout"))
  /\ UNCHANGED <<jobs, grants, folders, users, earned>>

\* A request starts; its first transaction is expireSessions
ExpireSessions(r) ==
  /\ req[r].pc = "idle"
  /\ sessions' = EndSessions(sessions, {s \in Sessions :
                   sessions[s].status = "active" /\ sessions[s].lapsed}, "expired")
  /\ Goto(r, AtStep("timeout"))
  /\ UNCHANGED <<jobs, grants, folders, users, earned>>

\* now() is the start of the transaction: a deadline that passes before the
\* commit is left to the next request
TimeoutJobs(r) ==
  /\ req[r].pc = "timeout"
  /\ Choose(r, TimedOut(jobs, Due(jobs)), sessions,
            [AtStep("timeoutCommit") EXCEPT !.due = Due(jobs)])

TimeoutCommit(r) ==
  /\ req[r].pc = "timeoutCommit"
  /\ Commit(r, TimedOut(jobs, req[r].due \cap Due(jobs)), sessions, AtStep("complete"))
  /\ UNCHANGED <<grants, folders, users>>

\* Variant of CompleteRunningJobs: the work is not compared with required_work_th
CompleteUnproved(r) ==
  /\ req[r].pc = "complete"
  /\ \/ \E j \in Running(jobs) : Goto(r, [AtStep("open") EXCEPT !.job = j])
     \/ Running(jobs) = {} /\ Goto(r, AtStep("promote"))
  /\ Unchanged

\* completeRunningJobs reads the running jobs, then their progress; nothing is
\* locked, so the job it goes on with may change before the session opens
CompleteRunningJobs(r) ==
  /\ req[r].pc = "complete"
  /\ \/ \E j \in Running(jobs) :
          /\ jobs[j].proved
          /\ Goto(r, [AtStep("open") EXCEPT !.job = j])
     \/ /\ \A j \in Running(jobs) : ~jobs[j].proved
        /\ Goto(r, AtStep("promote"))
  /\ Unchanged

\* Variants of Opened: the queued jobs stay; the job stays 'running'
OpenedKeepingQueue(j) == EndJobs(jobs, Running(jobs) \cap {j}, "succeeded")
OpenedKeepingJob(j) == EndJobs(jobs, Queued(jobs) \ {j}, "canceled")

\* openSessionForCompletedJob: the UPDATE to 'succeeded' is guarded by
\* status = 'running', the INSERT of the session is not
Opened(j) ==
  EndJobs(EndJobs(jobs, Queued(jobs) \ {j}, "canceled"),
          Running(jobs) \cap {j}, "succeeded")

\* Variant of CanInsertSession: no foreign keys
CanInsertOrphan(j) == \A s \in Sessions : sessions[s].status # "active"

CanInsertSession(j) ==
  /\ \A s \in Sessions : sessions[s].status # "active"
  /\ jobs[j].status # "deleted"

OpenSession(r) ==
  /\ req[r].pc = "open"
  /\ OpenSessions(sessions) = {}
  /\ CanInsertSession(req[r].job)
  /\ \E s \in First({t \in Sessions : sessions[t].status = "none"}) :
       sessions' = [sessions EXCEPT ![s] =
                      [status |-> "active", job |-> req[r].job, lapsed |-> FALSE]]
  /\ jobs' = Opened(req[r].job)
  /\ Goto(r, AtStep("promote"))
  /\ UNCHANGED <<grants, folders, users, earned>>

\* Variant of SkipOpenSession: the job succeeds and the branch commits
SkipWithSuccess(r) ==
  /\ req[r].pc = "open"
  /\ OpenSessions(sessions) # {}
  /\ jobs' = EndJobs(jobs, Running(jobs) \cap {req[r].job}, "succeeded")
  /\ Goto(r, AtStep("promote"))
  /\ UNCHANGED <<sessions, grants, folders, users, earned>>

\* An unexpired session is open: the branch sets the job to 'canceled' and
\* returns without Commit, and the deferred Rollback takes that back
SkipOpenSession(r) ==
  /\ req[r].pc = "open"
  /\ OpenSessions(sessions) # {}
  /\ Goto(r, AtStep("promote"))
  /\ Unchanged

Promote(r) ==
  /\ req[r].pc = "promote"
  /\ Choose(r, jobs, sessions, AtStep("promoteCommit"))

PromoteCommit(r) ==
  /\ req[r].pc = "promoteCommit"
  /\ Commit(r, jobs, sessions, AtStep("handler"))
  /\ UNCHANGED <<grants, folders, users>>

-----------------------------------------------------------------------------
(* The operations of the access service, after reconcile.                   *)

\* A handler that only reads
Return(r) ==
  /\ req[r].pc = "handler"
  /\ Goto(r, Idle)
  /\ Unchanged

\* createJob before its transaction: permission, no open session and no open
\* job of this user for this folder
CreateCheck(r, u, f) ==
  /\ req[r].pc = "handler"
  /\ u \in users
  /\ CanUnlock(u, f)
  /\ \A s \in OpenSessions(sessions) : <<UserOf(s), FolderOf(s)>> # <<u, f>>
  /\ JobsOf(u, f) = {}
  /\ Goto(r, [AtStep("createTx") EXCEPT !.user = u, !.folder = f])
  /\ Unchanged

\* The transaction reads whether the job can start at once; an open session
\* ends the request with a conflict
CreateTx(r) ==
  /\ req[r].pc = "createTx"
  /\ \/ /\ OpenSessions(sessions) = {}
        /\ Goto(r, [req[r] EXCEPT !.pc = "createInsert",
                                  !.start = CanStart(jobs, sessions)])
     \/ OpenSessions(sessions) # {} /\ Goto(r, Idle)
  /\ Unchanged

NewJob(r) ==
  [status |-> IF req[r].start THEN "running" ELSE "queued",
   user |-> req[r].user, folder |-> req[r].folder,
   overdue |-> FALSE, proved |-> FALSE]

\* The INSERT fails on the foreign key of a deleted user and on the unique index
CreateInsert(r) ==
  /\ req[r].pc = "createInsert"
  /\ req[r].user \in users
  /\ \E j \in First({k \in Jobs : jobs[k].status = "none"}) :
       /\ OneRunning([jobs EXCEPT ![j] = NewJob(r)])
       /\ jobs' = [jobs EXCEPT ![j] = NewJob(r)]
  /\ Goto(r, Idle)
  /\ UNCHANGED <<sessions, grants, folders, users, earned>>

\* Variant of Cancel: the transaction does not promote
CancelWithoutPromotion(r, j) ==
  /\ req[r].pc = "handler"
  /\ jobs[j].status \in OpenStatus
  /\ Goto(r, [AtStep("cancelCommit") EXCEPT !.job = j])
  /\ Unchanged

Cancel(r, j) ==
  /\ req[r].pc = "handler"
  /\ jobs[j].status \in OpenStatus
  /\ Choose(r, Canceled(jobs, j), sessions,
            [AtStep("cancelCommit") EXCEPT !.job = j])

CancelCommit(r) ==
  /\ req[r].pc = "cancelCommit"
  /\ jobs[req[r].job].status \in OpenStatus
  /\ Commit(r, Canceled(jobs, req[r].job), sessions, Idle)
  /\ UNCHANGED <<grants, folders, users>>

Close(r, s) ==
  /\ req[r].pc = "handler"
  /\ sessions[s].status = "active"
  /\ Choose(r, jobs, EndSessions(sessions, {s}, "closed"),
            [AtStep("closeCommit") EXCEPT !.session = s])

CloseCommit(r) ==
  /\ req[r].pc = "closeCommit"
  /\ sessions[req[r].session].status = "active"
  /\ Commit(r, jobs, EndSessions(sessions, {req[r].session}, "closed"), Idle)
  /\ UNCHANGED <<grants, folders, users>>

\* closeSessionAsAdmin also requires that the session has not expired
CloseAsAdmin(r, s) ==
  /\ req[r].pc = "handler"
  /\ s \in OpenSessions(sessions)
  /\ Choose(r, jobs, EndSessions(sessions, {s}, "closed"),
            [AtStep("adminCloseCommit") EXCEPT !.session = s])

CloseAsAdminCommit(r) ==
  /\ req[r].pc = "adminCloseCommit"
  /\ sessions[req[r].session].status = "active"
  /\ Commit(r, jobs, EndSessions(sessions, {req[r].session}, "closed"), Idle)
  /\ UNCHANGED <<grants, folders, users>>

-----------------------------------------------------------------------------
(* Operations of the archive and auth services; they do not reconcile.      *)

Grant(u, f) ==
  /\ u \in users
  /\ f \in folders
  /\ grants' = [grants EXCEPT ![<<u, f>>] = "granted"]
  /\ UNCHANGED <<jobs, sessions, folders, users, req, earned>>

\* Variant of RevokedJobs: only queued jobs are canceled
RevokedQueuedJobs(u, f) ==
  EndJobs(jobs, JobsOf(u, f) \cap Queued(jobs), "canceled")

RevokedJobs(u, f) == EndJobs(jobs, JobsOf(u, f), "canceled")
RevokedSessions(u, f) == EndSessions(sessions, SessionsOf(u, f), "revoked")

\* handleUpdateFolderPermission with can_unlock_and_access = false or an expiry
\* in the past; it promotes only if it closed or canceled something
Revoke(r, u, f) ==
  /\ req[r].pc = "idle"
  /\ u \in users
  /\ f \in folders
  /\ LET record == [AtStep("revokeCommit") EXCEPT !.user = u, !.folder = f]
     IN  IF JobsOf(u, f) = {} /\ SessionsOf(u, f) = {}
         THEN Goto(r, record) /\ Unchanged
         ELSE Choose(r, RevokedJobs(u, f), RevokedSessions(u, f), record)

RevokeCommit(r) ==
  /\ req[r].pc = "revokeCommit"
  /\ LET u == req[r].user  f == req[r].folder
     IN  /\ u \in users
         /\ Commit(r, RevokedJobs(u, f), RevokedSessions(u, f), Idle)
         /\ grants' = [grants EXCEPT ![<<u, f>>] = "none"]
  /\ UNCHANGED <<folders, users>>

DeletedFolderJobs(f) == EndJobs(jobs, JobsIn(f), "canceled")
DeletedFolderSessions(f) == EndSessions(sessions, SessionsIn(f), "revoked")

DeleteFolder(r, f) ==
  /\ req[r].pc = "idle"
  /\ f \in folders
  /\ Choose(r, DeletedFolderJobs(f), DeletedFolderSessions(f),
            [AtStep("deleteFolderCommit") EXCEPT !.folder = f])

DeleteFolderCommit(r) ==
  /\ req[r].pc = "deleteFolderCommit"
  /\ LET f == req[r].folder
     IN  /\ f \in folders
         /\ Commit(r, DeletedFolderJobs(f), DeletedFolderSessions(f), Idle)
         /\ folders' = folders \ {f}
         /\ grants' = [uf \in Users \X Folders |->
                         IF uf[2] = f THEN "none" ELSE grants[uf]]
  /\ UNCHANGED users

DeletedUserJobs(u) == EndJobs(jobs, JobsBy(u), "deleted")
DeletedUserSessions(u) == EndSessions(sessions, SessionsBy(u), "deleted")

DeleteUser(r, u) ==
  /\ req[r].pc = "idle"
  /\ u \in users
  /\ Choose(r, DeletedUserJobs(u), DeletedUserSessions(u),
            [AtStep("deleteUserCommit") EXCEPT !.user = u])

DeleteUserCommit(r) ==
  /\ req[r].pc = "deleteUserCommit"
  /\ LET u == req[r].user
     IN  /\ u \in users
         /\ Commit(r, DeletedUserJobs(u), DeletedUserSessions(u), Idle)
         /\ users' = users \ {u}
         /\ grants' = [uf \in Users \X Folders |->
                         IF uf[1] = u THEN "none" ELSE grants[uf]]
  /\ UNCHANGED folders

-----------------------------------------------------------------------------
(* Time and the compute gateway.                                            *)

JobDue(j) ==
  /\ jobs[j].status \in OpenStatus
  /\ ~jobs[j].overdue
  /\ jobs' = [jobs EXCEPT ![j].overdue = TRUE]
  /\ UNCHANGED <<sessions, grants, folders, users, req, earned>>

SessionLapses(s) ==
  /\ s \in OpenSessions(sessions)
  /\ sessions' = [sessions EXCEPT ![s].lapsed = TRUE]
  /\ UNCHANGED <<jobs, grants, folders, users, req, earned>>

GrantLapses(u, f) ==
  /\ grants[<<u, f>>] = "granted"
  /\ grants' = [grants EXCEPT ![<<u, f>>] = "lapsed"]
  /\ UNCHANGED <<jobs, sessions, folders, users, req, earned>>

\* The gateway records the share with which the work of one window suffices;
\* it takes shares for the running job only, and the windows end at the deadline
WorkProved(j) ==
  /\ jobs[j].status = "running"
  /\ ~jobs[j].overdue
  /\ ~jobs[j].proved
  /\ jobs' = [jobs EXCEPT ![j].proved = TRUE]
  /\ earned' = earned \cup {j}
  /\ UNCHANGED <<sessions, grants, folders, users, req>>

-----------------------------------------------------------------------------
Reconcile(r) ==
  \/ ExpireSessions(r) \/ TimeoutJobs(r) \/ TimeoutCommit(r)
  \/ CompleteRunningJobs(r) \/ OpenSession(r) \/ SkipOpenSession(r)
  \/ Promote(r) \/ PromoteCommit(r)

ClientOperation(r) ==
  \/ Return(r)
  \/ \E u \in Users, f \in Folders : CreateCheck(r, u, f)
  \/ CreateTx(r) \/ CreateInsert(r)
  \/ \E j \in Jobs : Cancel(r, j)
  \/ CancelCommit(r)
  \/ \E s \in Sessions : Close(r, s) \/ CloseAsAdmin(r, s)
  \/ CloseCommit(r) \/ CloseAsAdminCommit(r)

AdminOperation(r) ==
  \/ \E u \in Users, f \in Folders : Revoke(r, u, f)
  \/ \E f \in Folders : DeleteFolder(r, f)
  \/ \E u \in Users : DeleteUser(r, u)
  \/ RevokeCommit(r) \/ DeleteFolderCommit(r) \/ DeleteUserCommit(r)

Environment ==
  \/ \E u \in Users, f \in Folders : Grant(u, f) \/ GrantLapses(u, f)
  \/ \E j \in Jobs : JobDue(j) \/ WorkProved(j)
  \/ \E s \in Sessions : SessionLapses(s)

Next ==
  \/ \E r \in Requests : Reconcile(r) \/ ClientOperation(r)
                         \/ AdminOperation(r) \/ Abort(r)
  \/ Environment

Spec == Init /\ [][Next]_vars

-----------------------------------------------------------------------------
(* What holds with any number of concurrent requests.                       *)

\* The tenant has at most one running job and at most one active session: the
\* two partial unique indexes turn the losing check-then-act of createJob, of a
\* promotion or of openSessionForCompletedJob into an error
TenantExclusive ==
  /\ OneRunning(jobs)
  /\ \A s, t \in Sessions : sessions[s].status = "active"
                            /\ sessions[t].status = "active" => s = t

\* A session row exists only for a job whose accepted work reached the required
\* work of its folder, whatever became of the job after completeRunningJobs read it
SessionEarned ==
  \A s \in Sessions : sessions[s].status # "none" => sessions[s].job \in earned

\* openSessionForCompletedJob is all or nothing: no job is 'succeeded' without
\* the session its proof paid for
SucceededHasSession ==
  \A j \in Jobs : jobs[j].status = "succeeded" =>
    \E s \in Sessions : sessions[s].status # "none" /\ sessions[s].job = j

\* The owner of every job and of every session is a user
RowsHaveOwners ==
  /\ \A j \in Jobs : jobs[j].status \notin {"none", "deleted"}
                     => jobs[j].user \in users
  /\ \A s \in Sessions : sessions[s].status \notin {"none", "deleted"}
                     => UserOf(s) \in users

\* Nobody but a user has a permission that was granted and not taken back
GrantsHaveOwners ==
  \A u \in Users \ users, f \in Folders : grants[<<u, f>>] = "none"

\* No job, session or permission outlives its user: handleDeleteUser removes all
\* three, and a job read or prepared before the deletion, or a permission being
\* revoked meanwhile, cannot bring one back after it
DeletedUserOwnsNothing == RowsHaveOwners /\ GrantsHaveOwners

\* A session that was closed, expired or revoked keeps that status: every
\* UPDATE of access_sessions is guarded by status = 'active'
SessionEndIsFinal ==
  [][\A s \in Sessions : sessions[s].status \in {"closed", "expired", "revoked"}
       => sessions'[s].status \in {sessions[s].status, "deleted"}]_vars

\* A job that ended changes again only because a promotion chose it while it was
\* still queued; no handler cancels, times out or completes it a second time
EndedJobOnlyRestarts ==
  [][\A j \in Jobs :
       jobs[j].status \in EndStatus /\ jobs'[j].status # jobs[j].status =>
         \/ jobs'[j].status = "deleted"
         \/ jobs'[j].status = "running" /\ \E r \in Requests : req[r].pick = j]_vars

-----------------------------------------------------------------------------
(* What the handlers achieve when requests do not overlap (one element in   *)
(* Requests), whatever fails in between.                                    *)

\* There is never a queued job with nothing running: whatever ends the running
\* job or the session (timeout, cancel, close, revocation, deletion) promotes
QueueNeverIdle == Queued(jobs) # {} => Running(jobs) # {}

\* An unexpired session keeps the queue empty: opening it cancels the queued
\* jobs and createJob answers with a conflict until it ends
NoJobBesideSession ==
  OpenSessions(sessions) # {} => \A j \in Jobs : jobs[j].status \notin OpenStatus

\* Without a permission row that grants it, a user has no active session and no
\* open job for the folder, whether the grant, the folder or the user went
RevocationIsComplete ==
  \A u \in Users, f \in Folders :
    grants[<<u, f>>] = "none" => JobsOf(u, f) = {} /\ SessionsOf(u, f) = {}

\* The work of one job opens one session
ProofSpentOnce ==
  \A s, t \in Sessions :
    sessions[s].status # "none" /\ sessions[t].status # "none"
    /\ sessions[s].job = sessions[t].job => s = t

-----------------------------------------------------------------------------
(* What the queue implements.                                               *)

Active == {s \in Sessions : sessions[s].status = "active"}

Gate == INSTANCE AccessGate WITH
          running <- Running(jobs), earned <- earned, open <- Active,
          paidBy <- [s \in Sessions |-> sessions[s].job]

\* However requests overlap and fail, the queue is a gate: work counts for the
\* one running job, a session opens when none is active and by work that
\* sufficed, and no session row becomes active a second time
ImplementsGate == Gate!Spec

TheOne(set) == IF set = {} THEN None ELSE CHOOSE x \in set : TRUE

Operation == INSTANCE OneOperation WITH
          job <- TheOne(Running(jobs)), session <- TheOne(OpenSessions(sessions)),
          pastJobs <- {j \in Jobs : jobs[j].status \notin {"none", "queued"}},
          pastSessions <- {s \in Sessions : sessions[s].status # "none"}

\* Where requests do not overlap, the queue is one operation at a time that no
\* lapse, failure or promotion splits in two or brings back
ImplementsOperation == Operation!Spec

-----------------------------------------------------------------------------
(* What the settings row access_session_workflow_policy and the interface   *)
(* claim.                                                                   *)

\* permission_revoke_closes_active_sessions: a revoked permission leaves no
\* active session for the user and folder
PermissionRevokeClosesSessions ==
  \A u \in Users, f \in Folders :
    grants[<<u, f>>] = "none" => SessionsOf(u, f) = {}

-----------------------------------------------------------------------------
(* Liveness.  Nothing in the server runs reconcile on a timer: clients poll *)
(* (the frontend on an interval) and every valid share reconciles, so       *)
(* requests keep starting and not every one of them fails before the        *)
(* timeouts are committed.  A request in progress continues or fails, and   *)
(* deadlines pass.                                                          *)

Fairness ==
  /\ \A r \in Requests :
       /\ WF_vars(Reconcile(r) \/ ClientOperation(r) \/ AdminOperation(r)
                  \/ Abort(r))
       /\ SF_vars(ExpireSessions(r))
       /\ SF_vars(TimeoutJobs(r))
       /\ SF_vars(TimeoutCommit(r))
  /\ \A j \in Jobs : WF_vars(JobDue(j))
  /\ \A s \in Sessions : WF_vars(SessionLapses(s))

FairSpec == Spec /\ Fairness

\* Every queued or running job ends, although nothing in the server watches its
\* deadline and the timeouts, the session it earned and the promotion of the next
\* one are transactions of which each may fail after the one before it
JobsEnd == \A j \in Jobs : jobs[j].status \in OpenStatus
                           ~> jobs[j].status \notin OpenStatus

\* Every session ends without anybody closing it
SessionsEnd == \A s \in Sessions : sessions[s].status = "active"
                                   ~> sessions[s].status # "active"
=============================================================================
