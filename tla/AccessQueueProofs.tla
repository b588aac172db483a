-------------------------- MODULE AccessQueueProofs --------------------------
(***************************************************************************)
(* Proofs about AccessQueue for every number of users, folders, jobs,      *)
(* sessions and concurrent requests.                                       *)
(***************************************************************************)
EXTENDS AccessQueue, TLAPS

-----------------------------------------------------------------------------
(* The helpers that build tables and request records.                       *)

\* Setting the status of some rows keeps a table a table
LEMMA EndJobsTable ==
  ASSUME NEW js \in [Jobs -> Job], NEW set, NEW status \in JobStatus
  PROVE  EndJobs(js, set, status) \in [Jobs -> Job]
BY DEF EndJobs, Job

\* Closing, expiring or revoking sessions keeps the table a table
LEMMA EndSessionsTable ==
  ASSUME NEW ss \in [Sessions -> Session], NEW set, NEW status \in SessionStatus
  PROVE  EndSessions(ss, set, status) \in [Sessions -> Session]
BY DEF EndSessions, Session

\* The promoting UPDATE keeps the table a table
LEMMA PromotedTable ==
  ASSUME NEW js \in [Jobs -> Job], NEW pick
  PROVE  Promoted(js, pick) \in [Jobs -> Job]
BY DEF Promoted, Job, JobStatus

\* A request that begins a step without reading anything is a request record
LEMMA AtStepRequest ==
  ASSUME NEW pc \in Steps
  PROVE  AtStep(pc) \in Request
BY DEF AtStep, Request

\* The record of handleUpdateFolderPermission, which carries user and folder
LEMMA AtStepForPermission ==
  ASSUME NEW pc \in Steps, NEW u \in Users, NEW f \in Folders
  PROVE  [AtStep(pc) EXCEPT !.user = u, !.folder = f] \in Request
BY DEF AtStep, Request

\* A request slot that is free is a request record
LEMMA IdleRequest == Idle \in Request
BY AtStepRequest DEF Idle, Steps

\* A request step that only moves its own record keeps the types
LEMMA GotoType ==
  ASSUME TypeOK, NEW r \in Requests, NEW record \in Request,
         Goto(r, record), Unchanged
  PROVE  TypeOK'
BY DEF TypeOK, Goto, Unchanged

\* The snapshot step of a promoting transaction keeps the types
LEMMA ChooseType ==
  ASSUME TypeOK, NEW r \in Requests, NEW js, NEW ss, NEW record \in Request,
         Choose(r, js, ss, record)
  PROVE  TypeOK'
<1>1. CASE ToPromote(js, ss) = {} /\ Goto(r, record)
  BY <1>1, GotoType DEF Choose
<1>2. ASSUME NEW j \in ToPromote(js, ss), Goto(r, [record EXCEPT !.pick = j])
      PROVE  TypeOK'
  <2>1. j \in Jobs
    BY <1>2 DEF ToPromote, First, Queued
  <2>2. [record EXCEPT !.pick = j] \in Request
    BY <2>1 DEF Request
  <2>3. QED BY <1>2, <2>2, GotoType DEF Choose
<1>3. QED BY <1>1, <1>2 DEF Choose

\* The effect of a promoting transaction gives job and session tables again
LEMMA CommitType ==
  ASSUME TypeOK, NEW r \in Requests, NEW js \in [Jobs -> Job],
         NEW ss \in [Sessions -> Session], NEW record \in Request,
         Commit(r, js, ss, record),
         grants' \in [Users \X Folders -> {"none", "granted", "lapsed"}],
         folders' \subseteq Folders, users' \subseteq Users
  PROVE  TypeOK'
<1>1. jobs' \in [Jobs -> Job]
  BY PromotedTable DEF Commit
<1>2. QED BY <1>1 DEF TypeOK, Commit, Goto

-----------------------------------------------------------------------------
\* The empty database with its users and folders has the right types
LEMMA TypeInit == Init => TypeOK
<1> SUFFICES ASSUME Init PROVE TypeOK
  OBVIOUS
<1>1. Idle \in Request
  BY IdleRequest
<1>2. jobs \in [Jobs -> Job] /\ sessions \in [Sessions -> Session]
  BY DEF Init, NoJob, Job, JobStatus, NoSession, Session, SessionStatus
<1>3. QED BY <1>1, <1>2 DEF Init, TypeOK

\* Every transaction of every handler keeps the types
LEMMA TypeStep == TypeOK /\ [Next]_vars => TypeOK'
<1> SUFFICES ASSUME TypeOK, [Next]_vars PROVE TypeOK'
  OBVIOUS
<1> USE IdleRequest
<1>1. ASSUME NEW r \in Requests, Reconcile(r) PROVE TypeOK'
  <2>1. CASE ExpireSessions(r)
    <3>1. sessions' \in [Sessions -> Session]
      BY <2>1, EndSessionsTable DEF ExpireSessions, TypeOK, SessionStatus
    <3>2. AtStep("timeout") \in Request
      BY AtStepRequest DEF Steps
    <3>3. QED BY <2>1, <3>1, <3>2 DEF ExpireSessions, TypeOK, Goto
  <2>2. CASE TimeoutJobs(r)
    <3>1. [AtStep("timeoutCommit") EXCEPT !.due = Due(jobs)] \in Request
      BY AtStepRequest DEF Steps, Request, Due
    <3>2. QED BY <2>2, <3>1, ChooseType DEF TimeoutJobs
  <2>3. CASE TimeoutCommit(r)
    <3>1. AtStep("complete") \in Request
      BY AtStepRequest DEF Steps
    <3>2. TimedOut(jobs, req[r].due \cap Due(jobs)) \in [Jobs -> Job]
      BY EndJobsTable DEF TimedOut, TypeOK, JobStatus
    <3>3. QED BY <2>3, <3>1, <3>2, CommitType DEF TimeoutCommit, TypeOK
  <2>4. CASE CompleteRunningJobs(r)
    <3>1. AtStep("promote") \in Request
      BY AtStepRequest DEF Steps
    <3>2. \A j \in Jobs : [AtStep("open") EXCEPT !.job = j] \in Request
      BY AtStepRequest DEF Steps, Request
    <3>3. QED BY <2>4, <3>1, <3>2, GotoType DEF CompleteRunningJobs, Running
  <2>5. CASE OpenSession(r)
    <3>1. AtStep("promote") \in Request
      BY AtStepRequest DEF Steps
    <3>2. jobs' \in [Jobs -> Job]
      <4>1. EndJobs(jobs, Queued(jobs) \ {req[r].job}, "canceled") \in [Jobs -> Job]
        BY EndJobsTable DEF TypeOK, JobStatus
      <4>2. QED BY <2>5, <4>1, EndJobsTable DEF OpenSession, Opened, JobStatus
    <3>3. sessions' \in [Sessions -> Session]
      <4>1. req[r].job \in Jobs \cup {None}
        BY DEF TypeOK, Request
      <4>2. [status |-> "active", job |-> req[r].job, lapsed |-> FALSE] \in Session
        BY <4>1 DEF Session, SessionStatus
      <4>3. QED BY <2>5, <4>2 DEF OpenSession, TypeOK
    <3>4. QED BY <2>5, <3>1, <3>2, <3>3 DEF OpenSession, TypeOK, Goto
  <2>6. CASE SkipOpenSession(r)
    <3>1. AtStep("promote") \in Request
      BY AtStepRequest DEF Steps
    <3>2. QED BY <2>6, <3>1, GotoType DEF SkipOpenSession
  <2>7. CASE Promote(r)
    <3>1. AtStep("promoteCommit") \in Request
      BY AtStepRequest DEF Steps
    <3>2. QED BY <2>7, <3>1, ChooseType DEF Promote
  <2>8. CASE PromoteCommit(r)
    <3>1. AtStep("handler") \in Request
      BY AtStepRequest DEF Steps
    <3>2. QED BY <2>8, <3>1, CommitType DEF PromoteCommit, TypeOK
  <2>9. QED
    BY <1>1, <2>1, <2>2, <2>3, <2>4, <2>5, <2>6, <2>7, <2>8 DEF Reconcile
<1>2. ASSUME NEW r \in Requests, ClientOperation(r) PROVE TypeOK'
  <2>1. CASE Return(r)
    BY <2>1, GotoType DEF Return
  <2>2. ASSUME NEW u \in Users, NEW f \in Folders, CreateCheck(r, u, f)
        PROVE  TypeOK'
    <3>1. [AtStep("createTx") EXCEPT !.user = u, !.folder = f] \in Request
      BY AtStepForPermission DEF Steps
    <3>2. QED BY <2>2, <3>1, GotoType DEF CreateCheck
  <2>3. CASE CreateTx(r)
    <3>1. [req[r] EXCEPT !.pc = "createInsert",
                         !.start = CanStart(jobs, sessions)] \in Request
      <4>1. CanStart(jobs, sessions) \in BOOLEAN
        BY DEF CanStart
      <4>2. req[r] \in Request
        BY DEF TypeOK
      <4>3. QED BY <4>1, <4>2 DEF Request, Steps
    <3>2. QED BY <2>3, <3>1, GotoType DEF CreateTx
  <2>4. CASE CreateInsert(r)
    <3>1. NewJob(r) \in Job
      BY DEF NewJob, Job, JobStatus, TypeOK, Request
    <3>2. QED BY <2>4, <3>1 DEF CreateInsert, TypeOK, Goto
  <2>5. ASSUME NEW j \in Jobs, Cancel(r, j) PROVE TypeOK'
    <3>1. [AtStep("cancelCommit") EXCEPT !.job = j] \in Request
      BY AtStepRequest DEF Steps, Request
    <3>2. QED BY <2>5, <3>1, ChooseType DEF Cancel
  <2>6. CASE CancelCommit(r)
    <3>1. Canceled(jobs, req[r].job) \in [Jobs -> Job]
      BY EndJobsTable DEF Canceled, TypeOK, JobStatus
    <3>2. QED BY <2>6, <3>1, CommitType DEF CancelCommit, TypeOK
  <2>7. ASSUME NEW s \in Sessions, Close(r, s) \/ CloseAsAdmin(r, s)
        PROVE  TypeOK'
    <3>1. /\ [AtStep("closeCommit") EXCEPT !.session = s] \in Request
          /\ [AtStep("adminCloseCommit") EXCEPT !.session = s] \in Request
      BY AtStepRequest DEF Steps, Request
    <3>2. QED BY <2>7, <3>1, ChooseType DEF Close, CloseAsAdmin
  <2>8. CASE CloseCommit(r) \/ CloseAsAdminCommit(r)
    <3>1. EndSessions(sessions, {req[r].session}, "closed")
            \in [Sessions -> Session]
      BY EndSessionsTable DEF TypeOK, SessionStatus
    <3>2. QED
      BY <2>8, <3>1, CommitType DEF CloseCommit, CloseAsAdminCommit, TypeOK
  <2>9. QED
    BY <1>2, <2>1, <2>2, <2>3, <2>4, <2>5, <2>6, <2>7, <2>8
    DEF ClientOperation
<1>3. ASSUME NEW r \in Requests, AdminOperation(r) PROVE TypeOK'
  <2>1. ASSUME NEW u \in Users, NEW f \in Folders, Revoke(r, u, f)
        PROVE  TypeOK'
    <3>1. [AtStep("revokeCommit") EXCEPT !.user = u, !.folder = f] \in Request
      BY AtStepForPermission DEF Steps
    <3>2. QED BY <2>1, <3>1, ChooseType, GotoType DEF Revoke
  <2>2. ASSUME NEW f \in Folders, DeleteFolder(r, f) PROVE TypeOK'
    <3>1. [AtStep("deleteFolderCommit") EXCEPT !.folder = f] \in Request
      BY AtStepRequest DEF Steps, Request
    <3>2. QED BY <2>2, <3>1, ChooseType DEF DeleteFolder
  <2>3. ASSUME NEW u \in Users, DeleteUser(r, u) PROVE TypeOK'
    <3>1. [AtStep("deleteUserCommit") EXCEPT !.user = u] \in Request
      BY AtStepRequest DEF Steps, Request
    <3>2. QED BY <2>3, <3>1, ChooseType DEF DeleteUser
  <2>4. CASE RevokeCommit(r)
    <3> DEFINE u == req[r].user  f == req[r].folder
    <3>1. RevokedJobs(u, f) \in [Jobs -> Job]
      BY EndJobsTable DEF RevokedJobs, TypeOK, JobStatus
    <3>2. RevokedSessions(u, f) \in [Sessions -> Session]
      BY EndSessionsTable DEF RevokedSessions, TypeOK, SessionStatus
    <3>3. grants' \in [Users \X Folders -> {"none", "granted", "lapsed"}]
      BY <2>4 DEF RevokeCommit, TypeOK
    <3>4. QED BY <2>4, <3>1, <3>2, <3>3, CommitType DEF RevokeCommit, TypeOK
  <2>5. CASE DeleteFolderCommit(r)
    <3> DEFINE f == req[r].folder
    <3>1. DeletedFolderJobs(f) \in [Jobs -> Job]
      BY EndJobsTable DEF DeletedFolderJobs, TypeOK, JobStatus
    <3>2. DeletedFolderSessions(f) \in [Sessions -> Session]
      BY EndSessionsTable DEF DeletedFolderSessions, TypeOK, SessionStatus
    <3>3. grants' \in [Users \X Folders -> {"none", "granted", "lapsed"}]
      BY <2>5 DEF DeleteFolderCommit, TypeOK
    <3>4. QED
      BY <2>5, <3>1, <3>2, <3>3, CommitType DEF DeleteFolderCommit, TypeOK
  <2>6. CASE DeleteUserCommit(r)
    <3> DEFINE u == req[r].user
    <3>1. DeletedUserJobs(u) \in [Jobs -> Job]
      BY EndJobsTable DEF DeletedUserJobs, TypeOK, JobStatus
    <3>2. DeletedUserSessions(u) \in [Sessions -> Session]
      BY EndSessionsTable DEF DeletedUserSessions, TypeOK, SessionStatus
    <3>3. grants' \in [Users \X Folders -> {"none", "granted", "lapsed"}]
      BY <2>6 DEF DeleteUserCommit, TypeOK
    <3>4. QED
      BY <2>6, <3>1, <3>2, <3>3, CommitType DEF DeleteUserCommit, TypeOK
  <2>7. QED
    BY <1>3, <2>1, <2>2, <2>3, <2>4, <2>5, <2>6 DEF AdminOperation
<1>4. ASSUME NEW r \in Requests, Abort(r) PROVE TypeOK'
  BY <1>4, GotoType DEF Abort
<1>5. CASE Environment
  <2>1. ASSUME NEW u \in Users, NEW f \in Folders,
               Grant(u, f) \/ GrantLapses(u, f)
        PROVE  TypeOK'
    <3>1. /\ UNCHANGED <<jobs, sessions, folders, users, req, earned>>
          /\ \/ grants' = [grants EXCEPT ![<<u, f>>] = "granted"]
             \/ grants' = [grants EXCEPT ![<<u, f>>] = "lapsed"]
      BY <2>1 DEF Grant, GrantLapses
    <3>2. grants' \in [Users \X Folders -> {"none", "granted", "lapsed"}]
      BY <3>1 DEF TypeOK
    <3>3. QED BY <3>1, <3>2 DEF TypeOK
  <2>2. ASSUME NEW j \in Jobs, JobDue(j) \/ WorkProved(j) PROVE TypeOK'
    <3>1. CASE JobDue(j)
      BY <3>1 DEF JobDue, TypeOK, Job
    <3>2. CASE WorkProved(j)
      <4>1. jobs' \in [Jobs -> Job] /\ earned' \subseteq Jobs
        BY <3>2 DEF WorkProved, TypeOK, Job
      <4>2. QED BY <3>2, <4>1 DEF WorkProved, TypeOK
    <3>3. QED BY <2>2, <3>1, <3>2
  <2>3. ASSUME NEW s \in Sessions, SessionLapses(s) PROVE TypeOK'
    BY <2>3 DEF SessionLapses, TypeOK, Session
  <2>4. QED BY <1>5, <2>1, <2>2, <2>3 DEF Environment
<1>6. CASE UNCHANGED vars
  BY <1>6 DEF vars, TypeOK
<1>7. QED BY <1>1, <1>2, <1>3, <1>4, <1>5, <1>6 DEF Next

\* Every variable keeps its type
THEOREM TypeCorrect == Spec => []TypeOK
BY TypeInit, TypeStep, PTL DEF Spec

-----------------------------------------------------------------------------
(* The inductive invariant.  The safety properties are not inductive by     *)
(* themselves: a request carries a job it chose or read earlier, so what is *)
(* known of that job has to be part of the invariant.                       *)

\* A job chosen for promotion was inserted at some time
PicksAreRows ==
  \A r \in Requests : req[r].pick # None => jobs[req[r].pick].status # "none"

\* A request that goes on to open a session read a job with enough work
OpensAreEarned ==
  \A r \in Requests : req[r].pc = "open" => req[r].job \in earned

EarnedAreRows == \A j \in earned : jobs[j].status # "none"

ProvedIsEarned == \A j \in Jobs : jobs[j].proved => j \in earned

SafetyInv ==
  /\ TypeOK
  /\ TenantExclusive
  /\ SessionEarned
  /\ SucceededHasSession
  /\ RowsHaveOwners
  /\ PicksAreRows
  /\ OpensAreEarned
  /\ EarnedAreRows
  /\ ProvedIsEarned

\* What the writes of a handler never do to pow_jobs: insert or forget a row,
\* change its user, start or complete a job
KeepsJobs(js) ==
  /\ js \in [Jobs -> Job]
  /\ \A j \in Jobs :
       /\ js[j].user = jobs[j].user
       /\ js[j].proved => jobs[j].proved
       /\ js[j].status = "none" <=> jobs[j].status = "none"
       /\ jobs[j].status = "deleted" => js[j].status = "deleted"
       /\ js[j].status \in {"succeeded", "running"} => js[j].status = jobs[j].status

\* and to access_sessions: insert or forget a row, change its job, open it again
KeepsSessions(ss) ==
  /\ ss \in [Sessions -> Session]
  /\ \A s \in Sessions :
       /\ ss[s].job = sessions[s].job
       /\ ss[s].status = "none" <=> sessions[s].status = "none"
       /\ sessions[s].status = "deleted" => ss[s].status = "deleted"
       /\ ss[s].status = "active" => sessions[s].status = "active"

\* Ending jobs that have an owner neither revives a row nor loses a success
LEMMA EndJobsKeeps ==
  ASSUME TypeOK, NEW js, KeepsJobs(js), NEW set \in SUBSET Jobs,
         NEW status \in {"canceled", "timeout", "deleted"},
         \A j \in set : \/ js[j].status \in OpenStatus
                        \/ js[j].status # "none" /\ status = "deleted"
  PROVE  KeepsJobs(EndJobs(js, set, status))
<1> DEFINE after == EndJobs(js, set, status)
<1>1. after \in [Jobs -> Job]
  BY EndJobsTable DEF KeepsJobs, JobStatus
<1>2. \A j \in Jobs : /\ js[j] \in Job
                      /\ after[j] = IF j \in set
                                    THEN [js[j] EXCEPT !.status = status]
                                    ELSE js[j]
  BY DEF EndJobs, KeepsJobs
<1>3. \A j \in Jobs : /\ after[j].user = js[j].user
                      /\ after[j].proved = js[j].proved
                      /\ after[j].status = IF j \in set THEN status
                                                       ELSE js[j].status
  BY <1>2 DEF Job
<1> HIDE DEF after
<1>4. QED BY <1>1, <1>3 DEF KeepsJobs, OpenStatus, after

\* Ending sessions that exist neither revives a session nor loses its job
LEMMA EndSessionsKeeps ==
  ASSUME TypeOK, NEW set \in SUBSET Sessions,
         NEW status \in {"closed", "expired", "revoked", "deleted"},
         \A s \in set : \/ sessions[s].status = "active"
                        \/ sessions[s].status # "none" /\ status = "deleted"
  PROVE  KeepsSessions(EndSessions(sessions, set, status))
<1> DEFINE after == EndSessions(sessions, set, status)
<1>1. after \in [Sessions -> Session]
  BY EndSessionsTable DEF TypeOK, SessionStatus
<1>2. \A s \in Sessions : /\ sessions[s] \in Session
                          /\ after[s] = IF s \in set
                                        THEN [sessions[s] EXCEPT !.status = status]
                                        ELSE sessions[s]
  BY DEF EndSessions, TypeOK
<1>3. \A s \in Sessions : /\ after[s].job = sessions[s].job
                          /\ after[s].status = IF s \in set THEN status
                                               ELSE sessions[s].status
  BY <1>2 DEF Session
<1> HIDE DEF after
<1>4. QED BY <1>1, <1>3 DEF KeepsSessions, after

\* A transaction that writes no row of a table keeps it
LEMMA SameKeeps ==
  ASSUME TypeOK
  PROVE  KeepsJobs(jobs) /\ KeepsSessions(sessions)
BY DEF KeepsJobs, KeepsSessions, TypeOK

\* A step that moves only its request record keeps the invariant, if the record
\* carries nothing that is not known of the tables
LEMMA GotoSafe ==
  ASSUME SafetyInv, NEW r \in Requests, NEW record \in Request,
         Goto(r, record), Unchanged,
         record.pick # None => jobs[record.pick].status # "none",
         record.pc = "open" => record.job \in earned
  PROVE  SafetyInv'
<1>1. TypeOK'
  BY GotoType DEF SafetyInv
<1>2. req' = [req EXCEPT ![r] = record]
  BY DEF Goto
<1>3. PicksAreRows' /\ OpensAreEarned'
  BY <1>2 DEF SafetyInv, TypeOK, PicksAreRows, OpensAreEarned, Unchanged
<1>4. /\ TenantExclusive' /\ SessionEarned' /\ SucceededHasSession'
      /\ EarnedAreRows' /\ ProvedIsEarned'
  BY DEF SafetyInv, Unchanged, TenantExclusive, OneRunning, Running,
         SessionEarned, SucceededHasSession, EarnedAreRows, ProvedIsEarned
<1>5. RowsHaveOwners'
  BY DEF SafetyInv, Unchanged, RowsHaveOwners, UserOf
<1>6. QED BY <1>1, <1>3, <1>4, <1>5 DEF SafetyInv

\* The snapshot step of a promoting transaction keeps the invariant
LEMMA ChooseSafe ==
  ASSUME SafetyInv, NEW r \in Requests, NEW js, KeepsJobs(js), NEW ss,
         NEW record \in Request, record.pick = None, record.pc # "open",
         Choose(r, js, ss, record)
  PROVE  SafetyInv'
<1>1. CASE Goto(r, record)
  BY <1>1, GotoSafe DEF Choose
<1>2. ASSUME NEW j \in ToPromote(js, ss), Goto(r, [record EXCEPT !.pick = j])
      PROVE  SafetyInv'
  <2> DEFINE chosen == [record EXCEPT !.pick = j]
  <2>1. j \in Jobs /\ jobs[j].status # "none"
    BY <1>2 DEF ToPromote, First, Queued, KeepsJobs
  <2>2. chosen \in Request /\ chosen.pick = j /\ chosen.pc = record.pc
    BY <2>1 DEF Request
  <2>3. QED BY <1>2, <2>1, <2>2, GotoSafe DEF Choose
<1>3. QED BY <1>1, <1>2 DEF Choose

\* The effect of a promoting transaction keeps the invariant: a promotion brings
\* no deleted row back and the unique index lets one running job through
LEMMA CommitSafe ==
  ASSUME SafetyInv, NEW r \in Requests, NEW js, KeepsJobs(js),
         NEW ss, KeepsSessions(ss), NEW record \in Request,
         record.pick = None, record.pc # "open",
         Commit(r, js, ss, record), TypeOK',
         \A j \in Jobs : js[j].status \notin {"none", "deleted"}
                         => jobs[j].user \in users',
         \A s \in Sessions : ss[s].status \notin {"none", "deleted"}
                         => UserOf(s) \in users'
  PROVE  SafetyInv'
<1> DEFINE pick == req[r].pick
<1>1. /\ jobs' = Promoted(js, pick) /\ sessions' = ss /\ earned' = earned
      /\ req' = [req EXCEPT ![r] = record] /\ OneRunning(jobs')
  BY DEF Commit, Goto
<1>2. \A j \in Jobs :
        /\ jobs'[j].user = jobs[j].user
        /\ jobs'[j].proved => jobs[j].proved
        /\ jobs'[j].status = "none" <=> jobs[j].status = "none"
        /\ jobs'[j].status # "running" => jobs'[j].status = js[j].status
        /\ jobs'[j].status = "running" => js[j].status \notin {"none", "deleted"}
  <2> TAKE j \in Jobs
  <2>1. js[j] \in Job
    BY DEF KeepsJobs
  <2>2. CASE j = pick /\ js[j].status # "deleted"
    <3>1. jobs'[j] = [js[j] EXCEPT !.status = "running", !.overdue = FALSE,
                                   !.proved = FALSE]
      BY <1>1, <2>2 DEF Promoted
    <3>2. jobs'[j].status = "running" /\ jobs'[j].user = js[j].user
          /\ jobs'[j].proved = FALSE
      BY <2>1, <3>1 DEF Job
    <3>3. js[j].status # "none"
      BY <2>2, NoneIsNoRow DEF SafetyInv, PicksAreRows, KeepsJobs
    <3>4. QED BY <2>2, <3>2, <3>3 DEF KeepsJobs
  <2>3. CASE ~(j = pick /\ js[j].status # "deleted")
    <3>1. jobs'[j] = js[j]
      BY <1>1, <2>3 DEF Promoted
    <3>2. QED BY <3>1 DEF KeepsJobs
  <2>4. QED BY <2>2, <2>3
<1>3. TenantExclusive'
  BY <1>1 DEF SafetyInv, TenantExclusive, KeepsSessions, OneRunning, Running
<1>4. SessionEarned'
  BY <1>1 DEF SafetyInv, SessionEarned, KeepsSessions
<1>5. SucceededHasSession'
  <2> SUFFICES ASSUME NEW j \in Jobs, jobs'[j].status = "succeeded"
               PROVE  \E s \in Sessions : sessions'[s].status # "none"
                                          /\ sessions'[s].job = j
    BY DEF SucceededHasSession
  <2>1. jobs[j].status = "succeeded"
    BY <1>2 DEF KeepsJobs
  <2>2. QED BY <1>1, <2>1 DEF SafetyInv, SucceededHasSession, KeepsSessions
<1>6. RowsHaveOwners'
  <2>1. ASSUME NEW j \in Jobs, jobs'[j].status \notin {"none", "deleted"}
        PROVE  jobs'[j].user \in users'
    BY <1>2, <2>1
  <2>2. ASSUME NEW s \in Sessions, sessions'[s].status \notin {"none", "deleted"}
        PROVE  UserOf(s)' \in users'
    <3>1. sessions[s].status # "none" /\ sessions'[s].job = sessions[s].job
      BY <1>1, <2>2 DEF KeepsSessions
    <3>2. sessions[s].job \in Jobs
      BY <3>1 DEF SafetyInv, SessionEarned, TypeOK
    <3>3. QED BY <1>1, <1>2, <2>2, <3>1, <3>2 DEF UserOf
  <2>3. QED BY <2>1, <2>2 DEF RowsHaveOwners
<1>7. PicksAreRows' /\ OpensAreEarned' /\ EarnedAreRows' /\ ProvedIsEarned'
  <2>1. PicksAreRows'
    BY <1>1, <1>2 DEF SafetyInv, TypeOK, Request, PicksAreRows
  <2>2. OpensAreEarned'
    BY <1>1 DEF SafetyInv, TypeOK, OpensAreEarned
  <2>3. EarnedAreRows' /\ ProvedIsEarned'
    BY <1>1, <1>2 DEF SafetyInv, TypeOK, EarnedAreRows, ProvedIsEarned
  <2>4. QED BY <2>1, <2>2, <2>3
<1>8. QED BY <1>3, <1>4, <1>5, <1>6, <1>7 DEF SafetyInv

-----------------------------------------------------------------------------
(* One lemma per group of steps.                                            *)

\* What a request carries that has just moved to a step
LEMMA AtStepFields ==
  ASSUME NEW pc \in Steps
  PROVE  AtStep(pc) \in Request /\ AtStep(pc).pick = None /\ AtStep(pc).pc = pc
BY AtStepRequest DEF AtStep

\* Records of transactions that end in a promotion
LEMMA TargetFields ==
  ASSUME NEW pc \in Steps, pc # "open"
  PROVE  /\ \A j \in Jobs : LET rec == [AtStep(pc) EXCEPT !.job = j]
                            IN rec \in Request /\ rec.pick = None /\ rec.pc # "open"
         /\ \A s \in Sessions : LET rec == [AtStep(pc) EXCEPT !.session = s]
                            IN rec \in Request /\ rec.pick = None /\ rec.pc # "open"
         /\ \A d \in SUBSET Jobs : LET rec == [AtStep(pc) EXCEPT !.due = d]
                            IN rec \in Request /\ rec.pick = None /\ rec.pc # "open"
         /\ \A f \in Folders : LET rec == [AtStep(pc) EXCEPT !.folder = f]
                            IN rec \in Request /\ rec.pick = None /\ rec.pc # "open"
         /\ \A u \in Users : LET rec == [AtStep(pc) EXCEPT !.user = u]
                            IN rec \in Request /\ rec.pick = None /\ rec.pc # "open"
         /\ \A u \in Users, f \in Folders :
               LET rec == [AtStep(pc) EXCEPT !.user = u, !.folder = f]
               IN rec \in Request /\ rec.pick = None /\ rec.pc # "open"
<1>1. /\ AtStep(pc).pc = pc /\ AtStep(pc).pick = None
      /\ AtStep(pc) \in Request
  BY AtStepFields
<1>2. QED BY <1>1 DEF Request

\* What stays true of the owners when no user is deleted
LEMMA OwnersStay ==
  ASSUME SafetyInv, users' = users, NEW js, KeepsJobs(js),
         NEW ss, KeepsSessions(ss)
  PROVE  /\ \A j \in Jobs : js[j].status \notin {"none", "deleted"}
                            => jobs[j].user \in users'
         /\ \A s \in Sessions : ss[s].status \notin {"none", "deleted"}
                                => UserOf(s) \in users'
BY DEF SafetyInv, RowsHaveOwners, KeepsJobs, KeepsSessions

\* What a request slot carries when it is free
LEMMA IdleFields == Idle \in Request /\ Idle.pick = None /\ Idle.pc # "open"
BY AtStepFields DEF Idle, Steps

\* The four transactions of reconcile keep the invariant
LEMMA ReconcileSafe ==
  ASSUME SafetyInv, TypeOK', NEW r \in Requests, Reconcile(r)
  PROVE  SafetyInv'
<1> USE IdleFields
<1>0. TypeOK
  BY DEF SafetyInv
<1>1. CASE ExpireSessions(r)
  <2> DEFINE lapsed == {s \in Sessions : sessions[s].status = "active"
                                        /\ sessions[s].lapsed}
             ss == EndSessions(sessions, lapsed, "expired")
  <2>1. KeepsSessions(ss)
    BY <1>0, EndSessionsKeeps
  <2>2. sessions' = ss /\ jobs' = jobs /\ earned' = earned /\ users' = users
        /\ req' = [req EXCEPT ![r] = AtStep("timeout")]
    BY <1>1 DEF ExpireSessions, Goto
  <2> HIDE DEF ss
  <2>3. TenantExclusive' /\ SessionEarned' /\ SucceededHasSession'
        /\ EarnedAreRows' /\ ProvedIsEarned'
    BY <2>1, <2>2 DEF SafetyInv, TenantExclusive, OneRunning, Running, SessionEarned,
                      SucceededHasSession, EarnedAreRows, ProvedIsEarned, KeepsSessions
  <2>4. RowsHaveOwners'
    BY <2>1, <2>2 DEF SafetyInv, RowsHaveOwners, UserOf, KeepsSessions
  <2>5. PicksAreRows' /\ OpensAreEarned'
    BY <2>2, AtStepFields DEF SafetyInv, TypeOK, PicksAreRows, OpensAreEarned, Steps
  <2>6. QED BY <2>3, <2>4, <2>5 DEF SafetyInv
<1>2. CASE TimeoutJobs(r)
  <2>1. KeepsJobs(TimedOut(jobs, Due(jobs)))
    BY <1>0, SameKeeps, EndJobsKeeps DEF TimedOut, Due
  <2>2. Due(jobs) \in SUBSET Jobs
    BY DEF Due
  <2>3. QED
    BY <1>2, <2>1, <2>2, TargetFields, ChooseSafe DEF TimeoutJobs, Steps
<1>3. CASE TimeoutCommit(r)
  <2> DEFINE due == req[r].due \cap Due(jobs)
  <2>1. KeepsJobs(TimedOut(jobs, due)) /\ KeepsSessions(sessions)
    BY <1>0, SameKeeps, EndJobsKeeps DEF TimedOut, Due
  <2>2. AtStep("complete") \in Request /\ AtStep("complete").pick = None
        /\ AtStep("complete").pc # "open"
    BY AtStepFields DEF Steps
  <2>3. Commit(r, TimedOut(jobs, due), sessions, AtStep("complete"))
        /\ users' = users
    BY <1>3 DEF TimeoutCommit
  <2>4. QED BY <2>1, <2>2, <2>3, OwnersStay, CommitSafe
<1>4. CASE CompleteRunningJobs(r)
  <2>1. ASSUME NEW j \in Running(jobs), jobs[j].proved,
               Goto(r, [AtStep("open") EXCEPT !.job = j]), Unchanged
        PROVE  SafetyInv'
    <3> DEFINE rec == [AtStep("open") EXCEPT !.job = j]
    <3>1. j \in Jobs /\ j \in earned
      BY <2>1 DEF SafetyInv, ProvedIsEarned, Running
    <3>2. rec \in Request /\ rec.pick = None /\ rec.job = j
      BY <3>1, AtStepFields DEF Steps, Request
    <3>3. QED BY <2>1, <3>1, <3>2, GotoSafe
  <2>2. CASE Goto(r, AtStep("promote")) /\ Unchanged
    <3>1. AtStep("promote") \in Request /\ AtStep("promote").pick = None
          /\ AtStep("promote").pc # "open"
      BY AtStepFields DEF Steps
    <3>2. QED BY <2>2, <3>1, GotoSafe
  <2>3. QED BY <1>4, <2>1, <2>2 DEF CompleteRunningJobs
<1>5. CASE OpenSession(r)
  <2> DEFINE job == req[r].job
  <2>1. PICK s \in First({t \in Sessions : sessions[t].status = "none"}) :
          sessions' = [sessions EXCEPT ![s] =
                         [status |-> "active", job |-> job, lapsed |-> FALSE]]
    BY <1>5 DEF OpenSession
  <2>2. s \in Sessions /\ sessions[s].status = "none"
    BY <2>1 DEF First
  <2>3. job \in earned /\ job \in Jobs /\ jobs[job].status \notin {"none", "deleted"}
    BY <1>5 DEF OpenSession, CanInsertSession, SafetyInv, OpensAreEarned,
                EarnedAreRows, TypeOK
  <2>4. jobs' = Opened(job) /\ earned' = earned /\ users' = users
        /\ req' = [req EXCEPT ![r] = AtStep("promote")]
    BY <1>5 DEF OpenSession, Goto
  <2>5. \A j \in Jobs :
          /\ jobs'[j].user = jobs[j].user
          /\ jobs'[j].proved = jobs[j].proved
          /\ jobs'[j].status = "none" <=> jobs[j].status = "none"
          /\ jobs'[j].status = "deleted" <=> jobs[j].status = "deleted"
          /\ jobs'[j].status = "running" => jobs[j].status = "running"
          /\ jobs'[j].status = "succeeded" => jobs[j].status = "succeeded" \/ j = job
    <3> DEFINE canceled == Queued(jobs) \ {job}
               succeeded == Running(jobs) \cap {job}
               mid == EndJobs(jobs, canceled, "canceled")
    <3>1. jobs \in [Jobs -> Job] /\ mid \in [Jobs -> Job]
      BY <1>0, EndJobsTable DEF TypeOK, JobStatus
    <3>2. \A j \in Jobs : /\ mid[j].user = jobs[j].user
                          /\ mid[j].proved = jobs[j].proved
                          /\ mid[j].status = IF j \in canceled THEN "canceled"
                                             ELSE jobs[j].status
      BY <3>1 DEF EndJobs, Job
    <3>3. jobs' = EndJobs(mid, succeeded, "succeeded")
      BY <2>4 DEF Opened
    <3> HIDE DEF mid
    <3>4. \A j \in Jobs : /\ jobs'[j].user = mid[j].user
                          /\ jobs'[j].proved = mid[j].proved
                          /\ jobs'[j].status = IF j \in succeeded THEN "succeeded"
                                               ELSE mid[j].status
      BY <3>1, <3>3 DEF EndJobs, Job
    <3>5. QED BY <3>2, <3>4 DEF Queued, Running
  <2>6. TenantExclusive'
    BY <1>0, <1>5, <2>1, <2>2, <2>5 DEF SafetyInv, TenantExclusive, OneRunning, Running,
             OpenSession, CanInsertSession, TypeOK
  <2>7. SessionEarned'
    BY <1>0, <2>1, <2>2, <2>3, <2>4 DEF SafetyInv, SessionEarned, TypeOK
  <2>8. SucceededHasSession'
    <3> SUFFICES ASSUME NEW j \in Jobs, jobs'[j].status = "succeeded"
                 PROVE  \E t \in Sessions : sessions'[t].status # "none"
                                            /\ sessions'[t].job = j
      BY DEF SucceededHasSession
    <3>1. CASE j = job
      BY <1>0, <2>1, <2>2, <3>1 DEF TypeOK
    <3>2. CASE j # job
      <4>1. PICK t \in Sessions : sessions[t].status # "none" /\ sessions[t].job = j
        BY <2>5, <3>2 DEF SafetyInv, SucceededHasSession
      <4>2. t # s
        BY <2>2, <4>1
      <4>3. QED BY <1>0, <2>1, <4>1, <4>2 DEF TypeOK
    <3>3. QED BY <3>1, <3>2
  <2>9. RowsHaveOwners'
    <3>1. ASSUME NEW j \in Jobs, jobs'[j].status \notin {"none", "deleted"}
          PROVE  jobs'[j].user \in users'
      BY <2>4, <2>5, <3>1 DEF SafetyInv, RowsHaveOwners
    <3>2. ASSUME NEW t \in Sessions, sessions'[t].status \notin {"none", "deleted"}
          PROVE  UserOf(t)' \in users'
      <4>1. CASE t = s
        <5>1. sessions'[t].job = job
          BY <1>0, <2>1, <2>2, <4>1 DEF TypeOK
        <5>2. jobs[job].user \in users
          BY <2>3 DEF SafetyInv, RowsHaveOwners
        <5>3. QED BY <2>3, <2>4, <2>5, <5>1, <5>2 DEF UserOf
      <4>2. CASE t # s
        <5>1. sessions'[t] = sessions[t]
          BY <1>0, <2>1, <4>2 DEF TypeOK
        <5>2. sessions[t].job \in Jobs /\ UserOf(t) \in users
          BY <3>2, <5>1 DEF SafetyInv, SessionEarned, TypeOK, RowsHaveOwners
        <5>3. QED BY <2>4, <2>5, <5>1, <5>2 DEF UserOf
      <4>3. QED BY <4>1, <4>2
    <3>3. QED BY <3>1, <3>2 DEF RowsHaveOwners
  <2>10. PicksAreRows' /\ OpensAreEarned' /\ EarnedAreRows' /\ ProvedIsEarned'
    <3>1. AtStep("promote").pick = None /\ AtStep("promote").pc = "promote"
      BY AtStepFields DEF Steps
    <3>2. PicksAreRows'
      BY <1>0, <2>4, <2>5, <3>1 DEF SafetyInv, TypeOK, Request, PicksAreRows
    <3>3. OpensAreEarned'
      BY <1>0, <2>4, <3>1 DEF SafetyInv, TypeOK, OpensAreEarned
    <3>4. EarnedAreRows' /\ ProvedIsEarned'
      BY <1>0, <2>4, <2>5 DEF SafetyInv, TypeOK, EarnedAreRows, ProvedIsEarned
    <3>5. QED BY <3>2, <3>3, <3>4
  <2>11. QED BY <2>6, <2>7, <2>8, <2>9, <2>10 DEF SafetyInv
<1>6. CASE SkipOpenSession(r)
  <2>1. AtStep("promote") \in Request /\ AtStep("promote").pick = None
        /\ AtStep("promote").pc # "open"
    BY AtStepFields DEF Steps
  <2>2. QED BY <1>6, <2>1, GotoSafe DEF SkipOpenSession
<1>7. CASE Promote(r)
  <2>1. AtStep("promoteCommit") \in Request /\ AtStep("promoteCommit").pick = None
        /\ AtStep("promoteCommit").pc # "open"
    BY AtStepFields DEF Steps
  <2>2. QED BY <1>0, <1>7, <2>1, SameKeeps, ChooseSafe DEF Promote
<1>8. CASE PromoteCommit(r)
  <2>1. AtStep("handler") \in Request /\ AtStep("handler").pick = None
        /\ AtStep("handler").pc # "open"
    BY AtStepFields DEF Steps
  <2>2. Commit(r, jobs, sessions, AtStep("handler")) /\ users' = users
    BY <1>8 DEF PromoteCommit
  <2>3. QED BY <1>0, <2>1, <2>2, SameKeeps, OwnersStay, CommitSafe
<1>9. QED
  BY <1>1, <1>2, <1>3, <1>4, <1>5, <1>6, <1>7, <1>8 DEF Reconcile

\* A request record with the decision whether its job starts at once
LEMMA StartDecided ==
  ASSUME NEW q \in Request, NEW b \in BOOLEAN
  PROVE  /\ [q EXCEPT !.pc = "createInsert", !.start = b] \in Request
         /\ [q EXCEPT !.pc = "createInsert", !.start = b].pick = q.pick
         /\ [q EXCEPT !.pc = "createInsert", !.start = b].pc = "createInsert"
<1> DEFINE new == [q EXCEPT !.pc = "createInsert", !.start = b]
<1>1. new.pick = q.pick /\ new.pc = "createInsert"
  BY DEF Request
<1>2. new \in Request
  BY DEF Request, Steps
<1>3. QED BY <1>1, <1>2

\* createJob, cancelJob, closeSession and closeSessionAsAdmin keep the invariant
LEMMA ClientOperationSafe ==
  ASSUME SafetyInv, TypeOK', NEW r \in Requests, ClientOperation(r)
  PROVE  SafetyInv'
<1> USE IdleFields
<1>0. TypeOK
  BY DEF SafetyInv
<1>1. CASE Return(r)
  BY <1>1, GotoSafe DEF Return
<1>2. ASSUME NEW u \in Users, NEW f \in Folders, CreateCheck(r, u, f)
      PROVE  SafetyInv'
  BY <1>2, TargetFields, GotoSafe DEF CreateCheck, Steps
<1>3. CASE CreateTx(r)
  <2> DEFINE rec == [req[r] EXCEPT !.pc = "createInsert",
                                   !.start = CanStart(jobs, sessions)]
  <2>1. req[r] \in Request /\ CanStart(jobs, sessions) \in BOOLEAN
    BY <1>0 DEF TypeOK, CanStart
  <2>2. rec \in Request /\ rec.pick = req[r].pick /\ rec.pc = "createInsert"
    BY <2>1, StartDecided
  <2>3. rec.pick # None => jobs[rec.pick].status # "none"
    BY <2>2 DEF SafetyInv, PicksAreRows
  <2>4. QED BY <1>3, <2>2, <2>3, GotoSafe DEF CreateTx
<1>4. CASE CreateInsert(r)
  <2>1. PICK j \in First({k \in Jobs : jobs[k].status = "none"}) :
          OneRunning([jobs EXCEPT ![j] = NewJob(r)])
          /\ jobs' = [jobs EXCEPT ![j] = NewJob(r)]
    BY <1>4 DEF CreateInsert
  <2>2. j \in Jobs /\ jobs[j].status = "none"
    BY <2>1 DEF First
  <2>3. /\ NewJob(r).status \in {"running", "queued"} /\ ~NewJob(r).proved
        /\ NewJob(r).user \in users
    BY <1>4 DEF CreateInsert, NewJob
  <2>4. sessions' = sessions /\ users' = users /\ earned' = earned
        /\ req' = [req EXCEPT ![r] = Idle]
    BY <1>4 DEF CreateInsert, Goto
  <2>5. jobs'[j] = NewJob(r) /\ \A k \in Jobs \ {j} : jobs'[k] = jobs[k]
    BY <1>0, <2>1, <2>2 DEF TypeOK
  <2>6. TenantExclusive'
    BY <2>1, <2>4 DEF SafetyInv, TenantExclusive
  <2>7. SessionEarned' /\ SucceededHasSession'
    BY <2>3, <2>4, <2>5 DEF SafetyInv, SessionEarned, SucceededHasSession
  <2>8. RowsHaveOwners'
    <3>1. ASSUME NEW s \in Sessions, sessions'[s].status \notin {"none", "deleted"}
          PROVE  UserOf(s)' \in users'
      <4>1. sessions[s].job \in earned /\ UserOf(s) \in users
        BY <2>4, <3>1 DEF SafetyInv, SessionEarned, RowsHaveOwners
      <4>2. sessions[s].job \in Jobs \ {j}
        BY <1>0, <2>2, <4>1 DEF SafetyInv, EarnedAreRows, TypeOK
      <4>3. QED BY <2>4, <2>5, <4>1, <4>2 DEF UserOf
    <3>2. QED
      BY <2>3, <2>4, <2>5, <3>1 DEF SafetyInv, RowsHaveOwners
  <2>9. PicksAreRows'
    BY <1>0, <2>3, <2>4, <2>5 DEF SafetyInv, TypeOK, Request, PicksAreRows
  <2>10. OpensAreEarned'
    BY <1>0, <2>4 DEF SafetyInv, TypeOK, OpensAreEarned
  <2>11. EarnedAreRows' /\ ProvedIsEarned'
    BY <1>0, <2>3, <2>4, <2>5 DEF SafetyInv, TypeOK, EarnedAreRows, ProvedIsEarned
  <2>12. QED BY <2>6, <2>7, <2>8, <2>9, <2>10, <2>11 DEF SafetyInv
<1>5. ASSUME NEW j \in Jobs, Cancel(r, j) PROVE SafetyInv'
  <2>1. KeepsJobs(Canceled(jobs, j))
    BY <1>0, <1>5, SameKeeps, EndJobsKeeps DEF Canceled, Cancel
  <2>2. QED BY <1>5, <2>1, TargetFields, ChooseSafe DEF Cancel, Steps
<1>6. CASE CancelCommit(r)
  <2> DEFINE j == req[r].job
  <2>1. \/ j \in Jobs /\ jobs[j].status \in OpenStatus
        \/ j \notin Jobs
    BY <1>6 DEF CancelCommit
  <2>2. KeepsJobs(Canceled(jobs, j)) /\ KeepsSessions(sessions)
    <3>1. Canceled(jobs, j) = EndJobs(jobs, {j} \cap Jobs, "canceled")
      BY DEF Canceled, EndJobs
    <3>2. QED BY <1>0, <2>1, <3>1, SameKeeps, EndJobsKeeps
  <2>3. Commit(r, Canceled(jobs, j), sessions, Idle) /\ users' = users
    BY <1>6 DEF CancelCommit
  <2>4. QED BY <2>2, <2>3, OwnersStay, CommitSafe
<1>7. ASSUME NEW s \in Sessions, Close(r, s) \/ CloseAsAdmin(r, s)
      PROVE  SafetyInv'
  BY <1>0, <1>7, SameKeeps, TargetFields, ChooseSafe DEF Close, CloseAsAdmin, Steps
<1>8. CASE CloseCommit(r) \/ CloseAsAdminCommit(r)
  <2> DEFINE s == req[r].session
             ss == EndSessions(sessions, {s}, "closed")
  <2>1. \/ s \in Sessions /\ sessions[s].status = "active"
        \/ s \notin Sessions
    BY <1>8 DEF CloseCommit, CloseAsAdminCommit
  <2>2. KeepsSessions(ss) /\ KeepsJobs(jobs)
    <3>1. ss = EndSessions(sessions, {s} \cap Sessions, "closed")
      BY DEF EndSessions
    <3>2. QED BY <1>0, <2>1, <3>1, SameKeeps, EndSessionsKeeps
  <2>3. Commit(r, jobs, ss, Idle) /\ users' = users
    BY <1>8 DEF CloseCommit, CloseAsAdminCommit
  <2>4. QED BY <2>2, <2>3, OwnersStay, CommitSafe
<1>9. QED
  BY <1>1, <1>2, <1>3, <1>4, <1>5, <1>6, <1>7, <1>8 DEF ClientOperation

\* Revoking a permission, deleting a folder and deleting a user keep the invariant
LEMMA AdminOperationSafe ==
  ASSUME SafetyInv, TypeOK', NEW r \in Requests, AdminOperation(r)
  PROVE  SafetyInv'
<1> USE IdleFields
<1>0. TypeOK
  BY DEF SafetyInv
<1>1. \A u, f : KeepsJobs(RevokedJobs(u, f)) /\ KeepsSessions(RevokedSessions(u, f))
  BY <1>0, SameKeeps, EndJobsKeeps, EndSessionsKeeps
  DEF RevokedJobs, RevokedSessions, JobsOf, SessionsOf
<1>2. \A f : KeepsJobs(DeletedFolderJobs(f)) /\ KeepsSessions(DeletedFolderSessions(f))
  BY <1>0, SameKeeps, EndJobsKeeps, EndSessionsKeeps
  DEF DeletedFolderJobs, DeletedFolderSessions, JobsIn, SessionsIn
<1>3. \A u : KeepsJobs(DeletedUserJobs(u)) /\ KeepsSessions(DeletedUserSessions(u))
  BY <1>0, SameKeeps, EndJobsKeeps, EndSessionsKeeps
  DEF DeletedUserJobs, DeletedUserSessions, JobsBy, SessionsBy
<1>4. ASSUME NEW u \in Users, NEW f \in Folders, Revoke(r, u, f) PROVE SafetyInv'
  <2> DEFINE record == [AtStep("revokeCommit") EXCEPT !.user = u, !.folder = f]
  <2>1. CASE JobsOf(u, f) = {} /\ SessionsOf(u, f) = {}
    BY <1>4, <2>1, TargetFields, GotoSafe DEF Revoke, Steps
  <2>2. CASE ~(JobsOf(u, f) = {} /\ SessionsOf(u, f) = {})
    <3>1. Choose(r, RevokedJobs(u, f), RevokedSessions(u, f), record)
      BY <1>4, <2>2 DEF Revoke
    <3>2. QED BY <1>1, <3>1, TargetFields, ChooseSafe DEF Steps
  <2>3. QED BY <2>1, <2>2
<1>5. ASSUME NEW f \in Folders, DeleteFolder(r, f) PROVE SafetyInv'
  BY <1>2, <1>5, TargetFields, ChooseSafe DEF DeleteFolder, Steps
<1>6. ASSUME NEW u \in Users, DeleteUser(r, u) PROVE SafetyInv'
  BY <1>3, <1>6, TargetFields, ChooseSafe DEF DeleteUser, Steps
<1>7. CASE RevokeCommit(r)
  <2> DEFINE u == req[r].user  f == req[r].folder
  <2>1. Commit(r, RevokedJobs(u, f), RevokedSessions(u, f), Idle) /\ users' = users
    BY <1>7 DEF RevokeCommit
  <2>2. QED BY <1>1, <2>1, OwnersStay, CommitSafe
<1>8. CASE DeleteFolderCommit(r)
  <2> DEFINE f == req[r].folder
  <2>1. Commit(r, DeletedFolderJobs(f), DeletedFolderSessions(f), Idle)
        /\ users' = users
    BY <1>8 DEF DeleteFolderCommit
  <2>2. QED BY <1>2, <2>1, OwnersStay, CommitSafe
<1>9. CASE DeleteUserCommit(r)
  <2> DEFINE u == req[r].user
  <2>1. Commit(r, DeletedUserJobs(u), DeletedUserSessions(u), Idle)
        /\ users' = users \ {u}
    BY <1>9 DEF DeleteUserCommit
  <2>2. ASSUME NEW j \in Jobs, DeletedUserJobs(u)[j].status \notin {"none", "deleted"}
        PROVE  jobs[j].user \in users'
    <3>1. jobs[j] \in Job
      BY <1>0 DEF TypeOK
    <3>2. jobs[j].status \notin {"none", "deleted"} /\ jobs[j].user # u
      BY <2>2, <3>1 DEF DeletedUserJobs, EndJobs, JobsBy, Job
    <3>3. QED BY <2>1, <3>2 DEF SafetyInv, RowsHaveOwners
  <2>3. ASSUME NEW s \in Sessions,
               DeletedUserSessions(u)[s].status \notin {"none", "deleted"}
        PROVE  UserOf(s) \in users'
    <3>1. sessions[s] \in Session
      BY <1>0 DEF TypeOK
    <3>2. sessions[s].status \notin {"none", "deleted"} /\ UserOf(s) # u
      BY <2>3, <3>1 DEF DeletedUserSessions, EndSessions, SessionsBy, Session
    <3>3. QED BY <2>1, <3>2 DEF SafetyInv, RowsHaveOwners
  <2>4. QED BY <1>3, <2>1, <2>2, <2>3, CommitSafe
<1>10. QED
  BY <1>4, <1>5, <1>6, <1>7, <1>8, <1>9 DEF AdminOperation

\* Grants, deadlines and accepted shares keep the invariant
LEMMA EnvironmentSafe ==
  ASSUME SafetyInv, TypeOK', Environment
  PROVE  SafetyInv'
<1>0. TypeOK
  BY DEF SafetyInv
<1>1. ASSUME NEW u \in Users, NEW f \in Folders, Grant(u, f) \/ GrantLapses(u, f)
      PROVE  SafetyInv'
  BY <1>1 DEF Grant, GrantLapses, SafetyInv, TenantExclusive, OneRunning, Running,
       SessionEarned, SucceededHasSession, RowsHaveOwners, UserOf,
       PicksAreRows, OpensAreEarned, EarnedAreRows, ProvedIsEarned
<1>2. ASSUME NEW j \in Jobs, JobDue(j) \/ WorkProved(j) PROVE SafetyInv'
  <2>1. /\ sessions' = sessions /\ users' = users /\ req' = req
        /\ earned \subseteq earned'
        /\ earned' \subseteq earned \cup {j} /\ jobs[j].status # "none"
    BY <1>2 DEF JobDue, WorkProved, OpenStatus
  <2>2. \A k \in Jobs : /\ jobs'[k].status = jobs[k].status
                        /\ jobs'[k].user = jobs[k].user
                        /\ jobs'[k].proved => jobs[k].proved \/ k \in earned'
    BY <1>0, <1>2 DEF JobDue, WorkProved, TypeOK, Job
  <2>3. TenantExclusive' /\ SessionEarned' /\ SucceededHasSession'
    BY <2>1, <2>2 DEF SafetyInv, TenantExclusive, OneRunning, Running, SessionEarned,
                      SucceededHasSession
  <2>4. RowsHaveOwners'
    <3>1. \A s \in Sessions : sessions[s].status # "none"
            => sessions[s].job \in Jobs
      BY <1>0 DEF SafetyInv, SessionEarned, TypeOK
    <3>2. QED BY <2>1, <2>2, <3>1 DEF SafetyInv, RowsHaveOwners, UserOf
  <2>5. PicksAreRows' /\ OpensAreEarned'
    BY <1>0, <2>1, <2>2 DEF SafetyInv, TypeOK, Request, PicksAreRows, OpensAreEarned
  <2>6. EarnedAreRows' /\ ProvedIsEarned'
    BY <1>0, <2>1, <2>2 DEF SafetyInv, TypeOK, EarnedAreRows, ProvedIsEarned
  <2>7. QED BY <2>3, <2>4, <2>5, <2>6 DEF SafetyInv
<1>3. ASSUME NEW s \in Sessions, SessionLapses(s) PROVE SafetyInv'
  <2>1. /\ jobs' = jobs /\ users' = users /\ req' = req /\ earned' = earned
    BY <1>3 DEF SessionLapses
  <2>2. \A t \in Sessions : /\ sessions'[t].status = sessions[t].status
                            /\ sessions'[t].job = sessions[t].job
    BY <1>0, <1>3 DEF SessionLapses, TypeOK, Session
  <2>3. TenantExclusive' /\ SessionEarned' /\ SucceededHasSession'
    BY <2>1, <2>2 DEF SafetyInv, TenantExclusive, OneRunning, Running, SessionEarned,
                      SucceededHasSession
  <2>4. RowsHaveOwners'
    BY <2>1, <2>2 DEF SafetyInv, RowsHaveOwners, UserOf
  <2>5. PicksAreRows' /\ OpensAreEarned' /\ EarnedAreRows' /\ ProvedIsEarned'
    BY <2>1 DEF SafetyInv, PicksAreRows, OpensAreEarned, EarnedAreRows, ProvedIsEarned
  <2>6. QED BY <2>3, <2>4, <2>5 DEF SafetyInv
<1>4. QED BY <1>1, <1>2, <1>3 DEF Environment

-----------------------------------------------------------------------------
\* The inductive invariant holds in every reachable state
LEMMA SafetyInvariant == Spec => []SafetyInv
<1>1. Init => SafetyInv
  <2> SUFFICES ASSUME Init, TypeOK PROVE SafetyInv
    BY TypeInit
  <2>1. TenantExclusive /\ SessionEarned /\ SucceededHasSession
    BY DEF Init, NoJob, NoSession, TenantExclusive, OneRunning, Running,
           SessionEarned, SucceededHasSession
  <2>2. RowsHaveOwners
    BY DEF Init, NoJob, NoSession, RowsHaveOwners
  <2>3. PicksAreRows /\ OpensAreEarned
    BY IdleFields DEF Init, PicksAreRows, OpensAreEarned
  <2>4. EarnedAreRows /\ ProvedIsEarned
    BY DEF Init, NoJob, EarnedAreRows, ProvedIsEarned
  <2>5. QED BY <2>1, <2>2, <2>3, <2>4 DEF SafetyInv
<1>2. SafetyInv /\ [Next]_vars => SafetyInv'
  <2> SUFFICES ASSUME SafetyInv, [Next]_vars PROVE SafetyInv'
    OBVIOUS
  <2>0. TypeOK /\ TypeOK'
    BY TypeStep DEF SafetyInv
  <2>1. ASSUME NEW r \in Requests, Abort(r) PROVE SafetyInv'
    BY <2>1, IdleFields, GotoSafe DEF Abort
  <2>2. CASE UNCHANGED vars
    BY <2>0, <2>2 DEF vars, SafetyInv, TenantExclusive, OneRunning, Running,
       SessionEarned, SucceededHasSession, RowsHaveOwners, UserOf,
       PicksAreRows, OpensAreEarned, EarnedAreRows, ProvedIsEarned
  <2>3. QED
    BY <2>0, <2>1, <2>2, ReconcileSafe, ClientOperationSafe, AdminOperationSafe,
       EnvironmentSafe DEF Next
<1>3. QED BY <1>1, <1>2, PTL DEF Spec

\* At most one job runs and one session is active, whatever requests overlap
THEOREM TenantExclusiveCorrect == Spec => []TenantExclusive
BY SafetyInvariant, PTL DEF SafetyInv

\* A session row stands for a job whose work reached the requirement
THEOREM SessionEarnedCorrect == Spec => []SessionEarned
BY SafetyInvariant, PTL DEF SafetyInv

\* A job that succeeded has its session
THEOREM SucceededHasSessionCorrect == Spec => []SucceededHasSession
BY SafetyInvariant, PTL DEF SafetyInv

\* A permission row is written only for a user, and leaves with the user
LEMMA GrantsStep == TypeOK /\ GrantsHaveOwners /\ [Next]_vars => GrantsHaveOwners'
<1> SUFFICES ASSUME TypeOK, GrantsHaveOwners, [Next]_vars,
                    NEW u \in Users \ users', NEW f \in Folders
             PROVE  grants'[<<u, f>>] = "none"
  BY DEF GrantsHaveOwners
<1>1. CASE UNCHANGED <<grants, users>>
  BY <1>1 DEF GrantsHaveOwners
<1>2. ASSUME NEW r \in Requests, RevokeCommit(r)
      PROVE  grants'[<<u, f>>] = "none"
  BY <1>2 DEF RevokeCommit, GrantsHaveOwners, TypeOK
<1>3. ASSUME NEW r \in Requests, DeleteFolderCommit(r)
      PROVE  grants'[<<u, f>>] = "none"
  BY <1>3 DEF DeleteFolderCommit, GrantsHaveOwners
<1>4. ASSUME NEW r \in Requests, DeleteUserCommit(r)
      PROVE  grants'[<<u, f>>] = "none"
  BY <1>4 DEF DeleteUserCommit, GrantsHaveOwners
<1>5. ASSUME NEW v \in Users, NEW g \in Folders, Grant(v, g) \/ GrantLapses(v, g)
      PROVE  grants'[<<u, f>>] = "none"
  BY <1>5 DEF Grant, GrantLapses, GrantsHaveOwners, TypeOK
<1>6. ASSUME NEW r \in Requests, Reconcile(r) \/ ClientOperation(r) \/ Abort(r)
      PROVE  UNCHANGED <<grants, users>>
  <2>1. CASE Reconcile(r)
    BY <2>1 DEF Reconcile, ExpireSessions, TimeoutJobs, TimeoutCommit,
       CompleteRunningJobs, OpenSession, SkipOpenSession, Promote, PromoteCommit,
       Choose, Unchanged
  <2>2. CASE ClientOperation(r)
    BY <2>2 DEF ClientOperation, Return, CreateCheck, CreateTx, CreateInsert, Cancel,
       CancelCommit, Close, CloseCommit, CloseAsAdmin, CloseAsAdminCommit, Choose,
       Unchanged
  <2>3. QED BY <1>6, <2>1, <2>2 DEF Abort, Unchanged
<1>7. ASSUME NEW r \in Requests, AdminOperation(r)
      PROVE  \/ UNCHANGED <<grants, users>>
             \/ RevokeCommit(r) \/ DeleteFolderCommit(r) \/ DeleteUserCommit(r)
  BY <1>7 DEF AdminOperation, Revoke, DeleteFolder, DeleteUser, Choose, Unchanged
<1>8. ASSUME Environment
      PROVE  \/ UNCHANGED <<grants, users>>
             \/ \E v \in Users, g \in Folders : Grant(v, g) \/ GrantLapses(v, g)
  BY <1>8 DEF Environment, JobDue, WorkProved, SessionLapses
<1>9. QED
  BY <1>1, <1>2, <1>3, <1>4, <1>5, <1>6, <1>7, <1>8 DEF Next, vars

\* Nothing open belongs to a deleted user, and no permission either
THEOREM DeletedUserOwnsNothingCorrect == Spec => []DeletedUserOwnsNothing
<1>1. Init => GrantsHaveOwners
  BY DEF Init, GrantsHaveOwners
<1>2. Spec => []GrantsHaveOwners
  BY <1>1, GrantsStep, TypeCorrect, PTL DEF Spec
<1>3. QED BY <1>2, SafetyInvariant, PTL DEF SafetyInv, DeletedUserOwnsNothing
=============================================================================
