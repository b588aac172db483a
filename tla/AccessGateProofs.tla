--------------------------- MODULE AccessGateProofs ---------------------------
(***************************************************************************)
(* The access queue implements the gate, for every number of users,        *)
(* folders, jobs, sessions and overlapping requests; and what a step may   *)
(* do to a job or a session that has ended.                                *)
(***************************************************************************)
EXTENDS AccessQueueProofs

-----------------------------------------------------------------------------
(* What a step does to the rows.                                            *)

\* A session number that no INSERT has used names no job
FreshRows == \A s \in Sessions : sessions[s].status = "none" => sessions[s].job = None

GateInv == SafetyInv /\ FreshRows

\* Rows of ss come from the present sessions by ending some of them
OnlyEnds(ss) ==
  \A s \in Sessions :
    /\ ss[s].job = sessions[s].job
    /\ \/ ss[s].status = sessions[s].status
       \/ sessions[s].status = "active" /\ ss[s].status \notin {"active", "none"}
       \/ sessions[s].status # "none" /\ ss[s].status = "deleted"

\* Rows of js leave the jobs that have ended alone
LeavesEnded(js) ==
  \A j \in Jobs : jobs[j].status \in EndStatus
                  => js[j].status \in {jobs[j].status, "deleted"}

\* What EndedJobOnlyRestarts says of one step
JobStep ==
  \A j \in Jobs :
    jobs[j].status \in EndStatus /\ jobs'[j].status # jobs[j].status =>
      \/ jobs'[j].status = "deleted"
      \/ jobs'[j].status = "running" /\ \E r \in Requests : req[r].pick = j

\* An UPDATE of sessions guarded by status = 'active' only ends sessions
LEMMA EndSessionsOnlyEnds ==
  ASSUME TypeOK, NEW set, NEW status \in {"closed", "expired", "revoked"},
         \A s \in Sessions : s \in set => sessions[s].status = "active"
  PROVE  OnlyEnds(EndSessions(sessions, set, status))
BY DEF EndSessions, OnlyEnds, TypeOK, Session

\* Deleting the sessions of a user only ends sessions
LEMMA DeleteSessionsOnlyEnds ==
  ASSUME TypeOK, NEW u
  PROVE  OnlyEnds(DeletedUserSessions(u))
BY DEF DeletedUserSessions, SessionsBy, EndSessions, OnlyEnds, TypeOK, Session

\* Tables nobody writes to
LEMMA SameRows == OnlyEnds(sessions) /\ LeavesEnded(jobs)
BY DEF OnlyEnds, LeavesEnded

\* An UPDATE of jobs guarded by the open statuses leaves ended jobs alone
LEMMA EndJobsLeavesEnded ==
  ASSUME TypeOK, NEW set, NEW status,
         \A j \in Jobs : j \in set => jobs[j].status \in OpenStatus
  PROVE  LeavesEnded(EndJobs(jobs, set, status))
BY DEF EndJobs, LeavesEnded, TypeOK, Job, OpenStatus, EndStatus

\* Deleting the jobs of a user
LEMMA DeleteJobsLeavesEnded ==
  ASSUME TypeOK, NEW u
  PROVE  LeavesEnded(DeletedUserJobs(u))
BY DEF DeletedUserJobs, JobsBy, EndJobs, LeavesEnded, TypeOK, Job, EndStatus

\* A promotion changes nothing but the status of the job it chose
LEMMA CommitRows ==
  ASSUME TypeOK, NEW r \in Requests, NEW js \in [Jobs -> Job], NEW ss, NEW record,
         LeavesEnded(js), OnlyEnds(ss), Commit(r, js, ss, record)
  PROVE  JobStep /\ OnlyEnds(sessions') /\ earned' = earned
<1>1. ASSUME NEW j \in Jobs, jobs[j].status \in EndStatus,
             jobs'[j].status # jobs[j].status
      PROVE  \/ jobs'[j].status = "deleted"
             \/ jobs'[j].status = "running" /\ \E q \in Requests : req[q].pick = j
  <2>1. js[j].status \in {jobs[j].status, "deleted"} /\ js[j] \in Job
    BY <1>1 DEF LeavesEnded
  <2>2. jobs'[j] = Promoted(js, req[r].pick)[j]
    BY DEF Commit
  <2>3. CASE j = req[r].pick /\ js[j].status # "deleted"
    BY <2>2, <2>3, <2>1 DEF Promoted, Job
  <2>4. CASE ~(j = req[r].pick /\ js[j].status # "deleted")
    <3>1. jobs'[j] = js[j]
      BY <2>2, <2>4 DEF Promoted
    <3>2. QED BY <1>1, <2>1, <3>1
  <2>5. QED BY <2>3, <2>4
<1>2. QED BY <1>1 DEF Commit, JobStep

-----------------------------------------------------------------------------
(* The steps that open no session and prove no work.                        *)

QuietStep == JobStep /\ OnlyEnds(sessions') /\ earned' = earned

\* A step that writes neither table is quiet
LEMMA UnchangedQuiet ==
  ASSUME jobs' = jobs, sessions' = sessions, earned' = earned
  PROVE  QuietStep
BY SameRows DEF QuietStep, JobStep, OnlyEnds

\* reconcile, but for the step that opens a session
LEMMA ReconcileQuiet ==
  ASSUME TypeOK, NEW r \in Requests, Reconcile(r), ~OpenSession(r)
  PROVE  QuietStep
<1>1. CASE ExpireSessions(r)
  <2>1. OnlyEnds(sessions')
    BY <1>1, EndSessionsOnlyEnds DEF ExpireSessions
  <2>2. QED BY <1>1, <2>1 DEF ExpireSessions, QuietStep, JobStep
<1>2. CASE TimeoutJobs(r) \/ CompleteRunningJobs(r) \/ SkipOpenSession(r) \/ Promote(r)
  BY <1>2, UnchangedQuiet DEF TimeoutJobs, CompleteRunningJobs, SkipOpenSession,
     Promote, Choose, Unchanged
<1>3. CASE TimeoutCommit(r)
  <2> DEFINE js == TimedOut(jobs, req[r].due \cap Due(jobs))
  <2>1. js \in [Jobs -> Job]
    BY EndJobsTable DEF TimedOut, TypeOK, JobStatus
  <2>2. LeavesEnded(js)
    BY EndJobsLeavesEnded DEF TimedOut, Due
  <2>3. Commit(r, js, sessions, AtStep("complete"))
    BY <1>3 DEF TimeoutCommit
  <2>4. QED BY <2>1, <2>2, <2>3, CommitRows, SameRows DEF QuietStep
<1>4. CASE PromoteCommit(r)
  <2>1. jobs \in [Jobs -> Job] /\ Commit(r, jobs, sessions, AtStep("handler"))
    BY <1>4 DEF PromoteCommit, TypeOK
  <2>2. QED BY <2>1, CommitRows, SameRows DEF QuietStep
<1>5. QED BY <1>1, <1>2, <1>3, <1>4 DEF Reconcile

\* The operations of the access service
LEMMA ClientOperationQuiet ==
  ASSUME TypeOK, NEW r \in Requests, ClientOperation(r)
  PROVE  QuietStep
<1>1. CASE \/ Return(r) \/ CreateTx(r)
           \/ \E u \in Users, f \in Folders : CreateCheck(r, u, f)
           \/ \E j \in Jobs : Cancel(r, j)
           \/ \E s \in Sessions : Close(r, s) \/ CloseAsAdmin(r, s)
  BY <1>1, UnchangedQuiet DEF Return, CreateTx, CreateCheck, Cancel, Close,
     CloseAsAdmin, Choose, Unchanged
<1>2. CASE CreateInsert(r)
  <2>1. PICK j \in First({k \in Jobs : jobs[k].status = "none"}) :
          jobs' = [jobs EXCEPT ![j] = NewJob(r)]
    BY <1>2 DEF CreateInsert
  <2>2. jobs[j].status = "none"
    BY DEF First
  <2>3. \A k \in Jobs : k # j => jobs'[k] = jobs[k]
    BY <2>1 DEF TypeOK
  <2>4. JobStep
    BY <2>2, <2>3 DEF JobStep, EndStatus
  <2>5. QED BY <1>2, <2>4, SameRows DEF CreateInsert, QuietStep, OnlyEnds
<1>3. CASE CancelCommit(r)
  <2> DEFINE js == Canceled(jobs, req[r].job)
  <2>1. js \in [Jobs -> Job]
    BY EndJobsTable DEF Canceled, TypeOK, JobStatus
  <2>2. LeavesEnded(js)
    BY <1>3, EndJobsLeavesEnded DEF Canceled, CancelCommit
  <2>3. Commit(r, js, sessions, Idle)
    BY <1>3 DEF CancelCommit
  <2>4. QED BY <2>1, <2>2, <2>3, CommitRows, SameRows DEF QuietStep
<1>4. CASE CloseCommit(r) \/ CloseAsAdminCommit(r)
  <2> DEFINE ss == EndSessions(sessions, {req[r].session}, "closed")
  <2>1. jobs \in [Jobs -> Job] /\ Commit(r, jobs, ss, Idle)
    BY <1>4 DEF CloseCommit, CloseAsAdminCommit, TypeOK
  <2>2. OnlyEnds(ss)
    BY <1>4, EndSessionsOnlyEnds DEF CloseCommit, CloseAsAdminCommit
  <2>3. QED BY <2>1, <2>2, CommitRows, SameRows DEF QuietStep
<1>5. QED BY <1>1, <1>2, <1>3, <1>4 DEF ClientOperation

\* The operations of the archive and auth services
LEMMA AdminOperationQuiet ==
  ASSUME TypeOK, NEW r \in Requests, AdminOperation(r)
  PROVE  QuietStep
<1>1. CASE \/ \E u \in Users, f \in Folders : Revoke(r, u, f)
           \/ \E f \in Folders : DeleteFolder(r, f)
           \/ \E u \in Users : DeleteUser(r, u)
  BY <1>1, UnchangedQuiet DEF Revoke, DeleteFolder, DeleteUser, Choose, Unchanged
<1>2. CASE RevokeCommit(r)
  <2> DEFINE u == req[r].user  f == req[r].folder
             js == RevokedJobs(u, f)  ss == RevokedSessions(u, f)
  <2>1. js \in [Jobs -> Job]
    BY EndJobsTable DEF RevokedJobs, TypeOK, JobStatus
  <2>2. LeavesEnded(js)
    BY EndJobsLeavesEnded DEF RevokedJobs, JobsOf
  <2>3. OnlyEnds(ss)
    BY EndSessionsOnlyEnds DEF RevokedSessions, SessionsOf
  <2>4. Commit(r, js, ss, Idle)
    BY <1>2 DEF RevokeCommit
  <2>5. QED BY <2>1, <2>2, <2>3, <2>4, CommitRows DEF QuietStep
<1>3. CASE DeleteFolderCommit(r)
  <2> DEFINE f == req[r].folder
             js == DeletedFolderJobs(f)  ss == DeletedFolderSessions(f)
  <2>1. js \in [Jobs -> Job]
    BY EndJobsTable DEF DeletedFolderJobs, TypeOK, JobStatus
  <2>2. LeavesEnded(js)
    BY EndJobsLeavesEnded DEF DeletedFolderJobs, JobsIn
  <2>3. OnlyEnds(ss)
    BY EndSessionsOnlyEnds DEF DeletedFolderSessions, SessionsIn
  <2>4. Commit(r, js, ss, Idle)
    BY <1>3 DEF DeleteFolderCommit
  <2>5. QED BY <2>1, <2>2, <2>3, <2>4, CommitRows DEF QuietStep
<1>4. CASE DeleteUserCommit(r)
  <2> DEFINE u == req[r].user
             js == DeletedUserJobs(u)  ss == DeletedUserSessions(u)
  <2>1. js \in [Jobs -> Job]
    BY EndJobsTable DEF DeletedUserJobs, TypeOK, JobStatus
  <2>2. Commit(r, js, ss, Idle)
    BY <1>4 DEF DeleteUserCommit
  <2>3. QED
    BY <2>1, <2>2, DeleteJobsLeavesEnded, DeleteSessionsOnlyEnds, CommitRows
       DEF QuietStep
<1>5. QED BY <1>1, <1>2, <1>3, <1>4 DEF AdminOperation

\* Grants, deadlines and lapses
LEMMA EnvironmentQuiet ==
  ASSUME TypeOK, Environment, \A j \in Jobs : ~WorkProved(j)
  PROVE  QuietStep
<1>1. ASSUME NEW u \in Users, NEW f \in Folders, Grant(u, f) \/ GrantLapses(u, f)
      PROVE  QuietStep
  BY <1>1, UnchangedQuiet DEF Grant, GrantLapses
<1>2. ASSUME NEW j \in Jobs, JobDue(j) PROVE QuietStep
  <2>1. \A k \in Jobs : jobs'[k].status = jobs[k].status
    BY <1>2 DEF JobDue, TypeOK, Job
  <2>2. QED BY <1>2, <2>1, SameRows DEF JobDue, QuietStep, JobStep, OnlyEnds
<1>3. ASSUME NEW s \in Sessions, SessionLapses(s) PROVE QuietStep
  <2>1. \A t \in Sessions : /\ sessions'[t].status = sessions[t].status
                            /\ sessions'[t].job = sessions[t].job
    BY <1>3 DEF SessionLapses, TypeOK, Session
  <2>2. QED BY <1>3, <2>1 DEF SessionLapses, QuietStep, JobStep, OnlyEnds
<1>4. QED BY <1>1, <1>2, <1>3 DEF Environment

\* Only openSessionForCompletedJob and a share of the gateway are not quiet
LEMMA OtherStepsQuiet ==
  ASSUME TypeOK, [Next]_vars, \A r \in Requests : ~OpenSession(r),
         \A j \in Jobs : ~WorkProved(j)
  PROVE  QuietStep
<1>1. ASSUME NEW r \in Requests, Abort(r) PROVE QuietStep
  BY <1>1, UnchangedQuiet DEF Abort, Unchanged
<1>2. CASE UNCHANGED vars
  BY <1>2, UnchangedQuiet DEF vars
<1>3. QED
  BY <1>1, <1>2, ReconcileQuiet, ClientOperationQuiet, AdminOperationQuiet,
     EnvironmentQuiet DEF Next

-----------------------------------------------------------------------------
(* The step that opens a session.                                           *)

\* openSessionForCompletedJob makes one fresh row active, where none was, for a
\* job whose work sufficed, and the job stops running
LEMMA OpenSessionStep ==
  ASSUME GateInv, NEW r \in Requests, OpenSession(r)
  PROVE  /\ JobStep
         /\ earned' = earned
         /\ req[r].job \in earned /\ Running(jobs') = Running(jobs) \ {req[r].job}
         /\ \A t \in Sessions : sessions[t].status # "active"
         /\ \E s \in Sessions :
              /\ sessions[s].status = "none"
              /\ sessions' = [sessions EXCEPT ![s] =
                   [status |-> "active", job |-> req[r].job, lapsed |-> FALSE]]
<1>0. TypeOK /\ req[r].job \in earned
  BY DEF GateInv, SafetyInv, OpensAreEarned, OpenSession
<1>1. \A j \in Jobs :
        /\ jobs'[j].status = jobs[j].status \/ jobs[j].status \in OpenStatus
        /\ jobs'[j].status = "running"
           <=> jobs[j].status = "running" /\ j # req[r].job
  BY <1>0 DEF OpenSession, Opened, EndJobs, Queued, Running, TypeOK, Job, OpenStatus
<1>2. JobStep /\ Running(jobs') = Running(jobs) \ {req[r].job}
  BY <1>1 DEF JobStep, Running, OpenStatus, EndStatus
<1>3. \A t \in Sessions : sessions[t].status # "active"
  BY DEF OpenSession, CanInsertSession
<1>4. PICK s \in First({t \in Sessions : sessions[t].status = "none"}) :
        sessions' = [sessions EXCEPT ![s] =
                      [status |-> "active", job |-> req[r].job, lapsed |-> FALSE]]
  BY DEF OpenSession
<1>5. s \in Sessions /\ sessions[s].status = "none"
  BY DEF First
<1>6. QED BY <1>0, <1>2, <1>3, <1>4, <1>5 DEF OpenSession

\* The invariant, with the fresh rows
LEMMA GateInvariant == Spec => []GateInv
<1>1. Init => FreshRows
  BY DEF Init, NoSession, FreshRows
<1>2. GateInv /\ [Next]_vars => FreshRows'
  <2> SUFFICES ASSUME GateInv, [Next]_vars PROVE FreshRows'
    OBVIOUS
  <2>0. TypeOK
    BY DEF GateInv, SafetyInv
  <2>1. ASSUME NEW r \in Requests, OpenSession(r) PROVE FreshRows'
    <3>1. PICK s \in Sessions :
            sessions' = [sessions EXCEPT ![s] =
              [status |-> "active", job |-> req[r].job, lapsed |-> FALSE]]
      BY <2>1, OpenSessionStep
    <3>2. QED BY <2>0, <3>1 DEF GateInv, FreshRows, TypeOK
  <2>2. ASSUME NEW j \in Jobs, WorkProved(j) PROVE FreshRows'
    BY <2>2 DEF WorkProved, GateInv, FreshRows
  <2>3. ASSUME QuietStep PROVE FreshRows'
    BY <2>3 DEF QuietStep, OnlyEnds, GateInv, FreshRows
  <2>4. QED BY <2>0, <2>1, <2>2, <2>3, OtherStepsQuiet
<1>3. QED BY <1>1, <1>2, SafetyInvariant, PTL DEF Spec, GateInv

-----------------------------------------------------------------------------
(* The theorems.                                                            *)

\* The first state of the queue is the first state of the gate
LEMMA GateInit == Init => Gate!Init
BY DEF Init, Gate!Init, Running, Active, NoJob, NoSession

\* At most one job runs, as the gate says it
LEMMA RunningIsOne == TypeOK /\ TenantExclusive =>
                        Running(jobs) \subseteq Jobs /\ Gate!AtMostOne(Running(jobs))
BY DEF TenantExclusive, OneRunning, Running, Gate!AtMostOne

\* Every step of the queue is a step of the gate or leaves it unchanged
LEMMA GateStep ==
  ASSUME GateInv, GateInv', [Next]_vars
  PROVE  [Gate!Next]_(Gate!vars)
<1>0. TypeOK /\ TypeOK' /\ TenantExclusive /\ TenantExclusive'
  BY DEF GateInv, SafetyInv
<1>1. ASSUME NEW r \in Requests, OpenSession(r) PROVE Gate!Next
  <2>0. PICK j \in Jobs : j = req[r].job /\ j \in earned
    BY <1>0, <1>1, OpenSessionStep DEF TypeOK
  <2>1. PICK s \in Sessions :
          /\ sessions[s].status = "none"
          /\ sessions' = [sessions EXCEPT ![s] =
               [status |-> "active", job |-> j, lapsed |-> FALSE]]
    BY <1>1, <2>0, OpenSessionStep
  <2>2. /\ j \in earned /\ earned' = earned
        /\ Running(jobs') = Running(jobs) \ {j}
        /\ \A t \in Sessions : sessions[t].status # "active"
    BY <1>1, <2>0, OpenSessionStep
  <2>4. Active = {} /\ Active' = {s}
    BY <1>0, <2>1, <2>2 DEF Active, TypeOK
  <2>5. sessions[s].job = None
    BY <2>1 DEF GateInv, FreshRows
  <2>6. [t \in Sessions |-> sessions'[t].job]
          = [[t \in Sessions |-> sessions[t].job] EXCEPT ![s] = j]
    BY <1>0, <2>1 DEF TypeOK
  <2>7. Gate!Admit(s, j)
    BY <2>2, <2>4, <2>5, <2>6 DEF Gate!Admit
  <2>8. QED BY <2>7 DEF Gate!Next
<1>2. ASSUME NEW j \in Jobs, WorkProved(j) PROVE Gate!Next
  <2>1. Running(jobs) = {j}
    BY <1>0, <1>2 DEF WorkProved, TenantExclusive, OneRunning, Running
  <2>2. Running(jobs') = Running(jobs)
    BY <1>0, <1>2 DEF WorkProved, Running, TypeOK, Job
  <2>3. Gate!Earn(j)
    BY <1>2, <2>1, <2>2 DEF WorkProved, Gate!Earn, Active
  <2>4. QED BY <2>3 DEF Gate!Next
<1>3. ASSUME QuietStep PROVE Gate!Next
  <2>1. Active' \subseteq Active
    BY <1>3 DEF QuietStep, OnlyEnds, Active
  <2>2. [s \in Sessions |-> sessions'[s].job] = [s \in Sessions |-> sessions[s].job]
    BY <1>3 DEF QuietStep, OnlyEnds
  <2>3. Running(jobs') \subseteq Jobs /\ Gate!AtMostOne(Running(jobs'))
    BY <1>0 DEF TenantExclusive, OneRunning, Running, Gate!AtMostOne
  <2>4. Gate!Turn
    BY <1>3, <2>1, <2>2, <2>3 DEF QuietStep, Gate!Turn
  <2>5. QED BY <2>4 DEF Gate!Next
<1>4. QED BY <1>0, <1>1, <1>2, <1>3, OtherStepsQuiet

\* The access queue implements the gate however requests overlap and fail
THEOREM QueueImplementsGate == Spec => ImplementsGate
<1>1. GateInv /\ GateInv' /\ [Next]_vars => [Gate!Next]_(Gate!vars)
  BY GateStep
<1>2. QED BY <1>1, GateInit, GateInvariant, PTL DEF Spec, ImplementsGate, Gate!Spec

\* A session that was closed, expired or revoked keeps that status
THEOREM SessionEndIsFinalCorrect == Spec => SessionEndIsFinal
<1>1. GateInv /\ [Next]_vars =>
        [\A s \in Sessions : sessions[s].status \in {"closed", "expired", "revoked"}
           => sessions'[s].status \in {sessions[s].status, "deleted"}]_vars
  <2> SUFFICES ASSUME GateInv, [Next]_vars,
                      NEW s \in Sessions,
                      sessions[s].status \in {"closed", "expired", "revoked"}
               PROVE  sessions'[s].status \in {sessions[s].status, "deleted"}
    OBVIOUS
  <2>0. TypeOK
    BY DEF GateInv, SafetyInv
  <2>1. ASSUME NEW r \in Requests, OpenSession(r)
        PROVE  sessions'[s].status = sessions[s].status
    <3>1. PICK t \in Sessions :
            /\ sessions[t].status = "none"
            /\ sessions' = [sessions EXCEPT ![t] =
                 [status |-> "active", job |-> req[r].job, lapsed |-> FALSE]]
      BY <2>1, OpenSessionStep
    <3>2. QED BY <3>1 DEF TypeOK
  <2>2. ASSUME NEW j \in Jobs, WorkProved(j)
        PROVE  sessions'[s].status = sessions[s].status
    BY <2>2 DEF WorkProved
  <2>3. ASSUME QuietStep
        PROVE  sessions'[s].status \in {sessions[s].status, "deleted"}
    BY <2>3 DEF QuietStep, OnlyEnds
  <2>4. QED BY <2>0, <2>1, <2>2, <2>3, OtherStepsQuiet
<1>2. QED BY <1>1, GateInvariant, PTL DEF Spec, SessionEndIsFinal

\* A job that ended changes again only where a promotion had chosen it, or with
\* the deletion of its user
THEOREM EndedJobOnlyRestartsCorrect == Spec => EndedJobOnlyRestarts
<1>1. GateInv /\ [Next]_vars => [JobStep]_vars
  <2> SUFFICES ASSUME GateInv, [Next]_vars PROVE JobStep
    OBVIOUS
  <2>0. TypeOK
    BY DEF GateInv, SafetyInv
  <2>1. ASSUME NEW r \in Requests, OpenSession(r) PROVE JobStep
    BY <2>1, OpenSessionStep
  <2>2. ASSUME NEW j \in Jobs, WorkProved(j) PROVE JobStep
    BY <2>0, <2>2 DEF WorkProved, JobStep, TypeOK, Job
  <2>3. ASSUME QuietStep PROVE JobStep
    BY <2>3 DEF QuietStep
  <2>4. QED BY <2>0, <2>1, <2>2, <2>3, OtherStepsQuiet
<1>2. QED BY <1>1, GateInvariant, PTL DEF Spec, EndedJobOnlyRestarts, JobStep
===============================================================================
