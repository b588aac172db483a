-------------------------- MODULE AccessSerialProofs --------------------------
(***************************************************************************)
(* What the access queue achieves as long as its requests do not overlap,  *)
(* for every number of users, folders, jobs, sessions and request slots.   *)
(* Time, permissions and the compute gateway go on between the steps of a  *)
(* request, which may fail at each of them.                                *)
(***************************************************************************)
EXTENDS AccessGateProofs, WellFoundedInduction

\* One request at a time: the next begins when the last has ended or failed
OneAtATime ==
  \A r, s \in Requests : req[r].pc # "idle" /\ req[s].pc # "idle" => r = s

SerialSpec == Spec /\ []OneAtATime

-----------------------------------------------------------------------------
(* The inductive invariant.                                                 *)

\* The jobs that the transaction of a request record q has yet to end, and the
\* sessions
Ends(q) ==
  CASE q.pc = "timeoutCommit" -> q.due
    [] q.pc = "cancelCommit" -> {q.job}
    [] q.pc = "revokeCommit" -> JobsOf(q.user, q.folder)
    [] q.pc = "deleteFolderCommit" -> JobsIn(q.folder)
    [] q.pc = "deleteUserCommit" -> JobsBy(q.user)
    [] OTHER -> {}

Closes(q) ==
  CASE q.pc \in {"closeCommit", "adminCloseCommit"} -> {q.session}
    [] q.pc = "revokeCommit" -> SessionsOf(q.user, q.folder)
    [] q.pc = "deleteFolderCommit" -> SessionsIn(q.folder)
    [] q.pc = "deleteUserCommit" -> SessionsBy(q.user)
    [] OTHER -> {}

Promoting == {"timeoutCommit", "promoteCommit", "cancelCommit", "closeCommit",
              "adminCloseCommit", "revokeCommit", "deleteFolderCommit",
              "deleteUserCommit"}

\* The snapshot of a promotion is still true when its transaction commits: with
\* jobs ended and sessions closed, the chosen job is queued and nothing goes on,
\* or none was chosen and none need be
Ready(pick, jobsEnded, sessionsEnded) ==
  IF pick = None
  THEN Queued(jobs) \subseteq jobsEnded \/ ~(Running(jobs) \subseteq jobsEnded)
  ELSE /\ pick \in Queued(jobs) \ jobsEnded
       /\ Running(jobs) \subseteq jobsEnded
       /\ OpenSessions(sessions) \subseteq sessionsEnded

\* What a request read is still so when it uses it
Knows(q) ==
  /\ q.pc = "open" => q.job \in Running(jobs)
  /\ q.pc \in {"createTx", "createInsert"} =>
       q.user \in Users /\ q.folder \in Folders /\ grants[<<q.user, q.folder>>] # "none"
  /\ q.pc = "createInsert" =>
       OpenSessions(sessions) = {} /\ (q.start <=> Running(jobs) = {})
  /\ q.pc = "timeoutCommit" => q.due \subseteq Due(jobs)
  /\ q.pc \in Promoting => Ready(q.pick, Ends(q), Closes(q))

\* A session is opened by a job that succeeds, and a job succeeds once
PaidOnce ==
  \A s \in Sessions : sessions[s].status # "none"
                      => jobs[sessions[s].job].status \in {"succeeded", "deleted"}

SerialInv ==
  /\ QueueNeverIdle
  /\ NoJobBesideSession
  /\ RevocationIsComplete
  /\ PaidOnce
  /\ ProofSpentOnce
  /\ \A r \in Requests : Knows(req[r])


\* The jobs that have started or ended, and the sessions that have opened
Past(js) == {j \in Jobs : js[j].status \notin {"none", "queued"}}
PastSessions(ss) == {s \in Sessions : ss[s].status # "none"}

\* What a step does to the operation that goes on: it lets it go on or ends it, it
\* starts a job that waited, or it opens the session of the running job
OperationStep ==
  /\ Past(jobs) \subseteq Past(jobs')
  /\ PastSessions(sessions) \subseteq PastSessions(sessions')
  /\ \/ /\ Running(jobs') \subseteq Running(jobs)
        /\ OpenSessions(sessions') \subseteq OpenSessions(sessions)
     \/ \E j \in Jobs : /\ j \notin Past(jobs) /\ Running(jobs') = {j}
                        /\ OpenSessions(sessions') = {}
     \/ \E s \in Sessions : /\ s \notin PastSessions(sessions) /\ Running(jobs) # {}
                            /\ Running(jobs') = {} /\ OpenSessions(sessions') = {s}

\* What is proved of every step
SerialNext == SerialInv' /\ OperationStep

-----------------------------------------------------------------------------
(* The helpers of the queue.                                                *)

\* A set of row numbers has a first one: the queue has a head when it is not
\* empty
LEMMA FirstExists ==
  ASSUME NEW S, S \subseteq Nat, S # {}
  PROVE  First(S) # {}
<1>1. IsWellFoundedOn(OpToRel(<, Nat), Nat)
  BY NatLessThanWellFounded
<1>2. PICK x \in S : \A y \in S : ~(<<y, x>> \in OpToRel(<, Nat))
  BY <1>1, WFMin
<1>3. \A y \in S : ~(y < x)
  BY <1>2 DEF OpToRel
<1>4. QED BY <1>3 DEF First

\* A session row names a job row
LEMMA SessionHasJob ==
  ASSUME SafetyInv, NEW s \in Sessions, sessions[s].status # "none"
  PROVE  sessions[s].job \in Jobs /\ sessions[s].job \in earned
BY DEF SafetyInv, SessionEarned, TypeOK

-----------------------------------------------------------------------------
(* What the writes of a transaction do.                                     *)

\* js are the jobs after those of the set ended have ended
Without(js, ended) ==
  \A j \in Jobs :
    /\ js[j].user = jobs[j].user /\ js[j].folder = jobs[j].folder
    /\ j \notin ended => js[j].status = jobs[j].status
    /\ j \in ended => js[j].status \notin OpenStatus
    /\ js[j].status = "none" => jobs[j].status = "none"
    /\ jobs[j].status \in {"succeeded", "deleted"}
         => js[j].status \in {"succeeded", "deleted"}

\* ss are the sessions after those of the set closed have ended
WithoutSessions(ss, closed) ==
  \A s \in Sessions :
    /\ ss[s].job = sessions[s].job /\ ss[s].lapsed = sessions[s].lapsed
    /\ s \notin closed => ss[s].status = sessions[s].status
    /\ s \in closed => ss[s].status # "active"
    /\ ss[s].status = "none" <=> sessions[s].status = "none"

\* An UPDATE that ends jobs ends these and no other
LEMMA EndJobsWithout ==
  ASSUME TypeOK, NEW set, NEW status \in {"canceled", "timeout", "deleted"},
         \A j \in Jobs : j \in set => \/ jobs[j].status \in OpenStatus
                                      \/ status = "deleted"
  PROVE  Without(EndJobs(jobs, set, status), set)
<1> DEFINE js == EndJobs(jobs, set, status)
<1>1. ASSUME NEW j \in Jobs
      PROVE  /\ js[j].user = jobs[j].user /\ js[j].folder = jobs[j].folder
             /\ js[j].status = IF j \in set THEN status ELSE jobs[j].status
  <2>1. jobs[j] \in Job
    BY DEF TypeOK
  <2>2. js[j] = IF j \in set THEN [jobs[j] EXCEPT !.status = status] ELSE jobs[j]
    BY DEF EndJobs
  <2>3. QED BY <2>1, <2>2 DEF Job
<1> HIDE DEF js
<1>2. QED BY <1>1 DEF Without, OpenStatus, js

\* An UPDATE that ends sessions ends these and no other
LEMMA EndSessionsWithout ==
  ASSUME TypeOK, NEW set, NEW status \in {"closed", "expired", "revoked", "deleted"},
         \A s \in Sessions : s \in set => sessions[s].status # "none"
  PROVE  WithoutSessions(EndSessions(sessions, set, status), set)
<1> DEFINE ss == EndSessions(sessions, set, status)
<1>1. ASSUME NEW s \in Sessions
      PROVE  /\ ss[s].job = sessions[s].job /\ ss[s].lapsed = sessions[s].lapsed
             /\ ss[s].status = IF s \in set THEN status ELSE sessions[s].status
  <2>1. sessions[s] \in Session
    BY DEF TypeOK
  <2>2. ss[s] = IF s \in set THEN [sessions[s] EXCEPT !.status = status] ELSE sessions[s]
    BY DEF EndSessions
  <2>3. QED BY <2>1, <2>2 DEF Session
<1> HIDE DEF ss
<1>2. QED BY <1>1 DEF WithoutSessions, ss

\* A transaction that writes no job and no session
LEMMA SameWithout == Without(jobs, {}) /\ WithoutSessions(sessions, {})
BY DEF Without, WithoutSessions

\* What the queries see of these tables
LEMMA WithoutQueries ==
  ASSUME NEW js, NEW ended, Without(js, ended),
         NEW ss, NEW closed, WithoutSessions(ss, closed)
  PROVE  /\ Queued(js) = Queued(jobs) \ ended
         /\ Running(js) = Running(jobs) \ ended
         /\ OpenSessions(ss) = OpenSessions(sessions) \ closed
<1>1. Queued(js) = Queued(jobs) \ ended /\ Running(js) = Running(jobs) \ ended
  BY DEF Without, Queued, Running, OpenStatus
<1>2. OpenSessions(ss) = OpenSessions(sessions) \ closed
  BY DEF WithoutSessions, OpenSessions
<1>3. QED BY <1>1, <1>2

\* The snapshot of a promotion finds what its commit relies on
LEMMA ToPromoteReady ==
  ASSUME NoJobBesideSession,
         NEW js, NEW ended, Without(js, ended),
         NEW ss, NEW closed, WithoutSessions(ss, closed)
  PROVE  /\ \A j \in ToPromote(js, ss) : j # None /\ Ready(j, ended, closed)
         /\ ToPromote(js, ss) = {} => Ready(None, ended, closed)
<1>1. /\ Queued(js) = Queued(jobs) \ ended
      /\ Running(js) = Running(jobs) \ ended
      /\ OpenSessions(ss) = OpenSessions(sessions) \ closed
  BY WithoutQueries
<1>2. ASSUME NEW j \in ToPromote(js, ss)
      PROVE  j # None /\ Ready(j, ended, closed)
  <2>1. Running(js) = {} /\ OpenSessions(ss) = {} /\ j \in Queued(js)
    BY <1>2 DEF ToPromote, CanStart, First
  <2>2. j # None
    BY <2>1, NoneIsNoRow DEF Queued
  <2>3. QED BY <1>1, <2>1, <2>2 DEF Ready
<1>3. ASSUME ToPromote(js, ss) = {} PROVE Ready(None, ended, closed)
  <2>1. CASE Running(js) # {}
    BY <1>1, <2>1 DEF Ready
  <2>2. CASE OpenSessions(ss) # {}
    <3>1. OpenSessions(sessions) # {}
      BY <1>1, <2>2
    <3>2. Queued(jobs) = {}
      BY <3>1 DEF NoJobBesideSession, Queued, OpenStatus
    <3>3. QED BY <3>2 DEF Ready
  <2>3. CASE Running(js) = {} /\ OpenSessions(ss) = {}
    <3>1. First(Queued(js)) = {}
      BY <1>3, <2>3 DEF ToPromote, CanStart
    <3>2. Queued(js) \subseteq Nat
      BY IdsAreNumbers DEF Queued
    <3>3. Queued(js) = {}
      BY <3>1, <3>2, FirstExists
    <3>4. QED BY <1>1, <3>3 DEF Ready
  <2>4. QED BY <2>1, <2>2, <2>3
<1>4. QED BY <1>2, <1>3

-----------------------------------------------------------------------------
(* Steps that only move their own request.                                  *)

\* While a request is under way every other slot is free, and a free slot
\* relies on nothing
LEMMA OthersKnow ==
  ASSUME TypeOK, OneAtATime, OneAtATime', NEW r \in Requests, NEW record,
         req' = [req EXCEPT ![r] = record],
         req[r].pc # "idle" \/ record.pc # "idle"
  PROVE  \A s \in Requests : s # r => Knows(req[s])'
<1> SUFFICES ASSUME NEW s \in Requests, s # r PROVE Knows(req[s])'
  OBVIOUS
<1>1. req'[r] = record /\ req'[s] = req[s]
  BY DEF TypeOK
<1>2. req'[s].pc = "idle"
  BY <1>1 DEF OneAtATime
<1>3. QED BY <1>2 DEF Knows, Promoting

\* What a record relies on is about the tables alone
LEMMA KnowsStays ==
  ASSUME NEW q, Knows(q), Unchanged
  PROVE  Knows(q)'
<1>1. Ends(q)' = Ends(q) /\ Closes(q)' = Closes(q)
  BY DEF Unchanged, Ends, Closes, JobsOf, JobsIn, JobsBy, SessionsOf, SessionsIn,
         SessionsBy, UserOf, FolderOf
<1>2. Ready(q.pick, Ends(q), Closes(q)) => Ready(q.pick, Ends(q), Closes(q))'
  BY <1>1 DEF Unchanged, Ready
<1>3. QED BY <1>2 DEF Unchanged, Knows

\* A request step that writes no table keeps the invariant, if its record relies
\* on what is so
LEMMA GotoSerial ==
  ASSUME SerialInv, TypeOK, OneAtATime, OneAtATime', NEW r \in Requests, NEW record,
         Goto(r, record), Unchanged, req[r].pc # "idle" \/ record.pc # "idle",
         Knows(record)
  PROVE  SerialNext
<1>1. req' = [req EXCEPT ![r] = record]
  BY DEF Goto
<1>2. Knows(record)'
  BY KnowsStays
<1>3. req'[r] = record
  BY <1>1 DEF TypeOK
<1>4. Knows(req[r])'
  BY <1>2, <1>3 DEF Knows, Ready, Ends, Closes
<1>5. \A s \in Requests : Knows(req[s])'
  BY <1>1, <1>4, OthersKnow
<1>6. /\ QueueNeverIdle' /\ NoJobBesideSession' /\ RevocationIsComplete'
      /\ PaidOnce' /\ ProofSpentOnce'
  BY DEF SerialInv, Unchanged, QueueNeverIdle, NoJobBesideSession, RevocationIsComplete,
         PaidOnce, ProofSpentOnce, JobsOf, SessionsOf, UserOf, FolderOf
<1>7. OperationStep
  BY DEF Unchanged, OperationStep
<1>8. QED BY <1>5, <1>6, <1>7 DEF SerialInv, SerialNext

\* A record that is at a step without a promotion relies on nothing read
LEMMA NothingRead ==
  ASSUME NEW q, q.pc \in {"idle", "timeout", "complete", "promote", "handler"}
  PROVE  Knows(q)
BY DEF Knows, Promoting

\* What ends a transaction does not depend on the job it promotes
LEMMA PickFields ==
  ASSUME NEW q \in Request, NEW j
  PROVE  LET chosen == [q EXCEPT !.pick = j]
         IN  /\ chosen.pick = j /\ chosen.pc = q.pc /\ chosen.due = q.due
             /\ Ends(chosen) = Ends(q) /\ Closes(chosen) = Closes(q)
<1> DEFINE chosen == [q EXCEPT !.pick = j]
<1>1. /\ chosen.pick = j /\ chosen.pc = q.pc /\ chosen.due = q.due
      /\ chosen.job = q.job /\ chosen.session = q.session
      /\ chosen.user = q.user /\ chosen.folder = q.folder
  BY DEF Request
<1> HIDE DEF chosen
<1>2. Ends(chosen) = Ends(q) /\ Closes(chosen) = Closes(q)
  BY <1>1 DEF Ends, Closes
<1>3. QED BY <1>1, <1>2 DEF chosen

\* The snapshot step of a promoting transaction keeps the invariant
LEMMA ChooseSerial ==
  ASSUME SerialInv, TypeOK, OneAtATime, OneAtATime', NEW r \in Requests,
         NEW js, NEW ss, NEW record \in Request, record.pick = None,
         record.pc \in Promoting, record.pc = "timeoutCommit" => record.due \subseteq Due(jobs),
         Without(js, Ends(record)), WithoutSessions(ss, Closes(record)),
         Choose(r, js, ss, record)
  PROVE  SerialNext
<1>1. /\ \A j \in ToPromote(js, ss) : j # None /\ Ready(j, Ends(record), Closes(record))
      /\ ToPromote(js, ss) = {} => Ready(None, Ends(record), Closes(record))
  BY ToPromoteReady DEF SerialInv
<1>2. record.pc \notin {"idle", "open", "createTx", "createInsert"} /\ Unchanged
  BY DEF Promoting, Choose
<1>3. CASE ToPromote(js, ss) = {} /\ Goto(r, record)
  <2>1. Knows(record)
    BY <1>1, <1>2, <1>3 DEF Knows
  <2>2. QED BY <1>2, <1>3, <2>1, GotoSerial
<1>4. ASSUME NEW j \in ToPromote(js, ss), Goto(r, [record EXCEPT !.pick = j])
      PROVE  SerialNext
  <2> DEFINE chosen == [record EXCEPT !.pick = j]
  <2>1. /\ chosen.pick = j /\ chosen.pc = record.pc /\ chosen.due = record.due
        /\ Ends(chosen) = Ends(record) /\ Closes(chosen) = Closes(record)
    BY PickFields
  <2>2. Goto(r, chosen)
    BY <1>4
  <2> HIDE DEF chosen
  <2>3. Ready(chosen.pick, Ends(chosen), Closes(chosen))
    BY <1>1, <2>1 DEF Ready
  <2>4. Knows(chosen)
    BY <1>2, <2>1, <2>3 DEF Knows
  <2>5. QED BY <1>2, <2>1, <2>2, <2>4, GotoSerial
<1>5. QED BY <1>3, <1>4 DEF Choose

-----------------------------------------------------------------------------
(* The transactions that end jobs and sessions and promote.                 *)

\* What a promoting transaction leaves of the jobs: those it ended have ended, and
\* the job it chose, if any, runs
LEMMA CommitJobs ==
  ASSUME TypeOK, NEW pick, NEW js \in [Jobs -> Job], NEW ended, Without(js, ended),
         NEW closed, Ready(pick, ended, closed), NEW j \in Jobs
  PROVE  /\ Promoted(js, pick)[j].user = jobs[j].user
         /\ Promoted(js, pick)[j].folder = jobs[j].folder
         /\ Promoted(js, pick)[j].status = IF j = pick THEN "running" ELSE js[j].status
         /\ Promoted(js, pick)[j].status \in OpenStatus
              => jobs[j].status \in OpenStatus /\ j \notin ended
         /\ jobs[j].status \in {"succeeded", "deleted"}
              => Promoted(js, pick)[j].status \in {"succeeded", "deleted"}
<1>1. js[j] \in Job
  OBVIOUS
<1>2. CASE j = pick
  <2>1. j # None /\ jobs[j].status = "queued" /\ j \notin ended
    BY <1>2, NoneIsNoRow DEF Ready, Queued
  <2>2. js[j].status = "queued"
    BY <2>1 DEF Without
  <2>3. Promoted(js, pick)[j] = [js[j] EXCEPT !.status = "running", !.overdue = FALSE,
                                             !.proved = FALSE]
    BY <1>2, <2>2 DEF Promoted
  <2>4. /\ Promoted(js, pick)[j].status = "running"
        /\ Promoted(js, pick)[j].user = js[j].user
        /\ Promoted(js, pick)[j].folder = js[j].folder
    BY <1>1, <2>3 DEF Job
  <2>5. QED BY <1>2, <2>1, <2>4 DEF Without, OpenStatus
<1>3. CASE j # pick
  <2>1. Promoted(js, pick)[j] = js[j]
    BY <1>3 DEF Promoted
  <2>2. QED BY <1>3, <2>1 DEF Without
<1>4. QED BY <1>2, <1>3

\* The effect of a promoting transaction keeps the invariant: when it has ended
\* what ran, or what was open, the head of the queue runs, and a permission it
\* takes away takes its jobs and sessions with it
LEMMA CommitSerial ==
  ASSUME SerialInv, SafetyInv, SafetyInv', OneAtATime, OneAtATime', NEW r \in Requests,
         NEW js \in [Jobs -> Job], NEW ended, Without(js, ended),
         NEW ss, NEW closed, WithoutSessions(ss, closed), NEW record,
         req[r].pc # "idle", record.pc \in {"idle", "complete", "handler"},
         Ready(req[r].pick, ended, closed), Commit(r, js, ss, record),
         \A u \in Users, f \in Folders :
           grants'[<<u, f>>] = "none" =>
             \/ grants[<<u, f>>] = "none"
             \/ JobsOf(u, f) \subseteq ended /\ SessionsOf(u, f) \subseteq closed
  PROVE  SerialNext
<1> DEFINE pick == req[r].pick
<1>0. TypeOK
  BY DEF SafetyInv
<1>1. /\ jobs' = Promoted(js, pick) /\ sessions' = ss
      /\ req' = [req EXCEPT ![r] = record]
  BY DEF Commit, Goto
<1>2. \A j \in Jobs :
        /\ jobs'[j].user = jobs[j].user /\ jobs'[j].folder = jobs[j].folder
        /\ jobs'[j].status = IF j = pick THEN "running" ELSE js[j].status
        /\ jobs'[j].status \in OpenStatus => jobs[j].status \in OpenStatus /\ j \notin ended
        /\ jobs[j].status \in {"succeeded", "deleted"}
             => jobs'[j].status \in {"succeeded", "deleted"}
  BY <1>0, <1>1, CommitJobs
<1>3. /\ Queued(js) = Queued(jobs) \ ended
      /\ Running(js) = Running(jobs) \ ended
      /\ OpenSessions(ss) = OpenSessions(sessions) \ closed
  BY WithoutQueries
<1>4. QueueNeverIdle'
  <2>1. CASE pick = None
    <3>1. Queued(jobs') = Queued(js) /\ Running(jobs') = Running(js)
      BY <1>2, <2>1, NoneIsNoRow DEF Queued, Running
    <3>2. Queued(js) = {} \/ Running(js) # {}
      BY <1>3, <2>1 DEF Ready
    <3>3. QED BY <3>1, <3>2 DEF QueueNeverIdle
  <2>2. CASE pick # None
    <3>1. pick \in Jobs
      BY <2>2 DEF Ready, Queued
    <3>2. pick \in Running(jobs')
      BY <1>2, <3>1 DEF Running
    <3>3. QED BY <3>2 DEF QueueNeverIdle
  <2>3. QED BY <2>1, <2>2
<1>5. NoJobBesideSession'
  <2> SUFFICES ASSUME OpenSessions(ss) # {}, NEW j \in Jobs
               PROVE  jobs'[j].status \notin OpenStatus
    BY <1>1 DEF NoJobBesideSession
  <2>1. \A k \in Jobs : jobs[k].status \notin OpenStatus
    BY <1>3 DEF SerialInv, NoJobBesideSession
  <2>2. QED BY <1>2, <2>1
<1>6. \A s \in Sessions : sessions'[s].status # "none" =>
        /\ sessions[s].status # "none" /\ sessions'[s].job = sessions[s].job
        /\ sessions[s].job \in Jobs
        /\ UserOf(s)' = UserOf(s) /\ FolderOf(s)' = FolderOf(s)
  <2> SUFFICES ASSUME NEW s \in Sessions, ss[s].status # "none"
               PROVE  /\ sessions[s].status # "none" /\ ss[s].job = sessions[s].job
                      /\ sessions[s].job \in Jobs
                      /\ UserOf(s)' = UserOf(s) /\ FolderOf(s)' = FolderOf(s)
    BY <1>1
  <2>1. sessions[s].status # "none" /\ ss[s].job = sessions[s].job
    BY DEF WithoutSessions
  <2>2. sessions[s].job \in Jobs
    BY <2>1, SessionHasJob
  <2>3. QED BY <1>1, <1>2, <2>1, <2>2 DEF UserOf, FolderOf
<1>7. RevocationIsComplete'
  <2> SUFFICES ASSUME NEW u \in Users, NEW f \in Folders, grants'[<<u, f>>] = "none"
               PROVE  JobsOf(u, f)' = {} /\ SessionsOf(u, f)' = {}
    BY DEF RevocationIsComplete
  <2>1. JobsOf(u, f) \subseteq ended /\ SessionsOf(u, f) \subseteq closed
    BY DEF SerialInv, RevocationIsComplete
  <2>2. JobsOf(u, f)' \subseteq JobsOf(u, f) \ ended
    BY <1>2 DEF JobsOf
  <2>3. SessionsOf(u, f)' \subseteq SessionsOf(u, f) \ closed
    <3>1. ASSUME NEW s \in Sessions, sessions'[s].status = "active"
          PROVE  s \notin closed /\ sessions[s].status = "active"
      BY <1>1, <3>1 DEF WithoutSessions
    <3>2. QED BY <1>6, <3>1 DEF SessionsOf
  <2>4. QED BY <2>1, <2>2, <2>3
<1>8. PaidOnce' /\ ProofSpentOnce'
  BY <1>2, <1>6 DEF SerialInv, PaidOnce, ProofSpentOnce
<1>9. \A s \in Requests : Knows(req[s])'
  <2>1. \A s \in Requests : s # r => Knows(req[s])'
    BY <1>0, <1>1, OthersKnow
  <2>2. req'[r].pc \in {"idle", "complete", "handler"}
    BY <1>0, <1>1 DEF TypeOK
  <2>3. Knows(req[r])'
    BY <2>2 DEF Knows, Promoting
  <2>4. QED BY <2>1, <2>3
<1>10. OperationStep
  <2>1. Past(jobs) \subseteq Past(jobs')
    BY <1>2 DEF Without, Past, OpenStatus
  <2>2. PastSessions(sessions) \subseteq PastSessions(sessions')
    BY <1>1 DEF WithoutSessions, PastSessions
  <2>3. CASE pick = None
    <3>1. Running(jobs') = Running(js)
      BY <1>2, <2>3, NoneIsNoRow DEF Running
    <3>2. QED BY <1>1, <1>3, <2>1, <2>2, <3>1 DEF OperationStep
  <2>4. CASE pick # None
    <3>1. pick \in Jobs /\ pick \notin Past(jobs) /\ OpenSessions(ss) = {}
      BY <1>3, <2>4 DEF Ready, Queued, Past
    <3>2. pick \in Running(jobs')
      BY <1>2, <3>1 DEF Running
    <3>3. Running(jobs') = {pick}
      BY <3>2 DEF SafetyInv, TenantExclusive, OneRunning
    <3> HIDE DEF pick
    <3>4. QED BY <1>1, <2>1, <2>2, <3>1, <3>3 DEF OperationStep
  <2>5. QED BY <2>3, <2>4
<1>11. QED BY <1>4, <1>5, <1>7, <1>8, <1>9, <1>10 DEF SerialInv, SerialNext

-----------------------------------------------------------------------------
(* The records that the handlers give their transactions.                   *)

\* The record q of a transaction at step pc that is to end the jobs of the set
\* ended and the sessions of the set closed
Target(q, pc, ended, closed) ==
  /\ q \in Request /\ q.pick = None /\ q.pc = pc
  /\ Ends(q) = ended /\ Closes(q) = closed

\* The transactions of reconcile
LEMMA ReconcileTargets ==
  ASSUME NEW d \in SUBSET Jobs
  PROVE  /\ Target([AtStep("timeoutCommit") EXCEPT !.due = d], "timeoutCommit", d, {})
         /\ [AtStep("timeoutCommit") EXCEPT !.due = d].due = d
         /\ Target(AtStep("promoteCommit"), "promoteCommit", {}, {})
<1> DEFINE q == [AtStep("timeoutCommit") EXCEPT !.due = d]
<1>1. q \in Request /\ AtStep("promoteCommit") \in Request
  BY TargetFields, AtStepFields DEF Steps
<1>2. q.pick = None /\ q.pc = "timeoutCommit" /\ q.due = d
  BY DEF AtStep
<1>3. AtStep("promoteCommit").pick = None /\ AtStep("promoteCommit").pc = "promoteCommit"
  BY DEF AtStep
<1> HIDE DEF q
<1>4. Target(q, "timeoutCommit", d, {})
  BY <1>1, <1>2 DEF Target, Ends, Closes
<1>5. Target(AtStep("promoteCommit"), "promoteCommit", {}, {})
  BY <1>1, <1>3 DEF Target, Ends, Closes
<1>6. QED BY <1>2, <1>4, <1>5 DEF q

\* cancelJob
LEMMA CancelTarget ==
  ASSUME NEW j \in Jobs
  PROVE  Target([AtStep("cancelCommit") EXCEPT !.job = j], "cancelCommit", {j}, {})
<1> DEFINE q == [AtStep("cancelCommit") EXCEPT !.job = j]
<1>1. q \in Request
  BY TargetFields DEF Steps
<1>2. q.pick = None /\ q.pc = "cancelCommit" /\ q.job = j
  BY DEF AtStep
<1> HIDE DEF q
<1>3. Target(q, "cancelCommit", {j}, {})
  BY <1>1, <1>2 DEF Target, Ends, Closes
<1>4. QED BY <1>3 DEF q

\* closeSession and closeSessionAsAdmin
LEMMA CloseTarget ==
  ASSUME NEW s \in Sessions, NEW pc \in {"closeCommit", "adminCloseCommit"}
  PROVE  Target([AtStep(pc) EXCEPT !.session = s], pc, {}, {s})
<1> DEFINE q == [AtStep(pc) EXCEPT !.session = s]
<1>1. q \in Request
  BY TargetFields DEF Steps
<1>2. q.pick = None /\ q.pc = pc /\ q.session = s
  BY DEF AtStep
<1> HIDE DEF q
<1>3. Target(q, pc, {}, {s})
  BY <1>1, <1>2 DEF Target, Ends, Closes
<1>4. QED BY <1>3 DEF q

\* handleUpdateFolderPermission, when it takes a permission away
LEMMA RevokeTarget ==
  ASSUME NEW u \in Users, NEW f \in Folders
  PROVE  Target([AtStep("revokeCommit") EXCEPT !.user = u, !.folder = f], "revokeCommit",
                JobsOf(u, f), SessionsOf(u, f))
<1> DEFINE q == [AtStep("revokeCommit") EXCEPT !.user = u, !.folder = f]
<1>1. q \in Request
  BY TargetFields DEF Steps
<1>2. q.pick = None /\ q.pc = "revokeCommit" /\ q.user = u /\ q.folder = f
  BY DEF AtStep
<1> HIDE DEF q
<1>3. Target(q, "revokeCommit", JobsOf(u, f), SessionsOf(u, f))
  BY <1>1, <1>2 DEF Target, Ends, Closes
<1>4. QED BY <1>3 DEF q

\* handleDeleteFolder
LEMMA DeleteFolderTarget ==
  ASSUME NEW f \in Folders
  PROVE  Target([AtStep("deleteFolderCommit") EXCEPT !.folder = f], "deleteFolderCommit",
                JobsIn(f), SessionsIn(f))
<1> DEFINE q == [AtStep("deleteFolderCommit") EXCEPT !.folder = f]
<1>1. q \in Request
  BY TargetFields DEF Steps
<1>2. q.pick = None /\ q.pc = "deleteFolderCommit" /\ q.folder = f
  BY DEF AtStep
<1> HIDE DEF q
<1>3. Target(q, "deleteFolderCommit", JobsIn(f), SessionsIn(f))
  BY <1>1, <1>2 DEF Target, Ends, Closes
<1>4. QED BY <1>3 DEF q

\* handleDeleteUser
LEMMA DeleteUserTarget ==
  ASSUME NEW u \in Users
  PROVE  Target([AtStep("deleteUserCommit") EXCEPT !.user = u], "deleteUserCommit",
                JobsBy(u), SessionsBy(u))
<1> DEFINE q == [AtStep("deleteUserCommit") EXCEPT !.user = u]
<1>1. q \in Request
  BY TargetFields DEF Steps
<1>2. q.pick = None /\ q.pc = "deleteUserCommit" /\ q.user = u
  BY DEF AtStep
<1> HIDE DEF q
<1>3. Target(q, "deleteUserCommit", JobsBy(u), SessionsBy(u))
  BY <1>1, <1>2 DEF Target, Ends, Closes
<1>4. QED BY <1>3 DEF q

\* A transaction with such a record keeps the invariant when it chooses
LEMMA TargetChoose ==
  ASSUME SerialInv, TypeOK, OneAtATime, OneAtATime', NEW r \in Requests,
         NEW js, NEW ss, NEW record, NEW pc \in Promoting, NEW ended, NEW closed,
         Target(record, pc, ended, closed),
         record.pc = "timeoutCommit" => record.due \subseteq Due(jobs),
         Without(js, ended), WithoutSessions(ss, closed), Choose(r, js, ss, record)
  PROVE  SerialNext
BY ChooseSerial DEF Target

\* What a promoting transaction chose still stands when it commits
LEMMA CommitKnows ==
  ASSUME SerialInv, NEW r \in Requests, req[r].pc \in Promoting
  PROVE  Ready(req[r].pick, Ends(req[r]), Closes(req[r]))
BY DEF SerialInv, Knows

-----------------------------------------------------------------------------
(* One lemma per group of steps.                                            *)

\* The UPDATEs of each transaction end the jobs and sessions it is to end, no other
LEMMA Writes ==
  ASSUME TypeOK
  PROVE  /\ \A set \in SUBSET Due(jobs) : Without(TimedOut(jobs, set), set)
         /\ \A j : jobs[j].status \in OpenStatus => Without(Canceled(jobs, j), {j})
         /\ \A s : sessions[s].status = "active"
                   => WithoutSessions(EndSessions(sessions, {s}, "closed"), {s})
         /\ \A u, f : /\ Without(RevokedJobs(u, f), JobsOf(u, f))
                      /\ WithoutSessions(RevokedSessions(u, f), SessionsOf(u, f))
         /\ \A f : /\ Without(DeletedFolderJobs(f), JobsIn(f))
                   /\ WithoutSessions(DeletedFolderSessions(f), SessionsIn(f))
         /\ \A u : /\ Without(DeletedUserJobs(u), JobsBy(u))
                   /\ WithoutSessions(DeletedUserSessions(u), SessionsBy(u))
<1>1. \A set \in SUBSET Due(jobs) : Without(TimedOut(jobs, set), set)
  BY EndJobsWithout DEF TimedOut, Due
<1>2. \A j : jobs[j].status \in OpenStatus => Without(Canceled(jobs, j), {j})
  BY EndJobsWithout DEF Canceled
<1>3. \A s : sessions[s].status = "active"
             => WithoutSessions(EndSessions(sessions, {s}, "closed"), {s})
  BY EndSessionsWithout
<1>4. \A u, f : Without(RevokedJobs(u, f), JobsOf(u, f))
  BY EndJobsWithout DEF RevokedJobs, JobsOf
<1>5. \A u, f : WithoutSessions(RevokedSessions(u, f), SessionsOf(u, f))
  BY EndSessionsWithout DEF RevokedSessions, SessionsOf
<1>6. \A f : Without(DeletedFolderJobs(f), JobsIn(f))
  BY EndJobsWithout DEF DeletedFolderJobs, JobsIn
<1>7. \A f : WithoutSessions(DeletedFolderSessions(f), SessionsIn(f))
  BY EndSessionsWithout DEF DeletedFolderSessions, SessionsIn
<1>8. \A u : Without(DeletedUserJobs(u), JobsBy(u))
  BY EndJobsWithout DEF DeletedUserJobs, JobsBy
<1>9. \A u : WithoutSessions(DeletedUserSessions(u), SessionsBy(u))
  BY EndSessionsWithout DEF DeletedUserSessions, SessionsBy
<1>10. QED BY <1>1, <1>2, <1>3, <1>4, <1>5, <1>6, <1>7, <1>8, <1>9

\* What the transactions write is a table again
LEMMA WritesTables ==
  ASSUME TypeOK
  PROVE  /\ jobs \in [Jobs -> Job]
         /\ \A set : TimedOut(jobs, set) \in [Jobs -> Job]
         /\ \A j : Canceled(jobs, j) \in [Jobs -> Job]
         /\ \A u, f : RevokedJobs(u, f) \in [Jobs -> Job]
         /\ \A f : DeletedFolderJobs(f) \in [Jobs -> Job]
         /\ \A u : DeletedUserJobs(u) \in [Jobs -> Job]
BY EndJobsTable
   DEF TypeOK, TimedOut, Canceled, RevokedJobs, DeletedFolderJobs, DeletedUserJobs, JobStatus

\* The steps of reconcile that only end or choose
LEMMA ReconcileSerial ==
  ASSUME SerialInv, SafetyInv, SafetyInv', OneAtATime, OneAtATime', NEW r \in Requests,
         Reconcile(r), ~OpenSession(r)
  PROVE  SerialNext
<1>0. TypeOK
  BY DEF SafetyInv
<1>1. CASE ExpireSessions(r)
  <2> DEFINE lapsed == {s \in Sessions : sessions[s].status = "active"
                                         /\ sessions[s].lapsed}
  <2>1. /\ sessions' = EndSessions(sessions, lapsed, "expired")
        /\ jobs' = jobs /\ grants' = grants /\ req[r].pc = "idle"
        /\ req' = [req EXCEPT ![r] = AtStep("timeout")]
    BY <1>1 DEF ExpireSessions, Goto
  <2>2. WithoutSessions(sessions', lapsed)
    BY <1>0, <2>1, EndSessionsWithout
  <2>3. OpenSessions(sessions') = OpenSessions(sessions)
    <3>1. OpenSessions(sessions') = OpenSessions(sessions) \ lapsed
      BY <2>2, SameWithout, WithoutQueries
    <3>2. QED BY <3>1 DEF OpenSessions
  <2>4. \A s \in Sessions : /\ sessions'[s].job = sessions[s].job
                            /\ sessions'[s].status = "none" <=> sessions[s].status = "none"
                            /\ sessions'[s].status = "active" => sessions[s].status = "active"
    BY <2>2 DEF WithoutSessions
  <2>5. /\ QueueNeverIdle' /\ NoJobBesideSession' /\ PaidOnce' /\ ProofSpentOnce'
    BY <2>1, <2>3, <2>4
    DEF SerialInv, QueueNeverIdle, NoJobBesideSession, PaidOnce, ProofSpentOnce
  <2>6. RevocationIsComplete'
    <3>1. ASSUME NEW u \in Users, NEW f \in Folders
          PROVE  JobsOf(u, f)' = JobsOf(u, f) /\ SessionsOf(u, f)' \subseteq SessionsOf(u, f)
      BY <2>1, <2>4 DEF JobsOf, SessionsOf, UserOf, FolderOf
    <3>2. QED BY <2>1, <3>1 DEF SerialInv, RevocationIsComplete
  <2>7. AtStep("timeout").pc = "timeout"
    BY DEF AtStep
  <2>8. \A s \in Requests : s # r => Knows(req[s])'
    BY <1>0, <2>1, <2>7, OthersKnow
  <2>9. req'[r].pc = "timeout"
    BY <1>0, <2>1, <2>7 DEF TypeOK
  <2>10. Knows(req[r])'
    BY <2>9 DEF Knows, Promoting
  <2>11. OperationStep
    BY <2>1, <2>3, <2>4 DEF OperationStep, PastSessions
  <2>12. QED BY <2>5, <2>6, <2>8, <2>10, <2>11 DEF SerialInv, SerialNext
<1>2. CASE TimeoutJobs(r)
  <2> DEFINE q == [AtStep("timeoutCommit") EXCEPT !.due = Due(jobs)]
  <2>1. Due(jobs) \in SUBSET Jobs
    BY DEF Due
  <2>2. Target(q, "timeoutCommit", Due(jobs), {}) /\ q.due = Due(jobs)
    BY <2>1, ReconcileTargets
  <2>3. Without(TimedOut(jobs, Due(jobs)), Due(jobs)) /\ WithoutSessions(sessions, {})
    BY <1>0, Writes, SameWithout
  <2>4. Choose(r, TimedOut(jobs, Due(jobs)), sessions, q)
    BY <1>2 DEF TimeoutJobs
  <2> HIDE DEF q
  <2>5. "timeoutCommit" \in Promoting
    BY DEF Promoting
  <2>6. QED BY <1>0, <2>2, <2>3, <2>4, <2>5, TargetChoose
<1>3. CASE TimeoutCommit(r)
  <2> DEFINE due == req[r].due  js == TimedOut(jobs, due)
  <2>1. req[r].pc = "timeoutCommit" /\ grants' = grants
    BY <1>3 DEF TimeoutCommit
  <2>2. due \subseteq Due(jobs)
    BY <2>1 DEF SerialInv, Knows
  <2>3. due \cap Due(jobs) = due
    BY <2>2
  <2>4. Commit(r, js, sessions, AtStep("complete"))
    BY <1>3, <2>3 DEF TimeoutCommit
  <2>5. Without(js, due) /\ WithoutSessions(sessions, {}) /\ js \in [Jobs -> Job]
    BY <1>0, <2>2, Writes, WritesTables, SameWithout
  <2>6. Ready(req[r].pick, due, {})
    BY <2>1, CommitKnows DEF Promoting, Ends, Closes
  <2>7. AtStep("complete").pc = "complete"
    BY DEF AtStep
  <2> HIDE DEF due, js
  <2>8. QED BY <2>1, <2>4, <2>5, <2>6, <2>7, CommitSerial
<1>4. CASE CompleteRunningJobs(r)
  <2>1. req[r].pc = "complete" /\ Unchanged
    BY <1>4 DEF CompleteRunningJobs
  <2>2. ASSUME NEW j \in Running(jobs), Goto(r, [AtStep("open") EXCEPT !.job = j])
        PROVE  SerialNext
    <3> DEFINE q == [AtStep("open") EXCEPT !.job = j]
    <3>1. q.pc = "open" /\ q.job = j
      BY DEF AtStep
    <3>2. Goto(r, q)
      BY <2>2
    <3> HIDE DEF q
    <3>3. Knows(q)
      BY <3>1 DEF Knows, Promoting
    <3>4. QED BY <1>0, <2>1, <3>2, <3>3, GotoSerial
  <2>3. CASE Goto(r, AtStep("promote"))
    <3>1. Knows(AtStep("promote"))
      BY NothingRead DEF AtStep
    <3>2. QED BY <1>0, <2>1, <2>3, <3>1, GotoSerial
  <2>4. QED BY <1>4, <2>2, <2>3 DEF CompleteRunningJobs
<1>5. CASE SkipOpenSession(r)
  <2>1. Knows(AtStep("promote"))
    BY NothingRead DEF AtStep
  <2>2. req[r].pc = "open" /\ Unchanged /\ Goto(r, AtStep("promote"))
    BY <1>5 DEF SkipOpenSession
  <2>3. QED BY <1>0, <2>1, <2>2, GotoSerial
<1>6. CASE Promote(r)
  <2>1. Target(AtStep("promoteCommit"), "promoteCommit", {}, {})
    BY ReconcileTargets
  <2>2. Choose(r, jobs, sessions, AtStep("promoteCommit"))
    BY <1>6 DEF Promote
  <2>3. "promoteCommit" \in Promoting /\ AtStep("promoteCommit").pc # "timeoutCommit"
    BY DEF Promoting, AtStep
  <2>4. QED BY <1>0, <2>1, <2>2, <2>3, SameWithout, TargetChoose
<1>7. CASE PromoteCommit(r)
  <2>1. /\ req[r].pc = "promoteCommit" /\ grants' = grants
        /\ Commit(r, jobs, sessions, AtStep("handler"))
    BY <1>7 DEF PromoteCommit
  <2>2. Ready(req[r].pick, {}, {})
    BY <2>1, CommitKnows DEF Promoting, Ends, Closes
  <2>3. AtStep("handler").pc = "handler" /\ jobs \in [Jobs -> Job]
    BY <1>0, WritesTables DEF AtStep
  <2>4. QED BY <2>1, <2>2, <2>3, SameWithout, CommitSerial
<1>8. QED BY <1>1, <1>2, <1>3, <1>4, <1>5, <1>6, <1>7 DEF Reconcile

\* createJob, cancelJob, closeSession and closeSessionAsAdmin, but for the INSERT
LEMMA ClientOperationSerial ==
  ASSUME SerialInv, SafetyInv, SafetyInv', OneAtATime, OneAtATime', NEW r \in Requests,
         ClientOperation(r), ~CreateInsert(r)
  PROVE  SerialNext
<1>0. TypeOK
  BY DEF SafetyInv
<1>a. Idle.pc = "idle" /\ Knows(Idle)
  BY NothingRead DEF Idle, AtStep
<1>1. CASE Return(r)
  <2>1. req[r].pc = "handler" /\ Goto(r, Idle) /\ Unchanged
    BY <1>1 DEF Return
  <2>2. QED BY <1>0, <1>a, <2>1, GotoSerial
<1>2. ASSUME NEW u \in Users, NEW f \in Folders, CreateCheck(r, u, f)
      PROVE  SerialNext
  <2> DEFINE q == [AtStep("createTx") EXCEPT !.user = u, !.folder = f]
  <2>1. q.pc = "createTx" /\ q.user = u /\ q.folder = f
    BY DEF AtStep
  <2>2. /\ req[r].pc = "handler" /\ Goto(r, q) /\ Unchanged
        /\ grants[<<u, f>>] = "granted"
    BY <1>2 DEF CreateCheck, CanUnlock
  <2> HIDE DEF q
  <2>3. Knows(q)
    BY <2>1, <2>2 DEF Knows, Promoting
  <2>4. QED BY <1>0, <2>2, <2>3, GotoSerial
<1>3. CASE CreateTx(r)
  <2>1. req[r].pc = "createTx" /\ Unchanged
    BY <1>3 DEF CreateTx
  <2>2. CASE Goto(r, Idle)
    BY <1>0, <1>a, <2>1, <2>2, GotoSerial
  <2>3. ASSUME OpenSessions(sessions) = {},
               Goto(r, [req[r] EXCEPT !.pc = "createInsert",
                                      !.start = CanStart(jobs, sessions)])
        PROVE  SerialNext
    <3> DEFINE q == [req[r] EXCEPT !.pc = "createInsert",
                                   !.start = CanStart(jobs, sessions)]
    <3>1. req[r] \in Request
      BY <1>0 DEF TypeOK
    <3>2. /\ q.pc = "createInsert" /\ q.user = req[r].user /\ q.folder = req[r].folder
          /\ q.start = CanStart(jobs, sessions)
      BY <3>1 DEF Request
    <3>3. Goto(r, q)
      BY <2>3
    <3>4. /\ req[r].user \in Users /\ req[r].folder \in Folders
          /\ grants[<<req[r].user, req[r].folder>>] # "none"
      BY <2>1 DEF SerialInv, Knows
    <3> HIDE DEF q
    <3>5. Knows(q)
      BY <2>3, <3>2, <3>4 DEF Knows, Promoting, CanStart
    <3>6. QED BY <1>0, <2>1, <3>3, <3>5, GotoSerial
  <2>4. QED BY <1>3, <2>2, <2>3 DEF CreateTx
<1>4. ASSUME NEW j \in Jobs, Cancel(r, j) PROVE SerialNext
  <2> DEFINE q == [AtStep("cancelCommit") EXCEPT !.job = j]
  <2>1. Target(q, "cancelCommit", {j}, {})
    BY CancelTarget
  <2>2. Choose(r, Canceled(jobs, j), sessions, q) /\ jobs[j].status \in OpenStatus
    BY <1>4 DEF Cancel
  <2>3. Without(Canceled(jobs, j), {j})
    BY <1>0, <2>2, Writes
  <2> HIDE DEF q
  <2>4. "cancelCommit" \in Promoting /\ q.pc # "timeoutCommit"
    BY <2>1 DEF Promoting, Target
  <2>5. QED BY <1>0, <2>1, <2>2, <2>3, <2>4, SameWithout, TargetChoose
<1>5. CASE CancelCommit(r)
  <2> DEFINE j == req[r].job  js == Canceled(jobs, j)
  <2>1. /\ req[r].pc = "cancelCommit" /\ grants' = grants /\ jobs[j].status \in OpenStatus
        /\ Commit(r, js, sessions, Idle)
    BY <1>5 DEF CancelCommit
  <2>2. Without(js, {j}) /\ js \in [Jobs -> Job]
    BY <1>0, <2>1, Writes, WritesTables
  <2>3. Ready(req[r].pick, {j}, {})
    BY <2>1, CommitKnows DEF Promoting, Ends, Closes
  <2> HIDE DEF j, js
  <2>4. QED BY <1>a, <2>1, <2>2, <2>3, SameWithout, CommitSerial
<1>6. ASSUME NEW s \in Sessions, NEW pc \in {"closeCommit", "adminCloseCommit"},
             sessions[s].status = "active",
             Choose(r, jobs, EndSessions(sessions, {s}, "closed"),
                    [AtStep(pc) EXCEPT !.session = s])
      PROVE  SerialNext
  <2> DEFINE q == [AtStep(pc) EXCEPT !.session = s]
             ss == EndSessions(sessions, {s}, "closed")
  <2>1. Target(q, pc, {}, {s})
    BY CloseTarget
  <2>2. WithoutSessions(ss, {s})
    BY <1>0, <1>6, Writes
  <2>3. Choose(r, jobs, ss, q)
    BY <1>6
  <2> HIDE DEF q, ss
  <2>4. pc \in Promoting /\ q.pc # "timeoutCommit"
    BY <2>1 DEF Promoting, Target
  <2>5. QED BY <1>0, <2>1, <2>2, <2>3, <2>4, SameWithout, TargetChoose
<1>7. ASSUME NEW s \in Sessions, Close(r, s) \/ CloseAsAdmin(r, s) PROVE SerialNext
  BY <1>6, <1>7 DEF Close, CloseAsAdmin, OpenSessions
<1>8. CASE CloseCommit(r) \/ CloseAsAdminCommit(r)
  <2> DEFINE s == req[r].session  ss == EndSessions(sessions, {s}, "closed")
  <2>1. /\ req[r].pc \in {"closeCommit", "adminCloseCommit"} /\ grants' = grants
        /\ sessions[s].status = "active" /\ Commit(r, jobs, ss, Idle)
    BY <1>8 DEF CloseCommit, CloseAsAdminCommit
  <2>2. WithoutSessions(ss, {s}) /\ jobs \in [Jobs -> Job]
    BY <1>0, <2>1, Writes, WritesTables
  <2>3. Ready(req[r].pick, {}, {s})
    BY <2>1, CommitKnows DEF Promoting, Ends, Closes
  <2> HIDE DEF s, ss
  <2>4. QED BY <1>a, <2>1, <2>2, <2>3, SameWithout, CommitSerial
<1>9. QED BY <1>1, <1>2, <1>3, <1>4, <1>5, <1>7, <1>8 DEF ClientOperation

\* Revoking a permission, deleting a folder and deleting a user
LEMMA AdminOperationSerial ==
  ASSUME SerialInv, SafetyInv, SafetyInv', OneAtATime, OneAtATime', NEW r \in Requests,
         AdminOperation(r)
  PROVE  SerialNext
<1>0. TypeOK
  BY DEF SafetyInv
<1>a. Idle.pc = "idle"
  BY DEF Idle, AtStep
<1>1. ASSUME NEW u \in Users, NEW f \in Folders, Revoke(r, u, f) PROVE SerialNext
  <2> DEFINE q == [AtStep("revokeCommit") EXCEPT !.user = u, !.folder = f]
  <2>1. Target(q, "revokeCommit", JobsOf(u, f), SessionsOf(u, f))
    BY RevokeTarget
  <2>2. /\ Without(RevokedJobs(u, f), JobsOf(u, f))
        /\ WithoutSessions(RevokedSessions(u, f), SessionsOf(u, f))
    BY <1>0, Writes
  <2>3. req[r].pc = "idle"
    BY <1>1 DEF Revoke
  <2>4. \/ Goto(r, q) /\ Unchanged /\ JobsOf(u, f) = {} /\ SessionsOf(u, f) = {}
        \/ Choose(r, RevokedJobs(u, f), RevokedSessions(u, f), q)
    BY <1>1 DEF Revoke
  <2> HIDE DEF q
  <2>5. q.pc = "revokeCommit" /\ q.pick = None /\ Ends(q) = JobsOf(u, f)
    BY <2>1 DEF Target
  <2>6. CASE Goto(r, q) /\ Unchanged /\ JobsOf(u, f) = {}
    <3>1. Ready(q.pick, Ends(q), Closes(q))
      BY <2>5, <2>6 DEF Ready, SerialInv, QueueNeverIdle
    <3>2. Knows(q)
      BY <2>5, <3>1 DEF Knows
    <3>3. QED BY <1>0, <2>5, <2>6, <3>2, GotoSerial
  <2>7. CASE Choose(r, RevokedJobs(u, f), RevokedSessions(u, f), q)
    <3>1. "revokeCommit" \in Promoting /\ q.pc # "timeoutCommit"
      BY <2>5 DEF Promoting
    <3>2. QED BY <1>0, <2>1, <2>2, <2>7, <3>1, TargetChoose
  <2>8. QED BY <2>4, <2>6, <2>7
<1>2. ASSUME NEW f \in Folders, DeleteFolder(r, f) PROVE SerialNext
  <2> DEFINE q == [AtStep("deleteFolderCommit") EXCEPT !.folder = f]
  <2>1. Target(q, "deleteFolderCommit", JobsIn(f), SessionsIn(f))
    BY DeleteFolderTarget
  <2>2. /\ Without(DeletedFolderJobs(f), JobsIn(f))
        /\ WithoutSessions(DeletedFolderSessions(f), SessionsIn(f))
    BY <1>0, Writes
  <2>3. Choose(r, DeletedFolderJobs(f), DeletedFolderSessions(f), q)
    BY <1>2 DEF DeleteFolder
  <2> HIDE DEF q
  <2>4. "deleteFolderCommit" \in Promoting /\ q.pc # "timeoutCommit"
    BY <2>1 DEF Promoting, Target
  <2>5. QED BY <1>0, <2>1, <2>2, <2>3, <2>4, TargetChoose
<1>3. ASSUME NEW u \in Users, DeleteUser(r, u) PROVE SerialNext
  <2> DEFINE q == [AtStep("deleteUserCommit") EXCEPT !.user = u]
  <2>1. Target(q, "deleteUserCommit", JobsBy(u), SessionsBy(u))
    BY DeleteUserTarget
  <2>2. /\ Without(DeletedUserJobs(u), JobsBy(u))
        /\ WithoutSessions(DeletedUserSessions(u), SessionsBy(u))
    BY <1>0, Writes
  <2>3. Choose(r, DeletedUserJobs(u), DeletedUserSessions(u), q)
    BY <1>3 DEF DeleteUser
  <2> HIDE DEF q
  <2>4. "deleteUserCommit" \in Promoting /\ q.pc # "timeoutCommit"
    BY <2>1 DEF Promoting, Target
  <2>5. QED BY <1>0, <2>1, <2>2, <2>3, <2>4, TargetChoose
<1>4. CASE RevokeCommit(r)
  <2> DEFINE u == req[r].user  f == req[r].folder
             js == RevokedJobs(u, f)  ss == RevokedSessions(u, f)
  <2>1. /\ req[r].pc = "revokeCommit" /\ Commit(r, js, ss, Idle)
        /\ grants' = [grants EXCEPT ![<<u, f>>] = "none"]
    BY <1>4 DEF RevokeCommit
  <2>2. /\ Without(js, JobsOf(u, f)) /\ WithoutSessions(ss, SessionsOf(u, f))
        /\ js \in [Jobs -> Job]
    BY <1>0, Writes, WritesTables
  <2>3. Ready(req[r].pick, JobsOf(u, f), SessionsOf(u, f))
    BY <2>1, CommitKnows DEF Promoting, Ends, Closes
  <2>4. \A v \in Users, g \in Folders :
          grants'[<<v, g>>] = "none" => grants[<<v, g>>] = "none" \/ (v = u /\ g = f)
    BY <1>0, <2>1 DEF TypeOK
  <2>5. \A v \in Users, g \in Folders :
          grants'[<<v, g>>] = "none" =>
            \/ grants[<<v, g>>] = "none"
            \/ JobsOf(v, g) \subseteq JobsOf(u, f) /\ SessionsOf(v, g) \subseteq SessionsOf(u, f)
    BY <2>4
  <2> HIDE DEF u, f, js, ss
  <2>6. QED BY <1>a, <2>1, <2>2, <2>3, <2>5, CommitSerial
<1>5. CASE DeleteFolderCommit(r)
  <2> DEFINE f == req[r].folder
             js == DeletedFolderJobs(f)  ss == DeletedFolderSessions(f)
  <2>1. /\ req[r].pc = "deleteFolderCommit" /\ Commit(r, js, ss, Idle)
        /\ grants' = [uf \in Users \X Folders |-> IF uf[2] = f THEN "none" ELSE grants[uf]]
    BY <1>5 DEF DeleteFolderCommit
  <2>2. /\ Without(js, JobsIn(f)) /\ WithoutSessions(ss, SessionsIn(f))
        /\ js \in [Jobs -> Job]
    BY <1>0, Writes, WritesTables
  <2>3. Ready(req[r].pick, JobsIn(f), SessionsIn(f))
    BY <2>1, CommitKnows DEF Promoting, Ends, Closes
  <2>4. \A v \in Users, g \in Folders :
          grants'[<<v, g>>] = "none" => grants[<<v, g>>] = "none" \/ g = f
    BY <2>1
  <2>5. \A v : JobsOf(v, f) \subseteq JobsIn(f) /\ SessionsOf(v, f) \subseteq SessionsIn(f)
    BY DEF JobsOf, JobsIn, SessionsOf, SessionsIn
  <2>6. \A v \in Users, g \in Folders :
          grants'[<<v, g>>] = "none" =>
            \/ grants[<<v, g>>] = "none"
            \/ JobsOf(v, g) \subseteq JobsIn(f) /\ SessionsOf(v, g) \subseteq SessionsIn(f)
    BY <2>4, <2>5
  <2> HIDE DEF f, js, ss
  <2>7. QED BY <1>a, <2>1, <2>2, <2>3, <2>6, CommitSerial
<1>6. CASE DeleteUserCommit(r)
  <2> DEFINE u == req[r].user
             js == DeletedUserJobs(u)  ss == DeletedUserSessions(u)
  <2>1. /\ req[r].pc = "deleteUserCommit" /\ Commit(r, js, ss, Idle)
        /\ grants' = [uf \in Users \X Folders |-> IF uf[1] = u THEN "none" ELSE grants[uf]]
    BY <1>6 DEF DeleteUserCommit
  <2>2. /\ Without(js, JobsBy(u)) /\ WithoutSessions(ss, SessionsBy(u))
        /\ js \in [Jobs -> Job]
    BY <1>0, Writes, WritesTables
  <2>3. Ready(req[r].pick, JobsBy(u), SessionsBy(u))
    BY <2>1, CommitKnows DEF Promoting, Ends, Closes
  <2>4. \A v \in Users, g \in Folders :
          grants'[<<v, g>>] = "none" => grants[<<v, g>>] = "none" \/ v = u
    BY <2>1
  <2>5. \A g : JobsOf(u, g) \subseteq JobsBy(u) /\ SessionsOf(u, g) \subseteq SessionsBy(u)
    BY DEF JobsOf, JobsBy, SessionsOf, SessionsBy, OpenStatus
  <2>6. \A v \in Users, g \in Folders :
          grants'[<<v, g>>] = "none" =>
            \/ grants[<<v, g>>] = "none"
            \/ JobsOf(v, g) \subseteq JobsBy(u) /\ SessionsOf(v, g) \subseteq SessionsBy(u)
    BY <2>4, <2>5
  <2> HIDE DEF u, js, ss
  <2>7. QED BY <1>a, <2>1, <2>2, <2>3, <2>6, CommitSerial
<1>7. QED BY <1>1, <1>2, <1>3, <1>4, <1>5, <1>6 DEF AdminOperation

\* The INSERT of createJob: a job that starts at once starts where nothing runs,
\* one that waits waits for a running job, and its user still has the permission
LEMMA CreateInsertSerial ==
  ASSUME SerialInv, SafetyInv, OneAtATime, OneAtATime', NEW r \in Requests, CreateInsert(r)
  PROVE  SerialNext
<1>0. TypeOK
  BY DEF SafetyInv
<1>1. PICK j \in First({k \in Jobs : jobs[k].status = "none"}) :
        jobs' = [jobs EXCEPT ![j] = NewJob(r)]
  BY DEF CreateInsert
<1>2. j \in Jobs /\ jobs[j].status = "none"
  BY DEF First
<1>3. /\ req[r].pc = "createInsert" /\ req' = [req EXCEPT ![r] = Idle]
      /\ sessions' = sessions /\ grants' = grants
  BY DEF CreateInsert, Goto
<1>4. /\ req[r].user \in Users /\ req[r].folder \in Folders
      /\ grants[<<req[r].user, req[r].folder>>] # "none"
      /\ OpenSessions(sessions) = {} /\ (req[r].start <=> Running(jobs) = {})
  BY <1>3 DEF SerialInv, Knows
<1>5. /\ NewJob(r).status = IF req[r].start THEN "running" ELSE "queued"
      /\ NewJob(r).user = req[r].user /\ NewJob(r).folder = req[r].folder
  BY DEF NewJob
<1>6. jobs'[j] = NewJob(r) /\ \A k \in Jobs : k # j => jobs'[k] = jobs[k]
  BY <1>0, <1>1, <1>2 DEF TypeOK
<1>7. QueueNeverIdle'
  <2>1. CASE req[r].start
    <3>1. j \in Running(jobs')
      BY <1>2, <1>5, <1>6, <2>1 DEF Running
    <3>2. QED BY <3>1 DEF QueueNeverIdle
  <2>2. CASE ~req[r].start
    <3>1. PICK k \in Jobs : jobs[k].status = "running"
      BY <1>4, <2>2 DEF Running
    <3>2. k # j
      BY <1>2, <3>1
    <3>3. k \in Running(jobs')
      BY <1>6, <3>1, <3>2 DEF Running
    <3>4. QED BY <3>3 DEF QueueNeverIdle
  <2>3. QED BY <2>1, <2>2
<1>8. NoJobBesideSession'
  BY <1>3, <1>4 DEF NoJobBesideSession
<1>9. \A s \in Sessions : sessions[s].status # "none" =>
        /\ sessions[s].job \in Jobs /\ sessions[s].job # j
        /\ jobs'[sessions[s].job] = jobs[sessions[s].job]
  <2> SUFFICES ASSUME NEW s \in Sessions, sessions[s].status # "none"
               PROVE  /\ sessions[s].job \in Jobs /\ sessions[s].job # j
                      /\ jobs'[sessions[s].job] = jobs[sessions[s].job]
    OBVIOUS
  <2>1. sessions[s].job \in Jobs /\ sessions[s].job \in earned
    BY SessionHasJob
  <2>2. sessions[s].job # j
    BY <1>2, <2>1 DEF SafetyInv, EarnedAreRows
  <2>3. QED BY <1>6, <2>1, <2>2
<1>10. RevocationIsComplete'
  <2> SUFFICES ASSUME NEW u \in Users, NEW f \in Folders, grants[<<u, f>>] = "none"
               PROVE  JobsOf(u, f)' = {} /\ SessionsOf(u, f)' = {}
    BY <1>3 DEF RevocationIsComplete
  <2>1. JobsOf(u, f) = {} /\ SessionsOf(u, f) = {}
    BY DEF SerialInv, RevocationIsComplete
  <2>2. ~(req[r].user = u /\ req[r].folder = f)
    BY <1>4
  <2>3. JobsOf(u, f)' \subseteq JobsOf(u, f)
    BY <1>5, <1>6, <2>2 DEF JobsOf
  <2>4. SessionsOf(u, f)' \subseteq SessionsOf(u, f)
    BY <1>3, <1>9 DEF SessionsOf, UserOf, FolderOf
  <2>5. QED BY <2>1, <2>3, <2>4
<1>11. PaidOnce' /\ ProofSpentOnce'
  BY <1>3, <1>9 DEF SerialInv, PaidOnce, ProofSpentOnce
<1>12. Idle.pc = "idle"
  BY DEF Idle, AtStep
<1>13. \A s \in Requests : s # r => Knows(req[s])'
  BY <1>0, <1>3, OthersKnow
<1>14. Knows(req[r])'
  <2>1. req'[r].pc = "idle"
    BY <1>0, <1>3, <1>12 DEF TypeOK
  <2>2. QED BY <2>1 DEF Knows, Promoting
<1>15. OperationStep
  <2>1. Past(jobs) \subseteq Past(jobs') /\ j \notin Past(jobs)
    BY <1>2, <1>6 DEF Past
  <2>2. CASE req[r].start
    <3>1. Running(jobs') = {j}
      BY <1>2, <1>4, <1>5, <1>6, <2>2 DEF Running
    <3>2. QED BY <1>2, <1>3, <1>4, <2>1, <3>1 DEF OperationStep
  <2>3. CASE ~req[r].start
    <3>1. Running(jobs') \subseteq Running(jobs)
      BY <1>5, <1>6, <2>3 DEF Running
    <3>2. QED BY <1>3, <2>1, <3>1 DEF OperationStep
  <2>4. QED BY <2>2, <2>3
<1>16. QED BY <1>7, <1>8, <1>10, <1>11, <1>13, <1>14, <1>15 DEF SerialInv, SerialNext

\* What openSessionForCompletedJob writes: the job it completes is still the
\* running one, so it succeeds, and no open job stays beside the session
LEMMA OpenSessionRows ==
  ASSUME SerialInv, GateInv, NEW r \in Requests, OpenSession(r)
  PROVE  \E j \in Jobs, s \in Sessions :
           /\ req[r].job = j /\ Running(jobs) = {j}
           /\ sessions[s].status = "none"
           /\ sessions' = [sessions EXCEPT ![s] =
                             [status |-> "active", job |-> j, lapsed |-> FALSE]]
           /\ jobs'[j].status = "succeeded"
           /\ \A k \in Jobs :
                /\ jobs'[k].user = jobs[k].user /\ jobs'[k].folder = jobs[k].folder
                /\ jobs'[k].status \notin OpenStatus
                /\ jobs[k].status \notin OpenStatus => jobs'[k].status = jobs[k].status
<1>0. TypeOK /\ TenantExclusive
  BY DEF GateInv, SafetyInv
<1>1. PICK j \in Running(jobs) : req[r].job = j
  BY DEF OpenSession, SerialInv, Knows
<1>2. Running(jobs) = {j} /\ j \in Jobs
  BY <1>0, <1>1 DEF TenantExclusive, OneRunning, Running
<1>3. PICK s \in Sessions :
        /\ sessions[s].status = "none"
        /\ sessions' = [sessions EXCEPT ![s] =
             [status |-> "active", job |-> req[r].job, lapsed |-> FALSE]]
  BY OpenSessionStep
<1>4. jobs' = EndJobs(EndJobs(jobs, Queued(jobs) \ {j}, "canceled"), {j}, "succeeded")
  BY <1>1, <1>2 DEF OpenSession, Opened
<1>5. \A k \in Jobs :
        /\ jobs'[k].user = jobs[k].user /\ jobs'[k].folder = jobs[k].folder
        /\ jobs'[k].status = IF k = j THEN "succeeded"
                             ELSE IF k \in Queued(jobs) THEN "canceled"
                             ELSE jobs[k].status
  <2> DEFINE mid == EndJobs(jobs, Queued(jobs) \ {j}, "canceled")
  <2>1. jobs \in [Jobs -> Job] /\ mid \in [Jobs -> Job]
    BY <1>0, EndJobsTable DEF TypeOK, JobStatus
  <2>2. \A k \in Jobs : /\ mid[k].user = jobs[k].user /\ mid[k].folder = jobs[k].folder
                        /\ mid[k].status = IF k \in Queued(jobs) \ {j} THEN "canceled"
                                           ELSE jobs[k].status
    BY <2>1 DEF EndJobs, Job
  <2> HIDE DEF mid
  <2>3. jobs' = EndJobs(mid, {j}, "succeeded")
    BY <1>4 DEF mid
  <2>4. \A k \in Jobs : /\ jobs'[k].user = mid[k].user /\ jobs'[k].folder = mid[k].folder
                        /\ jobs'[k].status = IF k = j THEN "succeeded" ELSE mid[k].status
    BY <2>1, <2>3 DEF EndJobs, Job
  <2>5. QED BY <2>2, <2>4
<1>6. \A k \in Jobs : jobs[k].status \in OpenStatus => k = j \/ k \in Queued(jobs)
  BY <1>2 DEF OpenStatus, Running, Queued
<1>7. \A k \in Jobs :
        /\ jobs'[k].status \notin OpenStatus
        /\ jobs[k].status \notin OpenStatus => jobs'[k].status = jobs[k].status
  BY <1>2, <1>5, <1>6 DEF OpenStatus, Running, Queued
<1>8. QED BY <1>1, <1>2, <1>3, <1>5, <1>7

\* The step that opens a session keeps the invariant
LEMMA OpenSessionSerial ==
  ASSUME SerialInv, GateInv, OneAtATime, OneAtATime', NEW r \in Requests, OpenSession(r)
  PROVE  SerialNext
<1>0. TypeOK /\ SafetyInv
  BY DEF GateInv, SafetyInv
<1>1. PICK j \in Jobs, s \in Sessions :
        /\ req[r].job = j /\ Running(jobs) = {j}
        /\ sessions[s].status = "none"
        /\ sessions' = [sessions EXCEPT ![s] =
                          [status |-> "active", job |-> j, lapsed |-> FALSE]]
        /\ jobs'[j].status = "succeeded"
        /\ \A k \in Jobs :
             /\ jobs'[k].user = jobs[k].user /\ jobs'[k].folder = jobs[k].folder
             /\ jobs'[k].status \notin OpenStatus
             /\ jobs[k].status \notin OpenStatus => jobs'[k].status = jobs[k].status
  BY OpenSessionRows
<1>2. /\ req[r].pc = "open" /\ req' = [req EXCEPT ![r] = AtStep("promote")]
      /\ grants' = grants
  BY DEF OpenSession, Goto
<1>3. QueueNeverIdle' /\ NoJobBesideSession'
  BY <1>1 DEF QueueNeverIdle, NoJobBesideSession, Queued, OpenStatus
<1>4. /\ sessions'[s].status = "active" /\ sessions'[s].job = j
      /\ \A t \in Sessions : t # s => sessions'[t] = sessions[t]
  BY <1>0, <1>1 DEF TypeOK
<1>5. jobs[j].status = "running"
  BY <1>1 DEF Running
<1>6. \A t \in Sessions : t # s /\ sessions'[t].status # "none" =>
        /\ sessions[t].status # "none" /\ sessions[t].job \in Jobs
        /\ jobs[sessions[t].job].status \in {"succeeded", "deleted"}
        /\ jobs'[sessions[t].job].status \in {"succeeded", "deleted"}
        /\ sessions[t].job # j
  <2> SUFFICES ASSUME NEW t \in Sessions, t # s, sessions[t].status # "none"
               PROVE  /\ sessions[t].job \in Jobs
                      /\ jobs[sessions[t].job].status \in {"succeeded", "deleted"}
                      /\ jobs'[sessions[t].job].status \in {"succeeded", "deleted"}
                      /\ sessions[t].job # j
    BY <1>4
  <2>1. sessions[t].job \in Jobs
    BY <1>0, SessionHasJob
  <2>2. jobs[sessions[t].job].status \in {"succeeded", "deleted"}
    BY DEF SerialInv, PaidOnce
  <2>3. jobs'[sessions[t].job].status \in {"succeeded", "deleted"}
    BY <1>1, <2>1, <2>2 DEF OpenStatus
  <2>4. QED BY <1>5, <2>1, <2>2, <2>3
<1>7. PaidOnce' /\ ProofSpentOnce'
  BY <1>1, <1>4, <1>6 DEF SerialInv, PaidOnce, ProofSpentOnce
<1>8. RevocationIsComplete'
  <2> SUFFICES ASSUME NEW u \in Users, NEW f \in Folders, grants[<<u, f>>] = "none"
               PROVE  JobsOf(u, f)' = {} /\ SessionsOf(u, f)' = {}
    BY <1>2 DEF RevocationIsComplete
  <2>1. JobsOf(u, f) = {} /\ SessionsOf(u, f) = {}
    BY DEF SerialInv, RevocationIsComplete
  <2>2. JobsOf(u, f)' = {}
    BY <1>1 DEF JobsOf
  <2>3. ~(jobs[j].user = u /\ jobs[j].folder = f)
    BY <1>5, <2>1 DEF JobsOf, OpenStatus
  <2>4. ASSUME NEW t \in Sessions, sessions'[t].status = "active",
               UserOf(t)' = u, FolderOf(t)' = f
        PROVE  FALSE
    <3>1. CASE t = s
      BY <1>1, <1>4, <2>3, <2>4, <3>1 DEF UserOf, FolderOf
    <3>2. CASE t # s
      <4>1. sessions'[t] = sessions[t] /\ sessions[t].job \in Jobs
        BY <1>4, <1>6, <2>4, <3>2
      <4>2. UserOf(t) = u /\ FolderOf(t) = f
        BY <1>1, <2>4, <4>1 DEF UserOf, FolderOf
      <4>3. QED BY <2>1, <2>4, <4>1, <4>2 DEF SessionsOf
    <3>3. QED BY <3>1, <3>2
  <2>5. QED BY <2>2, <2>4 DEF SessionsOf
<1>9. AtStep("promote").pc = "promote"
  BY DEF AtStep
<1>10. \A t \in Requests : t # r => Knows(req[t])'
  BY <1>0, <1>2, OthersKnow
<1>11. Knows(req[r])'
  <2>1. req'[r].pc = "promote"
    BY <1>0, <1>2, <1>9 DEF TypeOK
  <2>2. QED BY <2>1 DEF Knows, Promoting
<1>12. OperationStep
  <2>1. Past(jobs) \subseteq Past(jobs')
    BY <1>1 DEF Past, OpenStatus, Running
  <2>2. /\ s \notin PastSessions(sessions)
        /\ PastSessions(sessions) \subseteq PastSessions(sessions')
    BY <1>1, <1>4 DEF PastSessions
  <2>3. Running(jobs') = {}
    BY <1>1 DEF Running, OpenStatus
  <2>4. OpenSessions(sessions') = {s}
    <3>1. ~sessions'[s].lapsed
      BY <1>0, <1>1 DEF TypeOK
    <3>2. OpenSessions(sessions) = {}
      BY DEF OpenSession
    <3>3. QED BY <1>4, <3>1, <3>2 DEF OpenSessions
  <2>5. QED BY <1>1, <2>1, <2>2, <2>3, <2>4 DEF OperationStep
<1>13. QED BY <1>3, <1>7, <1>8, <1>10, <1>11, <1>12 DEF SerialInv, SerialNext

-----------------------------------------------------------------------------
(* Time, permissions and the gateway.                                       *)

\* Nothing but deadlines passing, work being proved and permissions being given
\* or lapsing
OnlyTime ==
  /\ req' = req
  /\ \A j \in Jobs :
       /\ jobs'[j].status = jobs[j].status /\ jobs'[j].user = jobs[j].user
       /\ jobs'[j].folder = jobs[j].folder /\ (jobs[j].overdue => jobs'[j].overdue)
  /\ \A s \in Sessions :
       /\ sessions'[s].status = sessions[s].status /\ sessions'[s].job = sessions[s].job
       /\ sessions[s].lapsed => sessions'[s].lapsed
  /\ \A u \in Users, f \in Folders :
       grants'[<<u, f>>] = "none" => grants[<<u, f>>] = "none"

\* The environment does no more than that
LEMMA EnvironmentIsTime ==
  ASSUME TypeOK, Environment
  PROVE  OnlyTime
<1>1. ASSUME NEW u \in Users, NEW f \in Folders, Grant(u, f) \/ GrantLapses(u, f)
      PROVE  OnlyTime
  <2>1. /\ jobs' = jobs /\ sessions' = sessions /\ req' = req
        /\ \/ grants' = [grants EXCEPT ![<<u, f>>] = "granted"]
           \/ grants' = [grants EXCEPT ![<<u, f>>] = "lapsed"]
    BY <1>1 DEF Grant, GrantLapses
  <2>2. \A v \in Users, g \in Folders :
          grants'[<<v, g>>] = "none" => grants[<<v, g>>] = "none"
    BY <2>1 DEF TypeOK
  <2>3. QED BY <2>1, <2>2 DEF OnlyTime
<1>2. ASSUME NEW j \in Jobs, JobDue(j) \/ WorkProved(j) PROVE OnlyTime
  <2>1. sessions' = sessions /\ req' = req /\ grants' = grants
    BY <1>2 DEF JobDue, WorkProved
  <2>2. \A k \in Jobs :
          /\ jobs'[k].status = jobs[k].status /\ jobs'[k].user = jobs[k].user
          /\ jobs'[k].folder = jobs[k].folder /\ (jobs[k].overdue => jobs'[k].overdue)
    BY <1>2 DEF JobDue, WorkProved, TypeOK, Job
  <2>3. QED BY <2>1, <2>2 DEF OnlyTime
<1>3. ASSUME NEW s \in Sessions, SessionLapses(s) PROVE OnlyTime
  <2>1. jobs' = jobs /\ req' = req /\ grants' = grants
    BY <1>3 DEF SessionLapses
  <2>2. \A t \in Sessions :
          /\ sessions'[t].status = sessions[t].status /\ sessions'[t].job = sessions[t].job
          /\ sessions[t].lapsed => sessions'[t].lapsed
    BY <1>3 DEF SessionLapses, TypeOK, Session
  <2>3. QED BY <2>1, <2>2 DEF OnlyTime
<1>4. QED BY <1>1, <1>2, <1>3 DEF Environment

\* No request step is time passing, so nothing it read changes
LEMMA TimeSerial ==
  ASSUME SerialInv, SafetyInv, OnlyTime
  PROVE  SerialNext
<1>1. \A s \in Sessions : sessions[s].status # "none" =>
        /\ sessions[s].job \in Jobs
        /\ UserOf(s)' = UserOf(s) /\ FolderOf(s)' = FolderOf(s)
        /\ jobs'[sessions'[s].job].status = jobs[sessions[s].job].status
  BY SessionHasJob DEF OnlyTime, UserOf, FolderOf
<1>2. /\ Queued(jobs') = Queued(jobs) /\ Running(jobs') = Running(jobs)
      /\ Due(jobs) \subseteq Due(jobs')
      /\ OpenSessions(sessions') \subseteq OpenSessions(sessions)
  BY DEF OnlyTime, Queued, Running, Due, OpenSessions
<1>3. /\ \A u, f : JobsOf(u, f)' = JobsOf(u, f)
      /\ \A f : JobsIn(f)' = JobsIn(f)
      /\ \A u : JobsBy(u)' = JobsBy(u)
  BY DEF OnlyTime, JobsOf, JobsIn, JobsBy
<1>4. /\ \A u, f : SessionsOf(u, f)' = SessionsOf(u, f)
      /\ \A f : SessionsIn(f)' = SessionsIn(f)
      /\ \A u : SessionsBy(u)' = SessionsBy(u)
  <2>1. \A s \in Sessions :
          /\ sessions'[s].status = sessions[s].status
          /\ sessions[s].status \in {"active"} => sessions[s].status # "none"
    BY DEF OnlyTime
  <2>2. \A u, f : SessionsOf(u, f)' = SessionsOf(u, f)
    BY <1>1, <2>1 DEF SessionsOf
  <2>3. \A f : SessionsIn(f)' = SessionsIn(f)
    BY <1>1, <2>1 DEF SessionsIn
  <2>4. \A u : SessionsBy(u)' = SessionsBy(u)
    BY <1>1, <2>1 DEF SessionsBy
  <2>5. QED BY <2>2, <2>3, <2>4
<1>5. ASSUME NEW r \in Requests PROVE Knows(req[r])'
  <2>1. PICK q : q = req[r]
    OBVIOUS
  <2>2. Knows(q) /\ req'[r] = q
    BY <2>1 DEF SerialInv, OnlyTime
  <2>3. Ends(q)' = Ends(q) /\ Closes(q)' = Closes(q)
    BY <1>3, <1>4 DEF Ends, Closes
  <2>4. Ready(q.pick, Ends(q), Closes(q)) => Ready(q.pick, Ends(q), Closes(q))'
    BY <1>2, <2>3 DEF Ready
  <2>5. Knows(q)'
    BY <1>2, <2>2, <2>4 DEF Knows, OnlyTime
  <2>6. QED BY <2>2, <2>5 DEF Knows, Ready, Ends, Closes
<1>6. QueueNeverIdle' /\ NoJobBesideSession'
  BY <1>2 DEF SerialInv, QueueNeverIdle, NoJobBesideSession, OnlyTime
<1>7. RevocationIsComplete'
  BY <1>3, <1>4 DEF SerialInv, RevocationIsComplete, OnlyTime
<1>8. PaidOnce' /\ ProofSpentOnce'
  BY <1>1 DEF SerialInv, PaidOnce, ProofSpentOnce, OnlyTime
<1>9. OperationStep
  BY <1>2 DEF OnlyTime, OperationStep, Past, PastSessions
<1>10. QED BY <1>5, <1>6, <1>7, <1>8, <1>9 DEF SerialInv, SerialNext

-----------------------------------------------------------------------------
\* The invariant of an empty database
LEMMA SerialInit == Init => SerialInv
<1> SUFFICES ASSUME Init PROVE SerialInv
  OBVIOUS
<1>1. \A j \in Jobs : jobs[j].status = "none"
  BY DEF Init, NoJob
<1>2. \A s \in Sessions : sessions[s].status = "none"
  BY DEF Init, NoSession
<1>3. \A r \in Requests : Knows(req[r])
  <2>1. Knows(Idle)
    BY NothingRead DEF Idle, AtStep
  <2>2. QED BY <2>1 DEF Init
<1>4. QueueNeverIdle /\ NoJobBesideSession /\ RevocationIsComplete
  BY <1>1, <1>2 DEF QueueNeverIdle, NoJobBesideSession, RevocationIsComplete, Queued,
                    OpenStatus, JobsOf, SessionsOf
<1>5. PaidOnce /\ ProofSpentOnce
  BY <1>2 DEF PaidOnce, ProofSpentOnce
<1>6. QED BY <1>3, <1>4, <1>5 DEF SerialInv

\* Every step keeps the invariant as long as requests do not overlap
LEMMA SerialStep ==
  ASSUME SerialInv, GateInv, GateInv', OneAtATime, OneAtATime', [Next]_vars
  PROVE  SerialNext
<1>0. TypeOK /\ SafetyInv /\ SafetyInv'
  BY DEF GateInv, SafetyInv
<1>1. ASSUME NEW r \in Requests, Reconcile(r) PROVE SerialNext
  BY <1>0, <1>1, ReconcileSerial, OpenSessionSerial
<1>2. ASSUME NEW r \in Requests, ClientOperation(r) PROVE SerialNext
  BY <1>0, <1>2, ClientOperationSerial, CreateInsertSerial
<1>3. ASSUME NEW r \in Requests, AdminOperation(r) PROVE SerialNext
  BY <1>0, <1>3, AdminOperationSerial
<1>4. ASSUME NEW r \in Requests, Abort(r) PROVE SerialNext
  <2>1. req[r].pc # "idle" /\ Goto(r, Idle) /\ Unchanged /\ Knows(Idle)
    BY <1>4, NothingRead DEF Abort, Idle, AtStep
  <2>2. QED BY <1>0, <2>1, GotoSerial
<1>5. CASE Environment
  BY <1>0, <1>5, EnvironmentIsTime, TimeSerial
<1>6. CASE UNCHANGED vars
  <2>1. OnlyTime
    BY <1>6 DEF vars, OnlyTime
  <2>2. QED BY <1>0, <2>1, TimeSerial
<1>7. QED BY <1>1, <1>2, <1>3, <1>4, <1>5, <1>6 DEF Next

\* The invariant holds as long as requests do not overlap
LEMMA SerialInvariant == SerialSpec => [](SerialInv /\ GateInv)
<1>1. SerialInv /\ GateInv /\ GateInv' /\ OneAtATime /\ OneAtATime' /\ [Next]_vars
        => SerialInv'
  BY SerialStep DEF SerialNext
<1>2. QED BY <1>1, SerialInit, GateInvariant, PTL DEF SerialSpec, Spec

\* A queued job never waits with nothing running: whatever ends the running job or
\* the session promotes, and no failure comes between
THEOREM QueueNeverIdleCorrect == SerialSpec => []QueueNeverIdle
BY SerialInvariant, PTL DEF SerialInv

\* An unexpired session keeps the queue empty
THEOREM NoJobBesideSessionCorrect == SerialSpec => []NoJobBesideSession
BY SerialInvariant, PTL DEF SerialInv

\* Who has no permission has no active session and no open job
THEOREM RevocationIsCompleteCorrect == SerialSpec => []RevocationIsComplete
BY SerialInvariant, PTL DEF SerialInv

\* A revoked permission leaves no active session: only a reconcile that is under way
\* when the permission goes can open one after it (openSessionForCompletedJob)
THEOREM RevocationClosesSessions == SerialSpec => []PermissionRevokeClosesSessions
<1>1. RevocationIsComplete => PermissionRevokeClosesSessions
  BY DEF RevocationIsComplete, PermissionRevokeClosesSessions
<1>2. QED BY <1>1, RevocationIsCompleteCorrect, PTL

\* The work of one job opens one session
THEOREM ProofSpentOnceCorrect == SerialSpec => []ProofSpentOnce
BY SerialInvariant, PTL DEF SerialInv

-----------------------------------------------------------------------------
(* The queue implements one operation at a time.                            *)

\* The one element of a set that has one
LEMMA TheOneIs ==
  /\ TheOne({}) = None
  /\ \A x : TheOne({x}) = x
BY DEF TheOne

\* At most one job runs and one session is open, and not both
LEMMA OneGoesOn ==
  ASSUME SerialInv, GateInv
  PROVE  /\ Running(jobs) = {} \/ \E j \in Jobs : Running(jobs) = {j}
         /\ OpenSessions(sessions) = {} \/ \E s \in Sessions : OpenSessions(sessions) = {s}
         /\ Running(jobs) = {} \/ OpenSessions(sessions) = {}
<1>1. TenantExclusive
  BY DEF GateInv, SafetyInv
<1>2. Running(jobs) = {} \/ \E j \in Jobs : Running(jobs) = {j}
  BY <1>1 DEF TenantExclusive, OneRunning, Running
<1>3. OpenSessions(sessions) = {} \/ \E s \in Sessions : OpenSessions(sessions) = {s}
  BY <1>1 DEF TenantExclusive, OpenSessions
<1>4. Running(jobs) = {} \/ OpenSessions(sessions) = {}
  BY DEF SerialInv, NoJobBesideSession, Running, OpenStatus
<1>5. QED BY <1>2, <1>3, <1>4

\* The empty database is an operation that has not begun
LEMMA OperationInit == Init => Operation!Init
<1> SUFFICES ASSUME Init PROVE Operation!Init
  OBVIOUS
<1>1. Running(jobs) = {} /\ Past(jobs) = {}
  BY DEF Init, NoJob, Running, Past
<1>2. OpenSessions(sessions) = {} /\ PastSessions(sessions) = {}
  BY DEF Init, NoSession, OpenSessions, PastSessions
<1>3. QED BY <1>1, <1>2, TheOneIs DEF Operation!Init, Past, PastSessions

\* Every step is a step of the one operation
LEMMA OperationNext ==
  ASSUME SerialInv, GateInv, SerialInv', OperationStep
  PROVE  Operation!Next
<1>1. /\ Running(jobs) = {} \/ \E j \in Jobs : Running(jobs) = {j}
      /\ OpenSessions(sessions) = {} \/ \E s \in Sessions : OpenSessions(sessions) = {s}
      /\ Running(jobs) = {} \/ OpenSessions(sessions) = {}
  BY OneGoesOn
<1>2. /\ {j \in Jobs : jobs[j].status \notin {"none", "queued"}}
           \subseteq {j \in Jobs : jobs'[j].status \notin {"none", "queued"}}
      /\ {s \in Sessions : sessions[s].status # "none"}
           \subseteq {s \in Sessions : sessions'[s].status # "none"}
  BY DEF OperationStep, Past, PastSessions
<1>3. CASE /\ Running(jobs') \subseteq Running(jobs)
           /\ OpenSessions(sessions') \subseteq OpenSessions(sessions)
  <2>1. \/ Running(jobs') = Running(jobs) /\ OpenSessions(sessions') = OpenSessions(sessions)
        \/ Running(jobs') = {} /\ OpenSessions(sessions') = {}
    BY <1>1, <1>3
  <2>2. Operation!Continue \/ Operation!End
    BY <2>1, TheOneIs DEF Operation!Continue, Operation!End
  <2>3. QED BY <1>2, <2>2 DEF Operation!Next
<1>4. ASSUME NEW j \in Jobs, j \notin Past(jobs), Running(jobs') = {j},
             OpenSessions(sessions') = {}
      PROVE  Operation!Next
  <2>1. /\ j \notin {k \in Jobs : jobs[k].status \notin {"none", "queued"}}
        /\ j \in {k \in Jobs : jobs'[k].status \notin {"none", "queued"}}
    BY <1>4 DEF Past, Running
  <2>2. TheOne(Running(jobs')) = j /\ TheOne(OpenSessions(sessions')) = None
    BY <1>4, TheOneIs
  <2>3. Operation!Start(j)
    BY <2>1, <2>2 DEF Operation!Start
  <2>4. QED BY <1>2, <2>3 DEF Operation!Next
<1>5. ASSUME NEW s \in Sessions, s \notin PastSessions(sessions), Running(jobs) # {},
             Running(jobs') = {}, OpenSessions(sessions') = {s}
      PROVE  Operation!Next
  <2>1. /\ s \notin {t \in Sessions : sessions[t].status # "none"}
        /\ s \in {t \in Sessions : sessions'[t].status # "none"}
    BY <1>5 DEF PastSessions, OpenSessions
  <2>2. TheOne(Running(jobs')) = None /\ TheOne(OpenSessions(sessions')) = s
    BY <1>5, TheOneIs
  <2>3. TheOne(Running(jobs)) # None
    BY <1>1, <1>5, TheOneIs, NoneIsNoRow
  <2>4. Operation!Open(s)
    BY <2>1, <2>2, <2>3 DEF Operation!Open
  <2>5. QED BY <1>2, <2>4 DEF Operation!Next
<1>6. QED BY <1>3, <1>4, <1>5 DEF OperationStep

\* As long as requests do not overlap the queue is one operation at a time: a job
\* that runs or a session that is open, which no lapse, failure or promotion
\* splits in two or brings back
THEOREM QueueImplementsOperation == SerialSpec => ImplementsOperation
<1>1. /\ SerialInv /\ GateInv /\ (SerialInv /\ GateInv)'
      /\ OneAtATime /\ OneAtATime' /\ [Next]_vars
      => [Operation!Next]_(Operation!vars)
  BY SerialStep, OperationNext DEF SerialNext
<1>2. QED
  BY <1>1, OperationInit, SerialInvariant, PTL
  DEF SerialSpec, Spec, ImplementsOperation, Operation!Spec

\* A single request slot is a way not to overlap: the setting in which TLC checks
\* these properties
THEOREM OneSlotIsSerial ==
  ASSUME \A r, s \in Requests : r = s
  PROVE  Spec => SerialSpec
<1>1. OneAtATime
  BY DEF OneAtATime
<1>2. QED BY <1>1, PTL DEF SerialSpec
===============================================================================
