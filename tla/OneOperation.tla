----------------------------- MODULE OneOperation -----------------------------
(* What the access queue promises when its requests do not overlap: the      *)
(* tenant has one access operation at a time, a job that runs or a session   *)
(* that is open; only a running job gives way to a session; and no job runs  *)
(* and no session opens a second time.                                       *)
CONSTANTS Jobs, Sessions, None

VARIABLES job,         \* the job that runs, or None
          session,     \* the session that is open, or None
          pastJobs,    \* the jobs that cannot start any more
          pastSessions \* the sessions that cannot open any more

vars == <<job, session, pastJobs, pastSessions>>

Init ==
  /\ job = None /\ session = None
  /\ pastJobs = {} /\ pastSessions = {}

\* A job starts, where nothing goes on or where the operation ends
Start(j) ==
  /\ j \notin pastJobs /\ j \in pastJobs'
  /\ job' = j /\ session' = None

\* The running job gives way to the session it paid for
Open(s) ==
  /\ job # None
  /\ s \notin pastSessions /\ s \in pastSessions'
  /\ job' = None /\ session' = s

\* The operation goes on, or ends and none follows
Continue == UNCHANGED <<job, session>>
End == job' = None /\ session' = None

Next ==
  /\ \/ \E j \in Jobs : Start(j)
     \/ \E s \in Sessions : Open(s)
     \/ Continue \/ End
  /\ pastJobs \subseteq pastJobs' /\ pastSessions \subseteq pastSessions'

Spec == Init /\ [][Next]_vars
===============================================================================
