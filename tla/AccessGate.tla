------------------------------ MODULE AccessGate ------------------------------
(* What the access queue promises however its requests overlap: work counts  *)
(* for the one job that runs, and opens the one session that is open; a      *)
(* session is opened once and never comes back.                              *)
CONSTANTS Jobs, Sessions, None

VARIABLES running,   \* the jobs that work counts for
          earned,    \* the jobs whose work was accepted in full
          open,      \* the sessions that are open
          paidBy     \* the job whose work opened a session

vars == <<running, earned, open, paidBy>>

AtMostOne(set) == \A x, y \in set : x = y

Init ==
  /\ running = {} /\ earned = {} /\ open = {}
  /\ paidBy = [s \in Sessions |-> None]

\* The work of the running job suffices
Earn(j) ==
  /\ running = {j}
  /\ earned' = earned \cup {j}
  /\ UNCHANGED <<running, open, paidBy>>

\* Work opens a session, when none is open, under a number never used before.
\* The job need not run any more
Admit(s, j) ==
  /\ j \in earned /\ open = {} /\ paidBy[s] = None
  /\ open' = {s}
  /\ paidBy' = [paidBy EXCEPT ![s] = j]
  /\ running' = running \ {j}
  /\ UNCHANGED earned

\* Jobs and sessions end, and one job may begin to run
Turn ==
  /\ open' \subseteq open
  /\ running' \subseteq Jobs /\ AtMostOne(running')
  /\ UNCHANGED <<earned, paidBy>>

Next ==
  \/ \E j \in Jobs : Earn(j)
  \/ \E s \in Sessions, j \in Jobs : Admit(s, j)
  \/ Turn

Spec == Init /\ [][Next]_vars
===============================================================================
