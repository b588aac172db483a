------------------------------ MODULE EventLedger ------------------------------
(* What the audit log promises, however cleanups and restores overlap with    *)
(* each other, with new events and with the deletion of users, and wherever   *)
(* they stop: each happens in one step or not at all.  A recorded event is in *)
(* the log or in one backup, and it comes back from there once, as it was,    *)
(* with all that the backup holds.  Both leave an entry that stays.           *)
CONSTANTS Users, Admin, Events, Backups, None

VARIABLES users,   \* the users there are
          log,     \* the events in the log
          actor,   \* whom an event names
          about,   \* file activity, or which backup was cleaned up or restored
          status,  \* is a backup not made, stored or restored?
          held     \* the events that a stored backup holds

vars == <<users, log, actor, about, status, held>>

Init ==
  /\ users = Users /\ log = {}
  /\ actor = [e \in Events |-> None] /\ about = [e \in Events |-> <<"file", None>>]
  /\ status = [b \in Backups |-> "none"] /\ held = [b \in Backups |-> {}]

\* Event e is new and comes into the log; its actor exists
Enters(e, u, what) ==
  /\ u \in users /\ e \notin log /\ \A b \in Backups : e \notin held[b]
  /\ e \in log'
  /\ actor' = [actor EXCEPT ![e] = u] /\ about' = [about EXCEPT ![e] = what]

Record(u, e) ==
  /\ Enters(e, u, <<"file", None>>)
  /\ log' = log \cup {e}
  /\ UNCHANGED <<users, status, held>>

\* The log forgets a deleted user, backups do not
Forget(u) ==
  /\ u \in users \ {Admin}
  /\ users' = users \ {u}
  /\ actor' = [e \in Events |-> IF e \in log /\ actor[e] = u THEN None ELSE actor[e]]
  /\ UNCHANGED <<log, about, status, held>>

\* File activity moves from the log into a backup
Clean(u, e, b) ==
  /\ status[b] = "none"
  /\ status' = [status EXCEPT ![b] = "stored"]
  /\ Enters(e, u, <<"cleaned", b>>)
  /\ \E old \in SUBSET log :
       /\ \A x \in old : about[x][1] = "file"
       /\ log' = (log \ old) \cup {e} /\ held' = [held EXCEPT ![b] = old]
  /\ UNCHANGED users

\* All of it comes back, if everyone it names still exists
Restore(u, e, b) ==
  /\ status[b] = "stored"
  /\ status' = [status EXCEPT ![b] = "restored"]
  /\ Enters(e, u, <<"restored", b>>)
  /\ \A x \in held[b] : actor[x] \in users \cup {None}
  /\ log' = log \cup held[b] \cup {e} /\ held' = [held EXCEPT ![b] = {}]
  /\ UNCHANGED users

Next ==
  \E u \in Users :
    \/ Forget(u)
    \/ \E e \in Events : Record(u, e) \/ \E b \in Backups : Clean(u, e, b) \/ Restore(u, e, b)

Spec == Init /\ [][Next]_vars
===============================================================================
