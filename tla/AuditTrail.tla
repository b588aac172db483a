------------------------------ MODULE AuditTrail ------------------------------
(***************************************************************************)
(* The audit log of one tenant (table audit_events), the cleanup of its    *)
(* file activity and the restore of what a cleanup removed.                *)
(*                                                                         *)
(* A cleanup deletes events and answers with a document that holds them;   *)
(* the server keeps only the document's checksum (log_cleanup_backups).    *)
(* Deleting a user sets the actor of the events in the table to NULL, and  *)
(* a document keeps the actors it was written with.                        *)
(*                                                                         *)
(* Of the events that are not file activity only the log entries about     *)
(* backups are here; a cleanup selects none of them.                       *)
(***************************************************************************)
EXTENDS Naturals, FiniteSets

CONSTANTS Users,         \* rows of users that act or administer
          Admin,         \* the super administrator, whom nobody can delete
          Events,        \* identities of audit_events rows, in order of created_at
          Backups,       \* identities of log_cleanup_backups rows
          Requests,      \* cleanups and restores in progress at the same time
          DeleteLimit,   \* placeholders of one statement (65535)
          DocumentLimit, \* events of a document within the 20 MB a restore reads
          None           \* NULL

ASSUME RowsAreNumbers == Events \subseteq Nat /\ Backups \subseteq Nat
ASSUME NoneIsNoUser == Admin \in Users /\ None \notin Users \cup Backups

VARIABLES events,     \* audit_events, and the rows that documents hold
          backups,    \* log_cleanup_backups
          documents,  \* backups whose document an administrator has received
          users,      \* users rows
          req         \* progress of each cleanup and restore

trailVars == <<events, backups, documents, users, req>>

-----------------------------------------------------------------------------
(* Rows.  A "gone" event was deleted by a cleanup: its fields are those of  *)
(* the document.  "cleaned" and "restored" are the log entries about a      *)
(* backup.                                                                  *)

Event == [place : {"none", "table", "gone"}, actor : Users \cup {None},
          kind : {"file", "cleaned", "restored"}, backup : Backups \cup {None}]
Backup == [status : {"none", "stored", "restored"}, events : SUBSET Events]
Request == [pc : {"idle", "cleanup", "deliver", "restore"},
            user : Users \cup {None}, picked : SUBSET Events,
            backup : Backups \cup {None}]

NoEvent == [place |-> "none", actor |-> None, kind |-> "file", backup |-> None]
NoBackup == [status |-> "none", events |-> {}]
Idle == [pc |-> "idle", user |-> None, picked |-> {}, backup |-> None]

TypeOK ==
  /\ events \in [Events -> Event]
  /\ backups \in [Backups -> Backup]
  /\ documents \subseteq Backups
  /\ users \subseteq Users
  /\ req \in [Requests -> Request]

TrailInit ==
  /\ events = [e \in Events |-> NoEvent]
  /\ backups = [b \in Backups |-> NoBackup]
  /\ documents = {}
  /\ users = Users
  /\ req = [r \in Requests |-> Idle]

-----------------------------------------------------------------------------
InTable(e) == events[e].place = "table"
First(ids) == {i \in ids : \A k \in ids : i <= k}
NewEvents == First({e \in Events : events[e].place = "none"})
NewBackups == First({b \in Backups : backups[b].status = "none"})

\* Nobody is inside the transaction that holds the advisory lock
LockFree(pc) == \A r \in Requests : req[r].pc # pc

\* The rows that SELECT ... FOR UPDATE holds until the cleanup ends
Locked(e) == \E r \in Requests : req[r].pc = "cleanup" /\ e \in req[r].picked

\* Variant of Selected: by time alone
SelectedWithProtected(last) == {e \in Events : InTable(e) /\ e <= last}

\* File activity up to a time; the log entries about backups are none, and are
\* excluded by name besides
Selected(last) ==
  {e \in Events : InTable(e) /\ events[e].kind = "file" /\ e <= last}

\* A row added by user u; the foreign key refuses a user that was deleted
Added(table, e, u, kind, b) ==
  [table EXCEPT ![e] = [place |-> "table", actor |-> u, kind |-> kind, backup |-> b]]

-----------------------------------------------------------------------------
(* Events.                                                                  *)

\* insertAuditEvent of the handlers of the archive and access services
RecordEvent(u, e) ==
  /\ u \in users
  /\ e \in NewEvents
  /\ events' = Added(events, e, u, "file", None)
  /\ UNCHANGED <<backups, documents, users, req>>

\* The deletion of a user row; its foreign keys wait for locked events
DeleteUser(u) ==
  /\ u \in users \ {Admin}
  /\ \A e \in Events : InTable(e) /\ events[e].actor = u => ~Locked(e)
  /\ users' = users \ {u}
  /\ events' = [e \in Events |->
                  IF InTable(e) /\ events[e].actor = u
                  THEN [events[e] EXCEPT !.actor = None] ELSE events[e]]
  /\ UNCHANGED <<backups, documents, req>>

-----------------------------------------------------------------------------
(* Cleanup: one transaction, and then the answer.                           *)

Goto(r, record) == req' = [req EXCEPT ![r] = record]

\* The transaction takes the lock, selects the events and locks them
CleanupSelect(r, u, last) ==
  /\ req[r].pc = "idle"
  /\ u \in users
  /\ LockFree("cleanup")
  /\ Goto(r, [Idle EXCEPT !.pc = "cleanup", !.user = u, !.picked = Selected(last)])
  /\ UNCHANGED <<events, backups, documents, users>>

\* Variant of Removed: by the time range again
RemovedByTime(set) ==
  [e \in Events |-> IF InTable(e) /\ events[e].kind = "file" /\ \E x \in set : e <= x
                    THEN [events[e] EXCEPT !.place = "gone"] ELSE events[e]]

Removed(set) ==
  [e \in Events |-> IF e \in set THEN [events[e] EXCEPT !.place = "gone"]
                                 ELSE events[e]]

\* The backup row, the deletion of the selected rows by id and the log entry
CleanupCommit(r) ==
  /\ req[r].pc = "cleanup"
  /\ req[r].user \in users
  /\ Cardinality(req[r].picked) <= DeleteLimit
  /\ \E b \in NewBackups, e \in NewEvents :
       /\ backups' = [backups EXCEPT ![b] =
                        [status |-> "stored", events |-> req[r].picked]]
       /\ events' = Added(Removed(req[r].picked), e, req[r].user, "cleaned", b)
       /\ Goto(r, [req[r] EXCEPT !.pc = "deliver", !.picked = {}, !.backup = b])
  /\ UNCHANGED <<documents, users>>

\* The administrator receives the document; the server does not learn whether
Deliver(r) ==
  /\ req[r].pc = "deliver"
  /\ documents' = documents \cup {req[r].backup}
  /\ Goto(r, Idle)
  /\ UNCHANGED <<events, backups, users>>

-----------------------------------------------------------------------------
(* Restore.                                                                 *)

\* Variant of RestoreCheck: no lock
RestoreUnlocked(r, u, b, set) ==
  /\ req[r].pc = "idle"
  /\ u \in users /\ b \in documents
  /\ Cardinality(set) <= DocumentLimit
  /\ backups[b].status = "stored" /\ set = backups[b].events
  /\ Goto(r, [pc |-> "restore", user |-> u, picked |-> set, backup |-> b])
  /\ UNCHANGED <<events, backups, documents, users>>

\* The posted document of backup b holds the events in set: it has to fit the
\* size limit, be of a backup that is not restored, and have its checksum
RestoreCheck(r, u, b, set) ==
  /\ req[r].pc = "idle"
  /\ u \in users /\ b \in documents
  /\ Cardinality(set) <= DocumentLimit
  /\ LockFree("restore")
  /\ backups[b].status = "stored"
  /\ set = backups[b].events
  /\ Goto(r, [pc |-> "restore", user |-> u, picked |-> set, backup |-> b])
  /\ UNCHANGED <<events, backups, documents, users>>

\* Variant of Returned: the events come back without their actors
ReturnedAnonymous(set) ==
  [e \in Events |-> IF e \in set /\ ~InTable(e)
                    THEN [events[e] EXCEPT !.place = "table", !.actor = None]
                    ELSE events[e]]

\* INSERT ... ON CONFLICT (id) DO NOTHING
Returned(set) ==
  [e \in Events |-> IF e \in set /\ ~InTable(e)
                    THEN [events[e] EXCEPT !.place = "table"] ELSE events[e]]

\* All events come back or, where the foreign key misses one actor, none
RestoreCommit(r) ==
  /\ req[r].pc = "restore"
  /\ req[r].user \in users
  /\ \A e \in req[r].picked : events[e].actor \in users \cup {None}
  /\ backups' = [backups EXCEPT ![req[r].backup].status = "restored"]
  /\ \E e \in NewEvents :
       events' = Added(Returned(req[r].picked), e, req[r].user, "restored", req[r].backup)
  /\ Goto(r, Idle)
  /\ UNCHANGED <<documents, users>>

\* An error or the end of the process rolls an open transaction back; after the
\* commit of a cleanup its answer is lost
Abort(r) ==
  /\ req[r].pc # "idle"
  /\ Goto(r, Idle)
  /\ UNCHANGED <<events, backups, documents, users>>

-----------------------------------------------------------------------------
TrailNext ==
  \/ \E u \in Users : DeleteUser(u) \/ \E e \in Events : RecordEvent(u, e)
  \/ \E r \in Requests :
       \/ \E u \in Users, last \in Events : CleanupSelect(r, u, last)
       \/ \E u \in Users, b \in Backups, set \in SUBSET Events :
            RestoreCheck(r, u, b, set)
       \/ CleanupCommit(r) \/ Deliver(r) \/ RestoreCommit(r) \/ Abort(r)

TrailSpec == TrailInit /\ [][TrailNext]_trailVars

-----------------------------------------------------------------------------
(* What holds however cleanups, restores, deletions and new events overlap. *)

\* The unrestored backups whose document holds an event
Holding(e) == {b \in Backups : backups[b].status = "stored" /\ e \in backups[b].events}

\* No event is lost by the server and none is doubled: an event that a cleanup
\* deleted is in the document of exactly one backup that can still be restored,
\* and an event in the table is in none.  (Whether the document has reached
\* anybody is another matter: the deletion commits before the answer is sent.)
EveryEventKept ==
  \A e \in Events :
    /\ events[e].place = "gone" => \E b \in Backups : Holding(e) = {b}
    /\ events[e].place # "gone" => Holding(e) = {}

\* Every cleanup and every restore stays on record: its log entry is in the
\* table, and no later cleanup takes it away
BackupsAreOnRecord ==
  \A b \in Backups :
    /\ backups[b].status # "none" =>
         \E e \in Events : InTable(e) /\ events[e].kind = "cleaned" /\ events[e].backup = b
    /\ backups[b].status = "restored" =>
         \E e \in Events : InTable(e) /\ events[e].kind = "restored" /\ events[e].backup = b

\* The log names no deleted user and forgets no other: an event loses its actor
\* only with the deletion of that user, and an event that comes back through a
\* document names an actor who exists
ActorsAreKept ==
  [][\A e \in Events :
       /\ events'[e].place = "table" => events'[e].actor \in users' \cup {None}
       /\ events[e].place # "none" /\ events'[e].actor # events[e].actor =>
            events'[e].actor = None /\ events[e].actor \notin users']_trailVars

\* The log and the backups that hold its removed events
Ledger == INSTANCE EventLedger WITH
  log <- {e \in Events : InTable(e)},
  actor <- [e \in Events |-> events[e].actor],
  about <- [e \in Events |-> <<events[e].kind, events[e].backup>>],
  status <- [b \in Backups |-> backups[b].status],
  held <- [b \in Backups |-> IF backups[b].status = "stored" THEN backups[b].events ELSE {}]

\* Whatever a cleanup read before it deletes, and a restore before it inserts, is still
\* so when it commits: each is one step of the ledger, although new events, deleted users
\* and the other of the two come in between
ImplementsLedger == Ledger!Spec
===============================================================================
