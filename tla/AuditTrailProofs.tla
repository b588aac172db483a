--------------------------- MODULE AuditTrailProofs ---------------------------
(***************************************************************************)
(* Proofs about AuditTrail for every number of users, events, backups and  *)
(* overlapping cleanups and restores, and for every limit.                 *)
(***************************************************************************)
EXTENDS AuditTrail, TLAPS

-----------------------------------------------------------------------------
(* The inductive invariant.                                                 *)

\* A cleanup in its transaction holds rows of file activity that are in the
\* table, and its lock keeps every other cleanup out
CleanupHolds ==
  \A r \in Requests : req[r].pc = "cleanup" =>
    /\ \A e \in req[r].picked : InTable(e) /\ events[e].kind = "file"
    /\ \A q \in Requests : req[q].pc = "cleanup" => q = r

\* A restore in its transaction has the events of an unrestored backup, and its
\* lock keeps every other restore out
RestoreHolds ==
  \A r \in Requests : req[r].pc = "restore" =>
    /\ req[r].backup \in Backups
    /\ backups[req[r].backup].status = "stored"
    /\ req[r].picked = backups[req[r].backup].events
    /\ \A q \in Requests : req[q].pc = "restore" => q = r

\* A cleanup that has committed answers with the document of its backup
AnswerHolds == \A r \in Requests : req[r].pc = "deliver" => req[r].backup \in Backups

\* The foreign key of the actor
ActorsExist == \A e \in Events : InTable(e) => events[e].actor \in users \cup {None}

TrailInv ==
  /\ TypeOK
  /\ EveryEventKept
  /\ BackupsAreOnRecord
  /\ CleanupHolds
  /\ RestoreHolds
  /\ AnswerHolds
  /\ ActorsExist

-----------------------------------------------------------------------------
(* Lemmas.                                                                  *)

\* The next free identity is free
LEMMA NewEventFree == \A e \in NewEvents : e \in Events /\ events[e].place = "none"
BY DEF NewEvents, First

\* The next free backup row is free
LEMMA NewBackupFree == \A b \in NewBackups : b \in Backups /\ backups[b].status = "none"
BY DEF NewBackups, First

\* What a step does to the rows that some action does not touch
SameRow(e) == events'[e] = events[e]

\* An event row keeps the log entries about backups where none of them goes
LEMMA RecordKept ==
  ASSUME BackupsAreOnRecord, NEW b \in Backups,
         \A e \in Events : InTable(e) /\ events[e].kind # "file"
                           => InTable(e)' /\ events'[e].kind = events[e].kind
                              /\ events'[e].backup = events[e].backup
  PROVE  /\ backups[b].status # "none" =>
              \E e \in Events : InTable(e)' /\ events'[e].kind = "cleaned"
                                /\ events'[e].backup = b
         /\ backups[b].status = "restored" =>
              \E e \in Events : InTable(e)' /\ events'[e].kind = "restored"
                                /\ events'[e].backup = b
<1>1. ASSUME backups[b].status # "none"
      PROVE  \E e \in Events : InTable(e)' /\ events'[e].kind = "cleaned"
                               /\ events'[e].backup = b
  <2>1. PICK e \in Events : InTable(e) /\ events[e].kind = "cleaned" /\ events[e].backup = b
    BY <1>1 DEF BackupsAreOnRecord
  <2>2. QED BY <2>1
<1>2. ASSUME backups[b].status = "restored"
      PROVE  \E e \in Events : InTable(e)' /\ events'[e].kind = "restored"
                               /\ events'[e].backup = b
  <2>1. PICK e \in Events : InTable(e) /\ events[e].kind = "restored" /\ events[e].backup = b
    BY <1>2 DEF BackupsAreOnRecord
  <2>2. QED BY <2>1
<1>3. QED BY <1>1, <1>2

\* A request that moves on without touching a table keeps the tables' invariants
LEMMA TablesSame ==
  ASSUME TrailInv, UNCHANGED <<events, backups, users>>
  PROVE  EveryEventKept' /\ BackupsAreOnRecord' /\ ActorsExist'
BY DEF TrailInv, EveryEventKept, Holding, BackupsAreOnRecord, InTable, ActorsExist

\* A request that ends holds nothing
LEMMA EndHolds ==
  ASSUME TrailInv, NEW r \in Requests, NEW record \in Request,
         record.pc \notin {"cleanup", "restore"},
         Goto(r, record), UNCHANGED <<events, backups>>
  PROVE  CleanupHolds' /\ RestoreHolds'
<1>1. \A q \in Requests : req'[q].pc \in {"cleanup", "restore"} => req'[q] = req[q]
  BY DEF Goto, TrailInv, TypeOK
<1>2. QED BY <1>1 DEF TrailInv, CleanupHolds, RestoreHolds, InTable

\* Only the commit of a cleanup begins an answer
LEMMA NoNewAnswer ==
  ASSUME TrailInv, NEW r \in Requests, NEW record, record.pc # "deliver",
         Goto(r, record)
  PROVE  AnswerHolds'
BY DEF Goto, TrailInv, TypeOK, AnswerHolds

-----------------------------------------------------------------------------
(* The actions.                                                             *)

\* A new event is in the table, by an existing user, and in no document
LEMMA RecordEventSafe ==
  ASSUME TrailInv, NEW u \in Users, NEW e \in Events, RecordEvent(u, e)
  PROVE  TrailInv'
<1>0. TypeOK /\ u \in users /\ events[e].place = "none"
  BY NewEventFree DEF TrailInv, RecordEvent
<1>1. /\ events' = [events EXCEPT ![e] =
           [place |-> "table", actor |-> u, kind |-> "file", backup |-> None]]
      /\ UNCHANGED <<backups, documents, users, req>>
  BY DEF RecordEvent, Added
<1>2. TypeOK'
  BY <1>0, <1>1 DEF TypeOK, Event
<1>3. \A x \in Events : x # e => SameRow(x)
  BY <1>0, <1>1 DEF SameRow, TypeOK
<1>4. events'[e].place = "table" /\ events'[e].actor = u
  BY <1>0, <1>1 DEF TypeOK
<1>5. EveryEventKept'
  BY <1>0, <1>1, <1>3, <1>4 DEF TrailInv, EveryEventKept, Holding, SameRow
<1>6. BackupsAreOnRecord'
  <2>1. \A x \in Events : InTable(x) => SameRow(x)
    BY <1>0, <1>3 DEF InTable
  <2>2. QED BY <1>1, <2>1, RecordKept DEF TrailInv, BackupsAreOnRecord, SameRow, InTable
<1>7. CleanupHolds' /\ RestoreHolds'
  <2>1. \A q \in Requests : req[q].picked \subseteq Events
    BY <1>0 DEF TypeOK, Request
  <2>2. QED BY <1>0, <1>1, <1>3, <2>1
             DEF TrailInv, CleanupHolds, RestoreHolds, InTable, SameRow
<1>8. ActorsExist'
  BY <1>0, <1>1, <1>3, <1>4 DEF TrailInv, ActorsExist, InTable, SameRow
<1>9. QED BY <1>1, <1>2, <1>5, <1>6, <1>7, <1>8 DEF TrailInv, AnswerHolds

\* A deleted user leaves the table, and nothing else
LEMMA DeleteUserSafe ==
  ASSUME TrailInv, NEW u \in Users, DeleteUser(u)
  PROVE  TrailInv'
<1>0. TypeOK
  BY DEF TrailInv
<1>1. /\ users' = users \ {u} /\ UNCHANGED <<backups, documents, req>>
      /\ events' = [e \in Events |->
                      IF InTable(e) /\ events[e].actor = u
                      THEN [events[e] EXCEPT !.actor = None] ELSE events[e]]
  BY DEF DeleteUser
<1>2. \A e \in Events : /\ events'[e].place = events[e].place
                        /\ events'[e].kind = events[e].kind
                        /\ events'[e].backup = events[e].backup
                        /\ InTable(e) => events'[e].actor =
                             IF events[e].actor = u THEN None ELSE events[e].actor
  BY <1>0, <1>1 DEF TypeOK, Event, InTable
<1>3. TypeOK'
  <2>1. events' \in [Events -> Event]
    BY <1>0, <1>1 DEF TypeOK, Event
  <2>2. QED BY <1>0, <1>1, <2>1 DEF TypeOK
<1>4. EveryEventKept'
  BY <1>1, <1>2 DEF TrailInv, EveryEventKept, Holding
<1>5. BackupsAreOnRecord'
  BY <1>1, <1>2, RecordKept DEF TrailInv, BackupsAreOnRecord, InTable
<1>6. CleanupHolds' /\ RestoreHolds'
  <2>1. \A q \in Requests : req[q].picked \subseteq Events
    BY <1>0 DEF TypeOK, Request
  <2>2. QED BY <1>1, <1>2, <2>1 DEF TrailInv, CleanupHolds, RestoreHolds, InTable
<1>7. ActorsExist'
  BY <1>1, <1>2 DEF TrailInv, ActorsExist, InTable
<1>8. QED BY <1>1, <1>3, <1>4, <1>5, <1>6, <1>7 DEF TrailInv, AnswerHolds

\* A cleanup that starts holds rows of the table
LEMMA CleanupSelectSafe ==
  ASSUME TrailInv, NEW r \in Requests, NEW u \in Users, NEW last \in Events,
         CleanupSelect(r, u, last)
  PROVE  TrailInv'
<1> DEFINE record == [Idle EXCEPT !.pc = "cleanup", !.user = u, !.picked = Selected(last)]
<1>0. TypeOK /\ UNCHANGED <<events, backups, documents, users>>
      /\ req' = [req EXCEPT ![r] = record]
  BY DEF TrailInv, CleanupSelect, Goto
<1>1. record \in Request /\ record.pc = "cleanup" /\ record.picked = Selected(last)
  BY DEF Request, Idle, Selected
<1> HIDE DEF record
<1>2. TypeOK'
  BY <1>0, <1>1 DEF TypeOK
<1>3. req'[r] = record /\ \A q \in Requests : q # r => req'[q] = req[q]
  BY <1>0 DEF TypeOK
<1>4. \A q \in Requests : req[q].pc # "cleanup"
  BY DEF CleanupSelect, LockFree
<1>5. \A e \in Selected(last) : InTable(e) /\ events[e].kind = "file"
  BY DEF Selected
<1>6. CleanupHolds'
  BY <1>0, <1>1, <1>3, <1>4, <1>5 DEF CleanupHolds, InTable
<1>7. RestoreHolds'
  BY <1>0, <1>1, <1>3 DEF TrailInv, RestoreHolds
<1>8. AnswerHolds'
  BY <1>0, <1>1, NoNewAnswer DEF Goto
<1>9. QED BY <1>0, <1>2, <1>6, <1>7, <1>8, TablesSame DEF TrailInv

\* A restore that starts has the events of an unrestored backup
LEMMA RestoreCheckSafe ==
  ASSUME TrailInv, NEW r \in Requests, NEW u \in Users, NEW b \in Backups,
         NEW set \in SUBSET Events, RestoreCheck(r, u, b, set)
  PROVE  TrailInv'
<1> DEFINE record == [pc |-> "restore", user |-> u, picked |-> set, backup |-> b]
<1>0. TypeOK /\ UNCHANGED <<events, backups, documents, users>>
      /\ req' = [req EXCEPT ![r] = record]
  BY DEF TrailInv, RestoreCheck, Goto
<1>1. record \in Request /\ record.pc = "restore" /\ record.picked = set
      /\ record.backup = b
  BY DEF Request
<1> HIDE DEF record
<1>2. TypeOK'
  BY <1>0, <1>1 DEF TypeOK
<1>3. req'[r] = record /\ \A q \in Requests : q # r => req'[q] = req[q]
  BY <1>0 DEF TypeOK
<1>4. /\ \A q \in Requests : req[q].pc # "restore"
      /\ backups[b].status = "stored" /\ set = backups[b].events
  BY DEF RestoreCheck, LockFree
<1>5. RestoreHolds'
  BY <1>0, <1>1, <1>3, <1>4 DEF RestoreHolds
<1>6. CleanupHolds'
  BY <1>0, <1>1, <1>3 DEF TrailInv, CleanupHolds, InTable
<1>7. AnswerHolds'
  BY <1>0, <1>1, NoNewAnswer DEF Goto
<1>8. QED BY <1>0, <1>2, <1>5, <1>6, <1>7, TablesSame DEF TrailInv

\* A cleanup moves its events from the table into one document
LEMMA CleanupCommitSafe ==
  ASSUME TrailInv, NEW r \in Requests, CleanupCommit(r)
  PROVE  TrailInv'
<1> DEFINE u == req[r].user  set == req[r].picked
<1>0. TypeOK /\ u \in users /\ u \in Users /\ set \subseteq Events
      /\ req[r].pc = "cleanup"
  BY DEF TrailInv, CleanupCommit, TypeOK, Request
<1>1. PICK b \in NewBackups, e \in NewEvents :
        /\ backups' = [backups EXCEPT ![b] = [status |-> "stored", events |-> set]]
        /\ events' = [Removed(set) EXCEPT ![e] =
             [place |-> "table", actor |-> u, kind |-> "cleaned", backup |-> b]]
        /\ Goto(r, [req[r] EXCEPT !.pc = "deliver", !.picked = {}, !.backup = b])
  BY DEF CleanupCommit, Added
<1>2. /\ b \in Backups /\ backups[b].status = "none"
      /\ e \in Events /\ events[e].place = "none"
      /\ documents' = documents /\ users' = users
  BY NewEventFree, NewBackupFree DEF CleanupCommit
<1>3. \A x \in set : InTable(x) /\ events[x].kind = "file"
  BY <1>0 DEF TrailInv, CleanupHolds
<1>4. e \notin set
  BY <1>2, <1>3 DEF InTable
<1>5. Removed(set) \in [Events -> Event]
  BY <1>0 DEF Removed, TypeOK, Event
<1>6. /\ events'[e] = [place |-> "table", actor |-> u, kind |-> "cleaned", backup |-> b]
      /\ \A x \in Events \ {e} : events'[x] = Removed(set)[x]
  BY <1>1, <1>2, <1>5
<1>7. \A x \in Events : /\ x \in set => events'[x].place = "gone"
                        /\ x \notin set /\ x # e => events'[x] = events[x]
  BY <1>0, <1>4, <1>6 DEF Removed, TypeOK, Event
<1>8. /\ backups'[b] = [status |-> "stored", events |-> set]
      /\ \A c \in Backups \ {b} : backups'[c] = backups[c]
  BY <1>0, <1>1, <1>2 DEF TypeOK
<1>9. TypeOK'
  <2>1. events' \in [Events -> Event]
    BY <1>0, <1>1, <1>2, <1>5 DEF Event
  <2>2. backups' \in [Backups -> Backup]
    BY <1>0, <1>1, <1>2 DEF TypeOK, Backup
  <2>3. [req[r] EXCEPT !.pc = "deliver", !.picked = {}, !.backup = b] \in Request
    BY <1>0, <1>2 DEF TypeOK, Request
  <2>4. QED BY <1>0, <1>1, <1>2, <2>1, <2>2, <2>3 DEF TypeOK, Goto
<1>10. EveryEventKept'
  <2>1. ASSUME NEW x \in Events
        PROVE  /\ events'[x].place = "gone" => \E c \in Backups : Holding(x)' = {c}
               /\ events'[x].place # "gone" => Holding(x)' = {}
    <3>1. CASE x \in set
      <4>1. Holding(x) = {}
        BY <1>3, <3>1 DEF TrailInv, EveryEventKept, InTable
      <4>2. Holding(x)' = {b}
        BY <1>2, <1>8, <3>1, <4>1 DEF Holding
      <4>3. QED BY <1>2, <1>7, <3>1, <4>2
    <3>2. CASE x \notin set
      <4>1. Holding(x)' = Holding(x)
        BY <1>2, <1>8, <3>2 DEF Holding
      <4>2. CASE x = e
        BY <1>2, <1>6, <4>1, <4>2 DEF TrailInv, EveryEventKept
      <4>3. CASE x # e
        BY <1>7, <3>2, <4>1, <4>3 DEF TrailInv, EveryEventKept
      <4>4. QED BY <4>2, <4>3
    <3>3. QED BY <3>1, <3>2
  <2>2. QED BY <2>1 DEF EveryEventKept
<1>11. BackupsAreOnRecord'
  <2>1. \A x \in Events : InTable(x) /\ events[x].kind # "file" => events'[x] = events[x]
    BY <1>2, <1>3, <1>7 DEF InTable
  <2>2. ASSUME NEW c \in Backups
        PROVE  /\ backups'[c].status # "none" =>
                    \E x \in Events : InTable(x)' /\ events'[x].kind = "cleaned"
                                      /\ events'[x].backup = c
               /\ backups'[c].status = "restored" =>
                    \E x \in Events : InTable(x)' /\ events'[x].kind = "restored"
                                      /\ events'[x].backup = c
    <3>1. CASE c = b
      BY <1>2, <1>6, <1>8, <3>1 DEF InTable
    <3>2. CASE c # b
      BY <1>8, <2>1, <3>2, RecordKept DEF TrailInv, InTable
    <3>3. QED BY <3>1, <3>2
  <2>3. QED BY <2>2 DEF BackupsAreOnRecord
<1>12. CleanupHolds' /\ RestoreHolds'
  <2>1. \A q \in Requests : req'[q].pc # "cleanup"
    BY <1>0, <1>1 DEF Goto, TypeOK, Request, TrailInv, CleanupHolds
  <2>2. \A q \in Requests : req'[q].pc = "restore" => req'[q] = req[q]
    BY <1>0, <1>1 DEF Goto, TypeOK, Request
  <2>3. RestoreHolds'
    BY <1>2, <1>8, <2>2 DEF TrailInv, RestoreHolds
  <2>4. QED BY <2>1, <2>3 DEF CleanupHolds
<1>13. ActorsExist'
  BY <1>0, <1>2, <1>6, <1>7 DEF TrailInv, ActorsExist, InTable
<1>14. AnswerHolds'
  BY <1>0, <1>1, <1>2 DEF Goto, TypeOK, Request, TrailInv, AnswerHolds
<1>15. QED BY <1>9, <1>10, <1>11, <1>12, <1>13, <1>14 DEF TrailInv

\* A restore moves the events of its document back into the table
LEMMA RestoreCommitSafe ==
  ASSUME TrailInv, NEW r \in Requests, RestoreCommit(r)
  PROVE  TrailInv'
<1> DEFINE u == req[r].user  set == req[r].picked  b == req[r].backup
<1>0. /\ TypeOK /\ u \in users /\ u \in Users
      /\ req[r].pc = "restore" /\ b \in Backups
      /\ backups[b].status = "stored" /\ set = backups[b].events
      /\ set \subseteq Events
      /\ \A x \in set : events[x].actor \in users \cup {None}
  BY DEF TrailInv, RestoreCommit, TypeOK, Request, RestoreHolds
<1>1. PICK e \in NewEvents :
        events' = [Returned(set) EXCEPT ![e] =
             [place |-> "table", actor |-> u, kind |-> "restored", backup |-> b]]
  BY DEF RestoreCommit, Added
<1>2. /\ e \in Events /\ events[e].place = "none"
      /\ documents' = documents /\ users' = users
      /\ backups' = [backups EXCEPT ![b].status = "restored"]
      /\ req' = [req EXCEPT ![r] = Idle]
  BY NewEventFree DEF RestoreCommit, Goto
<1>3. \A x \in set : Holding(x) = {b} /\ events[x].place = "gone"
  BY <1>0 DEF TrailInv, EveryEventKept, Holding
<1>4. e \notin set
  BY <1>2, <1>3
<1>5. Returned(set) \in [Events -> Event]
  BY <1>0 DEF Returned, TypeOK, Event
<1>6. /\ events'[e] = [place |-> "table", actor |-> u, kind |-> "restored", backup |-> b]
      /\ \A x \in Events \ {e} : events'[x] = Returned(set)[x]
  BY <1>1, <1>2, <1>5
<1>7. \A x \in Events :
        /\ x \in set => events'[x].place = "table" /\ events'[x].actor = events[x].actor
        /\ x \notin set /\ x # e => events'[x] = events[x]
  BY <1>0, <1>3, <1>4, <1>6 DEF Returned, TypeOK, Event, InTable
<1>8. /\ backups'[b].status = "restored" /\ backups'[b].events = set
      /\ \A c \in Backups \ {b} : backups'[c] = backups[c]
  BY <1>0, <1>2 DEF TypeOK, Backup
<1>9. TypeOK'
  <2>1. events' \in [Events -> Event]
    BY <1>0, <1>1, <1>2, <1>5 DEF Event
  <2>2. backups' \in [Backups -> Backup]
    BY <1>0, <1>2 DEF TypeOK, Backup
  <2>3. Idle \in Request
    BY DEF Idle, Request
  <2>4. QED BY <1>0, <1>2, <2>1, <2>2, <2>3 DEF TypeOK
<1>10. EveryEventKept'
  <2>1. ASSUME NEW x \in Events
        PROVE  /\ events'[x].place = "gone" => \E c \in Backups : Holding(x)' = {c}
               /\ events'[x].place # "gone" => Holding(x)' = {}
    <3>1. CASE x \in set
      <4>1. Holding(x)' = {}
        BY <1>3, <1>8, <3>1 DEF Holding
      <4>2. QED BY <1>7, <3>1, <4>1
    <3>2. CASE x \notin set
      <4>1. Holding(x)' = Holding(x)
        BY <1>0, <1>8, <3>2 DEF Holding
      <4>2. CASE x = e
        BY <1>2, <1>6, <4>1, <4>2 DEF TrailInv, EveryEventKept
      <4>3. CASE x # e
        BY <1>7, <3>2, <4>1, <4>3 DEF TrailInv, EveryEventKept
      <4>4. QED BY <4>2, <4>3
    <3>3. QED BY <3>1, <3>2
  <2>2. QED BY <2>1 DEF EveryEventKept
<1>11. BackupsAreOnRecord'
  <2>1. \A x \in Events : InTable(x) => events'[x] = events[x]
    BY <1>2, <1>3, <1>7 DEF InTable
  <2>2. ASSUME NEW c \in Backups
        PROVE  /\ backups'[c].status # "none" =>
                    \E x \in Events : InTable(x)' /\ events'[x].kind = "cleaned"
                                      /\ events'[x].backup = c
               /\ backups'[c].status = "restored" =>
                    \E x \in Events : InTable(x)' /\ events'[x].kind = "restored"
                                      /\ events'[x].backup = c
    <3>1. CASE c = b
      <4>1. \E x \in Events : InTable(x)' /\ events'[x].kind = "cleaned"
                              /\ events'[x].backup = c
        BY <1>0, <2>1, <3>1, RecordKept DEF TrailInv, InTable
      <4>2. InTable(e)' /\ events'[e].kind = "restored" /\ events'[e].backup = c
        BY <1>6, <3>1 DEF InTable
      <4>3. QED BY <1>2, <4>1, <4>2
    <3>2. CASE c # b
      BY <1>8, <2>1, <3>2, RecordKept DEF TrailInv, InTable
    <3>3. QED BY <3>1, <3>2
  <2>3. QED BY <2>2 DEF BackupsAreOnRecord
<1>12. CleanupHolds' /\ RestoreHolds'
  <2>1. \A q \in Requests : req'[q].pc # "restore"
    BY <1>0, <1>2 DEF TypeOK, Request, Idle, TrailInv, RestoreHolds
  <2>2. \A q \in Requests : req'[q].pc = "cleanup" => req'[q] = req[q]
    BY <1>0, <1>2 DEF TypeOK, Request, Idle
  <2>3. \A x \in Events : InTable(x) => events'[x] = events[x]
    BY <1>2, <1>3, <1>7 DEF InTable
  <2>4. \A q \in Requests : req[q].picked \subseteq Events
    BY <1>0 DEF TypeOK, Request
  <2>5. CleanupHolds'
    BY <2>2, <2>3, <2>4 DEF TrailInv, CleanupHolds, InTable
  <2>6. QED BY <2>1, <2>5 DEF RestoreHolds
<1>13. ActorsExist'
  BY <1>0, <1>2, <1>6, <1>7 DEF TrailInv, ActorsExist, InTable
<1>14. AnswerHolds'
  BY <1>2, NoNewAnswer DEF Goto, Idle
<1>15. QED BY <1>9, <1>10, <1>11, <1>12, <1>13, <1>14 DEF TrailInv

-----------------------------------------------------------------------------
\* The invariant holds in every reachable state
LEMMA TrailInvariant == TrailSpec => []TrailInv
<1>1. TrailInit => TrailInv
  <2> SUFFICES ASSUME TrailInit PROVE TrailInv
    OBVIOUS
  <2>1. TypeOK
    BY DEF TrailInit, TypeOK, NoEvent, Event, NoBackup, Backup, Idle, Request
  <2>2. EveryEventKept /\ BackupsAreOnRecord
    BY DEF TrailInit, EveryEventKept, Holding, BackupsAreOnRecord, NoEvent, NoBackup
  <2>3. CleanupHolds /\ RestoreHolds /\ AnswerHolds /\ ActorsExist
    BY DEF TrailInit, CleanupHolds, RestoreHolds, AnswerHolds, ActorsExist, InTable,
       Idle, NoEvent
  <2>4. QED BY <2>1, <2>2, <2>3 DEF TrailInv
<1>2. TrailInv /\ [TrailNext]_trailVars => TrailInv'
  <2> SUFFICES ASSUME TrailInv, [TrailNext]_trailVars PROVE TrailInv'
    OBVIOUS
  <2>0. TypeOK /\ Idle \in Request /\ Idle.pc = "idle"
    BY DEF TrailInv, Idle, Request
  <2>1. ASSUME NEW r \in Requests, Deliver(r) PROVE TrailInv'
    <3>1. UNCHANGED <<events, backups, users>> /\ Goto(r, Idle)
      BY <2>1 DEF Deliver
    <3>2. TypeOK'
      <4>1. req[r].backup \in Backups /\ documents' = documents \cup {req[r].backup}
        BY <2>1 DEF TrailInv, AnswerHolds, Deliver
      <4>2. QED BY <2>0, <3>1, <4>1 DEF TypeOK, Goto
    <3>3. QED BY <2>0, <3>1, <3>2, TablesSame, EndHolds, NoNewAnswer DEF TrailInv
  <2>2. ASSUME NEW r \in Requests, Abort(r) PROVE TrailInv'
    <3>1. UNCHANGED <<events, backups, documents, users>> /\ Goto(r, Idle)
      BY <2>2 DEF Abort
    <3>2. TypeOK'
      BY <2>0, <3>1 DEF TypeOK, Goto
    <3>3. QED BY <2>0, <3>1, <3>2, TablesSame, EndHolds, NoNewAnswer DEF TrailInv
  <2>3. CASE UNCHANGED trailVars
    BY <2>3 DEF trailVars, TrailInv, TypeOK, EveryEventKept, Holding,
       BackupsAreOnRecord, InTable, CleanupHolds, RestoreHolds, AnswerHolds, ActorsExist
  <2>4. QED
    BY <2>1, <2>2, <2>3, RecordEventSafe, DeleteUserSafe, CleanupSelectSafe,
       RestoreCheckSafe, CleanupCommitSafe, RestoreCommitSafe DEF TrailNext
<1>3. QED BY <1>1, <1>2, PTL DEF TrailSpec

-----------------------------------------------------------------------------
(* The theorems.                                                            *)

\* The rows and the requests keep their types (the columns of audit_events and
\* log_cleanup_backups, and the variables of the handlers)
THEOREM TrailTypeCorrect == TrailSpec => []TypeOK
BY TrailInvariant, PTL DEF TrailInv

\* No cleanup or restore loses or doubles an event: the selection locks the rows
\* it backs up and the restore lock keeps a document from coming back twice
THEOREM EveryEventKeptCorrect == TrailSpec => []EveryEventKept
BY TrailInvariant, PTL DEF TrailInv

\* Every cleanup and restore stays on record: the selection leaves the log entries
\* about backups alone
THEOREM BackupsAreOnRecordCorrect == TrailSpec => []BackupsAreOnRecord
BY TrailInvariant, PTL DEF TrailInv

\* What ActorsAreKept says of one step
LEMMA StepKeepsActors ==
  ASSUME TrailInv, TrailInv', [TrailNext]_trailVars, NEW e \in Events
  PROVE  /\ events'[e].place = "table" => events'[e].actor \in users' \cup {None}
         /\ events[e].place # "none" /\ events'[e].actor # events[e].actor =>
              events'[e].actor = None /\ events[e].actor \notin users'
<1>0. TypeOK /\ (events'[e].place = "table" => events'[e].actor \in users' \cup {None})
  BY DEF TrailInv, ActorsExist, InTable
<1>1. SUFFICES ASSUME events[e].place # "none", events'[e].actor # events[e].actor
               PROVE  events'[e].actor = None /\ events[e].actor \notin users'
  BY <1>0
<1>2. ASSUME NEW table \in [Events -> Event], NEW x \in NewEvents, NEW u, NEW k, NEW b,
             events' = Added(table, x, u, k, b)
      PROVE  events'[e] = table[e]
  BY <1>1, <1>2, NewEventFree DEF Added
<1>3. ASSUME NEW set \in SUBSET Events
      PROVE  /\ Removed(set) \in [Events -> Event] /\ Removed(set)[e].actor = events[e].actor
             /\ Returned(set) \in [Events -> Event] /\ Returned(set)[e].actor = events[e].actor
  BY <1>0 DEF Removed, Returned, TypeOK, Event
<1>4. \A r \in Requests : req[r].picked \in SUBSET Events
  BY <1>0 DEF TypeOK, Request
<1>5. ASSUME NEW u \in Users, NEW x \in Events, RecordEvent(u, x) PROVE FALSE
  <2>1. events' = Added(events, x, u, "file", None) /\ x \in NewEvents
    BY <1>5 DEF RecordEvent
  <2>2. events'[e] = events[e]
    BY <1>0, <1>2, <2>1 DEF TypeOK
  <2>3. QED BY <1>1, <2>2
<1>6. ASSUME NEW r \in Requests, CleanupCommit(r) PROVE FALSE
  <2>1. PICK b \in NewBackups, x \in NewEvents :
          events' = Added(Removed(req[r].picked), x, req[r].user, "cleaned", b)
    BY <1>6 DEF CleanupCommit
  <2>2. events'[e] = Removed(req[r].picked)[e]
    BY <1>2, <1>3, <1>4, <2>1
  <2>3. QED BY <1>1, <1>3, <1>4, <2>2
<1>7. ASSUME NEW r \in Requests, RestoreCommit(r) PROVE FALSE
  <2>1. PICK x \in NewEvents :
          events' = Added(Returned(req[r].picked), x, req[r].user, "restored", req[r].backup)
    BY <1>7 DEF RestoreCommit
  <2>2. events'[e] = Returned(req[r].picked)[e]
    BY <1>2, <1>3, <1>4, <2>1
  <2>3. QED BY <1>1, <1>3, <1>4, <2>2
<1>8. ASSUME NEW u \in Users, DeleteUser(u)
      PROVE  events'[e].actor = None /\ events[e].actor \notin users'
  <2>1. /\ users' = users \ {u}
        /\ events'[e] = IF InTable(e) /\ events[e].actor = u
                       THEN [events[e] EXCEPT !.actor = None] ELSE events[e]
    BY <1>8 DEF DeleteUser
  <2>2. events[e].actor = u /\ events'[e] = [events[e] EXCEPT !.actor = None]
    BY <1>1, <2>1
  <2>3. QED BY <1>0, <2>1, <2>2 DEF TypeOK, Event
<1>9. ASSUME UNCHANGED events PROVE FALSE
  BY <1>1, <1>9
<1>10. QED
  BY <1>5, <1>6, <1>7, <1>8, <1>9
     DEF TrailNext, trailVars, CleanupSelect, RestoreCheck, Deliver, Abort

\* The log names no deleted user and forgets no other: the foreign key refuses a
\* restore that names one, and only the deletion of the user clears the actor
THEOREM ActorsAreKeptCorrect == TrailSpec => ActorsAreKept
<1>1. TrailInv /\ TrailInv' /\ [TrailNext]_trailVars =>
        [\A e \in Events :
           /\ events'[e].place = "table" => events'[e].actor \in users' \cup {None}
           /\ events[e].place # "none" /\ events'[e].actor # events[e].actor =>
                events'[e].actor = None /\ events[e].actor \notin users']_trailVars
  BY StepKeepsActors
<1>2. QED BY <1>1, TrailInvariant, PTL DEF TrailSpec, ActorsAreKept

-----------------------------------------------------------------------------
(* The audit log implements the ledger.                                     *)

\* The events that a backup holds for the ledger
HeldBy(b) == IF backups[b].status = "stored" THEN backups[b].events ELSE {}

\* A row that is added to the table is a new event of the ledger
LEMMA AddedEnters ==
  ASSUME TrailInv, NEW table \in [Events -> Event], NEW e \in NewEvents, NEW u \in users,
         NEW kind, NEW b, events' = Added(table, e, u, kind, b),
         \A x \in Events : /\ table[x].actor = events[x].actor
                           /\ table[x].kind = events[x].kind
                           /\ table[x].backup = events[x].backup
  PROVE  /\ Ledger!Enters(e, u, <<kind, b>>)
         /\ e \in Events /\ ~InTable(e) /\ InTable(e)'
         /\ \A x \in Events : x # e => events'[x] = table[x]
<1> DEFINE actor == [x \in Events |-> events[x].actor]
           about == [x \in Events |-> <<events[x].kind, events[x].backup>>]
           row == [place |-> "table", actor |-> u, kind |-> kind, backup |-> b]
<1>1. /\ e \in Events /\ events[e].place = "none"
      /\ events' = [table EXCEPT ![e] = row]
  BY NewEventFree DEF Added
<1>2. /\ row.place = "table" /\ row.actor = u /\ row.kind = kind /\ row.backup = b
  OBVIOUS
<1> HIDE DEF row
<1>3. events'[e] = row /\ \A x \in Events : x # e => events'[x] = table[x]
  BY <1>1
<1>4. ~InTable(e) /\ InTable(e)'
  BY <1>1, <1>2, <1>3 DEF InTable
<1>5. \A c \in Backups : e \notin HeldBy(c)
  <2>1. Holding(e) = {}
    BY <1>1 DEF TrailInv, EveryEventKept
  <2>2. QED BY <2>1 DEF Holding, HeldBy
<1>6. actor' = [actor EXCEPT ![e] = u]
  <2>1. events'[e].actor = u
    BY <1>2, <1>3
  <2>2. \A x \in Events : x # e => events'[x].actor = events[x].actor
    BY <1>3
  <2>3. QED BY <1>1, <2>1, <2>2
<1>7. about' = [about EXCEPT ![e] = <<kind, b>>]
  <2>1. events'[e].kind = kind /\ events'[e].backup = b
    BY <1>2, <1>3
  <2>2. \A x \in Events : x # e => /\ events'[x].kind = events[x].kind
                                  /\ events'[x].backup = events[x].backup
    BY <1>3
  <2>3. QED BY <1>1, <2>1, <2>2
<1>8. Ledger!Enters(e, u, <<kind, b>>)
  BY <1>1, <1>4, <1>5, <1>6, <1>7 DEF Ledger!Enters, HeldBy
<1>9. QED BY <1>1, <1>3, <1>4, <1>8

\* insertAuditEvent
LEMMA EventIsRecorded ==
  ASSUME TrailInv, NEW u \in Users, NEW e \in Events, RecordEvent(u, e)
  PROVE  Ledger!Record(u, e)
<1>1. /\ events \in [Events -> Event] /\ e \in NewEvents /\ u \in users
      /\ events' = Added(events, e, u, "file", None)
      /\ UNCHANGED <<backups, users>>
  BY DEF TrailInv, TypeOK, RecordEvent
<1>2. /\ Ledger!Enters(e, u, <<"file", None>>) /\ InTable(e)'
      /\ \A x \in Events : x # e => events'[x] = events[x]
  BY <1>1, AddedEnters
<1>3. {x \in Events : InTable(x)}' = {x \in Events : InTable(x)} \cup {e}
  BY <1>2 DEF InTable
<1>4. QED BY <1>1, <1>2, <1>3 DEF Ledger!Record

\* The deletion of a user: only rows of the table refer to users
LEMMA UserIsForgotten ==
  ASSUME TrailInv, NEW u \in Users, DeleteUser(u)
  PROVE  Ledger!Forget(u)
<1> DEFINE row(e) == [events[e] EXCEPT !.actor = None]
<1>1. /\ events \in [Events -> Event] /\ u \in users \ {Admin} /\ users' = users \ {u}
      /\ backups' = backups
      /\ events' = [e \in Events |-> IF InTable(e) /\ events[e].actor = u THEN row(e)
                                     ELSE events[e]]
  BY DEF TrailInv, TypeOK, DeleteUser
<1>2. ASSUME NEW e \in Events
      PROVE  /\ row(e).place = events[e].place /\ row(e).kind = events[e].kind
             /\ row(e).backup = events[e].backup /\ row(e).actor = None
  BY <1>1 DEF Event
<1> HIDE DEF row
<1>3. \A e \in Events :
        /\ events'[e].place = events[e].place /\ events'[e].kind = events[e].kind
        /\ events'[e].backup = events[e].backup
        /\ events'[e].actor = IF InTable(e) /\ events[e].actor = u THEN None
                              ELSE events[e].actor
  BY <1>1, <1>2
<1>4. {e \in Events : InTable(e)}' = {e \in Events : InTable(e)}
  BY <1>3 DEF InTable
<1>5. QED BY <1>1, <1>3, <1>4 DEF Ledger!Forget

\* The events a cleanup has selected are still in the table when it deletes them, and
\* its backup holds these and no others
LEMMA CleanupIsOneStep ==
  ASSUME TrailInv, NEW r \in Requests, CleanupCommit(r)
  PROVE  Ledger!Next
<1> DEFINE log == {e \in Events : InTable(e)}
           held == [b \in Backups |-> IF backups[b].status = "stored"
                                      THEN backups[b].events ELSE {}]
           status == [b \in Backups |-> backups[b].status]
<1>1. PICK set : set = req[r].picked
  OBVIOUS
<1>2. PICK u : u = req[r].user
  OBVIOUS
<1>3. /\ TypeOK /\ u \in users /\ u \in Users /\ users' = users /\ set \subseteq Events
      /\ \A x \in set : InTable(x) /\ events[x].kind = "file"
  BY <1>1, <1>2 DEF TrailInv, CleanupCommit, CleanupHolds, TypeOK, Request
<1>4. PICK b \in NewBackups, e \in NewEvents :
        /\ backups' = [backups EXCEPT ![b] = [status |-> "stored", events |-> set]]
        /\ events' = Added(Removed(set), e, u, "cleaned", b)
  BY <1>1, <1>2 DEF CleanupCommit
<1>5. /\ b \in Backups /\ backups[b].status = "none"
      /\ backups'[b].status = "stored" /\ backups'[b].events = set
      /\ \A c \in Backups : c # b => backups'[c] = backups[c]
  BY <1>3, <1>4, NewBackupFree DEF TypeOK
<1>6. /\ Removed(set) \in [Events -> Event]
      /\ \A x \in Events : /\ Removed(set)[x].actor = events[x].actor
                            /\ Removed(set)[x].kind = events[x].kind
                            /\ Removed(set)[x].backup = events[x].backup
                            /\ Removed(set)[x].place = IF x \in set THEN "gone"
                                                      ELSE events[x].place
  BY <1>3 DEF Removed, TypeOK, Event
<1>7. /\ Ledger!Enters(e, u, <<"cleaned", b>>) /\ e \in Events /\ ~InTable(e) /\ InTable(e)'
      /\ \A x \in Events : x # e => events'[x] = Removed(set)[x]
  BY <1>3, <1>4, <1>6, AddedEnters
<1>8. set \in SUBSET log
  BY <1>3
<1>9. log' = (log \ set) \cup {e}
  BY <1>6, <1>7, <1>8 DEF InTable
<1>10. status' = [status EXCEPT ![b] = "stored"] /\ held' = [held EXCEPT ![b] = set]
  BY <1>5
<1>11. \A x \in set : [y \in Events |-> <<events[y].kind, events[y].backup>>][x][1] = "file"
  BY <1>3
<1>12. Ledger!Clean(u, e, b)
  BY <1>3, <1>5, <1>7, <1>8, <1>9, <1>10, <1>11 DEF Ledger!Clean
<1>13. QED BY <1>3, <1>5, <1>7, <1>12 DEF Ledger!Next

\* The backup a restore has checked is still to be restored when it inserts, and none of
\* its events is in the table
LEMMA RestoreIsOneStep ==
  ASSUME TrailInv, NEW r \in Requests, RestoreCommit(r)
  PROVE  Ledger!Next
<1> DEFINE log == {e \in Events : InTable(e)}
           held == [b \in Backups |-> IF backups[b].status = "stored"
                                      THEN backups[b].events ELSE {}]
           status == [b \in Backups |-> backups[b].status]
           actor == [e \in Events |-> events[e].actor]
<1>1. PICK set : set = req[r].picked
  OBVIOUS
<1>2. PICK u, b : u = req[r].user /\ b = req[r].backup
  OBVIOUS
<1>3. /\ TypeOK /\ u \in users /\ u \in Users /\ users' = users /\ set \subseteq Events
      /\ b \in Backups /\ backups[b].status = "stored" /\ backups[b].events = set
      /\ \A x \in set : events[x].actor \in users \cup {None}
      /\ backups' = [backups EXCEPT ![b].status = "restored"]
  BY <1>1, <1>2 DEF TrailInv, RestoreCommit, RestoreHolds, TypeOK, Request
<1>4. PICK e \in NewEvents : events' = Added(Returned(set), e, u, "restored", b)
  BY <1>1, <1>2 DEF RestoreCommit
<1>5. /\ backups'[b].status = "restored"
      /\ \A c \in Backups : c # b => backups'[c] = backups[c]
  BY <1>3 DEF TypeOK, Backup
<1>6. /\ Returned(set) \in [Events -> Event]
      /\ \A x \in Events : /\ Returned(set)[x].actor = events[x].actor
                            /\ Returned(set)[x].kind = events[x].kind
                            /\ Returned(set)[x].backup = events[x].backup
                            /\ Returned(set)[x].place = IF x \in set THEN "table"
                                                       ELSE events[x].place
  BY <1>3 DEF Returned, TypeOK, Event, InTable
<1>7. /\ Ledger!Enters(e, u, <<"restored", b>>) /\ e \in Events /\ InTable(e)'
      /\ \A x \in Events : x # e => events'[x] = Returned(set)[x]
  BY <1>3, <1>4, <1>6, AddedEnters
<1>8. log' = log \cup set \cup {e}
  BY <1>3, <1>6, <1>7 DEF InTable
<1>9. /\ status' = [status EXCEPT ![b] = "restored"] /\ held' = [held EXCEPT ![b] = {}]
      /\ held[b] = set
  <2>1. status' = [status EXCEPT ![b] = "restored"]
    BY <1>5
  <2>2. held' = [held EXCEPT ![b] = {}]
    BY <1>5
  <2>3. held[b] = set
    BY <1>3
  <2>4. QED BY <2>1, <2>2, <2>3
<1>10. \A x \in held[b] : actor[x] \in users \cup {None}
  BY <1>3, <1>9
<1>11. Ledger!Restore(u, e, b)
  BY <1>3, <1>7, <1>8, <1>9, <1>10 DEF Ledger!Restore
<1>12. QED BY <1>3, <1>7, <1>11 DEF Ledger!Next

\* What only requests see is no step of the ledger
LEMMA LedgerStep ==
  ASSUME TrailInv, [TrailNext]_trailVars
  PROVE  [Ledger!Next]_(Ledger!vars)
<1>1. ASSUME NEW u \in Users, NEW e \in Events, RecordEvent(u, e) PROVE Ledger!Next
  BY <1>1, EventIsRecorded DEF Ledger!Next
<1>2. ASSUME NEW u \in Users, DeleteUser(u) PROVE Ledger!Next
  BY <1>2, UserIsForgotten DEF Ledger!Next
<1>3. ASSUME NEW r \in Requests, CleanupCommit(r) \/ RestoreCommit(r) PROVE Ledger!Next
  BY <1>3, CleanupIsOneStep, RestoreIsOneStep
<1>4. ASSUME UNCHANGED <<events, backups, users>> PROVE UNCHANGED Ledger!vars
  BY <1>4 DEF Ledger!vars, InTable
<1>5. ASSUME NEW r \in Requests,
             \/ \E u \in Users, last \in Events : CleanupSelect(r, u, last)
             \/ \E u \in Users, b \in Backups, set \in SUBSET Events :
                  RestoreCheck(r, u, b, set)
             \/ Deliver(r) \/ Abort(r) \/ UNCHANGED trailVars
      PROVE  UNCHANGED <<events, backups, users>>
  BY <1>5 DEF CleanupSelect, RestoreCheck, Deliver, Abort, trailVars
<1>6. CASE UNCHANGED trailVars
  BY <1>4, <1>6 DEF trailVars
<1>7. QED BY <1>1, <1>2, <1>3, <1>4, <1>5, <1>6 DEF TrailNext

\* A cleanup and a restore each happen in one step or not at all, for whoever reads the
\* log or holds a backup, however their transactions overlap and wherever they fail
THEOREM TrailImplementsLedger == TrailSpec => ImplementsLedger
<1>1. TrailInit => Ledger!Init
  <2> SUFFICES ASSUME TrailInit PROVE Ledger!Init
    OBVIOUS
  <2>1. /\ NoEvent.place = "none" /\ NoEvent.actor = None /\ NoEvent.kind = "file"
        /\ NoEvent.backup = None /\ NoBackup.status = "none"
    BY DEF NoEvent, NoBackup
  <2>2. \A e \in Events : events[e] = NoEvent /\ ~InTable(e)
    BY <2>1 DEF TrailInit, InTable
  <2>3. \A b \in Backups : backups[b] = NoBackup
    BY DEF TrailInit
  <2>4. users = Users
    BY DEF TrailInit
  <2> HIDE DEF TrailInit
  <2>5. QED BY <2>1, <2>2, <2>3, <2>4 DEF Ledger!Init
<1>2. TrailInv /\ [TrailNext]_trailVars => [Ledger!Next]_(Ledger!vars)
  BY LedgerStep
<1>3. QED BY <1>1, <1>2, TrailInvariant, PTL DEF TrailSpec, ImplementsLedger, Ledger!Spec
===============================================================================
