------------------------------- MODULE Accounts -------------------------------
(* Accounts and login sessions (internal/auth/service.go).                   *)
(*                                                                           *)
(* A handler authenticates, reads the account it is about, and only then     *)
(* begins the transaction that acts.  These two parts are two steps here,    *)
(* and other requests run in between.  The transaction itself is one step    *)
(* where the lock of the account's row makes it one; a login takes that lock *)
(* first and writes afterwards, so it has a step for each, and so has the    *)
(* bootstrap with its advisory lock.                                         *)
(*                                                                           *)
(* Left to AccessQueue: what the deletion of a user does to access jobs and  *)
(* sessions.  A password is reduced to whether it is a temporary one, which  *)
(* is the column must_change_password.                                       *)
EXTENDS Naturals, FiniteSets

CONSTANTS Users,      \* the accounts that ever exist: ids are used once
          Role,       \* the role an account is created with, which never changes
          Sessions,   \* numbers of rows of user_sessions, in the order of insertion
          Requests,   \* HTTP requests in progress at one time
          None

ASSUME AccountsAssumption ==
  /\ Role \in [Users -> {"super_admin", "admin", "client"}]
  /\ Sessions \subseteq Nat
  /\ None \notin Users \cup Sessions

VARIABLES users,      \* the table users
          sessions,   \* the table user_sessions
          req         \* what each request has read and is about to do

vars == <<users, sessions, req>>

AdminOps == {"create", "reset", "block", "unblock", "delete"}

Account == [status : {"absent", "present", "deleted"},
            blocked : BOOLEAN, must_change_password : BOOLEAN]

\* older: the row was there, or the login had its lock, when its account was last
\* blocked or reset.  It is history, which no guard reads: the code has no such column
Session == [status : {"none", "active", "expired", "revoked", "deleted"},
            user : Users \cup {None}, lapsed : BOOLEAN, older : BOOLEAN]

Request == [pc : {"idle", "login", "login tx", "logout", "change", "bootstrap tx"} \cup AdminOps,
            user : Users \cup {None},      \* who asks
            target : Users \cup {None},    \* the account an administrator acts on
            session : Sessions \cup {None},
            active : SUBSET Sessions,      \* the active sessions a login found
            older : BOOLEAN]

Idle == [pc |-> "idle", user |-> None, target |-> None, session |-> None,
         active |-> {}, older |-> FALSE]

Init ==
  /\ users = [u \in Users |-> [status |-> "absent", blocked |-> FALSE,
                               must_change_password |-> FALSE]]
  /\ sessions = [s \in Sessions |-> [status |-> "none", user |-> None,
                                     lapsed |-> FALSE, older |-> FALSE]]
  /\ req = [r \in Requests |-> Idle]

Present(u) == users[u].status = "present"
ActiveOf(u) == {s \in Sessions : sessions[s].status = "active" /\ sessions[s].user = u}

\* userBySessionHash: the cookie belongs to a session that is active, has not
\* expired, and whose user is not blocked
Authenticates(s) ==
  /\ sessions[s].status = "active" /\ ~sessions[s].lapsed
  /\ ~users[sessions[s].user].blocked

\* A row lock or advisory lock of a login or bootstrap in progress
Locked(u) == \E r \in Requests : req[r].pc = "login tx" /\ req[r].user = u
BootstrapLocked == \E r \in Requests : req[r].pc = "bootstrap tx"

Becomes(r, record) == req' = [req EXCEPT ![r] = record]
Ends(r) == Becomes(r, Idle)

-------------------------------------------------------------------------------
(* Bootstrap: the first super administrator                                  *)

SuperAdmins == {u \in Users : Role[u] = "super_admin" /\ Present(u)}

BootstrapLock(r) ==
  /\ req[r].pc = "idle" /\ ~BootstrapLocked
  /\ SuperAdmins = {}
  /\ \E u \in Users :
       /\ Role[u] = "super_admin" /\ users[u].status = "absent"
       /\ Becomes(r, [Idle EXCEPT !.pc = "bootstrap tx", !.user = u])
  /\ UNCHANGED <<users, sessions>>

\* users_single_super_admin_bootstrap_idx refuses a second row
BootstrapCommit(r) ==
  /\ req[r].pc = "bootstrap tx" /\ SuperAdmins = {}
  /\ users' = [users EXCEPT ![req[r].user].status = "present"]
  /\ Ends(r)
  /\ UNCHANGED sessions

-------------------------------------------------------------------------------
(* Login and logout                                                          *)

\* findLoginUser, the block and the password; no lock yet
LoginCheck(r) ==
  /\ req[r].pc = "idle"
  /\ \E u \in Users :
       /\ Present(u) /\ ~users[u].blocked
       /\ Becomes(r, [Idle EXCEPT !.pc = "login", !.user = u])
  /\ UNCHANGED <<users, sessions>>

\* Variant: without FOR UPDATE
LoginUnlocked(r) ==
  LET u == req[r].user IN
  /\ req[r].pc = "login" /\ Present(u)
  /\ Becomes(r, [req[r] EXCEPT !.pc = "login tx", !.active = ActiveOf(u)])
  /\ UNCHANGED <<users, sessions>>

\* SELECT ... FOR UPDATE of the user, which neither looks at the block nor at the
\* password again, then the sessions to expire and to revoke
LoginLock(r) ==
  LET u == req[r].user IN
  /\ req[r].pc = "login" /\ Present(u) /\ ~Locked(u)
  /\ Becomes(r, [req[r] EXCEPT !.pc = "login tx", !.active = ActiveOf(u)])
  /\ UNCHANGED <<users, sessions>>

\* A row that has ended; its flags mean nothing any more
Ended(s, status) ==
  [sessions[s] EXCEPT !.status = status, !.lapsed = FALSE, !.older = FALSE]

\* What a login makes of the active sessions it found: expired ones end for every
\* role, the others only for a client, whose latest login wins
AfterLogin(u, s, found) ==
  CASE s \notin found \/ sessions[s].status # "active" -> sessions[s]
    [] s \in found /\ sessions[s].status = "active" /\ sessions[s].lapsed ->
         Ended(s, "expired")
    [] s \in found /\ sessions[s].status = "active" /\ ~sessions[s].lapsed ->
         IF Role[u] = "client" THEN Ended(s, "revoked") ELSE sessions[s]

\* user_sessions_one_active_client_per_user_idx: the row refused is answered with
\* user_session_already_active
IndexRefuses(r) ==
  LET u == req[r].user IN
  Role[u] = "client" /\ \E s \in ActiveOf(u) : AfterLogin(u, s, req[r].active).status = "active"

\* The next row of user_sessions
NewRow(s) ==
  /\ sessions[s].status = "none"
  /\ \A t \in Sessions : t < s => sessions[t].status # "none"

LoginCommit(r) ==
  LET u == req[r].user IN
  /\ req[r].pc = "login tx" /\ Present(u) /\ ~IndexRefuses(r)
  /\ \E new \in Sessions :
       /\ NewRow(new)
       /\ sessions' = [s \in Sessions |->
            IF s = new
              THEN [status |-> "active", user |-> u, lapsed |-> FALSE,
                    older |-> req[r].older]
              ELSE AfterLogin(u, s, req[r].active)]
  /\ Ends(r)
  /\ UNCHANGED users

LogoutCheck(r) ==
  /\ req[r].pc = "idle"
  /\ \E s \in Sessions :
       /\ Authenticates(s)
       /\ Becomes(r, [Idle EXCEPT !.pc = "logout", !.session = s])
  /\ UNCHANGED <<users, sessions>>

\* UPDATE ... WHERE token_hash = ... AND status = 'active'
Logout(r) ==
  LET s == req[r].session IN
  /\ req[r].pc = "logout"
  /\ sessions' = IF sessions[s].status = "active"
                   THEN [sessions EXCEPT ![s] = Ended(s, "revoked")] ELSE sessions
  /\ Ends(r)
  /\ UNCHANGED users

-------------------------------------------------------------------------------
(* Passwords and administration of users                                     *)

\* The cookie and the current password are right
ChangeCheck(r) ==
  /\ req[r].pc = "idle"
  /\ \E s \in Sessions :
       /\ Authenticates(s)
       /\ Becomes(r, [Idle EXCEPT !.pc = "change", !.user = sessions[s].user])
  /\ UNCHANGED <<users, sessions>>

\* Variant: an audit event that keeps no reference to its actor
AuditedAnonymously(r) == req[r].user # None

\* The audit event of a transaction refers to the actor: the foreign key refuses
\* an actor who has been deleted, and with it the whole transaction
Audited(r) == Present(req[r].user)

ChangePassword(r) ==
  LET u == req[r].user IN
  /\ req[r].pc = "change" /\ Audited(r) /\ ~Locked(u)
  /\ users' = [users EXCEPT ![u].must_change_password = FALSE]
  /\ Ends(r)
  /\ UNCHANGED sessions

\* canCreateRole
CanCreateRole(actor, role) ==
  \/ Role[actor] = "super_admin" /\ role \in {"admin", "client"}
  \/ Role[actor] = "admin" /\ role = "client"

\* Variant: administrators manage every account but their own
CanManageOthers(actor, target) == actor # target /\ Role[actor] # "client"

\* canManageUser
CanManage(actor, target) ==
  /\ Role[target] # "super_admin" /\ actor # target
  /\ CanCreateRole(actor, Role[target])

\* RequireRole, CurrentUser, userByID and canManageUser: all before the transaction
AdminCheck(r) ==
  /\ req[r].pc = "idle"
  /\ \E s \in Sessions, op \in AdminOps, target \in Users :
       LET actor == sessions[s].user IN
       /\ Authenticates(s) /\ ~users[actor].must_change_password
       /\ Role[actor] # "client"
       /\ IF op = "create"
            THEN users[target].status = "absent" /\ CanCreateRole(actor, Role[target])
            ELSE Present(target) /\ CanManage(actor, target)
       /\ Becomes(r, [Idle EXCEPT !.pc = op, !.user = actor, !.target = target])
  /\ UNCHANGED <<users, sessions>>

CreateUser(r) ==
  LET u == req[r].target IN
  /\ req[r].pc = "create" /\ Audited(r) /\ users[u].status = "absent"
  /\ users' = [users EXCEPT ![u].status = "present", ![u].must_change_password = TRUE]
  /\ Ends(r)
  /\ UNCHANGED sessions

\* Variant: only the latest session, as if everybody had one at most
RevokedLatest(u) ==
  [s \in Sessions |-> IF s \in ActiveOf(u) /\ \A t \in ActiveOf(u) : t <= s
                        THEN Ended(s, "revoked") ELSE sessions[s]]

\* revokeUserSessionsTx
Revoked(u) ==
  [s \in Sessions |-> IF s \in ActiveOf(u) THEN Ended(s, "revoked") ELSE sessions[s]]

\* History: all rows of the account become older, whatever the revocation made of them,
Aged(u, rows) == [s \in Sessions |-> [rows[s] EXCEPT !.older = @ \/ rows[s].user = u]]

\* and so does a login that has its lock already, whose row is still to come
LoginsAge(r, u) ==
  req' = [q \in Requests |->
    CASE q = r -> Idle
      [] q # r -> [req[q] EXCEPT !.older = @ \/ (req[q].pc = "login tx" /\ req[q].user = u)]]

\* The UPDATE of an account that was deleted meanwhile changes nothing, and the
\* transaction still commits
ResetPassword(r) ==
  LET u == req[r].target IN
  /\ req[r].pc = "reset" /\ Audited(r) /\ ~Locked(u)
  /\ users' = IF Present(u) THEN [users EXCEPT ![u].must_change_password = TRUE] ELSE users
  /\ sessions' = Aged(u, Revoked(u))
  /\ LoginsAge(r, u)

\* Variant: the sessions are revoked without the lock of the account
BlockUnlocked(r) ==
  LET u == req[r].target IN
  /\ req[r].pc = "block" /\ Audited(r)
  /\ users' = IF Present(u) THEN [users EXCEPT ![u].blocked = TRUE] ELSE users
  /\ sessions' = Aged(u, Revoked(u))
  /\ LoginsAge(r, u)

BlockUser(r) ==
  LET u == req[r].target IN
  /\ req[r].pc = "block" /\ Audited(r) /\ ~Locked(u)
  /\ users' = IF Present(u) THEN [users EXCEPT ![u].blocked = TRUE] ELSE users
  /\ sessions' = Aged(u, Revoked(u))
  /\ LoginsAge(r, u)

UnblockUser(r) ==
  LET u == req[r].target IN
  /\ req[r].pc = "unblock" /\ Audited(r) /\ ~Locked(u)
  /\ users' = IF Present(u) THEN [users EXCEPT ![u].blocked = FALSE] ELSE users
  /\ Ends(r)
  /\ UNCHANGED sessions

\* Variant: only the rows that have ended are deleted
WithoutEndedRowsOf(u) ==
  [s \in Sessions |->
     IF sessions[s].user = u /\ sessions[s].status # "active"
       THEN [Ended(s, "deleted") EXCEPT !.user = None] ELSE sessions[s]]

\* The rows of user_sessions go with the account, also one that a login inserted
\* after the explicit DELETE: ON DELETE CASCADE
WithoutRowsOf(u) ==
  [s \in Sessions |->
     IF sessions[s].user = u THEN [Ended(s, "deleted") EXCEPT !.user = None] ELSE sessions[s]]

DeleteUser(r) ==
  LET u == req[r].target IN
  /\ req[r].pc = "delete" /\ Audited(r) /\ Present(u) /\ ~Locked(u)
  /\ users' = [users EXCEPT ![u] = [status |-> "deleted", blocked |-> FALSE,
                                    must_change_password |-> FALSE]]
  /\ sessions' = WithoutRowsOf(u)
  /\ Ends(r)

\* A statement fails, the client goes away, the process ends, a login is refused:
\* nothing of the transaction stays
Abort(r) == req[r].pc # "idle" /\ Ends(r) /\ UNCHANGED <<users, sessions>>

\* expires_at passes
Lapse(s) ==
  /\ sessions[s].status = "active" /\ ~sessions[s].lapsed
  /\ sessions' = [sessions EXCEPT ![s].lapsed = TRUE]
  /\ UNCHANGED <<users, req>>

-------------------------------------------------------------------------------
Next ==
  \/ \E r \in Requests :
       \/ BootstrapLock(r) \/ BootstrapCommit(r)
       \/ LoginCheck(r) \/ LoginLock(r) \/ LoginCommit(r)
       \/ LogoutCheck(r) \/ Logout(r)
       \/ ChangeCheck(r) \/ ChangePassword(r)
       \/ AdminCheck(r) \/ CreateUser(r) \/ ResetPassword(r)
       \/ BlockUser(r) \/ UnblockUser(r) \/ DeleteUser(r)
       \/ Abort(r)
  \/ \E s \in Sessions : Lapse(s)

Spec == Init /\ [][Next]_vars

-------------------------------------------------------------------------------
(* Properties                                                                *)

\* Rows and requests keep their type; a session is active only for a present user
TypeOK ==
  /\ users \in [Users -> Account]
  /\ sessions \in [Sessions -> Session]
  /\ req \in [Requests -> Request]
  /\ \A s \in Sessions : sessions[s].status = "active"
                       => sessions[s].user \in Users /\ Present(sessions[s].user)

\* "A repeated client login revokes the previous client login session": it replaces
\* it and is never refused because of it, nor is the first super administrator
\* because of another; handleLogin, handleCreateSuperAdmin
InsertsNeverConflict ==
  \A r \in Requests :
    /\ req[r].pc = "login tx" => ~IndexRefuses(r)
    /\ req[r].pc = "bootstrap tx" => SuperAdmins = {}

\* A block or a reset of the password ends every login session that is there, of
\* however many devices, and also that of a login which has locked the account and not
\* yet inserted its row: none of them is active after it.  A login that passed its
\* check before and takes the lock after counts as new
RevocationEndsSessions ==
  \A s \in Sessions : sessions[s].status = "active" => ~sessions[s].older

\* An administrator who has been deleted changes nothing any more, however far
\* the request had come when the account went
DeletedActorActsNoMore ==
  [][\A r \in Requests :
       req[r].pc \in AdminOps /\ req'[r] # req[r] /\ <<users', sessions'>> # <<users, sessions>>
         => users[req[r].user].status = "present"]_vars

\* Once there is a super administrator there always is one who is not blocked, so
\* the bootstrap, which asks for no login, is never open again
SuperAdminStays ==
  [][SuperAdmins # {} => \E u \in Users : Role[u] = "super_admin" /\ users'[u].status = "present"
                                           /\ ~users'[u].blocked]_vars

\* The accounts and the open sessions
Active(s) == sessions[s].status = "active"
Register == INSTANCE LoginRegister WITH
  account <- [u \in Users |-> users[u].status],
  blocked <- {u \in Users : users[u].blocked},
  temporary <- {u \in Users : users[u].must_change_password},
  owner <- [s \in Sessions |-> IF Active(s) THEN sessions[s].user ELSE None],
  lapsed <- {s \in Sessions : Active(s) /\ sessions[s].lapsed},
  used <- {s \in Sessions : sessions[s].status # "none"}

\* What a request has checked before its transaction, and a login finds before it writes,
\* is still so when it commits, or does not matter: each operation is one step of the
\* register, also when the account it is about is deleted on the way
ImplementsRegister == Register!Spec
===============================================================================
