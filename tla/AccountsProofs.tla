---------------------------- MODULE AccountsProofs ----------------------------
(* Theorems about Accounts for any number of accounts, sessions and requests.*)
EXTENDS Accounts, TLAPS

\* The lock of an account's row: one login holds it, what it has found are all the
\* sessions the account can have active, and neither a deletion nor a revocation
\* comes in between
LoginLocks ==
  /\ \A r, q \in Requests :
       req[r].pc = "login tx" /\ req[q].pc = "login tx" /\ req[r].user = req[q].user => r = q
  /\ \A r \in Requests : req[r].pc = "login tx" =>
       /\ req[r].user \in Users /\ Present(req[r].user)
       /\ ActiveOf(req[r].user) \subseteq req[r].active

\* The advisory lock of the bootstrap
BootstrapLocks ==
  /\ \A r, q \in Requests :
       req[r].pc = "bootstrap tx" /\ req[q].pc = "bootstrap tx" => r = q
  /\ \A r \in Requests : req[r].pc = "bootstrap tx" =>
       /\ req[r].user \in Users /\ Role[req[r].user] = "super_admin"
       /\ SuperAdmins = {}

\* Where the fields of a request are set when it needs them
RequestFields ==
  \A r \in Requests :
    /\ req[r].pc \in {"login", "change"} \cup AdminOps => req[r].user \in Users
    /\ req[r].pc \in AdminOps => req[r].target \in Users
    /\ req[r].pc \in AdminOps => Role[req[r].target] # "super_admin"
    /\ req[r].pc = "logout" => req[r].session \in Sessions

\* What is older than the last block or reset of its account is closed, and no login
\* older than that is about to insert its row
OlderIsClosed ==
  /\ \A r \in Requests : ~req[r].older
  /\ RevocationEndsSessions

Inv == TypeOK /\ RequestFields /\ LoginLocks /\ BootstrapLocks /\ OlderIsClosed

-------------------------------------------------------------------------------
\* The tables are empty and nobody holds a lock at the start
LEMMA InitInv == Init => Inv
<1> SUFFICES ASSUME Init PROVE Inv
  OBVIOUS
<1>1. Idle \in Request /\ Idle.pc = "idle" /\ ~Idle.older
  BY DEF Idle, Request
<1>2. TypeOK
  BY <1>1 DEF Init, TypeOK, Account, Session
<1>3. \A r \in Requests : req[r].pc = "idle" /\ ~req[r].older
  BY <1>1 DEF Init
<1>4. RequestFields /\ LoginLocks /\ BootstrapLocks
  BY <1>3 DEF RequestFields, LoginLocks, BootstrapLocks, AdminOps
<1>5. OlderIsClosed
  BY <1>3 DEF Init, OlderIsClosed, RevocationEndsSessions
<1>6. QED BY <1>2, <1>4, <1>5 DEF Inv

\* What a request record needs that holds no lock
Free(record) ==
  /\ record \in Request /\ ~record.older
  /\ record.pc \notin {"login tx", "bootstrap tx"}
  /\ record.pc \in {"login", "change"} \cup AdminOps => record.user \in Users
  /\ record.pc \in AdminOps => record.target \in Users
  /\ record.pc \in AdminOps => Role[record.target] # "super_admin"
  /\ record.pc = "logout" => record.session \in Sessions

LEMMA IdleFree == Free(Idle)
  BY DEF Free, Idle, Request, AdminOps

\* What Inv says of an active session
ActiveIsSound ==
  \A s \in Sessions : sessions[s].status = "active" =>
    sessions[s].user \in Users /\ Present(sessions[s].user) /\ ~sessions[s].older

LEMMA InvActive == Inv => ActiveIsSound
  BY DEF Inv, TypeOK, OlderIsClosed, RevocationEndsSessions, ActiveIsSound

\* A request that goes on without a lock, or ends, keeps the invariant, if its
\* step changes the tables in a way that keeps their types, that revives no
\* session, and that respects the locks of others
LEMMA FreeSafe ==
  ASSUME Inv, NEW r \in Requests, NEW STATE record, Free(record), Becomes(r, record),
         users' \in [Users -> Account], sessions' \in [Sessions -> Session],
         ActiveIsSound',
         \A u \in Users :
           (\E q \in Requests : q # r /\ req[q].pc = "login tx" /\ req[q].user = u)
             => Present(u)' /\ ActiveOf(u)' \subseteq ActiveOf(u),
         \A q \in Requests : q # r /\ req[q].pc = "bootstrap tx" => SuperAdmins' = {}
  PROVE  Inv'
<1>1. TypeOK'
  <2>1. req' \in [Requests -> Request]
    BY DEF Inv, TypeOK, Free, Becomes
  <2>2. QED BY <2>1 DEF TypeOK, ActiveIsSound
<1>2. \A q \in Requests : req'[q] = IF q = r THEN record ELSE req[q]
  BY DEF Becomes, Inv, TypeOK
<1>3. RequestFields'
  BY <1>2 DEF Inv, RequestFields, Free
<1>4. LoginLocks'
  <2>1. ASSUME NEW q \in Requests, req'[q].pc = "login tx"
        PROVE  /\ q # r /\ req'[q] = req[q] /\ req[q].user \in Users
               /\ Present(req[q].user) /\ ActiveOf(req[q].user) \subseteq req[q].active
    BY <1>2, <2>1 DEF Inv, LoginLocks, Free
  <2>2. \A p, q \in Requests :
          req'[p].pc = "login tx" /\ req'[q].pc = "login tx" /\ req'[p].user = req'[q].user => p = q
    BY <2>1 DEF Inv, LoginLocks
  <2>3. ASSUME NEW q \in Requests, req'[q].pc = "login tx"
        PROVE  /\ req'[q].user \in Users /\ (Present(req[q].user))'
               /\ (ActiveOf(req[q].user))' \subseteq req'[q].active
    <3> DEFINE u == req[q].user
    <3>1. u \in Users /\ (\E p \in Requests : p # r /\ req[p].pc = "login tx" /\ req[p].user = u)
      BY <2>1, <2>3
    <3>2. users'[u].status = "present"
          /\ {s \in Sessions : sessions'[s].status = "active" /\ sessions'[s].user = u}
               \subseteq ActiveOf(u)
      BY <3>1 DEF Present, ActiveOf
    <3>3. req'[q] = req[q] /\ ActiveOf(req[q].user) \subseteq req[q].active
      BY <2>1, <2>3
    <3>4. (Present(req[q].user))' /\ (ActiveOf(req[q].user))' \subseteq ActiveOf(u)
      BY <3>2, <3>3 DEF Present, ActiveOf
    <3>5. QED BY <3>1, <3>3, <3>4
  <2>4. QED BY <2>2, <2>3 DEF LoginLocks
<1>5. BootstrapLocks'
  BY <1>2 DEF Inv, BootstrapLocks, Free
<1>6. OlderIsClosed'
  BY <1>2 DEF Inv, OlderIsClosed, RevocationEndsSessions, Free, ActiveIsSound
<1>7. QED BY <1>1, <1>3, <1>4, <1>5, <1>6 DEF Inv

\* In particular if it leaves the tables alone
LEMMA CheckSafe ==
  ASSUME Inv, NEW r \in Requests, NEW STATE record, Free(record), Becomes(r, record),
         UNCHANGED <<users, sessions>>
  PROVE  Inv'
<1>1. ActiveIsSound'
  BY InvActive DEF ActiveIsSound, Present
<1>2. \A u \in Users :
        (\E q \in Requests : q # r /\ req[q].pc = "login tx" /\ req[q].user = u)
          => Present(u)' /\ ActiveOf(u)' \subseteq ActiveOf(u)
  BY DEF Inv, LoginLocks, Present, ActiveOf
<1>3. \A q \in Requests : req[q].pc = "bootstrap tx" => SuperAdmins' = {}
  BY DEF Inv, BootstrapLocks, SuperAdmins, Present
<1>4. users' \in [Users -> Account] /\ sessions' \in [Sessions -> Session]
  BY DEF Inv, TypeOK
<1>5. QED BY <1>1, <1>2, <1>3, <1>4, FreeSafe

-------------------------------------------------------------------------------
\* The bootstrap: the lock keeps every other one from counting or inserting
LEMMA BootstrapStep ==
  ASSUME Inv, NEW r \in Requests, BootstrapLock(r) \/ BootstrapCommit(r) PROVE Inv'
<1>1. CASE BootstrapLock(r)
  <2>1. PICK u \in Users :
          /\ Role[u] = "super_admin"
          /\ Becomes(r, [Idle EXCEPT !.pc = "bootstrap tx", !.user = u])
    BY <1>1 DEF BootstrapLock
  <2> DEFINE record == [Idle EXCEPT !.pc = "bootstrap tx", !.user = u]
  <2>2. /\ record \in Request /\ record.pc = "bootstrap tx" /\ record.user = u
        /\ ~record.older
    BY DEF Idle, Request
  <2> HIDE DEF record
  <2>3. /\ req' \in [Requests -> Request]
        /\ \A q \in Requests : req'[q] = IF q = r THEN record ELSE req[q]
    BY <2>1, <2>2 DEF Becomes, Inv, TypeOK, record
  <2>4. TypeOK' /\ OlderIsClosed'
    BY <1>1, <2>2, <2>3
    DEF Inv, TypeOK, OlderIsClosed, RevocationEndsSessions, BootstrapLock, Present
  <2>5. RequestFields' /\ LoginLocks'
    <3>1. RequestFields'
      BY <2>2, <2>3 DEF Inv, RequestFields, AdminOps
    <3>2. \A q \in Requests : req'[q].pc = "login tx" => req'[q] = req[q]
      BY <2>2, <2>3
    <3>3. \A v : ActiveOf(v)' = ActiveOf(v) /\ (Present(v)' <=> Present(v))
      BY <1>1 DEF BootstrapLock, ActiveOf, Present
    <3>4. LoginLocks'
      BY <3>2, <3>3 DEF Inv, LoginLocks
    <3>5. QED BY <3>1, <3>4
  <2>6. BootstrapLocks'
    BY <1>1, <2>1, <2>2, <2>3
    DEF Inv, BootstrapLocks, BootstrapLock, BootstrapLocked, SuperAdmins, Present
  <2>7. QED BY <2>4, <2>5, <2>6 DEF Inv
<1>2. CASE BootstrapCommit(r)
  <2> DEFINE u == req[r].user
  <2>1. u \in Users /\ users' = [users EXCEPT ![u].status = "present"]
        /\ Becomes(r, Idle) /\ sessions' = sessions /\ req[r].pc = "bootstrap tx"
    BY <1>2 DEF BootstrapCommit, Ends, Inv, BootstrapLocks
  <2>2. users' \in [Users -> Account] /\ sessions' \in [Sessions -> Session]
    BY <2>1 DEF Inv, TypeOK, Account
  <2>3. \A v \in Users : Present(v) => Present(v)'
    BY <2>1 DEF Inv, TypeOK, Present, Account
  <2>4. ActiveIsSound'
    BY <2>1, <2>3, InvActive DEF ActiveIsSound, Present
  <2>5. \A v \in Users :
          (\E q \in Requests : q # r /\ req[q].pc = "login tx" /\ req[q].user = v)
            => Present(v)' /\ ActiveOf(v)' \subseteq ActiveOf(v)
    BY <2>1, <2>3 DEF Inv, LoginLocks, ActiveOf
  <2>6. \A q \in Requests : q # r => req[q].pc # "bootstrap tx"
    BY <2>1 DEF Inv, BootstrapLocks
  <2>7. QED BY <2>1, <2>2, <2>4, <2>5, <2>6, IdleFree, FreeSafe
<1>3. QED BY <1>1, <1>2

\* The checks before a transaction, and requests that end without one
LEMMA ChecksStep ==
  ASSUME Inv, NEW r \in Requests,
         \/ LoginCheck(r) \/ LogoutCheck(r) \/ ChangeCheck(r) \/ AdminCheck(r) \/ Abort(r)
  PROVE  Inv'
<1> USE AccountsAssumption
<1>1. CASE LoginCheck(r)
  <2>1. PICK u \in Users : Becomes(r, [Idle EXCEPT !.pc = "login", !.user = u])
    BY <1>1 DEF LoginCheck
  <2>2. Free([Idle EXCEPT !.pc = "login", !.user = u])
    BY DEF Free, Idle, Request, AdminOps
  <2>3. QED BY <1>1, <2>1, <2>2, CheckSafe DEF LoginCheck
<1>2. CASE LogoutCheck(r)
  <2>1. PICK s \in Sessions : Becomes(r, [Idle EXCEPT !.pc = "logout", !.session = s])
    BY <1>2 DEF LogoutCheck
  <2>2. Free([Idle EXCEPT !.pc = "logout", !.session = s])
    BY DEF Free, Idle, Request, AdminOps
  <2>3. QED BY <1>2, <2>1, <2>2, CheckSafe DEF LogoutCheck
<1>3. CASE ChangeCheck(r)
  <2>1. PICK s \in Sessions :
          Authenticates(s) /\ Becomes(r, [Idle EXCEPT !.pc = "change", !.user = sessions[s].user])
    BY <1>3 DEF ChangeCheck
  <2>2. sessions[s].user \in Users
    BY <2>1, InvActive DEF ActiveIsSound, Authenticates
  <2>3. Free([Idle EXCEPT !.pc = "change", !.user = sessions[s].user])
    BY <2>2 DEF Free, Idle, Request, AdminOps
  <2>4. QED BY <1>3, <2>1, <2>3, CheckSafe DEF ChangeCheck
<1>4. CASE AdminCheck(r)
  <2>1. PICK s \in Sessions, op \in AdminOps, target \in Users :
          /\ Authenticates(s)
          /\ \/ CanCreateRole(sessions[s].user, Role[target])
             \/ CanManage(sessions[s].user, target)
          /\ Becomes(r, [Idle EXCEPT !.pc = op, !.user = sessions[s].user, !.target = target])
    BY <1>4 DEF AdminCheck
  <2>2. sessions[s].user \in Users
    BY <2>1, InvActive DEF ActiveIsSound, Authenticates
  <2>3. Role[target] # "super_admin"
    BY <2>1 DEF CanCreateRole, CanManage
  <2>4. Free([Idle EXCEPT !.pc = op, !.user = sessions[s].user, !.target = target])
    BY <2>2, <2>3 DEF Free, Idle, Request, AdminOps
  <2>5. QED BY <1>4, <2>1, <2>4, CheckSafe DEF AdminCheck
<1>5. CASE Abort(r)
  BY <1>5, IdleFree, CheckSafe DEF Abort, Ends
<1>6. QED BY <1>1, <1>2, <1>3, <1>4, <1>5

-------------------------------------------------------------------------------
\* A login takes the lock of its account only when nobody holds it
LEMMA LoginLockStep ==
  ASSUME Inv, NEW r \in Requests, LoginLock(r) PROVE Inv'
<1> DEFINE u == req[r].user
           record == [req[r] EXCEPT !.pc = "login tx", !.active = ActiveOf(u)]
<1>1. /\ req[r].pc = "login" /\ Present(u) /\ ~Locked(u) /\ u \in Users
      /\ Becomes(r, record) /\ users' = users /\ sessions' = sessions
  BY DEF LoginLock, Inv, RequestFields
<1>2. /\ record \in Request /\ record.pc = "login tx" /\ record.user = u
      /\ record.active = ActiveOf(u) /\ ~record.older
  BY <1>1 DEF Inv, TypeOK, OlderIsClosed, Request, ActiveOf
<1>3. /\ req' \in [Requests -> Request]
      /\ \A q \in Requests : req'[q] = IF q = r THEN record ELSE req[q]
  BY <1>1, <1>2 DEF Becomes, Inv, TypeOK
<1> HIDE DEF record
<1>4. TypeOK' /\ OlderIsClosed'
  BY <1>1, <1>2, <1>3 DEF Inv, TypeOK, OlderIsClosed, RevocationEndsSessions, Present
<1>5. RequestFields' /\ BootstrapLocks'
  <2>1. RequestFields'
    BY <1>2, <1>3 DEF Inv, RequestFields, AdminOps
  <2>2. SuperAdmins' = SuperAdmins
    BY <1>1 DEF SuperAdmins, Present
  <2>3. BootstrapLocks'
    BY <1>2, <1>3, <2>2 DEF Inv, BootstrapLocks
  <2>4. QED BY <2>1, <2>3
<1>6. LoginLocks'
  <2>1. \A q \in Requests : q # r /\ req[q].pc = "login tx" => req[q].user # u
    BY <1>1 DEF Locked
  <2>2. \A v : ActiveOf(v)' = ActiveOf(v) /\ (Present(v)' <=> Present(v))
    BY <1>1 DEF ActiveOf, Present
  <2>3. \A p, q \in Requests :
          req'[p].pc = "login tx" /\ req'[q].pc = "login tx" /\ req'[p].user = req'[q].user => p = q
    BY <1>2, <1>3, <2>1 DEF Inv, LoginLocks
  <2>4. ASSUME NEW q \in Requests, req'[q].pc = "login tx"
        PROVE  /\ req'[q].user \in Users /\ (Present(req[q].user))'
               /\ (ActiveOf(req[q].user))' \subseteq req'[q].active
    <3>1. CASE q = r
      <4>1. req'[q].user = u /\ req'[q].active = ActiveOf(u)
        BY <1>2, <1>3, <3>1
      <4>2. QED BY <1>1, <2>2, <3>1, <4>1
    <3>2. CASE q # r
      <4>1. /\ req'[q] = req[q] /\ req[q].user \in Users /\ Present(req[q].user)
            /\ ActiveOf(req[q].user) \subseteq req[q].active
        BY <1>3, <2>4, <3>2 DEF Inv, LoginLocks
      <4>2. QED BY <1>1, <4>1 DEF Present, ActiveOf
    <3>3. QED BY <3>1, <3>2
  <2>5. QED BY <2>3, <2>4 DEF LoginLocks
<1>7. QED BY <1>4, <1>5, <1>6 DEF Inv

\* Its row is the only active one of a client afterwards, and not older than a
\* revocation, since none could come between the lock and the commit
LEMMA LoginCommitStep ==
  ASSUME Inv, NEW r \in Requests, LoginCommit(r) PROVE Inv'
<1> DEFINE u == req[r].user
<1>1. /\ req[r].pc = "login tx" /\ u \in Users /\ Present(u) /\ ~req[r].older
      /\ users' = users /\ Becomes(r, Idle)
  BY DEF LoginCommit, Ends, Inv, LoginLocks, OlderIsClosed
<1>2. PICK new \in Sessions : sessions' = [s \in Sessions |->
        IF s = new THEN [status |-> "active", user |-> u, lapsed |-> FALSE,
                         older |-> req[r].older]
                   ELSE AfterLogin(u, s, req[r].active)]
  BY DEF LoginCommit
<1>3. ASSUME NEW s \in Sessions
      PROVE  /\ AfterLogin(u, s, req[r].active) \in Session
             /\ AfterLogin(u, s, req[r].active).user = sessions[s].user
             /\ AfterLogin(u, s, req[r].active).status = "active" =>
                  AfterLogin(u, s, req[r].active) = sessions[s]
  <2>1. sessions[s] \in Session
    BY DEF Inv, TypeOK
  <2>2. \A status \in {"expired", "revoked"} :
          Ended(s, status) \in Session /\ Ended(s, status).user = sessions[s].user
          /\ Ended(s, status).status = status
    BY <2>1 DEF Ended, Session
  <2>3. \/ AfterLogin(u, s, req[r].active) = sessions[s]
        \/ AfterLogin(u, s, req[r].active) \in {Ended(s, "expired"), Ended(s, "revoked")}
    <3>1. CASE s \notin req[r].active \/ sessions[s].status # "active"
      BY <3>1 DEF AfterLogin
    <3>2. CASE s \in req[r].active /\ sessions[s].status = "active" /\ sessions[s].lapsed
      BY <3>2 DEF AfterLogin
    <3>3. CASE s \in req[r].active /\ sessions[s].status = "active" /\ ~sessions[s].lapsed
      BY <3>3 DEF AfterLogin
    <3>4. QED BY <3>1, <3>2, <3>3
  <2>4. QED BY <2>1, <2>2, <2>3
<1>4. users' \in [Users -> Account] /\ sessions' \in [Sessions -> Session]
  <2>1. [status |-> "active", user |-> u, lapsed |-> FALSE, older |-> req[r].older] \in Session
    <3>1. req[r].older \in BOOLEAN
      BY DEF Inv, TypeOK, Request
    <3>2. QED BY <1>1, <3>1 DEF Session
  <2>2. QED BY <1>1, <1>2, <1>3, <2>1 DEF Inv, TypeOK
<1>5. ActiveIsSound'
  BY <1>1, <1>2, <1>3, InvActive DEF ActiveIsSound, Present
<1>6. ASSUME NEW v \in Users, NEW q \in Requests, q # r, req[q].pc = "login tx", req[q].user = v
      PROVE  Present(v)' /\ ActiveOf(v)' \subseteq ActiveOf(v)
  <2>1. v # u /\ Present(v)
    BY <1>1, <1>6 DEF Inv, LoginLocks
  <2>2. QED BY <1>1, <1>2, <1>3, <2>1 DEF Present, ActiveOf
<1>7. \A q \in Requests : req[q].pc = "bootstrap tx" => SuperAdmins' = {}
  BY <1>1 DEF Inv, BootstrapLocks, SuperAdmins, Present
<1>8. QED BY <1>1, <1>4, <1>5, <1>6, <1>7, IdleFree, FreeSafe

-------------------------------------------------------------------------------
\* Steps that change an account without touching a session: the account stays, and
\* no super administrator is created
LEMMA AccountSafe ==
  ASSUME Inv, NEW r \in Requests, Ends(r), UNCHANGED sessions, users' \in [Users -> Account],
         \A u \in Users : Present(u) => Present(u)',
         \A u \in Users : Present(u)' => Present(u) \/ Role[u] # "super_admin"
  PROVE  Inv'
<1>1. Becomes(r, Idle)
  BY DEF Ends
<1>2. sessions' \in [Sessions -> Session]
  BY DEF Inv, TypeOK
<1>3. ActiveIsSound'
  BY InvActive DEF ActiveIsSound, Present
<1>4. \A u \in Users :
        (\E q \in Requests : q # r /\ req[q].pc = "login tx" /\ req[q].user = u)
          => Present(u)' /\ ActiveOf(u)' \subseteq ActiveOf(u)
  BY DEF Inv, LoginLocks, ActiveOf
<1>5. \A q \in Requests : req[q].pc = "bootstrap tx" => SuperAdmins' = {}
  BY DEF Inv, BootstrapLocks, SuperAdmins, Present
<1>6. QED BY <1>1, <1>2, <1>3, <1>4, <1>5, IdleFree, FreeSafe

LEMMA AccountStep ==
  ASSUME Inv, NEW r \in Requests, ChangePassword(r) \/ CreateUser(r) \/ UnblockUser(r)
  PROVE  Inv'
<1>1. CASE ChangePassword(r)
  <2> DEFINE u == req[r].user
  <2>1. users' = [users EXCEPT ![u].must_change_password = FALSE] /\ u \in Users
    BY <1>1 DEF ChangePassword, Inv, RequestFields
  <2>2. /\ users' \in [Users -> Account]
        /\ \A v \in Users : users'[v].status = users[v].status
    BY <2>1 DEF Inv, TypeOK, Account
  <2>3. QED BY <1>1, <2>2, AccountSafe DEF ChangePassword, Present
<1>2. CASE CreateUser(r)
  <2> DEFINE u == req[r].target
  <2>1. /\ users' = [users EXCEPT ![u].status = "present", ![u].must_change_password = TRUE]
        /\ u \in Users /\ Role[u] # "super_admin"
    BY <1>2 DEF CreateUser, Inv, RequestFields, AdminOps
  <2>2. /\ users' \in [Users -> Account]
        /\ \A v \in Users : users'[v].status = IF v = u THEN "present" ELSE users[v].status
    BY <2>1 DEF Inv, TypeOK, Account
  <2>3. QED BY <1>2, <2>1, <2>2, AccountSafe DEF CreateUser, Present
<1>3. CASE UnblockUser(r)
  <2> DEFINE u == req[r].target
  <2>1. u \in Users
    BY <1>3 DEF UnblockUser, Inv, RequestFields, AdminOps
  <2>2. /\ users' \in [Users -> Account]
        /\ \A v \in Users : users'[v].status = users[v].status
    BY <1>3, <2>1 DEF UnblockUser, Inv, TypeOK, Account
  <2>3. QED BY <1>3, <2>2, AccountSafe DEF UnblockUser, Present
<1>4. QED BY <1>1, <1>2, <1>3

\* Ending a row keeps its type and its user
LEMMA EndedRow ==
  ASSUME TypeOK, NEW s \in Sessions, NEW status \in {"expired", "revoked", "deleted"}
  PROVE  /\ Ended(s, status) \in Session
         /\ Ended(s, status).user = sessions[s].user
         /\ Ended(s, status).status = status
  BY DEF TypeOK, Session, Ended

\* Steps that end sessions and keep every account where it is
LEMMA EndSafe ==
  ASSUME Inv, NEW r \in Requests, Ends(r), users' \in [Users -> Account],
         \A u \in Users : users'[u].status = users[u].status,
         sessions' \in [Sessions -> Session],
         \A s \in Sessions : sessions'[s].status = "active" => sessions'[s] = sessions[s]
  PROVE  Inv'
<1>1. Becomes(r, Idle)
  BY DEF Ends
<1>2. ActiveIsSound'
  BY InvActive DEF ActiveIsSound, Present
<1>3. \A u \in Users :
        (\E q \in Requests : q # r /\ req[q].pc = "login tx" /\ req[q].user = u)
          => Present(u)' /\ ActiveOf(u)' \subseteq ActiveOf(u)
  BY DEF Inv, LoginLocks, ActiveOf, Present
<1>4. \A q \in Requests : req[q].pc = "bootstrap tx" => SuperAdmins' = {}
  BY DEF Inv, BootstrapLocks, SuperAdmins, Present
<1>5. QED BY <1>1, <1>2, <1>3, <1>4, IdleFree, FreeSafe

\* A revocation finds the account unlocked: no login is about to insert a row that
\* it does not see
LEMMA NobodyIsOlder ==
  ASSUME Inv, NEW r \in Requests, NEW u, ~Locked(u), LoginsAge(r, u)
  PROVE  Ends(r)
<1>1. \A q \in Requests : ~req[q].older /\ ~(req[q].pc = "login tx" /\ req[q].user = u)
  BY DEF Inv, OlderIsClosed, Locked
<1>2. \A q \in Requests : req[q] \in Request
  BY DEF Inv, TypeOK
<1>3. \A q \in Requests :
        [req[q] EXCEPT !.older = @ \/ (req[q].pc = "login tx" /\ req[q].user = u)] = req[q]
  BY <1>1, <1>2 DEF Request
<1>4. req' = [q \in Requests |-> IF q = r THEN Idle ELSE req[q]]
  BY <1>3 DEF LoginsAge
<1>5. QED BY <1>4 DEF Ends, Becomes, Inv, TypeOK

-------------------------------------------------------------------------------
\* A revocation ends the active sessions of the account; every row of it is older then
LEMMA RevokedEnds ==
  ASSUME TypeOK, NEW u, sessions' = Aged(u, Revoked(u))
  PROVE  /\ sessions' \in [Sessions -> Session]
         /\ \A s \in Sessions :
              /\ sessions'[s].user = sessions[s].user
              /\ s \in ActiveOf(u) => sessions'[s].status = "revoked"
              /\ s \notin ActiveOf(u) => sessions'[s].status = sessions[s].status
              /\ sessions'[s].status = "active" => sessions'[s] = sessions[s]
              /\ sessions[s].user # u => sessions'[s] = sessions[s]
<1> DEFINE row(s) == IF s \in ActiveOf(u) THEN Ended(s, "revoked") ELSE sessions[s]
<1>1. ASSUME NEW s \in Sessions
      PROVE  /\ row(s) \in Session /\ row(s).user = sessions[s].user
             /\ s \in ActiveOf(u) => row(s).status = "revoked" /\ sessions[s].user = u
             /\ s \notin ActiveOf(u) => row(s) = sessions[s]
             /\ row(s).status = "active" => sessions[s].user # u
  BY EndedRow DEF ActiveOf, TypeOK
<1>2. \A s \in Sessions :
        sessions'[s] = [row(s) EXCEPT !.older = row(s).older \/ row(s).user = u]
  BY DEF Aged, Revoked
<1> HIDE DEF row
<1>3. ASSUME NEW s \in Sessions
      PROVE  /\ sessions'[s] \in Session /\ sessions'[s].user = row(s).user
             /\ sessions'[s].status = row(s).status
             /\ row(s).user # u => sessions'[s] = row(s)
  <2>1. PICK rec \in Session : rec = row(s)
    BY <1>1
  <2>2. sessions'[s] = [rec EXCEPT !.older = rec.older \/ rec.user = u]
    BY <1>2, <2>1
  <2>3. rec.user # u => [rec EXCEPT !.older = rec.older \/ rec.user = u] = rec
    BY DEF Session
  <2>4. QED BY <2>1, <2>2, <2>3 DEF Session
<1>4. sessions' \in [Sessions -> Session]
  <2>1. sessions' = [s \in Sessions |-> sessions'[s]]
    BY DEF Aged
  <2>2. QED BY <1>3, <2>1
<1>5. QED BY <1>1, <1>3, <1>4

\* Logout, reset and block end sessions
LEMMA EndStep ==
  ASSUME Inv, NEW r \in Requests, Logout(r) \/ ResetPassword(r) \/ BlockUser(r)
  PROVE  Inv'
<1> TypeOK
  BY DEF Inv
<1>1. CASE Logout(r)
  <2> DEFINE s == req[r].session
  <2>1. s \in Sessions /\ users' = users /\ Ends(r)
    BY <1>1 DEF Logout, Inv, RequestFields
  <2>2. sessions' = sessions \/ sessions' = [sessions EXCEPT ![s] = Ended(s, "revoked")]
    BY <1>1 DEF Logout
  <2>3. /\ sessions' \in [Sessions -> Session]
        /\ \A t \in Sessions : sessions'[t].status = "active" => sessions'[t] = sessions[t]
    BY <2>1, <2>2, EndedRow DEF TypeOK
  <2>4. QED BY <2>1, <2>3, EndSafe DEF TypeOK
<1>2. CASE ResetPassword(r)
  <2> DEFINE u == req[r].target
  <2>1. u \in Users /\ ~Locked(u) /\ LoginsAge(r, u)
        /\ sessions' = Aged(u, Revoked(u))
    BY <1>2 DEF ResetPassword, Inv, RequestFields, AdminOps
  <2>2. /\ users' \in [Users -> Account]
        /\ \A v \in Users : users'[v].status = users[v].status
    BY <1>2, <2>1 DEF ResetPassword, TypeOK, Account
  <2>3. QED BY <2>1, <2>2, RevokedEnds, NobodyIsOlder, EndSafe
<1>3. CASE BlockUser(r)
  <2> DEFINE u == req[r].target
  <2>1. u \in Users /\ ~Locked(u) /\ LoginsAge(r, u)
        /\ sessions' = Aged(u, Revoked(u))
    BY <1>3 DEF BlockUser, Inv, RequestFields, AdminOps
  <2>2. /\ users' \in [Users -> Account]
        /\ \A v \in Users : users'[v].status = users[v].status
    BY <1>3, <2>1 DEF BlockUser, TypeOK, Account
  <2>3. QED BY <2>1, <2>2, RevokedEnds, NobodyIsOlder, EndSafe
<1>4. QED BY <1>1, <1>2, <1>3

\* A deletion waits for the login that holds the account's lock
LEMMA DeleteStep ==
  ASSUME Inv, NEW r \in Requests, DeleteUser(r) PROVE Inv'
<1> DEFINE u == req[r].target
           row == [status |-> "deleted", blocked |-> FALSE, must_change_password |-> FALSE]
<1> TypeOK
  BY DEF Inv
<1>1. /\ u \in Users /\ ~Locked(u) /\ Becomes(r, Idle)
      /\ users' = [users EXCEPT ![u] = row] /\ sessions' = WithoutRowsOf(u)
  BY DEF DeleteUser, Ends, Inv, RequestFields, AdminOps
<1>2. row \in Account /\ row.status = "deleted"
  BY DEF Account
<1> HIDE DEF row
<1>3. /\ users' \in [Users -> Account]
      /\ \A v \in Users : users'[v].status = IF v = u THEN "deleted" ELSE users[v].status
  BY <1>1, <1>2 DEF TypeOK
<1>4. \A s \in Sessions :
        sessions'[s] = IF sessions[s].user = u
                         THEN [Ended(s, "deleted") EXCEPT !.user = None] ELSE sessions[s]
  BY <1>1 DEF WithoutRowsOf
<1>5. \A s \in Sessions : [Ended(s, "deleted") EXCEPT !.user = None] \in Session
                          /\ [Ended(s, "deleted") EXCEPT !.user = None].status = "deleted"
  BY EndedRow DEF Session
<1>6. sessions' \in [Sessions -> Session]
  BY <1>1, <1>5 DEF WithoutRowsOf, TypeOK
<1>7. ActiveIsSound'
  <2>1. ASSUME NEW s \in Sessions, sessions'[s].status = "active"
        PROVE  sessions'[s] = sessions[s] /\ sessions[s].user # u
    BY <1>4, <1>5, <2>1
  <2>2. ASSUME NEW s \in Sessions, sessions'[s].status = "active"
        PROVE  /\ sessions[s].user \in Users /\ users[sessions[s].user].status = "present"
               /\ ~sessions[s].older
    BY <2>1, <2>2, InvActive DEF ActiveIsSound, Present
  <2>3. ASSUME NEW s \in Sessions, sessions'[s].status = "active"
        PROVE  users'[sessions[s].user].status = "present"
    BY <1>3, <2>1, <2>2, <2>3
  <2>4. QED BY <2>1, <2>2, <2>3 DEF ActiveIsSound, Present
<1>8. \A v \in Users :
        (\E q \in Requests : q # r /\ req[q].pc = "login tx" /\ req[q].user = v)
          => Present(v)' /\ ActiveOf(v)' \subseteq ActiveOf(v)
  <2>1. \A q \in Requests : req[q].pc = "login tx" => req[q].user # u /\ Present(req[q].user)
    BY <1>1 DEF Inv, LoginLocks, Locked
  <2>2. \A v \in Users \ {u} : Present(v) => Present(v)'
    BY <1>3 DEF Present
  <2>3. \A v \in Users \ {u} : ActiveOf(v)' \subseteq ActiveOf(v)
    BY <1>4, <1>5 DEF ActiveOf
  <2>4. QED BY <2>1, <2>2, <2>3
<1>9. \A q \in Requests : req[q].pc = "bootstrap tx" => SuperAdmins' = {}
  BY <1>3 DEF Inv, BootstrapLocks, SuperAdmins, Present
<1>10. QED BY <1>1, <1>3, <1>6, <1>7, <1>8, <1>9, IdleFree, FreeSafe

LEMMA LapseStep ==
  ASSUME Inv, NEW s \in Sessions, Lapse(s) PROVE Inv'
<1>1. /\ users' = users /\ req' = req
      /\ sessions' = [sessions EXCEPT ![s].lapsed = TRUE]
  BY DEF Lapse
<1>2. /\ sessions' \in [Sessions -> Session]
      /\ \A t \in Sessions : /\ sessions'[t].status = sessions[t].status
                             /\ sessions'[t].user = sessions[t].user
                             /\ sessions'[t].older = sessions[t].older
  <2> DEFINE row == [sessions[s] EXCEPT !.lapsed = TRUE]
  <2>1. sessions \in [Sessions -> Session]
    BY DEF Inv, TypeOK
  <2>2. /\ row \in Session /\ row.status = sessions[s].status
        /\ row.user = sessions[s].user /\ row.older = sessions[s].older
    BY <2>1 DEF Session
  <2> HIDE DEF row
  <2>3. sessions' = [sessions EXCEPT ![s] = row]
    BY <1>1 DEF row
  <2>4. QED BY <2>1, <2>2, <2>3
<1>3. TypeOK' /\ RequestFields' /\ OlderIsClosed'
  BY <1>1, <1>2 DEF Inv, TypeOK, RequestFields, OlderIsClosed, RevocationEndsSessions, Present
<1>4. \A u : ActiveOf(u)' = ActiveOf(u) /\ (Present(u)' <=> Present(u))
  BY <1>1, <1>2 DEF ActiveOf, Present
<1>5. LoginLocks'
  BY <1>1, <1>4 DEF Inv, LoginLocks
<1>6. BootstrapLocks'
  BY <1>1 DEF Inv, BootstrapLocks, SuperAdmins, Present
<1>7. QED BY <1>3, <1>5, <1>6 DEF Inv

-------------------------------------------------------------------------------
LEMMA NextInv == Inv /\ [Next]_vars => Inv'
<1> SUFFICES ASSUME Inv, [Next]_vars PROVE Inv'
  OBVIOUS
<1>1. ASSUME NEW r \in Requests, BootstrapLock(r) \/ BootstrapCommit(r) PROVE Inv'
  BY <1>1, BootstrapStep
<1>2. ASSUME NEW r \in Requests,
             \/ LoginCheck(r) \/ LogoutCheck(r) \/ ChangeCheck(r) \/ AdminCheck(r) \/ Abort(r)
      PROVE  Inv'
  BY <1>2, ChecksStep
<1>3. ASSUME NEW r \in Requests, LoginLock(r) \/ LoginCommit(r) PROVE Inv'
  BY <1>3, LoginLockStep, LoginCommitStep
<1>4. ASSUME NEW r \in Requests, ChangePassword(r) \/ CreateUser(r) \/ UnblockUser(r)
      PROVE  Inv'
  BY <1>4, AccountStep
<1>5. ASSUME NEW r \in Requests, Logout(r) \/ ResetPassword(r) \/ BlockUser(r) PROVE Inv'
  BY <1>5, EndStep
<1>6. ASSUME NEW r \in Requests, DeleteUser(r) PROVE Inv'
  BY <1>6, DeleteStep
<1>7. ASSUME NEW s \in Sessions, Lapse(s) PROVE Inv'
  BY <1>7, LapseStep
<1>8. CASE UNCHANGED vars
  <2>1. users' = users /\ sessions' = sessions /\ req' = req
    BY <1>8 DEF vars
  <2>2. \A u : ActiveOf(u)' = ActiveOf(u) /\ (Present(u)' <=> Present(u))
    BY <2>1 DEF ActiveOf, Present
  <2>3. TypeOK' /\ RequestFields' /\ OlderIsClosed'
    BY <2>1 DEF Inv, TypeOK, RequestFields, OlderIsClosed, RevocationEndsSessions, Present
  <2>4. LoginLocks' /\ BootstrapLocks'
    BY <2>1, <2>2 DEF Inv, LoginLocks, BootstrapLocks, SuperAdmins
  <2>5. QED BY <2>3, <2>4 DEF Inv
<1>9. QED
  BY <1>1, <1>2, <1>3, <1>4, <1>5, <1>6, <1>7, <1>8 DEF Next

\* The locks keep every INSERT away from the unique indexes
LEMMA InvNoConflict == Inv => InsertsNeverConflict
<1> SUFFICES ASSUME Inv, NEW r \in Requests
             PROVE  /\ req[r].pc = "login tx" => ~IndexRefuses(r)
                    /\ req[r].pc = "bootstrap tx" => SuperAdmins = {}
  BY DEF InsertsNeverConflict
<1>1. ASSUME req[r].pc = "login tx", Role[req[r].user] = "client",
             NEW s \in ActiveOf(req[r].user)
      PROVE  AfterLogin(req[r].user, s, req[r].active).status # "active"
  <2>1. s \in Sessions /\ s \in req[r].active /\ sessions[s].status = "active"
    BY <1>1 DEF Inv, LoginLocks, ActiveOf
  <2>2. Ended(s, "expired").status = "expired" /\ Ended(s, "revoked").status = "revoked"
    BY <2>1, EndedRow DEF Inv
  <2>3. CASE sessions[s].lapsed
    BY <2>1, <2>2, <2>3 DEF AfterLogin
  <2>4. CASE ~sessions[s].lapsed
    BY <1>1, <2>1, <2>2, <2>4 DEF AfterLogin
  <2>5. QED BY <2>3, <2>4
<1>2. req[r].pc = "login tx" => ~IndexRefuses(r)
  BY <1>1 DEF IndexRefuses
<1>3. QED BY <1>2 DEF Inv, BootstrapLocks

\* Rows and requests keep their type, and an active session has a user
THEOREM AccountsTypeCorrect == Spec => []TypeOK
<1>1. Inv => TypeOK
  BY DEF Inv
<1>2. QED BY <1>1, InitInv, NextInv, PTL DEF Spec

\* No login and no bootstrap is refused by a unique index: latest login wins
THEOREM InsertsNeverConflictCorrect == Spec => []InsertsNeverConflict
  BY InvNoConflict, InitInv, NextInv, PTL DEF Spec

\* revokeUserSessionsTx: a block or a reset ends every session that its account has at
\* that moment, and none is active after it that a login with the lock was opening
THEOREM RevocationEndsSessionsCorrect == Spec => []RevocationEndsSessions
<1>1. Inv => RevocationEndsSessions
  BY DEF Inv, OlderIsClosed
<1>2. QED BY <1>1, InitInv, NextInv, PTL DEF Spec

-------------------------------------------------------------------------------
(* Action properties                                                         *)

\* A step of one request leaves the records of the others alone
LEMMA OthersStay ==
  ASSUME Inv, NEW r \in Requests, NEW q \in Requests, q # r,
         NEW record, Becomes(q, record)
  PROVE  req'[r] = req[r]
  BY DEF Becomes, Inv, TypeOK

LEMMA ActorStep ==
  ASSUME Inv, Next, NEW r \in Requests, req[r].pc \in AdminOps, req'[r] # req[r],
         <<users', sessions'>> # <<users, sessions>>
  PROVE  users[req[r].user].status = "present"
<1>1. ASSUME NEW q \in Requests, ResetPassword(q) \/ BlockUser(q)
      PROVE  Becomes(q, Idle) /\ Audited(q)
  BY <1>1, NobodyIsOlder DEF ResetPassword, BlockUser, Ends
<1>2. ASSUME NEW q \in Requests, q # r, NEW record, Becomes(q, record) PROVE FALSE
  BY <1>2, OthersStay
<1>3. ASSUME NEW q \in Requests,
             CreateUser(q) \/ UnblockUser(q) \/ DeleteUser(q)
      PROVE  Becomes(q, Idle) /\ Audited(q)
  BY <1>3 DEF CreateUser, UnblockUser, DeleteUser, Ends
<1>4. ASSUME NEW q \in Requests,
             \/ BootstrapCommit(q) \/ LoginCommit(q) \/ Logout(q) \/ ChangePassword(q)
      PROVE  Becomes(q, Idle) /\ req[q].pc \notin AdminOps
  BY <1>4 DEF BootstrapCommit, LoginCommit, Logout, ChangePassword, Ends, AdminOps
<1>5. ASSUME NEW q \in Requests,
             \/ BootstrapLock(q) \/ LoginCheck(q) \/ LoginLock(q) \/ LogoutCheck(q)
             \/ ChangeCheck(q) \/ AdminCheck(q) \/ Abort(q)
      PROVE  FALSE
  BY <1>5 DEF BootstrapLock, LoginCheck, LoginLock, LogoutCheck, ChangeCheck, AdminCheck, Abort
<1>6. ASSUME NEW s \in Sessions, Lapse(s) PROVE FALSE
  BY <1>6 DEF Lapse
<1>7. Audited(r)
  BY <1>1, <1>2, <1>3, <1>4, <1>5, <1>6 DEF Next
<1>8. QED BY <1>7 DEF Audited, Present

\* What an administrator who was deleted had begun changes no table
THEOREM DeletedActorActsNoMoreCorrect == Spec => DeletedActorActsNoMore
<1>1. Inv /\ [Next]_vars =>
        [\A r \in Requests :
           req[r].pc \in AdminOps /\ req'[r] # req[r] /\ <<users', sessions'>> # <<users, sessions>>
             => users[req[r].user].status = "present"]_vars
  BY ActorStep
<1>2. QED BY <1>1, InitInv, NextInv, PTL DEF Spec, DeletedActorActsNoMore

\* The super administrator can be neither blocked nor deleted
SuperAdminsAreOpen == \A u \in Users : Role[u] = "super_admin" => ~users[u].blocked

LEMMA SuperAdminStep ==
  ASSUME Inv, [Next]_vars, NEW u \in Users, Role[u] = "super_admin"
  PROVE  users'[u].blocked = users[u].blocked /\ (Present(u) => users'[u].status = "present")
<1> users \in [Users -> Account]
  BY DEF Inv, TypeOK
<1>1. CASE users' = users
  BY <1>1 DEF Present
<1>2. ASSUME NEW r \in Requests, BootstrapCommit(r) PROVE users'[u].blocked = users[u].blocked
        /\ (Present(u) => users'[u].status = "present")
  <2>1. req[r].user \in Users
    BY <1>2 DEF BootstrapCommit, Inv, BootstrapLocks
  <2>2. QED BY <1>2, <2>1 DEF BootstrapCommit, Present, Account
<1>3. ASSUME NEW r \in Requests, ChangePassword(r) PROVE users'[u].blocked = users[u].blocked
        /\ (Present(u) => users'[u].status = "present")
  BY <1>3 DEF ChangePassword, Present, Account
<1>4. ASSUME NEW r \in Requests,
             CreateUser(r) \/ ResetPassword(r) \/ BlockUser(r) \/ UnblockUser(r) \/ DeleteUser(r)
      PROVE  users'[u] = users[u]
  <2>1. req[r].target # u
    BY <1>4 DEF CreateUser, ResetPassword, BlockUser, UnblockUser, DeleteUser, Inv,
                RequestFields, AdminOps
  <2>2. QED
    BY <1>4, <2>1 DEF CreateUser, ResetPassword, BlockUser, UnblockUser, DeleteUser
<1>5. ASSUME NEW r \in Requests,
             \/ BootstrapLock(r) \/ LoginCheck(r) \/ LoginLock(r) \/ LoginCommit(r)
             \/ LogoutCheck(r) \/ Logout(r) \/ ChangeCheck(r) \/ AdminCheck(r) \/ Abort(r)
      PROVE  users' = users
  BY <1>5 DEF BootstrapLock, LoginCheck, LoginLock, LoginCommit, LogoutCheck, Logout,
              ChangeCheck, AdminCheck, Abort
<1>6. ASSUME NEW s \in Sessions, Lapse(s) PROVE users' = users
  BY <1>6 DEF Lapse
<1>7. QED
  BY <1>1, <1>2, <1>3, <1>4, <1>5, <1>6 DEF Next, vars, Present

\* Once bootstrapped, the system always has a super administrator who can log in
THEOREM SuperAdminStaysCorrect == Spec => SuperAdminStays
<1>1. Init => SuperAdminsAreOpen
  BY DEF Init, SuperAdminsAreOpen
<1>2. Inv /\ SuperAdminsAreOpen /\ [Next]_vars => SuperAdminsAreOpen'
  BY SuperAdminStep DEF SuperAdminsAreOpen
<1>3. Inv /\ SuperAdminsAreOpen /\ [Next]_vars =>
        [SuperAdmins # {} =>
           \E u \in Users : Role[u] = "super_admin" /\ users'[u].status = "present"
                            /\ ~users'[u].blocked]_vars
  BY SuperAdminStep DEF SuperAdminsAreOpen, SuperAdmins
<1>4. QED BY <1>1, <1>2, <1>3, InitInv, NextInv, PTL DEF Spec, SuperAdminStays

-------------------------------------------------------------------------------
(* Requests that do not overlap                                              *)

\* One request at a time: the next begins when the last has ended or failed
OneAtATime == \A r, q \in Requests : req[r].pc # "idle" /\ req[q].pc # "idle" => r = q

SerialSpec == Spec /\ []OneAtATime

\* A login that passed its check
LoggingIn(q) == q.pc \in {"login", "login tx"}

\* Whose login goes on is not blocked
LoginsAreOpen == \A r \in Requests : LoggingIn(req[r]) => ~users[req[r].user].blocked

\* Who is blocked is logged in nowhere
BlockedIsOut ==
  \A s \in Sessions : sessions[s].status = "active" => ~users[sessions[s].user].blocked

\* Only the transaction of a block blocks an account
LEMMA BlockMoves ==
  ASSUME Inv, [Next]_vars, NEW u \in Users, users'[u].blocked, ~users[u].blocked
  PROVE  \E r \in Requests : BlockUser(r) /\ req[r].target = u
<1> users \in [Users -> Account]
  BY DEF Inv, TypeOK
<1>1. users' # users
  OBVIOUS
<1>2. ASSUME NEW r \in Requests, BootstrapCommit(r) PROVE FALSE
  <2>1. users' = [users EXCEPT ![req[r].user].status = "present"]
    BY <1>2 DEF BootstrapCommit
  <2>2. QED BY <2>1 DEF Account
<1>3. ASSUME NEW r \in Requests, ChangePassword(r) PROVE FALSE
  BY <1>3 DEF ChangePassword, Account
<1>4. ASSUME NEW r \in Requests,
             CreateUser(r) \/ ResetPassword(r) \/ UnblockUser(r) \/ DeleteUser(r)
      PROVE  FALSE
  <2>1. CASE CreateUser(r)
    BY <2>1 DEF CreateUser, Account
  <2>2. CASE ResetPassword(r)
    BY <2>2 DEF ResetPassword, Account
  <2>3. CASE UnblockUser(r)
    BY <2>3 DEF UnblockUser, Account
  <2>4. CASE DeleteUser(r)
    BY <2>4 DEF DeleteUser, Account
  <2>5. QED BY <1>4, <2>1, <2>2, <2>3, <2>4
<1>5. ASSUME NEW r \in Requests, BlockUser(r) PROVE req[r].target = u
  BY <1>5 DEF BlockUser, Account
<1>6. ASSUME NEW r \in Requests,
             \/ BootstrapLock(r) \/ LoginCheck(r) \/ LoginLock(r) \/ LoginCommit(r)
             \/ LogoutCheck(r) \/ Logout(r) \/ ChangeCheck(r) \/ AdminCheck(r) \/ Abort(r)
      PROVE  users' = users
  BY <1>6 DEF BootstrapLock, LoginCheck, LoginLock, LoginCommit, LogoutCheck, Logout,
              ChangeCheck, AdminCheck, Abort
<1>7. ASSUME NEW s \in Sessions, Lapse(s) PROVE users' = users
  BY <1>7 DEF Lapse
<1>8. QED BY <1>1, <1>2, <1>3, <1>4, <1>5, <1>6, <1>7 DEF Next, vars

\* A login starts with the check that its account is not blocked, and stays with it
LEMMA LoginMoves ==
  ASSUME Inv, [Next]_vars, NEW r \in Requests, LoggingIn(req'[r])
  PROVE  \/ LoggingIn(req[r]) /\ req'[r].user = req[r].user
         \/ users' = users /\ ~users[req'[r].user].blocked
<1> DEFINE Goal == \/ LoggingIn(req[r]) /\ req'[r].user = req[r].user
                   \/ users' = users /\ ~users[req'[r].user].blocked
<1>1. ASSUME req'[r] = req[r] PROVE Goal
  BY <1>1
<1>2. ASSUME NEW q \in Requests, NEW record, Becomes(q, record), req'[r] # req[r]
      PROVE  q = r /\ req'[r] = record
  BY <1>2 DEF Becomes, Inv, TypeOK
<1>3. ASSUME NEW q \in Requests, NEW record, Becomes(q, record), ~LoggingIn(record) PROVE Goal
  BY <1>1, <1>2, <1>3
<1>4. ASSUME NEW q \in Requests, Ends(q) PROVE Goal
  <2>1. ~LoggingIn(Idle)
    BY DEF LoggingIn, Idle
  <2>2. Becomes(q, Idle)
    BY <1>4 DEF Ends
  <2>3. QED BY <1>3, <2>1, <2>2
<1>5. ASSUME NEW q \in Requests,
             \/ BootstrapCommit(q) \/ LoginCommit(q) \/ Logout(q) \/ ChangePassword(q)
             \/ CreateUser(q) \/ UnblockUser(q) \/ DeleteUser(q) \/ Abort(q)
             \/ ResetPassword(q) \/ BlockUser(q)
      PROVE  Goal
  <2>1. Ends(q)
    BY <1>5, NobodyIsOlder DEF BootstrapCommit, LoginCommit, Logout, ChangePassword, CreateUser,
       UnblockUser, DeleteUser, Abort, ResetPassword, BlockUser
  <2>2. QED BY <1>4, <2>1
<1>6. ASSUME NEW q \in Requests,
             BootstrapLock(q) \/ LogoutCheck(q) \/ ChangeCheck(q) \/ AdminCheck(q)
      PROVE  Goal
  <2>1. PICK record : /\ Becomes(q, record)
                      /\ record.pc \in {"bootstrap tx", "logout", "change"} \cup AdminOps
    <3>1. CASE BootstrapLock(q)
      <4>1. PICK u : Becomes(q, [Idle EXCEPT !.pc = "bootstrap tx", !.user = u])
        BY <3>1 DEF BootstrapLock
      <4>2. [Idle EXCEPT !.pc = "bootstrap tx", !.user = u].pc = "bootstrap tx"
        BY DEF Idle
      <4>3. QED BY <4>1, <4>2
    <3>2. CASE LogoutCheck(q)
      <4>1. PICK s : Becomes(q, [Idle EXCEPT !.pc = "logout", !.session = s])
        BY <3>2 DEF LogoutCheck
      <4>2. [Idle EXCEPT !.pc = "logout", !.session = s].pc = "logout"
        BY DEF Idle
      <4>3. QED BY <4>1, <4>2
    <3>3. CASE ChangeCheck(q)
      <4>1. PICK u : Becomes(q, [Idle EXCEPT !.pc = "change", !.user = u])
        BY <3>3 DEF ChangeCheck, Becomes
      <4>2. [Idle EXCEPT !.pc = "change", !.user = u].pc = "change"
        BY DEF Idle
      <4>3. QED BY <4>1, <4>2
    <3>4. CASE AdminCheck(q)
      <4>1. PICK op, u, target :
              /\ op \in AdminOps
              /\ Becomes(q, [Idle EXCEPT !.pc = op, !.user = u, !.target = target])
        BY <3>4 DEF AdminCheck, Becomes
      <4>2. [Idle EXCEPT !.pc = op, !.user = u, !.target = target].pc = op
        BY DEF Idle
      <4>3. QED BY <4>1, <4>2
    <3>5. QED BY <1>6, <3>1, <3>2, <3>3, <3>4
  <2>2. ~LoggingIn(record)
    BY <2>1 DEF LoggingIn, AdminOps
  <2>3. QED BY <1>3, <2>1, <2>2
<1>7. ASSUME NEW q \in Requests, LoginCheck(q) PROVE Goal
  <2>1. PICK u : /\ ~users[u].blocked /\ users' = users
                 /\ Becomes(q, [Idle EXCEPT !.pc = "login", !.user = u])
    BY <1>7 DEF LoginCheck
  <2>2. [Idle EXCEPT !.pc = "login", !.user = u].user = u
    BY DEF Idle
  <2>3. QED BY <1>1, <1>2, <2>1, <2>2
<1>8. ASSUME NEW q \in Requests, LoginLock(q) PROVE Goal
  <2> DEFINE record == [req[q] EXCEPT !.pc = "login tx", !.active = ActiveOf(req[q].user)]
  <2>1. req' = [req EXCEPT ![q] = record] /\ req[q].pc = "login"
    BY <1>8 DEF LoginLock, Becomes
  <2>2. req[q] \in Request
    BY DEF Inv, TypeOK
  <2>3. record.user = req[q].user
    BY <2>2 DEF Request
  <2> HIDE DEF record
  <2>4. CASE q = r
    <3>1. req'[r] = record
      BY <2>1, <2>4 DEF Inv, TypeOK
    <3>2. LoggingIn(req[r])
      BY <2>1, <2>4 DEF LoggingIn
    <3>3. QED BY <2>3, <2>4, <3>1, <3>2
  <2>5. CASE q # r
    BY <1>1, <2>1, <2>5 DEF Inv, TypeOK
  <2>6. QED BY <2>4, <2>5
<1>9. ASSUME NEW s \in Sessions, Lapse(s) PROVE Goal
  BY <1>1, <1>9 DEF Lapse
<1>10. ASSUME UNCHANGED vars PROVE Goal
  BY <1>1, <1>10 DEF vars
<1> HIDE DEF Goal
<1>11. Goal
  BY <1>5, <1>6, <1>7, <1>8, <1>9, <1>10 DEF Next
<1>12. QED BY <1>11 DEF Goal

\* A session that becomes active is that of a login
LEMMA SessionMoves ==
  ASSUME Inv, [Next]_vars, NEW s \in Sessions, sessions'[s].status = "active"
  PROVE  \/ sessions[s].status = "active" /\ sessions'[s].user = sessions[s].user
         \/ \E r \in Requests : LoginCommit(r) /\ sessions'[s].user = req[r].user
<1> DEFINE Goal == \/ sessions[s].status = "active" /\ sessions'[s].user = sessions[s].user
                   \/ \E r \in Requests : LoginCommit(r) /\ sessions'[s].user = req[r].user
<1> TypeOK
  BY DEF Inv
<1>1. ASSUME sessions'[s] = sessions[s] PROVE Goal
  BY <1>1
<1>2. ASSUME NEW r \in Requests, LoginCommit(r) PROVE Goal
  <2> DEFINE u == req[r].user
  <2>1. PICK new \in Sessions : sessions'[s] = IF s = new
                         THEN [status |-> "active", user |-> u, lapsed |-> FALSE,
                               older |-> req[r].older]
                         ELSE AfterLogin(u, s, req[r].active)
    BY <1>2 DEF LoginCommit
  <2>2. CASE s = new
    BY <1>2, <2>1, <2>2
  <2>3. CASE s # new
    <3>1. /\ Ended(s, "expired").status = "expired" /\ Ended(s, "revoked").status = "revoked"
      BY EndedRow
    <3>2. AfterLogin(u, s, req[r].active) \in
            {sessions[s], Ended(s, "expired"), Ended(s, "revoked")}
      BY DEF AfterLogin, TypeOK, Session
    <3>3. QED BY <1>1, <2>1, <2>3, <3>1, <3>2
  <2>4. QED BY <2>2, <2>3
<1>3. ASSUME NEW r \in Requests, Logout(r) PROVE Goal
  <2> DEFINE t == req[r].session
  <2>1. t \in Sessions
    BY <1>3 DEF Logout, Inv, RequestFields
  <2>2. sessions' = sessions \/ sessions' = [sessions EXCEPT ![t] = Ended(t, "revoked")]
    BY <1>3 DEF Logout
  <2>3. sessions'[s] = sessions[s]
    BY <2>1, <2>2, EndedRow DEF TypeOK
  <2>4. QED BY <1>1, <2>3
<1>4. ASSUME NEW r \in Requests, ResetPassword(r) \/ BlockUser(r) PROVE Goal
  <2>1. sessions' = Aged(req[r].target, Revoked(req[r].target))
    BY <1>4 DEF ResetPassword, BlockUser
  <2>2. sessions'[s] = sessions[s]
    BY <2>1, RevokedEnds
  <2>3. QED BY <1>1, <2>2
<1>5. ASSUME NEW r \in Requests, DeleteUser(r) PROVE Goal
  <2>1. sessions'[s] = IF sessions[s].user = req[r].target
                         THEN [Ended(s, "deleted") EXCEPT !.user = None] ELSE sessions[s]
    BY <1>5 DEF DeleteUser, WithoutRowsOf
  <2>2. [Ended(s, "deleted") EXCEPT !.user = None].status = "deleted"
    BY EndedRow DEF Session
  <2>3. QED BY <1>1, <2>1, <2>2
<1>6. ASSUME NEW t \in Sessions, Lapse(t) PROVE Goal
  BY <1>1, <1>6 DEF Lapse, TypeOK, Session
<1>7. ASSUME NEW r \in Requests,
             \/ BootstrapLock(r) \/ BootstrapCommit(r) \/ LoginCheck(r) \/ LoginLock(r)
             \/ LogoutCheck(r) \/ ChangeCheck(r) \/ ChangePassword(r) \/ AdminCheck(r)
             \/ CreateUser(r) \/ UnblockUser(r) \/ Abort(r)
      PROVE  Goal
  <2>1. sessions' = sessions
    BY <1>7 DEF BootstrapLock, BootstrapCommit, LoginCheck, LoginLock, LogoutCheck, ChangeCheck,
       ChangePassword, AdminCheck, CreateUser, UnblockUser, Abort
  <2>2. QED BY <1>1, <2>1
<1>8. ASSUME UNCHANGED vars PROVE Goal
  BY <1>1, <1>8 DEF vars
<1> HIDE DEF Goal
<1>9. Goal
  BY <1>2, <1>3, <1>4, <1>5, <1>6, <1>7, <1>8 DEF Next
<1>10. QED BY <1>9 DEF Goal

\* A block meets no login under way, and ends what it finds
LEMMA BlockedStep ==
  ASSUME Inv, LoginsAreOpen, BlockedIsOut, OneAtATime, [Next]_vars
  PROVE  LoginsAreOpen' /\ BlockedIsOut'
<1>1. ASSUME NEW r \in Requests, LoggingIn(req'[r]) PROVE ~users'[req'[r].user].blocked
  <2>1. CASE LoggingIn(req[r]) /\ req'[r].user = req[r].user
    <3>1. req[r].user \in Users
      BY <2>1 DEF LoggingIn, Inv, RequestFields, LoginLocks
    <3>2. ~users[req[r].user].blocked
      BY <2>1 DEF LoginsAreOpen
    <3>3. ASSUME NEW q \in Requests, BlockUser(q) PROVE FALSE
      <4>1. req[q].pc = "block"
        BY <3>3 DEF BlockUser
      <4>2. req[r].pc # "idle" /\ req[r].pc # "block"
        BY <2>1 DEF LoggingIn
      <4>3. QED BY <4>1, <4>2 DEF OneAtATime
    <3>4. QED BY <2>1, <3>1, <3>2, <3>3, BlockMoves
  <2>2. CASE users' = users /\ ~users[req'[r].user].blocked
    BY <2>2
  <2>3. QED BY <1>1, <2>1, <2>2, LoginMoves
<1>2. ASSUME NEW s \in Sessions, sessions'[s].status = "active"
      PROVE  ~users'[sessions'[s].user].blocked
  <2>1. CASE sessions[s].status = "active" /\ sessions'[s].user = sessions[s].user
    <3>1. sessions[s].user \in Users /\ ~users[sessions[s].user].blocked
      BY <2>1, InvActive DEF ActiveIsSound, BlockedIsOut
    <3>2. ASSUME NEW r \in Requests, BlockUser(r), req[r].target = sessions[s].user PROVE FALSE
      <4>1. sessions' = Aged(req[r].target, Revoked(req[r].target))
        BY <3>2 DEF BlockUser
      <4>2. s \in ActiveOf(req[r].target)
        BY <2>1, <3>2 DEF ActiveOf
      <4>3. QED BY <1>2, <4>1, <4>2, RevokedEnds DEF Inv
    <3>3. QED BY <2>1, <3>1, <3>2, BlockMoves
  <2>2. ASSUME NEW r \in Requests, LoginCommit(r), sessions'[s].user = req[r].user
        PROVE  ~users'[sessions'[s].user].blocked
    <3>1. LoggingIn(req[r]) /\ users' = users
      BY <2>2 DEF LoginCommit, LoggingIn
    <3>2. QED BY <2>2, <3>1 DEF LoginsAreOpen
  <2>3. QED BY <1>2, <2>1, <2>2, SessionMoves
<1>3. QED BY <1>1, <1>2 DEF LoginsAreOpen, BlockedIsOut

\* As long as requests do not overlap, who is blocked has no active session, and an
\* unblock brings none back: what opens one after a block is a login that passed its
\* check before it, since handleLogin's transaction does not look at the block again
THEOREM BlockedIsOutCorrect == SerialSpec => []BlockedIsOut
<1>1. Init => LoginsAreOpen /\ BlockedIsOut
  <2>1. ~LoggingIn(Idle)
    BY DEF LoggingIn, Idle
  <2>2. Init => LoginsAreOpen
    BY <2>1 DEF Init, LoginsAreOpen
  <2>3. Init => BlockedIsOut
    BY DEF Init, BlockedIsOut
  <2>4. QED BY <2>2, <2>3
<1>2. Inv /\ LoginsAreOpen /\ BlockedIsOut /\ OneAtATime /\ [Next]_vars
      => LoginsAreOpen' /\ BlockedIsOut'
  BY BlockedStep
<1>3. QED BY <1>1, <1>2, InitInv, NextInv, PTL DEF SerialSpec, Spec

-------------------------------------------------------------------------------
(* The refinement of LoginRegister                                           *)

\* What a login has found are sessions of its account, also after they have ended
FoundIsOwn ==
  \A r \in Requests : req[r].pc = "login tx" =>
    \A s \in req[r].active : /\ sessions[s].status # "none"
                             /\ Active(s) => sessions[s].user = req[r].user

\* Who asked for an operation ranks above the account it is about; roles never change
ActorRanksAbove ==
  \A r \in Requests : req[r].pc \in AdminOps => CanCreateRole(req[r].user, Role[req[r].target])

\* A super administrator is never deleted, so that who bootstraps is new
SuperAdminsAreKept == \A u \in Users : Role[u] = "super_admin" => users[u].status # "deleted"

\* A number that is not used yet belongs to nobody
UnusedIsFree == \A s \in Sessions : sessions[s].status = "none" => sessions[s].user = None

RegisterInv == FoundIsOwn /\ ActorRanksAbove /\ SuperAdminsAreKept /\ UnusedIsFree

\* The record of a request changes with the check that fills it, or is cleared
LEMMA RequestMoves ==
  ASSUME Inv, [Next]_vars, NEW r \in Requests
  PROVE  \/ req'[r] \in {req[r], Idle}
         \/ BootstrapLock(r) \/ LoginCheck(r) \/ LoginLock(r)
         \/ LogoutCheck(r) \/ ChangeCheck(r) \/ AdminCheck(r)
<1>1. ASSUME NEW q \in Requests, NEW record, Becomes(q, record), req'[r] # req[r]
      PROVE  q = r /\ req'[r] = record
  BY <1>1 DEF Becomes, Inv, TypeOK
<1>2. ASSUME NEW q \in Requests,
             \/ BootstrapCommit(q) \/ LoginCommit(q) \/ Logout(q) \/ ChangePassword(q)
             \/ CreateUser(q) \/ UnblockUser(q) \/ DeleteUser(q) \/ Abort(q)
             \/ ResetPassword(q) \/ BlockUser(q)
      PROVE  req'[r] \in {req[r], Idle}
  <2>1. Ends(q)
    BY <1>2, NobodyIsOlder DEF BootstrapCommit, LoginCommit, Logout, ChangePassword, CreateUser,
       UnblockUser, DeleteUser, Abort, ResetPassword, BlockUser
  <2>2. Becomes(q, Idle)
    BY <2>1 DEF Ends
  <2>3. QED BY <1>1, <2>2
<1>3. ASSUME NEW q \in Requests, q # r,
             \/ BootstrapLock(q) \/ LoginCheck(q) \/ LoginLock(q)
             \/ LogoutCheck(q) \/ ChangeCheck(q) \/ AdminCheck(q)
      PROVE  req'[r] = req[r]
  <2>1. PICK record : Becomes(q, record)
    BY <1>3 DEF BootstrapLock, LoginCheck, LoginLock, LogoutCheck, ChangeCheck, AdminCheck,
                Becomes
  <2>2. QED BY <1>1, <1>3, <2>1
<1>4. ASSUME UNCHANGED vars \/ \E s \in Sessions : Lapse(s) PROVE req'[r] = req[r]
  BY <1>4 DEF Lapse, vars
<1>5. QED BY <1>2, <1>3, <1>4 DEF Next

\* Rows are inserted by a login, and only end after that
LEMMA RowMoves ==
  ASSUME Inv, [Next]_vars, NEW s \in Sessions, sessions[s].status # "none"
  PROVE  /\ sessions'[s].status # "none"
         /\ sessions'[s].status = "active" =>
              sessions[s].status = "active" /\ sessions'[s].user = sessions[s].user
<1> DEFINE Goal == /\ sessions'[s].status # "none"
                   /\ sessions'[s].status = "active" =>
                        sessions[s].status = "active" /\ sessions'[s].user = sessions[s].user
<1> TypeOK
  BY DEF Inv
<1>1. ASSUME sessions'[s] = sessions[s] PROVE Goal
  BY <1>1
<1>2. ASSUME NEW status \in {"expired", "revoked"}, sessions'[s] = Ended(s, status) PROVE Goal
  BY <1>2, EndedRow
<1>3. ASSUME NEW r \in Requests, LoginCommit(r) PROVE Goal
  <2>1. AfterLogin(req[r].user, s, req[r].active) \in
          {sessions[s], Ended(s, "expired"), Ended(s, "revoked")}
    BY DEF AfterLogin, TypeOK, Session
  <2>2. PICK new \in Sessions :
          /\ sessions[new].status = "none"
          /\ sessions'[s] = IF s = new
                              THEN [status |-> "active", user |-> req[r].user, lapsed |-> FALSE,
                                    older |-> req[r].older]
                              ELSE AfterLogin(req[r].user, s, req[r].active)
    BY <1>3 DEF LoginCommit, NewRow
  <2>3. QED BY <1>1, <1>2, <2>1, <2>2
<1>4. ASSUME NEW r \in Requests, Logout(r) PROVE Goal
  <2> DEFINE t == req[r].session
  <2>1. t \in Sessions
    BY <1>4 DEF Logout, Inv, RequestFields
  <2>2. sessions' = sessions \/ sessions' = [sessions EXCEPT ![t] = Ended(t, "revoked")]
    BY <1>4 DEF Logout
  <2>3. sessions'[s] = sessions[s] \/ sessions'[s] = Ended(s, "revoked")
    BY <2>1, <2>2 DEF TypeOK
  <2>4. QED BY <1>1, <1>2, <2>3
<1>5. ASSUME NEW r \in Requests, ResetPassword(r) \/ BlockUser(r) PROVE Goal
  <2>1. sessions' = Aged(req[r].target, Revoked(req[r].target))
    BY <1>5 DEF ResetPassword, BlockUser
  <2>2. /\ sessions'[s].status # "none"
        /\ sessions'[s].status = "active" => sessions'[s] = sessions[s]
    BY <2>1, RevokedEnds
  <2>3. QED BY <2>2
<1>6. ASSUME NEW r \in Requests, DeleteUser(r) PROVE Goal
  <2>1. sessions'[s] = IF sessions[s].user = req[r].target
                         THEN [Ended(s, "deleted") EXCEPT !.user = None] ELSE sessions[s]
    BY <1>6 DEF DeleteUser, WithoutRowsOf
  <2>2. [Ended(s, "deleted") EXCEPT !.user = None].status = "deleted"
    BY EndedRow DEF Session
  <2>3. QED BY <1>1, <2>1, <2>2
<1>7. ASSUME NEW t \in Sessions, Lapse(t) PROVE Goal
  BY <1>7 DEF Lapse, TypeOK, Session
<1>8. ASSUME NEW r \in Requests,
             \/ BootstrapLock(r) \/ BootstrapCommit(r) \/ LoginCheck(r) \/ LoginLock(r)
             \/ LogoutCheck(r) \/ ChangeCheck(r) \/ ChangePassword(r) \/ AdminCheck(r)
             \/ CreateUser(r) \/ UnblockUser(r) \/ Abort(r)
      PROVE  Goal
  <2>1. sessions' = sessions
    BY <1>8 DEF BootstrapLock, BootstrapCommit, LoginCheck, LoginLock, LogoutCheck, ChangeCheck,
       ChangePassword, AdminCheck, CreateUser, UnblockUser, Abort
  <2>2. QED BY <1>1, <2>1
<1>9. ASSUME UNCHANGED vars PROVE Goal
  BY <1>1, <1>9 DEF vars
<1> HIDE DEF Goal
<1>10. Goal
  BY <1>3, <1>4, <1>5, <1>6, <1>7, <1>8, <1>9 DEF Next
<1>11. QED BY <1>10 DEF Goal

\* What the records hold after the checks
LEMMA CheckRecords ==
  ASSUME Inv, NEW r \in Requests
  PROVE  /\ BootstrapLock(r) => req'[r].pc = "bootstrap tx"
         /\ LoginCheck(r) => req'[r].pc = "login"
         /\ LoginLock(r) => req'[r].pc = "login tx"
         /\ LogoutCheck(r) => req'[r].pc = "logout"
         /\ ChangeCheck(r) => req'[r].pc = "change"
         /\ AdminCheck(r) => /\ req'[r].pc \in AdminOps
                             /\ CanCreateRole(req'[r].user, Role[req'[r].target])
<1>1. ASSUME NEW record, Becomes(r, record) PROVE req'[r] = record
  BY <1>1 DEF Becomes, Inv, TypeOK
<1>2. ASSUME BootstrapLock(r) PROVE req'[r].pc = "bootstrap tx"
  <2>1. PICK u : Becomes(r, [Idle EXCEPT !.pc = "bootstrap tx", !.user = u])
    BY <1>2 DEF BootstrapLock
  <2>2. QED BY <1>1, <2>1 DEF Idle
<1>3. ASSUME LoginCheck(r) PROVE req'[r].pc = "login"
  <2>1. PICK u : Becomes(r, [Idle EXCEPT !.pc = "login", !.user = u])
    BY <1>3 DEF LoginCheck
  <2>2. QED BY <1>1, <2>1 DEF Idle
<1>4. ASSUME LoginLock(r) PROVE req'[r].pc = "login tx"
  <2> DEFINE record == [req[r] EXCEPT !.pc = "login tx", !.active = ActiveOf(req[r].user)]
  <2>1. record.pc = "login tx"
    BY DEF Inv, TypeOK, Request
  <2>2. req'[r] = record
    BY <1>4 DEF LoginLock, Becomes, Inv, TypeOK
  <2>3. QED BY <2>1, <2>2
<1>5. ASSUME LogoutCheck(r) PROVE req'[r].pc = "logout"
  <2>1. PICK s : Becomes(r, [Idle EXCEPT !.pc = "logout", !.session = s])
    BY <1>5 DEF LogoutCheck
  <2>2. QED BY <1>1, <2>1 DEF Idle
<1>6. ASSUME ChangeCheck(r) PROVE req'[r].pc = "change"
  <2>1. PICK u : Becomes(r, [Idle EXCEPT !.pc = "change", !.user = u])
    BY <1>6 DEF ChangeCheck, Becomes
  <2>2. QED BY <1>1, <2>1 DEF Idle
<1>7. ASSUME AdminCheck(r)
      PROVE  req'[r].pc \in AdminOps /\ CanCreateRole(req'[r].user, Role[req'[r].target])
  <2>1. PICK s \in Sessions, op \in AdminOps, target \in Users :
          /\ CanCreateRole(sessions[s].user, Role[target])
          /\ Becomes(r, [Idle EXCEPT !.pc = op, !.user = sessions[s].user, !.target = target])
    BY <1>7 DEF AdminCheck, CanManage
  <2>2. PICK u : u = sessions[s].user
    OBVIOUS
  <2> DEFINE record == [Idle EXCEPT !.pc = op, !.user = u, !.target = target]
  <2>3. record.pc = op /\ record.user = u /\ record.target = target
    BY DEF Idle
  <2>4. req'[r] = record /\ CanCreateRole(u, Role[target])
    BY <1>1, <2>1, <2>2
  <2> HIDE DEF record
  <2>5. QED BY <2>1, <2>3, <2>4
<1>8. QED BY <1>2, <1>3, <1>4, <1>5, <1>6, <1>7

LEMMA RegisterInvStep ==
  ASSUME Inv, RegisterInv, [Next]_vars PROVE RegisterInv'
<1>1. FoundIsOwn'
  <2> SUFFICES ASSUME NEW r \in Requests, req'[r].pc = "login tx", NEW s \in req'[r].active
               PROVE  /\ sessions'[s].status # "none"
                      /\ sessions'[s].status = "active" => sessions'[s].user = req'[r].user
    BY DEF FoundIsOwn, Active
  <2>1. CASE req'[r] = req[r]
    <3>1. /\ s \in Sessions /\ sessions[s].status # "none"
          /\ sessions[s].status = "active" => sessions[s].user = req[r].user
      BY <2>1 DEF RegisterInv, FoundIsOwn, Active, Inv, TypeOK, Request
    <3>2. QED BY <2>1, <3>1, RowMoves
  <2>2. CASE LoginLock(r)
    <3> DEFINE record == [req[r] EXCEPT !.pc = "login tx", !.active = ActiveOf(req[r].user)]
    <3>1. record.user = req[r].user /\ record.active = ActiveOf(req[r].user)
      BY DEF Inv, TypeOK, Request
    <3>2. req'[r] = record /\ sessions' = sessions
      BY <2>2 DEF LoginLock, Becomes, Inv, TypeOK
    <3> HIDE DEF record
    <3>3. s \in ActiveOf(req[r].user) /\ req'[r].user = req[r].user
      BY <3>1, <3>2
    <3>4. QED BY <3>2, <3>3 DEF ActiveOf
  <2>3. CASE req'[r] = Idle
    BY <2>3 DEF Idle
  <2>4. ASSUME BootstrapLock(r) \/ LoginCheck(r) \/ LogoutCheck(r) \/ ChangeCheck(r)
               \/ AdminCheck(r)
        PROVE  req'[r].pc # "login tx"
    BY <2>4, CheckRecords DEF AdminOps
  <2>5. QED BY <2>1, <2>2, <2>3, <2>4, RequestMoves
<1>2. ActorRanksAbove'
  <2> SUFFICES ASSUME NEW r \in Requests, req'[r].pc \in AdminOps
               PROVE  CanCreateRole(req'[r].user, Role[req'[r].target])
    BY DEF ActorRanksAbove, CanCreateRole
  <2>1. CASE req'[r] = req[r]
    BY <2>1 DEF RegisterInv, ActorRanksAbove
  <2>2. CASE AdminCheck(r)
    BY <2>2, CheckRecords
  <2>3. CASE req'[r] = Idle
    BY <2>3 DEF Idle, AdminOps
  <2>4. ASSUME BootstrapLock(r) \/ LoginCheck(r) \/ LoginLock(r) \/ LogoutCheck(r)
               \/ ChangeCheck(r)
        PROVE  req'[r].pc \notin AdminOps
    BY <2>4, CheckRecords DEF AdminOps
  <2>5. QED BY <2>1, <2>2, <2>3, <2>4, RequestMoves
<1>3. SuperAdminsAreKept'
  <2> SUFFICES ASSUME NEW u \in Users, Role[u] = "super_admin", users[u].status # "deleted"
               PROVE  users'[u].status # "deleted"
    BY DEF RegisterInv, SuperAdminsAreKept
  <2> users \in [Users -> Account]
    BY DEF Inv, TypeOK
  <2>1. ASSUME NEW r \in Requests, BootstrapCommit(r) PROVE users'[u].status # "deleted"
    BY <2>1 DEF BootstrapCommit, Account
  <2>2. ASSUME NEW r \in Requests, ChangePassword(r) PROVE users'[u].status # "deleted"
    BY <2>2 DEF ChangePassword, Account
  <2>3. ASSUME NEW r \in Requests,
               CreateUser(r) \/ ResetPassword(r) \/ BlockUser(r) \/ UnblockUser(r) \/ DeleteUser(r)
        PROVE  users'[u].status # "deleted"
    <3>1. req[r].target # u
      BY <2>3 DEF CreateUser, ResetPassword, BlockUser, UnblockUser, DeleteUser, Inv,
                  RequestFields, AdminOps
    <3>2. users'[u] = users[u]
      BY <2>3, <3>1 DEF CreateUser, ResetPassword, BlockUser, UnblockUser, DeleteUser
    <3>3. QED BY <3>2
  <2>4. ASSUME \/ UNCHANGED vars \/ \E s \in Sessions : Lapse(s)
               \/ \E r \in Requests :
                    \/ BootstrapLock(r) \/ LoginCheck(r) \/ LoginLock(r) \/ LoginCommit(r)
                    \/ LogoutCheck(r) \/ Logout(r) \/ ChangeCheck(r) \/ AdminCheck(r) \/ Abort(r)
        PROVE  users' = users
    BY <2>4 DEF BootstrapLock, LoginCheck, LoginLock, LoginCommit, LogoutCheck, Logout,
                ChangeCheck, AdminCheck, Abort, Lapse, vars
  <2>5. QED BY <2>1, <2>2, <2>3, <2>4 DEF Next
<1>4. UnusedIsFree'
  <2> SUFFICES ASSUME NEW s \in Sessions, sessions'[s].status = "none"
               PROVE  sessions'[s].user = None
    BY DEF UnusedIsFree
  <2>1. sessions[s].status = "none" /\ sessions[s].user = None /\ TypeOK
    BY RowMoves DEF RegisterInv, UnusedIsFree, Inv
  <2>2. ASSUME NEW r \in Requests, LoginCommit(r) PROVE sessions'[s] = sessions[s]
    <3>1. PICK new \in Sessions :
            sessions'[s] = IF s = new
                             THEN [status |-> "active", user |-> req[r].user, lapsed |-> FALSE,
                                   older |-> req[r].older]
                             ELSE AfterLogin(req[r].user, s, req[r].active)
      BY <2>2 DEF LoginCommit
    <3>2. sessions'[s] = AfterLogin(req[r].user, s, req[r].active)
      BY <3>1
    <3>3. QED BY <2>1, <3>2 DEF AfterLogin
  <2>3. ASSUME NEW r \in Requests, Logout(r) PROVE sessions'[s] = sessions[s]
    BY <2>1, <2>3 DEF Logout, TypeOK
  <2>4. ASSUME NEW r \in Requests, ResetPassword(r) \/ BlockUser(r)
        PROVE  sessions'[s] = sessions[s]
    <3>1. req[r].target \in Users /\ req[r].target # None
      BY <2>4, AccountsAssumption
         DEF ResetPassword, BlockUser, Inv, RequestFields, AdminOps
    <3>2. sessions' = Aged(req[r].target, Revoked(req[r].target))
      BY <2>4 DEF ResetPassword, BlockUser
    <3>3. QED BY <2>1, <3>1, <3>2, RevokedEnds
  <2>5. ASSUME NEW r \in Requests, DeleteUser(r) PROVE sessions'[s] = sessions[s]
    <3>1. req[r].target \in Users
      BY <2>5 DEF DeleteUser, Inv, RequestFields, AdminOps
    <3>2. QED BY <2>1, <2>5, <3>1, AccountsAssumption DEF DeleteUser, WithoutRowsOf
  <2>6. ASSUME NEW t \in Sessions, Lapse(t) PROVE sessions'[s] = sessions[s]
    BY <2>1, <2>6 DEF Lapse, TypeOK
  <2>7. ASSUME \/ UNCHANGED vars
               \/ \E r \in Requests :
                    \/ BootstrapLock(r) \/ BootstrapCommit(r) \/ LoginCheck(r) \/ LoginLock(r)
                    \/ LogoutCheck(r) \/ ChangeCheck(r) \/ ChangePassword(r) \/ AdminCheck(r)
                    \/ CreateUser(r) \/ UnblockUser(r) \/ Abort(r)
        PROVE  sessions'[s] = sessions[s]
    BY <2>7 DEF BootstrapLock, BootstrapCommit, LoginCheck, LoginLock, LogoutCheck, ChangeCheck,
       ChangePassword, AdminCheck, CreateUser, UnblockUser, Abort, vars
  <2>8. sessions'[s] = sessions[s]
    BY <2>2, <2>3, <2>4, <2>5, <2>6, <2>7 DEF Next
  <2>9. QED BY <2>1, <2>8
<1>5. QED BY <1>1, <1>2, <1>3, <1>4 DEF RegisterInv

\* A step that leaves a table alone leaves its part of the register alone
LEMMA TablesStay ==
  /\ sessions' = sessions => Register!SameSessions
  /\ users' = users => Register!SameAccounts
  BY DEF Register!SameSessions, Register!SameAccounts, Active

\* The sessions of a set end, and the others stay as they are
LEMMA RowsClose ==
  ASSUME Inv, NEW set,
         \A s \in Sessions :
           /\ sessions[s].status = "none" <=> sessions'[s].status = "none"
           /\ Active(s) /\ s \notin set => sessions'[s] = sessions[s]
           /\ Active(s)' => Active(s) /\ s \notin set
  PROVE  Register!Close(set)
<1>1. ASSUME NEW s \in Sessions
      PROVE  /\ Active(s)' <=> Active(s) /\ s \notin set
             /\ Active(s) /\ s \notin set => sessions'[s] = sessions[s]
             /\ sessions'[s].status = "none" <=> sessions[s].status = "none"
  BY DEF Active
<1>2. [s \in Sessions |-> IF Active(s) THEN sessions[s].user ELSE None]'
        = [s \in Sessions |-> IF s \in set THEN None
             ELSE [t \in Sessions |-> IF Active(t) THEN sessions[t].user ELSE None][s]]
  BY <1>1
<1>3. {s \in Sessions : Active(s) /\ sessions[s].lapsed}'
        = {s \in Sessions : Active(s) /\ sessions[s].lapsed} \ set
  BY <1>1
<1>4. {s \in Sessions : sessions[s].status # "none"}'
        = {s \in Sessions : sessions[s].status # "none"}
  BY <1>1
<1>5. QED BY <1>2, <1>3, <1>4 DEF Register!Close

\* The open sessions of an account are its active rows
LEMMA OpenRows ==
  ASSUME NEW u \in Users PROVE Register!OpenOf(u) = ActiveOf(u)
  BY AccountsAssumption DEF Register!OpenOf, ActiveOf, Active

LEMMA ActorIsThere ==
  ASSUME Inv, RegisterInv, NEW r \in Requests, req[r].pc \in AdminOps, Audited(r)
  PROVE  req[r].target \in Users /\ Register!Supervised(req[r].target)
<1>1. /\ req[r].user \in Users /\ req[r].target \in Users
      /\ CanCreateRole(req[r].user, Role[req[r].target])
  BY DEF Inv, RequestFields, RegisterInv, ActorRanksAbove
<1>2. users[req[r].user].status = "present"
  BY DEF Audited, Present
<1>3. QED BY <1>1, <1>2 DEF Register!Supervised, CanCreateRole

-------------------------------------------------------------------------------
\* The row of a login replaces what it has found, which is what is open when it commits
LEMMA LoginIsOneStep ==
  ASSUME Inv, RegisterInv, NEW r \in Requests, LoginCommit(r)
  PROVE  Register!Next
<1>1. PICK u : u = req[r].user
  OBVIOUS
<1>2. PICK found : found = req[r].active
  OBVIOUS
<1>3. /\ u \in Users /\ users[u].status = "present" /\ users' = users /\ TypeOK
      /\ ActiveOf(u) \subseteq found
      /\ \A s \in found : Active(s) => sessions[s].user = u
  BY <1>1, <1>2 DEF LoginCommit, Present, Inv, LoginLocks, RegisterInv, FoundIsOwn
<1>4. PICK new \in Sessions :
        /\ sessions[new].status = "none"
        /\ \A s \in Sessions :
             sessions'[s] = IF s = new
                              THEN [status |-> "active", user |-> u, lapsed |-> FALSE,
                                    older |-> req[r].older]
                              ELSE AfterLogin(u, s, found)
  BY <1>1, <1>2 DEF LoginCommit, NewRow
<1>5. /\ sessions'[new].status = "active" /\ sessions'[new].user = u
      /\ sessions'[new].lapsed = FALSE
  BY <1>4
<1> DEFINE Goes(s) == s \in ActiveOf(u) /\ (Role[u] = "client" \/ sessions[s].lapsed)
<1>6. ASSUME NEW s \in Sessions, s # new
      PROVE  /\ Goes(s) => sessions'[s].status \notin {"none", "active"}
             /\ ~Goes(s) => sessions'[s] = sessions[s]
  <2>1. sessions'[s] = AfterLogin(u, s, found)
    BY <1>4, <1>6
  <2>2. /\ Ended(s, "expired").status = "expired" /\ Ended(s, "revoked").status = "revoked"
    BY <1>3, EndedRow
  <2>3. CASE s \notin found \/ sessions[s].status # "active"
    <3>1. sessions'[s] = sessions[s] /\ ~Goes(s)
      BY <1>3, <2>1, <2>3 DEF AfterLogin, ActiveOf
    <3>2. QED BY <3>1
  <2>4. CASE s \in found /\ sessions[s].status = "active" /\ sessions[s].lapsed
    <3>1. sessions'[s] = Ended(s, "expired")
      BY <2>1, <2>4 DEF AfterLogin
    <3>2. Goes(s)
      BY <1>3, <2>4 DEF ActiveOf, Active
    <3>3. QED BY <2>2, <3>1, <3>2
  <2>5. CASE s \in found /\ sessions[s].status = "active" /\ ~sessions[s].lapsed
    <3>1. sessions'[s] = IF Role[u] = "client" THEN Ended(s, "revoked") ELSE sessions[s]
      BY <2>1, <2>5 DEF AfterLogin
    <3>2. Goes(s) <=> Role[u] = "client"
      BY <1>3, <2>5 DEF ActiveOf, Active
    <3>3. QED BY <2>2, <3>1, <3>2
  <2>6. QED BY <2>3, <2>4, <2>5
<1>7. PICK replaced : replaced = {s \in Sessions : Goes(s)}
  OBVIOUS
<1>8. \A s \in Sessions : s \in replaced <=> Goes(s)
  BY <1>7
<1>9. ASSUME NEW s \in Sessions
      PROVE  /\ Active(s)' <=> s = new \/ (Active(s) /\ s \notin replaced)
             /\ (sessions'[s].status # "none") <=> s = new \/ sessions[s].status # "none"
             /\ s # new /\ s \notin replaced => sessions'[s] = sessions[s]
  BY <1>4, <1>5, <1>6, <1>8 DEF Active, ActiveOf
<1> HIDE DEF Goes
<1> DEFINE owner == [s \in Sessions |-> IF Active(s) THEN sessions[s].user ELSE None]
           lapsed == {s \in Sessions : Active(s) /\ sessions[s].lapsed}
           used == {s \in Sessions : sessions[s].status # "none"}
<1>10. replaced = {s \in Register!OpenOf(u) : Role[u] = "client" \/ s \in lapsed}
  BY <1>3, <1>7, OpenRows DEF Goes, ActiveOf, Active
<1>11. owner' = [s \in Sessions |-> IF s = new THEN u
                                    ELSE IF s \in replaced THEN None ELSE owner[s]]
  BY <1>5, <1>9
<1>12. lapsed' = lapsed \ replaced
  BY <1>4, <1>5, <1>9 DEF Active
<1>13. used' = used \cup {new} /\ new \notin used
  BY <1>4, <1>9
<1>14. Register!SameAccounts
  BY <1>3, TablesStay
<1>15. Register!Login(u, new)
  BY <1>3, <1>10, <1>11, <1>12, <1>13, <1>14 DEF Register!Login
<1>16. QED BY <1>3, <1>15 DEF Register!Next

\* The end of a session, which is no step of the register when it has ended before
LEMMA LogoutIsOneStep ==
  ASSUME Inv, NEW r \in Requests, Logout(r)
  PROVE  Register!Next \/ UNCHANGED Register!vars
<1>1. PICK s : s = req[r].session
  OBVIOUS
<1>2. /\ s \in Sessions /\ users' = users /\ TypeOK
      /\ sessions' = IF sessions[s].status = "active"
                       THEN [sessions EXCEPT ![s] = Ended(s, "revoked")] ELSE sessions
  BY <1>1 DEF Logout, Inv, RequestFields
<1>3. CASE ~Active(s)
  <2>1. sessions' = sessions
    BY <1>2, <1>3 DEF Active
  <2>2. QED BY <1>2, <2>1 DEF Register!vars, Active
<1>4. CASE Active(s)
  <2>1. \A t \in Sessions : sessions'[t] = IF t = s THEN Ended(s, "revoked") ELSE sessions[t]
    BY <1>2, <1>4 DEF Active, TypeOK
  <2>2. Register!Close({s})
    BY <1>2, <1>4, <2>1, EndedRow, RowsClose DEF Active
  <2>3. sessions[s].user # None
    BY <1>2, <1>4, InvActive, AccountsAssumption DEF Active, ActiveIsSound
  <2>4. Register!SameAccounts
    BY <1>2, TablesStay
  <2>5. Register!Logout(s)
    BY <1>2, <1>4, <2>2, <2>3, <2>4 DEF Register!Logout
  <2>6. QED BY <1>2, <2>5 DEF Register!Next
<1>5. QED BY <1>3, <1>4

LEMMA LapseIsOneStep ==
  ASSUME Inv, NEW s \in Sessions, Lapse(s)
  PROVE  Register!Next
<1>1. /\ users' = users /\ Active(s)
      /\ sessions' = [sessions EXCEPT ![s].lapsed = TRUE]
  BY DEF Lapse, Active
<1>2. \A t \in Sessions : /\ sessions'[t].status = sessions[t].status
                          /\ sessions'[t].user = sessions[t].user
                          /\ sessions'[t].lapsed <=> t = s \/ sessions[t].lapsed
  BY <1>1 DEF Inv, TypeOK, Session
<1>3. sessions[s].user # None
  BY <1>1, InvActive, AccountsAssumption DEF Active, ActiveIsSound
<1>4. Register!SameAccounts
  BY <1>1, TablesStay
<1>5. Register!Lapse(s)
  BY <1>1, <1>2, <1>3, <1>4 DEF Register!Lapse, Active
<1>6. QED BY <1>5 DEF Register!Next

\* A step of a transaction about account u changes the register only there
LEMMA AccountMoves ==
  ASSUME Inv, NEW u \in Users, \A v \in Users \ {u} : users'[v] = users[v]
  PROVE  /\ [v \in Users |-> users[v].status]'
              = [[v \in Users |-> users[v].status] EXCEPT ![u] = users'[u].status]
         /\ {v \in Users : users[v].blocked}'
              = IF users'[u].blocked THEN {v \in Users : users[v].blocked} \cup {u}
                ELSE {v \in Users : users[v].blocked} \ {u}
         /\ {v \in Users : users[v].must_change_password}'
              = IF users'[u].must_change_password
                  THEN {v \in Users : users[v].must_change_password} \cup {u}
                ELSE {v \in Users : users[v].must_change_password} \ {u}
<1>1. [v \in Users |-> users[v].status]'
        = [[v \in Users |-> users[v].status] EXCEPT ![u] = users'[u].status]
  OBVIOUS
<1>2. {v \in Users : users[v].blocked}'
        = IF users'[u].blocked THEN {v \in Users : users[v].blocked} \cup {u}
          ELSE {v \in Users : users[v].blocked} \ {u}
  OBVIOUS
<1>3. {v \in Users : users[v].must_change_password}'
        = IF users'[u].must_change_password
            THEN {v \in Users : users[v].must_change_password} \cup {u}
          ELSE {v \in Users : users[v].must_change_password} \ {u}
  OBVIOUS
<1>4. QED BY <1>1, <1>2, <1>3

\* The first super administrator and the password of an account
LEMMA OwnAccountIsOneStep ==
  ASSUME Inv, RegisterInv, NEW r \in Requests, BootstrapCommit(r) \/ ChangePassword(r)
  PROVE  Register!Next
<1>1. PICK u : u = req[r].user
  OBVIOUS
<1> users \in [Users -> Account]
  BY DEF Inv, TypeOK
<1>2. CASE BootstrapCommit(r)
  <2>1. /\ u \in Users /\ Role[u] = "super_admin" /\ sessions' = sessions /\ SuperAdmins = {}
        /\ users' = [users EXCEPT ![u].status = "present"]
    BY <1>1, <1>2 DEF BootstrapCommit, Inv, BootstrapLocks
  <2>2. users[u].status \in {"absent", "present", "deleted"}
    BY <2>1 DEF Account
  <2>3. users[u].status = "absent"
    BY <2>1, <2>2 DEF RegisterInv, SuperAdminsAreKept, SuperAdmins, Present
  <2>4. /\ users'[u].status = "present" /\ users'[u].blocked = users[u].blocked
        /\ users'[u].must_change_password = users[u].must_change_password
        /\ \A v \in Users \ {u} : users'[v] = users[v]
    BY <2>1 DEF Account
  <2>5. Register!SameSessions
    BY <2>1, TablesStay
  <2>6. \A v \in Users : Role[v] = "super_admin" => users[v].status # "present"
    BY <2>1 DEF SuperAdmins, Present
  <2>7. Register!Bootstrap(u)
    BY <2>1, <2>3, <2>4, <2>5, <2>6, AccountMoves DEF Register!Bootstrap
  <2>8. QED BY <2>1, <2>7 DEF Register!Next
<1>3. CASE ChangePassword(r)
  <2>1. /\ u \in Users /\ users[u].status = "present" /\ sessions' = sessions
        /\ users' = [users EXCEPT ![u].must_change_password = FALSE]
    BY <1>1, <1>3 DEF ChangePassword, Audited, Present, Inv, RequestFields
  <2>2. /\ users'[u].status = users[u].status /\ users'[u].blocked = users[u].blocked
        /\ users'[u].must_change_password = FALSE
        /\ \A v \in Users \ {u} : users'[v] = users[v]
    BY <2>1 DEF Account
  <2>3. Register!SameSessions
    BY <2>1, TablesStay
  <2>4. Register!ChangePassword(u)
    BY <2>1, <2>2, <2>3, AccountMoves DEF Register!ChangePassword
  <2>5. QED BY <2>1, <2>4 DEF Register!Next
<1>4. QED BY <1>2, <1>3

LEMMA CreateIsOneStep ==
  ASSUME Inv, RegisterInv, NEW r \in Requests, CreateUser(r)
  PROVE  Register!Next
<1>1. PICK u : u = req[r].target
  OBVIOUS
<1> users \in [Users -> Account]
  BY DEF Inv, TypeOK
<1>2. u \in Users /\ Register!Supervised(u)
  BY <1>1, ActorIsThere DEF CreateUser, AdminOps
<1>3. /\ users[u].status = "absent" /\ sessions' = sessions
      /\ users' = [users EXCEPT ![u].status = "present", ![u].must_change_password = TRUE]
  BY <1>1 DEF CreateUser
<1>4. /\ users'[u].status = "present" /\ users'[u].blocked = users[u].blocked
      /\ users'[u].must_change_password = TRUE
      /\ \A v \in Users \ {u} : users'[v] = users[v]
  BY <1>2, <1>3 DEF Account
<1>5. Register!SameSessions
  BY <1>3, TablesStay
<1>6. /\ [v \in Users |-> users[v].status]'
           = [[v \in Users |-> users[v].status] EXCEPT ![u] = "present"]
      /\ {v \in Users : users[v].must_change_password}'
           = {v \in Users : users[v].must_change_password} \cup {u}
  BY <1>2, <1>4, AccountMoves
<1>7. {v \in Users : users[v].blocked}' = {v \in Users : users[v].blocked}
  BY <1>4
<1>8. Register!Create(u)
  BY <1>2, <1>3, <1>5, <1>6, <1>7 DEF Register!Create
<1>9. QED BY <1>2, <1>8 DEF Register!Next

\* A revocation ends all sessions of the account
LEMMA RevokedCloses ==
  ASSUME Inv, NEW u \in Users, sessions' = Aged(u, Revoked(u))
  PROVE  Register!Close(Register!OpenOf(u))
<1>1. PICK set : set = ActiveOf(u)
  OBVIOUS
<1>2. Register!Close(set)
  <2>1. \A s \in Sessions : s \in set <=> Active(s) /\ sessions[s].user = u
    BY <1>1 DEF ActiveOf, Active
  <2>2. ASSUME NEW s \in Sessions
        PROVE  /\ sessions[s].status = "none" <=> sessions'[s].status = "none"
               /\ Active(s) /\ s \notin set => sessions'[s] = sessions[s]
               /\ Active(s)' => Active(s) /\ s \notin set
    <3>1. /\ s \in set => sessions'[s].status = "revoked"
          /\ s \notin set => sessions'[s].status = sessions[s].status
          /\ sessions'[s].status = "active" => sessions'[s] = sessions[s]
      BY <1>1, RevokedEnds DEF Inv
    <3>2. QED BY <2>1, <3>1 DEF Active
  <2>3. QED BY <2>2, RowsClose
<1>3. Register!OpenOf(u) = set
  BY <1>1, OpenRows
<1>4. QED BY <1>2, <1>3 DEF Register!Close

\* A reset or a block ends them with the change of the account.  If the account is no
\* longer there, it has no session either, and nothing changes
LEMMA RevocationIsOneStep ==
  ASSUME Inv, RegisterInv, NEW r \in Requests, ResetPassword(r) \/ BlockUser(r)
  PROVE  Register!Next \/ UNCHANGED Register!vars
<1>1. PICK u : u = req[r].target
  OBVIOUS
<1> users \in [Users -> Account]
  BY DEF Inv, TypeOK
<1>2. /\ u \in Users /\ Register!Supervised(u) /\ sessions' = Aged(u, Revoked(u))
      /\ Register!Close(Register!OpenOf(u))
  <2>1. u \in Users /\ Register!Supervised(u) /\ sessions' = Aged(u, Revoked(u))
    BY <1>1, ActorIsThere DEF ResetPassword, BlockUser, AdminOps
  <2>2. QED BY <2>1, RevokedCloses
<1>3. CASE users[u].status # "present"
  <2>1. users' = users
    BY <1>1, <1>3 DEF ResetPassword, BlockUser, Present
  <2>2. ActiveOf(u) = {}
    BY <1>3, InvActive DEF ActiveIsSound, ActiveOf, Present
  <2>3. ASSUME NEW s \in Sessions
        PROVE  /\ sessions'[s].status = sessions[s].status
               /\ sessions'[s].status = "active" => sessions'[s] = sessions[s]
    BY <1>2, <2>2, RevokedEnds DEF Inv
  <2>4. \A s \in Sessions :
          /\ Active(s)' <=> Active(s)
          /\ Active(s) => sessions'[s] = sessions[s]
          /\ sessions'[s].status = "none" <=> sessions[s].status = "none"
    BY <2>3 DEF Active
  <2>5. /\ [s \in Sessions |-> IF Active(s) THEN sessions[s].user ELSE None]'
             = [s \in Sessions |-> IF Active(s) THEN sessions[s].user ELSE None]
        /\ {s \in Sessions : Active(s) /\ sessions[s].lapsed}'
             = {s \in Sessions : Active(s) /\ sessions[s].lapsed}
        /\ {s \in Sessions : sessions[s].status # "none"}'
             = {s \in Sessions : sessions[s].status # "none"}
    BY <2>4
  <2>6. QED BY <2>1, <2>5 DEF Register!vars
<1>4. CASE users[u].status = "present" /\ ResetPassword(r)
  <2>1. users' = [users EXCEPT ![u].must_change_password = TRUE]
    BY <1>1, <1>4 DEF ResetPassword, Present
  <2>2. /\ users'[u].status = users[u].status /\ users'[u].blocked = users[u].blocked
        /\ users'[u].must_change_password = TRUE
        /\ \A v \in Users \ {u} : users'[v] = users[v]
    BY <1>2, <2>1 DEF Account
  <2>3. Register!Reset(u)
    BY <1>2, <1>4, <2>2, AccountMoves DEF Register!Reset
  <2>4. QED BY <1>2, <2>3 DEF Register!Next
<1>5. CASE users[u].status = "present" /\ BlockUser(r)
  <2>1. users' = [users EXCEPT ![u].blocked = TRUE]
    BY <1>1, <1>5 DEF BlockUser, Present
  <2>2. /\ users'[u].status = users[u].status /\ users'[u].blocked = TRUE
        /\ users'[u].must_change_password = users[u].must_change_password
        /\ \A v \in Users \ {u} : users'[v] = users[v]
    BY <1>2, <2>1 DEF Account
  <2>3. Register!Block(u)
    BY <1>2, <1>5, <2>2, AccountMoves DEF Register!Block
  <2>4. QED BY <1>2, <2>3 DEF Register!Next
<1>6. QED BY <1>3, <1>4, <1>5

LEMMA UnblockIsOneStep ==
  ASSUME Inv, RegisterInv, NEW r \in Requests, UnblockUser(r)
  PROVE  Register!Next \/ UNCHANGED Register!vars
<1>1. PICK u : u = req[r].target
  OBVIOUS
<1> users \in [Users -> Account]
  BY DEF Inv, TypeOK
<1>2. u \in Users /\ Register!Supervised(u) /\ sessions' = sessions
  BY <1>1, ActorIsThere DEF UnblockUser, AdminOps
<1>3. CASE users[u].status # "present"
  <2>1. users' = users
    BY <1>1, <1>3 DEF UnblockUser, Present
  <2>2. QED BY <1>2, <2>1 DEF Register!vars, Active
<1>4. CASE users[u].status = "present"
  <2>1. users' = [users EXCEPT ![u].blocked = FALSE]
    BY <1>1, <1>4 DEF UnblockUser, Present
  <2>2. /\ users'[u].status = users[u].status /\ users'[u].blocked = FALSE
        /\ users'[u].must_change_password = users[u].must_change_password
        /\ \A v \in Users \ {u} : users'[v] = users[v]
    BY <1>2, <2>1 DEF Account
  <2>3. Register!SameSessions
    BY <1>2, TablesStay
  <2>4. Register!Unblock(u)
    BY <1>2, <1>4, <2>2, <2>3, AccountMoves DEF Register!Unblock
  <2>5. QED BY <1>2, <2>4 DEF Register!Next
<1>5. QED BY <1>3, <1>4

\* With an account go its sessions, also one that a login opened after the explicit DELETE
LEMMA DeletionIsOneStep ==
  ASSUME Inv, RegisterInv, NEW r \in Requests, DeleteUser(r)
  PROVE  Register!Next
<1> DEFINE row == [status |-> "deleted", blocked |-> FALSE, must_change_password |-> FALSE]
<1>1. PICK u : u = req[r].target
  OBVIOUS
<1>2. u \in Users /\ Register!Supervised(u)
  BY <1>1, ActorIsThere DEF DeleteUser, AdminOps
<1>3. /\ users[u].status = "present" /\ TypeOK /\ sessions' = WithoutRowsOf(u)
      /\ users' = [users EXCEPT ![u] = row]
  BY <1>1 DEF DeleteUser, Present, Inv
<1>4. /\ users'[u].status = "deleted" /\ users'[u].blocked = FALSE
      /\ users'[u].must_change_password = FALSE
      /\ \A v \in Users \ {u} : users'[v] = users[v]
  BY <1>2, <1>3 DEF TypeOK
<1>5. ASSUME NEW s \in Sessions
      PROVE  /\ sessions[s].user = u => sessions'[s].status = "deleted"
             /\ sessions[s].user # u => sessions'[s] = sessions[s]
  <2>1. sessions'[s] = IF sessions[s].user = u
                         THEN [Ended(s, "deleted") EXCEPT !.user = None] ELSE sessions[s]
    BY <1>3 DEF WithoutRowsOf
  <2>2. [Ended(s, "deleted") EXCEPT !.user = None].status = "deleted"
    BY <1>3, EndedRow DEF Session
  <2>3. QED BY <2>1, <2>2
<1>6. \A s \in Sessions : sessions[s].user = u => sessions[s].status # "none"
  BY <1>2, AccountsAssumption DEF RegisterInv, UnusedIsFree
<1>7. Register!Close(Register!OpenOf(u))
  <2>1. PICK set : set = ActiveOf(u)
    OBVIOUS
  <2>2. Register!Close(set)
    BY <1>5, <1>6, <2>1, RowsClose DEF ActiveOf, Active
  <2>3. Register!OpenOf(u) = set
    BY <1>2, <2>1, OpenRows
  <2>4. QED BY <2>2, <2>3 DEF Register!Close
<1>8. Register!Delete(u)
  BY <1>2, <1>3, <1>4, <1>7, AccountMoves DEF Register!Delete
<1>9. QED BY <1>2, <1>8 DEF Register!Next

LEMMA RegisterStep ==
  ASSUME Inv, RegisterInv, [Next]_vars
  PROVE  [Register!Next]_(Register!vars)
<1>1. ASSUME NEW r \in Requests, BootstrapCommit(r) \/ ChangePassword(r) PROVE Register!Next
  BY <1>1, OwnAccountIsOneStep
<1>2. ASSUME NEW r \in Requests, LoginCommit(r) PROVE Register!Next
  BY <1>2, LoginIsOneStep
<1>3. ASSUME NEW r \in Requests, CreateUser(r) \/ DeleteUser(r) PROVE Register!Next
  BY <1>3, CreateIsOneStep, DeletionIsOneStep
<1>4. ASSUME NEW r \in Requests,
             Logout(r) \/ ResetPassword(r) \/ BlockUser(r) \/ UnblockUser(r)
      PROVE  [Register!Next]_(Register!vars)
  BY <1>4, LogoutIsOneStep, RevocationIsOneStep, UnblockIsOneStep
<1>5. ASSUME NEW s \in Sessions, Lapse(s) PROVE Register!Next
  BY <1>5, LapseIsOneStep
<1>6. ASSUME \/ UNCHANGED vars
             \/ \E r \in Requests :
                  \/ BootstrapLock(r) \/ LoginCheck(r) \/ LoginLock(r) \/ LogoutCheck(r)
                  \/ ChangeCheck(r) \/ AdminCheck(r) \/ Abort(r)
      PROVE  UNCHANGED Register!vars
  <2>1. users' = users /\ sessions' = sessions
    BY <1>6 DEF BootstrapLock, LoginCheck, LoginLock, LogoutCheck, ChangeCheck, AdminCheck,
                Abort, vars
  <2>2. QED BY <2>1 DEF Register!vars, Active
<1>7. QED BY <1>1, <1>2, <1>3, <1>4, <1>5, <1>6 DEF Next

\* Every operation on accounts and logins happens in one step or not at all, for whoever
\* looks at the accounts and the open sessions, and an administrative one only while
\* somebody is there who ranks above its account
THEOREM AccountsImplementRegister == Spec => ImplementsRegister
<1>1. Init => RegisterInv /\ Register!Init
  <2> SUFFICES ASSUME Init PROVE RegisterInv /\ Register!Init
    OBVIOUS
  <2>1. /\ \A u \in Users : users[u].status = "absent" /\ ~users[u].blocked
                            /\ ~users[u].must_change_password
        /\ \A s \in Sessions : sessions[s].status = "none" /\ sessions[s].user = None
        /\ \A r \in Requests : req[r].pc = "idle"
    BY DEF Init, Idle
  <2>2. RegisterInv
    BY <2>1 DEF RegisterInv, FoundIsOwn, ActorRanksAbove, SuperAdminsAreKept, UnusedIsFree,
                AdminOps
  <2>3. Register!Init
    BY <2>1 DEF Register!Init, Active
  <2>4. QED BY <2>2, <2>3
<1>2. Inv /\ RegisterInv /\ [Next]_vars => RegisterInv'
  BY RegisterInvStep
<1>3. Inv /\ RegisterInv /\ [Next]_vars => [Register!Next]_(Register!vars)
  BY RegisterStep
<1>4. QED BY <1>1, <1>2, <1>3, InitInv, NextInv, PTL DEF Spec, ImplementsRegister, Register!Spec
===============================================================================
