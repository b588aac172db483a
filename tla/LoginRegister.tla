----------------------------- MODULE LoginRegister -----------------------------
(* What accounts and logins promise, however requests overlap and wherever    *)
(* they stop: each operation happens in one step or not at all, and at that   *)
(* step somebody is there who ranks above the account it is about.  The       *)
(* register does not say who asked, and it is not promised that who logs in   *)
(* is not blocked: a login that passed its check before a block may open a    *)
(* session after it.                                                          *)
CONSTANTS Users, Role, Sessions, None

VARIABLES account,    \* is an account absent, present or deleted?
          blocked,    \* the accounts that are blocked
          temporary,  \* those that have to change their password first
          owner,      \* whose an open session is
          lapsed,     \* the open sessions whose time is over
          used        \* the numbers given to sessions

vars == <<account, blocked, temporary, owner, lapsed, used>>

Init ==
  /\ account = [u \in Users |-> "absent"] /\ blocked = {} /\ temporary = {}
  /\ owner = [s \in Sessions |-> None] /\ lapsed = {} /\ used = {}

OpenOf(u) == {s \in Sessions : owner[s] = u}

\* These sessions end, and no other does
Close(set) ==
  /\ owner' = [s \in Sessions |-> IF s \in set THEN None ELSE owner[s]]
  /\ lapsed' = lapsed \ set
  /\ UNCHANGED used

SameSessions == UNCHANGED <<owner, lapsed, used>>
SameAccounts == UNCHANGED <<account, blocked, temporary>>

\* Somebody who ranks above u is there to ask
Supervised(u) ==
  \E a \in Users :
    /\ account[a] = "present"
    /\ \/ Role[a] = "super_admin" /\ Role[u] # "super_admin"
       \/ Role[a] = "admin" /\ Role[u] = "client"

-------------------------------------------------------------------------------
\* The first account of its kind, which nobody has to ask for
Bootstrap(u) ==
  /\ Role[u] = "super_admin" /\ account[u] = "absent"
  /\ \A v \in Users : Role[v] = "super_admin" => account[v] # "present"
  /\ account' = [account EXCEPT ![u] = "present"]
  /\ SameSessions /\ UNCHANGED <<blocked, temporary>>

\* The new session takes the place of those of u that are over, and of every other
\* session of a client
Login(u, s) ==
  LET replaced == {t \in OpenOf(u) : Role[u] = "client" \/ t \in lapsed} IN
  /\ account[u] = "present" /\ s \notin used
  /\ owner' = [t \in Sessions |-> IF t = s THEN u
                                  ELSE IF t \in replaced THEN None ELSE owner[t]]
  /\ lapsed' = lapsed \ replaced
  /\ used' = used \cup {s}
  /\ SameAccounts

Logout(s) == owner[s] # None /\ Close({s}) /\ SameAccounts

Lapse(s) ==
  /\ owner[s] # None
  /\ lapsed' = lapsed \cup {s}
  /\ SameAccounts /\ UNCHANGED <<owner, used>>

ChangePassword(u) ==
  /\ account[u] = "present"
  /\ temporary' = temporary \ {u}
  /\ SameSessions /\ UNCHANGED <<account, blocked>>

Create(u) ==
  /\ Supervised(u) /\ account[u] = "absent"
  /\ account' = [account EXCEPT ![u] = "present"]
  /\ temporary' = temporary \cup {u}
  /\ SameSessions /\ UNCHANGED blocked

Reset(u) ==
  /\ Supervised(u) /\ account[u] = "present"
  /\ temporary' = temporary \cup {u}
  /\ Close(OpenOf(u)) /\ UNCHANGED <<account, blocked>>

Block(u) ==
  /\ Supervised(u) /\ account[u] = "present"
  /\ blocked' = blocked \cup {u}
  /\ Close(OpenOf(u)) /\ UNCHANGED <<account, temporary>>

Unblock(u) ==
  /\ Supervised(u) /\ account[u] = "present"
  /\ blocked' = blocked \ {u}
  /\ SameSessions /\ UNCHANGED <<account, temporary>>

Delete(u) ==
  /\ Supervised(u) /\ account[u] = "present"
  /\ account' = [account EXCEPT ![u] = "deleted"]
  /\ blocked' = blocked \ {u} /\ temporary' = temporary \ {u}
  /\ Close(OpenOf(u))

Next ==
  \/ \E u \in Users :
       \/ Bootstrap(u) \/ ChangePassword(u) \/ Create(u) \/ Reset(u)
       \/ Block(u) \/ Unblock(u) \/ Delete(u)
       \/ \E s \in Sessions : Login(u, s)
  \/ \E s \in Sessions : Logout(s) \/ Lapse(s)

Spec == Init /\ [][Next]_vars
===============================================================================
