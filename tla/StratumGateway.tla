--------------------------- MODULE StratumGateway ---------------------------
(***************************************************************************)
(* The Stratum gateway of the compute service.  Every TCP connection has   *)
(* two goroutines: the reader (handleConn) takes one request after the     *)
(* other, and from the first successful mining.authorize on a dispatcher   *)
(* (workDispatchLoop) looks every two seconds for a running job the        *)
(* connection has no work for.  They share the connection's stratumState   *)
(* under its mutex; the service shares the map "connections" from worker   *)
(* names to connections under another; worker rows and shares are in the   *)
(* database.  No lock is held across a database call or a write to the     *)
(* connection.                                                             *)
(*                                                                         *)
(* A connection is used for one TCP connection and never again, as its     *)
(* random identifier is.                                                   *)
(***************************************************************************)
EXTENDS Naturals, FiniteSets

CONSTANTS Conns,          \* TCP connections
          Workers,        \* worker names
          PowJobs,        \* pow_jobs rows
          Difficulties,   \* share difficulties; one share is worth its difficulty
          Required,       \* required_work_th of every job
          MaxAuthorize,   \* bound: successful mining.authorize per connection
          None

ASSUME GatewayAssumption ==
  /\ Difficulties \subseteq Nat \ {0}
  /\ Required \in Nat \ {0}
  /\ MaxAuthorize \in Nat
  /\ None \notin PowJobs \cup Workers \cup Conns

VARIABLES conn,         \* reader goroutine and stratumState of each connection
          disp,         \* dispatcher goroutine of each connection
          connections,  \* Service.connections
          rows,         \* compute_workers.status by worker name
          policy,       \* system_settings row compute_stratum_policy
          running,      \* the pow_jobs row that is 'running'
          over,         \* pow_jobs rows that were running and are not
          work,         \* valid work recorded in pow_shares for each job
          unreconciled  \* history: jobs for which the reconcile after a
                      \* share failed or was lost with the process

vars == <<conn, disp, connections, rows, policy, running, over, work, unreconciled>>
database == <<rows, policy, running, over, work, unreconciled>>

-----------------------------------------------------------------------------
RowStatus == {"none", "connected", "disconnected", "conflict", "blocked"}

\* "new" has not connected; "password" to "notify" are the steps of authorize,
\* "check" to "answer" those of submitShare, "unregister" and "offline" those of
\* the deferred cleanup
ReaderStep == {"new", "read", "password", "upsert", "register", "status", "welcome",
               "assign", "notify", "check", "insert", "reconcile", "answer",
               "unregister", "offline", "closed"}

NoWork == [job |-> None, diff |-> 0]
Work == [job : PowJobs \cup {None}, diff : Difficulties \cup {0}]

Conn == [pc : ReaderStep, link : BOOLEAN,
         name : Workers \cup {None},     \* state.workerName
         asked : Workers \cup {None},    \* name in the request
         current : Work,                 \* state.currentWork
         read : Work,                    \* job and policy, or work, read earlier
         diff : Difficulties \cup {0},   \* policy.ShareDifficulty read earlier
         valid : BOOLEAN,                \* verdict on the share
         status : RowStatus,             \* worker status to be written
         miner : Work,                   \* what the miner was told last
         authorized : Nat]               \* successful authorizations

NewConn == [pc |-> "new", link |-> FALSE, name |-> None, asked |-> None,
            current |-> NoWork, read |-> NoWork, diff |-> 0, valid |-> FALSE,
            status |-> "none", miner |-> NoWork, authorized |-> 0]

\* "lookup" to "notify" are the steps of one tick; "read" is the work the connection
\* had when the tick began, and then what the dispatcher is about to send
Dispatcher == [pc : {"off", "wait", "lookup", "policy", "assign", "notify", "stopped"},
               read : Work]

TypeOK ==
  /\ conn \in [Conns -> Conn]
  /\ disp \in [Conns -> Dispatcher]
  /\ connections \in [Workers -> SUBSET Conns]
  /\ rows \in [Workers -> RowStatus]
  /\ policy \in [enabled : BOOLEAN, diff : Difficulties]
  /\ running \in PowJobs \cup {None}
  /\ over \subseteq PowJobs
  /\ work \in [PowJobs -> Nat]
  /\ unreconciled \subseteq PowJobs

Init ==
  /\ conn = [c \in Conns |-> NewConn]
  /\ disp = [c \in Conns |-> [pc |-> "off", read |-> NoWork]]
  /\ connections = [w \in Workers |-> {}]
  /\ rows = [w \in Workers |-> "none"]
  /\ policy \in [enabled : BOOLEAN, diff : Difficulties]
  /\ running = None
  /\ over = {}
  /\ work = [j \in PowJobs |-> 0]
  /\ unreconciled = {}

Open(c) == conn[c].pc \notin {"new", "closed"}
\* The recorded work of the running job reaches required_work_th
Enough == running # None /\ work[running] >= Required

\* Work beyond the requirement is not told apart
Capped(n) == IF n > Required THEN Required ELSE n

\* Where the reader of c goes on
Read(c) == conn' = [conn EXCEPT ![c].pc = "read", ![c].read = NoWork, ![c].diff = 0,
                                ![c].asked = None, ![c].valid = FALSE,
                                ![c].status = "none"]
Leave(c) == conn' = [conn EXCEPT ![c].pc = "unregister"]

\* What a peer that is still there has been told
Told(c, w) == IF conn[c].link THEN w ELSE conn[c].miner

-----------------------------------------------------------------------------
(* mining.authorize.                                                        *)

Connect(c) ==
  /\ conn[c].pc = "new"
  /\ conn' = [conn EXCEPT ![c].pc = "read", ![c].link = TRUE]
  /\ UNCHANGED <<disp, connections, database>>

\* The policy is read before the password is compared with its hash; without an
\* enabled one the answer is "false"
Authorize(c, w) ==
  /\ conn[c].pc = "read"
  /\ policy.enabled
  /\ conn' = [conn EXCEPT ![c].pc = "password", ![c].asked = w, ![c].diff = policy.diff]
  /\ UNCHANGED <<disp, connections, database>>

\* Variant of Refuse: ON CONFLICT also sets the status
RefuseBlocking(c) ==
  /\ conn[c].pc = "password"
  /\ rows' = [rows EXCEPT ![conn[c].asked] = "blocked"]
  /\ Read(c)
  /\ UNCHANGED <<disp, connections, policy, running, over, work, unreconciled>>

\* The password does not match: updateWorkerError inserts a 'blocked' row for an
\* unknown name and leaves the status of a known one; its error is dropped.  An
\* error of the query for the running job refuses too, and writes no row
Refuse(c) ==
  /\ conn[c].pc = "password"
  /\ LET w == conn[c].asked
     IN  \/ rows[w] = "none" /\ rows' = [rows EXCEPT ![w] = "blocked"]
         \/ UNCHANGED rows
  /\ Read(c)
  /\ UNCHANGED <<disp, connections, policy, running, over, work, unreconciled>>

\* The password matches: the running job is read here and used, with the policy
\* read before it, after the worker row was written and the connection registered
FindJob(c) ==
  /\ conn[c].pc = "password"
  /\ conn[c].authorized < MaxAuthorize
  /\ conn' = [conn EXCEPT ![c].pc = "upsert",
       ![c].read = IF running = None THEN NoWork
                   ELSE [job |-> running, diff |-> conn[c].diff]]
  /\ UNCHANGED <<disp, connections, database>>

\* upsertWorker, then the fields of stratumState under its mutex; an error of the
\* database leaves both as they are
UpsertWorker(c) ==
  /\ conn[c].pc = "upsert"
  /\ \/ /\ rows' = [rows EXCEPT ![conn[c].asked] = "connected"]
        /\ conn' = [conn EXCEPT ![c].pc = "register", ![c].name = conn[c].asked,
                                ![c].asked = None,
                                ![c].authorized = conn[c].authorized + 1]
     \/ Read(c) /\ UNCHANGED rows
  /\ UNCHANGED <<disp, connections, policy, running, over, work, unreconciled>>

StatusOf(n) == CASE n = 0 -> "disconnected" [] n = 1 -> "connected"
                 [] OTHER -> "conflict"

\* registerConnection: the map under the service's mutex, the status computed
\* there is written after the unlock
Register(c) ==
  /\ conn[c].pc = "register"
  /\ LET w == conn[c].name  set == connections[w] \cup {c}
     IN  /\ connections' = [connections EXCEPT ![w] = set]
         /\ conn' = [conn EXCEPT ![c].pc = "status",
                                 ![c].status = StatusOf(Cardinality(set))]
  /\ UNCHANGED <<disp, database>>

WriteStatus(c) ==
  /\ conn[c].pc = "status"
  /\ \/ rows' = [rows EXCEPT ![conn[c].name] = conn[c].status]
     \/ UNCHANGED rows
  /\ conn' = [conn EXCEPT ![c].pc = "welcome", ![c].status = "none"]
  /\ UNCHANGED <<disp, connections, policy, running, over, work, unreconciled>>

\* The first dispatcher of the connection starts (dispatchOnce)
StartDispatch(c) ==
  disp' = IF disp[c].pc = "off" THEN [disp EXCEPT ![c].pc = "wait"] ELSE disp

\* The result and mining.set_difficulty.  A write to a peer that has gone may
\* fail: authorize returns its error and the dispatcher is not started
Welcome(c) ==
  /\ conn[c].pc = "welcome"
  /\ \/ /\ conn' = [conn EXCEPT
              ![c].pc = IF conn[c].read = NoWork THEN "read" ELSE "assign",
              ![c].miner = Told(c, [conn[c].miner EXCEPT !.diff = conn[c].diff]),
              ![c].diff = 0]
        /\ IF conn[c].read = NoWork THEN StartDispatch(c) ELSE UNCHANGED disp
     \/ ~conn[c].link /\ Read(c) /\ UNCHANGED disp
  /\ UNCHANGED <<connections, database>>

\* sendWork up to its unlock: nothing is sent if the connection has work for
\* the job already
Assign(c) ==
  /\ conn[c].pc = "assign"
  /\ IF conn[c].current.job = conn[c].read.job
     THEN Read(c) /\ StartDispatch(c)
     ELSE /\ conn' = [conn EXCEPT ![c].pc = "notify", ![c].current = conn[c].read]
          /\ UNCHANGED disp
  /\ UNCHANGED <<connections, database>>

\* mining.notify, and the dispatcher is started
Notify(c) ==
  /\ conn[c].pc = "notify"
  /\ \/ /\ conn' = [conn EXCEPT ![c].pc = "read", ![c].read = NoWork,
              ![c].miner = Told(c, [conn[c].miner EXCEPT !.job = conn[c].read.job])]
        /\ StartDispatch(c)
     \/ ~conn[c].link /\ Read(c) /\ UNCHANGED disp
  /\ UNCHANGED <<connections, database>>

-----------------------------------------------------------------------------
(* The dispatcher.                                                          *)

DispatchWaits(c) == disp' = [disp EXCEPT ![c] = [pc |-> "wait", read |-> NoWork]]

\* A tick notes the connection's work under its mutex
Tick(c) ==
  /\ disp[c].pc = "wait"
  /\ disp' = [disp EXCEPT ![c] = [pc |-> "lookup", read |-> conn[c].current]]
  /\ UNCHANGED <<conn, connections, database>>

\* Variant of DispatchLookup: only connections without work are served
LookupIdleOnly(c) ==
  /\ disp[c].pc = "lookup"
  /\ IF running = None \/ disp[c].read # NoWork THEN DispatchWaits(c)
     ELSE disp' = [disp EXCEPT ![c] = [pc |-> "policy",
                                       read |-> [job |-> running, diff |-> 0]]]
  /\ UNCHANGED <<conn, connections, database>>

\* The running job is of interest if it is not the one noted
DispatchLookup(c) ==
  /\ disp[c].pc = "lookup"
  /\ IF running \in {None, disp[c].read.job} THEN DispatchWaits(c)
     ELSE disp' = [disp EXCEPT ![c] = [pc |-> "policy",
                                       read |-> [job |-> running, diff |-> 0]]]
  /\ UNCHANGED <<conn, connections, database>>

DispatchPolicy(c) ==
  /\ disp[c].pc = "policy"
  /\ IF policy.enabled
     THEN disp' = [disp EXCEPT ![c].pc = "assign", ![c].read.diff = policy.diff]
     ELSE DispatchWaits(c)
  /\ UNCHANGED <<conn, connections, database>>

\* After an error of either query the dispatcher waits for the next tick
DispatchFails(c) ==
  /\ disp[c].pc \in {"lookup", "policy"}
  /\ DispatchWaits(c)
  /\ UNCHANGED <<conn, connections, database>>

DispatchAssign(c) ==
  /\ disp[c].pc = "assign"
  /\ IF conn[c].current.job = disp[c].read.job
     THEN DispatchWaits(c) /\ UNCHANGED conn
     ELSE /\ conn' = [conn EXCEPT ![c].current = disp[c].read]
          /\ disp' = [disp EXCEPT ![c].pc = "notify"]
  /\ UNCHANGED <<connections, database>>

\* Variant of DispatchNotify: the difficulty is not sent again (refreshDifficulty)
NotifyWithoutDifficulty(c) ==
  /\ disp[c].pc = "notify"
  /\ conn' = [conn EXCEPT ![c].miner =
                Told(c, [conn[c].miner EXCEPT !.job = disp[c].read.job])]
  /\ DispatchWaits(c)
  /\ UNCHANGED <<connections, database>>

\* mining.set_difficulty and mining.notify; after an error the dispatcher ends
\* and dispatchOnce never starts another
DispatchNotify(c) ==
  /\ disp[c].pc = "notify"
  /\ \/ /\ conn' = [conn EXCEPT ![c].miner = Told(c, disp[c].read)]
        /\ DispatchWaits(c)
     \/ /\ ~conn[c].link
        /\ disp' = [disp EXCEPT ![c] = [pc |-> "stopped", read |-> NoWork]]
        /\ UNCHANGED conn
  /\ UNCHANGED <<connections, database>>

\* The deferred function of handleConn closed state.done
DispatchStops(c) ==
  /\ disp[c].pc = "wait"
  /\ conn[c].pc \in {"unregister", "offline", "closed"}
  /\ disp' = [disp EXCEPT ![c].pc = "stopped"]
  /\ UNCHANGED <<conn, connections, database>>

-----------------------------------------------------------------------------
(* mining.submit.                                                           *)

\* verifyShare: the share names the job of the current work, and its hash meets
\* the target of that work
Verified(c, hash) == hash /\ conn[c].miner.job = conn[c].current.job

\* A share for the work the miner knows (it may have been sent before: nothing
\* compares shares).  Without current work the answer is an error
Submit(c, hash) ==
  /\ conn[c].pc = "read"
  /\ conn[c].current # NoWork
  /\ conn[c].miner.job # None
  /\ conn' = [conn EXCEPT ![c].pc = "check", ![c].read = conn[c].current,
                                ![c].valid = Verified(c, hash)]
  /\ UNCHANGED <<disp, connections, database>>

\* Version bits the connection did not configure: an invalid share is recorded
\* without looking at the running job
SubmitBadVersion(c) ==
  /\ conn[c].pc = "read"
  /\ conn[c].current # NoWork
  /\ conn' = [conn EXCEPT ![c].pc = "answer", ![c].read = conn[c].current]
  /\ UNCHANGED <<disp, connections, database>>

\* Work for a job that is not running any more closes the connection; an error of
\* the database refuses the share, and the reader goes on
CheckRunning(c) ==
  /\ conn[c].pc = "check"
  /\ \/ IF running = conn[c].read.job
        THEN conn' = [conn EXCEPT ![c].pc = "insert"]
        ELSE Leave(c)
     \/ Read(c)
  /\ UNCHANGED <<disp, connections, database>>

\* Variant of InsertShare: reconcile runs only for the share after this one
InsertWithoutReconcile(c) ==
  /\ conn[c].pc = "insert"
  /\ LET j == conn[c].read.job
     IN  work' = [work EXCEPT ![j] =
                    IF conn[c].valid THEN Capped(work[j] + conn[c].read.diff) ELSE @]
  /\ conn' = [conn EXCEPT ![c].pc = "answer"]
  /\ UNCHANGED <<disp, connections, rows, policy, running, over, unreconciled>>

\* An error of the database ends the request without an answer
InsertShare(c) ==
  /\ conn[c].pc = "insert"
  /\ \/ /\ LET j == conn[c].read.job
           IN  work' = [work EXCEPT ![j] =
                  IF conn[c].valid THEN Capped(work[j] + conn[c].read.diff) ELSE @]
        /\ conn' = [conn EXCEPT ![c].pc =
                      IF conn[c].valid THEN "reconcile" ELSE "answer"]
     \/ Read(c) /\ UNCHANGED work
  /\ UNCHANGED <<disp, connections, rows, policy, running, over, unreconciled>>

\* Reconciler.Reconcile: the access service completes the running job if its
\* work suffices; the error of a failed reconcile is dropped
ReconcileShare(c) ==
  /\ conn[c].pc = "reconcile"
  /\ \/ /\ Enough
        /\ running' = None
        /\ over' = over \cup {running}
        /\ UNCHANGED unreconciled
     \/ /\ ~Enough
        /\ UNCHANGED <<running, over, unreconciled>>
     \/ /\ unreconciled' = unreconciled \cup {conn[c].read.job}
        /\ UNCHANGED <<running, over>>
  /\ conn' = [conn EXCEPT ![c].pc = "answer"]
  /\ UNCHANGED <<disp, connections, rows, policy, work>>

\* touchWorkerShare writes 'connected', also over a conflict; then the result is
\* sent and, after a valid share, a job that has ended closes the connection.  An
\* error of any of the three ends the request, and the reader goes on
Answer(c) ==
  /\ conn[c].pc = "answer"
  /\ \/ /\ rows' = [rows EXCEPT ![conn[c].name] = "connected"]
        /\ \/ conn[c].valid /\ running # conn[c].read.job /\ Leave(c)
           \/ Read(c)
     \/ Read(c) /\ UNCHANGED rows
  /\ UNCHANGED <<disp, connections, policy, running, over, work, unreconciled>>

-----------------------------------------------------------------------------
(* The end of a connection.                                                 *)

\* The peer is gone; what it sent before may still be read
Drop(c) ==
  /\ conn[c].link
  /\ conn' = [conn EXCEPT ![c].link = FALSE]
  /\ UNCHANGED <<disp, connections, database>>

\* Variant of Hangup: the end of the stream is noticed on authorized connections
HangupAuthorized(c) ==
  /\ conn[c].pc = "read"
  /\ ~conn[c].link
  /\ conn[c].authorized > 0
  /\ Leave(c)
  /\ UNCHANGED <<disp, connections, database>>

\* The scanner reaches the end of the stream
Hangup(c) ==
  /\ conn[c].pc = "read"
  /\ ~conn[c].link
  /\ Leave(c)
  /\ UNCHANGED <<disp, connections, database>>

\* Variants of Unregister: the connection stays in the map; the entry of the name
\* is deleted although others use it
UnregisterNothing(c) ==
  /\ conn[c].pc = "unregister"
  /\ conn' = [conn EXCEPT ![c].pc = "closed", ![c].link = FALSE]
  /\ UNCHANGED <<disp, connections, database>>
UnregisterName(c) ==
  /\ conn[c].pc = "unregister"
  /\ connections' = [w \in Workers |-> IF w = conn[c].name THEN {} ELSE connections[w]]
  /\ conn' = [conn EXCEPT ![c].pc = "closed", ![c].link = FALSE]
  /\ UNCHANGED <<disp, database>>

\* unregisterConnection under the service's mutex; only the last name the
\* connection was authorized with is looked up
Unregister(c) ==
  /\ conn[c].pc = "unregister"
  /\ IF conn[c].name = None
     THEN /\ conn' = [conn EXCEPT ![c].pc = "closed", ![c].link = FALSE]
          /\ UNCHANGED connections
     ELSE LET w == conn[c].name  set == connections[w] \ {c}
          IN  /\ connections' = [connections EXCEPT ![w] = set]
              /\ conn' = [conn EXCEPT ![c].pc = "offline", ![c].link = FALSE,
                                      ![c].status = StatusOf(Cardinality(set))]
  /\ UNCHANGED <<disp, database>>

WriteOffline(c) ==
  /\ conn[c].pc = "offline"
  /\ \/ rows' = [rows EXCEPT ![conn[c].name] = conn[c].status]
     \/ UNCHANGED rows
  /\ conn' = [conn EXCEPT ![c].pc = "closed"]
  /\ UNCHANGED <<disp, connections, policy, running, over, work, unreconciled>>

\* The process stops and starts again: the map is empty, and Start sets what the
\* rows still say to 'disconnected' (an error of that statement is only logged)
Restart ==
  /\ conn' = [c \in Conns |-> IF Open(c) THEN [NewConn EXCEPT !.pc = "closed"] ELSE conn[c]]
  /\ disp' = [c \in Conns |-> [pc |-> IF conn[c].pc = "new" THEN "off" ELSE "stopped",
                               read |-> NoWork]]
  /\ connections' = [w \in Workers |-> {}]
  /\ \/ rows' = [w \in Workers |-> IF rows[w] \in {"connected", "conflict"}
                                   THEN "disconnected" ELSE rows[w]]
     \/ UNCHANGED rows
  /\ unreconciled' = unreconciled \cup
       {conn[c].read.job : c \in {d \in Conns : conn[d].pc = "reconcile"}}
  /\ UNCHANGED <<policy, running, over, work>>

-----------------------------------------------------------------------------
(* The rest of the program.                                                 *)

\* The access service starts a job, or ends it (timeout, cancel, another
\* request's reconcile)
StartJob(j) ==
  /\ running = None
  /\ j \notin over
  /\ running' = j
  /\ UNCHANGED <<conn, disp, connections, rows, policy, over, work, unreconciled>>
EndJob ==
  /\ running # None
  /\ running' = None
  /\ over' = over \cup {running}
  /\ UNCHANGED <<conn, disp, connections, rows, policy, work, unreconciled>>

\* handleSettings
UpdateSettings(p) ==
  /\ policy' = p
  /\ UNCHANGED <<conn, disp, connections, rows, running, over, work, unreconciled>>

-----------------------------------------------------------------------------
Reader(c) ==
  \/ Refuse(c) \/ FindJob(c) \/ UpsertWorker(c) \/ Register(c) \/ WriteStatus(c)
  \/ Welcome(c) \/ Assign(c) \/ Notify(c)
  \/ CheckRunning(c) \/ InsertShare(c) \/ ReconcileShare(c) \/ Answer(c)
  \/ Hangup(c) \/ Unregister(c) \/ WriteOffline(c)

Dispatch(c) ==
  \/ Tick(c) \/ DispatchLookup(c) \/ DispatchPolicy(c) \/ DispatchFails(c)
  \/ DispatchAssign(c) \/ DispatchNotify(c) \/ DispatchStops(c)

Peer(c) ==
  \/ Connect(c) \/ Drop(c)
  \/ \E w \in Workers : Authorize(c, w)
  \/ \E hash \in BOOLEAN : Submit(c, hash)
  \/ SubmitBadVersion(c)

Next ==
  \/ \E c \in Conns : Reader(c) \/ Dispatch(c) \/ Peer(c)
  \/ \E j \in PowJobs : StartJob(j)
  \/ EndJob
  \/ \E p \in [enabled : BOOLEAN, diff : Difficulties] : UpdateSettings(p)
  \/ Restart

Spec == Init /\ [][Next]_vars

-----------------------------------------------------------------------------
(* Properties.                                                              *)

\* handleStatus shows a worker by its entries in the map: every connection that
\* finished its authorization counts under its present name until it leaves
AuthorizedIsCounted ==
  \A c \in Conns :
    conn[c].name # None /\ conn[c].pc \notin {"register", "offline", "closed"}
      => c \in connections[conn[c].name]

\* A connection authorized under one name only leaves nothing behind
ClosedIsForgotten ==
  \A c \in Conns, w \in Workers :
    conn[c].authorized = 1 /\ conn[c].pc \in {"offline", "closed"}
      => c \notin connections[w]

\* A worker with a registered connection is never shown as blocked, however
\* failed and successful authorizations of its name interleave
BlockedIsOffline ==
  \A w \in Workers : rows[w] = "blocked" => connections[w] = {}

\* The miner of a connection that authorized once searches at the difficulty its
\* shares are verified and credited with, whatever happens to the setting
MinerKnowsWork ==
  \A c \in Conns :
    /\ conn[c].pc \in {"read", "password", "check", "insert", "reconcile", "answer"}
    /\ conn[c].link /\ conn[c].authorized = 1
    /\ disp[c].pc # "notify"
    /\ conn[c].current # NoWork
    => conn[c].miner = conn[c].current

\* When the recorded work of the running job suffices, some connection is about
\* to reconcile, or a reconcile failed or was lost with the process: of two shares
\* recorded at the same time the later one's reconcile sees both
EnoughWorkIsNoticed ==
  Enough =>
    \/ running \in unreconciled
    \/ \E c \in Conns : conn[c].pc = "reconcile"

-----------------------------------------------------------------------------
\* Goroutines go on, what a peer that has gone left to be read comes to an end
\* (TCP ends the stream, or its keepalive finds that nobody is there), and the
\* queries of the dispatcher do not fail every time; nothing is assumed of the
\* peers, the clients or the policy
Fairness ==
  \A c \in Conns :
    /\ WF_vars(Reader(c)) /\ WF_vars(Dispatch(c)) /\ SF_vars(Hangup(c))
    /\ SF_vars(DispatchLookup(c)) /\ SF_vars(DispatchPolicy(c))

FairSpec == Spec /\ Fairness

\* An authorized connection gets the running job, as long as the job runs, the
\* connection stays and the gateway is enabled
WorkIsDispatched ==
  \A c \in Conns, j \in PowJobs :
    conn[c].pc = "read" /\ conn[c].authorized > 0 /\ conn[c].link /\ running = j
      ~> conn[c].miner.job = j \/ running # j \/ ~conn[c].link \/ ~policy.enabled

\* A connection whose peer has gone is cleaned up
GoneIsClosed == \A c \in Conns : Open(c) /\ ~conn[c].link ~> conn[c].pc = "closed"
=============================================================================
