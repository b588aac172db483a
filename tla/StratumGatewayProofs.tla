------------------------- MODULE StratumGatewayProofs -------------------------
(***************************************************************************)
(* Proofs about StratumGateway for every number of connections, worker     *)
(* names, jobs and difficulties, and for every number of authorizations of *)
(* a connection.                                                           *)
(***************************************************************************)
EXTENDS StratumGateway, TLAPS

-----------------------------------------------------------------------------
(* The inductive invariant.                                                 *)

Unseen == {"none", "blocked"}

\* The steps of authorize after the worker's row is written
Authorizing == {"register", "status", "welcome", "assign", "notify"}

\* A connection that nobody has used
Fresh(c) == conn[c].pc = "new" => conn[c] = NewConn /\ disp[c].pc = "off"

\* The names that the steps of authorize and of the cleanup use, and the status
\* they are about to write
Named(c) ==
  /\ conn[c].pc \in {"password", "upsert"} => conn[c].asked \in Workers
  /\ conn[c].pc \in {"register", "status", "offline"} => conn[c].name \in Workers
  /\ conn[c].pc \in {"status", "offline"} => conn[c].status \notin Unseen
  /\ conn[c].pc \in Authorizing => conn[c].authorized # 0

\* A name in use has a row, and the row is not blocked
RowsSeen ==
  /\ \A w \in Workers : connections[w] # {} => rows[w] \notin Unseen
  /\ \A c \in Conns : conn[c].pc = "register" => rows[conn[c].name] \notin Unseen

\* AuthorizedIsCounted, also while a further authorization is under way
Counted(c) ==
  conn[c].name # None /\ conn[c].pc \notin {"register", "offline", "closed"}
    => c \in connections[conn[c].name]

\* The entries of a connection that authorized once at most
Entries(c) ==
  \A w \in Workers : c \in connections[w] =>
    /\ conn[c].authorized # 0
    /\ conn[c].authorized = 1 =>
         w = conn[c].name /\ conn[c].pc \notin {"offline", "closed"}

\* Work that is carried from one step to the next is work for a job
Carried(c) ==
  /\ conn[c].current = NoWork \/ conn[c].current.job \in PowJobs
  /\ disp[c].pc \in {"policy", "assign", "notify"} => disp[c].read.job \in PowJobs
  /\ conn[c].pc \in {"upsert", "register", "status", "welcome"} =>
       conn[c].read = NoWork \/
         (conn[c].read.job \in PowJobs /\ conn[c].read.diff = conn[c].diff)
  /\ conn[c].pc \in {"assign", "notify", "check", "insert", "reconcile", "answer"} =>
       conn[c].read.job \in PowJobs

\* Work is recorded only for jobs that run or have run
Ran(j) == j = running \/ j \in over
Recorded ==
  /\ \A j \in PowJobs : work[j] # 0 => Ran(j)
  /\ \A c \in Conns : conn[c].pc = "insert" => Ran(conn[c].read.job)

\* EnoughWorkIsNoticed, by a connection with a share for that job
Noticed ==
  Enough => \/ running \in unreconciled
            \/ \E c \in Conns : conn[c].pc = "reconcile" /\ conn[c].read.job = running

\* What the miner of a connection that authorized once at most was told, and
\* what the reader and the dispatcher are about to tell it
Told1(c) ==
  /\ conn[c].authorized = 0 =>
       /\ conn[c].current = NoWork /\ disp[c].pc \in {"off", "stopped"}
       /\ conn[c].link => disp[c].pc = "off"
  /\ conn[c].link => conn[c].pc \notin {"offline", "closed"}
  /\ conn[c].authorized = 1 /\ conn[c].link =>
       /\ conn[c].pc \in Authorizing => disp[c].pc = "off"
       /\ conn[c].pc \in Authorizing \ {"notify"} => conn[c].current = NoWork
       /\ conn[c].pc \in {"assign", "notify"} => conn[c].miner.diff = conn[c].read.diff
       /\ conn[c].pc = "notify" => conn[c].current = conn[c].read
       /\ disp[c].pc = "notify" => conn[c].current = disp[c].read
       /\ conn[c].pc \notin Authorizing /\ disp[c].pc # "notify"
            /\ conn[c].current # NoWork => conn[c].miner = conn[c].current

Registered ==
  RowsSeen /\ \A c \in Conns : Fresh(c) /\ Named(c) /\ Counted(c) /\ Entries(c)

GatewayInv ==
  /\ TypeOK
  /\ Registered
  /\ \A c \in Conns : Carried(c) /\ Told1(c)
  /\ Recorded
  /\ Noticed

-----------------------------------------------------------------------------
(* Lemmas.                                                                  *)

\* Work is no more than its job and its difficulty
LEMMA SameWork ==
  ASSUME NEW a \in Work, NEW b \in Work, a.job = b.job, a.diff = b.diff
  PROVE  a = b
BY DEF Work

\* NULL names no job, and no worker
LEMMA NoWorkIsWork == NoWork \in Work /\ \A w \in Work : w.job \in PowJobs => w # NoWork
BY GatewayAssumption DEF NoWork, Work

\* A connection is in each of its fields what its type says
LEMMA ConnFields ==
  ASSUME TypeOK, NEW c \in Conns
  PROVE  /\ conn[c] \in Conn /\ disp[c] \in Dispatcher
         /\ conn[c].pc \in ReaderStep /\ conn[c].link \in BOOLEAN
         /\ conn[c].name \in Workers \cup {None} /\ conn[c].asked \in Workers \cup {None}
         /\ conn[c].current \in Work /\ conn[c].read \in Work /\ conn[c].miner \in Work
         /\ conn[c].diff \in Difficulties \cup {0} /\ conn[c].valid \in BOOLEAN
         /\ conn[c].status \in RowStatus /\ conn[c].authorized \in Nat
         /\ disp[c].read \in Work
BY DEF TypeOK, Conn, Dispatcher

\* A step that replaces the record of one connection
LEMMA OneConn ==
  ASSUME TypeOK, NEW c \in Conns, NEW rec \in Conn, conn' = [conn EXCEPT ![c] = rec]
  PROVE  /\ conn' \in [Conns -> Conn] /\ conn'[c] = rec
         /\ \A d \in Conns : d # c => conn'[d] = conn[d]
BY DEF TypeOK

\* The invariants of every connection, where a step changes only one of them
LEMMA ConnStep ==
  ASSUME GatewayInv, NEW c \in Conns,
         \A d \in Conns : d # c => conn'[d] = conn[d] /\ disp'[d] = disp[d],
         \A d \in Conns, w \in Workers : d # c /\ d \in connections'[w] => d \in connections[w],
         \A d \in Conns, w \in Workers : d # c /\ d \in connections[w] => d \in connections'[w],
         Fresh(c)', Named(c)', Counted(c)', Entries(c)', Carried(c)', Told1(c)'
  PROVE  \A d \in Conns : /\ Fresh(d)' /\ Named(d)' /\ Counted(d)'
                          /\ Entries(d)' /\ Carried(d)' /\ Told1(d)'
<1>1. SUFFICES ASSUME NEW d \in Conns, d # c
               PROVE  /\ Fresh(d)' /\ Named(d)' /\ Counted(d)'
                      /\ Entries(d)' /\ Carried(d)' /\ Told1(d)'
  OBVIOUS
<1>2. conn'[d] = conn[d] /\ disp'[d] = disp[d]
  BY <1>1
<1>3. Fresh(d)' /\ Named(d)' /\ Carried(d)' /\ Told1(d)'
  BY <1>2 DEF GatewayInv, Registered, Fresh, Named, Carried, Told1
<1>4. Entries(d)'
  BY <1>1, <1>2 DEF GatewayInv, Registered, Entries
<1>5. Counted(d)'
  BY <1>1, <1>2, ConnFields DEF GatewayInv, Registered, Counted
<1>6. QED BY <1>3, <1>4, <1>5

\* A step that touches no share and no job
LEMMA SharesSame ==
  ASSUME GatewayInv, UNCHANGED <<running, over, work, unreconciled>>,
         \A d \in Conns : conn'[d].pc = "insert" =>
                          conn[d].pc = "insert" /\ conn'[d].read = conn[d].read,
         \A d \in Conns : conn[d].pc = "reconcile" =>
                          conn'[d].pc = "reconcile" /\ conn'[d].read = conn[d].read
  PROVE  Recorded' /\ Noticed'
BY DEF GatewayInv, Recorded, Ran, Noticed, Enough

\* A step that keeps the map and makes no row unseen
LEMMA RowsKept ==
  ASSUME GatewayInv, UNCHANGED connections,
         \A w \in Workers : rows[w] \notin Unseen => rows'[w] \notin Unseen,
         \A d \in Conns : conn'[d].pc = "register" =>
                          conn[d].pc = "register" /\ conn'[d].name = conn[d].name
  PROVE  RowsSeen'
<1>1. \A w \in Workers : connections'[w] # {} => rows'[w] \notin Unseen
  BY DEF GatewayInv, Registered, RowsSeen
<1>2. \A d \in Conns : conn'[d].pc = "register" => rows'[conn'[d].name] \notin Unseen
  BY DEF GatewayInv, Registered, RowsSeen, Named
<1>3. QED BY <1>1, <1>2 DEF RowsSeen

-----------------------------------------------------------------------------
(* mining.authorize.                                                        *)

\* The reader begins anew
LEMMA ReadFields ==
  ASSUME TypeOK, NEW c \in Conns, Read(c)
  PROVE  /\ conn' \in [Conns -> Conn]
         /\ \A d \in Conns : d # c => conn'[d] = conn[d]
         /\ conn'[c].pc = "read" /\ conn'[c].link = conn[c].link
         /\ conn'[c].name = conn[c].name /\ conn'[c].current = conn[c].current
         /\ conn'[c].miner = conn[c].miner /\ conn'[c].authorized = conn[c].authorized
<1> DEFINE rec == [conn[c] EXCEPT !.pc = "read", !.read = NoWork, !.diff = 0,
                                  !.asked = None, !.valid = FALSE, !.status = "none"]
<1>1. conn' = [conn EXCEPT ![c] = rec]
  BY DEF TypeOK, Read
<1>2. rec \in Conn
  <2>1. conn[c] \in Conn /\ "read" \in ReaderStep /\ NoWork \in Work /\ "none" \in RowStatus
    BY ConnFields, NoWorkIsWork DEF ReaderStep, RowStatus
  <2>2. QED BY <2>1 DEF Conn
<1>3. /\ rec.pc = "read" /\ rec.link = conn[c].link
      /\ rec.name = conn[c].name /\ rec.current = conn[c].current
      /\ rec.miner = conn[c].miner /\ rec.authorized = conn[c].authorized
  BY ConnFields DEF Conn
<1> HIDE DEF rec
<1>4. QED BY <1>1, <1>2, <1>3, OneConn

\* handleConn begins
LEMMA ConnectSafe ==
  ASSUME GatewayInv, NEW c \in Conns, Connect(c)
  PROVE  GatewayInv'
<1>1. TypeOK
  BY DEF GatewayInv
<1>2. /\ conn' \in [Conns -> Conn]
      /\ \A d \in Conns : d # c => conn'[d] = conn[d]
      /\ conn'[c].pc = "read" /\ conn'[c].name = conn[c].name
      /\ conn'[c].current = conn[c].current /\ conn'[c].authorized = conn[c].authorized
  <2> DEFINE rec == [conn[c] EXCEPT !.pc = "read", !.link = TRUE]
  <2>1. conn' = [conn EXCEPT ![c] = rec]
    BY <1>1 DEF Connect, TypeOK
  <2>2. rec \in Conn
    <3>1. conn[c] \in Conn
      BY <1>1, ConnFields
    <3>2. QED BY <3>1 DEF Conn, ReaderStep
  <2>3. /\ rec.pc = "read" /\ rec.name = conn[c].name
        /\ rec.current = conn[c].current /\ rec.authorized = conn[c].authorized
    BY <1>1, ConnFields DEF Conn
  <2> HIDE DEF rec
  <2>4. QED BY <1>1, <2>1, <2>2, <2>3, OneConn
<1>3. /\ conn[c].pc = "new" /\ conn[c] = NewConn /\ disp[c].pc = "off"
      /\ UNCHANGED <<disp, connections, database>>
  BY DEF Connect, GatewayInv, Registered, Fresh
<1>4. TypeOK'
  BY <1>1, <1>2, <1>3 DEF TypeOK, database
<1>5. Fresh(c)' /\ Named(c)' /\ Counted(c)' /\ Carried(c)' /\ Told1(c)'
  BY <1>2, <1>3 DEF Fresh, Named, Counted, Carried, Told1, NewConn, Authorizing
<1>6. Entries(c)'
  BY <1>2, <1>3 DEF GatewayInv, Registered, Entries, NewConn
<1>7. Recorded' /\ Noticed'
  BY <1>2, <1>3, SharesSame DEF database
<1>8. RowsSeen'
  BY <1>2, <1>3, RowsKept DEF database
<1>9. QED BY <1>2, <1>3, <1>4, <1>5, <1>6, <1>7, <1>8, ConnStep
          DEF GatewayInv, Registered

\* The policy is read, and the password is about to be compared
LEMMA AuthorizeSafe ==
  ASSUME GatewayInv, NEW c \in Conns, NEW w \in Workers, Authorize(c, w)
  PROVE  GatewayInv'
<1>1. TypeOK
  BY DEF GatewayInv
<1>2. /\ conn' \in [Conns -> Conn]
      /\ \A d \in Conns : d # c => conn'[d] = conn[d]
      /\ conn'[c].pc = "password" /\ conn'[c].asked = w
      /\ conn'[c].link = conn[c].link /\ conn'[c].miner = conn[c].miner
      /\ conn'[c].name = conn[c].name
      /\ conn'[c].current = conn[c].current /\ conn'[c].authorized = conn[c].authorized
  <2> DEFINE rec == [conn[c] EXCEPT !.pc = "password", !.asked = w, !.diff = policy.diff]
  <2>1. conn' = [conn EXCEPT ![c] = rec]
    BY <1>1 DEF Authorize, TypeOK
  <2>2. policy.diff \in Difficulties
    BY <1>1 DEF TypeOK
  <2>3. rec \in Conn
    <3>1. conn[c] \in Conn
      BY <1>1, ConnFields
    <3>2. QED BY <3>1, <2>2 DEF Conn, ReaderStep
  <2>4. /\ rec.pc = "password" /\ rec.asked = w
        /\ rec.link = conn[c].link /\ rec.miner = conn[c].miner
        /\ rec.name = conn[c].name
        /\ rec.current = conn[c].current /\ rec.authorized = conn[c].authorized
    BY <1>1, ConnFields DEF Conn
  <2> HIDE DEF rec
  <2>5. QED BY <1>1, <2>1, <2>3, <2>4, OneConn
<1>3. conn[c].pc = "read" /\ UNCHANGED <<disp, connections, database>>
  BY DEF Authorize
<1>4. TypeOK'
  BY <1>1, <1>2, <1>3 DEF TypeOK, database
<1>5. Fresh(c)' /\ Named(c)'
  BY <1>2 DEF Fresh, Named, Authorizing
<1>6. Counted(c)' /\ Entries(c)'
  BY <1>2, <1>3 DEF GatewayInv, Registered, Counted, Entries
<1>7. Carried(c)'
  BY <1>2, <1>3 DEF GatewayInv, Carried
<1>8. Told1(c)'
  BY <1>2, <1>3 DEF GatewayInv, Told1, Authorizing
<1>9. Recorded' /\ Noticed'
  BY <1>2, <1>3, SharesSame DEF database
<1>10. RowsSeen'
  BY <1>2, <1>3, RowsKept DEF database
<1>11. QED BY <1>2, <1>3, <1>4, <1>5, <1>6, <1>7, <1>8, <1>9, <1>10, ConnStep
          DEF GatewayInv, Registered

\* The password is right; the running job is read
LEMMA FindJobSafe ==
  ASSUME GatewayInv, NEW c \in Conns, FindJob(c)
  PROVE  GatewayInv'
<1>1. TypeOK
  BY DEF GatewayInv
<1> DEFINE found == IF running = None THEN NoWork
                    ELSE [job |-> running, diff |-> conn[c].diff]
<1>2. /\ conn' \in [Conns -> Conn]
      /\ \A d \in Conns : d # c => conn'[d] = conn[d]
      /\ conn'[c].pc = "upsert" /\ conn'[c].asked = conn[c].asked
      /\ conn'[c].read = found /\ conn'[c].diff = conn[c].diff
      /\ conn'[c].link = conn[c].link /\ conn'[c].miner = conn[c].miner
      /\ conn'[c].name = conn[c].name
      /\ conn'[c].current = conn[c].current /\ conn'[c].authorized = conn[c].authorized
  <2> DEFINE rec == [conn[c] EXCEPT !.pc = "upsert", !.read = found]
  <2>1. conn' = [conn EXCEPT ![c] = rec]
    BY <1>1 DEF FindJob, TypeOK
  <2>2. found \in Work
    BY <1>1, NoWorkIsWork, ConnFields DEF TypeOK, Work
  <2> HIDE DEF found
  <2>3. rec \in Conn
    <3>1. conn[c] \in Conn
      BY <1>1, ConnFields
    <3>2. QED BY <3>1, <2>2 DEF Conn, ReaderStep
  <2>4. /\ rec.pc = "upsert" /\ rec.asked = conn[c].asked
        /\ rec.read = found /\ rec.diff = conn[c].diff
        /\ rec.link = conn[c].link /\ rec.miner = conn[c].miner
        /\ rec.name = conn[c].name
        /\ rec.current = conn[c].current /\ rec.authorized = conn[c].authorized
    BY <1>1, ConnFields DEF Conn
  <2> HIDE DEF rec
  <2>5. QED BY <1>1, <2>1, <2>3, <2>4, OneConn
<1>3. conn[c].pc = "password" /\ UNCHANGED <<disp, connections, database>>
  BY DEF FindJob
<1>4. found = NoWork \/ (found.job \in PowJobs /\ found.diff = conn[c].diff)
  BY <1>1 DEF TypeOK
<1> HIDE DEF found
<1>5. TypeOK'
  BY <1>1, <1>2, <1>3 DEF TypeOK, database
<1>6. Fresh(c)' /\ Named(c)' /\ Counted(c)' /\ Entries(c)'
  BY <1>2, <1>3 DEF GatewayInv, Registered, Fresh, Named, Counted, Entries, Authorizing
<1>7. Carried(c)'
  BY <1>2, <1>3, <1>4 DEF GatewayInv, Carried
<1>8. Told1(c)'
  BY <1>2, <1>3 DEF GatewayInv, Told1, Authorizing
<1>9. Recorded' /\ Noticed'
  BY <1>2, <1>3, SharesSame DEF database
<1>10. RowsSeen'
  BY <1>2, <1>3, RowsKept DEF database
<1>11. QED BY <1>2, <1>3, <1>5, <1>6, <1>7, <1>8, <1>9, <1>10, ConnStep
          DEF GatewayInv, Registered

\* The reader begins anew and nothing else happens, where it was not about to
\* register the connection or to reconcile
LEMMA ReadSafe ==
  ASSUME GatewayInv, NEW c \in Conns, Read(c),
         UNCHANGED <<disp, connections, running, policy, over, work, unreconciled>>,
         rows' \in [Workers -> RowStatus],
         \A w \in Workers : rows[w] \notin Unseen => rows'[w] \notin Unseen,
         conn[c].pc \notin {"new", "register", "reconcile", "offline", "closed"},
         conn[c].pc \in Authorizing => ~conn[c].link \/ conn[c].authorized # 1
  PROVE  GatewayInv'
<1>1. TypeOK
  BY DEF GatewayInv
<1>2. /\ conn' \in [Conns -> Conn]
      /\ \A d \in Conns : d # c => conn'[d] = conn[d]
      /\ conn'[c].pc = "read" /\ conn'[c].link = conn[c].link
      /\ conn'[c].name = conn[c].name /\ conn'[c].current = conn[c].current
      /\ conn'[c].miner = conn[c].miner /\ conn'[c].authorized = conn[c].authorized
  BY <1>1, ReadFields
<1>3. TypeOK'
  BY <1>1, <1>2 DEF TypeOK
<1>4. Fresh(c)' /\ Named(c)' /\ Counted(c)' /\ Entries(c)'
  BY <1>2 DEF GatewayInv, Registered, Fresh, Named, Counted, Entries, Authorizing
<1>5. Carried(c)'
  BY <1>2 DEF GatewayInv, Carried
<1>6. Told1(c)'
  BY <1>2 DEF GatewayInv, Told1, Authorizing
<1>7. Recorded' /\ Noticed'
  BY <1>2, SharesSame
<1>8. RowsSeen'
  BY <1>2, RowsKept
<1>9. QED BY <1>2, <1>3, <1>4, <1>5, <1>6, <1>7, <1>8, ConnStep
          DEF GatewayInv, Registered

\* The password is wrong: only an unknown name gets a blocked row, and nobody is
\* registered under it
LEMMA RefuseSafe ==
  ASSUME GatewayInv, NEW c \in Conns, Refuse(c)
  PROVE  GatewayInv'
<1>1. /\ conn[c].pc = "password" /\ Read(c)
      /\ UNCHANGED <<disp, connections, policy, running, over, work, unreconciled>>
      /\ \/ /\ rows[conn[c].asked] = "none"
            /\ rows' = [rows EXCEPT ![conn[c].asked] = "blocked"]
         \/ UNCHANGED rows
  BY DEF Refuse
<1>2. /\ rows' \in [Workers -> RowStatus]
      /\ \A v \in Workers : rows[v] \notin Unseen => rows'[v] \notin Unseen
  BY <1>1 DEF GatewayInv, TypeOK, RowStatus, Unseen
<1>3. QED BY <1>1, <1>2, ReadSafe DEF Authorizing

\* upsertWorker: the first authorization begins, or a further one
LEMMA UpsertSafe ==
  ASSUME GatewayInv, NEW c \in Conns, UpsertWorker(c)
  PROVE  GatewayInv'
<1>1. TypeOK
  BY DEF GatewayInv
<1>2. CASE Read(c) /\ UNCHANGED rows
  BY <1>1, <1>2, ReadSafe DEF UpsertWorker, TypeOK, Authorizing
<1>3. CASE ~(Read(c) /\ UNCHANGED rows)
  <2>1. /\ conn[c].pc = "upsert" /\ rows' = [rows EXCEPT ![conn[c].asked] = "connected"]
        /\ conn' = [conn EXCEPT ![c].pc = "register", ![c].name = conn[c].asked,
                                ![c].asked = None,
                                ![c].authorized = conn[c].authorized + 1]
        /\ UNCHANGED <<disp, connections, policy, running, over, work, unreconciled>>
    BY <1>3 DEF UpsertWorker
  <2>2. conn[c].asked \in Workers
    BY <2>1 DEF GatewayInv, Registered, Named
  <2> PICK n \in Nat : n = conn[c].authorized + 1
    BY <1>1, ConnFields
  <2>3. /\ conn' \in [Conns -> Conn]
        /\ \A d \in Conns : d # c => conn'[d] = conn[d]
        /\ conn'[c].pc = "register" /\ conn'[c].name = conn[c].asked
        /\ conn'[c].asked = None /\ conn'[c].authorized = n
        /\ conn'[c].link = conn[c].link /\ conn'[c].current = conn[c].current
        /\ conn'[c].read = conn[c].read /\ conn'[c].diff = conn[c].diff
        /\ conn'[c].miner = conn[c].miner /\ conn'[c].status = conn[c].status
    <3> DEFINE rec == [conn[c] EXCEPT !.pc = "register", !.name = conn[c].asked,
                                      !.asked = None, !.authorized = n]
    <3>1. conn' = [conn EXCEPT ![c] = rec]
      BY <1>1, <2>1 DEF TypeOK
    <3>2. rec \in Conn
      <4>1. conn[c] \in Conn /\ "register" \in ReaderStep /\ conn[c].asked \in Workers
        BY <1>1, <2>2, ConnFields DEF ReaderStep
      <4>2. QED BY <4>1 DEF Conn
    <3>3. /\ rec.pc = "register" /\ rec.name = conn[c].asked /\ rec.asked = None
          /\ rec.authorized = n /\ rec.link = conn[c].link
          /\ rec.current = conn[c].current /\ rec.read = conn[c].read
          /\ rec.diff = conn[c].diff /\ rec.miner = conn[c].miner
          /\ rec.status = conn[c].status
      BY ConnFields DEF Conn
    <3> HIDE DEF rec
    <3>4. QED BY <1>1, <3>1, <3>2, <3>3, OneConn
  <2>4. TypeOK'
    BY <1>1, <2>1, <2>3 DEF TypeOK, RowStatus
  <2>5. Fresh(c)' /\ Named(c)' /\ Counted(c)'
    <3>1. conn'[c].authorized # 0
      <4>1. n # 0
        BY <1>1, ConnFields
      <4>2. QED BY <2>3, <4>1
    <3>2. QED BY <2>1, <2>2, <2>3, <3>1 DEF GatewayInv, Registered, Fresh, Named, Counted, RowsSeen
  <2>6. Entries(c)'
    <3>1. n # 0 /\ (n = 1 => conn[c].authorized = 0)
      BY <1>1, ConnFields
    <3>2. QED BY <2>1, <2>3, <3>1 DEF GatewayInv, Registered, Entries
  <2>7. Carried(c)'
    BY <2>1, <2>3 DEF GatewayInv, Carried
  <2>8. Told1(c)'
    <3>1. n # 0 /\ (n = 1 => conn[c].authorized = 0)
      BY <1>1, ConnFields
    <3>2. QED BY <2>1, <2>3, <3>1 DEF GatewayInv, Told1, Authorizing
  <2>9. Recorded' /\ Noticed'
    BY <2>1, <2>3, SharesSame
  <2>10. RowsSeen'
    <3>1. \A w \in Workers : rows'[w] = IF w = conn[c].asked THEN "connected" ELSE rows[w]
      BY <1>1, <2>1 DEF TypeOK
    <3>2. \A w \in Workers : connections'[w] # {} => rows'[w] \notin Unseen
      BY <2>1, <3>1 DEF GatewayInv, Registered, RowsSeen, Unseen
    <3>3. \A d \in Conns : conn'[d].pc = "register" => rows'[conn'[d].name] \notin Unseen
      <4>1. rows'[conn'[c].name] \notin Unseen
        BY <2>2, <2>3, <3>1 DEF Unseen
      <4>2. ASSUME NEW d \in Conns, d # c, conn'[d].pc = "register"
            PROVE  rows'[conn'[d].name] \notin Unseen
        BY <2>3, <3>1, <4>2 DEF GatewayInv, Registered, RowsSeen, Named, Unseen
      <4>3. QED BY <4>1, <4>2
    <3>4. QED BY <3>2, <3>3 DEF RowsSeen
  <2>11. QED BY <2>1, <2>3, <2>4, <2>5, <2>6, <2>7, <2>8, <2>9, <2>10, ConnStep
            DEF GatewayInv, Registered
<1>4. QED BY <1>2, <1>3

\* The statuses a number of connections is shown as
LEMMA StatusSeen == \A n : StatusOf(n) \in RowStatus \ Unseen
BY DEF StatusOf, RowStatus, Unseen

\* registerConnection: the row of the name was written before
LEMMA RegisterSafe ==
  ASSUME GatewayInv, NEW c \in Conns, Register(c)
  PROVE  GatewayInv'
<1>1. TypeOK /\ conn[c].name \in Workers /\ rows[conn[c].name] \notin Unseen
  BY DEF GatewayInv, Registered, Named, RowsSeen, Register
<1> DEFINE w == conn[c].name
           status == StatusOf(Cardinality(connections[w] \cup {c}))
<1>2. /\ conn[c].pc = "register" /\ UNCHANGED <<disp, database>>
      /\ connections' = [connections EXCEPT ![w] = connections[w] \cup {c}]
      /\ conn' = [conn EXCEPT ![c].pc = "status", ![c].status = status]
  BY DEF Register
<1>3. status \in RowStatus \ Unseen
  BY StatusSeen
<1> HIDE DEF status
<1>4. /\ conn' \in [Conns -> Conn]
      /\ \A d \in Conns : d # c => conn'[d] = conn[d]
      /\ conn'[c].pc = "status" /\ conn'[c].status = status
      /\ conn'[c].link = conn[c].link /\ conn'[c].name = conn[c].name
      /\ conn'[c].current = conn[c].current /\ conn'[c].read = conn[c].read
      /\ conn'[c].diff = conn[c].diff /\ conn'[c].miner = conn[c].miner
      /\ conn'[c].authorized = conn[c].authorized
  <2> DEFINE rec == [conn[c] EXCEPT !.pc = "status", !.status = status]
  <2>1. conn' = [conn EXCEPT ![c] = rec]
    BY <1>1, <1>2 DEF TypeOK
  <2>2. rec \in Conn
    <3>1. conn[c] \in Conn /\ "status" \in ReaderStep /\ status \in RowStatus
      BY <1>1, <1>3, ConnFields DEF ReaderStep
    <3>2. QED BY <3>1 DEF Conn
  <2>3. /\ rec.pc = "status" /\ rec.status = status /\ rec.link = conn[c].link
          /\ rec.name = conn[c].name /\ rec.current = conn[c].current
          /\ rec.read = conn[c].read /\ rec.diff = conn[c].diff
          /\ rec.miner = conn[c].miner /\ rec.authorized = conn[c].authorized
    BY ConnFields DEF Conn
  <2> HIDE DEF rec
  <2>4. QED BY <1>1, <2>1, <2>2, <2>3, OneConn
<1>5. /\ \A v \in Workers :
           connections'[v] = IF v = w THEN connections[v] \cup {c} ELSE connections[v]
      /\ connections' \in [Workers -> SUBSET Conns]
  BY <1>1, <1>2 DEF TypeOK
<1>6. TypeOK'
  BY <1>1, <1>2, <1>4, <1>5 DEF TypeOK, database
<1>7. Fresh(c)' /\ Named(c)' /\ Counted(c)'
  BY <1>1, <1>2, <1>3, <1>4, <1>5
     DEF GatewayInv, Registered, Fresh, Named, Counted, Authorizing
<1>8. Entries(c)'
  BY <1>1, <1>2, <1>4, <1>5 DEF GatewayInv, Registered, Entries, Named, Authorizing
<1>9. Carried(c)'
  BY <1>2, <1>4 DEF GatewayInv, Carried
<1>10. Told1(c)'
  BY <1>2, <1>4 DEF GatewayInv, Told1, Authorizing
<1>11. Recorded' /\ Noticed'
  BY <1>2, <1>4, SharesSame DEF database
<1>12. RowsSeen'
  BY <1>1, <1>2, <1>4, <1>5 DEF GatewayInv, Registered, RowsSeen, database
<1>13. QED BY <1>2, <1>4, <1>5, <1>6, <1>7, <1>8, <1>9, <1>10, <1>11, <1>12, ConnStep
           DEF GatewayInv, Registered

\* setWorkerStatus after registerConnection
LEMMA WriteStatusSafe ==
  ASSUME GatewayInv, NEW c \in Conns, WriteStatus(c)
  PROVE  GatewayInv'
<1>1. TypeOK
  BY DEF GatewayInv
<1>2. /\ conn[c].pc = "status"
      /\ conn' = [conn EXCEPT ![c].pc = "welcome", ![c].status = "none"]
      /\ UNCHANGED <<disp, connections, policy, running, over, work, unreconciled>>
  BY DEF WriteStatus
<1>3. /\ rows' \in [Workers -> RowStatus]
      /\ \A w \in Workers : rows[w] \notin Unseen => rows'[w] \notin Unseen
  <2>1. conn[c].status \in RowStatus \ Unseen
    BY <1>1, <1>2, ConnFields DEF GatewayInv, Registered, Named
  <2>2. rows' = [rows EXCEPT ![conn[c].name] = conn[c].status] \/ UNCHANGED rows
    BY DEF WriteStatus
  <2>3. QED BY <1>1, <2>1, <2>2 DEF TypeOK
<1>4. /\ conn' \in [Conns -> Conn]
      /\ \A d \in Conns : d # c => conn'[d] = conn[d]
      /\ conn'[c].pc = "welcome" /\ conn'[c].status = "none"
      /\ conn'[c].link = conn[c].link /\ conn'[c].name = conn[c].name
      /\ conn'[c].current = conn[c].current /\ conn'[c].read = conn[c].read
      /\ conn'[c].diff = conn[c].diff /\ conn'[c].miner = conn[c].miner
      /\ conn'[c].authorized = conn[c].authorized
  <2> DEFINE rec == [conn[c] EXCEPT !.pc = "welcome", !.status = "none"]
  <2>1. conn' = [conn EXCEPT ![c] = rec]
    BY <1>1, <1>2 DEF TypeOK
  <2>2. rec \in Conn
    <3>1. conn[c] \in Conn /\ "welcome" \in ReaderStep /\ "none" \in RowStatus
      BY <1>1, ConnFields DEF ReaderStep, RowStatus
    <3>2. QED BY <3>1 DEF Conn
  <2>3. /\ rec.pc = "welcome" /\ rec.status = "none" /\ rec.link = conn[c].link
          /\ rec.name = conn[c].name /\ rec.current = conn[c].current
          /\ rec.read = conn[c].read /\ rec.diff = conn[c].diff
          /\ rec.miner = conn[c].miner /\ rec.authorized = conn[c].authorized
    BY ConnFields DEF Conn
  <2> HIDE DEF rec
  <2>4. QED BY <1>1, <2>1, <2>2, <2>3, OneConn
<1>5. TypeOK'
  BY <1>1, <1>2, <1>3, <1>4 DEF TypeOK
<1>6. Fresh(c)' /\ Named(c)' /\ Counted(c)' /\ Entries(c)'
  BY <1>2, <1>4 DEF GatewayInv, Registered, Fresh, Named, Counted, Entries, Authorizing
<1>7. Carried(c)'
  BY <1>2, <1>4 DEF GatewayInv, Carried
<1>8. Told1(c)'
  BY <1>2, <1>4 DEF GatewayInv, Told1, Authorizing
<1>9. Recorded' /\ Noticed'
  BY <1>2, <1>4, SharesSame
<1>10. RowsSeen'
  BY <1>2, <1>3, <1>4, RowsKept
<1>11. QED BY <1>2, <1>4, <1>5, <1>6, <1>7, <1>8, <1>9, <1>10, ConnStep
           DEF GatewayInv, Registered

\* A step of a connection's reader or dispatcher that touches no table and no
\* entry, and neither begins nor ends a registration, an insertion or a reconcile
LEMMA QuietStep ==
  ASSUME GatewayInv, NEW c \in Conns, UNCHANGED <<connections, database>>,
         conn' \in [Conns -> Conn], disp' \in [Conns -> Dispatcher],
         \A d \in Conns : d # c => conn'[d] = conn[d] /\ disp'[d] = disp[d],
         conn'[c].name = conn[c].name, conn'[c].authorized = conn[c].authorized,
         \/ /\ conn'[c].pc = conn[c].pc /\ conn[c].pc # "new"
            /\ conn'[c].asked = conn[c].asked /\ conn'[c].status = conn[c].status
            /\ conn'[c].read = conn[c].read
         \/ /\ conn[c].pc \notin {"new", "register", "reconcile", "offline", "closed"}
            /\ conn'[c].pc \in {"read", "assign", "notify", "check", "answer", "unregister"}
            /\ conn'[c].pc \in Authorizing => conn[c].pc \in Authorizing,
         Carried(c)', Told1(c)'
  PROVE  GatewayInv'
<1>1. TypeOK'
  BY DEF GatewayInv, TypeOK, database
<1>2. Fresh(c)' /\ Named(c)' /\ Counted(c)' /\ Entries(c)'
  BY DEF GatewayInv, Registered, Fresh, Named, Counted, Entries, Authorizing
<1>3. Recorded' /\ Noticed'
  BY SharesSame DEF database
<1>4. RowsSeen'
  BY RowsKept DEF database
<1>5. QED BY <1>1, <1>2, <1>3, <1>4, ConnStep DEF GatewayInv, Registered

\* The dispatcher of the connection runs from now on
LEMMA StartFields ==
  ASSUME TypeOK, NEW c \in Conns, StartDispatch(c)
  PROVE  /\ disp' \in [Conns -> Dispatcher]
         /\ \A d \in Conns : d # c => disp'[d] = disp[d]
         /\ disp'[c].pc = IF disp[c].pc = "off" THEN "wait" ELSE disp[c].pc
         /\ disp'[c].read = disp[c].read
BY DEF TypeOK, StartDispatch, Dispatcher

\* The result and the difficulty, which is that of the work read earlier
LEMMA WelcomeSafe ==
  ASSUME GatewayInv, NEW c \in Conns, Welcome(c)
  PROVE  GatewayInv'
<1>1. TypeOK
  BY DEF GatewayInv
<1>2. conn[c].pc = "welcome" /\ UNCHANGED <<connections, database>>
  BY DEF Welcome
<1>3. CASE ~conn[c].link /\ Read(c) /\ UNCHANGED disp
  BY <1>1, <1>2, <1>3, ReadSafe DEF TypeOK, database
<1>4. CASE ~(~conn[c].link /\ Read(c) /\ UNCHANGED disp)
  <2> DEFINE told == [conn[c].miner EXCEPT !.diff = conn[c].diff]
             next == IF conn[c].read = NoWork THEN "read" ELSE "assign"
             miner == Told(c, told)
  <2>1. /\ conn' = [conn EXCEPT ![c].pc = next, ![c].miner = miner, ![c].diff = 0]
        /\ IF conn[c].read = NoWork THEN StartDispatch(c) ELSE UNCHANGED disp
    BY <1>4 DEF Welcome
  <2>2. /\ next \in {"read", "assign"} /\ (next = "assign" <=> conn[c].read # NoWork)
        /\ miner \in Work /\ (conn[c].link => miner.diff = conn[c].diff)
    <3>1. told \in Work /\ told.diff = conn[c].diff
      BY <1>1, ConnFields DEF Work
    <3>2. QED BY <1>1, <3>1, ConnFields DEF Told
  <2> HIDE DEF next, miner
  <2>3. /\ conn' \in [Conns -> Conn]
        /\ \A d \in Conns : d # c => conn'[d] = conn[d]
        /\ conn'[c].pc = next /\ conn'[c].miner = miner /\ conn'[c].diff = 0
        /\ conn'[c].link = conn[c].link /\ conn'[c].name = conn[c].name
        /\ conn'[c].current = conn[c].current /\ conn'[c].read = conn[c].read
        /\ conn'[c].authorized = conn[c].authorized
    <3> DEFINE rec == [conn[c] EXCEPT !.pc = next, !.miner = miner, !.diff = 0]
    <3>1. conn' = [conn EXCEPT ![c] = rec]
      BY <1>1, <2>1 DEF TypeOK
    <3>2. rec \in Conn
      <4>1. conn[c] \in Conn /\ next \in ReaderStep /\ miner \in Work
        BY <1>1, <2>2, ConnFields DEF ReaderStep
      <4>2. QED BY <4>1 DEF Conn
    <3>3. /\ rec.pc = next /\ rec.miner = miner /\ rec.diff = 0
          /\ rec.link = conn[c].link /\ rec.name = conn[c].name
          /\ rec.current = conn[c].current /\ rec.read = conn[c].read
          /\ rec.authorized = conn[c].authorized
      BY ConnFields DEF Conn
    <3> HIDE DEF rec
    <3>4. QED BY <1>1, <3>1, <3>2, <3>3, OneConn
  <2>4. /\ disp' \in [Conns -> Dispatcher]
        /\ \A d \in Conns : d # c => disp'[d] = disp[d]
        /\ disp'[c].pc = disp[c].pc \/
             (disp[c].pc = "off" /\ disp'[c].pc = "wait" /\ conn[c].read = NoWork)
        /\ disp'[c].read = disp[c].read
    BY <1>1, <2>1, StartFields DEF TypeOK
  <2>5. Carried(c)'
    BY <1>2, <2>2, <2>3, <2>4 DEF GatewayInv, Carried
  <2>6. Told1(c)'
    BY <1>2, <2>2, <2>3, <2>4 DEF GatewayInv, Registered, Named, Carried, Told1, Authorizing
  <2>7. QED BY <1>2, <2>2, <2>3, <2>4, <2>5, <2>6, QuietStep DEF Authorizing
<1>5. QED BY <1>3, <1>4

\* sendWork up to its unlock; a connection that authorizes for the first time has
\* no work yet
LEMMA AssignSafe ==
  ASSUME GatewayInv, NEW c \in Conns, Assign(c)
  PROVE  GatewayInv'
<1>1. TypeOK
  BY DEF GatewayInv
<1>2. conn[c].pc = "assign" /\ UNCHANGED <<connections, database>>
  BY DEF Assign
<1>3. CASE conn[c].current.job = conn[c].read.job
  <2>1. Read(c) /\ StartDispatch(c)
    BY <1>3 DEF Assign
  <2>2. /\ conn' \in [Conns -> Conn]
        /\ \A d \in Conns : d # c => conn'[d] = conn[d]
        /\ conn'[c].pc = "read" /\ conn'[c].link = conn[c].link
        /\ conn'[c].name = conn[c].name /\ conn'[c].current = conn[c].current
        /\ conn'[c].miner = conn[c].miner /\ conn'[c].authorized = conn[c].authorized
    BY <1>1, <2>1, ReadFields
  <2>3. /\ disp' \in [Conns -> Dispatcher]
        /\ \A d \in Conns : d # c => disp'[d] = disp[d]
        /\ disp'[c].pc = disp[c].pc \/ (disp[c].pc = "off" /\ disp'[c].pc = "wait")
        /\ disp'[c].read = disp[c].read
    BY <1>1, <2>1, StartFields
  <2>4. Carried(c)'
    BY <1>2, <2>2, <2>3 DEF GatewayInv, Carried
  <2>5. conn[c].current # NoWork /\ conn[c].authorized # 0
    BY <1>2, <1>3, GatewayAssumption DEF GatewayInv, Registered, Named, Carried, NoWork, Authorizing
  <2>6. Told1(c)'
    BY <1>2, <2>2, <2>3, <2>5 DEF GatewayInv, Told1, Authorizing
  <2>7. QED BY <1>2, <2>2, <2>3, <2>4, <2>6, QuietStep DEF Authorizing
<1>4. CASE conn[c].current.job # conn[c].read.job
  <2>1. /\ conn' = [conn EXCEPT ![c].pc = "notify", ![c].current = conn[c].read]
        /\ UNCHANGED disp
    BY <1>4 DEF Assign
  <2>2. /\ conn' \in [Conns -> Conn]
        /\ \A d \in Conns : d # c => conn'[d] = conn[d]
        /\ conn'[c].pc = "notify" /\ conn'[c].current = conn[c].read
        /\ conn'[c].link = conn[c].link /\ conn'[c].name = conn[c].name
        /\ conn'[c].miner = conn[c].miner /\ conn'[c].read = conn[c].read
        /\ conn'[c].authorized = conn[c].authorized
    <3> DEFINE rec == [conn[c] EXCEPT !.pc = "notify", !.current = conn[c].read]
    <3>1. conn' = [conn EXCEPT ![c] = rec]
      BY <1>1, <2>1 DEF TypeOK
    <3>2. rec \in Conn
      <4>1. conn[c] \in Conn /\ conn[c].read \in Work
        BY <1>1, ConnFields
      <4>2. QED BY <4>1 DEF Conn, ReaderStep
    <3>3. /\ rec.pc = "notify" /\ rec.current = conn[c].read /\ rec.link = conn[c].link
          /\ rec.name = conn[c].name /\ rec.miner = conn[c].miner
          /\ rec.read = conn[c].read /\ rec.authorized = conn[c].authorized
      BY ConnFields DEF Conn
    <3> HIDE DEF rec
    <3>4. QED BY <1>1, <3>1, <3>2, <3>3, OneConn
  <2>3. Carried(c)'
    BY <1>2, <2>1, <2>2 DEF GatewayInv, Carried
  <2>4. Told1(c)'
    BY <1>2, <2>1, <2>2 DEF GatewayInv, Registered, Named, Told1, Authorizing
  <2>5. QED BY <1>1, <1>2, <2>1, <2>2, <2>3, <2>4, QuietStep DEF Authorizing, TypeOK
<1>5. QED BY <1>3, <1>4

\* mining.notify: the miner knows the job after the difficulty
LEMMA NotifySafe ==
  ASSUME GatewayInv, NEW c \in Conns, Notify(c)
  PROVE  GatewayInv'
<1>1. TypeOK
  BY DEF GatewayInv
<1>2. conn[c].pc = "notify" /\ UNCHANGED <<connections, database>>
  BY DEF Notify
<1>3. CASE ~conn[c].link /\ Read(c) /\ UNCHANGED disp
  BY <1>1, <1>2, <1>3, ReadSafe DEF TypeOK, database
<1>4. CASE ~(~conn[c].link /\ Read(c) /\ UNCHANGED disp)
  <2> DEFINE told == [conn[c].miner EXCEPT !.job = conn[c].read.job]
             miner == Told(c, told)
  <2>1. /\ conn' = [conn EXCEPT ![c].pc = "read", ![c].read = NoWork, ![c].miner = miner]
        /\ StartDispatch(c)
    BY <1>4 DEF Notify
  <2>2. told \in Work /\ told.job = conn[c].read.job /\ told.diff = conn[c].miner.diff
    BY <1>1, ConnFields DEF Work
  <2>3. conn[c].miner.diff = conn[c].read.diff => told = conn[c].read
    BY <1>1, <2>2, ConnFields, SameWork
  <2>4. /\ miner \in Work
        /\ conn[c].link /\ conn[c].miner.diff = conn[c].read.diff => miner = conn[c].read
    BY <1>1, <2>2, <2>3, ConnFields DEF Told
  <2> HIDE DEF miner
  <2>5. /\ conn' \in [Conns -> Conn]
        /\ \A d \in Conns : d # c => conn'[d] = conn[d]
        /\ conn'[c].pc = "read" /\ conn'[c].read = NoWork /\ conn'[c].miner = miner
        /\ conn'[c].link = conn[c].link /\ conn'[c].name = conn[c].name
        /\ conn'[c].current = conn[c].current
        /\ conn'[c].authorized = conn[c].authorized
    <3> DEFINE rec == [conn[c] EXCEPT !.pc = "read", !.read = NoWork, !.miner = miner]
    <3>1. conn' = [conn EXCEPT ![c] = rec]
      BY <1>1, <2>1 DEF TypeOK
    <3>2. rec \in Conn
      <4>1. conn[c] \in Conn /\ "read" \in ReaderStep /\ NoWork \in Work /\ miner \in Work
        BY <1>1, <2>4, ConnFields, NoWorkIsWork DEF ReaderStep
      <4>2. QED BY <4>1 DEF Conn
    <3>3. /\ rec.pc = "read" /\ rec.read = NoWork /\ rec.miner = miner
          /\ rec.link = conn[c].link /\ rec.name = conn[c].name
          /\ rec.current = conn[c].current /\ rec.authorized = conn[c].authorized
      BY ConnFields DEF Conn
    <3> HIDE DEF rec
    <3>4. QED BY <1>1, <3>1, <3>2, <3>3, OneConn
  <2>6. /\ disp' \in [Conns -> Dispatcher]
        /\ \A d \in Conns : d # c => disp'[d] = disp[d]
        /\ disp'[c].pc = disp[c].pc \/ (disp[c].pc = "off" /\ disp'[c].pc = "wait")
        /\ disp'[c].read = disp[c].read
    BY <1>1, <2>1, StartFields
  <2>7. Carried(c)'
    BY <1>2, <2>5, <2>6 DEF GatewayInv, Carried
  <2>8. Told1(c)'
    BY <1>2, <2>4, <2>5, <2>6 DEF GatewayInv, Registered, Named, Told1, Authorizing
  <2>9. QED BY <1>2, <2>5, <2>6, <2>7, <2>8, QuietStep DEF Authorizing
<1>5. QED BY <1>3, <1>4

-----------------------------------------------------------------------------
(* The dispatcher.                                                          *)

\* A connection that authorized once and has a dispatcher is not in authorize
LEMMA DispatcherRuns ==
  ASSUME GatewayInv, NEW c \in Conns,
         disp[c].pc \in {"wait", "lookup", "policy", "assign", "notify"}
  PROVE  /\ conn[c].pc # "new" /\ conn[c].authorized # 0
         /\ conn[c].authorized = 1 /\ conn[c].link => conn[c].pc \notin Authorizing
BY DEF GatewayInv, Registered, Fresh, Told1

\* A step of the dispatcher that reads something or waits for the next tick
LEMMA DispatcherStep ==
  ASSUME GatewayInv, NEW c \in Conns, UNCHANGED <<conn, connections, database>>,
         disp[c].pc \in {"wait", "lookup", "policy", "assign"},
         NEW next \in Dispatcher, next.pc \in {"wait", "lookup", "policy", "assign"},
         next.pc \in {"policy", "assign"} => next.read.job \in PowJobs,
         disp' = [disp EXCEPT ![c] = next]
  PROVE  GatewayInv'
<1>1. TypeOK
  BY DEF GatewayInv
<1>2. /\ disp' \in [Conns -> Dispatcher] /\ disp'[c] = next
      /\ \A d \in Conns : d # c => disp'[d] = disp[d]
  BY <1>1 DEF TypeOK
<1>3. Carried(c)'
  BY <1>2 DEF GatewayInv, Carried
<1>4. Told1(c)'
  BY <1>2, DispatcherRuns DEF GatewayInv, Told1, Authorizing
<1>5. QED BY <1>1, <1>2, <1>3, <1>4, QuietStep, DispatcherRuns DEF TypeOK

\* The dispatcher waits for the next tick
LEMMA DispatchWaitsSafe ==
  ASSUME GatewayInv, NEW c \in Conns, UNCHANGED <<conn, connections, database>>,
         disp[c].pc \in {"lookup", "policy", "assign"}, DispatchWaits(c)
  PROVE  GatewayInv'
<1> DEFINE next == [pc |-> "wait", read |-> NoWork]
<1>1. next \in Dispatcher /\ next.pc = "wait"
  BY NoWorkIsWork DEF Dispatcher
<1>2. disp' = [disp EXCEPT ![c] = next]
  BY DEF DispatchWaits
<1> HIDE DEF next
<1>3. QED BY <1>1, <1>2, DispatcherStep

\* A tick of the dispatcher begins
LEMMA TickSafe ==
  ASSUME GatewayInv, NEW c \in Conns, Tick(c)
  PROVE  GatewayInv'
<1> DEFINE next == [pc |-> "lookup", read |-> conn[c].current]
<1>1. conn[c].current \in Work
  BY ConnFields DEF GatewayInv
<1>2. next \in Dispatcher /\ next.pc = "lookup"
  BY <1>1 DEF Dispatcher
<1>3. /\ disp[c].pc = "wait" /\ disp' = [disp EXCEPT ![c] = next]
      /\ UNCHANGED <<conn, connections, database>>
  BY DEF Tick
<1> HIDE DEF next
<1>4. QED BY <1>2, <1>3, DispatcherStep

\* The dispatcher finds a job the connection has no work for, or none
LEMMA DispatchLookupSafe ==
  ASSUME GatewayInv, NEW c \in Conns, DispatchLookup(c)
  PROVE  GatewayInv'
<1>1. disp[c].pc = "lookup" /\ UNCHANGED <<conn, connections, database>>
  BY DEF DispatchLookup
<1>2. CASE DispatchWaits(c)
  BY <1>1, <1>2, DispatchWaitsSafe
<1>3. CASE ~DispatchWaits(c)
  <2> DEFINE found == [job |-> running, diff |-> 0]
             next == [pc |-> "policy", read |-> found]
  <2>1. running # None /\ disp' = [disp EXCEPT ![c] = next]
    BY <1>3 DEF DispatchLookup
  <2>2. running \in PowJobs /\ found \in Work /\ found.job = running
    BY <2>1 DEF GatewayInv, TypeOK, Work
  <2> HIDE DEF found
  <2>3. next \in Dispatcher /\ next.pc = "policy" /\ next.read = found
    BY <2>2 DEF Dispatcher
  <2> HIDE DEF next
  <2>4. QED BY <1>1, <2>1, <2>2, <2>3, DispatcherStep
<1>4. QED BY <1>2, <1>3

\* The dispatcher reads the policy
LEMMA DispatchPolicySafe ==
  ASSUME GatewayInv, NEW c \in Conns, DispatchPolicy(c)
  PROVE  GatewayInv'
<1>1. disp[c].pc = "policy" /\ UNCHANGED <<conn, connections, database>>
  BY DEF DispatchPolicy
<1>2. CASE DispatchWaits(c)
  BY <1>1, <1>2, DispatchWaitsSafe
<1>3. CASE ~DispatchWaits(c)
  <2> DEFINE found == [disp[c].read EXCEPT !.diff = policy.diff]
             next == [pc |-> "assign", read |-> found]
  <2>1. disp[c].read \in Work /\ disp[c].read.job \in PowJobs
    BY <1>1, ConnFields DEF GatewayInv, Carried
  <2>2. policy.diff \in Difficulties
    BY DEF GatewayInv, TypeOK
  <2>3. found \in Work /\ found.job \in PowJobs
    BY <2>1, <2>2 DEF Work
  <2>4. disp' = [disp EXCEPT ![c].pc = "assign", ![c].read.diff = policy.diff]
    BY <1>3 DEF DispatchPolicy
  <2>5. disp[c] \in Dispatcher /\ disp \in [Conns -> Dispatcher]
    BY DEF GatewayInv, TypeOK
  <2>6. [disp[c] EXCEPT !.pc = "assign", !.read.diff = policy.diff] = next
    <3> DEFINE rec == [disp[c] EXCEPT !.pc = "assign"]
    <3>1. rec = [pc |-> "assign", read |-> disp[c].read]
      BY <2>5 DEF Dispatcher
    <3>2. [disp[c] EXCEPT !.pc = "assign", !.read.diff = policy.diff]
            = [rec EXCEPT !.read.diff = policy.diff]
      OBVIOUS
    <3> HIDE DEF rec
    <3>3. [rec EXCEPT !.read.diff = policy.diff] = next
      BY <3>1
    <3>4. QED BY <3>2, <3>3
  <2>7. disp' = [disp EXCEPT ![c] = next]
    BY <2>4, <2>5, <2>6
  <2> HIDE DEF found
  <2>8. next \in Dispatcher /\ next.pc = "assign" /\ next.read = found
    BY <2>3 DEF Dispatcher
  <2> HIDE DEF next
  <2>9. QED BY <1>1, <2>3, <2>7, <2>8, DispatcherStep
<1>4. QED BY <1>2, <1>3

\* A query of the dispatcher fails
LEMMA DispatchFailsSafe ==
  ASSUME GatewayInv, NEW c \in Conns, DispatchFails(c)
  PROVE  GatewayInv'
BY DispatchWaitsSafe DEF DispatchFails

\* sendWork of the dispatcher up to its unlock
LEMMA DispatchAssignSafe ==
  ASSUME GatewayInv, NEW c \in Conns, DispatchAssign(c)
  PROVE  GatewayInv'
<1>1. TypeOK
  BY DEF GatewayInv
<1>2. disp[c].pc = "assign" /\ UNCHANGED <<connections, database>>
  BY DEF DispatchAssign
<1>3. CASE conn[c].current.job = disp[c].read.job
  BY <1>2, <1>3, DispatchWaitsSafe DEF DispatchAssign
<1>4. CASE conn[c].current.job # disp[c].read.job
  <2>1. /\ conn' = [conn EXCEPT ![c].current = disp[c].read]
        /\ disp' = [disp EXCEPT ![c].pc = "notify"]
    BY <1>4 DEF DispatchAssign
  <2>2. /\ conn' \in [Conns -> Conn]
        /\ \A d \in Conns : d # c => conn'[d] = conn[d]
        /\ conn'[c].current = disp[c].read /\ conn'[c].pc = conn[c].pc
        /\ conn'[c].link = conn[c].link /\ conn'[c].name = conn[c].name
        /\ conn'[c].asked = conn[c].asked /\ conn'[c].status = conn[c].status
        /\ conn'[c].miner = conn[c].miner /\ conn'[c].read = conn[c].read
        /\ conn'[c].diff = conn[c].diff /\ conn'[c].authorized = conn[c].authorized
    <3> DEFINE rec == [conn[c] EXCEPT !.current = disp[c].read]
    <3>1. conn' = [conn EXCEPT ![c] = rec]
      BY <1>1, <2>1 DEF TypeOK
    <3>2. rec \in Conn
      BY <1>1, ConnFields DEF Conn, ReaderStep
    <3>3. /\ rec.current = disp[c].read /\ rec.pc = conn[c].pc
          /\ rec.link = conn[c].link /\ rec.name = conn[c].name
          /\ rec.asked = conn[c].asked /\ rec.status = conn[c].status
          /\ rec.miner = conn[c].miner /\ rec.read = conn[c].read
          /\ rec.diff = conn[c].diff /\ rec.authorized = conn[c].authorized
      BY ConnFields DEF Conn
    <3> HIDE DEF rec
    <3>4. QED BY <1>1, <3>1, <3>2, <3>3, OneConn
  <2>3. /\ disp' \in [Conns -> Dispatcher]
        /\ disp'[c].pc = "notify" /\ disp'[c].read = disp[c].read
        /\ \A d \in Conns : d # c => disp'[d] = disp[d]
    BY <1>1, <2>1 DEF TypeOK, Dispatcher
  <2>4. Carried(c)'
    BY <1>2, <2>2, <2>3 DEF GatewayInv, Carried
  <2>5. Told1(c)'
    BY <1>2, <2>2, <2>3, DispatcherRuns DEF GatewayInv, Told1, Authorizing
  <2>6. QED BY <1>2, <2>2, <2>3, <2>4, <2>5, QuietStep, DispatcherRuns
<1>5. QED BY <1>3, <1>4

\* The difficulty and mining.notify of the dispatcher
LEMMA DispatchNotifySafe ==
  ASSUME GatewayInv, NEW c \in Conns, DispatchNotify(c)
  PROVE  GatewayInv'
<1>1. TypeOK
  BY DEF GatewayInv
<1>2. disp[c].pc = "notify" /\ UNCHANGED <<connections, database>>
  BY DEF DispatchNotify
<1>3. PICK end \in {"wait", "stopped"} :
        /\ disp' = [disp EXCEPT ![c] = [pc |-> end, read |-> NoWork]]
        /\ end = "stopped" => ~conn[c].link /\ UNCHANGED conn
        /\ end = "wait" => conn' = [conn EXCEPT ![c].miner = Told(c, disp[c].read)]
  BY DEF DispatchNotify, DispatchWaits
<1>4. /\ disp' \in [Conns -> Dispatcher] /\ disp'[c].pc = end
      /\ \A d \in Conns : d # c => disp'[d] = disp[d]
  BY <1>1, <1>3, NoWorkIsWork DEF TypeOK, Dispatcher
<1>5. CASE end = "stopped"
  <2>1. Carried(c)'
    BY <1>3, <1>4, <1>5 DEF GatewayInv, Carried
  <2>2. Told1(c)'
    BY <1>2, <1>3, <1>4, <1>5, DispatcherRuns DEF GatewayInv, Told1, Authorizing
  <2>3. QED BY <1>1, <1>2, <1>3, <1>4, <1>5, <2>1, <2>2, QuietStep, DispatcherRuns DEF TypeOK
<1>6. CASE end = "wait"
  <2> DEFINE miner == Told(c, disp[c].read)
  <2>1. miner \in Work /\ (conn[c].link => miner = disp[c].read)
    BY <1>1, ConnFields DEF Told
  <2>2. conn' = [conn EXCEPT ![c].miner = miner]
    BY <1>3, <1>6
  <2> HIDE DEF miner
  <2>3. /\ conn' \in [Conns -> Conn]
        /\ \A d \in Conns : d # c => conn'[d] = conn[d]
        /\ conn'[c].miner = miner /\ conn'[c].pc = conn[c].pc
        /\ conn'[c].link = conn[c].link /\ conn'[c].name = conn[c].name
        /\ conn'[c].asked = conn[c].asked /\ conn'[c].status = conn[c].status
        /\ conn'[c].current = conn[c].current /\ conn'[c].read = conn[c].read
        /\ conn'[c].diff = conn[c].diff /\ conn'[c].authorized = conn[c].authorized
    <3> DEFINE rec == [conn[c] EXCEPT !.miner = miner]
    <3>1. conn' = [conn EXCEPT ![c] = rec]
      BY <1>1, <2>2 DEF TypeOK
    <3>2. rec \in Conn
      BY <1>1, <2>1, ConnFields DEF Conn, ReaderStep
    <3>3. /\ rec.miner = miner /\ rec.pc = conn[c].pc /\ rec.link = conn[c].link
          /\ rec.name = conn[c].name /\ rec.asked = conn[c].asked
          /\ rec.status = conn[c].status /\ rec.current = conn[c].current
          /\ rec.read = conn[c].read /\ rec.diff = conn[c].diff
          /\ rec.authorized = conn[c].authorized
      BY ConnFields DEF Conn
    <3> HIDE DEF rec
    <3>4. QED BY <1>1, <3>1, <3>2, <3>3, OneConn
  <2>4. Carried(c)'
    BY <1>4, <1>6, <2>3 DEF GatewayInv, Carried
  <2>5. Told1(c)'
    BY <1>2, <1>4, <1>6, <2>1, <2>3, DispatcherRuns DEF GatewayInv, Told1, Authorizing
  <2>6. QED BY <1>2, <1>4, <2>3, <2>4, <2>5, QuietStep, DispatcherRuns
<1>7. QED BY <1>3, <1>5, <1>6

\* The dispatcher ends with its connection
LEMMA DispatchStopsSafe ==
  ASSUME GatewayInv, NEW c \in Conns, DispatchStops(c)
  PROVE  GatewayInv'
<1>1. TypeOK
  BY DEF GatewayInv
<1>2. /\ disp[c].pc = "wait" /\ UNCHANGED <<conn, connections, database>>
      /\ disp' = [disp EXCEPT ![c].pc = "stopped"]
  BY DEF DispatchStops
<1>3. /\ disp' \in [Conns -> Dispatcher] /\ disp'[c].pc = "stopped"
      /\ \A d \in Conns : d # c => disp'[d] = disp[d]
  BY <1>1, <1>2 DEF TypeOK, Dispatcher
<1>4. Carried(c)'
  BY <1>2, <1>3 DEF GatewayInv, Carried
<1>5. Told1(c)'
  BY <1>2, <1>3, DispatcherRuns DEF GatewayInv, Told1, Authorizing
<1>6. QED BY <1>1, <1>2, <1>3, <1>4, <1>5, QuietStep, DispatcherRuns DEF TypeOK

-----------------------------------------------------------------------------
(* mining.submit.                                                           *)

\* submitShare up to its first query
LEMMA SubmitSafe ==
  ASSUME GatewayInv, NEW c \in Conns, NEW hash \in BOOLEAN, Submit(c, hash)
  PROVE  GatewayInv'
<1>1. TypeOK
  BY DEF GatewayInv
<1>2. conn[c].pc = "read" /\ conn[c].current # NoWork /\ UNCHANGED <<disp, connections, database>>
  BY DEF Submit
<1> DEFINE valid == Verified(c, hash)
<1>3. valid \in BOOLEAN
  BY DEF Verified
<1>4. conn' = [conn EXCEPT ![c].pc = "check", ![c].read = conn[c].current, ![c].valid = valid]
  BY DEF Submit
<1> HIDE DEF valid
<1>5. /\ conn' \in [Conns -> Conn]
      /\ \A d \in Conns : d # c => conn'[d] = conn[d]
      /\ conn'[c].pc = "check" /\ conn'[c].read = conn[c].current
      /\ conn'[c].valid = valid /\ conn'[c].link = conn[c].link
      /\ conn'[c].name = conn[c].name /\ conn'[c].miner = conn[c].miner
      /\ conn'[c].current = conn[c].current
      /\ conn'[c].authorized = conn[c].authorized
  <2> DEFINE rec == [conn[c] EXCEPT !.pc = "check", !.read = conn[c].current, !.valid = valid]
  <2>1. conn' = [conn EXCEPT ![c] = rec]
    BY <1>1, <1>4 DEF TypeOK
  <2>2. rec \in Conn
    <3>1. conn[c] \in Conn /\ "check" \in ReaderStep /\ conn[c].current \in Work /\ valid \in BOOLEAN
      BY <1>1, <1>3, ConnFields DEF ReaderStep
    <3>2. QED BY <3>1 DEF Conn
  <2>3. /\ rec.pc = "check" /\ rec.read = conn[c].current /\ rec.valid = valid
          /\ rec.link = conn[c].link /\ rec.name = conn[c].name
          /\ rec.miner = conn[c].miner /\ rec.current = conn[c].current
          /\ rec.authorized = conn[c].authorized
    BY ConnFields DEF Conn
  <2> HIDE DEF rec
  <2>4. QED BY <1>1, <2>1, <2>2, <2>3, OneConn
<1>6. Carried(c)'
  BY <1>1, <1>2, <1>5 DEF GatewayInv, Carried, NoWork
<1>7. Told1(c)'
  BY <1>2, <1>5 DEF GatewayInv, Told1, Authorizing
<1>8. QED BY <1>1, <1>2, <1>5, <1>6, <1>7, QuietStep DEF TypeOK, Authorizing

\* submitShare with version bits that were not configured
LEMMA SubmitBadVersionSafe ==
  ASSUME GatewayInv, NEW c \in Conns, SubmitBadVersion(c)
  PROVE  GatewayInv'
<1>1. TypeOK
  BY DEF GatewayInv
<1>2. conn[c].pc = "read" /\ conn[c].current # NoWork /\ UNCHANGED <<disp, connections, database>>
  BY DEF SubmitBadVersion
<1>3. /\ conn' \in [Conns -> Conn]
      /\ \A d \in Conns : d # c => conn'[d] = conn[d]
      /\ conn'[c].pc = "answer" /\ conn'[c].read = conn[c].current
      /\ conn'[c].link = conn[c].link /\ conn'[c].name = conn[c].name
      /\ conn'[c].miner = conn[c].miner /\ conn'[c].current = conn[c].current
      /\ conn'[c].authorized = conn[c].authorized
  <2> DEFINE rec == [conn[c] EXCEPT !.pc = "answer", !.read = conn[c].current]
  <2>1. conn' = [conn EXCEPT ![c] = rec]
    BY <1>1 DEF TypeOK, SubmitBadVersion
  <2>2. rec \in Conn
    <3>1. conn[c] \in Conn /\ conn[c].current \in Work
      BY <1>1, ConnFields
    <3>2. QED BY <3>1 DEF Conn, ReaderStep
  <2>3. /\ rec.pc = "answer" /\ rec.read = conn[c].current /\ rec.link = conn[c].link
          /\ rec.name = conn[c].name /\ rec.miner = conn[c].miner
          /\ rec.current = conn[c].current /\ rec.authorized = conn[c].authorized
    BY ConnFields DEF Conn
  <2> HIDE DEF rec
  <2>4. QED BY <1>1, <2>1, <2>2, <2>3, OneConn
<1>4. Carried(c)'
  BY <1>1, <1>2, <1>3 DEF GatewayInv, Carried, NoWork
<1>5. Told1(c)'
  BY <1>2, <1>3 DEF GatewayInv, Told1, Authorizing
<1>6. QED BY <1>1, <1>2, <1>3, <1>4, <1>5, QuietStep DEF TypeOK, Authorizing

\* The reader goes to the cleanup
LEMMA LeaveFields ==
  ASSUME TypeOK, NEW c \in Conns, Leave(c)
  PROVE  /\ conn' \in [Conns -> Conn]
         /\ \A d \in Conns : d # c => conn'[d] = conn[d]
         /\ conn'[c].pc = "unregister" /\ conn'[c].link = conn[c].link
         /\ conn'[c].name = conn[c].name /\ conn'[c].miner = conn[c].miner
         /\ conn'[c].current = conn[c].current
         /\ conn'[c].authorized = conn[c].authorized
<1> DEFINE rec == [conn[c] EXCEPT !.pc = "unregister"]
<1>1. conn' = [conn EXCEPT ![c] = rec]
  BY DEF TypeOK, Leave
<1>2. rec \in Conn
  BY ConnFields DEF Conn, ReaderStep
<1>3. /\ rec.pc = "unregister" /\ rec.link = conn[c].link /\ rec.name = conn[c].name
      /\ rec.miner = conn[c].miner /\ rec.current = conn[c].current
      /\ rec.authorized = conn[c].authorized
  BY ConnFields DEF Conn
<1> HIDE DEF rec
<1>4. QED BY <1>1, <1>2, <1>3, OneConn

\* The reader leaves its loop
LEMMA LeaveSafe ==
  ASSUME GatewayInv, NEW c \in Conns, Leave(c),
         UNCHANGED <<disp, connections, running, policy, over, work, unreconciled>>,
         rows' \in [Workers -> RowStatus],
         \A w \in Workers : rows[w] \notin Unseen => rows'[w] \notin Unseen,
         conn[c].pc \in {"read", "check", "answer"}
  PROVE  GatewayInv'
<1>1. TypeOK
  BY DEF GatewayInv
<1>2. /\ conn' \in [Conns -> Conn]
      /\ \A d \in Conns : d # c => conn'[d] = conn[d]
      /\ conn'[c].pc = "unregister" /\ conn'[c].link = conn[c].link
      /\ conn'[c].name = conn[c].name /\ conn'[c].current = conn[c].current
      /\ conn'[c].miner = conn[c].miner /\ conn'[c].authorized = conn[c].authorized
  BY <1>1, LeaveFields
<1>3. TypeOK'
  BY <1>1, <1>2 DEF TypeOK
<1>4. Fresh(c)' /\ Named(c)' /\ Counted(c)' /\ Entries(c)'
  BY <1>2 DEF GatewayInv, Registered, Fresh, Named, Counted, Entries, Authorizing
<1>5. Carried(c)'
  BY <1>2 DEF GatewayInv, Carried
<1>6. Told1(c)'
  BY <1>2 DEF GatewayInv, Told1, Authorizing
<1>7. Recorded' /\ Noticed'
  BY <1>2, SharesSame
<1>8. RowsSeen'
  BY <1>2, RowsKept
<1>9. QED BY <1>2, <1>3, <1>4, <1>5, <1>6, <1>7, <1>8, ConnStep
          DEF GatewayInv, Registered

\* The job of the share is looked up
LEMMA CheckRunningSafe ==
  ASSUME GatewayInv, NEW c \in Conns, CheckRunning(c)
  PROVE  GatewayInv'
<1>1. TypeOK
  BY DEF GatewayInv
<1>2. conn[c].pc = "check" /\ UNCHANGED <<disp, connections, database>>
  BY DEF CheckRunning
<1>3. CASE Read(c)
  BY <1>1, <1>2, <1>3, ReadSafe DEF Authorizing, TypeOK, database
<1>4. CASE Leave(c)
  BY <1>1, <1>2, <1>4, LeaveSafe DEF TypeOK, database
<1>5. CASE ~Read(c) /\ ~Leave(c)
  <2>0. running = conn[c].read.job /\ conn' = [conn EXCEPT ![c].pc = "insert"]
    BY <1>5 DEF CheckRunning
  <2>1. /\ conn' \in [Conns -> Conn]
        /\ \A d \in Conns : d # c => conn'[d] = conn[d]
        /\ conn'[c].pc = "insert" /\ conn'[c].link = conn[c].link
        /\ conn'[c].name = conn[c].name /\ conn'[c].miner = conn[c].miner
        /\ conn'[c].read = conn[c].read /\ conn'[c].current = conn[c].current
        /\ conn'[c].authorized = conn[c].authorized
    <3> DEFINE rec == [conn[c] EXCEPT !.pc = "insert"]
    <3>1. conn' = [conn EXCEPT ![c] = rec]
      BY <1>1, <2>0 DEF TypeOK
    <3>2. rec \in Conn
      BY <1>1, ConnFields DEF Conn, ReaderStep
    <3>3. /\ rec.pc = "insert" /\ rec.link = conn[c].link /\ rec.name = conn[c].name
          /\ rec.miner = conn[c].miner /\ rec.read = conn[c].read
          /\ rec.current = conn[c].current /\ rec.authorized = conn[c].authorized
      BY ConnFields DEF Conn
    <3> HIDE DEF rec
    <3>4. QED BY <1>1, <3>1, <3>2, <3>3, OneConn
  <2>2. TypeOK'
    BY <1>1, <1>2, <2>1 DEF TypeOK, database
  <2>3. Fresh(c)' /\ Named(c)' /\ Counted(c)' /\ Entries(c)'
    BY <1>2, <2>1 DEF GatewayInv, Registered, Fresh, Named, Counted, Entries, Authorizing
  <2>4. Carried(c)'
    BY <1>2, <2>1 DEF GatewayInv, Carried
  <2>5. Told1(c)'
    BY <1>2, <2>1 DEF GatewayInv, Told1, Authorizing
  <2>6. Recorded'
    BY <1>2, <2>0, <2>1 DEF GatewayInv, Recorded, Ran, database
  <2>7. Noticed'
    BY <1>2, <2>1 DEF GatewayInv, Noticed, Enough, database
  <2>8. RowsSeen'
    BY <1>2, <2>1, RowsKept DEF database
  <2>9. QED BY <1>2, <2>1, <2>2, <2>3, <2>4, <2>5, <2>6, <2>7, <2>8, ConnStep
            DEF GatewayInv, Registered
<1>6. QED BY <1>3, <1>4, <1>5

\* Recorded work is a number
LEMMA CappedIsNumber == \A n \in Nat : Capped(n) \in Nat
BY GatewayAssumption DEF Capped

\* The share is recorded: if it is the one that makes the work suffice, this
\* connection reconciles next
LEMMA InsertShareSafe ==
  ASSUME GatewayInv, NEW c \in Conns, InsertShare(c)
  PROVE  GatewayInv'
<1>1. TypeOK
  BY DEF GatewayInv
<1>2. /\ conn[c].pc = "insert"
      /\ UNCHANGED <<disp, connections, rows, policy, running, over, unreconciled>>
  BY DEF InsertShare
<1>3. CASE Read(c) /\ UNCHANGED work
  BY <1>1, <1>2, <1>3, ReadSafe DEF TypeOK, Authorizing
<1>4. CASE ~(Read(c) /\ UNCHANGED work)
  <2> DEFINE j == conn[c].read.job
             next == IF conn[c].valid THEN "reconcile" ELSE "answer"
  <2>1. /\ work' = [work EXCEPT ![j] =
                      IF conn[c].valid THEN Capped(work[j] + conn[c].read.diff) ELSE @]
        /\ conn' = [conn EXCEPT ![c].pc = next]
    BY <1>4 DEF InsertShare
  <2>2. next \in {"reconcile", "answer"} /\ j \in PowJobs /\ Ran(j)
    BY <1>2 DEF GatewayInv, Carried, Recorded
  <2>3. /\ work' \in [PowJobs -> Nat]
        /\ \A k \in PowJobs : k # j \/ next = "answer" => work'[k] = work[k]
    <3>1. work[j] \in Nat /\ conn[c].read.diff \in Nat
      <4>1. work[j] \in Nat
        BY <1>1, <2>2 DEF TypeOK
      <4>2. conn[c].read \in Work
        BY <1>1, ConnFields
      <4>3. conn[c].read.diff \in Difficulties \cup {0}
        BY <4>2 DEF Work
      <4>4. Difficulties \cup {0} \subseteq Nat
        BY GatewayAssumption
      <4>5. conn[c].read.diff \in Nat
        BY <4>3, <4>4
      <4>6. QED BY <4>1, <4>5
    <3>2. Capped(work[j] + conn[c].read.diff) \in Nat
      BY <3>1, CappedIsNumber
    <3>3. QED BY <1>1, <2>1, <2>2, <3>2 DEF TypeOK
  <2> HIDE DEF next
  <2>4. /\ conn' \in [Conns -> Conn]
        /\ \A d \in Conns : d # c => conn'[d] = conn[d]
        /\ conn'[c].pc = next /\ conn'[c].link = conn[c].link
        /\ conn'[c].name = conn[c].name /\ conn'[c].miner = conn[c].miner
        /\ conn'[c].read = conn[c].read /\ conn'[c].current = conn[c].current
        /\ conn'[c].authorized = conn[c].authorized
    <3> DEFINE rec == [conn[c] EXCEPT !.pc = next]
    <3>1. conn' = [conn EXCEPT ![c] = rec]
      BY <1>1, <2>1 DEF TypeOK
    <3>2. rec \in Conn
      BY <1>1, <2>2, ConnFields DEF Conn, ReaderStep
    <3>3. /\ rec.pc = next /\ rec.link = conn[c].link /\ rec.name = conn[c].name
          /\ rec.miner = conn[c].miner /\ rec.read = conn[c].read
          /\ rec.current = conn[c].current /\ rec.authorized = conn[c].authorized
      BY ConnFields DEF Conn
    <3> HIDE DEF rec
    <3>4. QED BY <1>1, <3>1, <3>2, <3>3, OneConn
  <2>5. TypeOK'
    BY <1>1, <1>2, <2>3, <2>4 DEF TypeOK
  <2>6. Fresh(c)' /\ Named(c)' /\ Counted(c)' /\ Entries(c)'
    BY <1>2, <2>2, <2>4 DEF GatewayInv, Registered, Fresh, Named, Counted, Entries, Authorizing
  <2>7. Carried(c)'
    BY <1>2, <2>2, <2>4 DEF GatewayInv, Carried
  <2>8. Told1(c)'
    BY <1>2, <2>2, <2>4 DEF GatewayInv, Told1, Authorizing
  <2>9. Recorded'
    <3>1. ASSUME NEW k \in PowJobs, work'[k] # 0
          PROVE  k = running' \/ k \in over'
      BY <1>2, <2>2, <2>3, <3>1 DEF GatewayInv, Recorded, Ran
    <3>2. ASSUME NEW d \in Conns, conn'[d].pc = "insert"
          PROVE  conn'[d].read.job = running' \/ conn'[d].read.job \in over'
      BY <1>2, <2>2, <2>4, <3>2 DEF GatewayInv, Recorded, Ran
    <3>3. QED BY <3>1, <3>2 DEF Recorded, Ran
  <2>10. Noticed'
    <3>1. CASE next = "reconcile" /\ running = j
      BY <1>2, <2>4, <3>1 DEF Noticed
    <3>2. CASE next = "answer" \/ running # j
      <4>1. running # None => work'[running] = work[running]
        BY <1>1, <2>3, <3>2 DEF TypeOK
      <4>2. Enough' => Enough
        BY <1>2, <4>1 DEF Enough
      <4>3. \A d \in Conns : conn[d].pc = "reconcile" => conn'[d] = conn[d]
        BY <1>2, <2>4
      <4>4. QED BY <1>2, <4>2, <4>3 DEF GatewayInv, Noticed
    <3>3. QED BY <2>2, <3>1, <3>2
  <2>11. RowsSeen'
    BY <1>2, <2>2, <2>4, RowsKept
  <2>12. QED BY <1>2, <2>4, <2>5, <2>6, <2>7, <2>8, <2>9, <2>10, <2>11, ConnStep
             DEF GatewayInv, Registered
<1>5. QED BY <1>3, <1>4

\* Reconcile completes the job, finds too little work, or fails
LEMMA ReconcileShareSafe ==
  ASSUME GatewayInv, NEW c \in Conns, ReconcileShare(c)
  PROVE  GatewayInv'
<1>1. TypeOK
  BY DEF GatewayInv
<1>2. /\ conn[c].pc = "reconcile" /\ UNCHANGED <<disp, connections, rows, policy, work>>
      /\ conn' = [conn EXCEPT ![c].pc = "answer"]
  BY DEF ReconcileShare
<1>3. conn[c].read.job \in PowJobs
  BY <1>2 DEF GatewayInv, Carried
<1>4. \/ Enough /\ running' = None /\ over' = over \cup {running} /\ UNCHANGED unreconciled
      \/ ~Enough /\ UNCHANGED <<running, over, unreconciled>>
      \/ unreconciled' = unreconciled \cup {conn[c].read.job} /\ UNCHANGED <<running, over>>
  BY DEF ReconcileShare
<1>5. /\ conn' \in [Conns -> Conn]
      /\ \A d \in Conns : d # c => conn'[d] = conn[d]
      /\ conn'[c].pc = "answer" /\ conn'[c].link = conn[c].link
      /\ conn'[c].name = conn[c].name /\ conn'[c].miner = conn[c].miner
      /\ conn'[c].read = conn[c].read /\ conn'[c].current = conn[c].current
      /\ conn'[c].authorized = conn[c].authorized
  <2> DEFINE rec == [conn[c] EXCEPT !.pc = "answer"]
  <2>1. conn' = [conn EXCEPT ![c] = rec]
    BY <1>1, <1>2 DEF TypeOK
  <2>2. rec \in Conn
    BY <1>1, ConnFields DEF Conn, ReaderStep
  <2>3. /\ rec.pc = "answer" /\ rec.link = conn[c].link /\ rec.name = conn[c].name
        /\ rec.miner = conn[c].miner /\ rec.read = conn[c].read
        /\ rec.current = conn[c].current /\ rec.authorized = conn[c].authorized
    BY <1>1, ConnFields DEF Conn
  <2> HIDE DEF rec
  <2>4. QED BY <1>1, <2>1, <2>2, <2>3, OneConn
<1>6. TypeOK'
  <2>1. /\ running' \in PowJobs \cup {None} /\ over' \subseteq PowJobs
        /\ unreconciled' \subseteq PowJobs
    BY <1>1, <1>3, <1>4 DEF TypeOK, Enough
  <2>2. QED BY <1>1, <1>2, <1>5, <2>1 DEF TypeOK
<1>7. Fresh(c)' /\ Named(c)' /\ Counted(c)' /\ Entries(c)'
  BY <1>2, <1>5 DEF GatewayInv, Registered, Fresh, Named, Counted, Entries, Authorizing
<1>8. Carried(c)'
  BY <1>2, <1>5 DEF GatewayInv, Carried
<1>9. Told1(c)'
  BY <1>2, <1>5 DEF GatewayInv, Told1, Authorizing
<1>10. Recorded'
  <2>1. \A k : k = running \/ k \in over => k = running' \/ k \in over'
    BY <1>4
  <2>2. QED BY <1>2, <1>5, <2>1 DEF GatewayInv, Recorded, Ran
<1>11. Noticed'
  <2>1. CASE Enough /\ running' = None
    BY <2>1 DEF Noticed, Enough
  <2>2. CASE ~Enough /\ UNCHANGED <<running, over, unreconciled>>
    BY <1>2, <2>2 DEF Noticed, Enough
  <2>3. CASE unreconciled' = unreconciled \cup {conn[c].read.job} /\ UNCHANGED <<running, over>>
    BY <1>2, <1>5, <2>3 DEF GatewayInv, Noticed, Enough
  <2>4. QED BY <1>4, <2>1, <2>2, <2>3
<1>12. RowsSeen'
  BY <1>2, <1>5, RowsKept
<1>13. QED BY <1>2, <1>5, <1>6, <1>7, <1>8, <1>9, <1>10, <1>11, <1>12, ConnStep
           DEF GatewayInv, Registered

\* touchWorkerShare and the result
LEMMA AnswerSafe ==
  ASSUME GatewayInv, NEW c \in Conns, Answer(c)
  PROVE  GatewayInv'
<1>1. TypeOK
  BY DEF GatewayInv
<1>2. /\ conn[c].pc = "answer" /\ (Read(c) \/ Leave(c))
      /\ UNCHANGED <<disp, connections, policy, running, over, work, unreconciled>>
      /\ rows' = [rows EXCEPT ![conn[c].name] = "connected"] \/ UNCHANGED rows
  BY DEF Answer
<1>3. /\ rows' \in [Workers -> RowStatus]
      /\ \A w \in Workers : rows[w] \notin Unseen => rows'[w] \notin Unseen
  BY <1>1, <1>2 DEF TypeOK, RowStatus, Unseen
<1>4. CASE Read(c)
  BY <1>2, <1>3, <1>4, ReadSafe DEF Authorizing
<1>5. CASE Leave(c)
  BY <1>2, <1>3, <1>5, LeaveSafe
<1>6. QED BY <1>2, <1>4, <1>5

-----------------------------------------------------------------------------
(* The end of a connection, and of the process.                             *)

\* The peer goes
LEMMA DropSafe ==
  ASSUME GatewayInv, NEW c \in Conns, Drop(c)
  PROVE  GatewayInv'
<1>1. TypeOK
  BY DEF GatewayInv
<1>2. /\ conn[c].link /\ UNCHANGED <<disp, connections, database>>
      /\ conn' = [conn EXCEPT ![c].link = FALSE]
  BY DEF Drop
<1>3. conn[c].pc # "new"
  BY <1>2 DEF GatewayInv, Registered, Fresh, NewConn
<1>4. /\ conn' \in [Conns -> Conn]
      /\ \A d \in Conns : d # c => conn'[d] = conn[d]
      /\ conn'[c].link = FALSE /\ conn'[c].pc = conn[c].pc
      /\ conn'[c].name = conn[c].name /\ conn'[c].asked = conn[c].asked
      /\ conn'[c].status = conn[c].status /\ conn'[c].read = conn[c].read
      /\ conn'[c].diff = conn[c].diff /\ conn'[c].current = conn[c].current
      /\ conn'[c].authorized = conn[c].authorized
  <2> DEFINE rec == [conn[c] EXCEPT !.link = FALSE]
  <2>1. conn' = [conn EXCEPT ![c] = rec]
    BY <1>1, <1>2 DEF TypeOK
  <2>2. rec \in Conn
    BY <1>1, ConnFields DEF Conn
  <2>3. /\ rec.link = FALSE /\ rec.pc = conn[c].pc /\ rec.name = conn[c].name
        /\ rec.asked = conn[c].asked /\ rec.status = conn[c].status
        /\ rec.read = conn[c].read /\ rec.diff = conn[c].diff
        /\ rec.current = conn[c].current /\ rec.authorized = conn[c].authorized
    BY <1>1, ConnFields DEF Conn
  <2> HIDE DEF rec
  <2>4. QED BY <1>1, <2>1, <2>2, <2>3, OneConn
<1>5. Carried(c)'
  BY <1>2, <1>4 DEF GatewayInv, Carried
<1>6. Told1(c)'
  BY <1>2, <1>4 DEF GatewayInv, Told1, Authorizing
<1>7. QED BY <1>1, <1>2, <1>3, <1>4, <1>5, <1>6, QuietStep DEF TypeOK

\* The end of the stream
LEMMA HangupSafe ==
  ASSUME GatewayInv, NEW c \in Conns, Hangup(c)
  PROVE  GatewayInv'
<1>1. /\ conn[c].pc = "read" /\ Leave(c)
      /\ UNCHANGED <<disp, connections, database>>
  BY DEF Hangup
<1>2. rows' \in [Workers -> RowStatus]
  BY <1>1 DEF GatewayInv, TypeOK, database
<1>3. QED BY <1>1, <1>2, LeaveSafe DEF database

\* unregisterConnection: nothing is left of a connection that authorized under
\* one name
LEMMA UnregisterSafe ==
  ASSUME GatewayInv, NEW c \in Conns, Unregister(c)
  PROVE  GatewayInv'
<1>1. TypeOK
  BY DEF GatewayInv
<1>2. conn[c].pc = "unregister" /\ UNCHANGED <<disp, database>>
  BY DEF Unregister
<1> DEFINE w == conn[c].name
           left == StatusOf(Cardinality(connections[w] \ {c}))
           next == IF w = None THEN "closed" ELSE "offline"
           status == IF w = None THEN conn[c].status ELSE left
<1>3. /\ w = None => next = "closed" /\ status = conn[c].status
      /\ w # None => next = "offline" /\ status = left /\ w \in Workers
      /\ left \in RowStatus \ Unseen /\ status \in RowStatus
  <2>1. left \in RowStatus \ Unseen
    BY StatusSeen
  <2>2. QED BY <1>1, <2>1, ConnFields
<1>4. /\ connections' \in [Workers -> SUBSET Conns]
      /\ \A v \in Workers : connections'[v] = IF v = w THEN connections[v] \ {c} ELSE connections[v]
  <2>1. CASE w = None
    BY <1>1, <2>1, GatewayAssumption DEF Unregister, TypeOK
  <2>2. CASE w # None
    <3>1. w \in Workers /\ connections' = [connections EXCEPT ![w] = connections[w] \ {c}]
      BY <1>1, <2>2, ConnFields DEF Unregister
    <3>2. QED BY <1>1, <3>1 DEF TypeOK
  <2>3. QED BY <2>1, <2>2
<1> HIDE DEF next, status, left
<1>5. /\ conn' \in [Conns -> Conn]
      /\ \A d \in Conns : d # c => conn'[d] = conn[d]
      /\ conn'[c].pc = next /\ conn'[c].link = FALSE /\ conn'[c].status = status
      /\ conn'[c].name = w /\ conn'[c].current = conn[c].current
      /\ conn'[c].authorized = conn[c].authorized
  <2>1. CASE w = None
    <3> DEFINE rec == [conn[c] EXCEPT !.pc = "closed", !.link = FALSE]
    <3>1. conn' = [conn EXCEPT ![c] = rec]
      BY <1>1, <1>3, <2>1 DEF TypeOK, Unregister
    <3>2. rec \in Conn
      <4>1. conn[c] \in Conn /\ "closed" \in ReaderStep
        BY <1>1, ConnFields DEF ReaderStep
      <4>2. QED BY <4>1 DEF Conn
    <3>3. /\ rec.pc = next /\ rec.link = FALSE /\ rec.status = status
          /\ rec.name = w /\ rec.current = conn[c].current
          /\ rec.authorized = conn[c].authorized
      BY <1>1, <1>3, <2>1, ConnFields DEF Conn
    <3> HIDE DEF rec
    <3>4. QED BY <1>1, <3>1, <3>2, <3>3, OneConn
  <2>2. CASE w # None
    <3> DEFINE rec == [conn[c] EXCEPT !.pc = "offline", !.link = FALSE, !.status = left]
    <3>1. conn' = [conn EXCEPT ![c] = rec]
      BY <1>1, <1>3, <2>2 DEF TypeOK, Unregister, left
    <3>2. rec \in Conn
      <4>1. conn[c] \in Conn /\ "offline" \in ReaderStep /\ left \in RowStatus
        BY <1>1, <1>3, ConnFields DEF ReaderStep
      <4>2. QED BY <4>1 DEF Conn
    <3>3. /\ rec.pc = next /\ rec.link = FALSE /\ rec.status = status
          /\ rec.name = w /\ rec.current = conn[c].current
          /\ rec.authorized = conn[c].authorized
      BY <1>1, <1>3, <2>2, ConnFields DEF Conn
    <3> HIDE DEF rec
    <3>4. QED BY <1>1, <3>1, <3>2, <3>3, OneConn
  <2>3. QED BY <2>1, <2>2
<1>6. TypeOK'
  BY <1>1, <1>2, <1>4, <1>5 DEF TypeOK, database
<1>7. Fresh(c)' /\ Named(c)' /\ Counted(c)'
  BY <1>3, <1>5 DEF Fresh, Named, Counted, Authorizing
<1>8. Entries(c)'
  BY <1>2, <1>4, <1>5 DEF GatewayInv, Registered, Entries
<1>9. Carried(c)'
  BY <1>2, <1>3, <1>5 DEF GatewayInv, Carried
<1>10. Told1(c)'
  BY <1>2, <1>5 DEF GatewayInv, Told1
<1>11. Recorded' /\ Noticed'
  BY <1>2, <1>3, <1>5, SharesSame DEF database
<1>12. RowsSeen'
  BY <1>2, <1>3, <1>4, <1>5 DEF GatewayInv, Registered, RowsSeen, database
<1>13. QED BY <1>2, <1>4, <1>5, <1>6, <1>7, <1>8, <1>9, <1>10, <1>11, <1>12, ConnStep
           DEF GatewayInv, Registered

\* setWorkerStatus after unregisterConnection
LEMMA WriteOfflineSafe ==
  ASSUME GatewayInv, NEW c \in Conns, WriteOffline(c)
  PROVE  GatewayInv'
<1>1. TypeOK
  BY DEF GatewayInv
<1>2. /\ conn[c].pc = "offline" /\ conn' = [conn EXCEPT ![c].pc = "closed"]
      /\ UNCHANGED <<disp, connections, policy, running, over, work, unreconciled>>
  BY DEF WriteOffline
<1>3. /\ rows' \in [Workers -> RowStatus]
      /\ \A w \in Workers : rows[w] \notin Unseen => rows'[w] \notin Unseen
  <2>1. conn[c].status \in RowStatus \ Unseen
    BY <1>1, <1>2, ConnFields DEF GatewayInv, Registered, Named
  <2>2. rows' = [rows EXCEPT ![conn[c].name] = conn[c].status] \/ UNCHANGED rows
    BY DEF WriteOffline
  <2>3. QED BY <1>1, <2>1, <2>2 DEF TypeOK
<1>4. /\ conn' \in [Conns -> Conn]
      /\ \A d \in Conns : d # c => conn'[d] = conn[d]
      /\ conn'[c].pc = "closed" /\ conn'[c].link = conn[c].link
      /\ conn'[c].name = conn[c].name /\ conn'[c].current = conn[c].current
      /\ conn'[c].authorized = conn[c].authorized
  <2> DEFINE rec == [conn[c] EXCEPT !.pc = "closed"]
  <2>1. conn' = [conn EXCEPT ![c] = rec]
    BY <1>1, <1>2 DEF TypeOK
  <2>2. rec \in Conn
    BY <1>1, ConnFields DEF Conn, ReaderStep
  <2>3. /\ rec.pc = "closed" /\ rec.link = conn[c].link /\ rec.name = conn[c].name
        /\ rec.current = conn[c].current /\ rec.authorized = conn[c].authorized
    BY <1>1, ConnFields DEF Conn
  <2> HIDE DEF rec
  <2>4. QED BY <1>1, <2>1, <2>2, <2>3, OneConn
<1>5. TypeOK'
  BY <1>1, <1>2, <1>3, <1>4 DEF TypeOK
<1>6. Fresh(c)' /\ Named(c)' /\ Counted(c)' /\ Entries(c)'
  BY <1>2, <1>4 DEF GatewayInv, Registered, Fresh, Named, Counted, Entries, Authorizing
<1>7. Carried(c)' /\ Told1(c)'
  BY <1>2, <1>4 DEF GatewayInv, Carried, Told1
<1>8. Recorded' /\ Noticed'
  BY <1>2, <1>4, SharesSame
<1>9. RowsSeen'
  BY <1>2, <1>3, <1>4, RowsKept
<1>10. QED BY <1>2, <1>4, <1>5, <1>6, <1>7, <1>8, <1>9, ConnStep DEF GatewayInv, Registered

\* The process stops and starts: every connection, its dispatcher and the map are
\* gone, and reconciles under way are lost
LEMMA RestartSafe == GatewayInv /\ Restart => GatewayInv'
<1> SUFFICES ASSUME GatewayInv, Restart PROVE GatewayInv'
  OBVIOUS
<1>1. TypeOK
  BY DEF GatewayInv
<1> DEFINE gone == [NewConn EXCEPT !.pc = "closed"]
<1>2. /\ gone \in Conn /\ gone.pc = "closed" /\ ~gone.link /\ gone.name = None
      /\ gone.authorized = 0 /\ gone.current = NoWork
  BY NoWorkIsWork DEF NewConn, Conn, ReaderStep, RowStatus
<1>3. conn' = [c \in Conns |-> IF Open(c) THEN gone ELSE conn[c]]
  BY DEF Restart
<1> HIDE DEF gone
<1>4. \A c \in Conns : \/ conn'[c] = gone
                       \/ conn[c].pc \in {"new", "closed"} /\ conn'[c] = conn[c]
  BY <1>3 DEF Open
<1>5. conn' \in [Conns -> Conn]
  BY <1>1, <1>2, <1>3 DEF TypeOK
<1>6. /\ \A c \in Conns : disp'[c].pc = IF conn[c].pc = "new" THEN "off" ELSE "stopped"
      /\ \A c \in Conns : conn[c].pc = "new" => conn'[c] = conn[c]
      /\ disp' \in [Conns -> Dispatcher]
  BY <1>3, NoWorkIsWork DEF Restart, Dispatcher, Open
<1>7. /\ \A w \in Workers : connections'[w] = {}
      /\ connections' \in [Workers -> SUBSET Conns]
      /\ rows' \in [Workers -> RowStatus]
      /\ UNCHANGED <<policy, running, over, work>>
  BY <1>1 DEF Restart, TypeOK, RowStatus
<1>8. /\ unreconciled \subseteq unreconciled'
      /\ \A c \in Conns : conn[c].pc = "reconcile" => conn[c].read.job \in unreconciled'
  BY DEF Restart
<1>9. unreconciled' \subseteq PowJobs
  <2>1. \A c \in Conns : conn[c].pc = "reconcile" => conn[c].read.job \in PowJobs
    BY DEF GatewayInv, Carried
  <2>2. QED BY <1>1, <2>1 DEF Restart, TypeOK
<1>10. TypeOK'
  BY <1>1, <1>5, <1>6, <1>7, <1>9 DEF TypeOK
<1>11. RowsSeen'
  BY <1>2, <1>4, <1>7 DEF RowsSeen
<1>12. ASSUME NEW c \in Conns
       PROVE  Fresh(c)' /\ Named(c)' /\ Counted(c)' /\ Entries(c)' /\ Carried(c)' /\ Told1(c)'
  <2>1. Fresh(c)' /\ Named(c)' /\ Counted(c)' /\ Entries(c)'
    <3>1. CASE conn'[c] = gone
      BY <1>2, <1>7, <3>1 DEF Fresh, Named, Counted, Entries, Authorizing
    <3>2. CASE conn[c].pc = "closed" /\ conn'[c] = conn[c]
      BY <1>7, <3>2 DEF Fresh, Named, Counted, Entries, Authorizing
    <3>3. CASE conn[c].pc = "new" /\ conn'[c] = conn[c]
      <4>1. conn'[c] = NewConn /\ disp'[c].pc = "off"
        BY <1>6, <3>3 DEF GatewayInv, Registered, Fresh
      <4>2. conn'[c].pc = "new" /\ conn'[c].name = None
        BY <4>1 DEF NewConn
      <4>3. QED BY <1>7, <4>1, <4>2 DEF Fresh, Named, Counted, Entries, Authorizing
    <3>4. QED BY <1>4, <3>1, <3>2, <3>3
  <2>2. Carried(c)' /\ Told1(c)'
    <3>1. CASE conn'[c] = gone
      BY <1>2, <1>6, <3>1 DEF Carried, Told1
    <3>2. CASE conn[c].pc = "closed" /\ conn'[c] = conn[c]
      BY <1>6, <3>2 DEF GatewayInv, Carried, Told1, Authorizing
    <3>3. CASE conn[c].pc = "new" /\ conn'[c] = conn[c]
      <4>1. conn'[c] = NewConn /\ disp'[c].pc = "off"
        BY <1>6, <3>3 DEF GatewayInv, Registered, Fresh
      <4>2. /\ conn'[c].pc = "new" /\ conn'[c].authorized = 0
            /\ conn'[c].current = NoWork
        BY <4>1 DEF NewConn
      <4>3. QED BY <4>1, <4>2 DEF Carried, Told1
    <3>4. QED BY <1>4, <3>1, <3>2, <3>3
  <2>3. QED BY <2>1, <2>2
<1>13. Recorded'
  BY <1>2, <1>4, <1>7 DEF GatewayInv, Recorded, Ran
<1>14. Noticed'
  BY <1>7, <1>8 DEF GatewayInv, Noticed, Enough
<1>15. QED BY <1>10, <1>11, <1>12, <1>13, <1>14 DEF GatewayInv, Registered

-----------------------------------------------------------------------------
(* The rest of the program.                                                 *)

\* A step of the database that leaves every connection, the map and the rows
LEMMA OtherStep ==
  ASSUME GatewayInv, UNCHANGED <<conn, disp, connections, rows>>,
         TypeOK', Recorded', Noticed'
  PROVE  GatewayInv'
BY DEF GatewayInv, Registered, RowsSeen, Fresh, Named, Counted, Entries, Carried, Told1

\* A job that starts has no recorded work
LEMMA StartJobSafe ==
  ASSUME GatewayInv, NEW j \in PowJobs, StartJob(j)
  PROVE  GatewayInv'
<1>1. /\ running = None /\ j \notin over /\ running' = j
      /\ UNCHANGED <<conn, disp, connections, rows, policy, over, work, unreconciled>>
  BY DEF StartJob
<1>2. TypeOK'
  BY <1>1 DEF GatewayInv, TypeOK
<1>3. Recorded'
  <2>1. \A k \in PowJobs : k # None
    BY GatewayAssumption
  <2>2. \A c \in Conns : conn[c].pc = "insert" => conn[c].read.job \in PowJobs
    BY DEF GatewayInv, Carried
  <2>3. QED BY <1>1, <2>1, <2>2 DEF GatewayInv, Recorded, Ran
<1>4. Noticed'
  <2>1. work[j] = 0
    BY <1>1, GatewayAssumption DEF GatewayInv, Recorded, Ran
  <2>2. ~ (0 >= Required)
    BY GatewayAssumption
  <2>3. QED BY <1>1, <2>1, <2>2 DEF Noticed, Enough
<1>5. QED BY <1>1, <1>2, <1>3, <1>4, OtherStep

\* The access service ends the job
LEMMA EndJobSafe == GatewayInv /\ EndJob => GatewayInv'
<1> SUFFICES ASSUME GatewayInv, EndJob PROVE GatewayInv'
  OBVIOUS
<1>1. /\ running # None /\ running' = None /\ over' = over \cup {running}
      /\ UNCHANGED <<conn, disp, connections, rows, policy, work, unreconciled>>
  BY DEF EndJob
<1>2. TypeOK'
  BY <1>1 DEF GatewayInv, TypeOK
<1>3. Recorded' /\ Noticed'
  BY <1>1 DEF GatewayInv, Recorded, Ran, Noticed, Enough
<1>4. QED BY <1>1, <1>2, <1>3, OtherStep

\* handleSettings
LEMMA UpdateSettingsSafe ==
  ASSUME GatewayInv, NEW p \in [enabled : BOOLEAN, diff : Difficulties], UpdateSettings(p)
  PROVE  GatewayInv'
<1>1. policy' = p /\ UNCHANGED <<conn, disp, connections, rows, running, over, work, unreconciled>>
  BY DEF UpdateSettings
<1>2. TypeOK'
  BY <1>1 DEF GatewayInv, TypeOK
<1>3. Recorded' /\ Noticed'
  BY <1>1 DEF GatewayInv, Recorded, Ran, Noticed, Enough
<1>4. QED BY <1>1, <1>2, <1>3, OtherStep

-----------------------------------------------------------------------------
(* The invariant, and the properties it implies.                            *)

\* The process starts for the first time
LEMMA InitSafe == Init => GatewayInv
<1> SUFFICES ASSUME Init PROVE GatewayInv
  OBVIOUS
<1>1. TypeOK
  BY NoWorkIsWork DEF Init, TypeOK, NewConn, Conn, Dispatcher, ReaderStep, RowStatus
<1>2. ASSUME NEW c \in Conns
      PROVE  Fresh(c) /\ Named(c) /\ Counted(c) /\ Entries(c) /\ Carried(c) /\ Told1(c)
  <2>1. /\ conn[c] = NewConn /\ disp[c].pc = "off"
        /\ \A w \in Workers : connections[w] = {}
    BY DEF Init
  <2>2. /\ conn[c].pc = "new" /\ conn[c].name = None /\ conn[c].authorized = 0
        /\ conn[c].current = NoWork
    BY <2>1 DEF NewConn
  <2>3. QED BY <2>1, <2>2
            DEF Fresh, Named, Counted, Entries, Carried, Told1, Authorizing
<1>3. \A c \in Conns : conn[c].pc = "new"
  BY DEF Init, NewConn
<1>4. RowsSeen
  BY <1>3 DEF Init, RowsSeen
<1>5. Recorded
  BY <1>3 DEF Init, Recorded
<1>6. Noticed
  BY DEF Init, Noticed, Enough
<1>7. QED BY <1>1, <1>2, <1>4, <1>5, <1>6 DEF GatewayInv, Registered

\* Every step keeps the invariant
LEMMA NextSafe == GatewayInv /\ [Next]_vars => GatewayInv'
<1> SUFFICES ASSUME GatewayInv, [Next]_vars PROVE GatewayInv'
  OBVIOUS
<1>1. ASSUME NEW c \in Conns, Reader(c) PROVE GatewayInv'
  <2>1. CASE UpsertWorker(c)   BY <2>1, UpsertSafe
  <2>2. CASE Register(c)       BY <2>2, RegisterSafe
  <2>3. CASE WriteStatus(c)    BY <2>3, WriteStatusSafe
  <2>4. CASE Welcome(c)        BY <2>4, WelcomeSafe
  <2>5. CASE Assign(c)         BY <2>5, AssignSafe
  <2>6. CASE Notify(c)         BY <2>6, NotifySafe
  <2>7. CASE CheckRunning(c)   BY <2>7, CheckRunningSafe
  <2>8. CASE InsertShare(c)    BY <2>8, InsertShareSafe
  <2>9. CASE ReconcileShare(c) BY <2>9, ReconcileShareSafe
  <2>10. CASE Answer(c)        BY <2>10, AnswerSafe
  <2>11. CASE Hangup(c)        BY <2>11, HangupSafe
  <2>12. CASE Unregister(c)    BY <2>12, UnregisterSafe
  <2>13. CASE WriteOffline(c)  BY <2>13, WriteOfflineSafe
  <2>14. CASE Refuse(c)        BY <2>14, RefuseSafe
  <2>15. CASE FindJob(c)       BY <2>15, FindJobSafe
  <2>16. QED BY <1>1, <2>1, <2>2, <2>3, <2>4, <2>5, <2>6, <2>7, <2>8, <2>9, <2>10,
                <2>11, <2>12, <2>13, <2>14, <2>15 DEF Reader
<1>2. ASSUME NEW c \in Conns, Dispatch(c) PROVE GatewayInv'
  <2>1. CASE Tick(c)           BY <2>1, TickSafe
  <2>2. CASE DispatchAssign(c) BY <2>2, DispatchAssignSafe
  <2>3. CASE DispatchNotify(c) BY <2>3, DispatchNotifySafe
  <2>4. CASE DispatchStops(c)  BY <2>4, DispatchStopsSafe
  <2>5. CASE DispatchLookup(c) BY <2>5, DispatchLookupSafe
  <2>6. CASE DispatchPolicy(c) BY <2>6, DispatchPolicySafe
  <2>7. CASE DispatchFails(c)  BY <2>7, DispatchFailsSafe
  <2>8. QED BY <1>2, <2>1, <2>2, <2>3, <2>4, <2>5, <2>6, <2>7 DEF Dispatch
<1>3. ASSUME NEW c \in Conns, Peer(c) PROVE GatewayInv'
  <2>1. CASE Connect(c)          BY <2>1, ConnectSafe
  <2>2. CASE Drop(c)             BY <2>2, DropSafe
  <2>3. CASE \E w \in Workers : Authorize(c, w) BY <2>3, AuthorizeSafe
  <2>4. CASE \E hash \in BOOLEAN : Submit(c, hash) BY <2>4, SubmitSafe
  <2>5. CASE SubmitBadVersion(c) BY <2>5, SubmitBadVersionSafe
  <2>6. QED BY <1>3, <2>1, <2>2, <2>3, <2>4, <2>5 DEF Peer
<1>4. ASSUME NEW j \in PowJobs, StartJob(j) PROVE GatewayInv'
  BY <1>4, StartJobSafe
<1>5. CASE EndJob
  BY <1>5, EndJobSafe
<1>6. ASSUME NEW p \in [enabled : BOOLEAN, diff : Difficulties], UpdateSettings(p)
      PROVE  GatewayInv'
  BY <1>6, UpdateSettingsSafe
<1>7. CASE Restart
  BY <1>7, RestartSafe
<1>8. CASE UNCHANGED vars
  <2>1. UNCHANGED <<conn, disp, connections, rows, policy, running, over, work, unreconciled>>
    BY <1>8 DEF vars
  <2>2. TypeOK'
    BY <2>1 DEF GatewayInv, TypeOK
  <2>3. Recorded' /\ Noticed'
    BY <2>1 DEF GatewayInv, Recorded, Ran, Noticed, Enough
  <2>4. QED BY <2>1, <2>2, <2>3, OtherStep
<1>9. QED BY <1>1, <1>2, <1>3, <1>4, <1>5, <1>6, <1>7, <1>8 DEF Next

\* The invariant holds in every reachable state, whatever the peers, the clients,
\* the policy and the database do, and over any number of restarts
THEOREM GatewayInvariant == Spec => []GatewayInv
BY InitSafe, NextSafe, PTL DEF Spec

\* Every field of every connection, dispatcher, row and job of the gateway has
\* its type: no step of authorize, submitShare or the cleanup uses a name or a
\* status that was never set
THEOREM GatewayTypeCorrect == Spec => []TypeOK
<1>1. GatewayInv => TypeOK
  BY DEF GatewayInv
<1>2. QED BY <1>1, GatewayInvariant, PTL

\* registerConnection: a connection that finished its authorization counts in the
\* map of the service under its present name until it leaves
THEOREM AuthorizedIsCountedCorrect == Spec => []AuthorizedIsCounted
<1>1. GatewayInv => AuthorizedIsCounted
  BY DEF GatewayInv, Registered, Counted, AuthorizedIsCounted
<1>2. QED BY <1>1, GatewayInvariant, PTL

\* unregisterConnection: a connection that authorized under one name only has no
\* entry in the map when its cleanup is over
THEOREM ClosedIsForgottenCorrect == Spec => []ClosedIsForgotten
<1>1. GatewayInv => ClosedIsForgotten
  BY DEF GatewayInv, Registered, Entries, ClosedIsForgotten
<1>2. QED BY <1>1, GatewayInvariant, PTL

\* updateWorkerError and registerConnection: a worker with a registered connection
\* has no blocked row, however failed and successful authorizations interleave
THEOREM BlockedIsOfflineCorrect == Spec => []BlockedIsOffline
<1>1. GatewayInv => BlockedIsOffline
  BY DEF GatewayInv, Registered, RowsSeen, BlockedIsOffline, Unseen
<1>2. QED BY <1>1, GatewayInvariant, PTL

\* submitShare: once the recorded work of the running job suffices, a connection
\* is about to reconcile it, or a reconcile of it failed or was lost
THEOREM EnoughWorkIsNoticedCorrect == Spec => []EnoughWorkIsNoticed
<1>1. GatewayInv => EnoughWorkIsNoticed
  BY DEF GatewayInv, Noticed, EnoughWorkIsNoticed
<1>2. QED BY <1>1, GatewayInvariant, PTL

\* sendWork: the miner of a connection that authorized once was told the job and
\* the difficulty its shares are verified with, whatever happens to the policy
THEOREM MinerKnowsWorkCorrect == Spec => []MinerKnowsWork
<1>1. GatewayInv => MinerKnowsWork
  BY DEF GatewayInv, Told1, MinerKnowsWork, Authorizing
<1>2. QED BY <1>1, GatewayInvariant, PTL
===============================================================================
