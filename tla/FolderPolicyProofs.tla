-------------------------- MODULE FolderPolicyProofs --------------------------
(***************************************************************************)
(* Proofs about FolderPolicy for every number of folders, keys, values and *)
(* overlapping requests, and for every number of faults.                   *)
(***************************************************************************)
EXTENDS FolderPolicy, TLAPS

-----------------------------------------------------------------------------
(* The inductive invariant.                                                 *)

\* The process serves nobody while it checks the seals
QuietBoot == server.pc # "up" => \A r \in Requests : req[r] = Idle

\* A start that found a key has sealed what it has gone through
SealedSoFar ==
  server.verified =>
    /\ \A f \in Folders : Active(f) /\ f \notin server.left => Sealed(f)
    /\ server.pc = "up" => server.left = {}

\* A creation has its new identity for itself
Creator(r) ==
  req[r].pc = "create" =>
    /\ req[r].folder \in Folders /\ req[r].value \in Values /\ req[r].seal \in Seal
    /\ folders[req[r].folder].status = "none"
    /\ \A q \in Requests : req[q].folder = req[r].folder => q = r

\* What a reader has read stays true: the numbers, and the seal once there is one;
\* where there was none, there is none or one that was filled in for these numbers
Reader(r) ==
  req[r].pc \in {"verify", "fill", "accepted"} =>
    LET folder == folders[req[r].folder]
        covered == folder.seal # None /\ folder.seal.digits = req[r].digits
    IN /\ req[r].folder \in Folders
       /\ folder.status # "none" /\ folder.digits = req[r].digits
       /\ req[r].pc = "verify" /\ req[r].seal # None => folder.seal = req[r].seal
       /\ req[r].pc = "verify" /\ req[r].seal = None => folder.seal = None \/ covered
       /\ req[r].pc = "fill" =>
            /\ folder.seal = None \/ covered
            /\ req[r].seal \in Seal /\ req[r].seal.digits = req[r].digits
       /\ req[r].pc = "accepted" /\ folder.status = "active" => covered

PolicyInv ==
  /\ TypeOK
  /\ QuietBoot
  /\ SealedSoFar
  /\ \A r \in Requests : Creator(r) /\ Reader(r)

-----------------------------------------------------------------------------
(* What a step may do to the rows.                                          *)

Kept(f) ==
  /\ folders'[f].status # "none"
  /\ folders'[f].status = "active" => folders[f].status = "active"
  /\ folders'[f].digits = folders[f].digits
  /\ Sealed(f) => folders'[f].seal = folders[f].seal
  /\ folders'[f].seal # folders[f].seal =>
       folders'[f].seal # None /\ folders'[f].seal.digits = folders[f].digits

RowsKept == \A f \in Folders : folders[f].status # "none" => Kept(f)
NoNewRow == \A f \in Folders : folders[f].status = "none" => folders'[f].status = "none"

\* NULL is not a seal
LEMMA NoneIsNoSeal == None \notin Seal
BY NoneIsNoValue DEF Seal

\* Both roundings give numbers
LEMMA Roundings == ASSUME NEW v \in Values PROVE Column(v) \in Nat /\ Printed(v) \in Nat
<1>1. v \in [digits : Nat, more : {"none", "printed down", "printed up"}]
  BY ValuesHaveDigits
<1>2. v.digits \in Nat
  BY <1>1
<1>3. v.digits + 1 \in Nat
  <2>1. \A n \in Nat : n + 1 \in Nat
    OBVIOUS
  <2>2. QED BY <1>2, <2>1, Zenon
<1>4. Column(v) \in {v.digits, v.digits + 1} /\ Printed(v) \in {v.digits, v.digits + 1}
  BY Zenon DEF Column, Printed
<1>5. QED BY <1>2, <1>3, <1>4, Zenon

\* Where no row changes, every row is kept
LEMMA SameRowsKept == ASSUME UNCHANGED folders PROVE RowsKept /\ NoNewRow
BY DEF RowsKept, Kept, NoNewRow

\* A request that does not move keeps what it knows, whatever happens to rows
LEMMA OthersKeep ==
  ASSUME PolicyInv, NEW r \in Requests, NEW record \in Request, Goto(r, record), RowsKept,
         \/ record.folder \notin Folders
         \/ record.folder = req[r].folder
         \/ folders[record.folder].status # "none",
         \A f \in Folders : folders[f].status = "none" /\ folders'[f].status # "none"
                            => f = req[r].folder
  PROVE  \A q \in Requests \ {r} : Creator(q)' /\ Reader(q)'
<1> SUFFICES ASSUME NEW q \in Requests \ {r} PROVE Creator(q)' /\ Reader(q)'
  OBVIOUS
<1>1. /\ TypeOK /\ Creator(q) /\ Reader(q)
      /\ req'[q] = req[q] /\ req'[r] = record
      /\ \A p \in Requests \ {r} : req'[p] = req[p]
  BY DEF PolicyInv, TypeOK, Goto
<1>2. Creator(q)'
  <2> SUFFICES ASSUME req[q].pc = "create"
               PROVE  /\ req[q].folder \in Folders /\ req[q].value \in Values
                      /\ req[q].seal \in Seal
                      /\ folders'[req[q].folder].status = "none"
                      /\ \A p \in Requests : req'[p].folder = req[q].folder => p = q
    BY <1>1 DEF Creator
  <2>1. /\ req[q].folder \in Folders /\ req[q].value \in Values /\ req[q].seal \in Seal
        /\ folders[req[q].folder].status = "none"
        /\ \A p \in Requests : req[p].folder = req[q].folder => p = q
    BY <1>1 DEF Creator
  <2>2. record.folder # req[q].folder
    BY <2>1
  <2>3. folders'[req[q].folder].status = "none"
    BY <2>1
  <2>4. QED BY <1>1, <2>1, <2>2, <2>3
<1>3. Reader(q)'
  <2> SUFFICES ASSUME req[q].pc \in {"verify", "fill", "accepted"} PROVE Reader(q)'
    BY <1>1 DEF Reader
  <2>1. req[q].folder \in Folders /\ Kept(req[q].folder)
    BY <1>1 DEF Reader, RowsKept
  <2>2. QED BY <1>1, <2>1 DEF Reader, Kept, Sealed
<1>4. QED BY <1>2, <1>3

\* The same for all requests, where none of them moves
LEMMA AllKeep ==
  ASSUME PolicyInv, UNCHANGED req, RowsKept, NoNewRow
  PROVE  \A q \in Requests : Creator(q)' /\ Reader(q)'
<1> SUFFICES ASSUME NEW q \in Requests PROVE Creator(q)' /\ Reader(q)'
  OBVIOUS
<1>1. TypeOK /\ Creator(q) /\ Reader(q)
  BY DEF PolicyInv
<1>2. Creator(q)'
  BY <1>1 DEF Creator, NoNewRow
<1>3. Reader(q)'
  <2> SUFFICES ASSUME req[q].pc \in {"verify", "fill", "accepted"} PROVE Reader(q)'
    BY DEF Reader
  <2>1. req[q].folder \in Folders /\ Kept(req[q].folder)
    BY <1>1 DEF Reader, RowsKept
  <2>2. QED BY <1>1, <2>1 DEF Reader, Kept, Sealed
<1>4. QED BY <1>2, <1>3

\* An idle request knows nothing
LEMMA IdleKeeps ==
  /\ Idle \in Request /\ Idle.pc = "idle" /\ Idle.folder = None
  /\ \A r \in Requests : req[r] = Idle => Creator(r) /\ Reader(r)
BY DEF Idle, Request, Creator, Reader

\* A row that is filled is kept, and sealed if it is active
LEMMA FilledKept ==
  ASSUME TypeOK, NEW f \in Folders, NEW seal \in Seal, folders[f].status # "none",
         seal.digits = folders[f].digits,
         folders' = [folders EXCEPT ![f] = Filled(@, seal)]
  PROVE  /\ RowsKept /\ NoNewRow /\ folders' \in [Folders -> Folder]
         /\ \A g \in Folders : folders'[g].status = folders[g].status
         /\ Active(f) => folders'[f].seal # None
         /\ folders'[f].seal \in {folders[f].seal, seal}
<1>1. /\ folders'[f] = Filled(folders[f], seal)
      /\ \A g \in Folders \ {f} : folders'[g] = folders[g]
      /\ folders[f] \in Folder /\ seal # None
  BY NoneIsNoSeal DEF TypeOK
<1>2. CASE folders[f].status = "active" /\ folders[f].seal = None
  <2>1. folders'[f] = [folders[f] EXCEPT !.seal = seal]
    BY <1>1, <1>2 DEF Filled
  <2>2. /\ folders'[f] \in Folder /\ folders'[f].seal = seal
        /\ folders'[f].status = folders[f].status /\ folders'[f].digits = folders[f].digits
    BY <1>1, <2>1 DEF Folder
  <2>3. Kept(f)
    BY <1>1, <1>2, <2>2 DEF Kept, Sealed
  <2>4. \A g \in Folders \ {f} : folders[g].status # "none" => Kept(g)
    BY <1>1 DEF Kept
  <2>5. folders' \in [Folders -> Folder]
    BY <1>1, <2>2 DEF TypeOK
  <2>6. QED BY <1>1, <2>2, <2>3, <2>4, <2>5 DEF RowsKept, NoNewRow
<1>3. CASE ~(folders[f].status = "active" /\ folders[f].seal = None)
  <2>1. folders'[f] = folders[f]
    BY <1>1, <1>3 DEF Filled
  <2>2. folders' = folders
    BY <1>1, <2>1 DEF TypeOK
  <2>3. QED BY <1>3, <2>2, SameRowsKept DEF TypeOK, Active
<1>4. QED BY <1>2, <1>3

-----------------------------------------------------------------------------
(* The actions.                                                             *)

\* A start reads the active folders
LEMMA StartSafe ==
  ASSUME PolicyInv, Start
  PROVE  PolicyInv' /\ RowsKept
<1>1. TypeOK /\ server.pc = "down" /\ UNCHANGED <<key, folders, default, req, faults>>
  BY DEF PolicyInv, Start
<1>2. RowsKept /\ \A q \in Requests : Creator(q)' /\ Reader(q)'
  BY <1>1, SameRowsKept, AllKeep
<1>3. TypeOK'
  BY <1>1 DEF Start, TypeOK, Server, Candidates
<1>4. QuietBoot'
  BY <1>1 DEF PolicyInv, QuietBoot
<1>5. SealedSoFar'
  BY <1>1 DEF Start, SealedSoFar, Candidates, Active, Sealed
<1>6. QED BY <1>2, <1>3, <1>4, <1>5 DEF PolicyInv

\* The check of one folder seals it, or finds it sealed, or ends the process
LEMMA BootVerifySafe ==
  ASSUME PolicyInv, NEW f \in Folders, BootVerify(f)
  PROVE  PolicyInv' /\ RowsKept
<1>0. /\ TypeOK /\ server.pc = "boot" /\ f \in server.left
      /\ UNCHANGED <<key, default, req, faults>>
      /\ \A r \in Requests : req[r] = Idle
      /\ server \in Server /\ folders[f] \in Folder
  BY DEF PolicyInv, BootVerify, QuietBoot, TypeOK
<1>1. CASE key = None
  <2>1. UNCHANGED folders /\ server' = Down
    BY <1>0, <1>1 DEF BootVerify, TypeOK
  <2>2. RowsKept /\ \A q \in Requests : Creator(q)' /\ Reader(q)'
    BY <1>0, <2>1, SameRowsKept, AllKeep
  <2>3. TypeOK' /\ QuietBoot' /\ SealedSoFar'
    BY <1>0, <2>1 DEF TypeOK, Server, Down, QuietBoot, SealedSoFar
  <2>4. QED BY <2>2, <2>3 DEF PolicyInv
<1>2. CASE key # None
  <2> DEFINE seal == SealOf(folders[f].digits)
  <2>1. seal \in Seal /\ seal.digits = folders[f].digits
    BY <1>0, <1>2 DEF SealOf, Seal, TypeOK, Folder
  <2>2. /\ folders' = [folders EXCEPT ![f] = Filled(@, seal)]
        /\ server' = IF folders[f].seal \in {None, seal}
                     THEN [server EXCEPT !.left = @ \ {f}] ELSE Down
    BY <1>2 DEF BootVerify
  <2> HIDE DEF seal
  <2>3. CASE folders[f].status = "none"
    <3>1. folders' = folders
      BY <1>0, <2>2, <2>3 DEF Filled, TypeOK
    <3>2. RowsKept /\ \A q \in Requests : Creator(q)' /\ Reader(q)'
      BY <1>0, <3>1, SameRowsKept, AllKeep
    <3>3. TypeOK'
      BY <1>0, <2>2, <3>1 DEF TypeOK, Server, Down
    <3>4. QuietBoot'
      BY <1>0 DEF QuietBoot
    <3>5. SealedSoFar'
      BY <1>0, <2>2, <2>3, <3>1 DEF PolicyInv, SealedSoFar, Active, Sealed, Server, Down
    <3>6. QED BY <3>2, <3>3, <3>4, <3>5 DEF PolicyInv
  <2>4. CASE folders[f].status # "none"
    <3>1. /\ RowsKept /\ NoNewRow /\ folders' \in [Folders -> Folder]
          /\ \A g \in Folders : folders'[g].status = folders[g].status
          /\ Active(f) => folders'[f].seal # None
      BY <1>0, <2>1, <2>2, <2>4, FilledKept
    <3>2. \A q \in Requests : Creator(q)' /\ Reader(q)'
      BY <1>0, <3>1, AllKeep
    <3>3. TypeOK'
      BY <1>0, <2>2, <3>1 DEF TypeOK, Server, Down
    <3>4. QuietBoot'
      BY <1>0 DEF QuietBoot
    <3>5. \A g \in Folders \ {f} : folders'[g] = folders[g]
      BY <1>0, <2>2 DEF TypeOK
    <3>6. SealedSoFar'
      BY <1>0, <2>2, <3>1, <3>5 DEF PolicyInv, SealedSoFar, Active, Sealed, Server, Down
    <3>7. QED BY <3>1, <3>2, <3>3, <3>4, <3>6 DEF PolicyInv
  <2>5. QED BY <2>3, <2>4
<1>3. QED BY <1>1, <1>2

\* The check has gone through all folders, or the process ends
LEMMA ProcessSafe ==
  ASSUME PolicyInv, BootDone \/ Crash
  PROVE  PolicyInv' /\ RowsKept
<1>0. TypeOK /\ UNCHANGED <<key, folders, default>>
  BY DEF PolicyInv, BootDone, Crash
<1>1. CASE BootDone
  <2>1. RowsKept /\ \A q \in Requests : Creator(q)' /\ Reader(q)'
    BY <1>0, <1>1, SameRowsKept, AllKeep DEF BootDone
  <2>2. /\ server' = [server EXCEPT !.pc = "up"] /\ server \in Server
        /\ server.pc = "boot" /\ server.left = {} /\ UNCHANGED <<req, faults>>
    BY <1>0, <1>1 DEF BootDone, TypeOK
  <2>3. TypeOK' /\ QuietBoot' /\ SealedSoFar'
    BY <1>0, <2>2 DEF PolicyInv, TypeOK, Server, QuietBoot, SealedSoFar, Active, Sealed
  <2>4. QED BY <2>1, <2>3 DEF PolicyInv
<1>2. CASE Crash
  <2>1. /\ server' = Down /\ req' = [r \in Requests |-> Idle]
        /\ faults < MaxFaults /\ faults' = faults + 1
    BY <1>2 DEF Crash
  <2>2. RowsKept /\ \A r \in Requests : req'[r] = Idle
    BY <1>0, <2>1, SameRowsKept
  <2>3. \A q \in Requests : Creator(q)' /\ Reader(q)'
    BY <2>2 DEF Idle, Creator, Reader
  <2>4. TypeOK'
    BY <1>0, <2>1, IdleKeeps, SomeFaults DEF TypeOK, Server, Down
  <2>5. QuietBoot' /\ SealedSoFar'
    BY <2>1, <2>2 DEF QuietBoot, SealedSoFar, Down
  <2>6. QED BY <2>2, <2>3, <2>4, <2>5 DEF PolicyInv
<1>3. QED BY <1>1, <1>2

\* The key file and the default are in nobody's way
LEMMA SettingsSafe ==
  ASSUME PolicyInv,
         \/ \E k \in Keys \cup {None} : ReplaceKey(k)
         \/ \E v \in Values : UpdateDefault(v)
  PROVE  PolicyInv' /\ RowsKept
<1>1. TypeOK /\ UNCHANGED <<folders, server, req>>
  BY DEF PolicyInv, ReplaceKey, UpdateDefault
<1>2. RowsKept /\ \A q \in Requests : Creator(q)' /\ Reader(q)'
  BY <1>1, SameRowsKept, AllKeep
<1>3. TypeOK'
  BY <1>1, SomeFaults DEF TypeOK, ReplaceKey, UpdateDefault
<1>4. QuietBoot' /\ SealedSoFar'
  BY <1>1 DEF PolicyInv, QuietBoot, SealedSoFar, Active, Sealed
<1>5. QED BY <1>2, <1>3, <1>4 DEF PolicyInv

\* What a request's step has to show for itself
LEMMA RequestSafe ==
  ASSUME PolicyInv, NEW r \in Requests, NEW record \in Request, Goto(r, record), RowsKept,
         server.pc = "up", folders' \in [Folders -> Folder],
         UNCHANGED <<key, default, server, faults>>,
         \A f \in Folders : Active(f)' => Active(f) \/ Sealed(f)',
         \/ record.folder \notin Folders
         \/ record.folder = req[r].folder
         \/ folders[record.folder].status # "none",
         \A f \in Folders : folders[f].status = "none" /\ folders'[f].status # "none"
                            => f = req[r].folder,
         Creator(r)', Reader(r)'
  PROVE  PolicyInv'
<1>1. TypeOK' /\ QuietBoot'
  BY DEF PolicyInv, TypeOK, Goto, QuietBoot
<1>2. \A f \in Folders : Active(f) /\ Active(f)' /\ Sealed(f) => Sealed(f)'
  BY NoneIsNoSeal DEF RowsKept, Kept, Active, Sealed
<1>3. SealedSoFar'
  BY <1>2 DEF PolicyInv, SealedSoFar
<1>4. \A q \in Requests : Creator(q)' /\ Reader(q)'
  BY OthersKeep
<1>5. QED BY <1>1, <1>3, <1>4 DEF PolicyInv

\* A request that is under way has a server
LEMMA BusyIsUp ==
  ASSUME PolicyInv, NEW r \in Requests, req[r].pc # "idle"
  PROVE  server.pc = "up"
BY IdleKeeps DEF PolicyInv, QuietBoot

\* A creation starts with an identity that nobody has
LEMMA CreateSealSafe ==
  ASSUME PolicyInv, NEW r \in Requests, NEW f \in Folders, NEW want \in Values \cup {None},
         CreateSeal(r, f, want)
  PROVE  PolicyInv' /\ RowsKept
<1> DEFINE v == IF want = None THEN default ELSE want
           record == [Idle EXCEPT !.pc = "create", !.folder = f, !.value = v,
                                  !.seal = SealOf(Printed(v))]
<1>1. /\ TypeOK /\ v \in Values /\ key \in Keys /\ Goto(r, record) /\ server.pc = "up"
      /\ folders[f].status = "none" /\ \A q \in Requests : req[q].folder # f
      /\ UNCHANGED <<key, folders, default, server, faults>>
  BY DEF PolicyInv, TypeOK, CreateSeal
<1>2. SealOf(Printed(v)) \in Seal
  <2>1. Printed(v) \in Nat
    BY <1>1, Roundings
  <2>2. QED BY <1>1, <2>1 DEF SealOf, Seal
<1>3. /\ record \in Request /\ record.pc = "create" /\ record.folder = f
      /\ record.value \in Values /\ record.seal \in Seal
  BY <1>1, <1>2 DEF Request, Idle
<1> HIDE DEF record
<1>4. /\ TypeOK' /\ req'[r] = record /\ RowsKept
      /\ \A q \in Requests \ {r} : req'[q] = req[q]
  BY <1>1, <1>3, SameRowsKept DEF TypeOK, Goto
<1>5. Creator(r)' /\ Reader(r)'
  BY <1>1, <1>3, <1>4 DEF Creator, Reader
<1>6. ASSUME NEW q \in Requests \ {r} PROVE Creator(q)' /\ Reader(q)'
  <2>1. Creator(q) /\ Reader(q) /\ req[q].folder # f
    BY <1>1 DEF PolicyInv
  <2>2. Creator(q)'
    BY <1>1, <1>3, <1>4, <2>1 DEF Creator
  <2>3. Reader(q)'
    BY <1>1, <1>4, <2>1 DEF Reader
  <2>4. QED BY <2>2, <2>3
<1>7. QuietBoot' /\ SealedSoFar'
  BY <1>1 DEF PolicyInv, QuietBoot, SealedSoFar, Active, Sealed
<1>8. QED BY <1>4, <1>5, <1>6, <1>7 DEF PolicyInv

\* The new row is sealed, and nobody has read it
LEMMA CreateInsertSafe ==
  ASSUME PolicyInv, NEW r \in Requests, CreateInsert(r)
  PROVE  PolicyInv' /\ RowsKept
<1> DEFINE f == req[r].folder  n == Column(req[r].value)
           record == [Idle EXCEPT !.pc = "reload", !.folder = f]
<1>1. /\ TypeOK /\ req[r] \in Request /\ Goto(r, record) /\ server.pc = "up"
      /\ folders' = [folders EXCEPT ![f] =
                       [status |-> "active", digits |-> n, seal |-> req[r].seal]]
      /\ UNCHANGED <<key, default, server, faults>>
  BY BusyIsUp DEF PolicyInv, TypeOK, CreateInsert
<1>2. /\ f \in Folders /\ req[r].value \in Values /\ req[r].seal \in Seal
      /\ folders[f].status = "none"
  BY DEF PolicyInv, Creator, CreateInsert
<1>3. n \in Nat
  BY <1>2, Roundings
<1>4. /\ folders' \in [Folders -> Folder]
      /\ folders'[f].seal = req[r].seal
      /\ \A g \in Folders \ {f} : folders'[g] = folders[g]
  BY <1>1, <1>2, <1>3 DEF TypeOK, Folder
<1>5. record \in Request /\ record.pc = "reload" /\ record.folder = f
  BY <1>2 DEF Request, Idle
<1> HIDE DEF record
<1>6. RowsKept
  BY <1>2, <1>4 DEF RowsKept, Kept
<1>7. \A g \in Folders : Active(g)' => Active(g) \/ Sealed(g)'
  BY <1>2, <1>4, NoneIsNoSeal DEF Active, Sealed
<1>8. Creator(r)' /\ Reader(r)'
  BY <1>1, <1>5 DEF TypeOK, Goto, Creator, Reader
<1>9. QED BY <1>1, <1>4, <1>5, <1>6, <1>7, <1>8, RequestSafe

\* A request that moves on without touching a row
LEMMA MoveSafe ==
  ASSUME PolicyInv, NEW r \in Requests, NEW record \in Request, Goto(r, record),
         server.pc = "up", UNCHANGED <<key, folders, default, server, faults>>,
         \/ record.folder \notin Folders
         \/ record.folder = req[r].folder
         \/ folders[record.folder].status # "none",
         Creator(r)', Reader(r)'
  PROVE  PolicyInv' /\ RowsKept
<1>1. RowsKept /\ NoNewRow /\ folders' \in [Folders -> Folder]
  BY SameRowsKept DEF PolicyInv, TypeOK
<1>2. \A f \in Folders : Active(f)' => Active(f)
  BY DEF Active
<1>3. QED BY <1>1, <1>2, RequestSafe DEF NoNewRow

\* A reader has what the row says
LEMMA VerifyReadSafe ==
  ASSUME PolicyInv, NEW r \in Requests, NEW f \in Folders, VerifyRead(r, f)
  PROVE  PolicyInv' /\ RowsKept
<1> DEFINE record == [Idle EXCEPT !.pc = "verify", !.folder = f,
                                  !.digits = folders[f].digits, !.seal = folders[f].seal]
<1>1. /\ TypeOK /\ Goto(r, record) /\ server.pc = "up" /\ folders[f].status = "active"
      /\ folders[f] \in Folder /\ UNCHANGED <<key, folders, default, server, faults>>
  BY DEF PolicyInv, TypeOK, VerifyRead, Active
<1>2. /\ record \in Request /\ record.pc = "verify" /\ record.folder = f
      /\ record.digits = folders[f].digits /\ record.seal = folders[f].seal
  BY <1>1 DEF Request, Idle, Folder
<1> HIDE DEF record
<1>3. Creator(r)' /\ Reader(r)'
  BY <1>1, <1>2 DEF TypeOK, Goto, Creator, Reader
<1>4. QED BY <1>1, <1>2, <1>3, MoveSafe

\* A reader computes the seal, and fills it in or accepts
LEMMA VerifyComputeSafe ==
  ASSUME PolicyInv, NEW r \in Requests, VerifyCompute(r)
  PROVE  PolicyInv' /\ RowsKept
<1>1. /\ TypeOK /\ req[r] \in Request /\ Reader(r) /\ req[r].pc = "verify" /\ key \in Keys
      /\ server.pc = "up" /\ UNCHANGED <<key, folders, default, server, faults>>
  BY BusyIsUp DEF PolicyInv, TypeOK, VerifyCompute
<1>2. /\ SealOf(req[r].digits) \in Seal
      /\ SealOf(req[r].digits).digits = req[r].digits
  BY <1>1 DEF SealOf, Seal, Request
<1>3. PICK record \in Request :
        /\ Goto(r, record)
        /\ record.folder = req[r].folder /\ record.digits = req[r].digits
        /\ \/ req[r].seal = None /\ record.pc = "fill" /\ record.seal = SealOf(req[r].digits)
           \/ req[r].seal = SealOf(req[r].digits) /\ record.pc = "accepted"
  <2>1. CASE req[r].seal = None
    <3>1. Goto(r, [req[r] EXCEPT !.pc = "fill", !.seal = SealOf(req[r].digits)])
      BY <1>2, <2>1, NoneIsNoSeal DEF VerifyCompute
    <3>2. [req[r] EXCEPT !.pc = "fill", !.seal = SealOf(req[r].digits)] \in Request
      BY <1>1, <1>2 DEF Request
    <3>3. QED BY <1>1, <2>1, <3>1, <3>2 DEF Request
  <2>2. CASE req[r].seal # None
    <3>1. /\ req[r].seal = SealOf(req[r].digits)
          /\ Goto(r, [req[r] EXCEPT !.pc = "accepted"])
      BY <2>2 DEF VerifyCompute
    <3>2. [req[r] EXCEPT !.pc = "accepted"] \in Request
      BY <1>1 DEF Request
    <3>3. QED BY <1>1, <3>1, <3>2 DEF Request
  <2>3. QED BY <2>1, <2>2
<1>4. req'[r] = record
  BY <1>1, <1>3 DEF TypeOK, Goto
<1>5. Creator(r)'
  BY <1>3, <1>4 DEF Creator
<1>6. Reader(r)'
  BY <1>1, <1>2, <1>3, <1>4, NoneIsNoSeal DEF Reader
<1>7. QED BY <1>1, <1>3, <1>5, <1>6, MoveSafe

\* A reader fills the seal in, unless another one did
LEMMA VerifyFillSafe ==
  ASSUME PolicyInv, NEW r \in Requests, VerifyFill(r)
  PROVE  PolicyInv' /\ RowsKept
<1> DEFINE f == req[r].folder  record == [req[r] EXCEPT !.pc = "accepted"]
<1>1. /\ TypeOK /\ req[r] \in Request /\ Goto(r, record) /\ server.pc = "up"
      /\ folders' = [folders EXCEPT ![f] = Filled(@, req[r].seal)]
      /\ UNCHANGED <<key, default, server, faults>>
  BY BusyIsUp DEF PolicyInv, TypeOK, VerifyFill
<1>2. /\ f \in Folders /\ folders[f].status # "none" /\ folders[f].digits = req[r].digits
      /\ folders[f].seal = None \/ folders[f].seal.digits = req[r].digits
      /\ req[r].seal \in Seal /\ req[r].seal.digits = req[r].digits
  BY DEF PolicyInv, Reader, VerifyFill
<1>3. /\ record \in Request /\ record.pc = "accepted" /\ record.folder = f
      /\ record.digits = req[r].digits
  BY <1>1 DEF Request
<1> HIDE DEF record
<1>4. /\ RowsKept /\ NoNewRow /\ folders' \in [Folders -> Folder]
      /\ \A g \in Folders : folders'[g].status = folders[g].status
      /\ Active(f) => folders'[f].seal # None
      /\ folders'[f].seal \in {folders[f].seal, req[r].seal}
  BY <1>1, <1>2, FilledKept
<1>5. folders'[f].digits = folders[f].digits
  BY <1>2, <1>4 DEF RowsKept, Kept
<1>6. req'[r] = record
  BY <1>1 DEF TypeOK, Goto
<1>7. Creator(r)' /\ Reader(r)'
  BY <1>2, <1>3, <1>4, <1>5, <1>6 DEF Creator, Reader, Active
<1>8. \A g \in Folders : Active(g)' => Active(g)
  BY <1>4 DEF Active
<1>9. QED BY <1>1, <1>3, <1>4, <1>7, <1>8, RequestSafe DEF NoNewRow

\* A deleted folder keeps its policy and its seal
LEMMA DeleteFolderSafe ==
  ASSUME PolicyInv, NEW f \in Folders, DeleteFolder(f)
  PROVE  PolicyInv' /\ RowsKept
<1>1. /\ TypeOK /\ server.pc = "up" /\ folders[f].status = "active" /\ folders[f] \in Folder
      /\ folders' = [folders EXCEPT ![f].status = "deleted"]
      /\ UNCHANGED <<key, default, server, req, faults>>
  BY DEF PolicyInv, TypeOK, DeleteFolder, Active
<1>2. /\ folders' \in [Folders -> Folder]
      /\ folders'[f].status = "deleted" /\ folders'[f].digits = folders[f].digits
      /\ folders'[f].seal = folders[f].seal
      /\ \A g \in Folders \ {f} : folders'[g] = folders[g]
  BY <1>1 DEF TypeOK, Folder
<1>3. RowsKept /\ NoNewRow
  BY <1>1, <1>2 DEF RowsKept, NoNewRow, Kept, Sealed
<1>4. \A q \in Requests : Creator(q)' /\ Reader(q)'
  BY <1>1, <1>3, AllKeep
<1>5. TypeOK' /\ QuietBoot'
  BY <1>1, <1>2 DEF TypeOK, QuietBoot
<1>6. SealedSoFar'
  BY <1>1, <1>2 DEF PolicyInv, SealedSoFar, Active, Sealed
<1>7. QED BY <1>3, <1>4, <1>5, <1>6 DEF PolicyInv

\* A request that ends knows nothing
LEMMA FinishSafe ==
  ASSUME PolicyInv, NEW r \in Requests, Finish(r)
  PROVE  PolicyInv' /\ RowsKept
<1>1. /\ TypeOK /\ server.pc = "up" /\ Goto(r, Idle)
      /\ UNCHANGED <<key, folders, default, server, faults>>
  BY BusyIsUp DEF PolicyInv, Finish
<1>2. req'[r] = Idle
  BY <1>1 DEF TypeOK, Goto
<1>3. Creator(r)' /\ Reader(r)'
  BY <1>2, IdleKeeps DEF Creator, Reader
<1>4. Idle.folder \notin Folders
  BY IdleKeeps, NoneIsNoValue
<1>5. QED BY <1>1, <1>3, <1>4, IdleKeeps, MoveSafe

\* Every step keeps the invariant and the rows
LEMMA StepSafe ==
  ASSUME PolicyInv, [PolicyNext]_policyVars
  PROVE  PolicyInv' /\ RowsKept
<1>1. CASE UNCHANGED policyVars
  <2>1. RowsKept /\ \A q \in Requests : Creator(q)' /\ Reader(q)'
    BY <1>1, SameRowsKept, AllKeep DEF policyVars
  <2>2. TypeOK' /\ QuietBoot' /\ SealedSoFar'
    BY <1>1 DEF PolicyInv, policyVars, TypeOK, QuietBoot, SealedSoFar, Active, Sealed
  <2>3. QED BY <2>1, <2>2 DEF PolicyInv
<1>2. CASE PolicyNext
  BY <1>2, StartSafe, ProcessSafe, SettingsSafe, BootVerifySafe, DeleteFolderSafe,
     CreateInsertSafe, VerifyComputeSafe, VerifyFillSafe, FinishSafe, VerifyReadSafe,
     CreateSealSafe DEF PolicyNext
<1>3. QED BY <1>1, <1>2

-----------------------------------------------------------------------------
\* The invariant holds in every reachable state
LEMMA PolicyInvariant == PolicySpec => []PolicyInv
<1>1. PolicyInit => PolicyInv
  <2> SUFFICES ASSUME PolicyInit PROVE PolicyInv
    OBVIOUS
  <2>1. TypeOK
    <3>1. {NoFolder, OldFolder(1)} \subseteq Folder
      BY DEF NoFolder, OldFolder, Folder
    <3>2. QED BY <3>1, IdleKeeps, SomeFaults DEF PolicyInit, TypeOK, Server, Down
  <2>2. \A r \in Requests : Creator(r) /\ Reader(r)
    BY IdleKeeps DEF PolicyInit
  <2>3. QuietBoot /\ SealedSoFar
    BY DEF PolicyInit, QuietBoot, SealedSoFar, Down
  <2>4. QED BY <2>1, <2>2, <2>3 DEF PolicyInv
<1>2. PolicyInv /\ [PolicyNext]_policyVars => PolicyInv'
  BY StepSafe
<1>3. QED BY <1>1, <1>2, PTL DEF PolicySpec

-----------------------------------------------------------------------------
(* The theorems.                                                            *)

\* The rows, the process and the requests keep their types (the columns of
\* protected_folders and the variables of main and of the handlers)
THEOREM PolicyTypeCorrect == PolicySpec => []TypeOK
BY PolicyInvariant, PTL DEF PolicyInv

\* A server that started with a key has sealed every active folder: the start goes
\* through all of them, and every creation seals its own
THEOREM RunningServerSealedAllCorrect == PolicySpec => []RunningServerSealedAll
<1>1. PolicyInv => RunningServerSealedAll
  BY DEF PolicyInv, SealedSoFar, RunningServerSealedAll
<1>2. QED BY <1>1, PolicyInvariant, PTL

\* No reader goes on with a policy other than the one the folder is sealed for
THEOREM AcceptedIsSealedCorrect == PolicySpec => []AcceptedIsSealed
<1>1. PolicyInv => AcceptedIsSealed
  BY DEF PolicyInv, Reader, AcceptedIsSealed
<1>2. QED BY <1>1, PolicyInvariant, PTL

\* The numbers and the seal of a folder are final: no UPDATE names the numbers,
\* and the one that fills a seal in is guarded
THEOREM SealIsFinalCorrect == PolicySpec => SealIsFinal
<1>1. PolicyInv /\ [PolicyNext]_policyVars =>
        [\A f \in Folders : folders[f].status # "none" =>
           /\ folders'[f].status # "none" /\ folders'[f].digits = folders[f].digits
           /\ Sealed(f) => folders'[f].seal = folders[f].seal
           /\ folders'[f].seal # folders[f].seal =>
                folders'[f].seal.digits = folders[f].digits]_policyVars
  BY StepSafe DEF RowsKept, Kept
<1>2. QED BY <1>1, PolicyInvariant, PTL DEF PolicySpec, SealIsFinal
===============================================================================
