------------------------ MODULE ArchiveStorageProofs ------------------------
(***************************************************************************)
(* Proofs about ArchiveStorage for every number of folders, files, paths,  *)
(* collections and concurrent requests.                                    *)
(***************************************************************************)
EXTENDS ArchiveStorage, FiniteSetTheorems, WellFoundedInduction, TLAPS

-----------------------------------------------------------------------------
(* The inductive invariant.                                                 *)

\* The operations that store an object before their transaction
Writers == {"upload", "put", "import"}
Inserters == Writers \cup {"mkcol"}

Made(o) == files[o].status # "none"

\* A row that was made is complete, in a folder that was made, and what it
\* replaced is deleted
RowsAreMade ==
  /\ \A o \in Objects : ~Made(o) => files[o] = NoFile
  /\ \A o \in Objects : Made(o) =>
       /\ files[o].folder \in Folders /\ files[o].path \in Paths /\ files[o].content \in Objects
       /\ folder[files[o].folder] # "none"
  /\ \A o \in Objects : files[o].replaces # None =>
       files[files[o].replaces].status = "deleted"

Tables == RowsAreMade /\ ReplacedOnce /\ FilesAreInTheTree

\* What the fields of a request are at each of its steps
Shape(r) ==
  LET q == request[r] IN
  /\ q.op = "none" => q.at = "idle"
  /\ q.op \in Inserters => q.at \in {"write", "lookup", "commit", "remove"}
  /\ q.op = "export" => q.at \in {"files", "collections", "copy"}
  /\ q.at = "write" => q.op \in Writers /\ q.object \in Objects /\ q.item \in Item
  /\ q.at # "write" => q.object = None
  /\ q.at = "lookup" => \E row \in Row : q.rows = {row}
  /\ q.at \in {"write", "commit"} /\ q.op # "import" =>
       \A a, b \in q.rows : a = b
  /\ q.at = "write" /\ q.op # "import" => q.rows = {}
  /\ q.at \in {"write", "lookup", "commit", "files", "collections", "copy"} =>
       q.folder \in Folders
  /\ q.at = "remove" => q.rows = {} /\ q.folder = None
  /\ q.op = "mkcol" => q.rows = {}
  /\ q.replaced # None => q.op = "put"

\* The objects of a writer are its own: no row names one yet, and their data is
\* what their rows will say
Writes(r) ==
  LET q == request[r] IN
  q.op \in Writers =>
    /\ \A o \in Uses(r) : files[o] = NoFile
    /\ \A row \in q.rows : disk[row[1]] = row[2].content /\ row[1] # q.object
    /\ \A a, b \in q.rows : a[1] = b[1] => a = b

\* A folder that an operation works on was made, and one that is imported is new
Target(r) ==
  LET q == request[r] IN
  q.folder # None =>
    /\ q.op \in {"upload", "put", "mkcol", "delete folder"} => folder[q.folder] # "none"
    /\ q.op = "import" => folder[q.folder] = "none"

\* Folders that are deleted are locked, so that the list of their objects is complete
Deletes(r) ==
  LET q == request[r] IN
  /\ q.op = "delete folder" /\ q.at = "commit" =>
       /\ ActiveFiles(q.folder) \subseteq q.gone
       /\ \A o \in q.gone : Made(o) /\ files[o].folder = q.folder
  /\ q.at = "remove" => \A o \in q.gone : files[o].status = "deleted"

\* A file in a manifest whose collection is not in it was deleted and is still to be
\* copied
Exports(r) ==
  LET q == request[r] IN
  /\ q.op = "export" /\ q.at = "collections" =>
       \A row \in q.left : /\ Made(row[1]) /\ files[row[1]].folder = q.folder
                           /\ files[row[1]].path = row[2].path
  /\ q.op = "export" /\ q.at = "copy" =>
       \A row \in q.rows :
         \/ Parent[row[2].path] \in q.dirs \cup {None}
         \/ row \in q.left /\ files[row[1]].status = "deleted"

Sound(r) == Shape(r) /\ Writes(r) /\ Target(r) /\ Deletes(r) /\ Exports(r)

\* Two writers share no object, and an imported folder is its importer's alone
Apart ==
  \A r, s \in Requests : r # s =>
    /\ request[r].op \in Writers /\ request[s].op \in Writers =>
         \A o \in Uses(r) : o \notin Uses(s)
    /\ request[r].op = "import" /\ request[r].folder # None =>
         request[s].folder # request[r].folder

\* The data of an active file is what its row says; a handler that took its COMMIT for
\* failed has removed it
Stored ==
  \A o \in Objects : Active(o) =>
    disk[o] = files[o].content \/ (LostAnswers /\ disk[o] = None)

\* ObjectsAreOwned, where what a request is going to remove is deleted already
Removing(r, o) == request[r].at = "remove" /\ o \in request[r].gone
Owned ==
  \A o \in Objects : disk[o] # None =>
    \/ Active(o) \/ o \in lost
    \/ \E r \in Requests : o \in Own(r) \/ Removing(r, o)

StorageInv ==
  /\ TypeOK
  /\ Tables
  /\ \A r \in Requests : Sound(r)
  /\ Apart
  /\ Stored
  /\ Owned
  /\ BackupIsOneTree

-----------------------------------------------------------------------------
(* Lemmas about the operators.                                              *)

\* A set of numbers that is finite has a largest one
LEMMA MaxIsIn ==
  ASSUME NEW S, S \subseteq Nat, IsFiniteSet(S), S # {}
  PROVE  Max(S) \in S
<1> DEFINE Above(x) == {y \in S : y > x}
           T == {Cardinality(Above(x)) : x \in S}
<1>1. \A x \in S : IsFiniteSet(Above(x)) /\ Cardinality(Above(x)) \in Nat
  BY FS_Subset, FS_CardinalityType
<1>2. PICK n \in T : \A m \in T : ~(m < n)
  <2>1. T \in SUBSET Nat /\ T # {}
    BY <1>1
  <2>2. IsWellFoundedOn(OpToRel(<, Nat), Nat)
    BY NatLessThanWellFounded
  <2> HIDE DEF T
  <2>3. \E n \in T : \A m \in T : ~(<<m, n>> \in OpToRel(<, Nat))
    BY <2>1, <2>2, WFMin
  <2>4. QED BY <2>1, <2>3 DEF OpToRel
<1>3. PICK x \in S : n = Cardinality(Above(x))
  BY <1>2
<1>4. \A y \in S : x >= y
  <2>1. SUFFICES ASSUME NEW y \in S, y > x PROVE FALSE
    OBVIOUS
  <2>2. Above(y) \subseteq Above(x)
    <3>1. ASSUME NEW z \in S, z > y PROVE z > x
      <4>1. x \in Nat /\ y \in Nat /\ z \in Nat
        OBVIOUS
      <4>2. QED BY <2>1, <3>1, <4>1
    <3>2. QED BY <3>1
  <2>3. y \in Above(x) /\ y \notin Above(y)
    BY <2>1
  <2> HIDE DEF Above
  <2>4. Cardinality(Above(y)) < Cardinality(Above(x))
    BY <1>1, <2>2, <2>3, FS_Subset
  <2>5. QED BY <1>2, <1>3, <2>4
<1>5. QED BY <1>4 DEF Max

\* What is shown under a path is a file
LEMMA ShownIsFile ==
  ASSUME NEW f, NEW p, Plain(f, p) # {}
  PROVE  Shown(f, p) \in Plain(f, p)
<1>1. Plain(f, p) \subseteq Objects
  BY DEF Plain, ActiveFiles
<1>2. IsFiniteSet(Plain(f, p)) /\ Plain(f, p) \subseteq Nat
  BY <1>1, StorageAssumption, FS_Subset
<1>3. QED BY <1>2, MaxIsIn DEF Shown

\* NULL is no row, and no object is a data file being written
LEMMA NoneIsNothing ==
  /\ None \notin Folders /\ None \notin Paths /\ None \notin Dirs /\ None \notin Objects
  /\ Partial \notin Objects
BY StorageAssumption

\* The fields of a request
LEMMA RequestFields ==
  ASSUME TypeOK, NEW r \in Requests
  PROVE  /\ request[r] \in Request /\ request[r].op \in Operation \cup {"none"}
         /\ request[r].folder \in Folders \cup {None}
         /\ request[r].object \in Objects \cup {None}
         /\ request[r].item \in Item \cup {None}
         /\ request[r].rows \subseteq Row /\ request[r].left \subseteq Row
         /\ request[r].dirs \subseteq Dirs /\ request[r].replaced \in Objects \cup {None}
         /\ request[r].gone \subseteq Objects
BY DEF TypeOK, Request

\* A step that replaces the record of one request
LEMMA OneRequest ==
  ASSUME TypeOK, NEW r \in Requests, NEW q \in Request, request' = [request EXCEPT ![r] = q]
  PROVE  /\ request' \in [Requests -> Request] /\ request'[r] = q
         /\ \A s \in Requests : s # r => request'[s] = request[s]
BY DEF TypeOK

\* A request that waits to be made
LEMMA IdleFields ==
  /\ Idle \in Request /\ Idle.op = "none" /\ Idle.at = "idle" /\ Idle.folder = None
  /\ Idle.object = None /\ Idle.item = None /\ Idle.rows = {} /\ Idle.left = {}
  /\ Idle.dirs = {} /\ Idle.replaced = None /\ Idle.gone = {}
<1>1. /\ Idle.op = "none" /\ Idle.at = "idle" /\ Idle.folder = None
      /\ Idle.object = None /\ Idle.item = None /\ Idle.rows = {} /\ Idle.left = {}
      /\ Idle.dirs = {} /\ Idle.replaced = None /\ Idle.gone = {}
  BY DEF Idle
<1>2. Idle \in Request
  BY DEF Idle, Request
<1>3. QED BY <1>1, <1>2

-----------------------------------------------------------------------------
(* What a step of one request must spare.                                   *)

\* Rows that were made stay, deleted ones stay deleted
Kept ==
  \A o \in Objects : Made(o) =>
    /\ Made(o)' /\ files'[o].folder = files[o].folder /\ files'[o].path = files[o].path
    /\ files[o].status = "deleted" => files'[o].status = "deleted"

\* The requests of others and what they rely on
Spares(r) ==
  /\ \A s \in Requests : s # r => request'[s] = request[s]
  /\ Kept
  /\ \A o \in Objects : files[o] = NoFile /\ o \notin Own(r) => files'[o] = NoFile
  /\ \A o \in Objects : o \notin Own(r) /\ ~Unused(o) /\ ~Made(o) => disk'[o] = disk[o]
  /\ \A f \in Folders : \/ folder'[f] = "none" <=> folder[f] = "none"
                        \/ request[r].op = "import" /\ request[r].folder = f
  /\ \A o \in Objects : Active(o)' => Active(o) \/ ~Locked(files'[o].folder)

\* What a request takes was nobody's
Claims(r) ==
  /\ request'[r].op \in Writers => \A o \in Uses(r)' : o \in Own(r) \/ Unused(o)
  /\ request'[r].folder # None =>
       \/ /\ request'[r].folder = request[r].folder
          /\ request'[r].op = "import" => request[r].op = "import"
       \/ /\ request'[r].op = "import" =>
               \A s \in Requests : request[s].folder # request'[r].folder
          /\ \A s \in Requests : request[s].op = "import" =>
               request[s].folder # request'[r].folder

\* The other requests do not notice
LEMMA OthersSafe ==
  ASSUME StorageInv, NEW r \in Requests, Spares(r)
  PROVE  \A s \in Requests : s # r => Sound(s)'
<1> SUFFICES ASSUME NEW s \in Requests, s # r PROVE Sound(s)'
  OBVIOUS
<1>1. request'[s] = request[s] /\ Sound(s) /\ TypeOK
  BY DEF Spares, StorageInv
<1>2. Shape(s)'
  BY <1>1 DEF Sound, Shape
<1>3. Writes(s)'
  <2>1. SUFFICES ASSUME request[s].op \in Writers PROVE Writes(s)'
    BY <1>1 DEF Writes
  <2>2. \A o \in Uses(s) : files[o] = NoFile /\ ~Unused(o) /\ o \notin Own(r)
    BY <1>1, <2>1 DEF Sound, Writes, Unused, StorageInv, Apart, Own, Writers
  <2>3. Uses(s) \subseteq Objects /\ Uses(s)' = Uses(s)
    BY <1>1, RequestFields DEF Uses, Row
  <2>4. \A o \in Uses(s) : files'[o] = NoFile
    BY <2>2, <2>3 DEF Spares
  <2>5. \A o \in Uses(s) : disk'[o] = disk[o]
    BY <2>2, <2>3 DEF Spares, Made, NoFile
  <2>6. \A row \in request[s].rows : row[1] \in Uses(s)
    BY DEF Uses
  <2>7. QED BY <1>1, <2>1, <2>3, <2>4, <2>5, <2>6 DEF Sound, Writes
<1>4. Target(s)'
  <2>1. SUFFICES ASSUME request[s].folder # None PROVE Target(s)'
    BY <1>1 DEF Target
  <2>2. request[s].folder \in Folders
    BY <1>1, <2>1, RequestFields
  <2>3. folder'[request[s].folder] = "none" <=> folder[request[s].folder] = "none"
    BY <2>1, <2>2 DEF Spares, StorageInv, Apart
  <2>4. QED BY <1>1, <2>3 DEF Sound, Target
<1>5. Deletes(s)'
  <2>1. ASSUME request[s].op = "delete folder", request[s].at = "commit",
               NEW o \in ActiveFiles(request[s].folder)'
        PROVE  o \in request[s].gone
    <3>1. o \in Objects /\ Active(o)' /\ files'[o].folder = request[s].folder
      BY <1>1 DEF ActiveFiles
    <3>2. Locked(files'[o].folder)
      BY <2>1, <3>1 DEF Locked
    <3>3. Active(o)
      BY <3>1, <3>2 DEF Spares
    <3>4. files'[o].folder = files[o].folder
      BY <3>1, <3>3 DEF Spares, Kept, Made, Active
    <3>5. QED BY <1>1, <2>1, <3>1, <3>3, <3>4 DEF Sound, Deletes, ActiveFiles
  <2>4. ASSUME request[s].op = "delete folder", request[s].at = "commit",
               NEW o \in request[s].gone
        PROVE  Made(o)' /\ files'[o].folder = request[s].folder
    BY <1>1, <2>4, RequestFields DEF Sound, Deletes, Spares, Kept
  <2>2. ASSUME request[s].at = "remove", NEW o \in request[s].gone
        PROVE  files'[o].status = "deleted"
    BY <1>1, <2>2, RequestFields DEF Sound, Deletes, Spares, Kept, Made
  <2>3. QED BY <1>1, <2>1, <2>2, <2>4 DEF Deletes
<1>6. Exports(s)'
  <2>1. \A row \in request[s].rows \cup request[s].left : row[1] \in Objects
    BY <1>1, RequestFields DEF Row
  <2>2. QED BY <1>1, <2>1 DEF Sound, Exports, Spares, Kept, Made
<1>7. QED BY <1>2, <1>3, <1>4, <1>5, <1>6 DEF Sound

\* The requests stay apart
LEMMA ApartSafe ==
  ASSUME StorageInv, NEW r \in Requests, Spares(r), Claims(r)
  PROVE  Apart'
<1>1. \A s \in Requests : s # r => request'[s] = request[s] /\ Uses(s)' = Uses(s)
  BY DEF Spares, Uses
<1>2. ASSUME NEW s \in Requests, s # r, request'[r].op \in Writers,
             request'[s].op \in Writers, NEW o \in Uses(r)'
      PROVE  o \notin Uses(s)'
  <2>1. o \in Own(r) \/ Unused(o)
    BY <1>2 DEF Claims
  <2>2. QED BY <1>1, <1>2, <2>1 DEF StorageInv, Apart, Own, Unused, Writers
<1>3. ASSUME NEW s \in Requests, s # r, request'[r].folder # None
      PROVE  /\ request'[r].op = "import" => request'[s].folder # request'[r].folder
             /\ request'[s].op = "import" => request'[s].folder # request'[r].folder
  BY <1>1, <1>3 DEF Claims, StorageInv, Apart
<1>4. QED BY <1>1, <1>2, <1>3 DEF StorageInv, Apart

\* A step of one request
LEMMA StepSafe ==
  ASSUME StorageInv, NEW r \in Requests, Spares(r), Claims(r),
         TypeOK', Tables', Sound(r)', Stored', Owned', BackupIsOneTree'
  PROVE  StorageInv'
BY OthersSafe, ApartSafe DEF StorageInv

-----------------------------------------------------------------------------
(* Steps that touch no file and no folder.                                  *)

\* A request goes on without touching a table or the disk
LEMMA QuietSafe ==
  ASSUME StorageInv, NEW r \in Requests, request' \in [Requests -> Request],
         \A s \in Requests : s # r => request'[s] = request[s],
         UNCHANGED <<folder, files, dirs, disk, lost>>,
         backup' \in [whole : BOOLEAN, items : SUBSET Row, dirs : SUBSET Dirs],
         BackupIsOneTree', request[r].at # "remove",
         \A o \in Objects : o \in Own(r) => o \in Own(r)',
         Sound(r)', Claims(r)
  PROVE  StorageInv'
<1>1. TypeOK'
  BY DEF StorageInv, TypeOK
<1>2. Tables' /\ Stored'
  BY DEF StorageInv, Tables, RowsAreMade, Made, ReplacedOnce, FilesAreInTheTree, Active,
         Stored
<1>3. Spares(r)
  BY DEF Spares, Kept, Made, Active
<1>4. Owned'
  <2>1. SUFFICES ASSUME NEW o \in Objects, disk[o] # None, ~Active(o), o \notin lost
                 PROVE  \E t \in Requests : o \in Own(t)' \/ Removing(t, o)'
    BY DEF Owned, Active
  <2>2. PICK t \in Requests : o \in Own(t) \/ Removing(t, o)
    BY <2>1 DEF StorageInv, Owned
  <2>3. CASE t = r
    BY <2>2, <2>3 DEF Removing
  <2>4. CASE t # r
    BY <2>2, <2>4 DEF Removing, Own, Uses
  <2>5. QED BY <2>3, <2>4
<1>5. QED BY <1>1, <1>2, <1>3, <1>4, StepSafe

\* A request that waits to be made has nothing
LEMMA IdleOwns ==
  ASSUME NEW r \in Requests, request[r] = Idle
  PROVE  Own(r) = {}
BY IdleFields DEF Own

\* The backup is one tree as long as it is the same
LEMMA BackupSame == StorageInv /\ UNCHANGED backup =>
                      /\ backup' \in [whole : BOOLEAN, items : SUBSET Row, dirs : SUBSET Dirs]
                      /\ BackupIsOneTree'
BY DEF StorageInv, TypeOK, BackupIsOneTree

\* MKCOL finds its folder
LEMMA StartMkcolSafe ==
  ASSUME StorageInv, NEW r \in Requests, NEW f \in Folders, NEW d \in Dirs, StartMkcol(r, f, d)
  PROVE  StorageInv'
<1>1. TypeOK
  BY DEF StorageInv
<1>2. /\ request[r] = Idle /\ UNCHANGED <<folder, files, dirs, disk, backup, lost>>
      /\ folder[f] = "active"
  BY DEF StartMkcol, Starts, IsIdle
<1>3. /\ request' \in [Requests -> Request]
      /\ (\A s \in Requests : s # r => request'[s] = request[s])
      /\ request'[r].op = "mkcol" /\ request'[r].at = "commit"
      /\ request'[r].folder = f /\ request'[r].object = None
      /\ request'[r].item = None /\ request'[r].rows = {}
      /\ request'[r].left = {} /\ request'[r].dirs = {d}
      /\ request'[r].replaced = None /\ request'[r].gone = {}
  <2> DEFINE q == [Idle EXCEPT !.op = "mkcol", !.at = "commit", !.folder = f,
                               !.dirs = {d}]
  <2>1. request' = [request EXCEPT ![r] = q]
    BY DEF StartMkcol, Goes
  <2>2. q \in Request
    <3>1. /\ Idle \in Request /\ f \in Folders /\ d \in Dirs
      BY <1>1, RequestFields, IdleFields
    <3>2. QED BY <3>1 DEF Request, Operation
  <2>3. /\ q.op = "mkcol" /\ q.at = "commit" /\ q.folder = f /\ q.object = None
        /\ q.item = None /\ q.rows = {} /\ q.left = {} /\ q.dirs = {d}
        /\ q.replaced = None /\ q.gone = {}
    BY <1>1, RequestFields, IdleFields DEF Request
  <2> HIDE DEF q
  <2>4. QED BY <1>1, <2>1, <2>2, <2>3, OneRequest
<1>4. Sound(r)'
  BY <1>2, <1>3, NoneIsNothing DEF Sound, Shape, Writes, Target, Deletes, Exports,
         Writers, Inserters
<1>5. Claims(r)
  <2>1. \A s \in Requests : request[s].op = "import" => request[s].folder # f
    BY <1>2, NoneIsNothing DEF StorageInv, Sound, Target
  <2>2. QED BY <1>3, <2>1 DEF Claims, Writers
<1>6. QED BY <1>2, <1>3, <1>4, <1>5, IdleOwns, IdleFields, BackupSame, QuietSafe

\* An export finds its folder
LEMMA StartExportSafe ==
  ASSUME StorageInv, NEW r \in Requests, NEW f \in Folders, StartExport(r, f)
  PROVE  StorageInv'
<1>1. TypeOK
  BY DEF StorageInv
<1>2. /\ request[r] = Idle /\ UNCHANGED <<folder, files, dirs, disk, backup, lost>>
      /\ folder[f] = "active"
  BY DEF StartExport, Starts, IsIdle
<1>3. /\ request' \in [Requests -> Request]
      /\ (\A s \in Requests : s # r => request'[s] = request[s])
      /\ request'[r].op = "export" /\ request'[r].at = "files"
      /\ request'[r].folder = f /\ request'[r].object = None
      /\ request'[r].item = None /\ request'[r].rows = {}
      /\ request'[r].left = {} /\ request'[r].dirs = {}
      /\ request'[r].replaced = None /\ request'[r].gone = {}
  <2> DEFINE q == [Idle EXCEPT !.op = "export", !.at = "files", !.folder = f]
  <2>1. request' = [request EXCEPT ![r] = q]
    BY DEF StartExport, Goes
  <2>2. q \in Request
    <3>1. /\ Idle \in Request /\ f \in Folders
      BY <1>1, RequestFields, IdleFields
    <3>2. QED BY <3>1 DEF Request, Operation
  <2>3. /\ q.op = "export" /\ q.at = "files" /\ q.folder = f /\ q.object = None
        /\ q.item = None /\ q.rows = {} /\ q.left = {} /\ q.dirs = {}
        /\ q.replaced = None /\ q.gone = {}
    BY <1>1, RequestFields, IdleFields DEF Request
  <2> HIDE DEF q
  <2>4. QED BY <1>1, <2>1, <2>2, <2>3, OneRequest
<1>4. Sound(r)'
  BY <1>2, <1>3, NoneIsNothing DEF Sound, Shape, Writes, Target, Deletes, Exports,
         Writers, Inserters
<1>5. Claims(r)
  <2>1. \A s \in Requests : request[s].op = "import" => request[s].folder # f
    BY <1>2, NoneIsNothing DEF StorageInv, Sound, Target
  <2>2. QED BY <1>3, <2>1 DEF Claims, Writers
<1>6. QED BY <1>2, <1>3, <1>4, <1>5, IdleOwns, IdleFields, BackupSame, QuietSafe

\* handleDeleteFolder locks the row and lists the objects, which the lock keeps
\* complete
LEMMA LockFolderSafe ==
  ASSUME StorageInv, NEW r \in Requests, NEW f \in Folders, LockFolder(r, f)
  PROVE  StorageInv'
<1>1. TypeOK
  BY DEF StorageInv
<1>2. /\ request[r] = Idle /\ UNCHANGED <<folder, files, dirs, disk, backup, lost>>
      /\ folder[f] = "active"
  BY DEF LockFolder, Starts, IsIdle
<1>3. /\ request' \in [Requests -> Request]
      /\ (\A s \in Requests : s # r => request'[s] = request[s])
      /\ request'[r].op = "delete folder" /\ request'[r].at = "commit"
      /\ request'[r].folder = f /\ request'[r].object = None
      /\ request'[r].item = None /\ request'[r].rows = {}
      /\ request'[r].left = {} /\ request'[r].dirs = {}
      /\ request'[r].replaced = None /\ request'[r].gone = ActiveFiles(f)
  <2> DEFINE q == [Idle EXCEPT !.op = "delete folder", !.at = "commit",
                               !.folder = f, !.gone = ActiveFiles(f)]
  <2>1. request' = [request EXCEPT ![r] = q]
    BY DEF LockFolder, Goes
  <2>2. q \in Request
    <3>1. /\ Idle \in Request /\ f \in Folders
          /\ ActiveFiles(f) \subseteq Objects
      BY <1>1, RequestFields, IdleFields DEF ActiveFiles
    <3>2. QED BY <3>1 DEF Request, Operation
  <2>3. /\ q.op = "delete folder" /\ q.at = "commit" /\ q.folder = f
        /\ q.object = None /\ q.item = None /\ q.rows = {} /\ q.left = {}
        /\ q.dirs = {} /\ q.replaced = None /\ q.gone = ActiveFiles(f)
    BY <1>1, RequestFields, IdleFields DEF Request
  <2> HIDE DEF q
  <2>4. QED BY <1>1, <2>1, <2>2, <2>3, OneRequest
<1>4. Sound(r)'
  <2>1. ActiveFiles(f)' = ActiveFiles(f)
    BY <1>2 DEF ActiveFiles, Active
  <2>2. \A o \in ActiveFiles(f) : Made(o)' /\ files'[o].folder = f
    BY <1>2 DEF ActiveFiles, Active, Made
  <2>3. QED BY <1>2, <1>3, <2>1, <2>2, NoneIsNothing
       DEF Sound, Shape, Writes, Target, Deletes, Exports,
         Writers, Inserters
<1>5. Claims(r)
  <2>1. \A s \in Requests : request[s].op = "import" => request[s].folder # f
    BY <1>2, NoneIsNothing DEF StorageInv, Sound, Target
  <2>2. QED BY <1>3, <2>1 DEF Claims, Writers
<1>6. QED BY <1>2, <1>3, <1>4, <1>5, IdleOwns, IdleFields, BackupSame, QuietSafe

\* An import takes an identity nobody has
LEMMA StartImportSafe ==
  ASSUME StorageInv, NEW r \in Requests, NEW f \in Folders, StartImport(r, f)
  PROVE  StorageInv'
<1>1. TypeOK
  BY DEF StorageInv
<1>2. /\ request[r] = Idle /\ UNCHANGED <<folder, files, dirs, disk, backup, lost>>
      /\ folder[f] = "none" /\ \A t \in Requests : request[t].folder # f
  BY DEF StartImport, Starts, IsIdle
<1>3. /\ request' \in [Requests -> Request]
      /\ (\A s \in Requests : s # r => request'[s] = request[s])
      /\ request'[r].op = "import" /\ request'[r].at = "commit"
      /\ request'[r].folder = f /\ request'[r].object = None
      /\ request'[r].item = None /\ request'[r].rows = {}
      /\ request'[r].left = backup.items /\ request'[r].dirs = backup.dirs
      /\ request'[r].replaced = None /\ request'[r].gone = {}
  <2> DEFINE q == [Idle EXCEPT !.op = "import", !.at = "commit", !.folder = f,
                               !.left = backup.items, !.dirs = backup.dirs]
  <2>1. request' = [request EXCEPT ![r] = q]
    BY DEF StartImport, Goes
  <2>2. q \in Request
    <3>1. /\ Idle \in Request /\ f \in Folders /\ backup.items \subseteq Row
          /\ backup.dirs \subseteq Dirs
      BY <1>1, RequestFields, IdleFields DEF TypeOK
    <3>2. QED BY <3>1 DEF Request, Operation
  <2>3. /\ q.op = "import" /\ q.at = "commit" /\ q.folder = f /\ q.object = None
        /\ q.item = None /\ q.rows = {} /\ q.left = backup.items
        /\ q.dirs = backup.dirs /\ q.replaced = None /\ q.gone = {}
    BY <1>1, RequestFields, IdleFields DEF Request
  <2> HIDE DEF q
  <2>4. QED BY <1>1, <2>1, <2>2, <2>3, OneRequest
<1>4. Sound(r)'
  <2>1. Uses(r)' = {}
    BY <1>3 DEF Uses
  <2>2. QED BY <1>2, <1>3, <2>1, NoneIsNothing DEF Sound, Shape, Writes, Target, Deletes, Exports,
         Writers, Inserters
<1>5. Claims(r)
  <2>1. Uses(r)' = {}
    BY <1>3 DEF Uses
  <2>2. QED BY <1>2, <1>3, <2>1 DEF Claims
<1>6. QED BY <1>2, <1>3, <1>4, <1>5, IdleOwns, IdleFields, BackupSame, QuietSafe

\* handleAdminDAVPut looks for the file at its path
LEMMA LookupSafe ==
  ASSUME StorageInv, NEW r \in Requests, Lookup(r)
  PROVE  StorageInv'
<1>1. TypeOK
  BY DEF StorageInv
<1>2. /\ request[r].op = "put" /\ request[r].at = "lookup"
      /\ UNCHANGED <<folder, files, dirs, disk, backup, lost>>
  BY DEF Lookup, At
<1>3. PICK found \in Objects \cup {None} :
        request' = [request EXCEPT ![r] = [request[r] EXCEPT !.at = "commit", !.replaced = found]]
  <2> DEFINE p == (CHOOSE row \in request[r].rows : TRUE)[2].path
  <2>1. Plain(request[r].folder, p) # {} => Shown(request[r].folder, p) \in Objects
    BY ShownIsFile DEF Plain, ActiveFiles
  <2> HIDE DEF p
  <2>2. PICK found \in {None} \cup
               (IF folder[request[r].folder] = "active" /\ Plain(request[r].folder, p) # {}
                THEN {Shown(request[r].folder, p)} ELSE {}) :
          request' = [request EXCEPT ![r] =
                        [request[r] EXCEPT !.at = "commit", !.replaced = found]]
    BY DEF Lookup, Goes, p
  <2>3. QED BY <2>1, <2>2
<1>4. /\ request' \in [Requests -> Request]
      /\ (\A s \in Requests : s # r => request'[s] = request[s])
      /\ request'[r].op = request[r].op /\ request'[r].at = "commit"
      /\ request'[r].folder = request[r].folder
      /\ request'[r].object = request[r].object
      /\ request'[r].item = request[r].item /\ request'[r].rows = request[r].rows
      /\ request'[r].left = request[r].left /\ request'[r].dirs = request[r].dirs
      /\ request'[r].replaced = found /\ request'[r].gone = request[r].gone
  <2> DEFINE q == [request[r] EXCEPT !.at = "commit", !.replaced = found]
  <2>1. request' = [request EXCEPT ![r] = q]
    BY <1>3
  <2>2. q \in Request
    <3>1. /\ request[r] \in Request /\ found \in Objects \cup {None}
      BY <1>1, RequestFields, IdleFields
    <3>2. QED BY <3>1 DEF Request, Operation
  <2>3. /\ q.op = request[r].op /\ q.at = "commit"
        /\ q.folder = request[r].folder /\ q.object = request[r].object
        /\ q.item = request[r].item /\ q.rows = request[r].rows
        /\ q.left = request[r].left /\ q.dirs = request[r].dirs
        /\ q.replaced = found /\ q.gone = request[r].gone
    BY <1>1, RequestFields, IdleFields DEF Request
  <2> HIDE DEF q
  <2>4. QED BY <1>1, <2>1, <2>2, <2>3, OneRequest
<1>5. Uses(r)' = Uses(r) /\ Own(r)' = Own(r)
  BY <1>4 DEF Uses, Own
<1>6. Sound(r)'
  <2>1. Shape(r)'
    BY <1>2, <1>4 DEF StorageInv, Sound, Shape, Writers, Inserters
  <2>2. Writes(r)'
    <3>1. \A o \in Uses(r) : files'[o] = NoFile
      BY <1>2 DEF StorageInv, Sound, Writes, Writers
    <3>2. QED BY <1>2, <1>4, <1>5, <3>1 DEF StorageInv, Sound, Writes
  <2>3. Target(r)'
    BY <1>2, <1>4 DEF StorageInv, Sound, Target
  <2>4. Deletes(r)' /\ Exports(r)'
    BY <1>2, <1>4 DEF Deletes, Exports
  <2>5. QED BY <2>1, <2>2, <2>3, <2>4 DEF Sound
<1>7. Claims(r)
  BY <1>2, <1>4, <1>5 DEF Claims, Own, Writers
<1>8. QED BY <1>2, <1>4, <1>5, <1>6, <1>7, BackupSame, QuietSafe

\* An export lists the files that are active now
LEMMA ListFilesSafe ==
  ASSUME StorageInv, NEW r \in Requests, ListFiles(r)
  PROVE  StorageInv'
<1>1. TypeOK
  BY DEF StorageInv
<1>2. /\ request[r].op = "export" /\ request[r].at = "files"
      /\ UNCHANGED <<folder, files, dirs, disk, backup, lost>>
  BY DEF ListFiles, At
<1>3. /\ Listing(request[r].folder) \subseteq Row
      /\ \A row \in Listing(request[r].folder) :
           /\ Made(row[1]) /\ files[row[1]].folder = request[r].folder
           /\ files[row[1]].path = row[2].path
  <2> DEFINE f == request[r].folder
             line(o) == [path |-> files[o].path,
                         copy |-> files[o].copy \/ o # Shown(f, files[o].path),
                         content |-> files[o].content]
  <2>1. \A o \in ActiveFiles(f) :
          /\ o \in Objects /\ Made(o) /\ files[o].folder = f /\ files[o].path \in Paths
          /\ files[o].content \in Objects /\ files[o].copy \in BOOLEAN
    BY <1>1 DEF StorageInv, Tables, RowsAreMade, ActiveFiles, Active, Made, TypeOK, File
  <2>2. \A o \in ActiveFiles(f) : line(o) \in Item /\ line(o).path = files[o].path
    BY <2>1 DEF Item
  <2>3. Listing(f) = {<<o, line(o)>> : o \in ActiveFiles(f)}
    BY DEF Listing
  <2> HIDE DEF line
  <2>4. QED BY <2>1, <2>2, <2>3 DEF Row
<1>4. /\ request' \in [Requests -> Request]
      /\ (\A s \in Requests : s # r => request'[s] = request[s])
      /\ request'[r].op = request[r].op /\ request'[r].at = "collections"
      /\ request'[r].folder = request[r].folder
      /\ request'[r].object = request[r].object
      /\ request'[r].item = request[r].item /\ request'[r].rows = request[r].rows
      /\ request'[r].left = Listing(request[r].folder)
      /\ request'[r].dirs = request[r].dirs
      /\ request'[r].replaced = request[r].replaced
      /\ request'[r].gone = request[r].gone
  <2> DEFINE q == [request[r] EXCEPT !.at = "collections",
                                     !.left = Listing(request[r].folder)]
  <2>1. request' = [request EXCEPT ![r] = q]
    BY DEF ListFiles, Goes
  <2>2. q \in Request
    <3>1. /\ request[r] \in Request /\ Listing(request[r].folder) \subseteq Row
      BY <1>1, RequestFields, IdleFields, <1>3
    <3>2. QED BY <3>1 DEF Request, Operation
  <2>3. /\ q.op = request[r].op /\ q.at = "collections"
        /\ q.folder = request[r].folder /\ q.object = request[r].object
        /\ q.item = request[r].item /\ q.rows = request[r].rows
        /\ q.left = Listing(request[r].folder) /\ q.dirs = request[r].dirs
        /\ q.replaced = request[r].replaced /\ q.gone = request[r].gone
    BY <1>1, RequestFields, IdleFields DEF Request
  <2> HIDE DEF q
  <2>4. QED BY <1>1, <2>1, <2>2, <2>3, OneRequest
<1>5. Sound(r)'
  <2>1. Shape(r)'
    BY <1>2, <1>4 DEF StorageInv, Sound, Shape, Inserters, Writers
  <2>2. Exports(r)'
    BY <1>2, <1>3, <1>4 DEF Exports, Made
  <2>3. Writes(r)' /\ Deletes(r)'
    BY <1>2, <1>4 DEF Writes, Deletes, Writers
  <2>4. Target(r)'
    BY <1>2, <1>4 DEF Target
  <2>5. QED BY <2>1, <2>2, <2>3, <2>4 DEF Sound
<1>6. Claims(r)
  BY <1>2, <1>4, NoneIsNothing DEF Claims, Writers
<1>7. Own(r) = {}
  BY <1>2 DEF Own
<1>8. QED BY <1>2, <1>4, <1>5, <1>6, <1>7, BackupSame, QuietSafe

\* An export lists the collections: one that is gone has taken its files with it
LEMMA ListCollectionsSafe ==
  ASSUME StorageInv, NEW r \in Requests, ListCollections(r)
  PROVE  StorageInv'
<1>1. TypeOK
  BY DEF StorageInv
<1>2. /\ request[r].op = "export" /\ request[r].at = "collections"
      /\ UNCHANGED <<folder, files, dirs, disk, backup, lost>>
  BY DEF ListCollections, At
<1> DEFINE listed == {d \in Dirs : <<request[r].folder, d>> \in dirs}
<1>4. /\ request' \in [Requests -> Request]
      /\ (\A s \in Requests : s # r => request'[s] = request[s])
      /\ request'[r].op = request[r].op /\ request'[r].at = "copy"
      /\ request'[r].folder = request[r].folder
      /\ request'[r].object = request[r].object
      /\ request'[r].item = request[r].item /\ request'[r].rows = request[r].left
      /\ request'[r].left = request[r].left /\ request'[r].dirs = listed
      /\ request'[r].replaced = request[r].replaced
      /\ request'[r].gone = request[r].gone
  <2> DEFINE q == [request[r] EXCEPT !.at = "copy", !.rows = request[r].left,
                                     !.dirs = listed]
  <2>1. request' = [request EXCEPT ![r] = q]
    BY DEF ListCollections, Goes
  <2>2. q \in Request
    <3>1. /\ request[r] \in Request /\ listed \subseteq Dirs
      BY <1>1, RequestFields, IdleFields
    <3>2. QED BY <3>1 DEF Request, Operation
  <2>3. /\ q.op = request[r].op /\ q.at = "copy" /\ q.folder = request[r].folder
        /\ q.object = request[r].object /\ q.item = request[r].item
        /\ q.rows = request[r].left /\ q.left = request[r].left
        /\ q.dirs = listed /\ q.replaced = request[r].replaced
        /\ q.gone = request[r].gone
    BY <1>1, RequestFields, IdleFields DEF Request
  <2> HIDE DEF q
  <2>4. QED BY <1>1, <2>1, <2>2, <2>3, OneRequest
<1>5. Sound(r)'
  <2>1. ASSUME NEW row \in request[r].left
        PROVE  Parent[row[2].path] \in listed \cup {None} \/ files[row[1]].status = "deleted"
    <3>1. /\ row[1] \in Objects /\ row[2].path \in Paths
          /\ Made(row[1]) /\ files[row[1]].folder = request[r].folder
          /\ files[row[1]].path = row[2].path
      <4>1. row \in Row /\ Made(row[1]) /\ files[row[1]].folder = request[r].folder
            /\ files[row[1]].path = row[2].path
        BY <1>1, <1>2, RequestFields DEF StorageInv, Sound, Exports
      <4>2. QED BY <4>1 DEF Row, Item
    <3>2. Active(row[1]) \/ files[row[1]].status = "deleted"
      BY <1>1, <3>1 DEF TypeOK, File, Active, Made
    <3>3. Active(row[1]) /\ Parent[row[2].path] # None =>
            <<request[r].folder, Parent[row[2].path]>> \in dirs
      BY <3>1 DEF StorageInv, Tables, FilesAreInTheTree
    <3>4. Parent[row[2].path] \in Dirs \cup {None}
      BY <3>1, StorageAssumption
    <3>5. QED BY <3>2, <3>3, <3>4
  <2> HIDE DEF listed
  <2>2. QED BY <1>2, <1>4, <2>1 DEF StorageInv, Sound, Shape, Writes, Target, Deletes, Exports,
         Writers, Inserters
<1>6. Claims(r)
  BY <1>2, <1>4, NoneIsNothing DEF Claims, Writers
<1>7. Own(r) = {}
  BY <1>2 DEF Own
<1>8. QED BY <1>2, <1>4, <1>5, <1>6, <1>7, BackupSame, QuietSafe

\* Only an active file is copied
LEMMA CopyFileSafe ==
  ASSUME StorageInv, NEW r \in Requests, NEW item \in request[r].left, CopyFile(r, item)
  PROVE  StorageInv'
<1>1. TypeOK
  BY DEF StorageInv
<1>2. /\ request[r].op = "export" /\ request[r].at = "copy" /\ Active(item[1])
      /\ UNCHANGED <<folder, files, dirs, disk, backup, lost>>
  BY DEF CopyFile, At, CanCopy
<1>4. /\ request' \in [Requests -> Request]
      /\ (\A s \in Requests : s # r => request'[s] = request[s])
      /\ request'[r].op = request[r].op /\ request'[r].at = request[r].at
      /\ request'[r].folder = request[r].folder
      /\ request'[r].object = request[r].object
      /\ request'[r].item = request[r].item /\ request'[r].rows = request[r].rows
      /\ request'[r].left = request[r].left \ {item}
      /\ request'[r].dirs = request[r].dirs
      /\ request'[r].replaced = request[r].replaced
      /\ request'[r].gone = request[r].gone
  <2> DEFINE q == [request[r] EXCEPT !.left = request[r].left \ {item}]
  <2>1. request' = [request EXCEPT ![r] = q]
    BY DEF CopyFile, Goes
  <2>2. q \in Request
    <3>1. /\ request[r] \in Request /\ request[r].left \ {item} \subseteq Row
      BY <1>1, RequestFields, IdleFields
    <3>2. QED BY <3>1 DEF Request, Operation
  <2>3. /\ q.op = request[r].op /\ q.at = request[r].at
        /\ q.folder = request[r].folder /\ q.object = request[r].object
        /\ q.item = request[r].item /\ q.rows = request[r].rows
        /\ q.left = request[r].left \ {item} /\ q.dirs = request[r].dirs
        /\ q.replaced = request[r].replaced /\ q.gone = request[r].gone
    BY <1>1, RequestFields, IdleFields DEF Request
  <2> HIDE DEF q
  <2>4. QED BY <1>1, <2>1, <2>2, <2>3, OneRequest
<1>5. Sound(r)'
  <2>1. files[item[1]].status # "deleted"
    BY <1>2 DEF Active
  <2>2. Exports(r)'
    BY <1>2, <1>4, <2>1 DEF StorageInv, Sound, Exports
  <2>3. Shape(r)' /\ Writes(r)' /\ Target(r)' /\ Deletes(r)'
    BY <1>2, <1>4 DEF StorageInv, Sound, Shape, Writes, Target, Deletes, Writers, Inserters
  <2>4. QED BY <2>2, <2>3 DEF Sound
<1>6. Claims(r)
  BY <1>2, <1>4, NoneIsNothing DEF Claims, Writers
<1>7. Own(r) = {}
  BY <1>2 DEF Own
<1>8. QED BY <1>2, <1>4, <1>5, <1>6, <1>7, BackupSame, QuietSafe

\* A backup that is cut off is none
LEMMA TruncateBackupSafe ==
  ASSUME StorageInv, NEW r \in Requests, NEW item \in request[r].left, TruncateBackup(r, item)
  PROVE  StorageInv'
<1>1. TypeOK
  BY DEF StorageInv
<1>2. /\ request[r].op = "export" /\ request[r].at = "copy"
      /\ UNCHANGED <<folder, files, dirs, disk, lost>>
  BY DEF TruncateBackup, At
<1>4. /\ request' \in [Requests -> Request]
      /\ (\A s \in Requests : s # r => request'[s] = request[s])
      /\ request'[r].op = "none" /\ request'[r].at = "idle"
      /\ request'[r].folder = None /\ request'[r].object = None
      /\ request'[r].item = None /\ request'[r].rows = {}
      /\ request'[r].left = {} /\ request'[r].dirs = {}
      /\ request'[r].replaced = None /\ request'[r].gone = {}
  <2> DEFINE q == Idle
  <2>1. request' = [request EXCEPT ![r] = q]
    BY DEF TruncateBackup, Goes
  <2>2. q \in Request
    <3>1. Idle \in Request
      BY <1>1, RequestFields, IdleFields
    <3>2. QED BY <3>1 DEF Request, Operation
  <2>3. /\ q.op = "none" /\ q.at = "idle" /\ q.folder = None /\ q.object = None
        /\ q.item = None /\ q.rows = {} /\ q.left = {} /\ q.dirs = {}
        /\ q.replaced = None /\ q.gone = {}
    BY <1>1, RequestFields, IdleFields DEF Request
  <2> HIDE DEF q
  <2>4. QED BY <1>1, <2>1, <2>2, <2>3, OneRequest
<1>5. Sound(r)'
  BY <1>4 DEF Sound, Shape, Writes, Target, Deletes, Exports,
         Writers, Inserters
<1>6. Claims(r)
  BY <1>2, <1>4, NoneIsNothing DEF Claims, Writers
<1>7. Own(r) = {}
  BY <1>2 DEF Own
<1>9. /\ backup' \in [whole : BOOLEAN, items : SUBSET Row, dirs : SUBSET Dirs]
      /\ BackupIsOneTree'
  BY DEF TruncateBackup, NoBackup, BackupIsOneTree
<1>10. QED BY <1>2, <1>4, <1>5, <1>6, <1>7, <1>9, QuietSafe

\* A backup is whole when nothing is left to copy: what is in it was active after the
\* collections were listed
LEMMA FinishBackupSafe ==
  ASSUME StorageInv, NEW r \in Requests, FinishBackup(r)
  PROVE  StorageInv'
<1>1. TypeOK
  BY DEF StorageInv
<1>2. /\ request[r].op = "export" /\ request[r].at = "copy" /\ request[r].left = {}
      /\ UNCHANGED <<folder, files, dirs, disk, lost>>
  BY DEF FinishBackup, At
<1>4. /\ request' \in [Requests -> Request]
      /\ (\A s \in Requests : s # r => request'[s] = request[s])
      /\ request'[r].op = "none" /\ request'[r].at = "idle"
      /\ request'[r].folder = None /\ request'[r].object = None
      /\ request'[r].item = None /\ request'[r].rows = {}
      /\ request'[r].left = {} /\ request'[r].dirs = {}
      /\ request'[r].replaced = None /\ request'[r].gone = {}
  <2> DEFINE q == Idle
  <2>1. request' = [request EXCEPT ![r] = q]
    BY DEF FinishBackup, Goes
  <2>2. q \in Request
    <3>1. Idle \in Request
      BY <1>1, RequestFields, IdleFields
    <3>2. QED BY <3>1 DEF Request, Operation
  <2>3. /\ q.op = "none" /\ q.at = "idle" /\ q.folder = None /\ q.object = None
        /\ q.item = None /\ q.rows = {} /\ q.left = {} /\ q.dirs = {}
        /\ q.replaced = None /\ q.gone = {}
    BY <1>1, RequestFields, IdleFields DEF Request
  <2> HIDE DEF q
  <2>4. QED BY <1>1, <2>1, <2>2, <2>3, OneRequest
<1>5. Sound(r)'
  BY <1>4 DEF Sound, Shape, Writes, Target, Deletes, Exports,
         Writers, Inserters
<1>6. Claims(r)
  BY <1>2, <1>4, NoneIsNothing DEF Claims, Writers
<1>7. Own(r) = {}
  BY <1>2 DEF Own
<1>9. /\ backup' \in [whole : BOOLEAN, items : SUBSET Row, dirs : SUBSET Dirs]
      /\ BackupIsOneTree'
  <2>1. backup' = [whole |-> TRUE, items |-> request[r].rows, dirs |-> request[r].dirs]
    BY DEF FinishBackup
  <2>2. \A row \in request[r].rows : Parent[row[2].path] \in request[r].dirs \cup {None}
    BY <1>2 DEF StorageInv, Sound, Exports
  <2>3. QED BY <1>1, <2>1, <2>2, RequestFields DEF BackupIsOneTree
<1>10. QED BY <1>2, <1>4, <1>5, <1>6, <1>7, <1>9, QuietSafe

-----------------------------------------------------------------------------
(* Steps that touch the disk and no table.                                  *)

\* A request writes or removes objects that are its own, and keeps account of them
LEMMA DiskSafe ==
  ASSUME StorageInv, NEW r \in Requests, request' \in [Requests -> Request],
         \A s \in Requests : s # r => request'[s] = request[s],
         UNCHANGED <<folder, files, dirs, backup>>,
         disk' \in [Objects -> {None, Partial} \cup Objects],
         lost' \subseteq Objects, lost \subseteq lost',
         \A o \in Objects : \/ disk'[o] = disk[o]
                            \/ o \in Own(r) \/ Unused(o) \/ Removing(r, o),
         \A o \in Objects :
           disk'[o] # None /\ (disk[o] = None \/ o \in Own(r) \/ Removing(r, o))
             => o \in lost' \/ o \in Own(r)' \/ Removing(r, o)',
         Sound(r)', Claims(r)
  PROVE  StorageInv'
<1>1. TypeOK'
  BY DEF StorageInv, TypeOK
<1>2. Tables' /\ BackupIsOneTree'
  BY BackupSame DEF StorageInv, Tables, RowsAreMade, Made, ReplacedOnce, FilesAreInTheTree, Active
<1>3. \A o \in Objects : /\ o \in Own(r) \/ Unused(o) => files[o] = NoFile
                         /\ Removing(r, o) => files[o].status = "deleted"
  BY DEF StorageInv, Sound, Writes, Deletes, Own, Writers, Unused, Removing
<1>4. Spares(r)
  BY <1>3 DEF Spares, Kept, Made, Active
<1>5. Stored'
  <2>1. \A o \in Objects : Active(o) => disk'[o] = disk[o]
    BY <1>3 DEF Active, NoFile
  <2>2. QED BY <2>1 DEF StorageInv, Stored, Active
<1>6. Owned'
  <2>1. SUFFICES ASSUME NEW o \in Objects, disk'[o] # None, ~Active(o), o \notin lost'
                 PROVE  \E t \in Requests : o \in Own(t)' \/ Removing(t, o)'
    BY DEF Owned, Active
  <2>2. CASE disk[o] = None
    BY <2>1, <2>2
  <2>3. CASE disk[o] # None
    <3>1. PICK t \in Requests : o \in Own(t) \/ Removing(t, o)
      BY <2>1, <2>3 DEF StorageInv, Owned
    <3>2. CASE t = r
      BY <2>1, <3>1, <3>2
    <3>3. CASE t # r
      BY <3>1, <3>3 DEF Removing, Own, Uses
    <3>4. QED BY <3>2, <3>3
  <2>4. QED BY <2>2, <2>3
<1>7. QED BY <1>1, <1>2, <1>4, <1>5, <1>6, StepSafe

\* A request that is over relies on nothing
LEMMA IdleSound ==
  ASSUME NEW r \in Requests, request'[r] = Idle
  PROVE  Sound(r)' /\ Own(r)' = {} /\ \A o : ~Removing(r, o)'
<1>1. Own(r)' = {} /\ \A o : ~Removing(r, o)'
  BY IdleFields DEF Own, Removing
<1>2. QED
  BY <1>1, IdleFields DEF Sound, Shape, Writes, Target, Deletes, Exports, Writers, Inserters

\* A request that is over claims nothing
LEMMA IdleClaims ==
  ASSUME NEW r \in Requests, request'[r] = Idle
  PROVE  Claims(r)
BY IdleFields DEF Claims, Writers

\* What is left to be done after a transaction: to remove what it took away
LEMMA RemoveFields ==
  ASSUME TypeOK, NEW r \in Requests, NEW objects, objects \subseteq Objects,
         request[r].op \notin {"none", "export"},
         request' = [request EXCEPT ![r] =
           IF objects = {} THEN Idle
           ELSE [Idle EXCEPT !.op = request[r].op, !.at = "remove", !.gone = objects]],
         \A o \in objects : files'[o].status = "deleted"
  PROVE  /\ request' \in [Requests -> Request]
         /\ \A s \in Requests : s # r => request'[s] = request[s]
         /\ Sound(r)' /\ Claims(r) /\ Own(r)' = {}
         /\ \A o : o \in objects => Removing(r, o)'
<1>1. CASE objects = {}
  <2>1. request' = [request EXCEPT ![r] = Idle]
    BY <1>1
  <2>2. QED BY <1>1, <2>1, IdleFields, OneRequest, IdleSound, IdleClaims
<1>2. CASE objects # {}
  <2>1. /\ request' \in [Requests -> Request]
        /\ (\A s \in Requests : s # r => request'[s] = request[s])
        /\ request'[r].op = request[r].op /\ request'[r].at = "remove"
        /\ request'[r].folder = None /\ request'[r].object = None
        /\ request'[r].item = None /\ request'[r].rows = {}
        /\ request'[r].left = {} /\ request'[r].dirs = {}
        /\ request'[r].replaced = None /\ request'[r].gone = objects
    <3> DEFINE q == [Idle EXCEPT !.op = request[r].op, !.at = "remove",
                                 !.gone = objects]
    <3>1. request' = [request EXCEPT ![r] = q]
      BY <1>2
    <3>2. q \in Request
      <4>1. /\ Idle \in Request /\ request[r].op \in Operation \cup {"none"}
        BY RequestFields, IdleFields
      <4>2. QED BY <4>1 DEF Request, Operation
    <3>3. /\ q.op = request[r].op /\ q.at = "remove" /\ q.folder = None
          /\ q.object = None /\ q.item = None /\ q.rows = {} /\ q.left = {}
          /\ q.dirs = {} /\ q.replaced = None /\ q.gone = objects
      BY RequestFields, IdleFields DEF Request
    <3> HIDE DEF q
    <3>4. QED BY <3>1, <3>2, <3>3, OneRequest
  <2>2. Uses(r)' = {} /\ Own(r)' = {}
    BY <2>1 DEF Uses, Own
  <2>3. Sound(r)'
    BY <2>1, <2>2 DEF Sound, Shape, Writes, Target, Deletes, Exports,
         Writers, Inserters
  <2>4. Claims(r)
    BY <2>1, <2>2 DEF Claims
  <2>5. QED BY <2>1, <2>2, <2>3, <2>4 DEF Removing
<1>3. QED BY <1>1, <1>2

\* An upload or a PUT begins its data file
LEMMA StartWritingSafe ==
  ASSUME StorageInv, NEW r \in Requests, NEW op \in {"upload", "put"}, NEW f \in Folders,
         NEW p \in Paths, NEW o \in Objects, StartWriting(r, op, f, p, o)
  PROVE  StorageInv'
<1>1. TypeOK
  BY DEF StorageInv
<1> DEFINE item == [path |-> p, copy |-> FALSE, content |-> o]
<1>2. /\ request[r] = Idle /\ UNCHANGED <<folder, files, dirs, backup, lost>>
      /\ folder[f] = "active" /\ Unused(o) /\ disk' = [disk EXCEPT ![o] = Partial]
      /\ request' = [request EXCEPT ![r] = [Idle EXCEPT !.op = op, !.at = "write",
                       !.folder = f, !.object = o, !.item = item]]
  BY DEF StartWriting, Starts, IsIdle, Goes
<1>3. item \in Item
  BY DEF Item
<1> HIDE DEF item
<1>4. /\ request' \in [Requests -> Request]
      /\ (\A s \in Requests : s # r => request'[s] = request[s])
      /\ request'[r].op = op /\ request'[r].at = "write"
      /\ request'[r].folder = f /\ request'[r].object = o
      /\ request'[r].item = item /\ request'[r].rows = {}
      /\ request'[r].left = {} /\ request'[r].dirs = {}
      /\ request'[r].replaced = None /\ request'[r].gone = {}
  <2> DEFINE q == [Idle EXCEPT !.op = op, !.at = "write", !.folder = f,
                               !.object = o, !.item = item]
  <2>1. request' = [request EXCEPT ![r] = q]
    BY <1>2
  <2>2. q \in Request
    <3>1. /\ Idle \in Request /\ op \in Operation /\ f \in Folders
          /\ o \in Objects /\ item \in Item
      BY <1>1, RequestFields, IdleFields, <1>3 DEF Operation
    <3>2. QED BY <3>1 DEF Request, Operation
  <2>3. /\ q.op = op /\ q.at = "write" /\ q.folder = f /\ q.object = o
        /\ q.item = item /\ q.rows = {} /\ q.left = {} /\ q.dirs = {}
        /\ q.replaced = None /\ q.gone = {}
    BY <1>1, RequestFields, IdleFields DEF Request
  <2> HIDE DEF q
  <2>4. QED BY <1>1, <2>1, <2>2, <2>3, OneRequest
<1>5. Own(r) = {} /\ Uses(r)' = {o} /\ Own(r)' = {o} /\ \A x : ~Removing(r, x)
  BY <1>2, <1>4, NoneIsNothing, IdleOwns, IdleFields DEF Uses, Own, Removing
<1>6. /\ disk' \in [Objects -> {None, Partial} \cup Objects]
      /\ \A x \in Objects : x # o => disk'[x] = disk[x]
  BY <1>1, <1>2 DEF TypeOK
<1>7. Sound(r)'
  BY <1>2, <1>3, <1>4, <1>5 DEF Sound, Shape, Writes, Target, Deletes, Exports,
         Writers, Inserters, Unused
<1>8. Claims(r)
  <2>1. \A s \in Requests : request[s].op = "import" => request[s].folder # f
    BY <1>2, NoneIsNothing DEF StorageInv, Sound, Target
  <2>2. QED BY <1>2, <1>4, <1>5, <2>1 DEF Claims
<1>9. QED BY <1>1, <1>2, <1>4, <1>5, <1>6, <1>7, <1>8, DiskSafe DEF TypeOK

\* writeUploadToStorage is done
LEMMA WriteSafe ==
  ASSUME StorageInv, NEW r \in Requests, Write(r)
  PROVE  StorageInv'
<1>1. TypeOK
  BY DEF StorageInv
<1> DEFINE o == request[r].object
           item == request[r].item
           next == IF request[r].op = "put" THEN "lookup" ELSE "commit"
<1>2. /\ request[r].at = "write" /\ UNCHANGED <<folder, files, dirs, backup, lost>>
      /\ disk' = [disk EXCEPT ![o] = item.content]
      /\ request' = [request EXCEPT ![r] = [request[r] EXCEPT !.at = next,
                       !.rows = request[r].rows \cup {<<o, item>>}, !.object = None, !.item = None]]
  BY DEF Write, Goes
<1>3. /\ request[r].op \in Writers /\ o \in Objects /\ item \in Item /\ <<o, item>> \in Row
      /\ item.content \in Objects /\ request[r].folder \in Folders
      /\ \A row \in request[r].rows : row[1] # o
      /\ request[r].op # "import" => request[r].rows = {}
  BY <1>2 DEF StorageInv, Sound, Shape, Writes, Writers, Row, Item
<1>4. next \in {"lookup", "commit"} /\ (next = "lookup" => request[r].op = "put")
  OBVIOUS
<1>5. o # None
  BY <1>3, NoneIsNothing
<1> DEFINE rows == request[r].rows \cup {<<o, item>>}
<1>6. rows \subseteq Row
  BY <1>1, <1>3, RequestFields
<1> HIDE DEF next, rows
<1>7. /\ request' \in [Requests -> Request]
      /\ (\A s \in Requests : s # r => request'[s] = request[s])
      /\ request'[r].op = request[r].op /\ request'[r].at = next
      /\ request'[r].folder = request[r].folder /\ request'[r].object = None
      /\ request'[r].item = None /\ request'[r].rows = rows
      /\ request'[r].left = request[r].left /\ request'[r].dirs = request[r].dirs
      /\ request'[r].replaced = request[r].replaced
      /\ request'[r].gone = request[r].gone
  <2> DEFINE q == [request[r] EXCEPT !.at = next, !.rows = rows, !.object = None,
                                     !.item = None]
  <2>1. request' = [request EXCEPT ![r] = q]
    BY <1>2 DEF rows
  <2>2. q \in Request
    <3>1. /\ request[r] \in Request /\ next \in {"lookup", "commit"}
          /\ rows \subseteq Row
      BY <1>1, RequestFields, IdleFields, <1>4, <1>6
    <3>2. QED BY <3>1 DEF Request, Operation
  <2>3. /\ q.op = request[r].op /\ q.at = next /\ q.folder = request[r].folder
        /\ q.object = None /\ q.item = None /\ q.rows = rows
        /\ q.left = request[r].left /\ q.dirs = request[r].dirs
        /\ q.replaced = request[r].replaced /\ q.gone = request[r].gone
    BY <1>1, RequestFields, IdleFields DEF Request
  <2> HIDE DEF q
  <2>4. QED BY <1>1, <2>1, <2>2, <2>3, OneRequest
<1>8. Uses(r)' = Uses(r) /\ Own(r)' = Own(r) /\ o \in Own(r) /\ Own(r) = Uses(r)
  <2>1. Uses(r)' = {row[1] : row \in rows}
    BY <1>7 DEF Uses
  <2>2. Uses(r) = {row[1] : row \in request[r].rows} \cup {o}
    BY <1>5 DEF Uses
  <2>3. Uses(r)' = Uses(r)
    <3>1. <<o, item>>[1] = o
      OBVIOUS
    <3>2. \A x : x \in Uses(r)' <=> x \in Uses(r)
      BY <2>1, <2>2, <3>1 DEF rows
    <3>3. QED BY <3>2
  <2>4. QED BY <1>3, <1>7, <2>2, <2>3 DEF Own, Writers
<1>9. /\ disk' \in [Objects -> {None, Partial} \cup Objects] /\ disk'[o] = item.content
      /\ \A x \in Objects : x # o => disk'[x] = disk[x]
  BY <1>1, <1>2, <1>3 DEF TypeOK
<1>10. Sound(r)'
  <2>1. Shape(r)'
    <3>1. request[r].op # "import" => rows = {<<o, item>>}
      BY <1>3 DEF rows
    <3>2. QED BY <1>2, <1>3, <1>4, <1>7, <3>1 DEF StorageInv, Sound, Shape, Writers, Inserters
  <2>2. Writes(r)'
    <3>1. \A x \in Uses(r)' : files'[x] = NoFile
      BY <1>2, <1>3, <1>8 DEF StorageInv, Sound, Writes
    <3>2. ASSUME NEW row \in rows
          PROVE  disk'[row[1]] = row[2].content /\ row[1] # None
      <4>1. CASE row = <<o, item>>
        BY <1>5, <1>9, <4>1
      <4>2. CASE row \in request[r].rows
        <5>1. row[1] \in Objects /\ row[1] # o /\ disk[row[1]] = row[2].content
          BY <1>1, <1>3, <4>2, RequestFields DEF StorageInv, Sound, Writes, Row
        <5>2. QED BY <1>9, <5>1, NoneIsNothing
      <4>3. QED BY <4>1, <4>2 DEF rows
    <3>3. \A a, b \in rows : a[1] = b[1] => a = b
      BY <1>3 DEF StorageInv, Sound, Writes, rows
    <3>4. QED BY <1>7, <3>1, <3>2, <3>3 DEF Writes
  <2>3. Target(r)'
    BY <1>2, <1>7 DEF StorageInv, Sound, Target
  <2>4. Deletes(r)' /\ Exports(r)'
    BY <1>3, <1>4, <1>7 DEF Deletes, Exports, Writers
  <2>5. QED BY <2>1, <2>2, <2>3, <2>4 DEF Sound
<1>11. Claims(r)
  BY <1>7, <1>8 DEF Claims
<1>12. \A x \in Objects : ~Removing(r, x)
  BY <1>2 DEF Removing
<1>13. lost' = lost /\ lost' \subseteq Objects
  BY <1>1, <1>2 DEF TypeOK
<1>14. \A x \in Objects : disk'[x] = disk[x] \/ x \in Own(r)
  BY <1>8, <1>9
<1>15. QED BY <1>2, <1>7, <1>8, <1>9, <1>10, <1>11, <1>12, <1>13, <1>14, DiskSafe

\* An import begins the data file of the next line of its manifest
LEMMA ImportFileSafe ==
  ASSUME StorageInv, NEW r \in Requests, NEW o \in Objects, NEW item \in request[r].left,
         ImportFile(r, o, item)
  PROVE  StorageInv'
<1>1. TypeOK
  BY DEF StorageInv
<1>2. /\ request[r].op = "import" /\ request[r].at = "commit"
      /\ UNCHANGED <<folder, files, dirs, backup, lost>>
      /\ Unused(o) /\ disk' = [disk EXCEPT ![o] = Partial]
  BY DEF ImportFile, At
<1>3. /\ item[2] \in Item /\ request[r].object = None /\ request[r].folder \in Folders
      /\ \A row \in request[r].rows : row[1] # o /\ row[1] \in Objects
  <2>1. item \in Row
    BY <1>1, RequestFields
  <2>2. request[r].object = None /\ request[r].folder \in Folders
    BY <1>2 DEF StorageInv, Sound, Shape
  <2>3. \A row \in request[r].rows : row[1] # o /\ row[1] \in Objects
    BY <1>1, <1>2, RequestFields DEF Unused, Uses, Row
  <2>4. QED BY <2>1, <2>2, <2>3 DEF Row
<1>4. /\ request' \in [Requests -> Request]
      /\ (\A s \in Requests : s # r => request'[s] = request[s])
      /\ request'[r].op = request[r].op /\ request'[r].at = "write"
      /\ request'[r].folder = request[r].folder /\ request'[r].object = o
      /\ request'[r].item = item[2] /\ request'[r].rows = request[r].rows
      /\ request'[r].left = request[r].left \ {item}
      /\ request'[r].dirs = request[r].dirs
      /\ request'[r].replaced = request[r].replaced
      /\ request'[r].gone = request[r].gone
  <2> DEFINE q == [request[r] EXCEPT !.at = "write", !.object = o,
                                     !.item = item[2],
                                     !.left = request[r].left \ {item}]
  <2>1. request' = [request EXCEPT ![r] = q]
    BY DEF ImportFile, Goes
  <2>2. q \in Request
    <3>1. /\ request[r] \in Request /\ item[2] \in Item
          /\ request[r].left \ {item} \subseteq Row
      BY <1>1, RequestFields, IdleFields, <1>3
    <3>2. QED BY <3>1 DEF Request, Operation
  <2>3. /\ q.op = request[r].op /\ q.at = "write" /\ q.folder = request[r].folder
        /\ q.object = o /\ q.item = item[2] /\ q.rows = request[r].rows
        /\ q.left = request[r].left \ {item} /\ q.dirs = request[r].dirs
        /\ q.replaced = request[r].replaced /\ q.gone = request[r].gone
    BY <1>1, RequestFields, IdleFields DEF Request
  <2> HIDE DEF q
  <2>4. QED BY <1>1, <2>1, <2>2, <2>3, OneRequest
<1>5. /\ Uses(r)' = Uses(r) \cup {o} /\ Own(r) = Uses(r) /\ Own(r)' = Uses(r) \cup {o}
      /\ \A x : ~Removing(r, x)
  BY <1>2, <1>3, <1>4, NoneIsNothing DEF Uses, Own, Removing
<1>6. /\ disk' \in [Objects -> {None, Partial} \cup Objects]
      /\ \A x \in Objects : x # o => disk'[x] = disk[x]
  BY <1>1, <1>2 DEF TypeOK
<1>7. Sound(r)'
  <2>1. Shape(r)'
    BY <1>2, <1>3, <1>4 DEF StorageInv, Sound, Shape, Writers, Inserters
  <2>2. Writes(r)'
    <3>1. \A x \in Uses(r)' : files'[x] = NoFile
      BY <1>2, <1>5 DEF StorageInv, Sound, Writes, Writers, Unused
    <3>2. \A row \in request[r].rows : disk'[row[1]] = row[2].content
      BY <1>2, <1>3, <1>6 DEF StorageInv, Sound, Writes, Writers
    <3>3. \A a, b \in request[r].rows : a[1] = b[1] => a = b
      BY <1>2 DEF StorageInv, Sound, Writes, Writers
    <3>4. QED BY <1>3, <1>4, <3>1, <3>2, <3>3 DEF Writes
  <2>3. Target(r)'
    BY <1>2, <1>4 DEF StorageInv, Sound, Target
  <2>4. Deletes(r)' /\ Exports(r)'
    BY <1>2, <1>4 DEF Deletes, Exports
  <2>5. QED BY <2>1, <2>2, <2>3, <2>4 DEF Sound
<1>8. Claims(r)
  BY <1>2, <1>4, <1>5 DEF Claims
<1>9. QED BY <1>1, <1>2, <1>4, <1>5, <1>6, <1>7, <1>8, DiskSafe DEF TypeOK

\* removeStorageObjects removes an object, or leaves it for good
LEMMA RemoveSafe ==
  ASSUME StorageInv, NEW r \in Requests, NEW o \in Objects, Remove(r, o)
  PROVE  StorageInv'
<1>1. TypeOK
  BY DEF StorageInv
<1>2. /\ request[r].at = "remove" /\ o \in request[r].gone
      /\ UNCHANGED <<folder, files, dirs, backup>>
      /\ \/ disk' = [disk EXCEPT ![o] = None] /\ UNCHANGED lost
         \/ lost' = lost \cup {o} /\ UNCHANGED disk
  BY DEF Remove
<1> DEFINE objects == request[r].gone \ {o}
<1>3. /\ request' = [request EXCEPT ![r] =
           IF objects = {} THEN Idle
           ELSE [Idle EXCEPT !.op = request[r].op, !.at = "remove", !.gone = objects]]
      /\ objects \subseteq Objects /\ request[r].op \notin {"none", "export"}
      /\ \A x \in objects : files'[x].status = "deleted"
  <2>1. request[r].gone \subseteq Objects
    BY <1>1, RequestFields
  <2>2. /\ request' = [request EXCEPT ![r] =
             IF objects = {} THEN Idle
             ELSE [Idle EXCEPT !.op = request[r].op, !.at = "remove", !.gone = objects]]
        /\ UNCHANGED files
    BY DEF Remove, ThenRemove, Goes
  <2>3. /\ \A x \in request[r].gone : files[x].status = "deleted"
        /\ request[r].op \notin {"none", "export"}
    BY <1>2 DEF StorageInv, Sound, Shape, Deletes
  <2>4. QED BY <2>1, <2>2, <2>3
<1>4. Own(r) = {}
  BY <1>2 DEF StorageInv, Sound, Shape, Own, Uses
<1>5. /\ disk' \in [Objects -> {None, Partial} \cup Objects]
      /\ lost' \subseteq Objects /\ lost \subseteq lost'
      /\ \A x \in Objects : x # o => disk'[x] = disk[x]
      /\ disk'[o] = None \/ o \in lost'
      /\ \A x \in Objects : Removing(r, x) /\ x # o => x \in objects
      /\ Removing(r, o) /\ \A x \in Objects : disk'[x] # None => disk[x] # None
  BY <1>1, <1>2 DEF TypeOK, Removing
<1> HIDE DEF objects
<1>6. /\ request' \in [Requests -> Request]
      /\ \A s \in Requests : s # r => request'[s] = request[s]
      /\ Sound(r)' /\ Claims(r) /\ Own(r)' = {}
      /\ \A x : x \in objects => Removing(r, x)'
  BY <1>1, <1>3, RemoveFields
<1>7. QED BY <1>2, <1>4, <1>5, <1>6, DiskSafe

\* The deferred cleanup of a request that failed before its commit
LEMMA FailSafe ==
  ASSUME StorageInv, NEW r \in Requests, Fail(r)
  PROVE  StorageInv'
<1>1. TypeOK
  BY DEF StorageInv
<1>2. /\ request[r].at # "remove" /\ UNCHANGED <<folder, files, dirs, backup>>
      /\ request' = [request EXCEPT ![r] = Idle]
  BY DEF Fail, Goes
<1>3. PICK kept \in SUBSET Own(r) :
        /\ disk' = [o \in Objects |-> IF o \in Own(r) \ kept THEN None ELSE disk[o]]
        /\ lost' = lost \cup kept \cup {}
  BY DEF Fail, Cleaned
<1>4. Own(r) \subseteq Objects
  BY <1>1, RequestFields DEF Own, Uses, Row
<1>5. /\ disk' \in [Objects -> {None, Partial} \cup Objects]
      /\ lost' \subseteq Objects /\ lost \subseteq lost'
      /\ \A o \in Objects : o \notin Own(r) => disk'[o] = disk[o]
      /\ \A o \in Own(r) : disk'[o] = None \/ o \in lost'
  BY <1>1, <1>3, <1>4 DEF TypeOK
<1>6. \A o \in Objects : ~Removing(r, o)
  BY <1>2 DEF Removing
<1>7. /\ request' \in [Requests -> Request] /\ request'[r] = Idle
      /\ \A s \in Requests : s # r => request'[s] = request[s]
  BY <1>1, <1>2, IdleFields, OneRequest
<1>8. Sound(r)' /\ Claims(r)
  BY <1>7, IdleSound, IdleClaims
<1>9. QED BY <1>2, <1>5, <1>6, <1>7, <1>8, DiskSafe

-----------------------------------------------------------------------------
(* Transactions.                                                            *)

\* A transaction of one request: files it takes away are to be removed or left for
\* good, and its own objects are active files, removed or left for good
LEMMA TransactionSafe ==
  ASSUME StorageInv, NEW r \in Requests, request' \in [Requests -> Request],
         \A s \in Requests : s # r => request'[s] = request[s],
         request[r].at # "remove", Own(r)' = {}, Sound(r)', Claims(r), UNCHANGED backup,
         folder' \in [Folders -> {"none", "active", "deleted"}],
         files' \in [Objects -> File], dirs' \subseteq Folders \X Dirs,
         disk' \in [Objects -> {None, Partial} \cup Objects],
         lost' \subseteq Objects, lost \subseteq lost',
         Tables', Stored', Spares(r),
         \A o \in Objects : o \notin Own(r) => disk'[o] = disk[o],
         \A o \in Objects : o \in Own(r) => Active(o)' \/ o \in lost' \/ disk'[o] = None,
         \A o \in Objects : Active(o) /\ ~Active(o)' => o \in lost' \/ Removing(r, o)'
  PROVE  StorageInv'
<1>1. TypeOK' /\ BackupIsOneTree'
  BY BackupSame DEF StorageInv, TypeOK
<1>2. Owned'
  <2>1. SUFFICES ASSUME NEW o \in Objects, disk'[o] # None, ~Active(o)', o \notin lost'
                 PROVE  \E t \in Requests : o \in Own(t)' \/ Removing(t, o)'
    BY DEF Owned
  <2>2. CASE Active(o)
    BY <2>1, <2>2
  <2>3. CASE ~Active(o)
    <3>1. o \notin Own(r) /\ disk[o] # None /\ o \notin lost
      BY <2>1
    <3>2. PICK t \in Requests : o \in Own(t) \/ Removing(t, o)
      BY <2>3, <3>1 DEF StorageInv, Owned
    <3>3. t # r
      BY <3>1, <3>2 DEF Removing
    <3>4. QED BY <3>2, <3>3 DEF Removing, Own, Uses
  <2>4. QED BY <2>2, <2>3
<1>3. QED BY <1>1, <1>2, StepSafe

\* A row whose file is deleted
LEMMA DeletedRow ==
  ASSUME NEW x \in File
  PROVE  LET y == [x EXCEPT !.status = "deleted", !.entry = FALSE] IN
         /\ y \in File /\ y.status = "deleted" /\ y.entry = FALSE /\ y.folder = x.folder
         /\ y.path = x.path /\ y.content = x.content /\ y.replaces = x.replaces
BY DEF File

\* The objects whose rows a transaction inserts
New(r) == {row[1] : row \in request[r].rows}

\* What an inserting transaction does to the tables
LEMMA InsertedFacts ==
  ASSUME StorageInv, NEW r \in Requests, Inserting(r)
  PROVE  /\ request[r].folder \in Folders /\ request[r].at = "commit"
         /\ New(r) \subseteq Objects /\ Own(r) = New(r)
         /\ \A o \in New(r) :
              /\ files[o] = NoFile
              /\ files'[o].status = "active" /\ files'[o].folder = request[r].folder
              /\ files'[o].path \in Paths /\ files'[o].content \in Objects
              /\ files'[o].content = disk[o] /\ files'[o].replaces = request[r].replaced
              /\ files'[o].entry = TRUE
              /\ Parent[files'[o].path] # None =>
                   <<request[r].folder, Parent[files'[o].path]>> \in dirs'
         /\ request[r].replaced # None =>
              /\ request[r].replaced \in Objects /\ Active(request[r].replaced)
              /\ request[r].replaced \notin New(r)
              /\ files'[request[r].replaced] =
                   [files[request[r].replaced] EXCEPT !.status = "deleted", !.entry = FALSE]
              /\ \A a, b \in New(r) : a = b
         /\ \A o \in Objects : o \notin New(r) /\ o # request[r].replaced => files'[o] = files[o]
         /\ files' \in [Objects -> File]
         /\ dirs \subseteq dirs' /\ dirs' \subseteq Folders \X Dirs
         /\ folder' \in [Folders -> {"none", "active", "deleted"}]
         /\ folder' = IF request[r].op = "import"
                      THEN [folder EXCEPT ![request[r].folder] = "active"] ELSE folder
<1> DEFINE new == New(r)
           rows == request[r].rows
           f == request[r].folder
           old == request[r].replaced
           line(o) == CHOOSE row \in rows : row[1] = o
           item(o) == line(o)[2]
           file(o) == [status |-> "active", folder |-> f, path |-> item(o).path,
                       copy |-> item(o).copy, content |-> item(o).content,
                       replaces |-> old, entry |-> TRUE]
<1>0. new = {row[1] : row \in request[r].rows}
  BY DEF New
<1>1. TypeOK
  BY DEF StorageInv
<1>2. /\ request[r].op \in Inserters /\ request[r].at = "commit" /\ ~Locked(f)
      /\ CanReplace(old)
      /\ folder' = IF request[r].op = "import" THEN [folder EXCEPT ![f] = "active"] ELSE folder
      /\ files' = [o \in Objects |->
           IF o \in new THEN file(o)
           ELSE IF o = old THEN [files[o] EXCEPT !.status = "deleted", !.entry = FALSE]
           ELSE files[o]]
      /\ dirs' = dirs \cup {<<f, d>> : d \in request[r].dirs
                                \cup ({Parent[item(o).path] : o \in new} \ {None})}
  BY <1>0 DEF Inserting, Inserted, Inserters, Writers
<1>3. f \in Folders /\ request[r].object = None
  BY <1>2 DEF StorageInv, Sound, Shape
<1>4. Own(r) = new /\ new \subseteq Objects
  <2>1. rows \subseteq Row
    BY <1>1, RequestFields
  <2>2. Uses(r) = new
    BY <1>0, <1>3 DEF Uses
  <2>3. request[r].op = "mkcol" => new = {}
    BY <1>0 DEF StorageInv, Sound, Shape
  <2>4. QED BY <1>0, <1>2, <2>1, <2>2, <2>3 DEF Own, Inserters, Writers, Row
<1>5. ASSUME NEW o \in new
      PROVE  /\ files[o] = NoFile /\ item(o) \in Item /\ disk[o] = item(o).content
             /\ item(o).path \in Paths /\ item(o).content \in Objects /\ item(o).copy \in BOOLEAN
  <2>1. line(o) \in rows /\ line(o)[1] = o
    BY <1>0
  <2>2. line(o) \in Row
    BY <1>1, <2>1, RequestFields
  <2> HIDE DEF line
  <2>3. item(o) \in Item
    BY <2>2 DEF Row
  <2>4. request[r].op \in Writers /\ o \in Uses(r)
    BY <1>4 DEF Own, Writers
  <2>5. files[o] = NoFile /\ disk[o] = item(o).content
    BY <2>1, <2>4 DEF StorageInv, Sound, Writes
  <2> HIDE DEF item
  <2>6. item(o).path \in Paths /\ item(o).content \in Objects /\ item(o).copy \in BOOLEAN
    BY <2>3 DEF Item
  <2>7. QED BY <2>3, <2>5, <2>6
<1>6. old \in Objects \cup {None}
  BY <1>1, RequestFields
<1>7. old # None => /\ old \in Objects /\ Active(old) /\ old \notin new
                    /\ \A a, b \in new : a = b
  <2>1. SUFFICES ASSUME old # None
                 PROVE  old \in Objects /\ Active(old) /\ old \notin new /\ \A a, b \in new : a = b
    OBVIOUS
  <2>2. old \in Objects /\ Active(old)
    BY <1>2, <1>6, <2>1 DEF CanReplace
  <2>3. old \notin new
    <3>1. files[old] # NoFile
      BY <2>2 DEF Active, NoFile
    <3>2. QED BY <1>5, <3>1
  <2>4. \A a, b \in rows : a = b
    BY <1>2, <2>1 DEF StorageInv, Sound, Shape
  <2>5. QED BY <1>0, <2>2, <2>3, <2>4
<1> HIDE DEF item
<1>8. \A o \in new :
        /\ file(o) \in File /\ file(o).status = "active" /\ file(o).folder = f
        /\ file(o).path = item(o).path /\ file(o).content = item(o).content
        /\ file(o).replaces = old /\ file(o).entry = TRUE
  BY <1>3, <1>5, <1>6 DEF File
<1> HIDE DEF file
<1>9. /\ \A o \in new : files'[o] = file(o)
      /\ \A o \in Objects : o \notin new /\ o # old => files'[o] = files[o]
      /\ old # None => files'[old] = [files[old] EXCEPT !.status = "deleted", !.entry = FALSE]
  BY <1>2, <1>4, <1>7
<1>10. files' \in [Objects -> File]
  <2>2. \A o \in Objects : files[o] \in File
    BY <1>1 DEF TypeOK
  <2>1. old # None => [files[old] EXCEPT !.status = "deleted", !.entry = FALSE] \in File
    BY <1>7, <2>2, DeletedRow
  <2>3. \A o \in Objects : files'[o] \in File
    BY <1>8, <1>9, <2>1, <2>2, NoneIsNothing
  <2>4. QED BY <1>2, <2>3
<1>11. /\ dirs \subseteq dirs' /\ dirs' \subseteq Folders \X Dirs
       /\ \A o \in new : Parent[item(o).path] # None => <<f, Parent[item(o).path]>> \in dirs'
  <2>1. \A o \in new : Parent[item(o).path] \in Dirs \cup {None}
    BY <1>5, StorageAssumption
  <2> DEFINE parents == {Parent[item(o).path] : o \in new} \ {None}
             ds == request[r].dirs \cup parents
             made == {<<f, d>> : d \in ds}
  <2>2. request[r].dirs \subseteq Dirs /\ dirs \subseteq Folders \X Dirs
    BY <1>1, RequestFields DEF TypeOK
  <2>3. ds \subseteq Dirs
    BY <2>1, <2>2
  <2>4. \A o \in new : Parent[item(o).path] # None => Parent[item(o).path] \in ds
    OBVIOUS
  <2>5. dirs' = dirs \cup made
    BY <1>2
  <2> HIDE DEF ds, parents
  <2>6. made \subseteq Folders \X Dirs /\ \A d \in ds : <<f, d>> \in made
    BY <1>3, <2>3
  <2> HIDE DEF made
  <2>7. QED BY <2>2, <2>4, <2>5, <2>6
<1>12. folder' \in [Folders -> {"none", "active", "deleted"}]
  BY <1>1, <1>2, <1>3 DEF TypeOK
<1>13. \A o \in new :
         /\ files[o] = NoFile
         /\ files'[o].status = "active" /\ files'[o].folder = f
         /\ files'[o].path \in Paths /\ files'[o].content \in Objects
         /\ files'[o].content = disk[o] /\ files'[o].replaces = old
         /\ files'[o].entry = TRUE
         /\ Parent[files'[o].path] # None => <<f, Parent[files'[o].path]>> \in dirs'
  BY <1>5, <1>8, <1>9, <1>11
<1>14. QED BY <1>2, <1>3, <1>4, <1>7, <1>9, <1>10, <1>11, <1>12, <1>13

\* What it does to a row that it inserts
LEMMA InsertedRow ==
  ASSUME StorageInv, NEW r \in Requests, Inserting(r), NEW o \in New(r)
  PROVE  /\ o \in Objects /\ files[o] = NoFile /\ files'[o].status = "active"
         /\ files'[o].folder = request[r].folder /\ request[r].folder \in Folders
         /\ files'[o].replaces = request[r].replaced
<1>1. request[r].folder \in Folders /\ New(r) \subseteq Objects
  BY InsertedFacts
<1>2. \A p \in New(r) :
         /\ files[p] = NoFile
         /\ files'[p].status = "active" /\ files'[p].folder = request[r].folder
         /\ files'[p].path \in Paths /\ files'[p].content \in Objects
         /\ files'[p].content = disk[p] /\ files'[p].replaces = request[r].replaced
         /\ files'[p].entry = TRUE
         /\ Parent[files'[p].path] # None =>
              <<request[r].folder, Parent[files'[p].path]>> \in dirs'
  BY Zenon, InsertedFacts
<1>3. QED BY <1>1, <1>2

\* It replaces at most one row and leaves the others alone
LEMMA InsertedElse ==
  ASSUME StorageInv, NEW r \in Requests, Inserting(r), NEW o \in Objects, o \notin New(r),
         o # request[r].replaced
  PROVE  files'[o] = files[o]
BY InsertedFacts

\* An inserting transaction keeps the tables consistent and spares the other requests
LEMMA InsertedTables ==
  ASSUME StorageInv, NEW r \in Requests, Inserting(r)
  PROVE  /\ request[r].at = "commit" /\ request[r].op \in Inserters
         /\ files' \in [Objects -> File] /\ dirs' \subseteq Folders \X Dirs
         /\ folder' \in [Folders -> {"none", "active", "deleted"}]
         /\ Tables' /\ Kept
         /\ \A o \in Objects : files[o] = NoFile /\ o \notin Own(r) => files'[o] = NoFile
         /\ \A g \in Folders : \/ folder'[g] = "none" <=> folder[g] = "none"
                               \/ request[r].op = "import" /\ request[r].folder = g
         /\ \A o \in Objects : Active(o)' => Active(o) \/ ~Locked(files'[o].folder)
         /\ \A o \in Objects : o \in Own(r) => Active(o)'
         /\ \A o \in Objects : Active(o) /\ ~Active(o)' => o = request[r].replaced
         /\ request[r].replaced # None =>
              /\ request[r].replaced \in Objects
              /\ files'[request[r].replaced].status = "deleted"
         /\ \A o \in Objects : Active(o)' =>
              \/ files'[o].content = disk[o]
              \/ Active(o) /\ files'[o].content = files[o].content
<1> DEFINE new == New(r)
           f == request[r].folder
           old == request[r].replaced
<1>1. /\ TypeOK /\ RowsAreMade /\ ReplacedOnce /\ FilesAreInTheTree
      /\ request[r].op \in Inserters /\ ~Locked(f)
  BY DEF StorageInv, Tables, Inserting, Inserters, Writers
<1>2. /\ f \in Folders /\ request[r].at = "commit" /\ new \subseteq Objects /\ Own(r) = new
      /\ \A o \in Objects : o \notin new /\ o # old => files'[o] = files[o]
      /\ files' \in [Objects -> File]
      /\ dirs \subseteq dirs' /\ dirs' \subseteq Folders \X Dirs
      /\ folder' \in [Folders -> {"none", "active", "deleted"}]
      /\ folder' = IF request[r].op = "import" THEN [folder EXCEPT ![f] = "active"] ELSE folder
  BY InsertedFacts
<1>21. \A o \in new :
        /\ o \in Objects /\ files[o] = NoFile
        /\ files'[o].status = "active" /\ files'[o].folder = f
        /\ files'[o].path \in Paths /\ files'[o].content \in Objects
        /\ files'[o].content = disk[o] /\ files'[o].replaces = old
        /\ files'[o].entry = TRUE
        /\ Parent[files'[o].path] # None => <<f, Parent[files'[o].path]>> \in dirs'
  <2>1. \A o \in new :
          /\ files[o] = NoFile
          /\ files'[o].status = "active" /\ files'[o].folder = f
          /\ files'[o].path \in Paths /\ files'[o].content \in Objects
          /\ files'[o].content = disk[o] /\ files'[o].replaces = old
          /\ files'[o].entry = TRUE
          /\ Parent[files'[o].path] # None =>
               <<f, Parent[files'[o].path]>> \in dirs'
    BY Zenon, InsertedFacts
  <2>2. QED BY <1>2, <2>1
<1>22. old # None =>
        /\ old \in Objects /\ Active(old) /\ old \notin new
        /\ files'[old] = [files[old] EXCEPT !.status = "deleted", !.entry = FALSE]
        /\ \A a, b \in new : a = b
  BY InsertedFacts
<1>3. old # None =>
        /\ files'[old].status = "deleted" /\ files'[old].entry = FALSE
        /\ files'[old].folder = files[old].folder /\ files'[old].path = files[old].path
        /\ files'[old].content = files[old].content /\ files'[old].replaces = files[old].replaces
  <2>1. \A x \in Objects : files[x] \in File
    BY <1>1 DEF TypeOK
  <2>2. SUFFICES ASSUME NEW x \in Objects, x = old, old # None
                 PROVE  /\ files'[x].status = "deleted" /\ files'[x].entry = FALSE
                        /\ files'[x].folder = files[x].folder
                        /\ files'[x].path = files[x].path
                        /\ files'[x].content = files[x].content
                        /\ files'[x].replaces = files[x].replaces
    BY <1>22
  <2>3. files'[x] = [files[x] EXCEPT !.status = "deleted", !.entry = FALSE]
    BY <1>22, <2>2
  <2>4. files[x] \in File
    BY <2>1
  <2> HIDE DEF old
  <2>5. QED BY <2>3, <2>4, DeletedRow
<1> HIDE DEF old
<1>4. \A o \in Objects : o \notin new =>
        /\ files'[o].folder = files[o].folder /\ files'[o].path = files[o].path
        /\ files'[o].content = files[o].content /\ files'[o].replaces = files[o].replaces
  BY <1>2, <1>3, NoneIsNothing
<1>5. \A o \in Objects : o \notin new => (Made(o)' <=> Made(o))
  <2>1. SUFFICES ASSUME NEW o \in Objects, o \notin new PROVE Made(o)' <=> Made(o)
    OBVIOUS
  <2>2. CASE o = old
    BY <1>3, <1>22, <2>2, NoneIsNothing DEF Made, Active
  <2>3. CASE o # old
    BY <1>2, <2>1, <2>3 DEF Made
  <2>4. QED BY <2>2, <2>3
<1>6. /\ \A o \in new : Made(o)' /\ Active(o)' /\ ~Made(o) /\ ~Active(o)
      /\ \A o \in Objects : o \notin new /\ o # old => (Active(o)' <=> Active(o))
      /\ \A o \in Objects : o = old => Active(o) /\ ~Active(o)' /\ Made(o) /\ Made(o)'
  <2>1. NoFile.status = "none"
    BY DEF NoFile
  <2>2. \A o \in new : Made(o)' /\ Active(o)' /\ ~Made(o) /\ ~Active(o)
    BY <1>21, <2>1 DEF Made, Active
  <2>3. \A o \in Objects : o \notin new /\ o # old => (Active(o)' <=> Active(o))
    BY <1>2 DEF Active
  <2>4. \A o \in Objects : o = old => Active(o) /\ ~Active(o)' /\ Made(o) /\ Made(o)'
    BY <1>3, <1>22, NoneIsNothing DEF Made, Active
  <2>5. QED BY <2>2, <2>3, <2>4
<1>7. RowsAreMade'
  <2>1. ASSUME NEW o \in Objects, ~Made(o)' PROVE files'[o] = NoFile
    <3>1. o \notin new /\ ~Made(o) /\ o # old
      BY <1>5, <1>6, <2>1, NoneIsNothing
    <3>2. QED BY <1>1, <1>2, <3>1 DEF RowsAreMade
  <2>2. \A g \in Folders : folder[g] # "none" => folder'[g] # "none"
    BY <1>1, <1>2 DEF TypeOK
  <2>3. ASSUME NEW o \in Objects, Made(o)'
        PROVE  /\ files'[o].folder \in Folders /\ files'[o].path \in Paths
               /\ files'[o].content \in Objects /\ folder'[files'[o].folder] # "none"
    <3>1. CASE o \in new
      <4>1. folder'[f] # "none"
        <5>1. CASE request[r].op = "import"
          BY <1>1, <1>2, <5>1 DEF TypeOK
        <5>2. CASE request[r].op # "import"
          <6>1. folder[f] # "none"
            BY <1>1, <1>2, <5>2, NoneIsNothing DEF StorageInv, Sound, Target, Inserters, Writers
          <6>2. QED BY <1>2, <5>2, <6>1
        <5>3. QED BY <5>1, <5>2
      <4>2. QED BY <1>2, <1>21, <3>1, <4>1
    <3>2. CASE o \notin new
      <4>1. /\ files[o].folder \in Folders /\ files[o].path \in Paths
            /\ files[o].content \in Objects /\ folder[files[o].folder] # "none"
        BY <1>1, <1>5, <2>3, <3>2 DEF RowsAreMade
      <4>2. QED BY <1>4, <2>2, <3>2, <4>1
    <3>3. QED BY <3>1, <3>2
  <2>4. ASSUME NEW o \in Objects, files'[o].replaces # None
        PROVE  files'[files'[o].replaces].status = "deleted"
    <3>1. CASE o \in new
      BY <1>21, <1>3, <2>4, <3>1
    <3>2. CASE o \notin new
      <4> DEFINE x == files[o].replaces
      <4>1. files'[o].replaces = x /\ x # None /\ x \in Objects
        BY <1>1, <1>4, <2>4, <3>2 DEF TypeOK, File
      <4>2. files[x].status = "deleted"
        BY <1>1, <4>1 DEF RowsAreMade
      <4> HIDE DEF x
      <4>3. x \notin new /\ x # old
        <5>1. Made(x) /\ ~Active(x)
          BY <4>2 DEF Made, Active
        <5>2. QED BY <1>6, <4>1, <5>1
      <4>4. QED BY <1>2, <4>1, <4>2, <4>3
    <3>3. QED BY <3>1, <3>2
  <2>5. QED BY <2>1, <2>3, <2>4 DEF RowsAreMade
<1>8. ReplacedOnce'
  <2>1. ASSUME NEW a \in Objects, a \notin new, files'[a].replaces # None
        PROVE  files'[a].replaces # old
    <3>1. files[a].replaces # None /\ files'[a].replaces = files[a].replaces
      BY <1>4, <2>1
    <3>2. files[files[a].replaces].status = "deleted"
      BY <1>1, <3>1 DEF RowsAreMade
    <3>3. QED BY <1>22, <3>1, <3>2 DEF Active
  <2>2. SUFFICES ASSUME NEW a \in Objects, NEW b \in Objects,
                        files'[a].replaces = files'[b].replaces, files'[a].replaces # None
                 PROVE  a = b
    BY DEF ReplacedOnce
  <2>3. CASE a \in new /\ b \in new
    BY <1>21, <1>22, <2>2, <2>3
  <2>4. CASE a \in new /\ b \notin new
    BY <1>21, <2>1, <2>2, <2>4
  <2>7. CASE a \notin new /\ b \in new
    BY <1>21, <2>1, <2>2, <2>7
  <2>5. CASE a \notin new /\ b \notin new
    BY <1>1, <1>4, <2>2, <2>5 DEF ReplacedOnce
  <2>6. QED BY <2>3, <2>4, <2>5, <2>7
<1>9. FilesAreInTheTree'
  <2>1. SUFFICES ASSUME NEW o \in Objects
                 PROVE  /\ files'[o].entry <=> Active(o)'
                        /\ Active(o)' /\ Parent[files'[o].path] # None
                             => <<files'[o].folder, Parent[files'[o].path]>> \in dirs'
    BY DEF FilesAreInTheTree
  <2>2. CASE o \in new
    BY <1>21, <1>6, <2>2
  <2>3. CASE o = old
    <3>1. old # None
      BY <2>3, NoneIsNothing
    <3>2. files'[o].entry = FALSE /\ ~Active(o)'
      BY <1>3, <2>3, <3>1 DEF Active
    <3>3. QED BY <3>2
  <2>4. CASE o \notin new /\ o # old
    BY <1>1, <1>2, <1>6, <2>4 DEF FilesAreInTheTree
  <2>5. QED BY <2>2, <2>3, <2>4
<1>10. Kept
  <2>1. SUFFICES ASSUME NEW o \in Objects, Made(o)
                 PROVE  /\ Made(o)' /\ files'[o].folder = files[o].folder
                        /\ files'[o].path = files[o].path
                        /\ files[o].status = "deleted" => files'[o].status = "deleted"
    BY DEF Kept
  <2>2. o \notin new
    BY <1>6, <2>1
  <2>3. files[o].status = "deleted" => o # old
    BY <1>6, <2>1, NoneIsNothing DEF Active
  <2>4. QED BY <1>2, <1>4, <1>5, <2>1, <2>2, <2>3
<1>11. \A o \in Objects : Active(o)' => Active(o) \/ ~Locked(files'[o].folder)
  <2>1. \A o \in new : ~Locked(files'[o].folder)
    BY <1>1, <1>21
  <2>2. QED BY <1>6, <2>1, NoneIsNothing
<1>12. \A o \in Objects : Active(o)' =>
         \/ files'[o].content = disk[o]
         \/ Active(o) /\ files'[o].content = files[o].content
  <2>1. ASSUME NEW o \in Objects, o \notin new, Active(o)'
        PROVE  Active(o) /\ files'[o].content = files[o].content
    BY <1>4, <1>6, <2>1
  <2>2. QED BY <1>21, <2>1
<1>13. \A o \in Objects : files[o] = NoFile /\ o \notin Own(r) => files'[o] = NoFile
  <2>1. old # None => files[old] # NoFile
    BY <1>22 DEF Active, NoFile
  <2>2. QED BY <1>2, <2>1, NoneIsNothing
<1>14. \A g \in Folders : \/ folder'[g] = "none" <=> folder[g] = "none"
                          \/ request[r].op = "import" /\ f = g
  BY <1>1, <1>2 DEF TypeOK
<1>15. /\ \A o \in Objects : o \in Own(r) => Active(o)'
       /\ \A o \in Objects : Active(o) /\ ~Active(o)' => o = old
       /\ old # None => old \in Objects /\ files'[old].status = "deleted"
  BY <1>2, <1>3, <1>6, <1>22
<1>16. Tables'
  BY <1>7, <1>8, <1>9 DEF Tables
<1> USE DEF old
<1>17. QED
  BY <1>1, <1>2, <1>10, <1>11, <1>12, <1>13, <1>14, <1>15, <1>16

\* The COMMIT of an upload, a PUT, a MKCOL or an import
LEMMA CommitSafe ==
  ASSUME StorageInv, NEW r \in Requests, Commit(r)
  PROVE  StorageInv'
<1> DEFINE gone == {request[r].replaced} \ {None}
<1>1. /\ TypeOK /\ Inserting(r) /\ UNCHANGED <<disk, backup, lost>>
      /\ request' = [request EXCEPT ![r] =
           IF gone = {} THEN Idle
           ELSE [Idle EXCEPT !.op = request[r].op, !.at = "remove", !.gone = gone]]
  BY DEF StorageInv, Commit, ThenRemove, Goes
<1>2. /\ request[r].op \notin {"none", "export"} /\ gone \subseteq Objects
      /\ \A o \in gone : files'[o].status = "deleted"
      /\ \A o \in Objects : Active(o) /\ ~Active(o)' => o \in gone
  BY <1>1, InsertedTables, NoneIsNothing DEF Inserters, Writers
<1> HIDE DEF gone
<1>3. /\ request' \in [Requests -> Request]
      /\ \A s \in Requests : s # r => request'[s] = request[s]
      /\ Sound(r)' /\ Claims(r) /\ Own(r)' = {}
      /\ \A o : o \in gone => Removing(r, o)'
  BY <1>1, <1>2, RemoveFields
<1>4. Spares(r)
  BY <1>1, <1>3, InsertedTables DEF Spares
<1>5. Stored'
  <2>1. SUFFICES ASSUME NEW o \in Objects, Active(o)'
                 PROVE  disk'[o] = files'[o].content \/ (LostAnswers /\ disk'[o] = None)
    BY DEF Stored
  <2>2. CASE files'[o].content = disk[o]
    BY <1>1, <2>2
  <2>3. CASE Active(o) /\ files'[o].content = files[o].content
    BY <1>1, <2>1, <2>3 DEF StorageInv, Stored
  <2>4. QED BY <1>1, <2>1, <2>2, <2>3, InsertedTables
<1>6. /\ disk' \in [Objects -> {None, Partial} \cup Objects]
      /\ lost' \subseteq Objects /\ lost \subseteq lost'
  BY <1>1 DEF TypeOK
<1>7. /\ \A o \in Objects : o \notin Own(r) => disk'[o] = disk[o]
      /\ \A o \in Objects : o \in Own(r) => Active(o)' \/ o \in lost' \/ disk'[o] = None
      /\ \A o \in Objects : Active(o) /\ ~Active(o)' => o \in lost' \/ Removing(r, o)'
  BY <1>1, <1>2, <1>3, InsertedTables
<1>8. /\ request[r].at # "remove" /\ Tables' /\ UNCHANGED backup
      /\ files' \in [Objects -> File] /\ dirs' \subseteq Folders \X Dirs
      /\ folder' \in [Folders -> {"none", "active", "deleted"}]
  BY <1>1, InsertedTables
<1>9. QED BY <1>3, <1>4, <1>5, <1>6, <1>7, <1>8, TransactionSafe

\* What a handler that takes a COMMIT for failed leaves of its objects
LEMMA CleanedFacts ==
  ASSUME TypeOK, NEW r \in Requests, NEW removed, removed \subseteq Objects,
         Cleaned(r, removed)
  PROVE  /\ disk' \in [Objects -> {None, Partial} \cup Objects]
         /\ lost' \subseteq Objects /\ lost \subseteq lost' /\ removed \subseteq lost'
         /\ \A o \in Objects : o \notin Own(r) => disk'[o] = disk[o]
         /\ \A o \in Objects : o \in Own(r) => o \in lost' \/ disk'[o] = None
         /\ \A o \in Objects : disk'[o] = disk[o] \/ disk'[o] = None
<1>1. PICK kept \in SUBSET Own(r) :
        /\ disk' = [o \in Objects |-> IF o \in Own(r) \ kept THEN None ELSE disk[o]]
        /\ lost' = lost \cup kept \cup removed
  BY DEF Cleaned
<1>2. Own(r) \subseteq Objects
  BY RequestFields DEF Own, Uses, Row
<1>3. QED BY <1>1, <1>2 DEF TypeOK

\* An inserting transaction whose COMMIT took effect and seems to have failed
LEMMA InsertedUnheardSafe ==
  ASSUME StorageInv, NEW r \in Requests, LostAnswers, Inserting(r),
         Cleaned(r, {request[r].replaced} \ {None}),
         request' = [request EXCEPT ![r] = Idle], UNCHANGED backup
  PROVE  StorageInv'
<1> DEFINE gone == {request[r].replaced} \ {None}
<1>1. TypeOK
  BY DEF StorageInv
<1>2. /\ gone \subseteq Objects /\ \A o \in Objects : Active(o) /\ ~Active(o)' => o \in gone
  BY InsertedTables, NoneIsNothing
<1> HIDE DEF gone
<1>3. /\ request' \in [Requests -> Request] /\ request'[r] = Idle
      /\ \A s \in Requests : s # r => request'[s] = request[s]
  BY <1>1, IdleFields, OneRequest
<1>4. Sound(r)' /\ Claims(r) /\ Own(r)' = {}
  BY <1>3, IdleSound, IdleClaims
<1>5. /\ disk' \in [Objects -> {None, Partial} \cup Objects]
      /\ lost' \subseteq Objects /\ lost \subseteq lost' /\ gone \subseteq lost'
      /\ \A o \in Objects : o \notin Own(r) => disk'[o] = disk[o]
      /\ \A o \in Objects : o \in Own(r) => o \in lost' \/ disk'[o] = None
      /\ \A o \in Objects : disk'[o] = disk[o] \/ disk'[o] = None
  <2>1. Cleaned(r, gone)
    BY DEF gone
  <2>2. QED BY <1>1, <1>2, <2>1, CleanedFacts
<1>6. Spares(r)
  <2>1. \A o \in Objects : o \notin Own(r) /\ ~Unused(o) /\ ~Made(o) => disk'[o] = disk[o]
    BY <1>5
  <2>2. QED BY <1>3, <2>1, InsertedTables DEF Spares
<1>7. Stored'
  <2>1. SUFFICES ASSUME NEW o \in Objects, Active(o)'
                 PROVE  disk'[o] = files'[o].content \/ disk'[o] = None
    BY DEF Stored
  <2>2. disk'[o] = disk[o] \/ disk'[o] = None
    BY <1>5
  <2>3. CASE files'[o].content = disk[o]
    BY <2>2, <2>3
  <2>4. CASE Active(o) /\ files'[o].content = files[o].content
    BY <2>2, <2>4 DEF StorageInv, Stored
  <2>5. QED BY <2>1, <2>3, <2>4, InsertedTables
<1>8. /\ \A o \in Objects : o \in Own(r) => Active(o)' \/ o \in lost' \/ disk'[o] = None
      /\ \A o \in Objects : Active(o) /\ ~Active(o)' => o \in lost' \/ Removing(r, o)'
  BY <1>2, <1>5
<1>9. /\ request[r].at # "remove" /\ Tables'
      /\ files' \in [Objects -> File] /\ dirs' \subseteq Folders \X Dirs
      /\ folder' \in [Folders -> {"none", "active", "deleted"}]
  BY InsertedTables
<1>10. QED BY <1>3, <1>4, <1>5, <1>6, <1>7, <1>8, <1>9, TransactionSafe

-----------------------------------------------------------------------------
(* Deletions.                                                               *)

\* A file that a deletion takes away
TakenAway(o) ==
  /\ Made(o)
  /\ files'[o].status = "deleted" /\ files'[o].entry = FALSE
  /\ files'[o].folder = files[o].folder /\ files'[o].path = files[o].path
  /\ files'[o].content = files[o].content /\ files'[o].replaces = files[o].replaces

\* A deletion takes files away, and collections only with the files in them
Deletion ==
  /\ files' \in [Objects -> File]
  /\ \A o \in Objects : files'[o] = files[o] \/ TakenAway(o)
  /\ folder' \in [Folders -> {"none", "active", "deleted"}]
  /\ \A f \in Folders : folder'[f] = "none" <=> folder[f] = "none"
  /\ dirs' \subseteq Folders \X Dirs
  /\ \A o \in Objects : Active(o)' =>
       \A d : <<files[o].folder, d>> \in dirs => <<files[o].folder, d>> \in dirs'

\* What a deletion does to the tables
LEMMA DeletedTables ==
  ASSUME StorageInv, Deletion
  PROVE  /\ Tables' /\ Kept
         /\ \A o \in Objects : files[o] = NoFile => files'[o] = NoFile
         /\ \A o \in Objects : Active(o)' => Active(o) /\ files'[o] = files[o]
<1>1. /\ TypeOK /\ RowsAreMade /\ ReplacedOnce /\ FilesAreInTheTree
      /\ \A f \in Folders : folder'[f] = "none" <=> folder[f] = "none"
      /\ \A o \in Objects : Active(o)' =>
           \A d : <<files[o].folder, d>> \in dirs => <<files[o].folder, d>> \in dirs'
  BY DEF StorageInv, Tables, Deletion
<1>2. ASSUME NEW o \in Objects
      PROVE  /\ files'[o].folder = files[o].folder /\ files'[o].path = files[o].path
             /\ files'[o].content = files[o].content /\ files'[o].replaces = files[o].replaces
             /\ Made(o)' <=> Made(o)
             /\ files[o].status = "deleted" => files'[o].status = "deleted"
             /\ Active(o)' => Active(o) /\ files'[o] = files[o]
             /\ files'[o] # files[o] => ~Active(o)' /\ files'[o].entry = FALSE
  <2>1. CASE files'[o] = files[o]
    BY <2>1, <1>1 DEF Made, Active
  <2>2. CASE TakenAway(o)
    BY <2>2 DEF TakenAway, Made, Active
  <2>3. QED BY <2>1, <2>2 DEF Deletion
<1>3. Kept
  BY <1>2 DEF Kept
<1>4. \A o \in Objects : files[o] = NoFile => files'[o] = NoFile
  <2>1. \A o \in Objects : files[o] = NoFile => ~Made(o)
    BY DEF Made, NoFile
  <2>2. QED BY <2>1 DEF Deletion, TakenAway
<1>5. RowsAreMade'
  <2>1. ASSUME NEW o \in Objects, ~Made(o)' PROVE files'[o] = NoFile
    BY <1>1, <1>2, <1>4, <2>1 DEF RowsAreMade
  <2>2. ASSUME NEW o \in Objects, Made(o)'
        PROVE  /\ files'[o].folder \in Folders /\ files'[o].path \in Paths
               /\ files'[o].content \in Objects /\ folder'[files'[o].folder] # "none"
    <3>1. /\ files[o].folder \in Folders /\ files[o].path \in Paths
          /\ files[o].content \in Objects /\ folder[files[o].folder] # "none"
      BY <1>1, <1>2, <2>2 DEF RowsAreMade
    <3>2. folder'[files[o].folder] # "none"
      BY <1>1, <3>1
    <3>3. QED BY <1>2, <3>1, <3>2
  <2>3. ASSUME NEW o \in Objects, files'[o].replaces # None
        PROVE  files'[files'[o].replaces].status = "deleted"
    <3>1. files'[o].replaces = files[o].replaces
      BY <1>2
    <3>2. files[o] \in File
      BY <1>1 DEF TypeOK
    <3>3. files[o].replaces \in Objects
      BY <2>3, <3>1, <3>2 DEF File
    <3>4. files[files[o].replaces].status = "deleted"
      BY <1>1, <2>3, <3>1 DEF RowsAreMade
    <3>5. QED BY <1>2, <3>1, <3>3, <3>4
  <2>4. QED BY <2>1, <2>2, <2>3 DEF RowsAreMade
<1>6. ReplacedOnce'
  <2>1. \A o \in Objects : files'[o].replaces = files[o].replaces
    BY <1>2
  <2>2. QED BY <1>1, <2>1 DEF ReplacedOnce
<1>7. FilesAreInTheTree'
  <2>1. SUFFICES ASSUME NEW o \in Objects
                 PROVE  /\ files'[o].entry <=> Active(o)'
                        /\ Active(o)' /\ Parent[files'[o].path] # None
                             => <<files'[o].folder, Parent[files'[o].path]>> \in dirs'
    BY DEF FilesAreInTheTree
  <2>2. CASE files'[o] = files[o]
    BY <1>1, <2>2 DEF FilesAreInTheTree, Active
  <2>3. CASE files'[o] # files[o]
    <3>1. ~Active(o)' /\ files'[o].entry = FALSE
      BY <1>2, <2>3
    <3>2. QED BY <3>1
  <2>4. QED BY <2>2, <2>3
<1>8. QED BY <1>2, <1>3, <1>4, <1>5, <1>6, <1>7 DEF Tables

\* A transaction that deletes, and keeps account of the objects it took away
LEMMA DeletedSafe ==
  ASSUME StorageInv, Deletion, NEW r \in Requests, Own(r) = {}, request[r].at # "remove",
         request' \in [Requests -> Request],
         \A s \in Requests : s # r => request'[s] = request[s],
         Sound(r)', Claims(r), Own(r)' = {}, UNCHANGED <<disk, backup>>,
         lost' \subseteq Objects, lost \subseteq lost',
         \A o \in Objects : Active(o) /\ ~Active(o)' => o \in lost' \/ Removing(r, o)'
  PROVE  StorageInv'
<1>1. /\ files' \in [Objects -> File] /\ dirs' \subseteq Folders \X Dirs
      /\ folder' \in [Folders -> {"none", "active", "deleted"}]
      /\ \A f \in Folders : folder'[f] = "none" <=> folder[f] = "none"
  BY DEF Deletion
<1>2. /\ Tables' /\ Kept
      /\ \A o \in Objects : files[o] = NoFile => files'[o] = NoFile
      /\ \A o \in Objects : Active(o)' => Active(o) /\ files'[o] = files[o]
  BY DeletedTables
<1>3. Spares(r)
  BY <1>1, <1>2 DEF Spares
<1>4. Stored'
  BY <1>2 DEF StorageInv, Stored
<1>5. disk' \in [Objects -> {None, Partial} \cup Objects]
  BY DEF StorageInv, TypeOK
<1>6. /\ \A o \in Objects : o \notin Own(r) => disk'[o] = disk[o]
      /\ \A o \in Objects : o \in Own(r) => Active(o)' \/ o \in lost' \/ disk'[o] = None
  OBVIOUS
<1>7. QED BY <1>1, <1>2, <1>3, <1>4, <1>5, <1>6, TransactionSafe

\* The transaction of handleDeleteFile is a deletion
LEMMA FileDeletedFacts ==
  ASSUME StorageInv, NEW o \in Objects, FileDeleted(o)
  PROVE  /\ Deletion /\ files'[o].status = "deleted"
         /\ \A x \in Objects : Active(x) /\ ~Active(x)' => x = o
<1> DEFINE y == [files[o] EXCEPT !.status = "deleted", !.entry = FALSE]
<1>1. TypeOK /\ Active(o) /\ UNCHANGED <<folder, dirs>>
  BY DEF StorageInv, FileDeleted
<1>2. files[o] \in File
  BY <1>1 DEF TypeOK
<1>3. /\ y \in File /\ y.status = "deleted" /\ y.entry = FALSE /\ y.folder = files[o].folder
      /\ y.path = files[o].path /\ y.content = files[o].content
      /\ y.replaces = files[o].replaces
  BY <1>2, DeletedRow
<1>4. files' = [files EXCEPT ![o] = y]
  BY <1>1 DEF FileDeleted, TypeOK
<1> HIDE DEF y
<1>5. /\ files'[o] = y /\ \A x \in Objects : x # o => files'[x] = files[x]
      /\ files' \in [Objects -> File]
  BY <1>1, <1>3, <1>4 DEF TypeOK
<1>6. TakenAway(o)
  BY <1>1, <1>3, <1>5 DEF TakenAway, Made, Active
<1>7. \A x \in Objects : Active(x) /\ ~Active(x)' => x = o
  BY <1>5 DEF Active
<1>8. QED BY <1>1, <1>3, <1>5, <1>6, <1>7 DEF Deletion, TypeOK

\* So is that of handleDeleteFolder, whose list of objects misses none
LEMMA FolderDeletedFacts ==
  ASSUME StorageInv, NEW r \in Requests, FolderDeleted(r)
  PROVE  /\ Deletion /\ \A o \in request[r].gone : o \in Objects /\ files'[o].status = "deleted"
         /\ \A o \in Objects : Active(o) /\ ~Active(o)' => o \in request[r].gone
         /\ request[r].op = "delete folder" /\ request[r].at = "commit"
<1> DEFINE f == request[r].folder
           row(o) == [files[o] EXCEPT !.status = "deleted", !.entry = FALSE]
<1>1. /\ TypeOK /\ request[r].op = "delete folder" /\ request[r].at = "commit"
      /\ RowsAreMade
  BY DEF StorageInv, Tables, FolderDeleted, At
<1>2. /\ f \in Folders /\ folder[f] # "none" /\ ActiveFiles(f) \subseteq request[r].gone
      /\ \A o \in request[r].gone : Made(o) /\ files[o].folder = f
  BY <1>1, NoneIsNothing DEF StorageInv, Sound, Shape, Target, Deletes
<1>3. /\ folder' = [folder EXCEPT ![f] = "deleted"]
      /\ dirs' = {entry \in dirs : entry[1] # f}
      /\ files' = [o \in Objects |-> IF files[o].folder # f THEN files[o] ELSE row(o)]
  BY DEF FolderDeleted
<1>4. ASSUME NEW o \in Objects
      PROVE  /\ row(o) \in File /\ row(o).status = "deleted" /\ row(o).entry = FALSE
             /\ row(o).folder = files[o].folder /\ row(o).path = files[o].path
             /\ row(o).content = files[o].content /\ row(o).replaces = files[o].replaces
             /\ files[o] \in File
  <2>1. files[o] \in File
    BY <1>1 DEF TypeOK
  <2>2. QED BY <2>1, DeletedRow
<1> HIDE DEF row
<1>5. \A o \in Objects : files[o].folder = f => Made(o)
  <2>1. NoFile.folder = None
    BY DEF NoFile
  <2>2. QED BY <1>1, <1>2, <2>1, NoneIsNothing DEF RowsAreMade
<1>6. /\ files' \in [Objects -> File]
      /\ \A o \in Objects : files[o].folder # f => files'[o] = files[o]
      /\ \A o \in Objects : files[o].folder = f => files'[o] = row(o)
  BY <1>3, <1>4
<1>7. \A o \in Objects : files[o].folder = f => TakenAway(o)
  BY <1>4, <1>5, <1>6 DEF TakenAway
<1>8. /\ folder' \in [Folders -> {"none", "active", "deleted"}]
      /\ \A g \in Folders : folder'[g] = "none" <=> folder[g] = "none"
  BY <1>1, <1>2, <1>3 DEF TypeOK
<1>9. \A o \in Objects : Active(o)' =>
        \A d : <<files[o].folder, d>> \in dirs => <<files[o].folder, d>> \in dirs'
  <2>1. \A o \in Objects : Active(o)' => files[o].folder # f
    BY <1>7 DEF TakenAway, Active
  <2>2. QED BY <1>3, <2>1
<1>10. Deletion
  BY <1>1, <1>3, <1>6, <1>7, <1>8, <1>9 DEF Deletion, TypeOK
<1>11. \A o \in Objects : Active(o) /\ ~Active(o)' => o \in request[r].gone
  BY <1>2, <1>6 DEF ActiveFiles, Active
<1>12. \A o \in request[r].gone : o \in Objects /\ files'[o].status = "deleted"
  BY <1>1, <1>2, <1>7, RequestFields DEF TakenAway
<1>13. QED BY <1>1, <1>10, <1>11, <1>12

\* handleDeleteFile
LEMMA DeleteFileSafe ==
  ASSUME StorageInv, NEW r \in Requests, NEW o \in Objects, DeleteFile(r, o)
  PROVE  StorageInv'
<1>1. /\ TypeOK /\ request[r] = Idle /\ FileDeleted(o)
      /\ UNCHANGED <<disk, backup, lost>>
  BY DEF StorageInv, DeleteFile, Starts, IsIdle
<1>2. /\ Deletion /\ files'[o].status = "deleted"
      /\ \A x \in Objects : Active(x) /\ ~Active(x)' => x = o
  BY <1>1, FileDeletedFacts
<1>3. /\ request' \in [Requests -> Request]
      /\ (\A s \in Requests : s # r => request'[s] = request[s])
      /\ request'[r].op = "delete file" /\ request'[r].at = "remove"
      /\ request'[r].folder = None /\ request'[r].object = None
      /\ request'[r].item = None /\ request'[r].rows = {}
      /\ request'[r].left = {} /\ request'[r].dirs = {}
      /\ request'[r].replaced = None /\ request'[r].gone = {o}
  <2> DEFINE q == [Idle EXCEPT !.op = "delete file", !.at = "remove", !.gone = {o}]
  <2>1. request' = [request EXCEPT ![r] = q]
    BY DEF DeleteFile, Goes
  <2>2. q \in Request
    <3>1. /\ Idle \in Request /\ o \in Objects
      BY <1>1, RequestFields, IdleFields
    <3>2. QED BY <3>1 DEF Request, Operation
  <2>3. /\ q.op = "delete file" /\ q.at = "remove" /\ q.folder = None
        /\ q.object = None /\ q.item = None /\ q.rows = {} /\ q.left = {}
        /\ q.dirs = {} /\ q.replaced = None /\ q.gone = {o}
    BY <1>1, RequestFields, IdleFields DEF Request
  <2> HIDE DEF q
  <2>4. QED BY <1>1, <2>1, <2>2, <2>3, OneRequest
<1>4. Uses(r)' = {} /\ Own(r)' = {} /\ Own(r) = {} /\ request[r].at # "remove"
  BY <1>1, <1>3, IdleOwns, IdleFields DEF Uses, Own
<1>5. Sound(r)'
  BY <1>2, <1>3, <1>4 DEF Sound, Shape, Writes, Target, Deletes, Exports,
         Writers, Inserters
<1>6. Claims(r)
  BY <1>3, <1>4 DEF Claims
<1>7. \A x \in Objects : Active(x) /\ ~Active(x)' => x \in lost' \/ Removing(r, x)'
  BY <1>2, <1>3 DEF Removing
<1>8. lost' \subseteq Objects /\ lost \subseteq lost'
  BY <1>1 DEF TypeOK
<1>9. QED BY <1>1, <1>2, <1>3, <1>4, <1>5, <1>6, <1>7, <1>8, DeletedSafe

\* handleDeleteFolder
LEMMA DeleteFolderSafe ==
  ASSUME StorageInv, NEW r \in Requests, DeleteFolder(r)
  PROVE  StorageInv'
<1>1. /\ TypeOK /\ FolderDeleted(r) /\ UNCHANGED <<disk, backup, lost>>
      /\ request' = [request EXCEPT ![r] =
           IF request[r].gone = {} THEN Idle
           ELSE [Idle EXCEPT !.op = request[r].op, !.at = "remove", !.gone = request[r].gone]]
  BY DEF StorageInv, DeleteFolder, ThenRemove, Goes
<1>2. /\ Deletion /\ \A o \in request[r].gone : o \in Objects /\ files'[o].status = "deleted"
      /\ \A o \in Objects : Active(o) /\ ~Active(o)' => o \in request[r].gone
      /\ request[r].op = "delete folder" /\ request[r].at = "commit"
  BY <1>1, FolderDeletedFacts
<1>3. PICK gone : gone = request[r].gone
  OBVIOUS
<1>4. /\ request' \in [Requests -> Request]
      /\ \A s \in Requests : s # r => request'[s] = request[s]
      /\ Sound(r)' /\ Claims(r) /\ Own(r)' = {}
      /\ \A o : o \in gone => Removing(r, o)'
  <2>1. gone \subseteq Objects /\ \A o \in gone : files'[o].status = "deleted"
    BY <1>2, <1>3
  <2>2. request' = [request EXCEPT ![r] =
          IF gone = {} THEN Idle
          ELSE [Idle EXCEPT !.op = request[r].op, !.at = "remove", !.gone = gone]]
    BY <1>1, <1>3
  <2>3. QED BY <1>1, <1>2, <2>1, <2>2, RemoveFields
<1>5. Own(r) = {} /\ request[r].at # "remove"
  BY <1>2 DEF Own
<1>6. \A o \in Objects : Active(o) /\ ~Active(o)' => o \in lost' \/ Removing(r, o)'
  BY <1>2, <1>3, <1>4
<1>7. lost' \subseteq Objects /\ lost \subseteq lost'
  BY <1>1 DEF TypeOK
<1>8. QED BY <1>1, <1>2, <1>4, <1>5, <1>6, <1>7, DeletedSafe

\* A deletion whose COMMIT took effect and seems to have failed
LEMMA DeletedUnheardSafe ==
  ASSUME StorageInv, NEW r \in Requests, NEW gone, gone \subseteq Objects, Deletion,
         Own(r) = {}, request[r].at # "remove",
         \A o \in Objects : Active(o) /\ ~Active(o)' => o \in gone,
         Cleaned(r, gone), request' = [request EXCEPT ![r] = Idle], UNCHANGED backup
  PROVE  StorageInv'
<1>1. TypeOK
  BY DEF StorageInv
<1>2. /\ request' \in [Requests -> Request] /\ request'[r] = Idle
      /\ \A s \in Requests : s # r => request'[s] = request[s]
  BY <1>1, IdleFields, OneRequest
<1>3. Sound(r)' /\ Claims(r) /\ Own(r)' = {}
  BY <1>2, IdleSound, IdleClaims
<1>4. /\ disk' \in [Objects -> {None, Partial} \cup Objects]
      /\ lost' \subseteq Objects /\ lost \subseteq lost' /\ gone \subseteq lost'
      /\ \A o \in Objects : disk'[o] = disk[o]
  BY <1>1, CleanedFacts
<1>5. disk' = disk
  BY <1>1, <1>4 DEF TypeOK
<1>6. \A o \in Objects : Active(o) /\ ~Active(o)' => o \in lost' \/ Removing(r, o)'
  BY <1>4
<1>7. QED BY <1>2, <1>3, <1>4, <1>5, <1>6, DeletedSafe

\* A COMMIT that took effect and whose answer is lost
LEMMA LoseAnswerSafe ==
  ASSUME StorageInv, NEW r \in Requests, LoseAnswer(r)
  PROVE  StorageInv'
<1>1. /\ LostAnswers /\ request' = [request EXCEPT ![r] = Idle] /\ UNCHANGED backup
      /\ \/ Inserting(r) /\ Cleaned(r, {request[r].replaced} \ {None})
         \/ FolderDeleted(r) /\ Cleaned(r, request[r].gone)
         \/ Starts(r, "delete file") /\ \E o \in Objects : FileDeleted(o) /\ Cleaned(r, {o})
  BY DEF LoseAnswer, Goes
<1>2. CASE Inserting(r) /\ Cleaned(r, {request[r].replaced} \ {None})
  BY <1>1, <1>2, InsertedUnheardSafe
<1>3. CASE FolderDeleted(r) /\ Cleaned(r, request[r].gone)
  <2>1. /\ Deletion /\ request[r].gone \subseteq Objects
        /\ \A o \in Objects : Active(o) /\ ~Active(o)' => o \in request[r].gone
        /\ request[r].op = "delete folder" /\ request[r].at = "commit"
    BY <1>3, FolderDeletedFacts
  <2>2. Own(r) = {} /\ request[r].at # "remove"
    BY <2>1 DEF Own
  <2>3. QED BY <1>1, <1>3, <2>1, <2>2, DeletedUnheardSafe
<1>4. CASE Starts(r, "delete file") /\ \E o \in Objects : FileDeleted(o) /\ Cleaned(r, {o})
  <2>1. PICK o \in Objects : FileDeleted(o) /\ Cleaned(r, {o})
    BY <1>4
  <2>2. Deletion /\ \A x \in Objects : Active(x) /\ ~Active(x)' => x \in {o}
    BY <2>1, FileDeletedFacts
  <2>3. request[r] = Idle
    BY <1>4 DEF Starts, IsIdle
  <2>4. Own(r) = {} /\ request[r].at # "remove"
    BY <2>3, IdleOwns, IdleFields
  <2>5. QED BY <1>1, <2>1, <2>2, <2>4, DeletedUnheardSafe
<1>5. QED BY <1>1, <1>2, <1>3, <1>4

-----------------------------------------------------------------------------
(* The steps of no request, and the theorems.                               *)

\* handleCreateFolder
LEMMA CreateFolderSafe ==
  ASSUME StorageInv, NEW f \in Folders, CreateFolder(f)
  PROVE  StorageInv'
<1>1. /\ TypeOK /\ folder[f] = "none" /\ \A r \in Requests : request[r].folder # f
      /\ folder' = [folder EXCEPT ![f] = "active"]
      /\ UNCHANGED <<files, dirs, disk, backup, request, lost>>
  BY DEF StorageInv, CreateFolder
<1>2. /\ folder' \in [Folders -> {"none", "active", "deleted"}]
      /\ folder'[f] # "none" /\ \A g \in Folders : g # f => folder'[g] = folder[g]
  BY <1>1 DEF TypeOK
<1>3. TypeOK'
  BY <1>1, <1>2 DEF TypeOK
<1>4. Tables'
  <2>1. RowsAreMade'
    BY <1>1, <1>2 DEF StorageInv, Tables, RowsAreMade, Made
  <2>2. ReplacedOnce' /\ FilesAreInTheTree'
    BY <1>1 DEF StorageInv, Tables, ReplacedOnce, FilesAreInTheTree, Active
  <2>3. QED BY <2>1, <2>2 DEF Tables
<1>5. ASSUME NEW r \in Requests PROVE Sound(r)'
  <2>1. Sound(r) /\ request' = request
    BY <1>1 DEF StorageInv
  <2>2. Target(r)'
    <3>1. request[r].folder # None => request[r].folder \in Folders /\ request[r].folder # f
      BY <1>1, RequestFields
    <3>2. QED BY <1>2, <2>1, <3>1 DEF Sound, Target
  <2>3. Shape(r)'
    BY <2>1 DEF Sound, Shape
  <2>4. Writes(r)'
    BY <1>1, <2>1 DEF Sound, Writes, Uses
  <2>5. Deletes(r)' /\ Exports(r)'
    BY <1>1, <2>1 DEF Sound, Deletes, Exports, Made, ActiveFiles, Active
  <2>6. QED BY <2>2, <2>3, <2>4, <2>5 DEF Sound
<1>6. Apart' /\ BackupIsOneTree' /\ Stored'
  BY <1>1 DEF StorageInv, Apart, Uses, BackupIsOneTree, Stored, Active
<1>7. Owned'
  BY <1>1 DEF StorageInv, Owned, Own, Uses, Removing, Active
<1>8. QED BY <1>3, <1>4, <1>5, <1>6, <1>7 DEF StorageInv

\* The process ends: what its requests were at is left on disk for good
LEMMA CrashSafe ==
  ASSUME StorageInv, Crash
  PROVE  StorageInv'
<1> DEFINE left(r) == Own(r) \cup (IF request[r].at = "remove" THEN request[r].gone ELSE {})
<1>1. /\ TypeOK /\ request' = [r \in Requests |-> Idle]
      /\ lost' = lost \cup UNION {left(r) : r \in Requests}
      /\ UNCHANGED <<folder, files, dirs, disk, backup>>
  BY DEF StorageInv, Crash
<1>2. \A r \in Requests : left(r) \subseteq Objects
  <2>1. SUFFICES ASSUME NEW r \in Requests PROVE left(r) \subseteq Objects
    OBVIOUS
  <2>2. Own(r) \subseteq Objects
    BY <1>1, RequestFields DEF Own, Uses, Row
  <2>3. QED BY <1>1, <2>2, RequestFields
<1>3. \A r \in Requests, o \in Objects : o \in Own(r) \/ Removing(r, o) => o \in left(r)
  BY DEF Removing
<1> HIDE DEF left
<1>4. lost' \subseteq Objects /\ \A r \in Requests : left(r) \subseteq lost'
  BY <1>1, <1>2 DEF TypeOK
<1>5. \A r \in Requests : request'[r] = Idle
  BY <1>1
<1>6. TypeOK'
  BY <1>1, <1>4, IdleFields DEF TypeOK
<1>7. Tables' /\ BackupIsOneTree' /\ Stored'
  <2>1. RowsAreMade'
    BY <1>1 DEF StorageInv, Tables, RowsAreMade, Made
  <2>2. ReplacedOnce' /\ FilesAreInTheTree'
    BY <1>1 DEF StorageInv, Tables, ReplacedOnce, FilesAreInTheTree, Active
  <2>3. BackupIsOneTree' /\ Stored'
    BY <1>1 DEF StorageInv, BackupIsOneTree, Stored, Active
  <2>4. QED BY <2>1, <2>2, <2>3 DEF Tables
<1>8. \A r \in Requests : Sound(r)'
  BY <1>5, IdleSound
<1>9. Apart'
  BY <1>5, IdleFields DEF Apart, Writers
<1>10. Owned'
  <2>1. SUFFICES ASSUME NEW o \in Objects, disk[o] # None, ~Active(o), o \notin lost
                 PROVE  o \in lost'
    BY <1>1 DEF Owned, Active
  <2>2. PICK r \in Requests : o \in Own(r) \/ Removing(r, o)
    BY <2>1 DEF StorageInv, Owned
  <2>3. QED BY <1>3, <1>4, <2>2
<1>11. QED BY <1>6, <1>7, <1>8, <1>9, <1>10 DEF StorageInv

\* The initial state
LEMMA InitSafe == Init => StorageInv
<1> SUFFICES ASSUME Init PROVE StorageInv
  OBVIOUS
<1>1. /\ folder = [f \in Folders |-> "none"] /\ files = [o \in Objects |-> NoFile]
      /\ dirs = {} /\ disk = [o \in Objects |-> None] /\ backup = NoBackup
      /\ request = [r \in Requests |-> Idle] /\ lost = {}
  BY DEF Init
<1>2. /\ NoFile \in File /\ NoFile.status = "none" /\ NoFile.entry = FALSE
      /\ NoFile.replaces = None
  BY DEF NoFile, File
<1>3. TypeOK
  <2>1. backup \in [whole : BOOLEAN, items : SUBSET Row, dirs : SUBSET Dirs]
    BY <1>1 DEF NoBackup
  <2>2. QED BY <1>1, <1>2, <2>1, IdleFields DEF TypeOK
<1>4. Tables
  BY <1>1, <1>2 DEF Tables, RowsAreMade, ReplacedOnce, FilesAreInTheTree, Made, Active
<1>5. ASSUME NEW r \in Requests PROVE Sound(r)
  BY <1>1, IdleFields DEF Sound, Shape, Writes, Target, Deletes, Exports, Writers, Inserters
<1>6. Apart
  BY <1>1, IdleFields DEF Apart, Writers
<1>7. Stored /\ Owned /\ BackupIsOneTree
  BY <1>1, <1>2 DEF Stored, Active, Owned, BackupIsOneTree, NoBackup
<1>8. QED BY <1>3, <1>4, <1>5, <1>6, <1>7 DEF StorageInv

\* Every step preserves the invariant
LEMMA NextSafe ==
  ASSUME StorageInv, [Next]_vars
  PROVE  StorageInv'
<1>1. CASE UNCHANGED vars
  <2>1. /\ TypeOK' /\ Tables' /\ Apart' /\ Stored' /\ BackupIsOneTree'
    BY <1>1 DEF vars, StorageInv, TypeOK, Tables, RowsAreMade, Made, ReplacedOnce,
       FilesAreInTheTree, Active, Apart, Uses, Stored, BackupIsOneTree
  <2>2. Owned'
    BY <1>1 DEF vars, StorageInv, Owned, Own, Uses, Removing, Active
  <2>3. ASSUME NEW r \in Requests PROVE Sound(r)'
    <3>1. Sound(r) /\ UNCHANGED vars
      BY <1>1 DEF StorageInv
    <3>2. Shape(r)' /\ Writes(r)' /\ Target(r)'
      BY <3>1 DEF vars, Sound, Shape, Writes, Target, Uses
    <3>3. Deletes(r)' /\ Exports(r)'
      BY <3>1 DEF vars, Sound, Deletes, Exports, Made, ActiveFiles, Active
    <3>4. QED BY <3>2, <3>3 DEF Sound
  <2>4. QED BY <2>1, <2>2, <2>3 DEF StorageInv
<1>2. ASSUME NEW f \in Folders, CreateFolder(f) PROVE StorageInv'
  BY <1>2, CreateFolderSafe
<1>3. ASSUME NEW r \in Requests, NEW f \in Folders,
             StartImport(r, f) \/ LockFolder(r, f) \/ StartExport(r, f)
      PROVE  StorageInv'
  BY <1>3, StartImportSafe, LockFolderSafe, StartExportSafe
<1>4. ASSUME NEW r \in Requests, NEW f \in Folders, NEW d \in Dirs, StartMkcol(r, f, d)
      PROVE  StorageInv'
  BY <1>4, StartMkcolSafe
<1>5. ASSUME NEW r \in Requests, NEW f \in Folders, NEW p \in Paths, NEW o \in Objects,
             StartUpload(r, f, p, o) \/ StartPut(r, f, p, o)
      PROVE  StorageInv'
  <2>1. CASE StartUpload(r, f, p, o)
    BY <2>1, StartWritingSafe DEF StartUpload
  <2>2. CASE StartPut(r, f, p, o)
    BY <2>2, StartWritingSafe DEF StartPut
  <2>3. QED BY <1>5, <2>1, <2>2
<1>6. ASSUME NEW r \in Requests, NEW o \in Objects, DeleteFile(r, o) \/ Remove(r, o)
      PROVE  StorageInv'
  BY <1>6, DeleteFileSafe, RemoveSafe
<1>7. ASSUME NEW r \in Requests, NEW o \in Objects, NEW item \in request[r].left,
             ImportFile(r, o, item)
      PROVE  StorageInv'
  BY <1>7, ImportFileSafe
<1>8. ASSUME NEW r \in Requests, Write(r) \/ Lookup(r) \/ Commit(r) \/ DeleteFolder(r)
      PROVE  StorageInv'
  BY <1>8, WriteSafe, LookupSafe, CommitSafe, DeleteFolderSafe
<1>9. ASSUME NEW r \in Requests, ListFiles(r) \/ ListCollections(r) \/ FinishBackup(r)
      PROVE  StorageInv'
  BY <1>9, ListFilesSafe, ListCollectionsSafe, FinishBackupSafe
<1>10. ASSUME NEW r \in Requests, NEW item \in request[r].left,
              CopyFile(r, item) \/ TruncateBackup(r, item)
       PROVE  StorageInv'
  BY <1>10, CopyFileSafe, TruncateBackupSafe
<1>11. ASSUME NEW r \in Requests, Fail(r) \/ LoseAnswer(r) PROVE StorageInv'
  BY <1>11, FailSafe, LoseAnswerSafe
<1>12. ASSUME Crash PROVE StorageInv'
  BY <1>12, CrashSafe
<1>13. QED
  BY <1>1, <1>2, <1>3, <1>4, <1>5, <1>6, <1>7, <1>8, <1>9, <1>10, <1>11, <1>12 DEF Next

\* The invariant holds in every state
LEMMA StorageInvariant == Spec => []StorageInv
<1>1. StorageInv /\ [Next]_vars => StorageInv'
  BY NextSafe
<1>2. QED BY <1>1, InitSafe, PTL DEF Spec

\* The rows of the archive, its objects on disk and its requests have their types
THEOREM StorageTypeCorrect == Spec => []TypeOK
<1>1. StorageInv => TypeOK
  BY DEF StorageInv
<1>2. QED BY <1>1, StorageInvariant, PTL

\* Of any number of PUTs that found the same file at their path, at most one replaces
\* it: deleteFileTx refuses a file that is not active any more
THEOREM ReplacedOnceCorrect == Spec => []ReplacedOnce
<1>1. StorageInv => ReplacedOnce
  BY DEF StorageInv, Tables
<1>2. QED BY <1>1, StorageInvariant, PTL

\* A file is active exactly as long as an entry names it, and its collection is in the
\* tree, whatever deletions of its folder its upload, PUT or import raced with
THEOREM FilesAreInTheTreeCorrect == Spec => []FilesAreInTheTree
<1>1. StorageInv => FilesAreInTheTree
  BY DEF StorageInv, Tables
<1>2. QED BY <1>1, StorageInvariant, PTL

\* exportFolderBackup reads files and collections without a lock, and still no backup
\* that can be opened has a file without its collection
THEOREM BackupIsOneTreeCorrect == Spec => []BackupIsOneTree
<1>1. StorageInv => BackupIsOneTree
  BY DEF StorageInv
<1>2. QED BY <1>1, StorageInvariant, PTL

\* Every object on disk belongs to an active file or to a request that will use or
\* remove it, crashes and failed removals apart: handleDeleteFolder's list misses none
THEOREM ObjectsAreOwnedCorrect == Spec => []ObjectsAreOwned
<1>1. StorageInv => ObjectsAreOwned
  BY DEF StorageInv, Owned, ObjectsAreOwned, Removing
<1>2. QED BY <1>1, StorageInvariant, PTL

\* As long as no answer to a COMMIT is lost, every active file has its whole data on
\* disk, whatever replacements, deletions, failures and restarts come together
THEOREM ActiveFileIsStoredCorrect ==
  ASSUME LostAnswers = FALSE
  PROVE  Spec => []ActiveFileIsStored
<1>1. StorageInv => ActiveFileIsStored
  BY DEF StorageInv, Stored, ActiveFileIsStored
<1>2. QED BY <1>1, StorageInvariant, PTL

\* The transactions that write protected_folders or files; that of a deleted folder ends
\* the request's hold of it
LEMMA TableWriters ==
  ASSUME TypeOK, [Next]_vars
  PROVE  \/ files' = files /\ folder' = folder
         \/ \E f \in Folders : CreateFolder(f)
         \/ \E r \in Requests : Inserting(r)
         \/ \E r \in Requests : FolderDeleted(r) /\ request'[r].at # "commit"
         \/ \E o \in Objects : FileDeleted(o)
<1> DEFINE Goal == \/ files' = files /\ folder' = folder
                   \/ \E f \in Folders : CreateFolder(f)
                   \/ \E r \in Requests : Inserting(r)
                   \/ \E r \in Requests : FolderDeleted(r) /\ request'[r].at # "commit"
                   \/ \E o \in Objects : FileDeleted(o)
<1>1. ASSUME UNCHANGED vars \/ \E f \in Folders : CreateFolder(f) PROVE Goal
  BY <1>1 DEF vars
<1>2. ASSUME NEW r \in Requests, NEW f \in Folders,
             \/ StartImport(r, f) \/ LockFolder(r, f) \/ StartExport(r, f)
             \/ \E d \in Dirs : StartMkcol(r, f, d)
             \/ \E p \in Paths, o \in Objects : StartUpload(r, f, p, o) \/ StartPut(r, f, p, o)
      PROVE  files' = files /\ folder' = folder
  <2>1. CASE LockFolder(r, f)
    BY <2>1 DEF LockFolder
  <2>2. CASE StartImport(r, f) \/ StartExport(r, f) \/ \E d \in Dirs : StartMkcol(r, f, d)
    BY <2>2 DEF StartImport, StartExport, StartMkcol
  <2>3. CASE \E p \in Paths, o \in Objects : StartUpload(r, f, p, o) \/ StartPut(r, f, p, o)
    BY <2>3 DEF StartUpload, StartPut, StartWriting
  <2>4. QED BY <1>2, <2>1, <2>2, <2>3
<1>3. ASSUME NEW r \in Requests, NEW o \in Objects,
             \/ DeleteFile(r, o) \/ Remove(r, o)
             \/ \E item \in request[r].left : ImportFile(r, o, item)
      PROVE  Goal
  <2>1. CASE DeleteFile(r, o)
    BY <2>1 DEF DeleteFile
  <2>2. CASE Remove(r, o) \/ \E item \in request[r].left : ImportFile(r, o, item)
    BY <2>2 DEF Remove, ImportFile
  <2>3. QED BY <1>3, <2>1, <2>2
<1>4. ASSUME NEW r \in Requests, FolderDeleted(r), DeleteFolder(r) \/ Goes(r, Idle) PROVE Goal
  <2>1. PICK q : request' = [request EXCEPT ![r] = q] /\ q.at # "commit"
    <3>1. Idle.at # "commit"
      BY IdleFields
    <3>2. ASSUME NEW op, NEW objects
          PROVE  [Idle EXCEPT !.op = op, !.at = "remove", !.gone = objects].at # "commit"
      BY DEF Idle
    <3>3. CASE request[r].gone = {} \/ Goes(r, Idle)
      <4>1. request' = [request EXCEPT ![r] = Idle]
        BY <1>4, <3>3 DEF DeleteFolder, ThenRemove, Goes
      <4>2. QED BY <3>1, <4>1
    <3>4. CASE ~(request[r].gone = {} \/ Goes(r, Idle))
      <4>1. request' = [request EXCEPT ![r] =
                          [Idle EXCEPT !.op = request[r].op, !.at = "remove",
                                       !.gone = request[r].gone]]
        BY <1>4, <3>4 DEF DeleteFolder, ThenRemove, Goes
      <4>2. QED BY <3>2, <4>1
    <3>5. QED BY <3>3, <3>4
  <2>2. request'[r].at # "commit"
    BY <2>1 DEF TypeOK
  <2>3. QED BY <1>4, <2>2
<1>5. ASSUME NEW r \in Requests, Write(r) \/ Lookup(r) \/ Commit(r) \/ DeleteFolder(r)
      PROVE  Goal
  <2>1. CASE Write(r) \/ Lookup(r)
    BY <2>1 DEF Write, Lookup
  <2>2. CASE Commit(r)
    BY <2>2 DEF Commit
  <2>3. CASE DeleteFolder(r)
    <3>1. FolderDeleted(r)
      BY <2>3 DEF DeleteFolder
    <3>2. QED BY <1>4, <2>3, <3>1
  <2>4. QED BY <1>5, <2>1, <2>2, <2>3
<1>6. ASSUME NEW r \in Requests, ListFiles(r) \/ ListCollections(r) \/ FinishBackup(r)
      PROVE  files' = files /\ folder' = folder
  BY <1>6 DEF ListFiles, ListCollections, FinishBackup
<1>7. ASSUME NEW r \in Requests, NEW item \in request[r].left,
             CopyFile(r, item) \/ TruncateBackup(r, item)
      PROVE  files' = files /\ folder' = folder
  BY <1>7 DEF CopyFile, TruncateBackup
<1>8. ASSUME NEW r \in Requests, Fail(r) \/ LoseAnswer(r) PROVE Goal
  <2>1. CASE Fail(r)
    BY <2>1 DEF Fail
  <2>2. CASE LoseAnswer(r)
    <3>1. /\ Inserting(r) \/ FolderDeleted(r) \/ \E o \in Objects : FileDeleted(o)
          /\ Goes(r, Idle)
      BY <2>2 DEF LoseAnswer
    <3>2. QED BY <1>4, <3>1
  <2>3. QED BY <1>8, <2>1, <2>2
<1>9. ASSUME Crash PROVE files' = files /\ folder' = folder
  BY <1>9 DEF Crash
<1> HIDE DEF Goal
<1>10. ASSUME files' = files /\ folder' = folder PROVE Goal
  BY <1>10 DEF Goal
<1>11. Goal
  BY <1>1, <1>2, <1>3, <1>5, <1>6, <1>7, <1>8, <1>9, <1>10 DEF Next
<1>12. QED BY <1>11 DEF Goal

\* The content of the files that the transaction of an import adds is that of its rows
LEMMA ImportedContent ==
  ASSUME StorageInv, NEW r \in Requests, Inserting(r), request[r].op = "import",
         NEW f \in Folders, request[r].folder = f, folder[f] = "none"
  PROVE  {files'[o].content : o \in ActiveFiles(f)'}
           = {row[2].content : row \in request[r].rows}
<1> DEFINE rows == request[r].rows
<1>1. New(r) \subseteq Objects /\ request[r].replaced = None
  BY InsertedFacts DEF StorageInv, Sound, Shape
<1>2. /\ \A o \in New(r) : Active(o)' /\ files'[o].folder = f /\ files'[o].content = disk[o]
      /\ \A o \in Objects : o \notin New(r) => files'[o] = files[o]
  <2>1. \A o \in Objects : o \notin New(r) => files'[o] = files[o]
    BY <1>1, InsertedFacts, NoneIsNothing
  <2>2. \A o \in New(r) : /\ files'[o].status = "active" /\ files'[o].folder = f
                          /\ files'[o].content = disk[o]
    BY InsertedFacts
  <2>3. QED BY <2>1, <2>2 DEF Active
<1>3. \A o \in Objects : Active(o) => files[o].folder # f
  BY DEF StorageInv, Tables, RowsAreMade, Active, Made
<1>4. \A row \in rows : row[1] \in New(r) /\ disk[row[1]] = row[2].content
  BY DEF StorageInv, Sound, Writes, Writers, New
<1>5. \A o \in New(r) : \E row \in rows : row[1] = o
  BY DEF New
<1> DEFINE active == {o \in Objects : Active(o)' /\ files'[o].folder = f}
<1>6. active = New(r)
  <2>1. \A o \in Objects : Active(o)' /\ files'[o].folder = f => o \in New(r)
    BY <1>2, <1>3 DEF Active
  <2>2. QED BY <1>1, <1>2, <2>1
<1> HIDE DEF active
<1>7. {files'[o].content : o \in active} = {row[2].content : row \in rows}
  BY <1>2, <1>4, <1>5, <1>6
<1>8. active = ActiveFiles(f)'
  BY DEF active, ActiveFiles
<1>9. QED BY <1>7, <1>8

\* A restored folder appears with every file of the manifest of its backup or not at
\* all: importFolderBackup's transaction adds the folder, its collections and all files
THEOREM RestoreIsWholeCorrect == Spec => RestoreIsWhole
<1>1. ASSUME StorageInv, [Next]_vars, NEW r \in Requests, NEW f \in Folders,
             request[r].op = "import", request[r].folder = f,
             folder[f] = "none", folder'[f] = "active"
      PROVE  {files'[o].content : o \in ActiveFiles(f)'}
               = {item[2].content : item \in request[r].left \cup request[r].rows}
  <2>1. TypeOK /\ Apart /\ f # None
    BY <1>1, NoneIsNothing DEF StorageInv
  <2>2. CASE folder' = folder
    BY <1>1, <2>2
  <2>3. ASSUME NEW g \in Folders, CreateFolder(g) PROVE FALSE
    BY <1>1, <2>1, <2>3 DEF CreateFolder, TypeOK
  <2>4. ASSUME NEW s \in Requests, FolderDeleted(s) PROVE FALSE
    <3>1. folder' = [folder EXCEPT ![request[s].folder] = "deleted"]
      BY <2>4 DEF FolderDeleted
    <3>2. QED BY <1>1, <2>1, <3>1 DEF TypeOK
  <2>5. ASSUME NEW s \in Requests, Inserting(s)
        PROVE  Inserting(r) /\ request[r].left = {}
    <3>1. folder' = IF request[s].op = "import"
                    THEN [folder EXCEPT ![request[s].folder] = "active"] ELSE folder
      BY <2>5 DEF Inserting
    <3>2. request[s].op = "import" /\ request[s].folder = f
      BY <1>1, <2>1, <3>1 DEF TypeOK
    <3>3. s = r
      BY <1>1, <2>1, <3>2 DEF Apart
    <3>4. QED BY <2>5, <3>3 DEF Inserting
  <2>6. Inserting(r) /\ request[r].left = {}
    <3>1. ASSUME NEW o \in Objects, FileDeleted(o) PROVE FALSE
      BY <1>1, <3>1 DEF FileDeleted
    <3>2. QED BY <1>1, <2>1, <2>2, <2>3, <2>4, <2>5, <3>1, TableWriters
  <2>7. QED BY <1>1, <2>6, ImportedContent
<1>2. StorageInv /\ [Next]_vars =>
        [\A r \in Requests, f \in Folders :
           request[r].op = "import" /\ request[r].folder = f
             /\ folder[f] = "none" /\ folder'[f] = "active"
             => {files'[o].content : o \in ActiveFiles(f)'}
                  = {item[2].content : item \in request[r].left \cup request[r].rows}]_vars
  BY <1>1
<1>3. QED BY <1>2, StorageInvariant, PTL DEF Spec, RestoreIsWhole

-----------------------------------------------------------------------------
(* The service implements the archive that its clients see.                 *)

\* An active folder stays so in every step but the deletion of that folder, and a
\* deleted one stays deleted
LEMMA FolderMoves ==
  ASSUME StorageInv, [Next]_vars, NEW f \in Folders
  PROVE  \/ folder'[f] = folder[f]
         \/ folder[f] = "none" /\ folder'[f] = "active"
         \/ \E r \in Requests : /\ FolderDeleted(r) /\ request[r].folder = f
                                /\ request'[r].at # "commit"
<1>1. TypeOK
  BY DEF StorageInv
<1>2. ASSUME NEW g \in Folders, CreateFolder(g)
      PROVE  folder'[f] = folder[f] \/ (folder[f] = "none" /\ folder'[f] = "active")
  BY <1>1, <1>2 DEF CreateFolder, TypeOK
<1>3. ASSUME NEW r \in Requests, Inserting(r)
      PROVE  folder'[f] = folder[f] \/ (folder[f] = "none" /\ folder'[f] = "active")
  <2>1. /\ request[r].folder \in Folders
        /\ request[r].op = "import" => folder[request[r].folder] = "none"
    <3>1. request[r].folder \in Folders /\ request[r].folder # None
      BY <1>3, InsertedFacts, NoneIsNothing
    <3>2. Target(r)
      BY DEF StorageInv, Sound
    <3>3. QED BY <3>1, <3>2 DEF Target
  <2>2. folder' = IF request[r].op = "import"
                  THEN [folder EXCEPT ![request[r].folder] = "active"] ELSE folder
    BY <1>3 DEF Inserting
  <2>3. QED BY <1>1, <2>1, <2>2 DEF TypeOK
<1>4. ASSUME NEW r \in Requests, FolderDeleted(r), request[r].folder # f
      PROVE  folder'[f] = folder[f]
  <2>1. folder' = [folder EXCEPT ![request[r].folder] = "deleted"]
    BY <1>4 DEF FolderDeleted
  <2>2. QED BY <1>1, <1>4, <2>1 DEF TypeOK
<1>5. ASSUME NEW o \in Objects, FileDeleted(o) PROVE folder' = folder
  BY <1>5 DEF FileDeleted
<1>6. QED BY <1>1, <1>2, <1>3, <1>4, <1>5, TableWriters

\* A PUT replaces the file of its own path
Replacing ==
  \A r \in Requests : request[r].at = "commit" /\ request[r].replaced # None =>
    \E row \in request[r].rows :
      LET old == files[request[r].replaced] IN
      /\ old # NoFile /\ request[r].rows = {row}
      /\ old.folder = request[r].folder /\ old.path = row[2].path

\* A folder is deleted by one request, which holds its row
Holds(r) == request[r].op = "delete folder" /\ request[r].at = "commit"
Deleting ==
  /\ \A r \in Requests : Holds(r) => folder[request[r].folder] = "active"
  /\ \A r, s \in Requests : Holds(r) /\ Holds(s) /\ request[r].folder = request[s].folder => r = s

\* What a request replaces it has looked up, and what it deletes it has locked
LEMMA CommitsSince ==
  ASSUME StorageInv, [Next]_vars, NEW r \in Requests, request'[r].at = "commit",
         request'[r].replaced # None \/ request'[r].op = "delete folder"
  PROVE  \/ request'[r] = request[r]
         \/ Lookup(r) /\ UNCHANGED <<files, folder>>
         \/ \E f \in Folders : LockFolder(r, f)
<1> DEFINE Goal == \/ request'[r] = request[r]
                   \/ Lookup(r) /\ UNCHANGED <<files, folder>>
                   \/ \E f \in Folders : LockFolder(r, f)
           Aims(q) == q.at = "commit" /\ (q.replaced # None \/ q.op = "delete folder")
<1>1. TypeOK /\ Aims(request'[r])
  BY DEF StorageInv
<1>2. ~Aims(Idle)
  BY IdleFields
<1>3. ASSUME request'[r] = request[r] PROVE Goal
  BY <1>3
<1>4. ASSUME NEW s \in Requests, NEW q, request' = [request EXCEPT ![s] = q], ~Aims(q)
      PROVE  Goal
  BY <1>1, <1>3, <1>4 DEF TypeOK
<1>5. ASSUME NEW s \in Requests, NEW q, request' = [request EXCEPT ![s] = q], s # r
      PROVE  Goal
  BY <1>1, <1>3, <1>5 DEF TypeOK
<1> HIDE DEF Aims
<1>6. ASSUME NEW s \in Requests, Goes(s, Idle) PROVE Goal
  BY <1>2, <1>4, <1>6 DEF Goes
<1>7. ASSUME NEW s \in Requests, NEW objects, ThenRemove(s, objects) PROVE Goal
  <2>1. ASSUME NEW op PROVE ~Aims([Idle EXCEPT !.op = op, !.at = "remove", !.gone = objects])
    BY DEF Aims, Idle
  <2>2. CASE objects = {}
    BY <1>6, <1>7, <2>2 DEF ThenRemove
  <2>3. CASE objects # {}
    BY <1>4, <1>7, <2>1, <2>3 DEF ThenRemove, Goes
  <2>4. QED BY <2>2, <2>3
<1>8. ASSUME UNCHANGED vars \/ \E f \in Folders : CreateFolder(f) PROVE Goal
  BY <1>3, <1>8 DEF vars, CreateFolder
<1>9. ASSUME NEW s \in Requests, NEW f \in Folders,
             StartImport(s, f) \/ LockFolder(s, f) \/ StartExport(s, f)
      PROVE  Goal
  <2>1. CASE StartImport(s, f)
    <3>1. PICK left, ds :
            request' = [request EXCEPT ![s] =
                          [Idle EXCEPT !.op = "import", !.at = "commit", !.folder = f,
                                       !.left = left, !.dirs = ds]]
      BY <2>1 DEF StartImport, Goes
    <3>2. ~Aims([Idle EXCEPT !.op = "import", !.at = "commit", !.folder = f,
                             !.left = left, !.dirs = ds])
      <4>1. "import" # "delete folder"
        OBVIOUS
      <4> DEFINE op == "delete folder"
      <4> HIDE DEF op
      <4>2. [Idle EXCEPT !.op = "import", !.at = "commit", !.folder = f,
                         !.left = left, !.dirs = ds].op = "import"
        BY DEF Idle
      <4>3. [Idle EXCEPT !.op = "import", !.at = "commit", !.folder = f,
                         !.left = left, !.dirs = ds].replaced = None
        BY DEF Idle
      <4>4. QED BY <4>1, <4>2, <4>3 DEF Aims
    <3>3. QED BY <1>4, <3>1, <3>2
  <2>2. CASE LockFolder(s, f)
    <3>1. PICK q : request' = [request EXCEPT ![s] = q]
      BY <2>2 DEF LockFolder, Goes
    <3>2. QED BY <1>5, <2>2, <3>1
  <2>3. CASE StartExport(s, f)
    <3>1. request' = [request EXCEPT ![s] =
                        [Idle EXCEPT !.op = "export", !.at = "files", !.folder = f]]
      BY <2>3 DEF StartExport, Goes
    <3>2. [Idle EXCEPT !.op = "export", !.at = "files", !.folder = f].at = "files"
      BY DEF Idle
    <3>3. ~Aims([Idle EXCEPT !.op = "export", !.at = "files", !.folder = f])
      BY <3>2 DEF Aims
    <3>4. QED BY <1>4, <3>1, <3>3
  <2>4. QED BY <1>9, <2>1, <2>2, <2>3
<1>10. ASSUME NEW s \in Requests, NEW f \in Folders,
              \/ \E d \in Dirs : StartMkcol(s, f, d)
              \/ \E p \in Paths, o \in Objects : StartUpload(s, f, p, o) \/ StartPut(s, f, p, o)
       PROVE  Goal
  <2>1. ASSUME NEW d \in Dirs, StartMkcol(s, f, d) PROVE Goal
    <3>1. request' = [request EXCEPT ![s] =
                        [Idle EXCEPT !.op = "mkcol", !.at = "commit", !.folder = f, !.dirs = {d}]]
      BY <2>1 DEF StartMkcol, Goes
    <3>2. /\ [Idle EXCEPT !.op = "mkcol", !.at = "commit", !.folder = f, !.dirs = {d}].op = "mkcol"
          /\ [Idle EXCEPT !.op = "mkcol", !.at = "commit", !.folder = f, !.dirs = {d}].replaced
               = None
      BY DEF Idle
    <3>3. ~Aims([Idle EXCEPT !.op = "mkcol", !.at = "commit", !.folder = f, !.dirs = {d}])
      BY <3>2 DEF Aims
    <3>4. QED BY <1>4, <3>1, <3>3
  <2>2. ASSUME NEW op, NEW p, NEW o, StartWriting(s, op, f, p, o) PROVE Goal
    <3> DEFINE q == [Idle EXCEPT !.op = op, !.at = "write", !.folder = f, !.object = o,
                                 !.item = [path |-> p, copy |-> FALSE, content |-> o]]
    <3>1. request' = [request EXCEPT ![s] = q]
      BY <2>2 DEF StartWriting, Goes
    <3>2. q.at = "write"
      BY DEF Idle
    <3> HIDE DEF q
    <3>3. ~Aims(q)
      BY <3>2 DEF Aims
    <3>4. QED BY <1>4, <3>1, <3>3
  <2>3. QED BY <1>10, <2>1, <2>2 DEF StartUpload, StartPut
<1>11. ASSUME NEW s \in Requests, NEW o \in Objects, DeleteFile(s, o) \/ Remove(s, o)
       PROVE  Goal
  <2>1. CASE DeleteFile(s, o)
    <3> DEFINE q == [Idle EXCEPT !.op = "delete file", !.at = "remove", !.gone = {o}]
    <3>1. request' = [request EXCEPT ![s] = q]
      BY <2>1 DEF DeleteFile, Goes
    <3>2. q.at = "remove"
      BY DEF Idle
    <3> HIDE DEF q
    <3>3. ~Aims(q)
      BY <3>2 DEF Aims
    <3>4. QED BY <1>4, <3>1, <3>3
  <2>2. CASE Remove(s, o)
    BY <1>7, <2>2 DEF Remove
  <2>3. QED BY <1>11, <2>1, <2>2
<1>12. ASSUME NEW s \in Requests, NEW o \in Objects, NEW item \in request[s].left,
              ImportFile(s, o, item)
       PROVE  Goal
  <2>1. PICK q : /\ q = [request[s] EXCEPT !.at = "write", !.object = o, !.item = item[2],
                                           !.left = @ \ {item}]
                 /\ request' = [request EXCEPT ![s] = q]
    BY <1>12 DEF ImportFile, Goes
  <2>2. q.at = "write"
    BY <1>1, <2>1, RequestFields DEF Request
  <2>3. ~Aims(q)
    BY <2>2 DEF Aims
  <2>4. QED BY <1>4, <2>1, <2>3
<1>13. ASSUME NEW s \in Requests, Write(s) PROVE Goal
  <2>1. PICK q : /\ q = [request[s] EXCEPT !.at = IF request[s].op = "put" THEN "lookup"
                                                  ELSE "commit",
                           !.rows = @ \cup {<<request[s].object, request[s].item>>},
                           !.object = None, !.item = None]
                 /\ request' = [request EXCEPT ![s] = q] /\ request[s].at = "write"
    BY <1>13 DEF Write, Goes
  <2>2. /\ q.at = (IF request[s].op = "put" THEN "lookup" ELSE "commit")
        /\ q.op = request[s].op /\ q.replaced = request[s].replaced
    BY <1>1, <2>1, RequestFields DEF Request
  <2>3. /\ request[s].op \in Writers
        /\ request[s].replaced # None => request[s].op = "put"
    BY <2>1 DEF StorageInv, Sound, Shape
  <2>4. ~Aims(q)
    <3>1. request[s].op # "delete folder"
      BY <2>3 DEF Writers
    <3>2. CASE request[s].op = "put"
      BY <2>2, <3>2 DEF Aims
    <3>3. CASE request[s].op # "put"
      BY <2>2, <2>3, <3>1, <3>3 DEF Aims
    <3>4. QED BY <3>2, <3>3
  <2>5. QED BY <1>4, <2>1, <2>4
<1>14. ASSUME NEW s \in Requests, Lookup(s) PROVE Goal
  <2>1. PICK q : request' = [request EXCEPT ![s] = q]
    BY <1>14 DEF Lookup, Goes
  <2>2. UNCHANGED <<files, folder>>
    BY <1>14 DEF Lookup
  <2>3. QED BY <1>5, <1>14, <2>1, <2>2
<1>15. ASSUME NEW s \in Requests, Commit(s) \/ DeleteFolder(s) PROVE Goal
  BY <1>7, <1>15 DEF Commit, DeleteFolder
<1>16. ASSUME NEW s \in Requests, NEW q, request' = [request EXCEPT ![s] = q], q.at # "commit"
       PROVE  Goal
  BY <1>4, <1>16 DEF Aims
<1>17. ASSUME NEW s \in Requests, ListFiles(s) \/ ListCollections(s) PROVE Goal
  <2>1. request[s] \in Request
    BY <1>1, RequestFields
  <2>2. CASE ListFiles(s)
    <3> DEFINE q == [request[s] EXCEPT !.at = "collections", !.left = Listing(request[s].folder)]
    <3>1. request' = [request EXCEPT ![s] = q]
      BY <2>2 DEF ListFiles, Goes
    <3>2. q.at = "collections"
      BY <2>1 DEF Request
    <3> HIDE DEF q
    <3>3. QED BY <1>16, <3>1, <3>2
  <2>3. CASE ListCollections(s)
    <3> DEFINE q == [request[s] EXCEPT !.at = "copy", !.rows = request[s].left,
                       !.dirs = {d \in Dirs : <<request[s].folder, d>> \in dirs}]
    <3>1. request' = [request EXCEPT ![s] = q]
      BY <2>3 DEF ListCollections, Goes
    <3>2. q.at = "copy"
      BY <2>1 DEF Request
    <3> HIDE DEF q
    <3>3. QED BY <1>16, <3>1, <3>2
  <2>4. QED BY <1>17, <2>2, <2>3
<1>18. ASSUME NEW s \in Requests, NEW item \in request[s].left, CopyFile(s, item) PROVE Goal
  <2> DEFINE q == [request[s] EXCEPT !.left = @ \ {item}]
  <2>1. request' = [request EXCEPT ![s] = q] /\ request[s].at = "copy"
    BY <1>18 DEF CopyFile, At, Goes
  <2>2. q.at = request[s].at
    BY <1>1, RequestFields DEF Request
  <2> HIDE DEF q
  <2>3. q.at # "commit"
    BY <2>1, <2>2
  <2>4. QED BY <1>16, <2>1, <2>3
<1>19. ASSUME NEW s \in Requests, FinishBackup(s) \/ Fail(s) \/ LoseAnswer(s) PROVE Goal
  BY <1>6, <1>19 DEF FinishBackup, Fail, LoseAnswer
<1>20. ASSUME NEW s \in Requests, NEW item \in request[s].left, TruncateBackup(s, item)
       PROVE  Goal
  BY <1>6, <1>20 DEF TruncateBackup
<1>21. ASSUME Crash PROVE Goal
  <2>1. request'[r] = Idle
    BY <1>21 DEF Crash
  <2>2. QED BY <1>1, <1>2, <2>1
<1> HIDE DEF Goal
<1>22. Goal
  <2>1. ASSUME NEW s \in Requests, NEW f \in Folders,
               \/ StartImport(s, f) \/ LockFolder(s, f) \/ StartExport(s, f)
               \/ \E d \in Dirs : StartMkcol(s, f, d)
               \/ \E p \in Paths, o \in Objects : StartUpload(s, f, p, o) \/ StartPut(s, f, p, o)
        PROVE  Goal
    BY <1>9, <1>10, <2>1
  <2>2. ASSUME NEW s \in Requests, NEW o \in Objects,
               \/ DeleteFile(s, o) \/ Remove(s, o)
               \/ \E item \in request[s].left : ImportFile(s, o, item)
        PROVE  Goal
    BY <1>11, <1>12, <2>2
  <2>3. ASSUME NEW s \in Requests, Write(s) \/ Lookup(s) \/ Commit(s) \/ DeleteFolder(s)
        PROVE  Goal
    BY <1>13, <1>14, <1>15, <2>3
  <2>4. ASSUME NEW s \in Requests, ListFiles(s) \/ ListCollections(s) \/ FinishBackup(s)
        PROVE  Goal
    BY <1>17, <1>19, <2>4
  <2>5. ASSUME NEW s \in Requests, NEW item \in request[s].left,
               CopyFile(s, item) \/ TruncateBackup(s, item)
        PROVE  Goal
    BY <1>18, <1>20, <2>5
  <2>6. ASSUME NEW s \in Requests, Fail(s) \/ LoseAnswer(s) PROVE Goal
    BY <1>19, <2>6
  <2>7. QED BY <1>8, <1>21, <2>1, <2>2, <2>3, <2>4, <2>5, <2>6 DEF Next
<1>23. QED BY <1>22 DEF Goal

\* A file that came into the archive keeps its place, its content and what it replaced
LEMMA PlaceStays ==
  ASSUME StorageInv, [Next]_vars, NEW o \in Objects, files[o] # NoFile
  PROVE  /\ files'[o] # NoFile
         /\ files'[o].folder = files[o].folder /\ files'[o].path = files[o].path
         /\ files'[o].content = files[o].content /\ files'[o].replaces = files[o].replaces
<1>1. TypeOK /\ files[o] \in File
  BY DEF StorageInv, TypeOK
<1>2. NoFile.status = "none"
  BY DEF NoFile
<1>3. CASE files'[o] = files[o]
  BY <1>3
<1>4. CASE TakenAway(o)
  BY <1>2, <1>4 DEF TakenAway
<1>5. ASSUME NEW r \in Requests, Inserting(r) PROVE files'[o] = files[o] \/ TakenAway(o)
  <2>1. o \notin New(r)
    BY <1>5, InsertedFacts
  <2>2. CASE o # request[r].replaced
    BY <1>5, <2>1, <2>2, InsertedFacts
  <2>3. CASE o = request[r].replaced
    <3>1. /\ files'[o] = [files[o] EXCEPT !.status = "deleted", !.entry = FALSE]
          /\ Active(o)
      BY <1>5, <2>3, InsertedFacts, NoneIsNothing
    <3>2. QED BY <1>1, <3>1, DeletedRow DEF TakenAway, Made, Active
  <2>4. QED BY <2>2, <2>3
<1>6. ASSUME NEW r \in Requests, FolderDeleted(r) PROVE files'[o] = files[o] \/ TakenAway(o)
  BY <1>6, FolderDeletedFacts DEF Deletion
<1>7. ASSUME NEW x \in Objects, FileDeleted(x) PROVE files'[o] = files[o] \/ TakenAway(o)
  BY <1>7, FileDeletedFacts DEF Deletion
<1>8. ASSUME NEW f \in Folders, CreateFolder(f) PROVE files' = files
  BY <1>8 DEF CreateFolder
<1>9. QED BY <1>1, <1>3, <1>4, <1>5, <1>6, <1>7, <1>8, TableWriters

\* handleAdminDAVPut replaces the file it found under its own path
LEMMA ReplacingStep ==
  ASSUME StorageInv, Replacing, [Next]_vars
  PROVE  Replacing'
<1>1. TypeOK
  BY DEF StorageInv
<1> SUFFICES ASSUME NEW r \in Requests, request'[r].at = "commit", request'[r].replaced # None
             PROVE  \E row \in request'[r].rows :
                      /\ files'[request'[r].replaced] # NoFile /\ request'[r].rows = {row}
                      /\ files'[request'[r].replaced].folder = request'[r].folder
                      /\ files'[request'[r].replaced].path = row[2].path
  BY DEF Replacing
<1>2. CASE request'[r] = request[r]
  <2>1. request[r].replaced \in Objects
    BY <1>1, <1>2, RequestFields
  <2>2. QED BY <1>2, <2>1, PlaceStays DEF Replacing
<1>3. CASE Lookup(r) /\ UNCHANGED <<files, folder>>
  <2> DEFINE q == request[r]
             p == (CHOOSE row \in q.rows : TRUE)[2].path
  <2>1. q.op = "put" /\ q.at = "lookup"
    BY <1>3 DEF Lookup, At
  <2>2. PICK row \in Row : q.rows = {row}
    BY <2>1 DEF StorageInv, Sound, Shape
  <2>3. p = row[2].path
    BY <2>2
  <2>4. PICK found : /\ request' = [request EXCEPT ![r] =
                                      [q EXCEPT !.at = "commit", !.replaced = found]]
                     /\ found # None => /\ Plain(q.folder, p) # {}
                                         /\ found = Shown(q.folder, p)
    BY <1>3 DEF Lookup, Goes
  <2> HIDE DEF p
  <2>5. /\ request'[r].rows = q.rows /\ request'[r].folder = q.folder
        /\ request'[r].replaced = found
    BY <1>1, <2>4, RequestFields DEF TypeOK, Request
  <2>6. found \in Plain(q.folder, p)
    BY <2>4, <2>5, ShownIsFile
  <2>7. files[found].folder = q.folder /\ files[found].path = p /\ files[found].status = "active"
    BY <2>6 DEF Plain, ActiveFiles, Active
  <2>8. files[found] # NoFile
    BY <2>7 DEF NoFile
  <2>9. QED BY <1>3, <2>2, <2>3, <2>5, <2>7, <2>8
<1>4. ASSUME NEW f \in Folders, LockFolder(r, f) PROVE FALSE
  <2> DEFINE q == [Idle EXCEPT !.op = "delete folder", !.at = "commit", !.folder = f,
                               !.gone = ActiveFiles(f)]
  <2>1. request' = [request EXCEPT ![r] = q]
    BY <1>4 DEF LockFolder, Goes
  <2>2. q.replaced = None
    BY DEF Idle
  <2> HIDE DEF q
  <2>3. QED BY <1>1, <2>1, <2>2 DEF TypeOK
<1>5. QED BY <1>2, <1>3, <1>4, CommitsSince

\* What LockFolder does to the requests
LEMMA LockFolderFacts ==
  ASSUME TypeOK, NEW r \in Requests, NEW f \in Folders, LockFolder(r, f)
  PROVE  /\ request'[r].folder = f
         /\ \A s \in Requests : s # r => request'[s] = request[s]
         /\ folder[f] = "active" /\ folder' = folder
         /\ \A s \in Requests : Holds(s) => request[s].folder # f
<1> DEFINE q == [Idle EXCEPT !.op = "delete folder", !.at = "commit", !.folder = f,
                             !.gone = ActiveFiles(f)]
<1>1. request' = [request EXCEPT ![r] = q]
  BY DEF LockFolder, Goes
<1>2. q.folder = f
  BY DEF Idle
<1> HIDE DEF q
<1>3. request'[r].folder = f /\ \A s \in Requests : s # r => request'[s] = request[s]
  BY <1>1, <1>2 DEF TypeOK
<1>4. folder[f] = "active" /\ folder' = folder
  BY DEF LockFolder
<1>5. \A s \in Requests : Holds(s) => request[s].folder # f
  BY DEF LockFolder, Locked, Holds
<1>6. QED BY <1>3, <1>4, <1>5

\* SELECT ... FOR UPDATE of an active folder: who has its row is the only one to end it
LEMMA DeletingStep ==
  ASSUME StorageInv, Deleting, [Next]_vars
  PROVE  Deleting'
<1>1. TypeOK
  BY DEF StorageInv
<1>2. ASSUME NEW r \in Requests, Holds(r)'
      PROVE  \/ Holds(r) /\ request'[r] = request[r]
             \/ \E f \in Folders : LockFolder(r, f)
  <2>1. request'[r].op = "delete folder" /\ request'[r].at = "commit"
    BY <1>2 DEF Holds
  <2>2. CASE request'[r] = request[r]
    BY <2>1, <2>2 DEF Holds
  <2>3. CASE Lookup(r)
    <3>1. request[r].op = "put"
      BY <2>3 DEF Lookup, At
    <3>2. PICK found : request' = [request EXCEPT ![r] =
                                     [request[r] EXCEPT !.at = "commit", !.replaced = found]]
      BY <2>3 DEF Lookup, Goes
    <3>3. request'[r].op = request[r].op
      BY <1>1, <3>2, RequestFields DEF TypeOK, Request
    <3>4. QED BY <2>1, <3>1, <3>3
  <2>4. QED BY <2>1, <2>2, <2>3, CommitsSince
<1>3. ASSUME NEW r \in Requests, Holds(r)' PROVE folder'[request'[r].folder] = "active"
  <2>1. CASE Holds(r) /\ request'[r] = request[r]
    <3>1. request[r].folder \in Folders /\ folder[request[r].folder] = "active"
      BY <2>1 DEF Deleting, Holds, StorageInv, Sound, Shape
    <3>2. ASSUME NEW s \in Requests, FolderDeleted(s), request[s].folder = request[r].folder,
                 request'[s].at # "commit"
          PROVE  FALSE
      <4>1. Holds(s)
        BY <3>2 DEF FolderDeleted, At, Holds
      <4>2. s = r
        BY <2>1, <3>2, <4>1 DEF Deleting
      <4>3. QED BY <1>3, <3>2, <4>2 DEF Holds
    <3>3. QED BY <2>1, <3>1, <3>2, FolderMoves
  <2>2. ASSUME NEW f \in Folders, LockFolder(r, f) PROVE folder'[request'[r].folder] = "active"
    BY <1>1, <2>2, LockFolderFacts
  <2>3. QED BY <1>2, <1>3, <2>1, <2>2
<1>4. ASSUME NEW r \in Requests, NEW s \in Requests, Holds(r)', Holds(s)',
             request'[r].folder = request'[s].folder, r # s
      PROVE  FALSE
  <2>1. CASE Holds(r) /\ Holds(s) /\ request'[r] = request[r] /\ request'[s] = request[s]
    BY <1>4, <2>1 DEF Deleting
  <2>2. ASSUME NEW a \in Requests, NEW b \in Requests, NEW f \in Folders, a # b,
               Holds(b)', request'[a].folder = request'[b].folder, LockFolder(a, f)
        PROVE  FALSE
    <3>1. /\ request'[b] = request[b] /\ request'[a].folder = f
          /\ Holds(b) => request[b].folder # f
      BY <1>1, <2>2, LockFolderFacts
    <3>2. Holds(b)
      BY <2>2, <3>1 DEF Holds
    <3>3. QED BY <2>2, <3>1, <3>2
  <2>3. QED BY <1>2, <1>4, <2>1, <2>2
<1>5. QED BY <1>3, <1>4 DEF Deleting

\* Handlers write and remove on disk what no file is active for: an object nobody has
\* used, their own or one whose row is deleted
LEMMA DiskWriters ==
  ASSUME StorageInv, [Next]_vars, NEW o \in Objects, disk'[o] # disk[o]
  PROVE  Unused(o) \/ \E r \in Requests : o \in Own(r) \/ Removing(r, o)
<1> DEFINE Goal == Unused(o) \/ \E r \in Requests : o \in Own(r) \/ Removing(r, o)
<1>1. TypeOK
  BY DEF StorageInv
<1>2. ASSUME UNCHANGED disk PROVE Goal
  BY <1>2
<1>3. ASSUME NEW x, Unused(x), NEW d, disk' = [disk EXCEPT ![x] = d] PROVE Goal
  BY <1>1, <1>3 DEF TypeOK
<1>4. ASSUME NEW r \in Requests, NEW removed, Cleaned(r, removed) PROVE Goal
  BY <1>4 DEF Cleaned
<1>5. ASSUME NEW r \in Requests, Write(r) PROVE Goal
  <2>1. PICK x : x = request[r].object
    OBVIOUS
  <2>2. x \in Own(r)
    <3>1. request[r].op \in Writers /\ request[r].object \in Objects
      BY <1>5 DEF Write, StorageInv, Sound, Shape
    <3>2. QED BY <2>1, <3>1, NoneIsNothing DEF Own, Uses, Writers
  <2>3. PICK d : disk' = [disk EXCEPT ![x] = d]
    BY <1>5, <2>1 DEF Write
  <2>4. QED BY <1>1, <2>2, <2>3 DEF TypeOK
<1>6. ASSUME NEW r \in Requests, NEW x \in Objects, Remove(r, x) PROVE Goal
  <2>1. Removing(r, x)
    BY <1>6 DEF Remove, Removing
  <2>2. disk' = [disk EXCEPT ![x] = None] \/ UNCHANGED disk
    BY <1>6 DEF Remove
  <2>3. QED BY <1>1, <2>1, <2>2 DEF TypeOK
<1>7. ASSUME NEW r \in Requests, NEW f \in Folders, NEW p \in Paths, NEW x \in Objects,
             StartUpload(r, f, p, x) \/ StartPut(r, f, p, x)
      PROVE  Goal
  BY <1>3, <1>7 DEF StartUpload, StartPut, StartWriting
<1>8. ASSUME NEW r \in Requests, NEW x \in Objects, NEW item, ImportFile(r, x, item)
      PROVE  Goal
  BY <1>3, <1>8 DEF ImportFile
<1>9. ASSUME NEW r \in Requests, Fail(r) \/ LoseAnswer(r) PROVE Goal
  BY <1>4, <1>9 DEF Fail, LoseAnswer
<1> HIDE DEF Goal
<1>10. ASSUME UNCHANGED vars \/ Crash \/ \E f \in Folders : CreateFolder(f) PROVE Goal
  BY <1>2, <1>10 DEF vars, Crash, CreateFolder
<1>11. ASSUME NEW r \in Requests, NEW f \in Folders,
              \/ StartImport(r, f) \/ LockFolder(r, f) \/ StartExport(r, f)
              \/ \E d \in Dirs : StartMkcol(r, f, d)
       PROVE  Goal
  BY <1>2, <1>11 DEF StartImport, LockFolder, StartExport, StartMkcol
<1>12. ASSUME NEW r \in Requests, NEW x \in Objects, DeleteFile(r, x) PROVE Goal
  BY <1>2, <1>12 DEF DeleteFile
<1>13. ASSUME NEW r \in Requests, Lookup(r) \/ Commit(r) \/ DeleteFolder(r) PROVE Goal
  BY <1>2, <1>13 DEF Lookup, Commit, DeleteFolder
<1>14. ASSUME NEW r \in Requests, ListFiles(r) \/ ListCollections(r) \/ FinishBackup(r)
       PROVE  Goal
  BY <1>2, <1>14 DEF ListFiles, ListCollections, FinishBackup
<1>15. ASSUME NEW r \in Requests, NEW item \in request[r].left,
              CopyFile(r, item) \/ TruncateBackup(r, item)
       PROVE  Goal
  BY <1>2, <1>15 DEF CopyFile, TruncateBackup
<1>16. Goal
  BY <1>5, <1>6, <1>7, <1>8, <1>9, <1>10, <1>11, <1>12, <1>13, <1>14, <1>15 DEF Next
<1>17. QED BY <1>16 DEF Goal

\* No step touches the data of a file that is active
LEMMA DiskStays ==
  ASSUME StorageInv, [Next]_vars, NEW o \in Objects, Active(o)
  PROVE  disk'[o] = disk[o]
<1>1. files[o] # NoFile /\ files[o].status # "deleted"
  BY DEF Active, NoFile
<1>2. ~Unused(o)
  BY <1>1 DEF Unused
<1>3. ASSUME NEW r \in Requests, o \in Own(r) PROVE FALSE
  BY <1>1, <1>3 DEF StorageInv, Sound, Writes, Own, Writers
<1>4. ASSUME NEW r \in Requests, Removing(r, o) PROVE FALSE
  BY <1>1, <1>4 DEF StorageInv, Sound, Deletes, Removing
<1>5. QED BY <1>2, <1>3, <1>4, DiskWriters

\* Once a file is active its data is not touched any more as long as it is, by no failing
\* upload, removal of an old version, deletion or import beside it, lost answers included
ActiveDataStays == [][\A o \in Objects : Active(o) => disk'[o] = disk[o]]_vars

THEOREM ActiveDataStaysCorrect == Spec => ActiveDataStays
<1>1. StorageInv /\ [Next]_vars => [\A o \in Objects : Active(o) => disk'[o] = disk[o]]_vars
  BY DiskStays
<1>2. QED BY <1>1, StorageInvariant, PTL DEF Spec, ActiveDataStays

\* A change of the tables is one of the archive: what comes was not there before, what
\* goes was, and what is there keeps its data
LEMMA TableChange ==
  ASSUME StorageInv, StorageInv', [Next]_vars,
         NEW come \in SUBSET Objects, NEW go \in SUBSET Objects,
         \A o \in come : files[o] = NoFile /\ Active(o)',
         \A o \in go : Active(o) /\ ~Active(o)',
         \A o \in Objects \ come : files'[o] = NoFile <=> files[o] = NoFile,
         \A o \in Objects : o \notin come /\ o \notin go => (Active(o)' <=> Active(o))
  PROVE  Archive!Change(come, go)
<1> DEFINE place == [o \in Objects |-> IF files[o] = NoFile THEN None
                                       ELSE <<files[o].folder, files[o].path>>]
           here == {o \in Objects : Active(o)}
           content == [o \in Objects |-> IF Active(o) THEN disk[o] ELSE None]
           replaced == [o \in Objects |-> files[o].replaces]
<1>1. \A o \in Objects : Active(o)' =>
        disk'[o] = files'[o].content \/ (LostAnswers /\ disk'[o] = None)
  BY DEF StorageInv, Stored, Active
<1>2. ASSUME NEW o \in Objects, Active(o)'
      PROVE  /\ files'[o].folder \in Folders /\ files'[o].path \in Paths
             /\ files'[o].content \in Objects /\ files'[o] # NoFile
  <2>1. RowsAreMade' /\ files'[o].status = "active"
    BY <1>2 DEF StorageInv, Tables, Active
  <2>2. NoFile.status = "none"
    BY DEF NoFile
  <2>3. QED BY <2>1, <2>2 DEF RowsAreMade, Made
<1>3. ASSUME NEW o \in come
      PROVE  /\ place[o] = None /\ place'[o] \in Folders \X Paths
             /\ content'[o] \in Objects \/ (LostAnswers /\ content'[o] = None)
  BY <1>1, <1>2, <1>3 DEF Active
<1>4. go \subseteq here
  BY DEF Active
<1>5. here' = (here \ go) \cup come
  BY DEF Active
<1>6. ASSUME NEW o \in Objects \ come
      PROVE  place'[o] = place[o] /\ replaced'[o] = replaced[o]
  <2>1. CASE files[o] = NoFile
    BY <2>1
  <2>2. CASE files[o] # NoFile
    BY <2>2, PlaceStays
  <2>3. QED BY <2>1, <2>2
<1>7. ASSUME NEW o \in here \ go PROVE content'[o] = content[o]
  <2>1. Active(o) /\ Active(o)'
    BY <1>7 DEF Active
  <2>2. QED BY <2>1, DiskStays
<1>8. QED BY <1>3, <1>4, <1>5, <1>6, <1>7 DEF Archive!Change

\* Steps that touch neither files nor protected_folders are not seen by the clients
LEMMA Unseen ==
  ASSUME StorageInv, [Next]_vars, files' = files, folder' = folder
  PROVE  UNCHANGED Archive!vars
<1>1. \A o \in Objects : Active(o) => disk'[o] = disk[o]
  BY DiskStays
<1>2. \A o \in Objects : (Active(o)' <=> Active(o)) /\ (Active(o) => disk'[o] = disk[o])
  BY <1>1 DEF Active
<1>3. {o \in Objects : Active(o)}' = {o \in Objects : Active(o)}
  BY <1>2
<1>4. [o \in Objects |-> IF Active(o) THEN disk[o] ELSE None]'
        = [o \in Objects |-> IF Active(o) THEN disk[o] ELSE None]
  BY <1>2
<1>5. QED BY <1>3, <1>4 DEF Archive!vars

\* An upload, a PUT that replaces nothing, or a MKCOL
LEMMA InsertedIsAdded ==
  ASSUME StorageInv, StorageInv', [Next]_vars,
         NEW r \in Requests, Inserting(r), request[r].op # "import", request[r].replaced = None
  PROVE  Archive!Next \/ UNCHANGED Archive!vars
<1> DEFINE q == request[r]
<1>1. TypeOK
  BY DEF StorageInv
<1>2. /\ folder' = folder /\ q.at = "commit" /\ q.folder \in Folders
      /\ q.op \in {"upload", "put", "mkcol"}
  BY InsertedFacts DEF Inserting
<1>3. folder[q.folder] # "none" /\ \A a, b \in q.rows : a = b
  <2>1. Target(r) /\ Shape(r)
    BY DEF StorageInv, Sound
  <2>2. q.folder # None /\ q.op # "import"
    BY <1>2, NoneIsNothing
  <2>3. QED BY <1>2, <2>1, <2>2 DEF Target, Shape
<1>4. CASE New(r) = {}
  <2>1. \A o \in Objects : files'[o] = files[o]
    BY <1>4, InsertedElse, NoneIsNothing
  <2>2. files' = files
    BY <1>1, <2>1 DEF StorageInv, TypeOK
  <2>3. QED BY <1>2, <2>2, Unseen
<1>5. ASSUME NEW x \in New(r) PROVE Archive!Next
  <2>1. New(r) = {x} /\ x \in Objects
    <3>1. x \in Objects
      BY <1>5, InsertedFacts
    <3>2. \A a, b \in New(r) : a = b
      BY <1>3 DEF New
    <3>3. QED BY <1>5, <3>1, <3>2
  <2>2. /\ files[x] = NoFile /\ Active(x)' /\ files'[x].folder = q.folder
        /\ files'[x].replaces = None
        /\ \A o \in Objects : o # x => files'[o] = files[o]
    <3>1. /\ files[x] = NoFile /\ files'[x].status = "active" /\ files'[x].folder = q.folder
          /\ files'[x].replaces = None
      BY <1>5, InsertedRow
    <3>2. \A o \in Objects : o # x => files'[o] = files[o]
      BY <2>1, InsertedElse, NoneIsNothing
    <3>3. QED BY <3>1, <3>2 DEF Active
  <2>3. Archive!Change({x}, {})
    <3>1. \A o \in Objects : o \notin {x} /\ o \notin {} => (Active(o)' <=> Active(o))
      BY <2>2 DEF Active
    <3>2. \A o \in Objects \ {x} : files'[o] = NoFile <=> files[o] = NoFile
      BY <2>2
    <3>3. \A o \in {x} : files[o] = NoFile /\ Active(o)'
      BY <2>2 DEF Active
    <3>4. {x} \in SUBSET Objects /\ {} \in SUBSET Objects
      BY <2>1
    <3>5. QED BY <3>1, <3>2, <3>3, <3>4, TableChange
  <2>4. files'[x] # NoFile
    BY <2>2 DEF Active, NoFile
  <2>5. Archive!Add(x)
    BY <1>2, <1>3, <2>1, <2>2, <2>3, <2>4 DEF Archive!Add
  <2>6. QED BY <2>1, <2>5 DEF Archive!Next
<1>6. QED BY <1>4, <1>5

\* A PUT that replaces the file at its path
LEMMA InsertedIsReplaced ==
  ASSUME StorageInv, StorageInv', Replacing, [Next]_vars,
         NEW r \in Requests, Inserting(r), request[r].op # "import", request[r].replaced # None
  PROVE  Archive!Next
<1> DEFINE q == request[r]
<1>1. TypeOK
  BY DEF StorageInv
<1>2. folder' = folder /\ q.at = "commit"
  BY InsertedFacts DEF Inserting
<1>3. PICK old : old = q.replaced
  OBVIOUS
<1>4. PICK row \in q.rows : /\ files[old] # NoFile /\ q.rows = {row}
                            /\ files[old].folder = q.folder /\ files[old].path = row[2].path
  BY <1>2, <1>3 DEF Replacing
<1>5. PICK x : x = row[1]
  OBVIOUS
<1>6. New(r) = {x}
  BY <1>4, <1>5 DEF New
<1>7. x \in Objects /\ old \in Objects /\ x # old /\ Active(old)
  BY <1>3, <1>6, InsertedFacts
<1>8. /\ files[x] = NoFile /\ files'[x].status = "active" /\ files'[x].replaces = old
      /\ files'[x].folder = q.folder
  <2>1. x \in New(r)
    BY <1>6
  <2>2. QED BY <1>3, <2>1, InsertedRow
<1>9. \A o \in Objects : o # x /\ o # old => files'[o] = files[o]
  BY <1>3, <1>6, InsertedElse
<1>10. files'[x].path = row[2].path
  <2>1. files' = [o \in Objects |->
          IF o \in {w[1] : w \in q.rows}
            THEN [status |-> "active", folder |-> q.folder,
                  path |-> (CHOOSE w \in q.rows : w[1] = o)[2].path,
                  copy |-> (CHOOSE w \in q.rows : w[1] = o)[2].copy,
                  content |-> (CHOOSE w \in q.rows : w[1] = o)[2].content,
                  replaces |-> q.replaced, entry |-> TRUE]
          ELSE IF o = q.replaced THEN [files[o] EXCEPT !.status = "deleted", !.entry = FALSE]
          ELSE files[o]]
    BY DEF Inserting, Inserted
  <2>2. x \in {w[1] : w \in q.rows} /\ (CHOOSE w \in q.rows : w[1] = x) = row
    BY <1>4, <1>5
  <2>3. QED BY <1>7, <2>1, <2>2
<1>11. files'[old].status = "deleted"
  <2>1. files'[old] = [files[old] EXCEPT !.status = "deleted", !.entry = FALSE]
    BY <1>3, <1>7, InsertedFacts
  <2>2. files[old] \in File
    BY <1>1, <1>7 DEF TypeOK
  <2>3. QED BY <2>1, <2>2, DeletedRow
<1>12. NoFile.status = "none"
  BY DEF NoFile
<1>13. files'[x] # NoFile /\ files'[old] # NoFile
  BY <1>8, <1>11, <1>12
<1>14. Archive!Change({x}, {old})
  <2>1. \A o \in Objects : o \notin {x} /\ o \notin {old} => (Active(o)' <=> Active(o))
    BY <1>9 DEF Active
  <2>2. \A o \in Objects \ {x} : files'[o] = NoFile <=> files[o] = NoFile
    BY <1>4, <1>9, <1>13
  <2>3. \A o \in {x} : files[o] = NoFile /\ Active(o)'
    BY <1>8 DEF Active
  <2>4. \A o \in {old} : Active(o) /\ ~Active(o)'
    BY <1>7, <1>11 DEF Active
  <2>5. {x} \in SUBSET Objects /\ {old} \in SUBSET Objects
    BY <1>7
  <2>6. QED BY <2>1, <2>2, <2>3, <2>4, <2>5, TableChange
<1>15. Archive!Replace(x, old)
  BY <1>2, <1>4, <1>7, <1>8, <1>10, <1>13, <1>14 DEF Archive!Replace
<1>16. QED BY <1>7, <1>15 DEF Archive!Next

\* importFolderBackup
LEMMA InsertedIsRestored ==
  ASSUME StorageInv, StorageInv', [Next]_vars,
         NEW r \in Requests, Inserting(r), request[r].op = "import"
  PROVE  Archive!Next
<1> DEFINE q == request[r]
<1>1. TypeOK /\ Target(r) /\ Shape(r)
  BY DEF StorageInv, Sound
<1>2. /\ q.folder \in Folders /\ folder[q.folder] = "none" /\ q.replaced = None
      /\ folder' = [folder EXCEPT ![q.folder] = "active"]
  <2>1. q.folder \in Folders /\ q.folder # None
    BY InsertedFacts, NoneIsNothing
  <2>2. folder[q.folder] = "none"
    BY <1>1, <2>1 DEF Target
  <2>3. q.replaced = None
    BY <1>1 DEF Shape
  <2>4. QED BY <2>1, <2>2, <2>3 DEF Inserting
<1>3. PICK come : come = New(r)
  OBVIOUS
<1>4. /\ come \in SUBSET Objects
      /\ \A o \in come : /\ files[o] = NoFile /\ Active(o)' /\ files'[o].folder = q.folder
                         /\ files'[o].replaces = None
      /\ \A o \in Objects : o \notin come => files'[o] = files[o]
  <2>1. come \subseteq Objects
    BY <1>3, InsertedFacts
  <2>2. \A o \in come : /\ files[o] = NoFile /\ files'[o].status = "active"
                       /\ files'[o].folder = q.folder /\ files'[o].replaces = None
    BY <1>2, <1>3, InsertedRow
  <2>3. \A o \in Objects : o \notin come => files'[o] = files[o]
    BY <1>2, <1>3, InsertedElse, NoneIsNothing
  <2>4. QED BY <2>1, <2>2, <2>3 DEF Active
<1>5. Archive!Change(come, {})
  <2>1. \A o \in Objects : o \notin come /\ o \notin {} => (Active(o)' <=> Active(o))
    BY <1>4 DEF Active
  <2>2. \A o \in Objects \ come : files'[o] = NoFile <=> files[o] = NoFile
    BY <1>4
  <2>3. \A o \in come : files[o] = NoFile /\ Active(o)'
    BY <1>4
  <2>4. \A o \in {} : Active(o) /\ ~Active(o)'
    OBVIOUS
  <2>5. {} \in SUBSET Objects
    OBVIOUS
  <2>6. QED BY <1>4, <2>1, <2>2, <2>3, <2>4, <2>5, TableChange
<1>6. \A o \in come : files'[o] # NoFile
  BY <1>4 DEF Active, NoFile
<1>7. Archive!Restore(q.folder, come)
  BY <1>2, <1>4, <1>5, <1>6 DEF Archive!Restore
<1>8. QED BY <1>2, <1>4, <1>7 DEF Archive!Next

\* handleDeleteFile, and handleDeleteFolder, which deletes every file of its folder
LEMMA DeletedIsGone ==
  ASSUME StorageInv, StorageInv', Deleting, [Next]_vars
  PROVE  /\ \A o \in Objects : FileDeleted(o) => Archive!Next
         /\ \A r \in Requests : FolderDeleted(r) => Archive!Next
<1>1. TypeOK
  BY DEF StorageInv
<1>2. ASSUME NEW o \in Objects, FileDeleted(o) PROVE Archive!Next
  <2>1. /\ Active(o) /\ folder' = folder
        /\ files' = [files EXCEPT ![o].status = "deleted", ![o].entry = FALSE]
    BY <1>2 DEF FileDeleted
  <2>2. files'[o].status = "deleted" /\ \A x \in Objects : x # o => files'[x] = files[x]
    BY <1>1, <1>2, <2>1, FileDeletedFacts DEF TypeOK
  <2>3. Archive!Change({}, {o})
    <3>1. \A x \in Objects : x \notin {} /\ x \notin {o} => (Active(x)' <=> Active(x))
      BY <2>2 DEF Active
    <3>2. files'[o] # NoFile /\ files[o] # NoFile
      <4>1. NoFile.status = "none"
        BY DEF NoFile
      <4>2. QED BY <2>1, <2>2, <4>1 DEF Active
    <3>3. \A x \in Objects \ {} : files'[x] = NoFile <=> files[x] = NoFile
      BY <2>2, <3>2
    <3>4. \A x \in {o} : Active(x) /\ ~Active(x)'
      BY <2>1, <2>2 DEF Active
    <3>5. QED BY <3>1, <3>3, <3>4, TableChange
  <2>4. Archive!Delete(o)
    BY <2>1, <2>3 DEF Archive!Delete
  <2>5. QED BY <2>4 DEF Archive!Next
<1>3. ASSUME NEW r \in Requests, FolderDeleted(r) PROVE Archive!Next
  <2> DEFINE f == request[r].folder
  <2>1. Holds(r)
    BY <1>3 DEF FolderDeleted, At, Holds
  <2>2. f \in Folders /\ folder[f] = "active"
    BY <2>1 DEF Deleting, Holds, StorageInv, Sound, Shape
  <2>3. /\ folder' = [folder EXCEPT ![f] = "deleted"]
        /\ files' = [o \in Objects |->
                       IF files[o].folder # f THEN files[o]
                       ELSE [files[o] EXCEPT !.status = "deleted", !.entry = FALSE]]
    BY <1>3 DEF FolderDeleted
  <2>4. \A o \in Objects : files[o].folder = f => files'[o].status = "deleted"
    <3>1. \A o \in Objects : files[o] \in File
      BY <1>1 DEF TypeOK
    <3>2. QED BY <2>3, <3>1, DeletedRow
  <2>5. PICK go : go = {o \in Objects : Active(o) /\ files[o].folder = f}
    OBVIOUS
  <2>6. Archive!Change({}, go)
    <3>1. \A x \in Objects : x \notin {} /\ x \notin go => (Active(x)' <=> Active(x))
      BY <2>3, <2>4, <2>5 DEF Active
    <3>2. \A x \in Objects : files[x] # NoFile => files'[x] # NoFile
      BY PlaceStays
    <3>3. \A x \in Objects : files[x] = NoFile => files'[x] = NoFile
      <4>1. NoFile.folder = None
        BY DEF NoFile
      <4>2. QED BY <2>2, <2>3, <4>1, NoneIsNothing
    <3>4. \A x \in go : Active(x) /\ ~Active(x)'
      BY <2>4, <2>5 DEF Active
    <3>5. go \in SUBSET Objects /\ {} \in SUBSET Objects
      BY <2>5
    <3>6. \A x \in {} : files[x] = NoFile /\ Active(x)'
      OBVIOUS
    <3>7. \A x \in Objects \ {} : files'[x] = NoFile <=> files[x] = NoFile
      BY <3>2, <3>3
    <3>8. QED BY <3>1, <3>4, <3>5, <3>6, <3>7, TableChange
  <2>7. go = {x \in {o \in Objects : Active(o)} :
                [o \in Objects |-> IF files[o] = NoFile THEN None
                                   ELSE <<files[o].folder, files[o].path>>][x][1] = f}
    <3>1. \A o \in Objects : Active(o) => files[o] # NoFile
      BY DEF Active, NoFile
    <3>2. QED BY <2>5, <3>1
  <2>8. Archive!DeleteFolder(f)
    BY <2>2, <2>3, <2>6, <2>7 DEF Archive!DeleteFolder, Archive!Change
  <2>9. QED BY <2>2, <2>8 DEF Archive!Next
<1>4. QED BY <1>2, <1>3

\* Every step is one of the archive, or clients see nothing of it
LEMMA ArchiveStep ==
  ASSUME StorageInv, StorageInv', Replacing, Deleting, [Next]_vars
  PROVE  [Archive!Next]_(Archive!vars)
<1>1. CASE files' = files /\ folder' = folder
  BY <1>1, Unseen
<1>2. ASSUME NEW f \in Folders, CreateFolder(f) PROVE Archive!Next
  <2>1. files' = files /\ folder[f] = "none" /\ folder' = [folder EXCEPT ![f] = "active"]
    BY <1>2 DEF CreateFolder
  <2>2. Archive!Change({}, {})
    <3>1. \A x \in Objects : x \notin {} /\ x \notin {} => (Active(x)' <=> Active(x))
      BY <2>1 DEF Active
    <3>2. \A x \in Objects \ {} : files'[x] = NoFile <=> files[x] = NoFile
      BY <2>1
    <3>3. {} \in SUBSET Objects
      OBVIOUS
    <3>4. QED BY <3>1, <3>2, <3>3, TableChange
  <2>3. Archive!CreateFolder(f)
    BY <2>1, <2>2 DEF Archive!CreateFolder
  <2>4. QED BY <2>3 DEF Archive!Next
<1>3. ASSUME NEW r \in Requests, Inserting(r) PROVE Archive!Next \/ UNCHANGED Archive!vars
  BY <1>3, InsertedIsAdded, InsertedIsReplaced, InsertedIsRestored
<1>4. TypeOK
  BY DEF StorageInv
<1>5. QED BY <1>1, <1>2, <1>3, <1>4, DeletedIsGone, TableWriters

\* The empty database is an empty archive
LEMMA ArchiveInit == Init => Archive!Init
<1> SUFFICES ASSUME Init PROVE Archive!Init
  OBVIOUS
<1>1. \A o \in Objects : ~Active(o) /\ files[o] = NoFile /\ files[o].replaces = None
  BY DEF Init, Active, NoFile
<1>2. QED BY <1>1 DEF Init, Archive!Init

\* What the handlers of the archive do between their checks, their objects on disk and
\* their transactions is, for who downloads files, one change of the archive at a time; a file
\* may come without its data only when the answer to a COMMIT gets lost
THEOREM ServiceImplementsArchive == Spec => ImplementsArchive
<1>1. Init => Replacing /\ Deleting
  <2>1. Init => \A r \in Requests : request[r].at = "idle"
    BY IdleFields DEF Init
  <2>2. Init => Replacing
    BY <2>1 DEF Replacing
  <2>3. Init => Deleting
    BY <2>1 DEF Deleting, Holds
  <2>4. QED BY <2>2, <2>3
<1>2. StorageInv /\ Replacing /\ Deleting /\ [Next]_vars => Replacing' /\ Deleting'
  BY ReplacingStep, DeletingStep
<1>3. StorageInv /\ StorageInv' /\ Replacing /\ Deleting /\ [Next]_vars
      => [Archive!Next]_(Archive!vars)
  BY ArchiveStep
<1>4. QED
  BY <1>1, <1>2, <1>3, ArchiveInit, StorageInvariant, PTL
  DEF Spec, ImplementsArchive, Archive!Spec

-----------------------------------------------------------------------------
(* Requests that do not overlap.                                            *)

\* One request at a time: the next begins when the last has ended, failed or crashed
OneAtATime == \A r, s \in Requests : ~IsIdle(r) /\ ~IsIdle(s) => r = s

SerialSpec == Spec /\ []OneAtATime

\* A request under way that adds to an existing folder
Adds(q) == q.op \in {"upload", "put", "mkcol"} /\ q.at \in {"write", "lookup", "commit"}

\* The folder a request found active is so until its transaction
FoundStays == \A r \in Requests : Adds(request[r]) => folder[request[r].folder] = "active"

\* Whether a request adds to a folder is decided where it starts: it finds the folder
\* active and works on no other
LEMMA AddsSince ==
  ASSUME StorageInv, [Next]_vars, NEW r \in Requests, Adds(request[r])'
  PROVE  \/ Adds(request[r]) /\ request'[r].folder = request[r].folder
         \/ folder' = folder /\ folder[request'[r].folder] = "active"
<1> DEFINE Goal == \/ Adds(request[r]) /\ request'[r].folder = request[r].folder
                   \/ folder' = folder /\ folder[request'[r].folder] = "active"
<1>1. TypeOK /\ Adds(request'[r]) /\ ~Adds(Idle)
  BY DEF StorageInv, Adds, Idle
<1>2. CASE request'[r] = request[r]
  BY <1>1, <1>2
<1>3. ASSUME NEW s \in Requests, NEW x, request' = [request EXCEPT ![s] = x],
             request'[r] # request[r]
      PROVE  r = s /\ request'[r] = x
  BY <1>1, <1>3 DEF TypeOK
<1>4. ASSUME NEW s \in Requests, NEW objects, ThenRemove(s, objects)
      PROVE  request'[r] = request[r]
  <2>1. ~Adds([Idle EXCEPT !.op = request[s].op, !.at = "remove", !.gone = objects])
    BY DEF Adds, Idle
  <2>2. QED BY <1>1, <1>3, <1>4, <2>1 DEF ThenRemove, Goes
<1>5. ASSUME UNCHANGED vars \/ \E f \in Folders : CreateFolder(f) PROVE Goal
  BY <1>2, <1>5 DEF vars, CreateFolder
<1>6. ASSUME NEW s \in Requests, NEW f \in Folders,
             StartImport(s, f) \/ LockFolder(s, f) \/ StartExport(s, f)
      PROVE  Goal
  <2>1. CASE StartImport(s, f)
    BY <1>1, <1>2, <1>3, <2>1 DEF StartImport, Goes, Adds, Idle
  <2>2. CASE LockFolder(s, f)
    <3> DEFINE x == [Idle EXCEPT !.op = "delete folder", !.at = "commit", !.folder = f,
                                 !.gone = ActiveFiles(f)]
    <3>1. request' = [request EXCEPT ![s] = x]
      BY <2>2 DEF LockFolder, Goes
    <3>2. x.op = "delete folder"
      BY IdleFields DEF Request
    <3>3. x.op \notin {"upload", "put", "mkcol"}
      BY <3>2
    <3> HIDE DEF x
    <3>4. QED BY <1>1, <1>2, <1>3, <3>1, <3>3 DEF Adds
  <2>3. CASE StartExport(s, f)
    BY <1>1, <1>2, <1>3, <2>3 DEF StartExport, Goes, Adds, Idle
  <2>4. QED BY <1>6, <2>1, <2>2, <2>3
<1>7. ASSUME NEW s \in Requests, NEW f \in Folders,
             \/ \E d \in Dirs : StartMkcol(s, f, d)
             \/ \E p \in Paths, o \in Objects : StartUpload(s, f, p, o) \/ StartPut(s, f, p, o)
      PROVE  Goal
  <2>1. CASE \E d \in Dirs : StartMkcol(s, f, d)
    BY <1>1, <1>2, <1>3, <2>1 DEF StartMkcol, Goes, Idle
  <2>2. ASSUME NEW op, NEW p, NEW o, StartWriting(s, op, f, p, o) PROVE Goal
    BY <1>1, <1>2, <1>3, <2>2 DEF StartWriting, Goes, Idle
  <2>3. QED BY <1>7, <2>1, <2>2 DEF StartUpload, StartPut
<1>8. ASSUME NEW s \in Requests, NEW o \in Objects, DeleteFile(s, o) \/ Remove(s, o)
      PROVE  Goal
  <2>1. CASE DeleteFile(s, o)
    <3> DEFINE x == [Idle EXCEPT !.op = "delete file", !.at = "remove", !.gone = {o}]
    <3>1. request' = [request EXCEPT ![s] = x]
      BY <2>1 DEF DeleteFile, Goes
    <3>2. x.op = "delete file"
      BY IdleFields DEF Request
    <3>3. x.op \notin {"upload", "put", "mkcol"}
      BY <3>2
    <3> HIDE DEF x
    <3>4. QED BY <1>1, <1>2, <1>3, <3>1, <3>3 DEF Adds
  <2>2. CASE Remove(s, o)
    BY <1>2, <1>4, <2>2 DEF Remove
  <2>3. QED BY <1>8, <2>1, <2>2
<1>9. ASSUME NEW s \in Requests, NEW o \in Objects, NEW item \in request[s].left,
             ImportFile(s, o, item)
      PROVE  Goal
  <2>1. PICK x : /\ x = [request[s] EXCEPT !.at = "write", !.object = o, !.item = item[2],
                                           !.left = @ \ {item}]
                 /\ request' = [request EXCEPT ![s] = x] /\ request[s].op = "import"
    BY <1>9 DEF ImportFile, At, Goes
  <2>2. request[s] \in Request
    BY <1>1 DEF TypeOK
  <2>3. x.op = "import"
    BY <2>1, <2>2 DEF Request
  <2>4. QED BY <1>1, <1>2, <1>3, <2>1, <2>3 DEF Adds
<1>10. ASSUME NEW s \in Requests, Write(s) PROVE Goal
  <2> DEFINE q == request[s]
  <2>1. PICK x : /\ x = [q EXCEPT !.at = IF q.op = "put" THEN "lookup" ELSE "commit",
                                  !.rows = @ \cup {<<q.object, q.item>>},
                                  !.object = None, !.item = None]
                 /\ request' = [request EXCEPT ![s] = x] /\ q.at = "write"
    BY <1>10 DEF Write, Goes
  <2>2. q \in Request
    BY <1>1 DEF TypeOK
  <2>3. x.op = q.op /\ x.folder = q.folder
    BY <2>1, <2>2 DEF Request
  <2>4. QED BY <1>1, <1>2, <1>3, <2>1, <2>3 DEF Adds
<1>11. ASSUME NEW s \in Requests, Lookup(s) PROVE Goal
  <2>1. PICK found : request' = [request EXCEPT ![s] =
                                   [request[s] EXCEPT !.at = "commit", !.replaced = found]]
    BY <1>11 DEF Lookup, Goes
  <2>2. request[s] \in Request /\ request[s].at = "lookup"
    BY <1>1, <1>11 DEF TypeOK, Lookup, At
  <2>3. PICK x : /\ x = [request[s] EXCEPT !.at = "commit", !.replaced = found]
                 /\ request' = [request EXCEPT ![s] = x]
    BY <2>1
  <2>4. x.op = request[s].op /\ x.folder = request[s].folder
    BY <2>2, <2>3 DEF Request
  <2>5. QED BY <1>1, <1>2, <1>3, <2>2, <2>3, <2>4 DEF Adds
<1>12. ASSUME NEW s \in Requests, Commit(s) \/ DeleteFolder(s) PROVE Goal
  BY <1>2, <1>4, <1>12 DEF Commit, DeleteFolder
<1>13. ASSUME NEW s \in Requests, NEW x, request' = [request EXCEPT ![s] = x],
              request[s].op = "export", x.op = request[s].op
       PROVE  Goal
  BY <1>1, <1>2, <1>3, <1>13 DEF Adds
<1>14. ASSUME NEW s \in Requests, ListFiles(s) \/ ListCollections(s) PROVE Goal
  <2>1. request[s] \in Request /\ request[s].op = "export"
    BY <1>1, <1>14 DEF TypeOK, ListFiles, ListCollections, At
  <2>2. CASE ListFiles(s)
    <3> DEFINE x == [request[s] EXCEPT !.at = "collections", !.left = Listing(request[s].folder)]
    <3>1. request' = [request EXCEPT ![s] = x]
      BY <2>2 DEF ListFiles, Goes
    <3>2. x.op = request[s].op
      BY <2>1 DEF Request
    <3> HIDE DEF x
    <3>3. QED BY <1>13, <2>1, <3>1, <3>2
  <2>3. CASE ListCollections(s)
    <3> DEFINE x == [request[s] EXCEPT !.at = "copy", !.rows = request[s].left,
                       !.dirs = {d \in Dirs : <<request[s].folder, d>> \in dirs}]
    <3>1. request' = [request EXCEPT ![s] = x]
      BY <2>3 DEF ListCollections, Goes
    <3>2. x.op = request[s].op
      BY <2>1 DEF Request
    <3> HIDE DEF x
    <3>3. QED BY <1>13, <2>1, <3>1, <3>2
  <2>4. QED BY <1>14, <2>2, <2>3
<1>15. ASSUME NEW s \in Requests, NEW item \in request[s].left, CopyFile(s, item) PROVE Goal
  <2>1. PICK x : /\ x = [request[s] EXCEPT !.left = @ \ {item}]
                 /\ request' = [request EXCEPT ![s] = x] /\ request[s].op = "export"
    BY <1>15 DEF CopyFile, At, Goes
  <2>2. request[s] \in Request
    BY <1>1 DEF TypeOK
  <2>3. x.op = request[s].op
    BY <2>1, <2>2 DEF Request
  <2>4. QED BY <1>13, <2>1, <2>3
<1>16. ASSUME NEW s \in Requests, request' = [request EXCEPT ![s] = Idle] PROVE Goal
  BY <1>1, <1>2, <1>3, <1>16
<1>17. ASSUME NEW s \in Requests, FinishBackup(s) \/ Fail(s) \/ LoseAnswer(s) PROVE Goal
  <2>1. CASE FinishBackup(s)
    BY <1>16, <2>1 DEF FinishBackup, Goes
  <2>2. CASE Fail(s)
    BY <1>16, <2>2 DEF Fail, Goes
  <2>3. CASE LoseAnswer(s)
    <3>1. request' = [request EXCEPT ![s] = Idle]
      BY <2>3 DEF LoseAnswer, Goes
    <3>2. QED BY <1>16, <3>1
  <2>4. QED BY <1>17, <2>1, <2>2, <2>3
<1>18. ASSUME NEW s \in Requests, NEW item \in request[s].left, TruncateBackup(s, item)
       PROVE  Goal
  BY <1>16, <1>18 DEF TruncateBackup, Goes
<1>19. ASSUME Crash PROVE Goal
  BY <1>1, <1>19 DEF Crash
<1> HIDE DEF Goal
<1>20. Goal
  <2>1. ASSUME NEW s \in Requests, NEW f \in Folders,
               \/ StartImport(s, f) \/ LockFolder(s, f) \/ StartExport(s, f)
               \/ \E d \in Dirs : StartMkcol(s, f, d)
               \/ \E p \in Paths, o \in Objects : StartUpload(s, f, p, o) \/ StartPut(s, f, p, o)
        PROVE  Goal
    BY <1>6, <1>7, <2>1
  <2>2. ASSUME NEW s \in Requests, NEW o \in Objects,
               \/ DeleteFile(s, o) \/ Remove(s, o)
               \/ \E item \in request[s].left : ImportFile(s, o, item)
        PROVE  Goal
    BY <1>8, <1>9, <2>2
  <2>3. ASSUME NEW s \in Requests, Write(s) \/ Lookup(s) \/ Commit(s) \/ DeleteFolder(s)
        PROVE  Goal
    BY <1>10, <1>11, <1>12, <2>3
  <2>4. ASSUME NEW s \in Requests, ListFiles(s) \/ ListCollections(s) \/ FinishBackup(s)
        PROVE  Goal
    BY <1>14, <1>17, <2>4
  <2>5. ASSUME NEW s \in Requests, NEW item \in request[s].left,
               CopyFile(s, item) \/ TruncateBackup(s, item)
        PROVE  Goal
    BY <1>15, <1>18, <2>5
  <2>6. ASSUME NEW s \in Requests, Fail(s) \/ LoseAnswer(s) PROVE Goal
    BY <1>17, <2>6
  <2>7. QED BY <1>5, <1>19, <2>1, <2>2, <2>3, <2>4, <2>5, <2>6 DEF Next
<1>21. QED BY <1>20 DEF Goal

\* The folder that a request found active is still so: only another request deletes it
LEMMA FoundStaysStep ==
  ASSUME StorageInv, FoundStays, OneAtATime, [Next]_vars
  PROVE  FoundStays'
<1> SUFFICES ASSUME NEW r \in Requests, Adds(request[r])'
             PROVE  folder'[request'[r].folder] = "active"
  BY DEF FoundStays
<1>1. CASE folder' = folder /\ folder[request'[r].folder] = "active"
  BY <1>1
<1>2. CASE Adds(request[r]) /\ request'[r].folder = request[r].folder
  <2>1. folder[request[r].folder] = "active"
    BY <1>2 DEF FoundStays
  <2>2. request[r].folder \in Folders
    BY <1>2 DEF StorageInv, Sound, Shape, Adds
  <2>3. ASSUME NEW s \in Requests, FolderDeleted(s) PROVE FALSE
    <3>1. request[s].op = "delete folder"
      BY <2>3 DEF FolderDeleted, At
    <3>2. request[s].op \notin {"none", "upload", "put", "mkcol"}
      BY <3>1
    <3>3. ~IsIdle(s) /\ ~IsIdle(r)
      BY <1>2, <3>2, IdleFields DEF IsIdle, Adds
    <3>4. r = s
      BY <3>3 DEF OneAtATime
    <3>5. QED BY <1>2, <3>2, <3>4 DEF Adds
  <2>4. QED BY <1>2, <2>1, <2>2, <2>3, FolderMoves
<1>3. QED BY <1>1, <1>2, AddsSince

\* A file comes into a folder that is active, and a folder goes with all of its files
LEMMA DeletedFolderStep ==
  ASSUME StorageInv, FoundStays, DeletedFolderIsEmpty, [Next]_vars
  PROVE  DeletedFolderIsEmpty'
<1> SUFFICES ASSUME NEW o \in Objects, Active(o)'
             PROVE  folder'[files'[o].folder] # "deleted"
  BY DEF DeletedFolderIsEmpty
<1>1. TypeOK
  BY DEF StorageInv
<1>2. ASSUME Active(o), files'[o].folder = files[o].folder
      PROVE  folder'[files'[o].folder] # "deleted"
  <2>1. files[o].folder \in Folders /\ folder[files[o].folder] # "deleted"
    BY <1>2 DEF StorageInv, Tables, RowsAreMade, Made, Active, DeletedFolderIsEmpty
  <2>2. ASSUME NEW r \in Requests, FolderDeleted(r), request[r].folder = files[o].folder
        PROVE  FALSE
    <3>1. files'[o].status = "deleted"
      <4>1. files' = [x \in Objects |->
                        IF files[x].folder # request[r].folder THEN files[x]
                        ELSE [files[x] EXCEPT !.status = "deleted", !.entry = FALSE]]
        BY <2>2 DEF FolderDeleted
      <4>2. files[o] \in File
        BY <1>1 DEF TypeOK
      <4>3. QED BY <2>2, <4>1, <4>2, DeletedRow
    <3>2. QED BY <3>1 DEF Active
  <2>3. QED BY <1>2, <2>1, <2>2, FolderMoves
<1>3. ASSUME files' = files \/ \E f \in Folders : CreateFolder(f)
      PROVE  folder'[files'[o].folder] # "deleted"
  <2>1. files' = files
    BY <1>3 DEF CreateFolder
  <2>2. QED BY <1>2, <2>1 DEF Active
<1>4. ASSUME NEW r \in Requests, Inserting(r) PROVE folder'[files'[o].folder] # "deleted"
  <2> DEFINE q == request[r]
  <2>1. CASE o \in New(r)
    <3>1. files'[o].folder = q.folder /\ q.folder \in Folders
      BY <1>4, <2>1, InsertedRow
    <3>2. folder' = IF q.op = "import" THEN [folder EXCEPT ![q.folder] = "active"] ELSE folder
      BY <1>4 DEF Inserting
    <3>3. q.op # "import" => folder[q.folder] = "active"
      BY <1>4 DEF Inserting, FoundStays, Adds
    <3>4. QED BY <1>1, <3>1, <3>2, <3>3 DEF TypeOK
  <2>2. CASE o \notin New(r)
    <3>1. o # q.replaced
      <4>1. q.replaced \in Objects => files[q.replaced] \in File
        BY <1>1 DEF TypeOK
      <4>2. q.replaced # None =>
              /\ q.replaced \in Objects
              /\ files'[q.replaced] =
                   [files[q.replaced] EXCEPT !.status = "deleted", !.entry = FALSE]
        BY <1>4, InsertedFacts
      <4>3. q.replaced # None => files'[q.replaced].status = "deleted"
        BY <4>1, <4>2, DeletedRow
      <4>4. o # None
        BY NoneIsNothing
      <4>5. QED BY <4>3, <4>4 DEF Active
    <3>2. files'[o] = files[o]
      BY <1>4, <2>2, <3>1, InsertedFacts
    <3>3. QED BY <1>2, <3>2 DEF Active
  <2>3. QED BY <2>1, <2>2
<1>5. ASSUME NEW r \in Requests, FolderDeleted(r) PROVE folder'[files'[o].folder] # "deleted"
  <2>1. files'[o] = IF files[o].folder # request[r].folder THEN files[o]
                    ELSE [files[o] EXCEPT !.status = "deleted", !.entry = FALSE]
    BY <1>5 DEF FolderDeleted
  <2>2. files[o] \in File
    BY <1>1 DEF TypeOK
  <2>3. files'[o] = files[o]
    BY <2>1, <2>2, DeletedRow DEF Active
  <2>4. QED BY <1>2, <2>3 DEF Active
<1>6. ASSUME NEW x \in Objects, FileDeleted(x) PROVE folder'[files'[o].folder] # "deleted"
  <2>1. files' = [files EXCEPT ![x].status = "deleted", ![x].entry = FALSE]
    BY <1>6 DEF FileDeleted
  <2>2. files[x] \in File /\ files[o] \in File
    BY <1>1 DEF TypeOK
  <2>3. o # x
    BY <1>6, FileDeletedFacts DEF Active
  <2>4. files'[o] = files[o]
    BY <1>1, <2>1, <2>3 DEF TypeOK
  <2>5. QED BY <1>2, <2>4 DEF Active
<1>7. QED BY <1>1, <1>3, <1>4, <1>5, <1>6, TableWriters

\* frontend/src/main.tsx:3439, "Delete the folder, its files, ...", is true as long as
\* requests do not overlap, whatever fails and whichever answers are lost: what leaves
\* an active file in a deleted folder is an upload, PUT or MKCOL that found the folder
\* before handleDeleteFolder locked it
THEOREM DeletedFolderIsEmptyCorrect == SerialSpec => []DeletedFolderIsEmpty
<1>1. Init => FoundStays /\ DeletedFolderIsEmpty
  BY DEF Init, FoundStays, Adds, Idle, DeletedFolderIsEmpty, Active, NoFile
<1>2. StorageInv /\ FoundStays /\ DeletedFolderIsEmpty /\ OneAtATime /\ [Next]_vars
      => FoundStays' /\ DeletedFolderIsEmpty'
  BY FoundStaysStep, DeletedFolderStep
<1>3. QED BY <1>1, <1>2, StorageInvariant, PTL DEF SerialSpec, Spec
=============================================================================
