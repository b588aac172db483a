--------------------------- MODULE ArchiveStorage ---------------------------
(***************************************************************************)
(* The archive service's folders and files: rows of protected_folders,     *)
(* files and folder_entries in the database, and one storage object per    *)
(* file on disk, which no transaction covers.  A request writes its object *)
(* before its transaction and removes replaced or deleted ones after it;   *)
(* requests run concurrently, each step below being what one of them does  *)
(* between two points where others, or the end of the process, can come in.*)
(*                                                                         *)
(* A statement of an uncommitted transaction is invisible, so a            *)
(* transaction is the step of its commit, except where it holds the folder *)
(* row's FOR UPDATE lock.  An object stands for the file row it is stored  *)
(* for and for its bytes; the objects are numbered so that the order of    *)
(* the random file ids, which decides between equal paths, is arbitrary.   *)
(***************************************************************************)
EXTENDS Integers, FiniteSets, FiniteSetsExt

CONSTANTS Folders,      \* protected_folders rows
          Objects,      \* storage objects and the files rows made for them
          Paths,        \* file paths
          Dirs,         \* collections, all at the root of a folder
          Parent,       \* the collection of each path, or None
          Requests,     \* concurrent administrator requests
          Operations,   \* bound: what administrators ask for
          LostAnswers,  \* may the answer to a COMMIT that took effect be lost?
          None

Partial == 0   \* a data file being written

Operation == {"upload", "put", "mkcol", "import", "delete file", "delete folder", "export"}

ASSUME StorageAssumption ==
  /\ Operations \subseteq Operation
  /\ Objects \subseteq Nat \ {Partial} /\ IsFiniteSet(Objects)
  /\ Parent \in [Paths -> Dirs \cup {None}]
  /\ LostAnswers \in BOOLEAN
  /\ None \notin Folders \cup Paths \cup Dirs \cup Objects

VARIABLES folder,   \* protected_folders.status
          files,    \* files rows and the entries that name them
          dirs,     \* folder_entries of type 'folder': <<folder, collection>>
          disk,     \* what is under objectDir of each object
          backup,   \* the administrator's last folder backup
          request,  \* what each request is at
          lost      \* history: objects a crash or a failed removal left on disk

vars == <<folder, files, dirs, disk, backup, request, lost>>

-----------------------------------------------------------------------------
NoFile == [status |-> "none", folder |-> None, path |-> None, copy |-> FALSE,
           content |-> None, replaces |-> None, entry |-> FALSE]

File == [status : {"none", "active", "deleted"}, folder : Folders \cup {None},
         path : Paths \cup {None},
         copy : BOOLEAN,                    \* is it named "... (copy n)"?
         content : Objects \cup {None},     \* plaintext_sha256
         replaces : Objects \cup {None},    \* audit detail replaced_file_id
         entry : BOOLEAN]                   \* does a folder_entries row name it?

Item == [path : Paths, copy : BOOLEAN, content : Objects]

NoBackup == [whole |-> FALSE, items |-> {}, dirs |-> {}]

Idle == [op |-> "none", at |-> "idle", folder |-> None, object |-> None,
         item |-> None, rows |-> {}, left |-> {}, dirs |-> {}, replaced |-> None,
         gone |-> {}]

Active(o) == files[o].status = "active"
ActiveFiles(f) == {o \in Objects : Active(o) /\ files[o].folder = f}

Uses(r) == {row[1] : row \in request[r].rows} \cup ({request[r].object} \ {None})

\* a random id nobody has used; an upload that left nothing behind used none
Unused(o) == files[o] = NoFile /\ disk[o] = None /\ \A r \in Requests : o \notin Uses(r)

\* Variant: handleDeleteFolder does not lock the folder's row
LockedNever(f) == FALSE

\* handleDeleteFolder holds the folder's row between its SELECT ... FOR UPDATE
\* and its commit; the foreign keys of inserted files and entries wait for it
Locked(f) == \E r \in Requests : request[r].op = "delete folder"
                               /\ request[r].at = "commit" /\ request[r].folder = f

\* the file shown under its plain path: the first in the order "path, id DESC"
Plain(f, p) == {o \in ActiveFiles(f) : files[o].path = p /\ ~files[o].copy}
Shown(f, p) == Max(Plain(f, p))

\* the manifest's line for a file, under its display path
Listing(f) == {<<o, [path |-> files[o].path,
                     copy |-> files[o].copy \/ o # Shown(f, files[o].path),
                     content |-> files[o].content]>> : o \in ActiveFiles(f)}

Init ==
  /\ folder = [f \in Folders |-> "none"]
  /\ files = [o \in Objects |-> NoFile]
  /\ dirs = {}
  /\ disk = [o \in Objects |-> None]
  /\ backup = NoBackup
  /\ request = [r \in Requests |-> Idle]
  /\ lost = {}

IsIdle(r) == request[r] = Idle
Starts(r, op) == IsIdle(r) /\ op \in Operations
At(r, op, at) == request[r].op = op /\ request[r].at = at
Goes(r, to) == request' = [request EXCEPT ![r] = to]

-----------------------------------------------------------------------------
(* Writing: file uploads, PUT on the administrators' WebDAV, imports.      *)

CreateFolder(f) ==
  /\ folder[f] = "none" /\ \A r \in Requests : request[r].folder # f
  /\ folder' = [folder EXCEPT ![f] = "active"]
  /\ UNCHANGED <<files, dirs, disk, backup, request, lost>>

\* the folder is looked up, and the object's directory made, before any
\* transaction: ensureFolderActive for an upload, authenticateAdminDAV for a PUT
StartWriting(r, op, f, p, o) ==
  /\ Starts(r, op) /\ folder[f] = "active" /\ Unused(o)
  /\ Goes(r, [Idle EXCEPT !.op = op, !.at = "write", !.folder = f, !.object = o,
                          !.item = [path |-> p, copy |-> FALSE, content |-> o]])
  /\ disk' = [disk EXCEPT ![o] = Partial]
  /\ UNCHANGED <<folder, files, dirs, backup, lost>>

StartUpload(r, f, p, o) == StartWriting(r, "upload", f, p, o)
StartPut(r, f, p, o) == StartWriting(r, "put", f, p, o)

\* MKCOL: authenticateAdminDAV, then a transaction
StartMkcol(r, f, d) ==
  /\ Starts(r, "mkcol") /\ folder[f] = "active"
  /\ Goes(r, [Idle EXCEPT !.op = "mkcol", !.at = "commit", !.folder = f, !.dirs = {d}])
  /\ UNCHANGED <<folder, files, dirs, disk, backup, lost>>

\* writeUploadToStorage has copied and synced the data
Write(r) ==
  LET q == request[r] IN
  /\ q.at = "write"
  /\ disk' = [disk EXCEPT ![q.object] = q.item.content]
  /\ Goes(r, [q EXCEPT !.at = IF q.op = "put" THEN "lookup" ELSE "commit",
                       !.rows = @ \cup {<<q.object, q.item>>},
                       !.object = None, !.item = None])
  /\ UNCHANGED <<folder, files, dirs, backup, lost>>

\* the file now shown at the path, read before the transaction; an error of
\* adminDAVFiles (a folder deleted since, say) is logged and nothing replaced
Lookup(r) ==
  LET q == request[r]
      p == (CHOOSE row \in q.rows : TRUE)[2].path IN
  /\ At(r, "put", "lookup")
  /\ \E found \in {None} \cup (IF folder[q.folder] = "active" /\ Plain(q.folder, p) # {}
                               THEN {Shown(q.folder, p)} ELSE {}) :
       Goes(r, [q EXCEPT !.at = "commit", !.replaced = found])
  /\ UNCHANGED <<folder, files, dirs, disk, backup, lost>>

StartImport(r, f) ==
  /\ Starts(r, "import") /\ backup.whole
  /\ folder[f] = "none" /\ \A q \in Requests : request[q].folder # f
  /\ Goes(r, [Idle EXCEPT !.op = "import", !.at = "commit", !.folder = f,
                          !.left = backup.items, !.dirs = backup.dirs])
  /\ UNCHANGED <<folder, files, dirs, disk, backup, lost>>

\* the import's loop over the manifest's files, inside its transaction
ImportFile(r, o, item) ==
  /\ At(r, "import", "commit") /\ item \in request[r].left /\ Unused(o)
  /\ Goes(r, [request[r] EXCEPT !.at = "write", !.object = o, !.item = item[2],
                                !.left = @ \ {item}])
  /\ disk' = [disk EXCEPT ![o] = Partial]
  /\ UNCHANGED <<folder, files, dirs, backup, lost>>

\* Variant: deleteFileTx without "AND status = 'active'"
CanReplaceAny(o) == TRUE

\* deleteFileTx: only an active file can be replaced
CanReplace(o) == o # None => Active(o)

\* the transaction of handleUploadFile, handleAdminDAVPut, handleAdminDAVMkcol or
\* importFolderBackup
Inserted(r) ==
  LET q == request[r]
      new == {row[1] : row \in q.rows}
      item(o) == (CHOOSE row \in q.rows : row[1] = o)[2] IN
  /\ files' = [o \in Objects |->
        IF o \in new
          THEN [status |-> "active", folder |-> q.folder, path |-> item(o).path,
                copy |-> item(o).copy, content |-> item(o).content,
                replaces |-> q.replaced, entry |-> TRUE]
        ELSE IF o = q.replaced THEN [files[o] EXCEPT !.status = "deleted", !.entry = FALSE]
        ELSE files[o]]
  /\ dirs' = dirs \cup {<<q.folder, d>> : d \in q.dirs
                          \cup ({Parent[item(o).path] : o \in new} \ {None})}

\* Variant: the import commits before the last file
InsertingPart(r) ==
  /\ request[r].op \in {"upload", "put", "mkcol", "import"}
  /\ request[r].at = "commit"
  /\ ~Locked(request[r].folder) /\ CanReplace(request[r].replaced)
  /\ folder' = IF request[r].op = "import"
               THEN [folder EXCEPT ![request[r].folder] = "active"] ELSE folder
  /\ Inserted(r)

Inserting(r) ==
  /\ request[r].op \in {"upload", "put", "mkcol", "import"}
  /\ request[r].at = "commit" /\ request[r].left = {}
  /\ ~Locked(request[r].folder) /\ CanReplace(request[r].replaced)
  /\ folder' = IF request[r].op = "import"
               THEN [folder EXCEPT ![request[r].folder] = "active"] ELSE folder
  /\ Inserted(r)

\* removeStorageObjects comes next if the transaction took files away
ThenRemove(r, objects) ==
  Goes(r, IF objects = {} THEN Idle
          ELSE [Idle EXCEPT !.op = request[r].op, !.at = "remove", !.gone = objects])

Commit(r) ==
  /\ Inserting(r)
  /\ ThenRemove(r, {request[r].replaced} \ {None})
  /\ UNCHANGED <<disk, backup, lost>>


-----------------------------------------------------------------------------
(* Deleting.                                                               *)

\* Variant: handleDeleteFile keeps the folder_entries row
FileDeletedKeepingEntry(o) ==
  /\ Active(o)
  /\ files' = [files EXCEPT ![o].status = "deleted"]
  /\ UNCHANGED <<folder, dirs>>

FileDeleted(o) ==
  /\ Active(o)
  /\ files' = [files EXCEPT ![o].status = "deleted", ![o].entry = FALSE]
  /\ UNCHANGED <<folder, dirs>>

DeleteFile(r, o) ==
  /\ Starts(r, "delete file") /\ FileDeleted(o)
  /\ Goes(r, [Idle EXCEPT !.op = "delete file", !.at = "remove", !.gone = {o}])
  /\ UNCHANGED <<disk, backup, lost>>

\* Variant: handleDeleteFolder removes the objects when it lists them
LockFolderRemoving(r, f) ==
  /\ Starts(r, "delete folder") /\ folder[f] = "active" /\ ~Locked(f)
  /\ Goes(r, [Idle EXCEPT !.op = "delete folder", !.at = "commit", !.folder = f])
  /\ disk' = [o \in Objects |-> IF o \in ActiveFiles(f) THEN None ELSE disk[o]]
  /\ UNCHANGED <<folder, files, dirs, backup, lost>>

\* SELECT ... FOR UPDATE, then the list of the objects to remove
LockFolder(r, f) ==
  /\ Starts(r, "delete folder") /\ folder[f] = "active" /\ ~Locked(f)
  /\ Goes(r, [Idle EXCEPT !.op = "delete folder", !.at = "commit", !.folder = f,
                          !.gone = ActiveFiles(f)])
  /\ UNCHANGED <<folder, files, dirs, disk, backup, lost>>

\* the statements that follow, each on what is committed by then
FolderDeleted(r) ==
  LET f == request[r].folder IN
  /\ At(r, "delete folder", "commit")
  /\ files' = [o \in Objects |->
                 IF files[o].folder # f THEN files[o]
                 ELSE [files[o] EXCEPT !.status = "deleted", !.entry = FALSE]]
  /\ dirs' = {entry \in dirs : entry[1] # f}
  /\ folder' = [folder EXCEPT ![f] = "deleted"]

DeleteFolder(r) ==
  /\ FolderDeleted(r)
  /\ ThenRemove(r, request[r].gone)
  /\ UNCHANGED <<disk, backup, lost>>

\* removeStorageObjects goes on after an error
Remove(r, o) ==
  /\ request[r].at = "remove" /\ o \in request[r].gone
  /\ ThenRemove(r, request[r].gone \ {o})
  /\ \/ disk' = [disk EXCEPT ![o] = None] /\ UNCHANGED lost
     \/ lost' = lost \cup {o} /\ UNCHANGED disk
  /\ UNCHANGED <<folder, files, dirs, backup>>

-----------------------------------------------------------------------------
(* Folder backups.                                                         *)

\* the folder, then its files
StartExport(r, f) ==
  /\ Starts(r, "export") /\ folder[f] = "active"
  /\ Goes(r, [Idle EXCEPT !.op = "export", !.at = "files", !.folder = f])
  /\ UNCHANGED <<folder, files, dirs, disk, backup, lost>>

ListFiles(r) ==
  /\ At(r, "export", "files")
  /\ Goes(r, [request[r] EXCEPT !.at = "collections", !.left = Listing(request[r].folder)])
  /\ UNCHANGED <<folder, files, dirs, disk, backup, lost>>

\* rows: the manifest, copied into the archive one by one
ListCollections(r) ==
  LET q == request[r] IN
  /\ At(r, "export", "collections")
  /\ Goes(r, [q EXCEPT !.at = "copy", !.rows = q.left,
                       !.dirs = {d \in Dirs : <<q.folder, d>> \in dirs}])
  /\ UNCHANGED <<folder, files, dirs, disk, backup, lost>>

\* Variant: the export copies the data of files that are no longer active
CanCopyDeleted(item) == disk[item[1]] = files[item[1]].content

\* fileRecordByID finds active files only, and the data is compared with the row
CanCopy(item) == Active(item[1]) /\ disk[item[1]] = files[item[1]].content

CopyFile(r, item) ==
  /\ At(r, "export", "copy") /\ item \in request[r].left /\ CanCopy(item)
  /\ Goes(r, [request[r] EXCEPT !.left = @ \ {item}])
  /\ UNCHANGED <<folder, files, dirs, disk, backup, lost>>

\* the archive is left without its directory, and no import opens it
TruncateBackup(r, item) ==
  /\ At(r, "export", "copy") /\ item \in request[r].left /\ ~CanCopy(item)
  /\ Goes(r, Idle)
  /\ backup' = NoBackup
  /\ UNCHANGED <<folder, files, dirs, disk, lost>>

FinishBackup(r) ==
  /\ At(r, "export", "copy") /\ request[r].left = {}
  /\ backup' = [whole |-> TRUE, items |-> request[r].rows, dirs |-> request[r].dirs]
  /\ Goes(r, Idle)
  /\ UNCHANGED <<folder, files, dirs, disk, lost>>

-----------------------------------------------------------------------------
(* Failures.                                                               *)

\* the objects a request would clean up on failure
Own(r) == IF request[r].op \in {"upload", "put", "import"} THEN Uses(r) ELSE {}

\* the deferred cleanup, which ignores errors too; "removed" are objects of other
\* files the request took away
Cleaned(r, removed) ==
  \E kept \in SUBSET Own(r) :
    /\ disk' = [o \in Objects |-> IF o \in Own(r) \ kept THEN None ELSE disk[o]]
    /\ lost' = lost \cup kept \cup removed

\* an error before the commit, whatever its cause: the client has gone, the
\* database or the disk fails, a replaced file is no longer active
Fail(r) ==
  /\ request[r].at \notin {"idle", "remove"}
  /\ Cleaned(r, {})
  /\ Goes(r, Idle)
  /\ UNCHANGED <<folder, files, dirs, backup>>

\* the transaction has been committed but the handler gets an error: it cleans up
\* as if it had not, and removes nothing it replaced or deleted
LoseAnswer(r) ==
  /\ LostAnswers
  /\ \/ Inserting(r) /\ Cleaned(r, {request[r].replaced} \ {None})
     \/ FolderDeleted(r) /\ Cleaned(r, request[r].gone)
     \/ Starts(r, "delete file") /\ \E o \in Objects : FileDeleted(o) /\ Cleaned(r, {o})
  /\ Goes(r, Idle)
  /\ UNCHANGED backup

\* the process ends: nothing is cleaned up, and nothing looks for it later
Crash ==
  /\ request' = [r \in Requests |-> Idle]
  /\ lost' = lost \cup UNION {Own(r) \cup (IF request[r].at = "remove" THEN request[r].gone
                                           ELSE {}) : r \in Requests}
  /\ UNCHANGED <<folder, files, dirs, disk, backup>>

Next ==
  \/ \E f \in Folders : CreateFolder(f)
  \/ \E r \in Requests, f \in Folders :
       \/ StartImport(r, f) \/ LockFolder(r, f) \/ StartExport(r, f)
       \/ \E d \in Dirs : StartMkcol(r, f, d)
       \/ \E p \in Paths, o \in Objects : StartUpload(r, f, p, o) \/ StartPut(r, f, p, o)
  \/ \E r \in Requests, o \in Objects :
       \/ DeleteFile(r, o) \/ Remove(r, o)
       \/ \E item \in request[r].left : ImportFile(r, o, item)
  \/ \E r \in Requests : Write(r) \/ Lookup(r) \/ Commit(r) \/ DeleteFolder(r)
  \/ \E r \in Requests : ListFiles(r) \/ ListCollections(r) \/ FinishBackup(r)
  \/ \E r \in Requests : \E item \in request[r].left :
       CopyFile(r, item) \/ TruncateBackup(r, item)
  \/ \E r \in Requests : Fail(r) \/ LoseAnswer(r)
  \/ Crash

Spec == Init /\ [][Next]_vars
-----------------------------------------------------------------------------
(* Properties.                                                             *)

Row == Objects \X Item

Request == [op : Operation \cup {"none"},
            at : {"idle", "write", "lookup", "commit", "remove", "files",
                  "collections", "copy"},
            folder : Folders \cup {None}, object : Objects \cup {None},
            item : Item \cup {None}, rows : SUBSET Row, left : SUBSET Row,
            dirs : SUBSET Dirs, replaced : Objects \cup {None},
            gone : SUBSET Objects]

\* The state has its types.
TypeOK ==
  /\ folder \in [Folders -> {"none", "active", "deleted"}]
  /\ files \in [Objects -> File]
  /\ dirs \subseteq Folders \X Dirs
  /\ disk \in [Objects -> {None, Partial} \cup Objects]
  /\ backup \in [whole : BOOLEAN, items : SUBSET Row, dirs : SUBSET Dirs]
  /\ request \in [Requests -> Request]
  /\ lost \subseteq Objects

\* Every archive file is stored: an active row has its data on disk, whole, with the
\* checksum the row records, whatever uploads, replacements, deletions, failures and
\* restarts come together (handlers write the object before their transaction and
\* remove the old one after it).  The answer to a COMMIT must not get lost for that.
ActiveFileIsStored == \A o \in Objects : Active(o) => disk[o] = files[o].content

\* Nothing is left on disk for good, crashes and failed removals apart: an object
\* belongs to an active file or to a request that is still going to use or remove it
\* (handleDeleteFolder's list of objects misses none, as the folder's row is locked).
ObjectsAreOwned ==
  \A o \in Objects : disk[o] # None =>
    \/ Active(o) \/ o \in lost
    \/ \E r \in Requests : o \in Own(r) \/ o \in request[r].gone

\* Of the PUTs that found the same file at their path, one replaces it; the others
\* fail (deleteFileTx), so the file that took its place is not lost with it.
ReplacedOnce ==
  \A o1, o2 \in Objects : files[o1].replaces = files[o2].replaces
                           /\ files[o1].replaces # None => o1 = o2

\* Every active file, and no other, is in the tree under its path: its entry and the
\* collection it is in exist, also after it raced with the deletion of its folder.
FilesAreInTheTree ==
  \A o \in Objects :
    /\ files[o].entry <=> Active(o)
    /\ Active(o) /\ Parent[files[o].path] # None
         => <<files[o].folder, Parent[files[o].path]>> \in dirs

\* A backup that can be opened is one tree: files and collections are read one after
\* the other, and a folder deleted in between would leave files without theirs.
BackupIsOneTree ==
  backup.whole => \A item \in backup.items :
                    Parent[item[2].path] \in backup.dirs \cup {None}

\* The archive as its clients see it: the data on disk of the files that are active
Archive == INSTANCE FolderArchive WITH
  Files <- Objects, Contents <- Objects, MayComeEmpty <- LostAnswers,
  here <- {o \in Objects : Active(o)},
  place <- [o \in Objects |-> IF files[o] = NoFile THEN None
                             ELSE <<files[o].folder, files[o].path>>],
  replaced <- [o \in Objects |-> files[o].replaces],
  content <- [o \in Objects |-> IF Active(o) THEN disk[o] ELSE None]

\* The service implements it, whatever uploads, PUTs, deletions, restores, failures and
\* restarts come together: no half of a transaction is ever visible, nor what becomes
\* of an object before or after it.  A handler that loses the answer to its COMMIT takes
\* the data of its own files away in the same step, and never that of others.
ImplementsArchive == Archive!Spec

\* A restored folder appears with every file of the manifest it was restored from,
\* or not at all, whatever fails on the way.
RestoreIsWhole ==
  [][\A r \in Requests, f \in Folders :
       request[r].op = "import" /\ request[r].folder = f
         /\ folder[f] = "none" /\ folder'[f] = "active"
         => {files'[o].content : o \in ActiveFiles(f)'}
              = {item[2].content : item \in request[r].left \cup request[r].rows}]_vars

\* frontend/src/main.tsx:3439: "Delete the folder, its files, permissions, and active
\* sessions": no file is active in a deleted folder.
DeletedFolderIsEmpty == \A o \in Objects : Active(o) => folder[files[o].folder] # "deleted"
=============================================================================
