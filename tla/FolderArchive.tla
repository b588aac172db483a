---------------------------- MODULE FolderArchive ----------------------------
(* What the archive promises however requests overlap, fail or end with the   *)
(* process: a file comes into the archive in one step, as a whole and in one  *)
(* place, replaces at most the file that was there, and leaves it in one step *)
(* for good.  Whoever downloads it in between gets what was uploaded; only    *)
(* where the outcome of a transaction can remain unknown may a file come      *)
(* without its data, and then it never has any.                               *)
CONSTANTS Folders, Files, Paths, Contents,
          MayComeEmpty,  \* can a request end not knowing whether its file came?
          None

VARIABLES folder,    \* is a folder not made, active or deleted?
          place,     \* the folder and the path of a file, None before it came
          replaced,  \* the file that it replaced
          here,      \* the files that are in the archive
          content    \* what a download of one of them gives

vars == <<folder, place, replaced, here, content>>

Init ==
  /\ folder = [f \in Folders |-> "none"]
  /\ place = [x \in Files |-> None] /\ replaced = [x \in Files |-> None]
  /\ here = {} /\ content = [x \in Files |-> None]

\* Some files come and others go; the rest stays what it was
Change(come, go) ==
  /\ \A x \in come :
       /\ place[x] = None /\ place'[x] \in Folders \X Paths
       /\ content'[x] \in Contents \/ (MayComeEmpty /\ content'[x] = None)
  /\ go \subseteq here
  /\ here' = (here \ go) \cup come
  /\ \A x \in Files \ come : place'[x] = place[x] /\ replaced'[x] = replaced[x]
  /\ \A x \in here \ go : content'[x] = content[x]

CreateFolder(f) ==
  /\ folder[f] = "none"
  /\ folder' = [folder EXCEPT ![f] = "active"]
  /\ Change({}, {})

\* A new file in a folder that was made, even if it is deleted by now
Add(x) ==
  /\ Change({x}, {})
  /\ folder[place'[x][1]] # "none" /\ replaced'[x] = None
  /\ UNCHANGED folder

\* A new file in the place of one that is in the archive
Replace(x, old) ==
  /\ old \in here
  /\ Change({x}, {old})
  /\ place'[x] = place[old] /\ replaced'[x] = old
  /\ UNCHANGED folder

\* A folder appears with all of its files
Restore(f, restored) ==
  /\ folder[f] = "none"
  /\ folder' = [folder EXCEPT ![f] = "active"]
  /\ Change(restored, {})
  /\ \A x \in restored : place'[x][1] = f /\ replaced'[x] = None

Delete(x) ==
  /\ x \in here
  /\ Change({}, {x})
  /\ UNCHANGED folder

\* A folder goes with all of its files, once
DeleteFolder(f) ==
  /\ folder[f] = "active"
  /\ folder' = [folder EXCEPT ![f] = "deleted"]
  /\ Change({}, {x \in here : place[x][1] = f})

Next ==
  \/ \E f \in Folders : CreateFolder(f) \/ DeleteFolder(f)
  \/ \E f \in Folders, restored \in SUBSET Files : Restore(f, restored)
  \/ \E x \in Files : Add(x) \/ Delete(x)
  \/ \E x, old \in Files : Replace(x, old)

Spec == Init /\ [][Next]_vars
===============================================================================
