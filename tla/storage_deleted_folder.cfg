SPECIFICATION Spec
CONSTANTS
  Folders = {f1}
  Objects = {1, 2, 3}
  Paths = {nested}
  Dirs = {d}
  root = root
  nested = nested
  d = d
  Requests = {r1, r2}
  LostAnswers = FALSE
  None = None
  Operations = {"upload", "delete folder"}
  Parent <- OneParent
SYMMETRY Symmetry
INVARIANTS DeletedFolderIsEmpty
