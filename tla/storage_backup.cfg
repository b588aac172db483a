SPECIFICATION Spec
CONSTANTS
  Folders = {f1, f2}
  Objects = {1, 2, 3}
  Paths = {nested}
  Dirs = {d}
  root = root
  nested = nested
  d = d
  Requests = {r1, r2}
  LostAnswers = TRUE
  None = None
  Operations = {"upload", "delete folder", "export", "import"}
  Parent <- OneParent
SYMMETRY Symmetry
INVARIANTS BackupIsOneTree ObjectsAreOwned
PROPERTIES RestoreIsWhole
