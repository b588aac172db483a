SPECIFICATION Spec
CONSTANTS
  Folders = {f1}
  Objects = {1, 2, 3}
  Paths = {root, nested}
  Dirs = {d}
  root = root
  nested = nested
  d = d
  Requests = {r1, r2}
  LostAnswers = FALSE
  None = None
  Operations = {"upload", "put", "mkcol", "delete file", "delete folder"}
  Parent <- MCParent
SYMMETRY Symmetry
INVARIANTS ReplacedOnce FilesAreInTheTree ActiveFileIsStored
PROPERTIES ImplementsArchive
