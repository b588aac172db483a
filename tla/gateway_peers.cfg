SPECIFICATION Spec
CONSTANTS
  Conns = {c1, c2}
  Workers = {w1, w2}
  PowJobs = {j1}
  Difficulties = {1}
  Required = 2
  MaxAuthorize = 1
  None = None
SYMMETRY Symmetry
INVARIANTS AuthorizedIsCounted ClosedIsForgotten BlockedIsOffline EnoughWorkIsNoticed
