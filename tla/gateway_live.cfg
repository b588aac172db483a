SPECIFICATION FairSpec
CONSTANTS
  Conns = {c1}
  Workers = {w1}
  PowJobs = {j1, j2}
  Difficulties = {1, 2}
  Required = 2
  MaxAuthorize = 1
  None = None
INVARIANTS MinerKnowsWork
PROPERTIES WorkIsDispatched GoneIsClosed
