SPECIFICATION FairSpec
CONSTANTS
  Conns = {c1}
  Workers = {w1}
  PowJobs = {j1, j2}
  Difficulties = {1}
  Required = 2
  MaxAuthorize = 2
  None = None
PROPERTY WorkIsDispatched
