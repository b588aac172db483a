SPECIFICATION FairSpec
CONSTANTS
  Users = {u1, u2}
  Folders = {f1}
  Jobs = {1, 2}
  Sessions = {1, 2}
  Requests = {r1}
  None = None
INVARIANTS
  TypeOK
  QueueNeverIdle
  NoJobBesideSession
  RevocationIsComplete
  ProofSpentOnce
PROPERTIES
  ImplementsOperation
  JobsEnd
  SessionsEnd
