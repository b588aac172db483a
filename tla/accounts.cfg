SPECIFICATION Spec
CONSTANTS
  root = root
  admin = admin
  client = client
  Users <- MCUsers
  Role <- MCRole
  Sessions = {1, 2, 3}
  Requests = {r1, r2}
  None = None
SYMMETRY Symmetry
INVARIANTS InsertsNeverConflict RevocationEndsSessions
PROPERTIES DeletedActorActsNoMore SuperAdminStays ImplementsRegister
