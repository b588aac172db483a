SPECIFICATION TrailSpec
CONSTANTS
  Users = {admin, u1}
  Admin = admin
  Events = {1, 2, 3, 4, 5}
  Backups = {1, 2}
  Requests = {r1, r2}
  DeleteLimit = 2
  DocumentLimit = 2
  None = None
SYMMETRY Symmetry
INVARIANTS EveryEventKept BackupsAreOnRecord
PROPERTIES ActorsAreKept ImplementsLedger
