SPECIFICATION Spec
CONSTANTS
  Users = {u1}
  Folders = {f1}
  Jobs = {1, 2}
  Sessions = {1, 2}
  Requests = {r1, r2}
  None = None
INVARIANTS PermissionRevokeClosesSessions
