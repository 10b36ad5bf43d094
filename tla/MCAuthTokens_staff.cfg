SPECIFICATION Spec

CONSTANTS
  None = None
  Gone = Gone
  guest = guest
  ann = ann
  bob = bob
  acme = acme
  Users = {ann, bob}
  TenantOf <- MCTenantOf
  Requests = {r1, r2}
  Logins = {l1, l2}
  MaxTime = 1
  AccessTTL = 1
  RefreshTTL = 1
  Ops = {"hire", "login", "refresh", "delete", "role"}

SYMMETRY AccountSymmetry
INVARIANT TypeOK
INVARIANT RoleWasRead
CHECK_DEADLOCK FALSE
