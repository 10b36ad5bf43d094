SPECIFICATION Spec

CONSTANTS
  None = None
  Gone = Gone
  guest = guest
  ann = ann
  bob = bob
  acme = acme
  Users = {guest, ann, bob}
  TenantOf <- MCTenantOf
  Requests = {r1, r2}
  Logins = {l1, l2}
  MaxTime = 1
  AccessTTL = 1
  RefreshTTL = 1
  Ops = {"register", "login", "refresh", "logout", "delete", "crash"}

SYMMETRY AccountSymmetry
INVARIANT OneSession
PROPERTY LogoutIsFinal
PROPERTY ImplementsSessionLife
CHECK_DEADLOCK FALSE
