SPECIFICATION FairSpec

CONSTANTS
  guest = guest
  host = host
  root = root
  t1 = t1
  t2 = t2
  flat = flat
  villa = villa
  None = None
  Gone = Gone
  Users = {root}
  Tenants = {t1, t2}
  Properties = {flat}
  Requests = {r1, r2}
  BookingIds = {1}
  PaymentIds = {1, 2}
  BlockIds = {}
  Times = {0, 1}
  DayLength = 1
  Rates = {1}
  GuestLists = {FALSE}
  Patches = {None}
  Ops = {"create", "cancel", "remove", "pay"}
  Role <- MCRole
  TenantOfUser <- MCTenantOfUser
  TenantOf <- MCTenantOf

PROPERTY EveryRequestEnds
PROPERTY PaymentAnnounced
CHECK_DEADLOCK FALSE
