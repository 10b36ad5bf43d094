SPECIFICATION Spec

CONSTANTS
  guest = guest
  host = host
  root = root
  t1 = t1
  t2 = t2
  flat = flat
  villa = villa
  None = None
  Gone = Gone
  Users = {root}
  Tenants = {t1, t2}
  Properties = {flat}
  Requests = {r1, r2}
  BookingIds = {1, 2}
  PaymentIds = {}
  BlockIds = {1, 2}
  Times = {0, 1, 2}
  DayLength = 1
  Rates = {1}
  GuestLists = {FALSE}
  Patches = {None}
  Ops = {"create", "update", "cancel", "confirm", "block", "unblock"}
  Role <- MCRole
  TenantOfUser <- MCTenantOfUser
  TenantOf <- MCTenantOf

SYMMETRY RequestSymmetry

VIEW Calendar

INVARIANT CalendarInv
PROPERTY DoubleBookingIsRace
PROPERTY BlockClashIsRace
PROPERTY BlockedTwiceIsRace
CHECK_DEADLOCK FALSE
