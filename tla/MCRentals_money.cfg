SPECIFICATION Spec

CONSTANTS
  guest = guest
  host = host
  root = root
  t1 = t1
  t2 = t2
  flat = flat
  villa = villa
  None = None
  Gone = Gone
  Users = {host}
  Tenants = {t1, t2}
  Properties = {flat}
  Requests = {r1, r2}
  BookingIds = {1}
  PaymentIds = {1, 2}
  BlockIds = {}
  Times = {0, 1}
  DayLength = 1
  Rates = {1,2}
  GuestLists = {FALSE}
  Patches = {None}
  Ops = {"create", "update", "cancel", "remove", "pay", "timeout", "crash", "listing"}
  Role <- MCRole
  TenantOfUser <- MCTenantOfUser
  TenantOf <- MCTenantOf

SYMMETRY RequestSymmetry

INVARIANT TypeOK
INVARIANT PaidIffInvoiced
INVARIANT TransactionInv
INVARIANT ConfirmedIsPaid
PROPERTY PaidAsRead
PROPERTY BookedAsRead
PROPERTY SettledStays
PROPERTY SettledAtOnce
PROPERTY ImplementsLedger
CHECK_DEADLOCK FALSE
