SPECIFICATION FairSpec

CONSTANTS
  flat = flat
  villa = villa
  t1 = t1
  t2 = t2
  everything = everything
  villas = villas
  None = None
  Properties = {villa}
  Tenants = {t2}
  Queries = {everything, villas}
  Searches = {s1}
  Admins = {a1}
  TTL = 2
  MaxFill = 1
  AdminOps = {"property", "tenant", "create"}
  Faults = {"redis", "crash"}
  TenantOf <- MCTenantOf
  Selects <- MCSelects

PROPERTY CacheSettles
INVARIANT TypeOK
INVARIANT StaleIsRaced
INVARIANT StaleIsBounded
