SPECIFICATION Spec

CONSTANTS
  flat = flat
  villa = villa
  t1 = t1
  t2 = t2
  everything = everything
  villas = villas
  None = None
  Properties = {villa}
  Tenants = {t2}
  Queries = {villas}
  Searches = {s1, s2}
  Admins = {a1}
  TTL = 2
  MaxFill = 1
  AdminOps = {"property"}
  Faults = {}
  TenantOf <- MCTenantOf
  Selects <- MCSelects

INVARIANT AnsweredIsHidden
