\* Requests of two tenants, with fairness; no symmetry, one column.
CONSTANTS
  t1 = t1  t2 = t2
  r1 = r1  r2 = r2
  rec1 = rec1  rec2 = rec2
  c1 = c1  c2 = c2
  v1 = v1  v2 = v2
  Tenants = {t1, t2}
  Records = {rec1, rec2}
  Columns = {c1}
  Values = {v1, v2}
  StoredAs <- MCStoredAs
  Requests = {r1, r2}
  NoRequest = NoRequest
  NoTenant = NoTenant
  MaxLog = 1
  MaxWrites = 2
SPECIFICATION FairSpec
INVARIANTS
  TenantIsolation
PROPERTIES
  EveryRequestEnds
