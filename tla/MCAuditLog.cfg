\* Two requests of one tenant, two records, two columns of which one rounds.
CONSTANTS
  t1 = t1  t2 = t2
  r1 = r1  r2 = r2
  rec1 = rec1  rec2 = rec2
  c1 = c1  c2 = c2
  v1 = v1  v2 = v2
  Tenants = {t1}
  Records = {rec1, rec2}
  Columns = {c1, c2}
  Values = {v1, v2}
  StoredAs <- MCStoredAs
  Requests = {r1, r2}
  NoRequest = NoRequest
  NoTenant = NoTenant
  MaxLog = 2
  MaxWrites = 2
SPECIFICATION Spec
SYMMETRY Symmetry
INVARIANTS
  ChainIntact
  InFlightChained
  ChainInv
  LogExplainsRows
PROPERTIES
  ImplementsJournal
