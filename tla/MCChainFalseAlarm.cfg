\* A verifier next to a writer; nobody touches the stored rows.
CONSTANTS
  t1 = t1  t2 = t2
  r1 = r1  r2 = r2
  rec1 = rec1  rec2 = rec2
  c1 = c1
  w1 = w1  w2 = w2
  v1 = v1  v2 = v2
  Tenants = {t1}
  Records = {rec1, rec2}
  Columns = {c1}
  Values = {w1, w2}
  StoredAs <- MCStoredAs
  Requests = {r1}
  NoRequest = NoRequest
  NoTenant = NoTenant
  MaxLog = 2
  MaxWrites = 1
  Verifiers = {v1}
  MaxAlterations = 0
SPECIFICATION CSpec
SYMMETRY Symmetry
INVARIANTS
  NoFalseAlarm
