\* Two tenants, two keys, two requests, two overlapping commands.
CONSTANTS
  t1 = t1  t2 = t2
  k1 = k1  k2 = k2
  c1 = c1  c2 = c2
  r1 = r1  r2 = r2
  None = None
  Tenants = {t1, t2}
  Keys = {k1, k2}
  Commands = {c1, c2}
  Requests = {r1, r2}
SPECIFICATION FairSpec
INVARIANTS
  TypeOK
  AuthenticatedCanRecord
  WorkByOwnKey
  PrintedKeysStored
PROPERTIES
  RevocationEndsAccess
  RevokedOutOfUse
