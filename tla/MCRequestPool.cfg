\* Three requests, two connections, two threads: a writer that waits for a thread, a
\* request that waits for its chain head, and one that waits for a connection.
CONSTANTS
  t1 = t1  t2 = t2  c1 = c1  c2 = c2
  r1 = r1  r2 = r2  r3 = r3  None = None
  Requests = {r1, r2, r3}
  Tenants = {t1, t2}
  Connections = {c1, c2}
  Threads = 2
SPECIFICATION FairSpec
INVARIANTS
  TypeOK
  NothingLeaks
  PinnedToOwnTenant
  ThreadBeyondLocks
PROPERTIES
  RequestsEnd
