\* Three requests that start in one order and get the lock in another.
CONSTANTS
  x1 = x1  x2 = x2  x3 = x3
  alice = alice  bob = bob  ngn = ngn  usd = usd
  r1 = r1  r2 = r2  r3 = r3  NoRequest = NoRequest
  LargeAmount = 10
  VelocityAmount = 6
  VelocityCount = 3
  VelocityWindow = 1
  RoundMinimum = 4
  RoundModulus = 2
  Ids = {x1, x2, x3}
  Customers = {alice}
  Currencies = {ngn}
  Amounts = {20}
  Floor = "medium"
  Requests = {r1, r2, r3}
  MaxClock = 2
SPECIFICATION Spec
SYMMETRY Symmetry
INVARIANTS
  StructuringFlagged
\* Clients stop sending when every id has been used.
CHECK_DEADLOCK FALSE
