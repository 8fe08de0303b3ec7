\* Two requests, payments of two customers in two currencies, both sides of every threshold, by rounding too.
CONSTANTS
  x1 = x1  x2 = x2  x3 = x3
  alice = alice  bob = bob  ngn = ngn  usd = usd
  r1 = r1  r2 = r2  r3 = r3  NoRequest = NoRequest
  LargeAmount = 10
  VelocityAmount = 6
  VelocityCount = 2
  VelocityWindow = 1
  RoundMinimum = 4
  RoundModulus = 2
  Ids = {x1, x2, x3}
  Customers = {alice, bob}
  Currencies = {ngn, usd}
  Amounts = {24, 30, 35, 96}
  Floor = "high"
  Requests = {r1, r2}
  MaxClock = 2
SPECIFICATION Spec
SYMMETRY Symmetry
INVARIANTS
  TypeOK
  EvaluatedInCommitOrder
  LargeAlwaysEscalated
  AllOrNothing
\* Clients stop sending when every id has been used.
CHECK_DEADLOCK FALSE
