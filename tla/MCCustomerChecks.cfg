\* Two tenants with a customer each, two requests, two thresholds around the scores, two peppers.
CONSTANTS
  t1 = t1  t2 = t2  c1 = c1  c2 = c2  k1 = k1  k2 = k2
  near = near  far = far  error = error  blank = blank
  e1 = e1  e2 = e2
  v1 = v1  v2 = v2  zeros = zeros  nines = nines
  p1 = p1  p2 = p2
  r1 = r1  r2 = r2  None = None
  Tenants = {t1, t2}
  Customers = {c1, c2}
  Checks = {k1, k2}
  Names = {near, far, error}
  BlankName = blank
  ErrorName = error
  Entries = {e1, e2}
  Similarity <- MCSimilarity
  Thresholds = {690, 700}
  Identifiers = {v1, v2, zeros, nines}
  LastFour <- MCLastFour
  NoMatch = zeros
  ProviderError = nines
  Peppers = {p1, p2}
  Requests = {r1, r2}
SPECIFICATION Spec
SYMMETRY Symmetry
INVARIANTS
  TypeOK
  ChecksOfOwnCustomers
  MatchesEscalated
  VerdictReproducible
  RepeatsAgree
\* Clients stop sending when every id has been used.
CHECK_DEADLOCK FALSE
