\* A case opened by hand that two requests update, report on and annotate.
CONSTANTS
  k1 = k1  k2 = k2  NoCase = NoCase
  alice = alice  bob = bob
  s1 = s1  s2 = s2
  a1 = a1  None = None
  r1 = r1  r2 = r2  NoRequest = NoRequest
  Cases = {k1}
  Customers = {alice}
  Sources = {s1}
  SourceCustomer <- MCOneSource
  InitialCases = {}
  InitialSource <- MCNoSource
  Assignees = {}
  Requests = {r1, r2}
  MaxReports = 2
  MaxNotes = 1
SPECIFICATION Spec
SYMMETRY Symmetry
INVARIANTS
  TypeOK
  ResolvedHasResolution
  FiledReportsWereSubmitted
PROPERTIES
  ImplementsLifecycle
