\* A report request that fails after the submission.
CONSTANTS
  k1 = k1  k2 = k2  NoCase = NoCase
  alice = alice  bob = bob
  s1 = s1  s2 = s2
  a1 = a1  None = None
  r1 = r1  r2 = r2  NoRequest = NoRequest
  Cases = {k1}
  Customers = {alice, bob}
  Sources = {s1, s2}
  SourceCustomer <- MCSourceCustomer
  InitialCases = {k1}
  InitialSource <- MCInitialSource
  Assignees = {}
  Requests = {r1, r2}
  MaxReports = 1
  MaxNotes = 0
SPECIFICATION Spec
SYMMETRY Symmetry
INVARIANTS
  SubmissionsRecorded
