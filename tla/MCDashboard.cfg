\* Two keys, filters and cases; two requests in flight.
CONSTANTS
  a1 = a1  a2 = a2  all = all  open = open  k1 = k1  k2 = k2  None = None
  Keys = {a1, a2}
  Filters = {all, open}
  Cases = {k1, k2}
  Slots = {1, 2}
SPECIFICATION FairSpec
INVARIANTS
  TypeOK
  StoredKeyAccepted
  ListAnswersFilter
  OneAtATimeWhileMounted
PROPERTIES
  WritesFollowAnswers
  BusyEnds
