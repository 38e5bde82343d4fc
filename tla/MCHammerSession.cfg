SPECIFICATION FairSpec
CONSTANTS
  Requests = {r1, r2}
  NoRequest = NoRequest
  Managers = {m1, m2}
  Items = {i1, i2}
  MaxCost = 1
  MaxLines = 2
PROPERTIES
  FinalizedEditsAreStale
  DriftExplained
  RequestsAnswered
