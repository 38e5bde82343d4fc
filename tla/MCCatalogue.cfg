SPECIFICATION Spec
CONSTANTS
  d1 = d1
  d2 = d2
  v1 = v1
  v2 = v2
  Requests = {r1, r2}
  Dealerships = {d1, d2}
  Vins = {v1, v2}
  Stock <- MCStock
  Jobs <- MCJobs
  MaxRows = 2
  MaxMinute = 2
INVARIANTS
  VinTwiceNeedsOverlap
  SummaryTrueOrNothing
PROPERTIES
  InventoryKept
