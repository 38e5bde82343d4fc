SPECIFICATION FairSpec
CONSTANTS
  Requests = {r1, r2, r3}
  NoRequest = NoRequest
  Items = {i1}
  VhrFields = {k1}
  Buckets = {b1}
  CreateStatuses <- TwoStarts
  PatchStatuses <- TwoPatches
  OuterJoinLockable = TRUE
INVARIANTS
  TypeOK
  NoDuplicateWorkItems
  CaseStamped
PROPERTIES
  MovesRecordedUnlessStale
  LossNeedsOverlap
  LedgerIsAtomic
  RequestsAnswered
