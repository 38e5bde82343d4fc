SPECIFICATION Spec
CONSTANTS
  Items = {i1, i2}
  Vendors = {v1, v2}
  Workers = {w1, w2}
  Idle = Idle
  Nobody = Nobody
  MaxCompletions = 2
  MaxAttachments = 1
  OuterJoinLockable = TRUE
  LocaldateBound = TRUE
SYMMETRY Symmetry
INVARIANT TypeOK
PROPERTIES
  ItemsLive
  CompletedAsRead
