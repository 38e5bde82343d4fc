SPECIFICATION Spec
CONSTANTS
  Emails = {e1, e2}
  Workers = {w1, w2}
  Idle = Idle
  MaxUsers = 2
  MaxVendors = 1
  MaxInvites = 2
  MaxResends = 1
SYMMETRY Symmetry
INVARIANTS
  TypeOK
PROPERTIES
  LimitExceededByOverlap
  OnlyLiveInvitesAccepted
  InvitedMemberNeedsOverlap
