SPECIFICATION Spec
CONSTANTS
  Workers = {w1, w2}
  Idle = Idle
  Plans <- TwoPlans
  MultiDealership <- Growth
  MaxDealerships <- Limits
  NoCustomer = NoCustomer
  MaxRows = 3
  MaxCustomers = 2
SYMMETRY Symmetry
INVARIANT TypeOK
PROPERTIES
  OneDefault
  LimitNeedsOverlap
