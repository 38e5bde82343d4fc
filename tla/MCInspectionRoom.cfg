SPECIFICATION Spec
CONSTANTS
  Members = {m1, m2}
  Items = {i1, i2}
  Statuses = {"ok", "needs_attention"}
  Idle = Idle
  Nothing = Nothing
  Capacity = 2
  MaxSaves = 3
SYMMETRY Symmetry
INVARIANTS
  TypeOK
  CountersTrue
  SettledView
