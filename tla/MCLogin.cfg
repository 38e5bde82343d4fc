SPECIFICATION Spec
CONSTANTS
  Devices = {d1, d2}
  NoDevice = NoDevice
  Workers = {w1, w2}
  Idle = Idle
  MaxAttempts = 2
  MaxResends = 1
  MaxChallenges = 2
  MaxSessions = 2
  OuterJoinLockable = TRUE
SYMMETRY Symmetry
INVARIANTS
  TypeOK
  SessionsEarned
PROPERTY TwinsNeedOverlap
