SPECIFICATION Spec
CONSTANTS
  Emails = {e1, e2}
  Names = {n1, n2}
  Slug <- MCSlug
  Workers = {w1, w2}
  Idle = Idle
  MaxChallenges = 2
  MaxCompanies = 2
SYMMETRY Symmetry
INVARIANTS
  TypeOK
  OneCompanyEach
