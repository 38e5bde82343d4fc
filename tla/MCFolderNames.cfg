SPECIFICATION Spec
CONSTANTS
  Requests = {r1, r2, r3, r4}
  Names <- MCNames
  Asked <- MCAsked
  ScanNames <- MCScanNames
  MaxNumber = 5
  StartsWith <- MCStartsWith
  Numbered <- MCNumbered
SYMMETRY Symmetry
INVARIANTS
  TypeOK
  NumberedBesidePlain
PROPERTY
  CollisionExplained
