SPECIFICATION Spec
CONSTANTS
  Users = {u1, u2}
  Senders = {s1}
  Requests = {r1, r2, r3}
  Calls <- MCCalls
  Patches <- MCPatches
  NoNote = NoNote
SYMMETRY Symmetry
INVARIANTS
  TypeOK
  OptOutHonoured
