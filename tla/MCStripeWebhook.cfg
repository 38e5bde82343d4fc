SPECIFICATION FairSpec
CONSTANTS
  Subs = {s1, s2}
  Invoices = {v1}
  Values = {0, 1}
  NoRow = NoRow
  None = None
  Created <- New
  MaxEvents = 3
INVARIANTS
  TypeOK
PROPERTIES
  MirroredOnce
  CheckoutNeverRegresses
  EventsSettled
