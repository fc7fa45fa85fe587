CONSTANTS
  r1 = r1
  r2 = r2
  r3 = r3
  r4 = r4
  r5 = r5
  Request = {r1, r2, r3, r4, r5}
  NoOne = NoOne
  Price = 2
  MaxAmount = 2
  Amounts = {0, 1, 2}
SPECIFICATION Spec
SYMMETRY Symmetry
INVARIANTS TypeOK AuditExplainsEntries NetWithoutRaces SettledWithinPrice
PROPERTIES EntriesFrozen
CHECK_DEADLOCK FALSE
