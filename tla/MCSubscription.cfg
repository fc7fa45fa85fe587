CONSTANTS
  c1 = c1 c2 = c2
  Call = {c1, c2}
  MaxPayments = 2
  Paid = {"PRO"}
  Length <- OneTick
  Trial = 1
  Grace = 1
  MaxTime = 3
  None = None
SPECIFICATION Spec
INVARIANTS TypeOK PaidAccessKept
PROPERTIES SweepChangesNothing StatusComesTrue
