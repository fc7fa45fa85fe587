CONSTANTS
  c1 = c1 c2 = c2 c3 = c3 e1 = e1 e2 = e2 e3 = e3 b1 = b1 b2 = b2 b3 = b3
  Asker = {c1, c2, c3}
  Employee = {e1, e2, e3}
  Branch = {b1, b2, b3}
  Primary = b1
  SeatLimits = {1, Unlimited}
  BranchCaps = {1, 2}
  Unlimited = Unlimited
  Nobody = Nobody
SPECIFICATION SeatsSpec
SYMMETRY Symmetry
INVARIANTS StaffWithinPlans BranchesWithinPlans
