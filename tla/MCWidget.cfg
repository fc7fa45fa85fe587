CONSTANTS
  s1 = s1 s2 = s2 e1 = e1 d1 = d1 t1 = t1 t2 = t2
  Service = {s1, s2}
  WithAddons = {s1}
  Employee = {e1}
  Day = {d1}
  Time = {t1, t2}
  MaxPeople = 2
  MaxFetches = 2
  MaxLost = 1
  None = None
SPECIFICATION Spec
SYMMETRY Symmetry
INVARIANTS TypeOK TimesAreCurrent SlotFitsChoice OneBookingPerAnswer
CHECK_DEADLOCK FALSE
