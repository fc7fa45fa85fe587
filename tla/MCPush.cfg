CONSTANTS
  a1 = a1 a2 = a2 p1 = p1 p2 = p2 NoAppt = NoAppt
  Appt = {a1}
  Pass = {p1, p2}
  Lead = 2
  Near = 3
  Horizon = 1
  Batch = 2
  MaxTime = 4
  MaxMoves = 1
  MaxTrouble = 1
SPECIFICATION Spec
INVARIANTS TypeOK OneReminder RemindersStay
PROPERTIES RemindersComeRight
CHECK_DEADLOCK FALSE
