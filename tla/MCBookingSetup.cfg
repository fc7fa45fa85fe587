CONSTANTS
  r1 = r1 r2 = r2 a1 = a1 a2 = a2 e1 = e1
  Request = {r1, r2}
  Appt = {a1, a2}
  Employee = {e1}
  Start <- TwoStarts
  Length <- Catalog
  Timetable <- Rota
  DayOff <- Leave
  Horizon = 3
  MaxAhead = 2
  Grace = 0
  Month <- OneMonth
  MonthOf <- OneMonthOf
  MaxBookings = 3
  MaxReleases = 0
  MaxEdits = 2
  None = None
SPECIFICATION SafeSpec
SYMMETRY Symmetry
PROPERTIES ImplementsCalendar KeepsToSetup
CHECK_DEADLOCK FALSE
