CONSTANTS
  r1 = r1 r2 = r2 a1 = a1 a2 = a2 e1 = e1
  Request = {r1, r2}
  Appt = {a1, a2}
  Employee = {e1}
  Start <- MCStart
  Length <- MCLength
  Timetable <- MCTimetable
  DayOff <- MCDayOff
  Horizon = 3
  MaxAhead = 2
  Grace = 0
  Month <- MCMonth
  MonthOf <- MCMonthOf
  MaxBookings = 2
  MaxReleases = 1
  MaxEdits = 0
  None = None
SPECIFICATION SafeSpec
SYMMETRY Symmetry
INVARIANTS TypeOK NoDoubleBooking QuotaWithinPlan QuotaConserved
PROPERTIES ImplementsCalendar NotClosedEarly
CHECK_DEADLOCK FALSE
