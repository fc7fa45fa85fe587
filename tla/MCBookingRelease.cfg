CONSTANTS
  r1 = r1 r2 = r2 a1 = a1 a2 = a2 e1 = e1
  Request = {r1, r2}
  Appt = {a1, a2}
  Employee = {e1}
  Start <- TwoStarts
  Length <- ShortLength
  Timetable <- MCTimetable
  DayOff <- MCDayOff
  Horizon = 2
  MaxAhead = 2
  Grace = 0
  Month <- MCMonth
  MonthOf <- MCMonthOf
  MaxBookings = 2
  MaxReleases = 1
  MaxEdits = 0
  None = None
SPECIFICATION SafeSpec
INVARIANTS OneReleasePerBooking
CHECK_DEADLOCK FALSE
