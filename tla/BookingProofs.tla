--------------------------- MODULE BookingProofs ----------------------------
(***************************************************************************)
(* For every salon, any number of requests, rows, employees and months:    *)
(* the state of Booking.tla is well formed, no employee is booked twice at *)
(* the same time, no month's counter passes the plan's limit, no quota     *)
(* slot is lost or charged to nobody, what is written was allowed by the   *)
(* set-up or its check is out of date, nothing is closed before its start  *)
(* on a time that stands, and the code implements the abstract calendar.   *)
(***************************************************************************)
EXTENDS Booking, Sums, TLAPS

\* The fields of a request are visible in every step below.
USE DEF RequestState

\* What a request carries at each of its steps.
RequestShape(q) ==
  /\ q.pc # "idle" => q.appt \in Appt
  /\ q.pc \in {"book", "charged"} => q.emp \in Employee
  /\ q.pc \in {"book", "charged", "move", "moved", "staffMove", "setStatus"}
       => q.slot \in Slot
  /\ q.pc = "charged" => q.month \in Month
  /\ q.pc = "setStatus" => q.goal \in Outcome

\* A request other than a booking works on a row that exists.
OnExistingRow(q) ==
  q.pc \notin {"idle", "book", "charged"} => status[q.appt] # "NONE"

WellFormed ==
  /\ TypeOK
  /\ \A r \in Request : RequestShape(req[r]) /\ OnExistingRow(req[r])
  /\ \A a \in Appt :
       status[a] # "NONE" => /\ emp[a] \in Employee
                             /\ slot[a] \in Slot
                             /\ booked[a] \in Month

\* What can be asked for is an interval of natural numbers.
LEMMA SlotsAreIntervals == Slot \subseteq Interval
BY BookingConstants DEF Slot, Interval

\* And it ends no sooner than it begins.
LEMMA SlotsRunForward == \A s \in Slot : s.from \in Nat /\ s.to \in Nat /\ s.from <= s.to
BY BookingConstants DEF Slot

\* A request that ends is one again that has not begun.
LEMMA IdleState == Idle \in RequestState
BY BookingConstants DEF Idle, PC

\* The clock is always in a known month.
LEMMA ClockInMonth == TypeOK => MonthOf[now] \in Month
BY BookingConstants DEF TypeOK

\* The salon is well formed before its first booking.
LEMMA WellFormedInit == Init => WellFormed
<1> SUFFICES ASSUME Init PROVE WellFormed
  OBVIOUS
<1>1. TypeOK
  BY BookingConstants, IdleState DEF Init, TypeOK, Status
<1>2. ASSUME NEW r \in Request PROVE RequestShape(req[r]) /\ OnExistingRow(req[r])
  BY DEF Init, Idle, RequestShape, OnExistingRow
<1>3. \A a \in Appt : status[a] = "NONE"
  BY DEF Init
<1> QED
  BY <1>1, <1>2, <1>3 DEF WellFormed

\* The state of one request may be replaced by any that is well formed.
LEMMA RequestReplaced ==
  ASSUME WellFormed, NEW r \in Request, NEW q,
         q \in RequestState,
         RequestShape(q), OnExistingRow(q),
         Become(r, q), UNCHANGED <<now, setup, calendar, usage, history>>
  PROVE  WellFormed'
<1> USE DEF calendar, setup, history
<1>1. TypeOK'
  BY DEF WellFormed, TypeOK, Become
<1>2. ASSUME NEW p \in Request PROVE (RequestShape(req[p]) /\ OnExistingRow(req[p]))'
  BY DEF WellFormed, TypeOK, Become, RequestShape, OnExistingRow
<1> QED
  BY <1>1, <1>2 DEF WellFormed

\* A request that ends leaves a well formed salon.
LEMMA RequestFinished ==
  ASSUME WellFormed, NEW r \in Request, Finish(r),
         UNCHANGED <<now, setup, calendar, usage, history>>
  PROVE  WellFormed'
<1>1. Become(r, Idle)
  BY DEF Finish
<1>2. RequestShape(Idle) /\ OnExistingRow(Idle)
  BY DEF Idle, RequestShape, OnExistingRow
<1> QED
  BY <1>1, <1>2, IdleState, RequestReplaced

\* Every step that begins a request keeps the salon well formed.
LEMMA BeginWellFormed ==
  ASSUME WellFormed, NEW r \in Request, Begin(r)
  PROVE  WellFormed'
<1> USE SlotsAreIntervals, IdleState DEF PC, Idle
<1>0. edits \in 0..MaxEdits
  BY DEF WellFormed, TypeOK
<1>1. ASSUME NEW source \in Source, NEW a \in Appt, NEW e \in Employee, NEW s \in Slot,
             StartBooking(r, source, a, e, s)
      PROVE  WellFormed'
  BY <1>0, <1>1, RequestReplaced DEF StartBooking, RequestShape, OnExistingRow
<1>2. ASSUME NEW a \in Appt, NEW s \in Slot, StartMove(r, a, s)
      PROVE  WellFormed'
  BY <1>0, <1>2, RequestReplaced
     DEF StartMove, Manageable, Confirmed, RequestShape, OnExistingRow
<1>3. ASSUME NEW a \in Appt, NEW s \in Slot, StartStaffMove(r, a, s)
      PROVE  WellFormed'
  BY <1>0, <1>3, RequestReplaced DEF StartStaffMove, Confirmed, RequestShape, OnExistingRow
<1>4. ASSUME NEW a \in Appt, StartCancel(r, a)
      PROVE  WellFormed'
  BY <1>4, RequestReplaced
     DEF StartCancel, Manageable, Confirmed, RequestShape, OnExistingRow
<1>5. ASSUME NEW a \in Appt, NEW goal \in Outcome, StartSetStatus(r, a, goal)
      PROVE  WellFormed'
  <2>1. OwesQuota(status[a], goal) \in BOOLEAN
    BY DEF OwesQuota
  <2>2. slot[a] \in Slot
    BY <1>5 DEF StartSetStatus, WellFormed
  <2> QED
    BY <1>5, <2>1, <2>2, RequestReplaced DEF StartSetStatus, RequestShape, OnExistingRow
<1> QED
  BY <1>1, <1>2, <1>3, <1>4, <1>5 DEF Begin

\* A step of a booking keeps the salon well formed.
LEMMA BookingStepWellFormed ==
  ASSUME WellFormed, NEW r \in Request,
         ChargeBooking(r) \/ InsertBooking(r) \/ SlotTaken(r)
  PROVE  WellFormed'
<1>1. CASE ChargeBooking(r)
  <2>1. CASE QuotaLeft(MonthOf[now])
    <3> DEFINE q == [req[r] EXCEPT !.pc = "charged", !.month = MonthOf[now]]
    <3>1. TypeOK /\ RequestShape(req[r]) /\ MonthOf[now] \in Month
      BY ClockInMonth DEF WellFormed
    <3>2. /\ req[r] \in RequestState
          /\ req[r].pc = "book"
      BY <1>1, <3>1 DEF ChargeBooking, At, TypeOK
    <3>3. /\ q \in RequestState
          /\ q.pc = "charged"
      BY <3>1, <3>2 DEF PC
    <3>4. RequestShape(q) /\ OnExistingRow(q)
      BY <3>1, <3>2, <3>3 DEF RequestShape, OnExistingRow
    <3>5. Become(r, q) /\ UNCHANGED <<now, setup, calendar, usage, history>>
      BY <1>1, <2>1 DEF ChargeBooking
    <3> HIDE DEF q
    <3> QED
      BY <3>3, <3>4, <3>5, RequestReplaced
  <2>2. CASE ~QuotaLeft(MonthOf[now])
    BY <1>1, <2>2, RequestFinished DEF ChargeBooking, RolledBack
  <2> QED
    BY <2>1, <2>2
<1>2. CASE InsertBooking(r)
  <2> DEFINE q == req[r]
  <2>1. /\ q.appt \in Appt /\ q.emp \in Employee
        /\ q.slot \in Slot /\ q.month \in Month
    BY <1>2 DEF InsertBooking, At, WellFormed, RequestShape
  <2>2. TypeOK'
    BY <1>2, <2>1, ClockInMonth, SlotsAreIntervals, IdleState
       DEF InsertBooking, Finish, Become, WellFormed, TypeOK, Status,
           setup, history
  <2>3. ASSUME NEW p \in Request PROVE (RequestShape(req[p]) /\ OnExistingRow(req[p]))'
    BY <1>2, <2>1
       DEF InsertBooking, Finish, Become, Idle, WellFormed, TypeOK,
           RequestShape, OnExistingRow
  <2>4. ASSUME NEW a \in Appt, status'[a] # "NONE"
        PROVE  emp'[a] \in Employee /\ slot'[a] \in Slot /\ booked'[a] \in Month
    BY <1>2, <2>1, <2>4, ClockInMonth DEF InsertBooking, WellFormed, TypeOK
  <2> QED
    BY <2>2, <2>3, <2>4 DEF WellFormed
<1>3. CASE SlotTaken(r)
  BY <1>3, RequestFinished DEF SlotTaken, RolledBack
<1> QED
  BY <1>1, <1>2, <1>3

\* A step of a customer's move keeps the salon well formed.
LEMMA MoveStepWellFormed ==
  ASSUME WellFormed, NEW r \in Request, MoveRow(r) \/ ChargeMove(r)
  PROVE  WellFormed'
<1>1. CASE MoveRow(r)
  <2>1. CASE Become(r, [req[r] EXCEPT !.pc = "moved"])
    BY <1>1, <2>1, RequestReplaced
       DEF MoveRow, At, WellFormed, TypeOK, PC, RequestShape, OnExistingRow
  <2>2. CASE Finish(r)
    BY <1>1, <2>2, RequestFinished DEF MoveRow
  <2> QED
    BY <1>1, <2>1, <2>2 DEF MoveRow
<1>2. CASE ChargeMove(r)
  <2>1. req[r].appt \in Appt /\ req[r].slot \in Slot /\ status[req[r].appt] # "NONE"
    BY <1>2 DEF ChargeMove, At, WellFormed, RequestShape, OnExistingRow
  <2>2. TypeOK'
    <3>1. MonthOf[now] \in Month
      BY ClockInMonth DEF WellFormed
    <3>2. /\ usage' \in [Month -> Nat] /\ moves' \in [Month -> Nat]
          /\ slot' \in [Appt -> Interval \union {None}]
      <4>0. /\ usage \in [Month -> Nat] /\ moves \in [Month -> Nat]
            /\ slot \in [Appt -> Interval \union {None}]
        BY DEF WellFormed, TypeOK
      <4>1. CASE QuotaLeft(MonthOf[now])
        BY <1>2, <2>1, <3>1, <4>0, <4>1, SlotsAreIntervals DEF ChargeMove
      <4>2. CASE ~QuotaLeft(MonthOf[now])
        BY <1>2, <4>2 DEF ChargeMove, RolledBack, WellFormed, TypeOK
      <4> QED
        BY <4>1, <4>2
    <3> QED
      BY <1>2, <2>1, <3>2, IdleState
         DEF ChargeMove, Finish, Become, WellFormed, TypeOK, setup
  <2>3. ASSUME NEW p \in Request PROVE (RequestShape(req[p]) /\ OnExistingRow(req[p]))'
    BY <1>2 DEF ChargeMove, Finish, Become, Idle, WellFormed, TypeOK,
                RequestShape, OnExistingRow
  <2>4. ASSUME NEW a \in Appt, status'[a] # "NONE"
        PROVE  emp'[a] \in Employee /\ slot'[a] \in Slot /\ booked'[a] \in Month
    BY <1>2, <2>1, <2>4 DEF ChargeMove, WellFormed, TypeOK
  <2> QED
    BY <2>2, <2>3, <2>4 DEF WellFormed
<1> QED
  BY <1>1, <1>2

\* An UPDATE of the status column that touches only rows that exist, and makes
\* none of them vanish, keeps the salon well formed.
LEMMA StatusUpdated ==
  ASSUME WellFormed, status' \in [Appt -> Status],
         \A a \in Appt : status'[a] = "NONE" <=> status[a] = "NONE",
         UNCHANGED <<now, setup, emp, slot, booked, usage, req, history>>
  PROVE  WellFormed'
<1> USE DEF setup, history
<1>1. TypeOK'
  BY DEF WellFormed, TypeOK
<1>2. ASSUME NEW p \in Request PROVE (RequestShape(req[p]) /\ OnExistingRow(req[p]))'
  BY DEF WellFormed, TypeOK, RequestShape, OnExistingRow
<1> QED
  BY <1>1, <1>2 DEF WellFormed

\* A step of a cancellation, of a move by staff, or of a status change keeps
\* the salon well formed.
LEMMA RowStepWellFormed ==
  ASSUME WellFormed, NEW r \in Request,
         CancelRow(r) \/ StaffMoveRow(r) \/ SetStatus(r) \/ ReleaseQuota(r)
  PROVE  WellFormed'
<1> DEFINE q == req[r]
<1>0. q.appt \in Appt /\ status[q.appt] # "NONE"
  BY DEF CancelRow, StaffMoveRow, SetStatus, ReleaseQuota, At, WellFormed,
         RequestShape, OnExistingRow
<1> USE DEF setup, history
<1>1. CASE CancelRow(r)
  <2>1. TypeOK'
    BY <1>0, <1>1, IdleState DEF CancelRow, Finish, Become, WellFormed, TypeOK,
                      Status, Outcome
  <2>2. \A a \in Appt : status'[a] = "NONE" <=> status[a] = "NONE"
    BY <1>0, <1>1 DEF CancelRow, WellFormed, TypeOK
  <2>3. ASSUME NEW p \in Request PROVE (RequestShape(req[p]) /\ OnExistingRow(req[p]))'
    BY <1>1, <2>2 DEF CancelRow, Finish, Become, Idle, WellFormed, TypeOK,
                      RequestShape, OnExistingRow
  <2> QED
    BY <1>1, <2>1, <2>2, <2>3 DEF CancelRow, WellFormed
<1>2. CASE StaffMoveRow(r)
  <2>1. q.slot \in Slot
    BY <1>2 DEF StaffMoveRow, At, WellFormed, RequestShape
  <2>2. slot' \in [Appt -> Interval \union {None}]
    BY <1>0, <1>2, <2>1, SlotsAreIntervals DEF StaffMoveRow, WellFormed, TypeOK
  <2>3. TypeOK'
    BY <1>2, <2>2, IdleState DEF StaffMoveRow, Finish, Become, WellFormed, TypeOK
  <2>4. ASSUME NEW p \in Request PROVE (RequestShape(req[p]) /\ OnExistingRow(req[p]))'
    BY <1>2 DEF StaffMoveRow, Finish, Become, Idle, WellFormed, TypeOK,
                RequestShape, OnExistingRow
  <2>5. ASSUME NEW a \in Appt, status'[a] # "NONE"
        PROVE  emp'[a] \in Employee /\ slot'[a] \in Slot /\ booked'[a] \in Month
    BY <1>2, <2>1, <2>5 DEF StaffMoveRow, WellFormed, TypeOK
  <2> QED
    BY <2>3, <2>4, <2>5 DEF WellFormed
<1>3. CASE SetStatus(r)
  <2>1. CASE status[q.appt] = "DELETED"
    BY <1>3, <2>1, RequestFinished DEF SetStatus, calendar
  <2>2. CASE status[q.appt] # "DELETED"
    <3>1. q.goal \in Outcome
      BY <1>3 DEF SetStatus, At, WellFormed, RequestShape
    <3>2. /\ status' = [status EXCEPT ![q.appt] = q.goal]
          /\ \/ Become(r, [q EXCEPT !.pc = "release"])
             \/ Become(r, Idle)
      BY <1>3, <2>2 DEF SetStatus, Finish
    <3>3. req' \in [Request -> RequestState]
      <4>0. req \in [Request -> RequestState]
        BY DEF WellFormed, TypeOK
      <4>1. CASE Become(r, [q EXCEPT !.pc = "release"])
        <5>1. q \in RequestState
          BY <4>0
        <5>2. [q EXCEPT !.pc = "release"] \in RequestState
          BY <5>1 DEF PC
        <5>3. PICK state \in RequestState : Become(r, state)
          BY <4>1, <5>2
        <5> QED
          BY ONLY <4>0, <5>3 DEF Become
      <4>2. CASE Become(r, Idle)
        BY ONLY <4>0, <4>2, IdleState DEF Become
      <4> QED
        BY <3>2, <4>1, <4>2
    <3>4. TypeOK'
      BY <1>0, <1>3, <3>1, <3>2, <3>3 DEF SetStatus, WellFormed, TypeOK, Status
    <3>5. \A a \in Appt : status'[a] = "NONE" <=> status[a] = "NONE"
      BY <1>0, <3>1, <3>2 DEF WellFormed, TypeOK, Outcome
    <3>6. ASSUME NEW p \in Request
          PROVE  (RequestShape(req[p]) /\ OnExistingRow(req[p]))'
      BY <1>0, <3>2, <3>5 DEF Become, Idle, WellFormed, TypeOK,
                              RequestShape, OnExistingRow
    <3> QED
      BY <1>3, <3>4, <3>5, <3>6 DEF SetStatus, WellFormed
  <2> QED
    BY <2>1, <2>2
<1>4. CASE ReleaseQuota(r)
  <2>1. booked[q.appt] \in Month
    BY <1>0 DEF WellFormed
  <2>2. usage' \in [Month -> Nat] /\ released' \in [Appt -> Nat]
    <3>1. CASE CanRelease(booked[q.appt])
      BY <1>0, <1>4, <2>1, <3>1 DEF ReleaseQuota, ReleaseMonth, CanRelease,
                                    WellFormed, TypeOK
    <3>2. CASE ~CanRelease(booked[q.appt])
      BY <1>4, <3>2 DEF ReleaseQuota, ReleaseMonth, WellFormed, TypeOK
    <3> QED
      BY <3>1, <3>2
  <2>3. TypeOK'
    BY <1>4, <2>2, IdleState DEF ReleaseQuota, Finish, Become, WellFormed, TypeOK,
                      calendar
  <2>4. ASSUME NEW p \in Request PROVE (RequestShape(req[p]) /\ OnExistingRow(req[p]))'
    BY <1>4 DEF ReleaseQuota, Finish, Become, Idle, WellFormed, TypeOK,
                RequestShape, OnExistingRow, calendar
  <2> QED
    BY <1>4, <2>3, <2>4 DEF ReleaseQuota, WellFormed, calendar
<1> QED
  BY <1>1, <1>2, <1>3, <1>4

\* The worker, the set-up screens and the clock keep the salon well formed.
LEMMA SurroundingsWellFormed ==
  ASSUME WellFormed, Surroundings
  PROVE  WellFormed'
<1>1. CASE Reconcile
  BY <1>1, StatusUpdated
     DEF Reconcile, Overdue, Confirmed, Status, Outcome, WellFormed, TypeOK
<1>2. ASSUME NEW rows \in SUBSET Appt, DeleteCustomer(rows)
      PROVE  WellFormed'
  BY <1>2, StatusUpdated DEF DeleteCustomer, Status, WellFormed, TypeOK
<1>3. ASSUME \/ Tick
             \/ \E len \in Length : EditService(len)
             \/ \E e \in Employee, table \in Timetable : SaveHours(e, table)
             \/ \E e \in Employee, off \in DayOff :
                  AddTimeOff(e, off) \/ DeleteTimeOff(e, off)
      PROVE  WellFormed'
  <2>1. UNCHANGED <<calendar, usage, req, history>>
    BY <1>3 DEF Tick, EditService, SaveHours, AddTimeOff, DeleteTimeOff
  <2> DEFINE SetupTyped == /\ now \in 0..Horizon /\ blockLen \in Length
                           /\ edits \in 0..MaxEdits
                           /\ windows \in [Employee -> Timetable]
                           /\ timeOff \in [Employee -> SUBSET DayOff]
  <2>2. SetupTyped'
    <3> USE BookingConstants DEF Edit, setup, WellFormed, TypeOK
    <3>1. CASE Tick
      BY <3>1 DEF Tick
    <3>2. ASSUME NEW len \in Length, EditService(len)
          PROVE  SetupTyped'
      BY <3>2 DEF EditService
    <3>3. ASSUME NEW e \in Employee, NEW table \in Timetable, SaveHours(e, table)
          PROVE  SetupTyped'
      BY <3>3 DEF SaveHours
    <3>4. ASSUME NEW e \in Employee, NEW off \in DayOff, AddTimeOff(e, off)
          PROVE  SetupTyped'
      <4>1. timeOff[e] \union {off} \in SUBSET DayOff
        OBVIOUS
      <4> QED
        BY <3>4, <4>1 DEF AddTimeOff
    <3>5. ASSUME NEW e \in Employee, NEW off \in DayOff, DeleteTimeOff(e, off)
          PROVE  SetupTyped'
      <4>1. timeOff[e] \ {off} \in SUBSET DayOff
        OBVIOUS
      <4> QED
        BY <3>5, <4>1 DEF DeleteTimeOff
    <3> QED
      BY <1>3, <3>1, <3>2, <3>3, <3>4, <3>5
  <2>3. TypeOK'
    BY <2>1, <2>2 DEF WellFormed, TypeOK, calendar, history
  <2> QED
    BY <2>1, <2>3 DEF WellFormed, RequestShape, OnExistingRow, calendar
<1> QED
  BY <1>1, <1>2, <1>3 DEF Surroundings

\* WellFormed is an invariant: no step of a request, of the worker or of the
\* set-up screens leaves a row or a request half-filled.
THEOREM WellFormedInvariant == SafeSpec => []WellFormed
<1>1. ASSUME WellFormed, [Next]_vars PROVE WellFormed'
  <2>1. ASSUME NEW r \in Request, Proceed(r) PROVE WellFormed'
    BY <1>1, <2>1, BookingStepWellFormed, MoveStepWellFormed, RowStepWellFormed DEF Proceed
  <2>2. ASSUME NEW r \in Request, Crash(r) \/ DeadlockAbort(r) PROVE WellFormed'
    BY <1>1, <2>2, RequestFinished DEF Crash, DeadlockAbort
  <2>3. CASE UNCHANGED vars
    BY <1>1, <2>3 DEF vars, setup, calendar, history, WellFormed, TypeOK, RequestShape,
                OnExistingRow
  <2> QED
    BY <1>1, <2>1, <2>2, <2>3, BeginWellFormed, SurroundingsWellFormed DEF Next
<1> QED
  BY WellFormedInit, <1>1, PTL DEF SafeSpec

\* Type correctness, for every value of the constants.
THEOREM TypeInvariant == SafeSpec => []TypeOK
<1>1. WellFormed => TypeOK
  BY DEF WellFormed
<1> QED
  BY WellFormedInvariant, <1>1, PTL

-----------------------------------------------------------------------------
(* No double booking. NoDoubleBooking is not inductive: a customer's move  *)
(* that has passed the constraint publishes its interval only when it      *)
(* commits, so what is proved speaks of the intervals held by open         *)
(* transactions too.                                                       *)

Booking(r) == req[r].pc \in {"book", "charged"}

\* The row id a booking has chosen is not in the table and nobody else's.
Reserved ==
  \A r \in Request : Booking(r) =>
    /\ status[req[r].appt] = "NONE"
    /\ \A q \in Request \ {r} : req[q].appt # req[r].appt

\* An open move's row is CONFIRMED, and its new interval is clear of the rows
\* and of the other open moves.
MovesApart ==
  \A r \in Request : At(r, "moved") =>
    /\ Confirmed(req[r].appt)
    /\ \A b \in Appt \ {req[r].appt} :
         Confirmed(b) /\ emp[b] = emp[req[r].appt] => ~Overlap(slot[b], req[r].slot)
    /\ \A q \in Request \ {r} : At(q, "moved") =>
         /\ req[q].appt # req[r].appt
         /\ emp[req[q].appt] = emp[req[r].appt] => ~Overlap(req[q].slot, req[r].slot)

NoOverlapInv == Reserved /\ MovesApart /\ NoDoubleBooking

\* A request in state q neither reserves a row nor holds a move open.
Harmless(q) ==
  /\ q.pc \notin {"book", "charged", "moved"}
  /\ q.appt \notin Appt \/ status[q.appt] # "NONE"

\* Nothing overlaps as long as rows only stop being CONFIRMED, those of open
\* moves excepted, and requests only become harmless.
LEMMA NothingNewHeld ==
  ASSUME WellFormed, NoOverlapInv, UNCHANGED <<emp, slot>>,
         \A a \in Appt : Confirmed(a)' => Confirmed(a),
         \A a \in Appt : status'[a] = "NONE" <=> status[a] = "NONE",
         \A r \in Request : (At(r, "moved") => Confirmed(req[r].appt))',
         \A r \in Request : req'[r] = req[r] \/ Harmless(req'[r])
  PROVE  NoOverlapInv'
<1>1. NoDoubleBooking'
  BY DEF NoOverlapInv, NoDoubleBooking, Confirmed
<1>2. ASSUME NEW r \in Request, Booking(r)'
      PROVE  /\ status'[req'[r].appt] = "NONE"
             /\ \A q \in Request \ {r} : req'[q].appt # req'[r].appt
  <2>1. req'[r] = req[r] /\ req[r].appt \in Appt /\ Booking(r)
    BY <1>2 DEF Booking, Harmless, WellFormed, RequestShape
  <2> QED
    BY <2>1 DEF NoOverlapInv, Reserved, Harmless
<1>3. ASSUME NEW r \in Request, At(r, "moved")'
      PROVE  req'[r] = req[r] /\ At(r, "moved") /\ req[r].appt \in Appt
  BY <1>3 DEF At, Harmless, WellFormed, RequestShape
<1>4. MovesApart'
  BY <1>3 DEF NoOverlapInv, MovesApart, Confirmed
<1> QED
  BY <1>1, <1>2, <1>4 DEF NoOverlapInv, Reserved

\* As above, for a step that leaves the table alone.
LEMMA RequestHarmless ==
  ASSUME WellFormed, NoOverlapInv, NEW r \in Request, NEW q, Harmless(q),
         Become(r, q), UNCHANGED calendar
  PROVE  NoOverlapInv'
<1>1. \A p \in Request : req'[p] = IF p = r THEN q ELSE req[p]
  BY DEF Become, WellFormed, TypeOK
<1>2. \A p \in Request : (At(p, "moved") => Confirmed(req[p].appt))'
  BY <1>1 DEF NoOverlapInv, MovesApart, Harmless, At, Confirmed, calendar
<1> QED
  BY <1>1, <1>2, NothingNewHeld DEF calendar, Confirmed

\* A request that ends holds nothing any more.
LEMMA IdleHarmless == Harmless(Idle)
BY BookingConstants DEF Harmless, Idle

\* Steps that begin a request keep intervals apart.
LEMMA BeginNoOverlap ==
  ASSUME WellFormed, NoOverlapInv, NEW r \in Request, Begin(r)
  PROVE  NoOverlapInv'
<1>1. ASSUME NEW source \in Source, NEW a \in Appt, NEW e \in Employee, NEW s \in Slot,
             StartBooking(r, source, a, e, s)
      PROVE  NoOverlapInv'
  <2>1. /\ status[a] = "NONE" /\ \A q \in Request : req[q].appt # a
        /\ UNCHANGED <<status, emp, slot>>
    BY <1>1 DEF StartBooking, calendar
  <2>2. /\ req'[r].pc = "book" /\ req'[r].appt = a
        /\ \A q \in Request \ {r} : req'[q] = req[q]
    BY <1>1 DEF StartBooking, Become, Idle, WellFormed, TypeOK
  <2>3. Reserved'
    BY <2>1, <2>2 DEF NoOverlapInv, Reserved, Booking
  <2>4. MovesApart'
    BY <2>1, <2>2 DEF NoOverlapInv, MovesApart, At, Confirmed
  <2>5. NoDoubleBooking'
    BY <2>1 DEF NoOverlapInv, NoDoubleBooking, Confirmed
  <2> QED
    BY <2>3, <2>4, <2>5 DEF NoOverlapInv
<1>2. ASSUME NEW a \in Appt, NEW s \in Slot, StartMove(r, a, s)
      PROVE  NoOverlapInv'
  BY <1>2, RequestHarmless DEF StartMove, Manageable, Confirmed, Harmless, Idle
<1>3. ASSUME NEW a \in Appt, NEW s \in Slot, StartStaffMove(r, a, s)
      PROVE  NoOverlapInv'
  BY <1>3, RequestHarmless DEF StartStaffMove, Confirmed, Harmless, Idle
<1>4. ASSUME NEW a \in Appt, StartCancel(r, a)
      PROVE  NoOverlapInv'
  BY <1>4, RequestHarmless DEF StartCancel, Manageable, Confirmed, Harmless, Idle
<1>5. ASSUME NEW a \in Appt, NEW goal \in Outcome, StartSetStatus(r, a, goal)
      PROVE  NoOverlapInv'
  BY <1>5, RequestHarmless DEF StartSetStatus, Harmless, Idle
<1> QED
  BY <1>1, <1>2, <1>3, <1>4, <1>5 DEF Begin

\* A booking's row goes in only clear of rows and of open moves.
LEMMA BookingStepNoOverlap ==
  ASSUME WellFormed, NoOverlapInv, NEW r \in Request,
         ChargeBooking(r) \/ InsertBooking(r) \/ SlotTaken(r)
  PROVE  NoOverlapInv'
<1>1. CASE ChargeBooking(r)
  <2>1. CASE QuotaLeft(MonthOf[now])
    <3>1. /\ req'[r].pc = "charged" /\ req'[r].appt = req[r].appt /\ Booking(r)
          /\ \A q \in Request \ {r} : req'[q] = req[q]
          /\ UNCHANGED <<status, emp, slot>>
      <4>1. /\ req[r].pc = "book"
            /\ Become(r, [req[r] EXCEPT !.pc = "charged", !.month = MonthOf[now]])
            /\ UNCHANGED calendar
        BY <1>1, <2>1 DEF ChargeBooking, At
      <4> QED
        BY <4>1 DEF Booking, At, Become, calendar, WellFormed, TypeOK
    <3>2. Reserved'
      BY <3>1 DEF NoOverlapInv, Reserved, Booking
    <3>3. MovesApart'
      BY <3>1 DEF NoOverlapInv, MovesApart, At, Confirmed
    <3>4. NoDoubleBooking'
      BY <3>1 DEF NoOverlapInv, NoDoubleBooking, Confirmed
    <3> QED
      BY <3>2, <3>3, <3>4 DEF NoOverlapInv
  <2>2. CASE ~QuotaLeft(MonthOf[now])
    BY <1>1, <2>2, RequestHarmless, IdleHarmless DEF ChargeBooking, Finish
  <2> QED
    BY <2>1, <2>2
<1>2. CASE InsertBooking(r)
  <2> DEFINE x == req[r].appt
             e == req[r].emp
             s == req[r].slot
  <2>1. /\ At(r, "charged") /\ x \in Appt /\ status[x] = "NONE"
        /\ \A q \in Request \ {r} : req[q].appt # x
    BY <1>2 DEF InsertBooking, At, NoOverlapInv, Reserved, Booking, WellFormed,
                RequestShape
  <2>2. /\ status'[x] = "CONFIRMED" /\ emp'[x] = e /\ slot'[x] = s
        /\ \A a \in Appt \ {x} :
             status'[a] = status[a] /\ emp'[a] = emp[a] /\ slot'[a] = slot[a]
        /\ req'[r] = Idle /\ \A q \in Request \ {r} : req'[q] = req[q]
    BY <1>2, <2>1 DEF InsertBooking, Finish, Become, WellFormed, TypeOK
  <2>3. \A b \in Appt \ {x} : Confirmed(b) /\ emp[b] = e => ~Overlap(slot[b], s)
    BY <1>2 DEF InsertBooking, ConstraintAllows, Clash
  <2>4. \A q \in Request \ {r} :
          At(q, "moved") /\ emp[req[q].appt] = e => ~Overlap(req[q].slot, s)
    BY <1>2 DEF InsertBooking, ConstraintAllows, HoldsConflict
  <2>5. Reserved'
    BY <2>1, <2>2, IdleHarmless
       DEF NoOverlapInv, Reserved, Booking, WellFormed, RequestShape, Harmless
  <2>6. NoDoubleBooking'
    BY <2>2, <2>3 DEF NoOverlapInv, NoDoubleBooking, Confirmed, Overlap
  <2>7. MovesApart'
    <3> SUFFICES ASSUME NEW q \in Request, At(q, "moved")'
                 PROVE  /\ Confirmed(req[q].appt)'
                        /\ \A b \in Appt \ {req'[q].appt} :
                             Confirmed(b)' /\ emp'[b] = emp'[req'[q].appt]
                               => ~Overlap(slot'[b], req'[q].slot)
                        /\ \A p \in Request \ {q} : At(p, "moved")' =>
                             /\ req'[p].appt # req'[q].appt
                             /\ emp'[req'[p].appt] = emp'[req'[q].appt]
                                  => ~Overlap(req'[p].slot, req'[q].slot)
      BY DEF MovesApart
    <3>1. \A p \in Request : At(p, "moved")' =>
            /\ p # r /\ At(p, "moved") /\ req'[p] = req[p]
            /\ req[p].appt \in Appt \ {x}
      BY <2>1, <2>2 DEF At, Idle, WellFormed, RequestShape
    <3> QED
      BY <2>2, <2>4, <3>1 DEF NoOverlapInv, MovesApart, Confirmed, Overlap
  <2> QED
    BY <2>5, <2>6, <2>7 DEF NoOverlapInv
<1>3. CASE SlotTaken(r)
  BY <1>3, RequestHarmless, IdleHarmless DEF SlotTaken, Finish
<1> QED
  BY <1>1, <1>2, <1>3

\* A row is rewritten to an interval that is clear of rows and of open moves.
LEMMA SlotRewritten ==
  ASSUME WellFormed, NoOverlapInv, NEW r \in Request, NEW x \in Appt, NEW s,
         status[x] # "NONE", req' = [req EXCEPT ![r] = Idle],
         UNCHANGED <<status, emp>>, slot' = [slot EXCEPT ![x] = s],
         \A b \in Appt \ {x} : Confirmed(b) /\ emp[b] = emp[x] => ~Overlap(slot[b], s),
         \A q \in Request \ {r} : At(q, "moved") =>
           /\ req[q].appt # x
           /\ emp[req[q].appt] = emp[x] => ~Overlap(req[q].slot, s)
  PROVE  NoOverlapInv'
<1>1. req'[r] = Idle /\ \A q \in Request \ {r} : req'[q] = req[q]
  BY DEF WellFormed, TypeOK
<1>2. slot'[x] = s /\ \A a \in Appt \ {x} : slot'[a] = slot[a]
  BY DEF WellFormed, TypeOK
<1>3. Reserved'
  BY <1>1, IdleHarmless
     DEF NoOverlapInv, Reserved, Booking, WellFormed, RequestShape, Harmless
<1>4. NoDoubleBooking'
  BY <1>2 DEF NoOverlapInv, NoDoubleBooking, Confirmed, Overlap
<1>5. MovesApart'
  <2> SUFFICES ASSUME NEW q \in Request, At(q, "moved")'
               PROVE  /\ Confirmed(req[q].appt)'
                      /\ \A b \in Appt \ {req'[q].appt} :
                           Confirmed(b)' /\ emp'[b] = emp'[req'[q].appt]
                             => ~Overlap(slot'[b], req'[q].slot)
                      /\ \A p \in Request \ {q} : At(p, "moved")' =>
                           /\ req'[p].appt # req'[q].appt
                           /\ emp'[req'[p].appt] = emp'[req'[q].appt]
                                => ~Overlap(req'[p].slot, req'[q].slot)
    BY DEF MovesApart
  <2>1. \A p \in Request : At(p, "moved")' =>
          p # r /\ At(p, "moved") /\ req'[p] = req[p] /\ req[p].appt \in Appt
    BY <1>1 DEF At, Idle, WellFormed, RequestShape
  <2> QED
    BY <1>2, <2>1 DEF NoOverlapInv, MovesApart, Confirmed, Overlap
<1> QED
  BY <1>3, <1>4, <1>5 DEF NoOverlapInv

\* A customer's move opens clear of rows and of other open moves, and what it
\* publishes at its commit is still clear of them.
LEMMA MoveStepNoOverlap ==
  ASSUME WellFormed, NoOverlapInv, NEW r \in Request, MoveRow(r) \/ ChargeMove(r)
  PROVE  NoOverlapInv'
<1> DEFINE x == req[r].appt
           s == req[r].slot
<1>0. x \in Appt /\ status[x] # "NONE"
  BY DEF MoveRow, ChargeMove, At, WellFormed, RequestShape, OnExistingRow
<1>1. CASE MoveRow(r)
  <2>1. CASE Finish(r)
    BY <1>1, <2>1, RequestHarmless, IdleHarmless DEF MoveRow, Finish
  <2>2. CASE ~Finish(r)
    <3>1. /\ Confirmed(x) /\ ConstraintAllows(r, emp[x], s, x) /\ ~RowLocked(r, x)
          /\ Become(r, [req[r] EXCEPT !.pc = "moved"])
          /\ UNCHANGED <<status, emp, slot>>
      BY <1>1, <2>2 DEF MoveRow, calendar
    <3>2. /\ req'[r].pc = "moved" /\ req'[r].appt = x /\ req'[r].slot = s
          /\ \A q \in Request \ {r} : req'[q] = req[q]
      BY <3>1 DEF Become, WellFormed, TypeOK
    <3>3. /\ \A b \in Appt \ {x} :
               Confirmed(b) /\ emp[b] = emp[x] => ~Overlap(slot[b], s)
          /\ \A q \in Request \ {r} : At(q, "moved") =>
               /\ req[q].appt # x
               /\ emp[req[q].appt] = emp[x] => ~Overlap(req[q].slot, s)
      BY <3>1 DEF ConstraintAllows, Clash, HoldsConflict, RowLocked
    <3>4. ~Booking(r)
      BY <1>1 DEF MoveRow, At, Booking
    <3>5. Reserved'
      BY <3>1, <3>2, <3>4 DEF NoOverlapInv, Reserved, Booking
    <3>6. MovesApart'
      BY <3>1, <3>2, <3>3 DEF NoOverlapInv, MovesApart, At, Confirmed, Overlap
    <3>7. NoDoubleBooking'
      BY <3>1 DEF NoOverlapInv, NoDoubleBooking, Confirmed
    <3> QED
      BY <3>5, <3>6, <3>7 DEF NoOverlapInv
  <2> QED
    BY <2>1, <2>2
<1>2. CASE ChargeMove(r)
  <2>1. CASE QuotaLeft(MonthOf[now])
    <3>1. /\ \A b \in Appt \ {x} :
               Confirmed(b) /\ emp[b] = emp[x] => ~Overlap(slot[b], s)
          /\ \A q \in Request \ {r} : At(q, "moved") =>
               /\ req[q].appt # x
               /\ emp[req[q].appt] = emp[x] => ~Overlap(req[q].slot, s)
      BY <1>2 DEF ChargeMove, NoOverlapInv, MovesApart
    <3>2. /\ req' = [req EXCEPT ![r] = Idle] /\ UNCHANGED <<status, emp>>
          /\ slot' = [slot EXCEPT ![x] = s]
      BY <1>2, <2>1 DEF ChargeMove, Finish, Become
    <3> HIDE DEF x, s
    <3> QED
      BY <1>0, <3>1, <3>2, SlotRewritten
  <2>2. CASE ~QuotaLeft(MonthOf[now])
    BY <1>2, <2>2, RequestHarmless, IdleHarmless DEF ChargeMove, Finish, calendar
  <2> QED
    BY <2>1, <2>2
<1> QED
  BY <1>1, <1>2

\* The remaining steps of a request keep intervals apart.
LEMMA RowStepNoOverlap ==
  ASSUME WellFormed, NoOverlapInv, NEW r \in Request,
         CancelRow(r) \/ StaffMoveRow(r) \/ SetStatus(r) \/ ReleaseQuota(r)
  PROVE  NoOverlapInv'
<1> DEFINE x == req[r].appt
           s == req[r].slot
<1>0. x \in Appt /\ status[x] # "NONE" /\ ~At(r, "moved")
  BY DEF CancelRow, StaffMoveRow, SetStatus, ReleaseQuota, At, WellFormed,
         RequestShape, OnExistingRow
<1>1. CASE StaffMoveRow(r)
  <2>1. CASE slot' = [slot EXCEPT ![x] = s] /\ ConstraintAllows(r, emp[x], s, x)
    <3>1. /\ \A b \in Appt \ {x} :
               Confirmed(b) /\ emp[b] = emp[x] => ~Overlap(slot[b], s)
          /\ \A q \in Request \ {r} : At(q, "moved") =>
               /\ req[q].appt # x
               /\ emp[req[q].appt] = emp[x] => ~Overlap(req[q].slot, s)
      BY <1>1, <2>1 DEF StaffMoveRow, ConstraintAllows, Clash, HoldsConflict, RowLocked
    <3>2. req' = [req EXCEPT ![r] = Idle] /\ UNCHANGED <<status, emp>>
      BY <1>1 DEF StaffMoveRow, Finish, Become
    <3> HIDE DEF x, s
    <3> QED
      BY <1>0, <2>1, <3>1, <3>2, SlotRewritten
  <2>2. CASE UNCHANGED slot
    BY <1>1, <2>2, RequestHarmless, IdleHarmless DEF StaffMoveRow, Finish, calendar
  <2> QED
    BY <1>1, <2>1, <2>2 DEF StaffMoveRow
<1>2. CASE CancelRow(r) \/ SetStatus(r)
  <2>1. UNCHANGED <<emp, slot>> /\ ~RowLocked(r, x)
    BY <1>2 DEF CancelRow, SetStatus
  <2>2. \A a \in Appt : /\ a # x => status'[a] = status[a]
                        /\ Confirmed(a)' => Confirmed(a)
                        /\ status'[a] = "NONE" <=> status[a] = "NONE"
    <3>1. SetStatus(r) => req[r].goal \in Outcome
      BY DEF SetStatus, At, WellFormed, RequestShape
    <3> QED
      BY <1>0, <1>2, <3>1 DEF CancelRow, SetStatus, Confirmed, Outcome, WellFormed,
                              TypeOK
  <2>3. /\ \A q \in Request \ {r} : req'[q] = req[q]
        /\ Harmless(req'[r])
    BY <1>0, <1>2, IdleHarmless
       DEF CancelRow, SetStatus, Finish, Become, Harmless, WellFormed, TypeOK
  <2>4. \A q \in Request : (At(q, "moved") => Confirmed(req[q].appt))'
    BY <1>0, <2>1, <2>2, <2>3
       DEF Harmless, At, RowLocked, NoOverlapInv, MovesApart, Confirmed,
           WellFormed, RequestShape
  <2> QED
    BY <2>1, <2>2, <2>3, <2>4, NothingNewHeld
<1>3. CASE ReleaseQuota(r)
  BY <1>3, RequestHarmless, IdleHarmless DEF ReleaseQuota, Finish
<1> QED
  BY <1>1, <1>2, <1>3

\* The worker and deletions only let intervals go, and wait for open moves.
LEMMA SurroundingsNoOverlap ==
  ASSUME WellFormed, NoOverlapInv, Surroundings
  PROVE  NoOverlapInv'
<1>1. UNCHANGED <<emp, slot, req>>
  BY DEF Surroundings, Reconcile, DeleteCustomer, EditService, SaveHours,
         AddTimeOff, DeleteTimeOff, Tick, calendar
<1>2. \A a \in Appt : /\ Confirmed(a)' => Confirmed(a)
                      /\ status'[a] = "NONE" <=> status[a] = "NONE"
  BY DEF Surroundings, Reconcile, Overdue, Confirmed, DeleteCustomer, EditService,
         SaveHours, AddTimeOff, DeleteTimeOff, Tick, calendar
<1>3. \A r \in Request : (At(r, "moved") => Confirmed(req[r].appt))'
  BY <1>1 DEF Surroundings, Reconcile, Confirmed, DeleteCustomer, EditService,
         SaveHours, AddTimeOff, DeleteTimeOff, Tick, calendar, At, NoOverlapInv,
         MovesApart, WellFormed, RequestShape
<1> QED
  BY <1>1, <1>2, <1>3, NothingNewHeld

\* Rows, reserved ids and the intervals of open moves stay apart for ever.
THEOREM NoOverlapInvariant == SafeSpec => []NoOverlapInv
<1>1. Init => NoOverlapInv
  BY DEF Init, Idle, NoOverlapInv, Reserved, Booking, MovesApart, At, Confirmed,
         NoDoubleBooking
<1>2. ASSUME WellFormed, NoOverlapInv, [Next]_vars PROVE NoOverlapInv'
  <2>1. ASSUME NEW r \in Request, Proceed(r) PROVE NoOverlapInv'
    BY <1>2, <2>1, BookingStepNoOverlap, MoveStepNoOverlap, RowStepNoOverlap DEF Proceed
  <2>2. ASSUME NEW r \in Request, Crash(r) \/ DeadlockAbort(r) PROVE NoOverlapInv'
    BY <1>2, <2>2, RequestHarmless, IdleHarmless DEF Crash, DeadlockAbort, Finish
  <2>3. CASE UNCHANGED vars
    BY <1>2, <2>3 DEF vars, calendar, NoOverlapInv, Reserved, Booking, MovesApart,
                      At, Confirmed, NoDoubleBooking
  <2> QED
    BY <1>2, <2>1, <2>2, <2>3, BeginNoOverlap, SurroundingsNoOverlap DEF Next
<1> QED
  BY <1>1, <1>2, WellFormedInvariant, PTL DEF SafeSpec

\* No interleaving of bookings, moves, status changes, edits of the catalog and
\* the rota, crashes and the worker books an employee twice at one time.
THEOREM NoDoubleBookingInvariant == SafeSpec => []NoDoubleBooking
<1>1. NoOverlapInv => NoDoubleBooking
  BY DEF NoOverlapInv
<1> QED
  BY <1>1, NoOverlapInvariant, PTL

-----------------------------------------------------------------------------
(* The quota. A booking that was charged and has not committed yet still   *)
(* fits under the limit when it does: the counter's row is locked, so no   *)
(* other charge of that month can come in between.                         *)

ChargeFits ==
  \A r \in Request : At(r, "charged") =>
    /\ usage[req[r].month] + 1 <= MaxBookings
    /\ \A q \in Request \ {r} : At(q, "charged") => req[q].month # req[r].month

QuotaInv == QuotaWithinPlan /\ ChargeFits

\* A step that raises no counter and charges nobody keeps to the plan.
LEMMA NothingCharged ==
  ASSUME WellFormed, QuotaInv, usage' \in [Month -> Nat],
         \A m \in Month : usage'[m] <= usage[m],
         \A r \in Request : At(r, "charged")' => req'[r] = req[r]
  PROVE  QuotaInv'
<1> USE BookingConstants
<1>1. QuotaWithinPlan'
  BY DEF QuotaInv, QuotaWithinPlan, WellFormed, TypeOK
<1>2. ASSUME NEW r \in Request, At(r, "charged")'
      PROVE  At(r, "charged") /\ req'[r] = req[r] /\ req[r].month \in Month
  BY <1>2 DEF At, WellFormed, RequestShape
<1>3. ASSUME NEW r \in Request, At(r, "charged")'
      PROVE  /\ usage'[req'[r].month] + 1 <= MaxBookings
             /\ \A q \in Request \ {r} : At(q, "charged")' => req'[q].month # req'[r].month
  <2>1. At(r, "charged") /\ req'[r] = req[r] /\ req[r].month \in Month
    BY <1>2, <1>3
  <2>2. usage[req[r].month] + 1 <= MaxBookings
    BY <2>1 DEF QuotaInv, ChargeFits
  <2>3. usage[req[r].month] \in Nat /\ usage'[req[r].month] \in Nat
    BY <2>1 DEF WellFormed, TypeOK
  <2>4. usage'[req'[r].month] + 1 <= MaxBookings
    BY <2>1, <2>2, <2>3
  <2>5. ASSUME NEW q \in Request \ {r}, At(q, "charged")' PROVE req'[q].month # req'[r].month
    BY <1>2, <2>1, <2>5 DEF QuotaInv, ChargeFits
  <2> QED
    BY <2>4, <2>5
<1>4. ChargeFits'
  BY <1>3 DEF ChargeFits
<1> QED
  BY <1>1, <1>4 DEF QuotaInv

\* A committed charge: month m goes up by one, and request r was the only one
\* that held its counter.
LEMMA ChargeCommitted ==
  ASSUME WellFormed, QuotaInv, NEW r \in Request, NEW m \in Month,
         usage[m] + 1 <= MaxBookings, usage' = [usage EXCEPT ![m] = @ + 1],
         \A q \in Request \ {r} : At(q, "charged") => req[q].month # m,
         req' = [req EXCEPT ![r] = Idle]
  PROVE  QuotaInv'
<1> USE BookingConstants
<1>1. /\ usage'[m] = usage[m] + 1
      /\ \A n \in Month \ {m} : usage'[n] = usage[n]
  BY DEF WellFormed, TypeOK
<1>2. QuotaWithinPlan'
  BY <1>1 DEF QuotaInv, QuotaWithinPlan
<1>3. ASSUME NEW q \in Request, At(q, "charged")'
      PROVE  /\ q # r /\ At(q, "charged") /\ req'[q] = req[q]
             /\ req[q].month \in Month \ {m}
  BY <1>3 DEF At, Idle, WellFormed, TypeOK, RequestShape
<1>4. ChargeFits'
  BY <1>1, <1>3 DEF QuotaInv, ChargeFits
<1> QED
  BY <1>2, <1>4 DEF QuotaInv

\* Every step of a request keeps to the plan.
LEMMA RequestQuota ==
  ASSUME WellFormed, QuotaInv, NEW r \in Request,
         Begin(r) \/ Proceed(r) \/ Crash(r) \/ DeadlockAbort(r)
  PROVE  QuotaInv'
<1> DEFINE m == MonthOf[now]
<1>0. usage \in [Month -> Nat] /\ m \in Month
  BY ClockInMonth DEF WellFormed, TypeOK
<1>1. CASE /\ UNCHANGED usage
           /\ req'[r].pc # "charged" /\ \A p \in Request \ {r} : req'[p] = req[p]
  BY <1>0, <1>1, NothingCharged DEF At
<1>2. CASE ChargeBooking(r) /\ QuotaLeft(m)
  <2>1. /\ req'[r].pc = "charged" /\ req'[r].month = m /\ UNCHANGED usage
        /\ \A q \in Request \ {r} : req'[q] = req[q]
    <3>1. /\ req' = [req EXCEPT ![r] = [req[r] EXCEPT !.pc = "charged", !.month = m]]
          /\ UNCHANGED usage
      BY <1>2 DEF ChargeBooking, Become
    <3> HIDE DEF m
    <3> QED
      BY <3>1 DEF WellFormed, TypeOK
  <2>2. \A q \in Request \ {r} : At(q, "charged") => req[q].month # m
    BY <1>2 DEF ChargeBooking, CounterLocked
  <2>3. ChargeFits'
    BY <1>2, <2>1, <2>2 DEF QuotaInv, ChargeFits, At, QuotaLeft
  <2> QED
    BY <2>1, <2>3 DEF QuotaInv, QuotaWithinPlan
<1>3. CASE InsertBooking(r)
  BY <1>3, ChargeCommitted
     DEF InsertBooking, Finish, Become, QuotaInv, ChargeFits, At, WellFormed,
         RequestShape
<1>4. CASE ChargeMove(r) /\ QuotaLeft(m)
  <2>1. \A q \in Request \ {r} : At(q, "charged") => req[q].month # m
    BY <1>4 DEF ChargeMove, CounterLocked
  <2>2. /\ usage' = [usage EXCEPT ![m] = @ + 1] /\ usage[m] + 1 <= MaxBookings
        /\ req' = [req EXCEPT ![r] = Idle]
    BY <1>4 DEF ChargeMove, Finish, Become, QuotaLeft
  <2> HIDE DEF m
  <2> QED
    BY <1>0, <2>1, <2>2, ChargeCommitted
<1>5. CASE ReleaseQuota(r)
  <2>1. booked[req[r].appt] \in Month
    BY <1>5 DEF ReleaseQuota, At, WellFormed, RequestShape, OnExistingRow
  <2>2. usage' \in [Month -> Nat] /\ \A n \in Month : usage'[n] <= usage[n]
    <3>1. CASE CanRelease(booked[req[r].appt])
      BY <1>0, <1>5, <2>1, <3>1 DEF ReleaseQuota, ReleaseMonth, CanRelease
    <3>2. CASE ~CanRelease(booked[req[r].appt])
      BY <1>0, <1>5, <3>2 DEF ReleaseQuota, ReleaseMonth
    <3> QED
      BY <3>1, <3>2
  <2>3. \A q \in Request : At(q, "charged")' => req'[q] = req[q]
    BY <1>5 DEF ReleaseQuota, Finish, Become, Idle, At, WellFormed, TypeOK
  <2> QED
    BY <2>2, <2>3, NothingCharged
<1>6. CASE Begin(r)
  <2> DEFINE Uncharged == req'[r].pc # "charged"
                            /\ \A p \in Request \ {r} : req'[p] = req[p]
  <2>1. UNCHANGED usage
    BY <1>6 DEF Begin, StartBooking, StartMove, StartStaffMove, StartCancel,
                StartSetStatus
  <2>2. ASSUME NEW source \in Source, NEW a \in Appt, NEW e \in Employee,
               NEW s \in Slot, StartBooking(r, source, a, e, s)
        PROVE  Uncharged
    BY <2>2 DEF StartBooking, Become, Idle, WellFormed, TypeOK
  <2>3. ASSUME NEW a \in Appt, NEW s \in Slot,
               StartMove(r, a, s) \/ StartStaffMove(r, a, s)
        PROVE  Uncharged
    <3>1. CASE StartMove(r, a, s)
      BY <3>1 DEF StartMove, Become, Idle, WellFormed, TypeOK
    <3>2. CASE StartStaffMove(r, a, s)
      BY <3>2 DEF StartStaffMove, Become, Idle, WellFormed, TypeOK
    <3> QED
      BY <2>3, <3>1, <3>2
  <2>4. ASSUME NEW a \in Appt, StartCancel(r, a)
        PROVE  Uncharged
    BY <2>4 DEF StartCancel, Become, Idle, WellFormed, TypeOK
  <2>5. ASSUME NEW a \in Appt, NEW goal \in Outcome, StartSetStatus(r, a, goal)
        PROVE  Uncharged
    BY <2>5 DEF StartSetStatus, Become, Idle, WellFormed, TypeOK
  <2>6. Uncharged
    BY <1>6, <2>2, <2>3, <2>4, <2>5 DEF Begin
  <2> QED
    BY <1>1, <2>1, <2>6
<1>7. CASE \/ Crash(r) \/ DeadlockAbort(r) \/ SlotTaken(r) \/ CancelRow(r)
           \/ StaffMoveRow(r)
           \/ ChargeBooking(r) /\ ~QuotaLeft(m)
           \/ ChargeMove(r) /\ ~QuotaLeft(m)
  <2>1. UNCHANGED usage /\ Become(r, Idle)
    BY <1>7 DEF Crash, DeadlockAbort, SlotTaken, CancelRow, StaffMoveRow,
                ChargeBooking, ChargeMove, Finish, RolledBack
  <2>2. req'[r].pc # "charged" /\ \A p \in Request \ {r} : req'[p] = req[p]
    BY <2>1 DEF Become, Idle, WellFormed, TypeOK
  <2> QED
    BY <1>1, <2>1, <2>2
<1>8. CASE MoveRow(r) \/ SetStatus(r)
  <2>1. UNCHANGED usage
    BY <1>8 DEF MoveRow, SetStatus
  <2>2. \/ Become(r, Idle)
        \/ Become(r, [req[r] EXCEPT !.pc = "moved"])
        \/ Become(r, [req[r] EXCEPT !.pc = "release"])
    BY <1>8 DEF MoveRow, SetStatus, Finish
  <2>3. req'[r].pc # "charged" /\ \A p \in Request \ {r} : req'[p] = req[p]
    BY <2>2 DEF Become, Idle, WellFormed, TypeOK
  <2> QED
    BY <1>1, <2>1, <2>3
<1> QED
  BY <1>2, <1>3, <1>4, <1>5, <1>6, <1>7, <1>8 DEF Proceed

\* No interleaving of bookings, customers' moves, releases and crashes takes a
\* month's counter past the plan's limit.
THEOREM QuotaWithinPlanInvariant == SafeSpec => []QuotaWithinPlan
<1>1. Init => QuotaInv
  BY BookingConstants
     DEF Init, Idle, QuotaInv, QuotaWithinPlan, ChargeFits, At
<1>2. ASSUME WellFormed, QuotaInv, [Next]_vars PROVE QuotaInv'
  <2>1. CASE Surroundings \/ UNCHANGED vars
    <3>1. UNCHANGED <<usage, req>>
      BY <2>1 DEF Surroundings, Reconcile, DeleteCustomer, EditService, SaveHours,
                  AddTimeOff, DeleteTimeOff, Tick, vars
    <3> QED
      BY <1>2, <3>1 DEF QuotaInv, QuotaWithinPlan, ChargeFits, At
  <2> QED
    BY <1>2, <2>1, RequestQuota DEF Next
<1>3. QuotaInv => QuotaWithinPlan
  BY DEF QuotaInv
<1> QED
  BY <1>1, <1>2, <1>3, WellFormedInvariant, PTL DEF SafeSpec

-----------------------------------------------------------------------------
(* The conservation of quota slots, over all months. Only three steps      *)
(* change what is summed, each of them at a commit.                        *)

Rows == {a \in Appt : booked[a] # None}

\* A row that was never in the table was charged to no month.
LedgerInv == QuotaConserved /\ \A a \in Appt : status[a] = "NONE" => booked[a] = None

LEMMA QuotaSums ==
  ASSUME TypeOK
  PROVE  /\ SumFunctionOnSet(usage, Month) \in Int /\ SumFunctionOnSet(moves, Month) \in Int
         /\ SumFunctionOnSet(released, Appt) \in Int
         /\ IsFiniteSet(Rows) /\ Cardinality(Rows) \in Nat
<1>1. /\ \A m \in Month : usage[m] \in Int /\ moves[m] \in Int
      /\ \A a \in Appt : released[a] \in Int
  BY DEF TypeOK
<1>2. IsFiniteSet(Rows)
  BY BookingConstants, FS_Subset DEF Rows
<1> QED
  BY <1>1, <1>2, BookingConstants, SumInt, FS_CardinalityType

\* g counts one more than f at one place, and therefore in total.
LEMMA OneMore ==
  ASSUME NEW S, IsFiniteSet(S), NEW f \in [S -> Nat], NEW g \in [S -> Nat], NEW x \in S,
         g[x] = f[x] + 1, \A y \in S \ {x} : g[y] = f[y]
  PROVE  SumFunctionOnSet(g, S) = SumFunctionOnSet(f, S) + 1
<1>1. \A y \in S : f[y] \in Int /\ g[y] \in Int
  OBVIOUS
<1>2. SumFunctionOnSet(g, S) = SumFunctionOnSet(f, S) + (g[x] - f[x])
  BY <1>1, SumChange
<1>3. g[x] - f[x] = 1
  BY <1>1
<1> QED
  BY <1>2, <1>3

\* The balance is kept by a step that moves the four numbers together.
LEMMA Balance ==
  ASSUME WellFormed, LedgerInv,
         NEW du \in Int, NEW dr \in Int, NEW dk \in Int, NEW dm \in Int, du + dr = dk + dm,
         SumFunctionOnSet(usage', Month) = SumFunctionOnSet(usage, Month) + du,
         SumFunctionOnSet(released', Appt) = SumFunctionOnSet(released, Appt) + dr,
         Cardinality(Rows') = Cardinality(Rows) + dk,
         SumFunctionOnSet(moves', Month) = SumFunctionOnSet(moves, Month) + dm
  PROVE  QuotaConserved'
<1>1. PICK u, r, k, m \in Int :
        /\ u = SumFunctionOnSet(usage, Month) /\ r = SumFunctionOnSet(released, Appt)
        /\ k = Cardinality(Rows) /\ m = SumFunctionOnSet(moves, Month)
  BY QuotaSums DEF WellFormed
<1>2. u + r = k + m
  BY <1>1 DEF LedgerInv, QuotaConserved, Rows
<1>3. (u + du) + (r + dr) = (k + dk) + (m + dm)
  BY <1>2
<1> QED
  BY <1>1, <1>3 DEF QuotaConserved, Rows

\* A booking commits: one row more, and one slot more in use.
LEMMA InsertConserves ==
  ASSUME WellFormed, NoOverlapInv, LedgerInv, NEW r \in Request, InsertBooking(r)
  PROVE  QuotaConserved'
<1> USE BookingConstants
<1>1. PICK a \in Appt, m \in Month : a = req[r].appt /\ m = req[r].month
  BY DEF InsertBooking, At, WellFormed, RequestShape
<1>2. /\ status[a] = "NONE" /\ usage \in [Month -> Nat] /\ booked \in [Appt -> Month \union {None}]
      /\ TypeOK /\ MonthOf[now] \in Month
  BY <1>1, ClockInMonth DEF InsertBooking, At, NoOverlapInv, Reserved, Booking, WellFormed, TypeOK
<1>3. /\ usage' = [usage EXCEPT ![m] = usage[m] + 1] /\ usage' \in [Month -> Nat]
      /\ booked' = [booked EXCEPT ![a] = MonthOf[now]] /\ UNCHANGED <<moves, released>>
  BY <1>1, <1>2 DEF InsertBooking, history
<1>4. SumFunctionOnSet(usage', Month) = SumFunctionOnSet(usage, Month) + 1
  <2>1. usage'[m] = usage[m] + 1 /\ \A n \in Month \ {m} : usage'[n] = usage[n]
    BY <1>2, <1>3
  <2> QED
    BY <1>2, <1>3, <2>1, OneMore
<1>5. a \notin Rows /\ Rows' = Rows \union {a}
  BY <1>2, <1>3 DEF LedgerInv, Rows
<1>6. Cardinality(Rows') = Cardinality(Rows) + 1
  BY <1>2, <1>5, QuotaSums, FS_AddElement
<1> QED
  <2>1. /\ SumFunctionOnSet(released', Appt) = SumFunctionOnSet(released, Appt) + 0
        /\ SumFunctionOnSet(moves', Month) = SumFunctionOnSet(moves, Month) + 0
    BY <1>2, <1>3, QuotaSums
  <2> QED
    BY <1>4, <1>6, <2>1, Balance

\* A customer's move commits: one move more, and one slot more in use.
LEMMA MoveConserves ==
  ASSUME WellFormed, LedgerInv, NEW r \in Request, ChargeMove(r), QuotaLeft(MonthOf[now])
  PROVE  QuotaConserved'
<1> USE BookingConstants
<1>1. PICK m \in Month : m = MonthOf[now]
  BY ClockInMonth DEF WellFormed
<1>2. TypeOK /\ usage \in [Month -> Nat] /\ moves \in [Month -> Nat]
  BY DEF WellFormed, TypeOK
<1>3. /\ usage' = [usage EXCEPT ![m] = usage[m] + 1] /\ usage' \in [Month -> Nat]
      /\ moves' = [moves EXCEPT ![m] = moves[m] + 1] /\ moves' \in [Month -> Nat]
      /\ UNCHANGED <<booked, released>>
  <2>1. /\ usage' = [usage EXCEPT ![m] = usage[m] + 1]
        /\ moves' = [moves EXCEPT ![m] = moves[m] + 1] /\ UNCHANGED <<booked, released>>
    BY <1>1 DEF ChargeMove
  <2> QED
    BY <1>2, <2>1
<1>4. /\ SumFunctionOnSet(usage', Month) = SumFunctionOnSet(usage, Month) + 1
      /\ SumFunctionOnSet(moves', Month) = SumFunctionOnSet(moves, Month) + 1
  <2>1. /\ usage'[m] = usage[m] + 1 /\ moves'[m] = moves[m] + 1
        /\ \A n \in Month \ {m} : usage'[n] = usage[n] /\ moves'[n] = moves[n]
    BY <1>2, <1>3
  <2> QED
    BY <1>2, <1>3, <2>1, OneMore
<1> QED
  <2>1. /\ SumFunctionOnSet(released', Appt) = SumFunctionOnSet(released, Appt) + 0
        /\ Cardinality(Rows') = Cardinality(Rows) + 0
    BY <1>2, <1>3, QuotaSums DEF Rows
  <2> QED
    BY <1>4, <2>1, Balance

\* A slot is given back: one less in use. An empty counter gives nothing back.
LEMMA ReleaseConserves ==
  ASSUME WellFormed, LedgerInv, NEW r \in Request, ReleaseQuota(r)
  PROVE  QuotaConserved'
<1> USE BookingConstants
<1>1. PICK a \in Appt, m \in Month : a = req[r].appt /\ m = booked[a]
  BY DEF ReleaseQuota, At, WellFormed, RequestShape, OnExistingRow
<1>2. TypeOK /\ usage \in [Month -> Nat] /\ released \in [Appt -> Nat]
  BY DEF WellFormed, TypeOK
<1>3. UNCHANGED <<moves, booked>>
  BY DEF ReleaseQuota, calendar
<1>4. CASE ~CanRelease(m)
  BY <1>1, <1>3, <1>4 DEF ReleaseQuota, ReleaseMonth, LedgerInv, QuotaConserved
<1>5. CASE CanRelease(m)
  <2>1. /\ usage' = [usage EXCEPT ![m] = usage[m] - 1]
        /\ released' = [released EXCEPT ![a] = released[a] + 1]
    BY <1>1, <1>5 DEF ReleaseQuota, ReleaseMonth
  <2>2. /\ usage' \in [Month -> Nat] /\ usage[m] = usage'[m] + 1
        /\ \A n \in Month \ {m} : usage'[n] = usage[n]
        /\ released' \in [Appt -> Nat] /\ released'[a] = released[a] + 1
        /\ \A b \in Appt \ {a} : released'[b] = released[b]
    BY <1>2, <1>5, <2>1 DEF CanRelease
  <2>3. SumFunctionOnSet(usage, Month) = SumFunctionOnSet(usage', Month) + 1
    <3>1. usage[m] = usage'[m] + 1 /\ \A n \in Month \ {m} : usage[n] = usage'[n]
      BY <2>2
    <3> QED
      BY <1>2, <2>2, <3>1, OneMore
  <2>4. SumFunctionOnSet(released', Appt) = SumFunctionOnSet(released, Appt) + 1
    BY <1>2, <2>2, OneMore
  <2> QED
    <3>1. /\ SumFunctionOnSet(moves', Month) = SumFunctionOnSet(moves, Month) + 0
          /\ Cardinality(Rows') = Cardinality(Rows) + 0
      BY <1>2, <1>3, QuotaSums DEF Rows
    <3>2. SumFunctionOnSet(usage', Month) \in Int /\ SumFunctionOnSet(usage, Month) \in Int
      <4>1. \A n \in Month : usage'[n] \in Int
        BY <2>2
      <4> QED
        BY <1>2, <4>1, SumInt, QuotaSums
    <3>3. SumFunctionOnSet(usage', Month) = SumFunctionOnSet(usage, Month) + (-1)
      BY <2>3, <3>2
    <3> QED
      BY <2>4, <3>1, <3>3, Balance
<1> QED
  BY <1>4, <1>5

\* Every other step leaves the counters and their rows alone.
LEMMA NothingCommitted ==
  ASSUME NEW r \in Request,
         \/ Begin(r) \/ Crash(r) \/ DeadlockAbort(r) \/ ChargeBooking(r) \/ SlotTaken(r)
         \/ MoveRow(r) \/ CancelRow(r) \/ StaffMoveRow(r) \/ SetStatus(r)
         \/ ChargeMove(r) /\ ~QuotaLeft(MonthOf[now])
  PROVE  UNCHANGED <<usage, booked, moves, released>>
BY DEF Begin, StartBooking, StartMove, StartStaffMove, StartCancel, StartSetStatus, Crash,
       DeadlockAbort, ChargeBooking, SlotTaken, MoveRow, CancelRow, StaffMoveRow, SetStatus,
       ChargeMove, RolledBack, calendar, history

\* A row that is not in the table was not there before, and no step that leaves
\* it out writes its month.
LEMMA NeverUnbooked ==
  ASSUME WellFormed, [Next]_vars, NEW a \in Appt, status'[a] = "NONE"
  PROVE  status[a] = "NONE" /\ booked'[a] = booked[a]
<1>1. ASSUME NEW r \in Request, InsertBooking(r)
      PROVE  status[a] = "NONE" /\ booked'[a] = booked[a]
  BY <1>1 DEF InsertBooking, WellFormed, TypeOK
<1>2. ASSUME NEW r \in Request, CancelRow(r) \/ SetStatus(r)
      PROVE  status[a] = "NONE" /\ booked'[a] = booked[a]
  <2>1. SetStatus(r) => req[r].goal \in Outcome
    BY DEF SetStatus, At, WellFormed, RequestShape
  <2> QED
    BY <1>2, <2>1 DEF CancelRow, SetStatus, Outcome, WellFormed, TypeOK
<1>3. CASE Surroundings
  BY <1>3 DEF Surroundings, Reconcile, DeleteCustomer, EditService, SaveHours, AddTimeOff,
              DeleteTimeOff, Tick, calendar
<1>4. ASSUME NEW r \in Request,
             \/ Begin(r) \/ Crash(r) \/ DeadlockAbort(r) \/ ChargeBooking(r) \/ SlotTaken(r)
             \/ MoveRow(r) \/ ChargeMove(r) \/ StaffMoveRow(r) \/ ReleaseQuota(r)
      PROVE  UNCHANGED <<status, booked>>
  BY <1>4 DEF Begin, StartBooking, StartMove, StartStaffMove, StartCancel, StartSetStatus,
              Crash, DeadlockAbort, ChargeBooking, SlotTaken, MoveRow, ChargeMove, StaffMoveRow,
              ReleaseQuota, calendar
<1>5. CASE UNCHANGED vars
  BY <1>5 DEF vars, calendar
<1> QED
  BY <1>1, <1>2, <1>3, <1>4, <1>5 DEF Next, Proceed

\* No interleaving of transactions, refusals, deadlocks and crashes loses a
\* quota slot or leaves one charged to nobody, over all months together.
THEOREM QuotaConservedInvariant == SafeSpec => []QuotaConserved
<1>1. Init => LedgerInv
  <2> SUFFICES ASSUME Init PROVE LedgerInv
    OBVIOUS
  <2>1. TypeOK
    BY WellFormedInit DEF WellFormed
  <2>2. /\ \A m \in Month : usage[m] = 0 /\ moves[m] = 0
        /\ \A a \in Appt : released[a] = 0 /\ booked[a] = None
    BY DEF Init
  <2>3. PICK u, v, w : u = usage /\ v = moves /\ w = released
    OBVIOUS
  <2>4. SumFunctionOnSet(u, Month) = SumFunctionOnSet(v, Month)
    BY <2>2, <2>3, BookingConstants, SumSame
  <2>5. SumFunctionOnSet(w, Appt) = 0
    BY <2>2, <2>3, BookingConstants, SumZero
  <2>6. Rows = {} /\ Cardinality(Rows) = 0
    BY <2>2, FS_EmptySet DEF Rows
  <2> QED
    BY <2>1, <2>2, <2>3, <2>4, <2>5, <2>6, QuotaSums DEF LedgerInv, QuotaConserved, Rows
<1>2. ASSUME WellFormed, NoOverlapInv, LedgerInv, [Next]_vars PROVE LedgerInv'
  <2>1. UNCHANGED <<usage, booked, moves, released>> => QuotaConserved'
    BY <1>2 DEF LedgerInv, QuotaConserved
  <2>2. Surroundings \/ UNCHANGED vars => UNCHANGED <<usage, booked, moves, released>>
    BY DEF Surroundings, Reconcile, DeleteCustomer, EditService, SaveHours,
           AddTimeOff, DeleteTimeOff, Tick, calendar, history, vars
  <2>3. QuotaConserved'
    BY <1>2, <2>1, <2>2, NothingCommitted, InsertConserves, MoveConserves, ReleaseConserves
       DEF Next, Proceed
  <2>4. ASSUME NEW a \in Appt, status'[a] = "NONE" PROVE booked'[a] = None
    <3>1. status[a] = "NONE" /\ booked'[a] = booked[a]
      BY <1>2, <2>4, NeverUnbooked
    <3> QED
      BY <1>2, <3>1 DEF LedgerInv
  <2> QED
    BY <2>3, <2>4 DEF LedgerInv
<1>3. LedgerInv => QuotaConserved
  BY DEF LedgerInv
<1> QED
  BY <1>1, <1>2, <1>3, WellFormedInvariant, NoOverlapInvariant, PTL DEF SafeSpec

-----------------------------------------------------------------------------
(* What the abstract calendar is worth: it never holds one employee twice  *)
(* at the same time. This is about Calendar alone: held is any calendar.   *)

VARIABLE held

Cal == INSTANCE Calendar

CalendarTypeOK == held \in [Appt -> Cal!Hold \union {Cal!Never, Cal!Gone}]

\* A marker is not an interval of anybody's.
LEMMA MarkersHoldNothing == Cal!Never \notin Cal!Hold /\ Cal!Gone \notin Cal!Hold
<1>1. \A h \in Cal!Hold : "slot" \in DOMAIN h
  BY DEF Cal!Hold
<1>2. "slot" \notin DOMAIN Cal!Never /\ "slot" \notin DOMAIN Cal!Gone
  BY DEF Cal!Never, Cal!Gone
<1> QED
  BY <1>1, <1>2

\* Giving one row a new interval that is free for it keeps rows apart.
LEMMA FreeIntervalDisjoint ==
  ASSUME CalendarTypeOK, Cal!Disjoint, NEW a \in Appt, NEW e \in Employee, NEW s \in Slot,
         Cal!FreeFor(a, e, s), held' = [held EXCEPT ![a] = [emp |-> e, slot |-> s]]
  PROVE  CalendarTypeOK' /\ Cal!Disjoint'
<1>1. /\ held'[a].emp = e /\ held'[a].slot = s
      /\ \A b \in Appt \ {a} : held'[b] = held[b]
  BY DEF CalendarTypeOK
<1>2. CalendarTypeOK'
  BY DEF CalendarTypeOK, Cal!Hold
<1>3. Cal!Disjoint'
  BY <1>1 DEF Cal!Disjoint, Cal!FreeFor, Cal!Holds, Cal!Overlap
<1> QED
  BY <1>2, <1>3

\* No sequence of takes, moves and releases holds overlapping intervals of one
\* employee (appointment_no_overlap, prisma/constraints.sql).
THEOREM CalendarDisjoint == Cal!Spec => []Cal!Disjoint
<1> USE MarkersHoldNothing
<1>1. Cal!Init => CalendarTypeOK /\ Cal!Disjoint
  BY DEF Cal!Init, CalendarTypeOK, Cal!Disjoint, Cal!Holds
<1>2. ASSUME CalendarTypeOK, Cal!Disjoint, [Cal!Next]_held PROVE CalendarTypeOK' /\ Cal!Disjoint'
  <2>1. ASSUME NEW a \in Appt, NEW e \in Employee, NEW s \in Slot, Cal!Take(a, e, s)
        PROVE  CalendarTypeOK' /\ Cal!Disjoint'
    BY <1>2, <2>1, FreeIntervalDisjoint DEF Cal!Take
  <2>2. ASSUME NEW a \in Appt, NEW s \in Slot, Cal!Move(a, s)
        PROVE  CalendarTypeOK' /\ Cal!Disjoint'
    <3>1. held[a].emp \in Employee
      BY <2>2 DEF Cal!Move, Cal!Holds, Cal!Hold
    <3> QED
      BY <1>2, <2>2, <3>1, FreeIntervalDisjoint DEF Cal!Move
  <2>3. ASSUME NEW gone \in SUBSET Appt, Cal!LetGo(gone)
        PROVE  CalendarTypeOK' /\ Cal!Disjoint'
    <3>1. \A a \in Appt : held'[a] = IF a \in gone THEN Cal!Gone ELSE held[a]
      BY <2>3 DEF Cal!LetGo
    <3>2. CalendarTypeOK'
      BY <1>2, <2>3 DEF Cal!LetGo, CalendarTypeOK
    <3>3. Cal!Disjoint'
      BY <1>2, <3>1 DEF Cal!Disjoint, Cal!Holds
    <3> QED
      BY <3>2, <3>3
  <2>4. CASE UNCHANGED held
    BY <1>2, <2>4 DEF CalendarTypeOK, Cal!Disjoint, Cal!Holds
  <2> QED
    BY <1>2, <2>1, <2>2, <2>3, <2>4 DEF Cal!Next
<1> QED
  BY <1>1, <1>2, PTL DEF Cal!Spec

-----------------------------------------------------------------------------
(* The booking code implements Calendar: every step of Next is one step of *)
(* the calendar, or changes nothing anybody holds.                         *)

heldNow == [a \in Appt |-> HeldBy(a)]

\* A row holds an interval of an employee exactly while it is CONFIRMED.
LEMMA HeldWhileConfirmed ==
  ASSUME WellFormed, NEW a \in Appt
  PROVE  /\ Confirmed(a) => /\ HeldBy(a) \in Abstract!Hold
                            /\ HeldBy(a).emp = emp[a] /\ HeldBy(a).slot = slot[a]
                            /\ HeldBy(a) = [emp |-> emp[a], slot |-> slot[a]]
         /\ status[a] = "NONE" => HeldBy(a) = Abstract!Never
         /\ ~Confirmed(a) /\ status[a] # "NONE" => HeldBy(a) = Abstract!Gone
         /\ ~Confirmed(a) => HeldBy(a) \notin Abstract!Hold
<1>1. Confirmed(a) => HeldBy(a) = [emp |-> emp[a], slot |-> slot[a]]
  BY DEF HeldBy, Confirmed
<1>2. Confirmed(a) => emp[a] \in Employee /\ slot[a] \in Slot
  BY DEF WellFormed, Confirmed
<1>3. status[a] = "NONE" => HeldBy(a) = Abstract!Never
  BY DEF HeldBy, Confirmed, Abstract!Never
<1>4. ~Confirmed(a) /\ status[a] # "NONE" => HeldBy(a) = Abstract!Gone
  BY DEF HeldBy, Confirmed, Abstract!Gone
<1>5. Abstract!Never \notin Abstract!Hold /\ Abstract!Gone \notin Abstract!Hold
  <2>1. \A h \in Abstract!Hold : "slot" \in DOMAIN h
    BY DEF Abstract!Hold
  <2>2. "slot" \notin DOMAIN Abstract!Never /\ "slot" \notin DOMAIN Abstract!Gone
    BY DEF Abstract!Never, Abstract!Gone
  <2> QED
    BY <2>1, <2>2
<1> QED
  BY <1>1, <1>2, <1>3, <1>4, <1>5 DEF Abstract!Hold

\* Rows that stop being CONFIRMED let their intervals go.
LEMMA StatusLetsGo ==
  ASSUME WellFormed, WellFormed', UNCHANGED <<emp, slot>>,
         \A a \in Appt : Confirmed(a)' => Confirmed(a),
         \A a \in Appt : status'[a] = "NONE" <=> status[a] = "NONE"
  PROVE  \E gone \in SUBSET Appt : Abstract!LetGo(gone)
<1> DEFINE gone == {a \in Appt : Confirmed(a) /\ status'[a] # "CONFIRMED"}
<1>1. ASSUME NEW a \in gone PROVE HeldBy(a) \in Abstract!Hold
  BY HeldWhileConfirmed
<1>2. ASSUME NEW a \in Appt
      PROVE  HeldBy(a)' = IF a \in gone THEN Abstract!Gone ELSE HeldBy(a)
  <2>1. CASE Confirmed(a)
    BY <2>1 DEF HeldBy, Confirmed, Abstract!Gone
  <2>2. CASE ~Confirmed(a)
    BY <2>2 DEF HeldBy, Confirmed, Abstract!Gone
  <2> QED
    BY <2>1, <2>2
<1>3. Abstract!LetGo(gone)
  BY <1>1, <1>2 DEF Abstract!LetGo, Abstract!Holds
<1> QED
  BY <1>3

\* An interval clear of the other CONFIRMED rows is free in the calendar.
LEMMA ClearIsFree ==
  ASSUME WellFormed, NEW a \in Appt, NEW e, NEW s, Clash(e, s, a) = {}
  PROVE  Abstract!FreeFor(a, e, s)
<1> SUFFICES ASSUME NEW b \in Appt \ {a}, HeldBy(b) \in Abstract!Hold, HeldBy(b).emp = e
             PROVE  ~Overlap(HeldBy(b).slot, s)
  BY DEF Abstract!FreeFor, Abstract!Holds, Abstract!Overlap, Overlap
<1>1. Confirmed(b) /\ emp[b] = e /\ HeldBy(b).slot = slot[b]
  BY HeldWhileConfirmed
<1> QED
  BY <1>1 DEF Clash

\* A row that is written to an interval clear of the others takes it in the
\* calendar, or moves to it.
LEMMA WritesMap ==
  ASSUME WellFormed, WellFormed', NEW a \in Appt, NEW s \in Slot, NEW e \in Employee,
         Clash(e, s, a) = {},
         status'[a] = "CONFIRMED", emp'[a] = e, slot'[a] = s,
         \A b \in Appt \ {a} :
           status'[b] = status[b] /\ emp'[b] = emp[b] /\ slot'[b] = slot[b],
         status[a] = "NONE" \/ (Confirmed(a) /\ emp[a] = e)
  PROVE  Abstract!Take(a, e, s) \/ Abstract!Move(a, s)
<1>1. Abstract!FreeFor(a, e, s)
  BY ClearIsFree
<1>2. ASSUME NEW b \in Appt
      PROVE  HeldBy(b)' = IF b = a THEN [emp |-> e, slot |-> s] ELSE HeldBy(b)
  BY DEF HeldBy, Confirmed
<1>3. heldNow' = [heldNow EXCEPT ![a] = [emp |-> e, slot |-> s]]
  BY <1>2 DEF heldNow
<1>4. CASE status[a] = "NONE"
  BY <1>1, <1>3, <1>4, HeldWhileConfirmed DEF Abstract!Take, heldNow
<1>5. CASE Confirmed(a) /\ emp[a] = e
  BY <1>1, <1>3, <1>5, HeldWhileConfirmed DEF Abstract!Move, Abstract!Holds, heldNow
<1> QED
  BY <1>4, <1>5

\* Every step of the booking code is a step of the calendar or a stutter.
LEMMA StepMaps ==
  ASSUME WellFormed, WellFormed', NoOverlapInv, [Next]_vars
  PROVE  [Abstract!Next]_heldNow
<1>1. CASE UNCHANGED <<status, emp, slot>>
  BY <1>1 DEF heldNow, HeldBy, Confirmed
<1>2. CASE /\ UNCHANGED <<emp, slot>>
           /\ \A a \in Appt : /\ Confirmed(a)' => Confirmed(a)
                              /\ status'[a] = "NONE" <=> status[a] = "NONE"
  BY <1>2, StatusLetsGo DEF Abstract!Next
<1>3. ASSUME NEW r \in Request, InsertBooking(r)
      PROVE  [Abstract!Next]_heldNow
  <2> DEFINE q == req[r]
  <2>1. /\ q.appt \in Appt /\ q.emp \in Employee /\ q.slot \in Slot
        /\ status[q.appt] = "NONE"
    BY <1>3 DEF InsertBooking, At, NoOverlapInv, Reserved, Booking, WellFormed,
                RequestShape
  <2>2. /\ Clash(q.emp, q.slot, q.appt) = {}
        /\ status'[q.appt] = "CONFIRMED" /\ emp'[q.appt] = q.emp
        /\ slot'[q.appt] = q.slot
        /\ \A b \in Appt \ {q.appt} :
             status'[b] = status[b] /\ emp'[b] = emp[b] /\ slot'[b] = slot[b]
    BY <1>3, <2>1 DEF InsertBooking, ConstraintAllows, WellFormed, TypeOK
  <2> HIDE DEF q
  <2> QED
    BY <2>1, <2>2, WritesMap DEF Abstract!Next
<1>4. ASSUME NEW r \in Request, ChargeMove(r) \/ StaffMoveRow(r), ~UNCHANGED slot
      PROVE  [Abstract!Next]_heldNow
  <2> DEFINE x == req[r].appt
             s == req[r].slot
  <2>1. /\ x \in Appt /\ s \in Slot
        /\ UNCHANGED <<status, emp>> /\ slot' = [slot EXCEPT ![x] = s]
    BY <1>4 DEF ChargeMove, StaffMoveRow, At, WellFormed, RequestShape
  <2>2. Confirmed(x) /\ Clash(emp[x], s, x) = {}
    BY <1>4 DEF ChargeMove, StaffMoveRow, ConstraintAllows, NoOverlapInv, MovesApart,
                Clash
  <2>3. /\ emp[x] \in Employee /\ emp'[x] = emp[x] /\ slot'[x] = s
        /\ status'[x] = "CONFIRMED"
        /\ \A b \in Appt \ {x} :
             status'[b] = status[b] /\ emp'[b] = emp[b] /\ slot'[b] = slot[b]
    BY <2>1, <2>2 DEF Confirmed, WellFormed, TypeOK
  <2> HIDE DEF x, s
  <2> QED
    BY <2>1, <2>2, <2>3, WritesMap DEF Abstract!Next
<1>5. ASSUME NEW r \in Request, CancelRow(r) \/ SetStatus(r)
      PROVE  [Abstract!Next]_heldNow
  <2>1. UNCHANGED <<emp, slot>>
    BY <1>5 DEF CancelRow, SetStatus
  <2>2. /\ req[r].appt \in Appt /\ status[req[r].appt] # "NONE"
        /\ SetStatus(r) => req[r].goal \in Outcome
    BY <1>5 DEF CancelRow, SetStatus, At, WellFormed, RequestShape, OnExistingRow
  <2>3. \A a \in Appt : /\ Confirmed(a)' => Confirmed(a)
                        /\ status'[a] = "NONE" <=> status[a] = "NONE"
    BY <1>5, <2>2 DEF CancelRow, SetStatus, Confirmed, Outcome, WellFormed, TypeOK
  <2> QED
    BY <1>2, <2>1, <2>3
<1>6. CASE Surroundings
  <2>1. UNCHANGED <<emp, slot>>
    BY <1>6 DEF Surroundings, Reconcile, DeleteCustomer, EditService, SaveHours,
                AddTimeOff, DeleteTimeOff, Tick, calendar
  <2>2. \A a \in Appt : /\ Confirmed(a)' => Confirmed(a)
                        /\ status'[a] = "NONE" <=> status[a] = "NONE"
    BY <1>6 DEF Surroundings, Reconcile, Overdue, Confirmed, DeleteCustomer,
                EditService, SaveHours, AddTimeOff, DeleteTimeOff, Tick, calendar
  <2> QED
    BY <1>2, <2>1, <2>2
<1>7. ASSUME NEW r \in Request,
             \/ Begin(r) \/ Crash(r) \/ DeadlockAbort(r) \/ ChargeBooking(r)
             \/ SlotTaken(r) \/ MoveRow(r) \/ ReleaseQuota(r)
             \/ (ChargeMove(r) \/ StaffMoveRow(r)) /\ UNCHANGED slot
      PROVE  UNCHANGED <<status, emp, slot>>
  BY <1>7 DEF Begin, StartBooking, StartMove, StartStaffMove, StartCancel,
              StartSetStatus, Crash, DeadlockAbort, ChargeBooking, SlotTaken, MoveRow,
              ReleaseQuota, ChargeMove, StaffMoveRow, calendar
<1>8. CASE UNCHANGED vars
  BY <1>1, <1>8 DEF vars, calendar
<1> QED
  BY <1>1, <1>3, <1>4, <1>5, <1>6, <1>7, <1>8 DEF Next, Proceed

\* The booking code implements Calendar: whatever transactions interleave and
\* crash, a booking takes a free interval, a move swaps one interval for another
\* in one step, and a row that let go never takes an interval again.
THEOREM BookingImplementsCalendar == SafeSpec => ImplementsCalendar
<1>1. Init => Abstract!Init
  <2> SUFFICES ASSUME Init PROVE Abstract!Init
    OBVIOUS
  <2>1. \A a \in Appt : HeldBy(a) = Abstract!Never
    <3>1. WellFormed /\ \A a \in Appt : status[a] = "NONE"
      BY WellFormedInit DEF Init
    <3> QED
      BY <3>1, HeldWhileConfirmed
  <2> QED
    BY <2>1 DEF Abstract!Init
<1>2. ASSUME WellFormed, WellFormed', NoOverlapInv, [Next]_vars
      PROVE  [Abstract!Next]_heldNow
  BY <1>2, StepMaps
<1> QED
  BY <1>1, <1>2, WellFormedInvariant, NoOverlapInvariant, PTL
     DEF SafeSpec, ImplementsCalendar, Abstract!Spec, heldNow
-----------------------------------------------------------------------------
(* What a request read before it writes: the set-up its slot check saw, and *)
(* the start its status change saw. Neither property is inductive: what a   *)
(* request carries has to be related to the set-up and the clock that stand.*)

\* The employee whose time request q writes.
EmployeeOf(q) == IF q.pc \in {"book", "charged"} THEN q.emp ELSE emp[q.appt]

\* A slot check that no edit followed still holds of the set-up, and a status
\* change that needs a start has read one that has passed.
Checked(q) ==
  /\ q.seen <= edits
  /\ q.pc \in {"book", "charged", "move", "moved", "staffMove"} /\ q.seen = edits
       => SetupAllows(EmployeeOf(q), q.slot)
  /\ q.pc = "setStatus" /\ NeedsStart(q.goal) => q.slot.from <= now

CheckedInv == \A r \in Request : Checked(req[r])

\* isSlotBookable accepts only what the set-up allows.
LEMMA BookableAllowed ==
  ASSUME WellFormed, NEW e \in Employee, NEW s \in Slot, NEW x, IsSlotBookable(e, s, x)
  PROVE  SetupAllows(e, s)
<1>1. s.from \in Nat /\ s.to \in Nat
  BY SlotsAreIntervals DEF Interval
<1>2. \A off \in timeOff[e] : off.from \in Nat /\ off.to \in Nat
  BY BookingConstants DEF WellFormed, TypeOK, Interval
<1>3. \A off \in timeOff[e] : off.to <= s.from \/ s.to <= off.from
  BY <1>1, <1>2 DEF IsSlotBookable, NotAway, Overlap
<1> QED
  BY <1>3 DEF IsSlotBookable, SetupAllows

\* While set-up and clock stand, and the employees of the rows that requests work
\* on, only the request that takes the step has to be looked at.
LEMMA CheckedKept ==
  ASSUME WellFormed, CheckedInv, NEW r \in Request, UNCHANGED <<now, setup>>,
         \A q \in Request \ {r} : req'[q] = req[q],
         \A a \in Appt : status[a] # "NONE" => emp'[a] = emp[a],
         Checked(req[r])'
  PROVE  CheckedInv'
<1> SUFFICES ASSUME NEW q \in Request \ {r} PROVE Checked(req[q])'
  BY DEF CheckedInv
<1>1. Checked(req[q]) /\ req'[q] = req[q]
  BY DEF CheckedInv
<1>2. req[q].pc \in {"book", "charged", "move", "moved", "staffMove"}
        => EmployeeOf(req[q])' = EmployeeOf(req[q])
  BY <1>1 DEF EmployeeOf, WellFormed, RequestShape, OnExistingRow
<1>3. \A e, s : SetupAllows(e, s)' <=> SetupAllows(e, s)
  BY DEF SetupAllows, setup
<1> QED
  BY <1>1, <1>2, <1>3 DEF Checked, setup

\* A request that ends has nothing to keep to.
LEMMA CheckedDone ==
  ASSUME WellFormed, CheckedInv, NEW r \in Request, Finish(r), UNCHANGED <<now, setup>>,
         \A a \in Appt : status[a] # "NONE" => emp'[a] = emp[a]
  PROVE  CheckedInv'
<1>1. req'[r] = Idle /\ \A q \in Request \ {r} : req'[q] = req[q]
  BY DEF Finish, Become, WellFormed, TypeOK
<1>2. Checked(req[r])'
  BY <1>1, BookingConstants DEF Checked, Idle, WellFormed, TypeOK, setup
<1> QED
  BY <1>1, <1>2, CheckedKept

\* A request begins with a check of the set-up as it stands.
LEMMA BeginChecked ==
  ASSUME WellFormed, CheckedInv, NEW r \in Request, Begin(r)
  PROVE  CheckedInv'
<1>0. edits \in Nat /\ UNCHANGED <<now, setup, emp>>
  <2>1. edits \in Nat
    BY BookingConstants DEF WellFormed, TypeOK
  <2>2. UNCHANGED <<now, setup, emp>>
    BY DEF Begin, StartBooking, StartMove, StartStaffMove, StartCancel, StartSetStatus, calendar
  <2> QED
    BY <2>1, <2>2
<1>1. ASSUME NEW q, Become(r, q), Checked(q) PROVE CheckedInv'
  <2>1. req'[r] = q /\ \A p \in Request \ {r} : req'[p] = req[p]
    BY <1>1 DEF Become, WellFormed, TypeOK
  <2>2. Checked(req[r])'
    BY <1>0, <1>1, <2>1 DEF Checked, EmployeeOf, SetupAllows, setup
  <2> QED
    BY <1>0, <2>1, <2>2, CheckedKept
<1>2. ASSUME NEW source \in Source, NEW a \in Appt, NEW e \in Employee, NEW s \in Slot,
             StartBooking(r, source, a, e, s)
      PROVE  CheckedInv'
  <2> DEFINE q == [Idle EXCEPT !.pc = "book", !.appt = a, !.emp = e, !.slot = s,
                               !.seen = edits]
  <2>1. Become(r, q) /\ SetupAllows(e, s)
    BY <1>2, BookableAllowed DEF StartBooking
  <2>2. Checked(q)
    BY <1>0, <2>1 DEF Checked, EmployeeOf, Idle
  <2> HIDE DEF q
  <2> QED
    BY <1>1, <2>1, <2>2
<1>3. ASSUME NEW a \in Appt, NEW s \in Slot, StartMove(r, a, s) \/ StartStaffMove(r, a, s)
      PROVE  CheckedInv'
  <2>1. Confirmed(a) /\ IsSlotBookable(emp[a], s, a)
    BY <1>3 DEF StartMove, StartStaffMove, Manageable
  <2>2. SetupAllows(emp[a], s)
    BY <2>1, BookableAllowed DEF Confirmed, WellFormed
  <2>3. PICK pc \in {"move", "staffMove"} :
          Become(r, [Idle EXCEPT !.pc = pc, !.appt = a, !.slot = s, !.seen = edits])
    BY <1>3 DEF StartMove, StartStaffMove
  <2> DEFINE q == [Idle EXCEPT !.pc = pc, !.appt = a, !.slot = s, !.seen = edits]
  <2>4. Checked(q)
    BY <1>0, <2>2 DEF Checked, EmployeeOf, Idle
  <2>5. Become(r, q)
    BY <2>3
  <2> HIDE DEF q
  <2> QED
    BY <1>1, <2>4, <2>5
<1>4. ASSUME NEW a \in Appt, StartCancel(r, a)
      PROVE  CheckedInv'
  <2> DEFINE q == [Idle EXCEPT !.pc = "cancel", !.appt = a]
  <2>1. Become(r, q)
    BY <1>4 DEF StartCancel
  <2>2. Checked(q)
    BY <1>0 DEF Checked, Idle
  <2> HIDE DEF q
  <2> QED
    BY <1>1, <2>1, <2>2
<1>5. ASSUME NEW a \in Appt, NEW goal \in Outcome, StartSetStatus(r, a, goal)
      PROVE  CheckedInv'
  <2> DEFINE q == [Idle EXCEPT !.pc = "setStatus", !.appt = a, !.slot = slot[a],
                               !.goal = goal, !.owes = OwesQuota(status[a], goal)]
  <2>1. Become(r, q) /\ (NeedsStart(goal) => slot[a].from <= now)
    BY <1>5 DEF StartSetStatus
  <2>2. Checked(q)
    BY <1>0, <2>1 DEF Checked, Idle
  <2> HIDE DEF q
  <2> QED
    BY <1>1, <2>1, <2>2
<1> QED
  BY <1>2, <1>3, <1>4, <1>5 DEF Begin

\* A request that goes on keeps what it has checked.
LEMMA ProceedChecked ==
  ASSUME WellFormed, NoOverlapInv, CheckedInv, NEW r \in Request,
         Proceed(r) \/ Crash(r) \/ DeadlockAbort(r)
  PROVE  CheckedInv'
<1>1. UNCHANGED <<now, setup>> /\ \A a \in Appt : status[a] # "NONE" => emp'[a] = emp[a]
  <2>1. CASE InsertBooking(r)
    BY <2>1 DEF InsertBooking, At, NoOverlapInv, Reserved, Booking, WellFormed, TypeOK
  <2>2. CASE ~InsertBooking(r)
    BY <2>2 DEF Proceed, ChargeBooking, SlotTaken, MoveRow, ChargeMove, CancelRow,
                StaffMoveRow, SetStatus, ReleaseQuota, Crash, DeadlockAbort, calendar
  <2> QED
    BY <2>1, <2>2
<1>2. CASE Finish(r)
  BY <1>1, <1>2, CheckedDone
<1>3. ASSUME NEW pc \in {"charged", "moved", "release"}, NEW m,
             \/ Become(r, [req[r] EXCEPT !.pc = pc])
             \/ Become(r, [req[r] EXCEPT !.pc = pc, !.month = m]),
             \/ pc = "charged" /\ At(r, "book")
             \/ pc = "moved" /\ At(r, "move")
             \/ pc = "release",
             UNCHANGED emp
      PROVE  CheckedInv'
  <2>1. /\ req'[r].pc = pc /\ req'[r].seen = req[r].seen /\ req'[r].slot = req[r].slot
        /\ req'[r].emp = req[r].emp /\ req'[r].appt = req[r].appt
        /\ \A q \in Request \ {r} : req'[q] = req[q]
    BY <1>3 DEF Become, WellFormed, TypeOK
  <2>2. Checked(req[r])
    BY DEF CheckedInv
  <2>3. Checked(req[r])'
    BY <1>1, <1>3, <2>1, <2>2 DEF Checked, EmployeeOf, SetupAllows, At, setup
  <2> QED
    BY <1>1, <2>1, <2>3, CheckedKept
<1>4. CASE ChargeBooking(r) /\ ~Finish(r)
  BY <1>3, <1>4 DEF ChargeBooking, calendar
<1>5. CASE MoveRow(r) /\ ~Finish(r)
  BY <1>3, <1>5 DEF MoveRow, calendar
<1>6. CASE SetStatus(r) /\ ~Finish(r)
  BY <1>3, <1>6 DEF SetStatus
<1> QED
  BY <1>2, <1>4, <1>5, <1>6 DEF Proceed, InsertBooking, SlotTaken, ChargeMove, CancelRow,
     StaffMoveRow, ReleaseQuota, Crash, DeadlockAbort

\* An edit makes every check before it an old one, and time only goes on.
LEMMA SurroundingsChecked ==
  ASSUME WellFormed, CheckedInv, Surroundings
  PROVE  CheckedInv'
<1> SUFFICES ASSUME NEW r \in Request PROVE Checked(req[r])'
  BY DEF CheckedInv
<1>0. /\ Checked(req[r]) /\ UNCHANGED <<req, emp>> /\ edits \in Nat /\ now \in Nat
      /\ req[r].seen \in Nat
      /\ req[r].pc = "setStatus" => req[r].slot.from \in Nat
  <2>1. UNCHANGED <<req, emp>>
    BY DEF Surroundings, Reconcile, DeleteCustomer, EditService, SaveHours, AddTimeOff,
           DeleteTimeOff, Tick, calendar
  <2>2. req[r].pc = "setStatus" => req[r].slot.from \in Nat
    BY SlotsAreIntervals DEF WellFormed, RequestShape, Interval
  <2> QED
    BY <2>1, <2>2, BookingConstants DEF CheckedInv, WellFormed, TypeOK
<1>1. CASE UNCHANGED setup /\ (UNCHANGED now \/ now' = now + 1)
  BY <1>0, <1>1 DEF Checked, EmployeeOf, SetupAllows, setup
<1>2. CASE edits' = edits + 1 /\ UNCHANGED now
  BY <1>0, <1>2 DEF Checked
<1> QED
  BY <1>1, <1>2 DEF Surroundings, Reconcile, DeleteCustomer, EditService, SaveHours, AddTimeOff,
     DeleteTimeOff, Tick, Edit

\* What requests have read stays related to the set-up and to the clock.
THEOREM CheckedInvariant == SafeSpec => []CheckedInv
<1>1. Init => CheckedInv
  BY DEF Init, CheckedInv, Checked, Idle
<1>2. ASSUME WellFormed, NoOverlapInv, CheckedInv, [Next]_vars PROVE CheckedInv'
  <2>1. CASE UNCHANGED vars
    BY <1>2, <2>1 DEF vars, setup, calendar, CheckedInv, Checked, EmployeeOf, SetupAllows
  <2> QED
    BY <1>2, <2>1, BeginChecked, ProceedChecked, SurroundingsChecked DEF Next
<1> QED
  BY <1>1, <1>2, WellFormedInvariant, NoOverlapInvariant, PTL DEF SafeSpec

\* Only three steps publish an interval: the commits of a booking and of a move.
LEMMA PublishedBy ==
  ASSUME WellFormed, NoOverlapInv, [Next]_vars, NEW a \in Appt, Published(a)
  PROVE  \E r \in Request :
           /\ req[r].pc \in {"charged", "moved", "staffMove"}
           /\ req[r].appt = a /\ req[r].slot = slot'[a] /\ EmployeeOf(req[r]) = emp'[a]
<1>1. ASSUME NEW r \in Request, InsertBooking(r) PROVE req[r].appt = a
  BY <1>1 DEF InsertBooking, Published, Confirmed, WellFormed, TypeOK
<1>2. ASSUME NEW r \in Request, ChargeMove(r) \/ StaffMoveRow(r)
      PROVE  req[r].appt = a /\ req[r].slot = slot'[a] /\ UNCHANGED emp
  BY <1>2 DEF ChargeMove, StaffMoveRow, Published, Confirmed, WellFormed, TypeOK
<1>3. ASSUME NEW r \in Request, CancelRow(r) \/ SetStatus(r) PROVE FALSE
  <2>1. SetStatus(r) => req[r].goal \in Outcome
    BY DEF SetStatus, At, WellFormed, RequestShape
  <2> QED
    BY <1>3, <2>1 DEF CancelRow, SetStatus, Published, Confirmed, Outcome, WellFormed, TypeOK
<1>4. ASSUME NEW r \in Request,
             \/ Begin(r) \/ Crash(r) \/ DeadlockAbort(r) \/ ChargeBooking(r) \/ SlotTaken(r)
             \/ MoveRow(r) \/ ReleaseQuota(r)
      PROVE  FALSE
  BY <1>4 DEF Begin, StartBooking, StartMove, StartStaffMove, StartCancel, StartSetStatus,
              Crash, DeadlockAbort, ChargeBooking, SlotTaken, MoveRow, ReleaseQuota, calendar,
              Published, Confirmed
<1>5. ASSUME Surroundings \/ UNCHANGED vars PROVE FALSE
  BY <1>5 DEF Surroundings, Reconcile, Overdue, DeleteCustomer, EditService, SaveHours,
              AddTimeOff, DeleteTimeOff, Tick, vars, calendar, Published, Confirmed
<1>6. PICK r \in Request : InsertBooking(r) \/ ChargeMove(r) \/ StaffMoveRow(r)
  BY <1>3, <1>4, <1>5 DEF Next, Proceed
<1>7. CASE InsertBooking(r)
  BY <1>1, <1>7 DEF InsertBooking, At, EmployeeOf, WellFormed, TypeOK
<1>8. CASE ChargeMove(r) \/ StaffMoveRow(r)
  BY <1>2, <1>8 DEF ChargeMove, StaffMoveRow, At, EmployeeOf
<1> QED
  BY <1>6, <1>7, <1>8

\* Whatever is written against the hours, the time off or the length of the
\* service was checked before an edit of them.
THEOREM KeepsToSetupHolds == SafeSpec => KeepsToSetup
<1> DEFINE Kept ==
      \A a \in Appt : Published(a) =>
        \/ SetupAllows(emp'[a], slot'[a])
        \/ \E r \in Request : /\ req[r].pc \in {"charged", "moved", "staffMove"}
                              /\ req[r].appt = a /\ req[r].slot = slot'[a]
                              /\ req[r].seen < edits
<1>1. ASSUME WellFormed, NoOverlapInv, CheckedInv, [Next]_vars PROVE Kept
  <2> SUFFICES ASSUME NEW a \in Appt, Published(a)
               PROVE  \/ SetupAllows(emp'[a], slot'[a])
                      \/ \E r \in Request :
                           /\ req[r].pc \in {"charged", "moved", "staffMove"}
                           /\ req[r].appt = a /\ req[r].slot = slot'[a]
                           /\ req[r].seen < edits
    OBVIOUS
  <2>1. PICK r \in Request :
           /\ req[r].pc \in {"charged", "moved", "staffMove"}
           /\ req[r].appt = a /\ req[r].slot = slot'[a] /\ EmployeeOf(req[r]) = emp'[a]
    BY <1>1, PublishedBy
  <2>2. Checked(req[r]) /\ req[r].seen \in Nat /\ edits \in Nat
    BY <1>1, BookingConstants DEF CheckedInv, WellFormed, TypeOK
  <2> QED
    BY <2>1, <2>2 DEF Checked
<1> QED
  BY <1>1, WellFormedInvariant, NoOverlapInvariant, CheckedInvariant, PTL
     DEF SafeSpec, KeepsToSetup

\* Nothing is closed as completed or as a no-show before the start it is known
\* by, except by a status change that read another start.
THEOREM NotClosedEarlyHolds == SafeSpec => NotClosedEarly
<1> DEFINE InTime ==
      \A a \in Appt :
        /\ status'[a] # status[a] /\ status'[a] \in {"COMPLETED", "NO_SHOW"}
        /\ now < slot[a].from
        => \E r \in Request : /\ At(r, "setStatus") /\ req[r].goal = status'[a]
                              /\ req[r].appt = a /\ req[r].slot # slot[a]
<1>1. ASSUME WellFormed, CheckedInv, [Next]_vars PROVE InTime
  <2> SUFFICES ASSUME NEW a \in Appt, status'[a] # status[a],
                      status'[a] \in {"COMPLETED", "NO_SHOW"}, now < slot[a].from
               PROVE  \E r \in Request : /\ At(r, "setStatus") /\ req[r].goal = status'[a]
                                         /\ req[r].appt = a /\ req[r].slot # slot[a]
    OBVIOUS
  <2>1. ASSUME NEW r \in Request, SetStatus(r)
        PROVE  /\ At(r, "setStatus") /\ req[r].goal = status'[a]
               /\ req[r].appt = a /\ req[r].slot # slot[a]
    <3>1. At(r, "setStatus") /\ req[r].appt = a /\ req[r].goal = status'[a]
      BY <1>1, <2>1 DEF SetStatus, WellFormed, TypeOK
    <3>2. req[r].slot.from <= now /\ req[r].slot.from \in Nat /\ now \in Nat
      BY <1>1, <3>1, SlotsAreIntervals, BookingConstants
         DEF At, CheckedInv, Checked, NeedsStart, WellFormed, TypeOK, RequestShape, Interval
    <3> QED
      BY <3>1, <3>2
  <2>2. ASSUME Reconcile PROVE FALSE
    <3>1. Confirmed(a) /\ slot[a].to + Grace < now
      BY <1>1, <2>2 DEF Reconcile, Overdue
    <3>2. slot[a] \in Slot /\ now \in Nat
      BY <1>1, <3>1, BookingConstants DEF Confirmed, WellFormed, TypeOK
    <3> QED
      BY <1>1, <3>1, <3>2, SlotsRunForward, BookingConstants
  <2>3. ASSUME NEW r \in Request,
               \/ Begin(r) \/ Crash(r) \/ DeadlockAbort(r) \/ ChargeBooking(r) \/ SlotTaken(r)
               \/ MoveRow(r) \/ ChargeMove(r) \/ StaffMoveRow(r) \/ ReleaseQuota(r)
               \/ InsertBooking(r) \/ CancelRow(r)
        PROVE  FALSE
    BY <1>1, <2>3
       DEF Begin, StartBooking, StartMove, StartStaffMove, StartCancel, StartSetStatus, Crash,
           DeadlockAbort, ChargeBooking, SlotTaken, MoveRow, ChargeMove, StaffMoveRow,
           ReleaseQuota, InsertBooking, CancelRow, calendar, WellFormed, TypeOK
  <2>4. ASSUME Surroundings \/ UNCHANGED vars PROVE Reconcile
    BY <2>4 DEF Surroundings, DeleteCustomer, EditService, SaveHours, AddTimeOff,
                DeleteTimeOff, Tick, vars, calendar
  <2> QED
    BY <1>1, <2>1, <2>2, <2>3, <2>4 DEF Next, Proceed
<1> QED
  BY <1>1, WellFormedInvariant, CheckedInvariant, PTL DEF SafeSpec, NotClosedEarly
=============================================================================
