------------------------------ MODULE Booking -------------------------------
(***************************************************************************)
(* The appointment calendar of one salon and its monthly booking quota, as *)
(* web requests change them: booking (public page and dashboard), cancel   *)
(* and reschedule by the customer's manage link, reschedule and status     *)
(* change by staff, and the worker's nightly reconciliation.               *)
(*                                                                         *)
(* PostgreSQL runs every transaction at READ COMMITTED: a request reads    *)
(* committed rows, and holds a row lock from a write to its commit. A      *)
(* request's steps are therefore the points where it reads, where it takes *)
(* a lock it keeps, and where it commits.                                  *)
(*                                                                         *)
(* Left out: what only refuses a request before it reads the calendar      *)
(* (rate limits, captcha, permissions, suspended salon, service links),    *)
(* and the notification rows the same handlers write.                      *)
(***************************************************************************)
EXTENDS Naturals, FiniteSets, Functions

CONSTANTS
  Request,       \* web requests being served at once
  Appt,          \* ids of appointment rows, each used once
  Employee,
  Start,         \* instants a booking may be asked for
  Length,        \* lengths the catalog may give the service, 0 when it is off
  Timetable,     \* sets of working windows an employee may be given
  DayOff,        \* intervals that may be marked as time off
  Horizon,       \* last instant of the model
  MaxAhead,      \* MAX_BOOKING_AHEAD_DAYS
  Grace,         \* AUTO_COMPLETE_AFTER_MS
  Month,         \* periods of the usage counter
  MonthOf,       \* the period an instant falls in
  MaxBookings,   \* maxBookingsPerMonth of the salon's plan
  MaxReleases,   \* bound: releases followed for one appointment
  MaxEdits,      \* bound: edits of the salon's set-up
  None           \* no value

Interval == [from: Nat, to: Nat]

\* What can be asked for: bookingBlockMin of the catalog gives the length.
Slot == {[from |-> s, to |-> s + len] : s \in Start, len \in Length \ {0}}

ASSUME BookingConstants ==
  /\ IsFiniteSet(Appt)
  /\ IsFiniteSet(Month)
  /\ Start \subseteq Nat
  /\ Length \subseteq Nat
  /\ Horizon \in Nat
  /\ MaxAhead \in Nat
  /\ Grace \in Nat
  /\ MonthOf \in [0..Horizon -> Month]
  /\ MaxBookings \in Nat
  /\ MaxReleases \in Nat
  /\ MaxEdits \in Nat
  /\ DayOff \subseteq Interval
  /\ \A windows \in Timetable : windows \subseteq Interval
  /\ None \notin Appt
  /\ None \notin Employee
  /\ None \notin Month

Source  == {"PUBLIC", "DASHBOARD"}

\* Faulty variant: only COMPLETED is refused before the appointment's start.
NeedsStartCompleted(goal) == goal = "COMPLETED"

\* Outcomes that only make sense once the appointment has started.
NeedsStart(goal) == goal \in {"COMPLETED", "NO_SHOW"}

\* Faulty variant: the status form also offers to reopen a booking.
OutcomeReopen == {"CANCELLED", "COMPLETED", "NO_SHOW", "CONFIRMED"}

\* statusSchema: what staff may set.
Outcome == {"CANCELLED", "COMPLETED", "NO_SHOW"}
Status  == Outcome \union {"NONE", "CONFIRMED", "DELETED"}

VARIABLES
  now,        \* the clock
  blockLen,   \* the service's length, 0 when it is switched off
  windows,    \* windows[e]: working windows of employee e
  timeOff,    \* timeOff[e]: time-off intervals of e
  status,     \* status[a], NONE before the row exists, DELETED after
  emp,        \* emp[a]: whose appointment it is
  slot,       \* slot[a]: [startsAt, endsAt)
  booked,     \* booked[a]: the month of the row's createdAt
  usage,      \* usage[m]: UsageCounter.bookings of month m
  req,        \* req[r]: the state of request r
  edits,      \* edits of blockLen, windows and timeOff so far
  moves,      \* history: moves[m], customer reschedules committed in m
  released    \* history: released[a], quota slots given back for a

calendar == <<status, emp, slot, booked>>
setup    == <<blockLen, windows, timeOff, edits>>
history  == <<moves, released>>
vars     == <<now, setup, calendar, usage, req, history>>

PC == {"idle", "book", "charged", "move", "moved", "staffMove",
       "cancel", "setStatus", "release"}

\* What a request has read and chosen; seen is how many edits of the set-up its
\* slot check had before it, so that a property can tell what it could not see.
RequestState ==
  [pc: PC, appt: Appt \union {None}, emp: Employee \union {None},
   slot: Interval \union {None}, goal: Outcome \union {None}, owes: BOOLEAN,
   month: Month \union {None}, seen: 0..MaxEdits]

Idle == [pc |-> "idle", appt |-> None, emp |-> None, slot |-> None,
         goal |-> None, owes |-> FALSE, month |-> None, seen |-> 0]

\* Rows, counters and requests keep their types: no counter goes below zero.
TypeOK ==
  /\ now \in 0..Horizon
  /\ blockLen \in Length
  /\ windows \in [Employee -> Timetable]
  /\ timeOff \in [Employee -> SUBSET DayOff]
  /\ status \in [Appt -> Status]
  /\ emp \in [Appt -> Employee \union {None}]
  /\ slot \in [Appt -> Interval \union {None}]
  /\ booked \in [Appt -> Month \union {None}]
  /\ usage \in [Month -> Nat]
  /\ req \in [Request -> RequestState]
  /\ edits \in 0..MaxEdits
  /\ moves \in [Month -> Nat]
  /\ released \in [Appt -> Nat]

Init ==
  /\ now = 0
  /\ blockLen \in Length
  /\ windows \in [Employee -> Timetable]
  /\ timeOff = [e \in Employee |-> {}]
  /\ status = [a \in Appt |-> "NONE"]
  /\ emp = [a \in Appt |-> None]
  /\ slot = [a \in Appt |-> None]
  /\ booked = [a \in Appt |-> None]
  /\ usage = [m \in Month |-> 0]
  /\ req = [r \in Request |-> Idle]
  /\ edits = 0
  /\ moves = [m \in Month |-> 0]
  /\ released = [a \in Appt |-> 0]

-----------------------------------------------------------------------------
(* The slot check                                                          *)

Overlap(s, t) == s.from < t.to /\ t.from < s.to

Confirmed(a) == status[a] = "CONFIRMED"

\* Appointments other than x that hold a part of employee e's interval s.
Clash(e, s, x) ==
  {b \in Appt \ {x} : Confirmed(b) /\ emp[b] = e /\ Overlap(slot[b], s)}

\* Faulty variant: the check forgets the employee's time off.
NotAwayNever(e, s) == TRUE

NotAway(e, s) == \A off \in timeOff[e] : ~Overlap(off, s)

\* isSlotBookable: the first reason that applies refuses the slot.
IsSlotBookable(e, s, x) ==
  /\ blockLen > 0
  /\ s.to = s.from + blockLen
  /\ s.from > now
  /\ \E w \in windows[e] : w.from <= s.from /\ s.to <= w.to
  /\ NotAway(e, s)
  /\ Clash(e, s, x) = {}

-----------------------------------------------------------------------------
(* Locks. A customer's move holds the appointment's row from its update to *)
(* its commit, a booking holds the usage counter's row likewise.           *)

At(r, pc) == req[r].pc = pc

\* Another transaction has updated row a and not committed yet.
RowLocked(r, a) ==
  \E q \in Request \ {r} : At(q, "moved") /\ req[q].appt = a

\* Faulty variant: the counter is read without locking its row.
CounterLockedNever(r, m) == FALSE

\* Another transaction has incremented month m's counter, not committed yet.
CounterLocked(r, m) ==
  \E q \in Request \ {r} : At(q, "charged") /\ req[q].month = m

\* The transaction of q holds a version of a row, old or new, that the
\* exclusion constraint compares with (e, s): the writer waits for q.
HoldsConflict(q, e, s) ==
  /\ At(q, "moved")
  /\ emp[req[q].appt] = e
  /\ Overlap(req[q].slot, s) \/ Overlap(slot[req[q].appt], s)

\* Faulty variant: the deploy that adds the constraint failed half-way.
ConstraintMissing(r, e, s, x) == TRUE

\* appointment_no_overlap lets request r write (e, s) as row x.
ConstraintAllows(r, e, s, x) ==
  /\ Clash(e, s, x) = {}
  /\ ~\E q \in Request \ {r} : HoldsConflict(q, e, s)

\* appointment_no_overlap refuses it: a committed row of nobody's is in the way.
ConstraintRefuses(r, e, s, x) ==
  \E b \in Clash(e, s, x) : ~RowLocked(r, b)

-----------------------------------------------------------------------------
(* Steps of a request                                                      *)

Become(r, state) == req' = [req EXCEPT ![r] = state]
Finish(r)        == Become(r, Idle)

\* createBooking up to the slot check. The row's id is chosen here.
StartBooking(r, source, a, e, s) ==
  /\ At(r, "idle")
  /\ status[a] = "NONE"
  /\ \A q \in Request : req[q].appt # a
  /\ source = "PUBLIC" => s.from <= now + MaxAhead
  /\ IsSlotBookable(e, s, a)
  /\ Become(r, [Idle EXCEPT !.pc = "book", !.appt = a, !.emp = e, !.slot = s,
                            !.seen = edits])
  /\ UNCHANGED <<now, setup, calendar, usage, history>>

\* consumeBookingQuota: increment, then compare with the plan's limit.
QuotaLeft(m) == usage[m] + 1 <= MaxBookings

\* Faulty variant: the increment is not part of the caller's transaction.
RolledBackNever(m) == [usage EXCEPT ![m] = @ + 1]

\* What a refused transaction leaves of its own increment of month m.
RolledBack(m) == usage

ChargeBooking(r) ==
  LET m == MonthOf[now] IN
  /\ At(r, "book")
  /\ ~CounterLocked(r, m)
  /\ \/ /\ QuotaLeft(m)
        /\ Become(r, [req[r] EXCEPT !.pc = "charged", !.month = m])
        /\ UNCHANGED usage
     \/ /\ ~QuotaLeft(m)                                \* PlanLimitError
        /\ Finish(r)
        /\ usage' = RolledBack(m)
  /\ UNCHANGED <<now, setup, calendar, history>>

\* appointment.create and the commit, which also publishes the increment.
InsertBooking(r) ==
  LET q == req[r] IN
  /\ At(r, "charged")
  /\ ConstraintAllows(r, q.emp, q.slot, q.appt)
  /\ status' = [status EXCEPT ![q.appt] = "CONFIRMED"]
  /\ emp' = [emp EXCEPT ![q.appt] = q.emp]
  /\ slot' = [slot EXCEPT ![q.appt] = q.slot]
  /\ booked' = [booked EXCEPT ![q.appt] = MonthOf[now]]     \* createdAt
  /\ usage' = [usage EXCEPT ![q.month] = @ + 1]
  /\ Finish(r)
  /\ UNCHANGED <<now, setup, history>>

SlotTaken(r) ==
  LET q == req[r] IN
  /\ At(r, "charged")
  /\ ConstraintRefuses(r, q.emp, q.slot, q.appt)
  /\ Finish(r)
  /\ usage' = RolledBack(q.month)
  /\ UNCHANGED <<now, setup, calendar, history>>

\* The manage link answers only a live booking that has not started.
Manageable(a) == Confirmed(a) /\ slot[a].from > now

\* Manage route, action reschedule: load, then the slot check, both outside
\* the transaction that follows.
StartMove(r, a, s) ==
  /\ At(r, "idle")
  /\ Manageable(a)
  /\ s.from <= now + MaxAhead
  /\ IsSlotBookable(emp[a], s, a)
  /\ Become(r, [Idle EXCEPT !.pc = "move", !.appt = a, !.slot = s, !.seen = edits])
  /\ UNCHANGED <<now, setup, calendar, usage, history>>

\* updateMany WHERE status = CONFIRMED: keeps the row locked until the commit.
MoveRow(r) ==
  LET q == req[r] IN
  /\ At(r, "move")
  /\ ~RowLocked(r, q.appt)
  /\ \/ /\ Confirmed(q.appt)
        /\ ConstraintAllows(r, emp[q.appt], q.slot, q.appt)
        /\ Become(r, [q EXCEPT !.pc = "moved"])
     \/ /\ Confirmed(q.appt)
        /\ ConstraintRefuses(r, emp[q.appt], q.slot, q.appt)
        /\ Finish(r)                                    \* slot taken
     \/ ~Confirmed(q.appt) /\ Finish(r)                 \* conflict
  /\ UNCHANGED <<now, setup, calendar, usage, history>>

\* The move spends a quota slot in the same transaction, then commits.
ChargeMove(r) ==
  LET q == req[r]
      m == MonthOf[now] IN
  /\ At(r, "moved")
  /\ ~CounterLocked(r, m)
  /\ IF QuotaLeft(m)
       THEN /\ slot' = [slot EXCEPT ![q.appt] = q.slot]
            /\ usage' = [usage EXCEPT ![m] = @ + 1]
            /\ moves' = [moves EXCEPT ![m] = @ + 1]
       ELSE /\ usage' = RolledBack(m)                   \* PlanLimitError
            /\ UNCHANGED <<slot, moves>>
  /\ Finish(r)
  /\ UNCHANGED <<now, setup, status, emp, booked, released>>

\* Manage route, action cancel: load, then one transaction.
StartCancel(r, a) ==
  /\ At(r, "idle")
  /\ Manageable(a)
  /\ Become(r, [Idle EXCEPT !.pc = "cancel", !.appt = a])
  /\ UNCHANGED <<now, setup, calendar, usage, history>>

CancelRow(r) ==
  LET a == req[r].appt IN
  /\ At(r, "cancel")
  /\ ~RowLocked(r, a)
  /\ status' = IF Confirmed(a) THEN [status EXCEPT ![a] = "CANCELLED"] ELSE status
  /\ Finish(r)
  /\ UNCHANGED <<now, setup, emp, slot, booked, usage, history>>

\* rescheduleAppointment (staff): any confirmed booking, also one in the past.
StartStaffMove(r, a, s) ==
  /\ At(r, "idle")
  /\ Confirmed(a)
  /\ IsSlotBookable(emp[a], s, a)
  /\ Become(r, [Idle EXCEPT !.pc = "staffMove", !.appt = a, !.slot = s,
                            !.seen = edits])
  /\ UNCHANGED <<now, setup, calendar, usage, history>>

StaffMoveRow(r) ==
  LET q == req[r] IN
  /\ At(r, "staffMove")
  /\ ~RowLocked(r, q.appt)
  /\ \/ /\ Confirmed(q.appt)
        /\ ConstraintAllows(r, emp[q.appt], q.slot, q.appt)
        /\ slot' = [slot EXCEPT ![q.appt] = q.slot]
     \/ /\ Confirmed(q.appt)
        /\ ConstraintRefuses(r, emp[q.appt], q.slot, q.appt)
        /\ UNCHANGED slot                               \* slot taken
     \/ ~Confirmed(q.appt) /\ UNCHANGED slot            \* conflict
  /\ Finish(r)
  /\ UNCHANGED <<now, setup, status, emp, booked, usage, history>>

\* The status as read, not as overwritten, decides whether the quota slot is
\* owed back.
OwesQuota(seen, goal) == goal = "CANCELLED" /\ seen # "CANCELLED"

\* setAppointmentStatus reads the row, its start and its status, and later writes
\* on what it read.
StartSetStatus(r, a, goal) ==
  /\ At(r, "idle")
  /\ status[a] \notin {"NONE", "DELETED"}
  /\ NeedsStart(goal) => slot[a].from <= now
  /\ released[a] < MaxReleases
  /\ Become(r, [Idle EXCEPT !.pc = "setStatus", !.appt = a, !.slot = slot[a],
                            !.goal = goal, !.owes = OwesQuota(status[a], goal)])
  /\ UNCHANGED <<now, setup, calendar, usage, history>>

\* updateMany by id alone: the status is not part of the filter.
SetStatus(r) ==
  LET q == req[r] IN
  /\ At(r, "setStatus")
  /\ ~RowLocked(r, q.appt)
  /\ IF status[q.appt] = "DELETED"
       THEN Finish(r) /\ UNCHANGED status
       ELSE /\ status' = [status EXCEPT ![q.appt] = q.goal]
            /\ IF q.owes THEN Become(r, [q EXCEPT !.pc = "release"])
                               ELSE Finish(r)
  /\ UNCHANGED <<now, setup, emp, slot, booked, usage, history>>

\* A slot is given back to the month the booking was created in.
ReleaseMonth(a) == booked[a]

\* Faulty variant: no floor under the counter.
CanReleaseAlways(m) == TRUE

CanRelease(m) == usage[m] > 0

\* releaseBookingQuota, a statement of its own, on the month of the booking.
ReleaseQuota(r) ==
  LET a == req[r].appt
      m == ReleaseMonth(a) IN
  /\ At(r, "release")
  /\ ~CounterLocked(r, m)
  /\ IF CanRelease(m)
       THEN /\ usage' = [usage EXCEPT ![m] = @ - 1]
            /\ released' = [released EXCEPT ![a] = @ + 1]
       ELSE UNCHANGED <<usage, released>>
  /\ Finish(r)
  /\ UNCHANGED <<now, setup, calendar, moves>>

\* The server dies, or the transaction runs into its timeout: what is not
\* committed is rolled back, and what the handler had still to do is not done.
Crash(r) ==
  /\ ~At(r, "idle")
  /\ Finish(r)
  /\ UNCHANGED <<now, setup, calendar, usage, history>>

\* Faulty variant: nobody detects the cycle.
DeadlockedNever(r, q) == FALSE

\* A booking that holds the counter waits for a row a move holds, and the move
\* waits for the counter: PostgreSQL cancels one of the two transactions.
Deadlocked(r, q) ==
  /\ At(r, "charged")
  /\ HoldsConflict(q, req[r].emp, req[r].slot)
  /\ req[r].month = MonthOf[now]

DeadlockAbort(r) ==
  /\ \E q \in Request \ {r} : Deadlocked(r, q) \/ Deadlocked(q, r)
  /\ Finish(r)
  /\ UNCHANGED <<now, setup, calendar, usage, history>>

-----------------------------------------------------------------------------
(* The worker, the salon's set-up screens, and time                        *)

Overdue(a) == Confirmed(a) /\ slot[a].to + Grace < now

\* reconcileOverdue: one UPDATE over every overdue row.
Reconcile ==
  LET due == {a \in Appt : Overdue(a)} IN
  /\ due # {}
  /\ \A r \in Request : At(r, "moved") => req[r].appt \notin due
  /\ status' = [a \in Appt |-> IF a \in due THEN "COMPLETED" ELSE status[a]]
  /\ UNCHANGED <<now, setup, emp, slot, booked, usage, req, history>>

\* deleteCustomer and account deletion take a customer's rows with them.
DeleteCustomer(rows) ==
  /\ rows # {}
  /\ \A a \in rows : status[a] \notin {"NONE", "DELETED"}
  /\ \A r \in Request : At(r, "moved") => req[r].appt \notin rows
  /\ status' = [a \in Appt |-> IF a \in rows THEN "DELETED" ELSE status[a]]
  /\ UNCHANGED <<now, setup, emp, slot, booked, usage, req, history>>

Edit == edits < MaxEdits /\ edits' = edits + 1

EditService(len) ==
  /\ Edit
  /\ len # blockLen
  /\ blockLen' = len
  /\ UNCHANGED <<now, windows, timeOff, calendar, usage, req, history>>

SaveHours(e, table) ==
  /\ Edit
  /\ table # windows[e]
  /\ windows' = [windows EXCEPT ![e] = table]
  /\ UNCHANGED <<now, blockLen, timeOff, calendar, usage, req, history>>

\* addTimeOff looks at no appointment.
AddTimeOff(e, off) ==
  /\ Edit
  /\ off.to > now
  /\ off \notin timeOff[e]
  /\ timeOff' = [timeOff EXCEPT ![e] = @ \union {off}]
  /\ UNCHANGED <<now, blockLen, windows, calendar, usage, req, history>>

DeleteTimeOff(e, off) ==
  /\ Edit
  /\ off \in timeOff[e]
  /\ timeOff' = [timeOff EXCEPT ![e] = @ \ {off}]
  /\ UNCHANGED <<now, blockLen, windows, calendar, usage, req, history>>

Tick ==
  /\ now < Horizon
  /\ now' = now + 1
  /\ UNCHANGED <<setup, calendar, usage, req, history>>

-----------------------------------------------------------------------------

Begin(r) ==
  \/ \E source \in Source, a \in Appt, e \in Employee, s \in Slot :
       StartBooking(r, source, a, e, s)
  \/ \E a \in Appt, s \in Slot : StartMove(r, a, s) \/ StartStaffMove(r, a, s)
  \/ \E a \in Appt : StartCancel(r, a)
  \/ \E a \in Appt, goal \in Outcome : StartSetStatus(r, a, goal)

Proceed(r) ==
  \/ ChargeBooking(r) \/ InsertBooking(r) \/ SlotTaken(r)
  \/ MoveRow(r) \/ ChargeMove(r)
  \/ CancelRow(r)
  \/ StaffMoveRow(r)
  \/ SetStatus(r) \/ ReleaseQuota(r)

Surroundings ==
  \/ Reconcile
  \/ \E rows \in SUBSET Appt : DeleteCustomer(rows)
  \/ \E len \in Length : EditService(len)
  \/ \E e \in Employee, table \in Timetable : SaveHours(e, table)
  \/ \E e \in Employee, off \in DayOff : AddTimeOff(e, off) \/ DeleteTimeOff(e, off)
  \/ Tick

Next ==
  \/ \E r \in Request :
       Begin(r) \/ Proceed(r) \/ Crash(r) \/ DeadlockAbort(r)
  \/ Surroundings

\* Requests in progress run on, and PostgreSQL hands a lock to its waiters in
\* turn: a step that is possible again and again is taken (strong fairness).
\* Nobody has to start a request, and nothing has to crash.
Fairness ==
  \A r \in Request : SF_vars(Proceed(r)) /\ WF_vars(DeadlockAbort(r))

SafeSpec == Init /\ [][Next]_vars

Spec == SafeSpec /\ Fairness

-----------------------------------------------------------------------------
(* Properties                                                              *)

\* Two CONFIRMED appointments of one employee never overlap, whatever the
\* requests, moves and slot checks interleave (constraints.sql: "a race
\* condition or an application bug physically cannot create a double-booking").
NoDoubleBooking ==
  \A a, b \in Appt :
    a # b /\ Confirmed(a) /\ Confirmed(b) /\ emp[a] = emp[b]
      => ~Overlap(slot[a], slot[b])

\* The month's counter never passes the plan's limit: incrementing first and
\* comparing under the row lock closes the race of two requests (quota.ts).
QuotaWithinPlan == \A m \in Month : usage[m] <= MaxBookings

\* The counters of all months together are the bookings made and the
\* customers' moves committed, less what staff cancellations gave back: a
\* transaction that fails, crashes or is cancelled leaves no charge behind and
\* a committed one loses none (quota.ts: an over-limit attempt "rolls back its
\* own increment").
QuotaConserved ==
  SumFunctionOnSet(usage, Month) + SumFunctionOnSet(released, Appt)
    = Cardinality({a \in Appt : booked[a] # None}) + SumFunctionOnSet(moves, Month)

\* Row a takes an interval in this step, as a new booking or by a move.
Published(a) == Confirmed(a)' /\ (~Confirmed(a) \/ slot'[a] # slot[a])

\* The salon's set-up, as it stands, lets employee e serve the interval s.
SetupAllows(e, s) ==
  /\ s.to = s.from + blockLen
  /\ \E w \in windows[e] : w.from <= s.from /\ s.to <= w.to
  /\ \A off \in timeOff[e] : off.to <= s.from \/ s.to <= off.from

\* An appointment is written outside the hours, into time off or with a length
\* the service no longer has only by a request whose slot check came before an
\* edit of the set-up: between that check and the commit nothing else that may
\* happen lets a wrong interval in (availability.ts: "calling /book directly
\* cannot smuggle in a past / out-of-hours / time-off slot").
KeepsToSetup ==
  [][\A a \in Appt : Published(a) =>
       \/ SetupAllows(emp'[a], slot'[a])
       \/ \E r \in Request : /\ req[r].pc \in {"charged", "moved", "staffMove"}
                             /\ req[r].appt = a /\ req[r].slot = slot'[a]
                             /\ req[r].seen < edits]_vars

\* An appointment is closed as COMPLETED or NO_SHOW before its start only by a
\* status change that read an earlier time of it, before a reschedule: not by the
\* worker, and not by a status change of the time that stands ("marking a FUTURE
\* booking completed (or no-show) would book revenue and payroll commission before
\* the service happened", dashboard/actions.ts).
NotClosedEarly ==
  [][\A a \in Appt :
       /\ status'[a] # status[a] /\ status'[a] \in {"COMPLETED", "NO_SHOW"}
       /\ now < slot[a].from
       => \E r \in Request : /\ At(r, "setStatus") /\ req[r].goal = status'[a]
                             /\ req[r].appt = a /\ req[r].slot # slot[a]]_vars

\* Every request ends, also when a booking and a customer's move each hold the
\* lock the other one waits for.
RequestsEnd == \A r \in Request : ~At(r, "idle") ~> At(r, "idle")

\* A booking's quota slot is given back at most once ("It releases exactly ONE
\* slot per appointment", quota.ts).
OneReleasePerBooking == \A a \in Appt : released[a] <= 1

\* What each row holds of the calendar, for the abstract specification.
HeldBy(a) ==
  CASE status[a] = "NONE" -> [emp |-> "never"]
    [] Confirmed(a)       -> [emp |-> emp[a], slot |-> slot[a]]
    [] OTHER              -> [emp |-> "gone"]

Abstract == INSTANCE Calendar WITH held <- [a \in Appt |-> HeldBy(a)]

\* The booking code implements Calendar: a move gives up the old interval and
\* takes the new one in one step, and a row that let go never comes back.
ImplementsCalendar == Abstract!Spec
=============================================================================
