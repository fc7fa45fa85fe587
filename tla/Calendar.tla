------------------------------ MODULE Calendar ------------------------------
(***************************************************************************)
(* What the booking code promises about the calendar of a salon, without   *)
(* its requests, transactions and locks: a booking takes a free interval   *)
(* of one employee, may move to another free interval of the same employee *)
(* in one step, and once it lets go of its interval never takes one again. *)
(* Booking.tla is shown to implement this module.                          *)
(***************************************************************************)
EXTENDS Naturals

CONSTANTS
  Appt,       \* appointment rows
  Employee,   \* whose calendar it is
  Slot        \* intervals, records with fields from and to

VARIABLE held  \* what each appointment holds: a hold, Never (not booked) or Gone

Hold  == [emp: Employee, slot: Slot]
Never == [emp |-> "never"]
Gone  == [emp |-> "gone"]

\* Half-open intervals, so that back-to-back bookings do not meet.
Overlap(s, t) == s.from < t.to /\ t.from < s.to

Holds(a) == held[a] \in Hold

\* No appointment other than a holds a part of employee e's interval s.
FreeFor(a, e, s) ==
  \A b \in Appt \ {a} :
    Holds(b) /\ held[b].emp = e => ~Overlap(held[b].slot, s)

Init == held = [a \in Appt |-> Never]

Take(a, e, s) ==
  /\ held[a] = Never
  /\ FreeFor(a, e, s)
  /\ held' = [held EXCEPT ![a] = [emp |-> e, slot |-> s]]

Move(a, s) ==
  /\ Holds(a)
  /\ FreeFor(a, held[a].emp, s)
  /\ held' = [held EXCEPT ![a] = [emp |-> held[a].emp, slot |-> s]]

\* Cancelled, closed or deleted, several at a time when the code updates many.
LetGo(gone) ==
  /\ \A a \in gone : Holds(a)
  /\ held' = [a \in Appt |-> IF a \in gone THEN Gone ELSE held[a]]

Next ==
  \/ \E a \in Appt, e \in Employee, s \in Slot : Take(a, e, s)
  \/ \E a \in Appt, s \in Slot : Move(a, s)
  \/ \E gone \in SUBSET Appt : LetGo(gone)

Spec == Init /\ [][Next]_held

\* Two appointments never hold overlapping intervals of one employee
\* (appointment_no_overlap, prisma/constraints.sql).
Disjoint ==
  \A a, b \in Appt :
    a # b /\ Holds(a) /\ Holds(b) /\ held[a].emp = held[b].emp
      => ~Overlap(held[a].slot, held[b].slot)
=============================================================================
