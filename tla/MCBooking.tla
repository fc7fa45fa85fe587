----------------------------- MODULE MCBooking ------------------------------
(***************************************************************************)
(* Small salons for TLC.                                                   *)
(***************************************************************************)
EXTENDS Booking, TLC

Open(f, t) == [from |-> f, to |-> t]

MCStart     == {1, 2, 3}
TwoStarts   == {1, 2}
MCLength    == {2}
OnOff       == {0, 2}
ShortLength == {1}
Catalog     == {0, 1, 2}
MCTimetable == {{Open(0, 5)}}
Rota        == {{Open(0, 5)}, {Open(2, 4)}}
MCDayOff    == {}
Leave       == {Open(2, 3)}
MCMonth     == {1, 2}
MCMonthOf   == [t \in 0..Horizon |-> IF t < 2 THEN 1 ELSE 2]
OneMonth    == {1}
OneMonthOf  == [t \in 0..Horizon |-> 1]

Symmetry == Permutations(Request) \union Permutations(Appt)
=============================================================================
