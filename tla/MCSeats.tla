------------------------------- MODULE MCSeats ------------------------------
(***************************************************************************)
(* A small account for TLC.                                                *)
(***************************************************************************)
EXTENDS Seats, TLC

Symmetry == Permutations(Asker) \union Permutations(Employee)
=============================================================================
