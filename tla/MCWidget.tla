------------------------------ MODULE MCWidget ------------------------------
(***************************************************************************)
(* A small salon page for TLC: two services, one of them with add-ons, one *)
(* master, two times (interchangeable) and a party of one or two.          *)
(***************************************************************************)
EXTENDS Widget, TLC

Symmetry == Permutations(Time)
=============================================================================
