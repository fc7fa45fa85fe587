--------------------------- MODULE MCSubscription ---------------------------
(***************************************************************************)
(* A small instance of Subscription for TLC.                               *)
(***************************************************************************)
EXTENDS Subscription

OneTick == {1}
=============================================================================
