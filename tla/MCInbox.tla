------------------------------ MODULE MCInbox -------------------------------
(* A conversation of two messages for TLC, sent in the same second.         *)
EXTENDS Inbox, TLC

CONSTANTS m1, m2, p1, p2

MCSentAt   == m1 :> 4 @@ m2 :> 5
MCCutAt    == m1 :> 4 @@ m2 :> 4
MCFromMe   == {m2}
MCMedia    == {m1}
MCSymmetry == Permutations(Recorder)
=============================================================================
