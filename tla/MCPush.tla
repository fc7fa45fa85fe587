------------------------------- MODULE MCPush -------------------------------
(* Few appointments and passes for TLC.                                      *)
EXTENDS Push, TLC

CONSTANTS a1, a2, p1, p2
=============================================================================
