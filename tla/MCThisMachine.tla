---------------------------- MODULE MCThisMachine ----------------------------
(* ThisMachine on three commands: two that manage the agent, one that uses it. *)
EXTENDS ThisMachine, TLC
CONSTANTS c1, c2, c3, p1, p2
MCDoes == (c1 :> {"start"}) @@ (c2 :> {"stop", "restart"}) @@ (c3 :> {"up", "down", "pull"})
=============================================================================
