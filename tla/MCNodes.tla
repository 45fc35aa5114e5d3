------------------------------- MODULE MCNodes -------------------------------
(* Two objects, the first at its target to begin with and the other one that
   the robot can push; a joint that starts outside its limits, on either side. *)
EXTENDS Nodes, TLC

CONSTANTS a, b, p, q

MCFirstPlace == (a :> p) @@ (b :> q)
MCJoints     == -1..3
MCFirstJoints == {-1, 3}
=============================================================================
