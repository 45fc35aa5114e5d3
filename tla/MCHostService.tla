--------------------------- MODULE MCHostService ---------------------------
(* HostService with four queries, two work slots, one stop slot and one more process. *)
EXTENDS HostService

CONSTANTS u1, u2, d1, w1

MCUps     == {u1, u2}
MCDowns   == {d1}
MCWorks   == {w1}
MCDebugs  == {}
MCWorkers == [l \in Lanes |-> IF l = "work" THEN 2 ELSE 1]
MCCeiling == [l \in Lanes |-> IF l = "work" THEN 2 ELSE 1]
=============================================================================
