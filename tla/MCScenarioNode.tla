---------------------------- MODULE MCScenarioNode ----------------------------
(* ScenarioNode with one place inside the region and one outside it. *)
EXTENDS ScenarioNode

CONSTANTS s0, s1

\* The world is generated with the object inside it, and s1 takes it out.
MCSpawnInside == [s \in Seeds |-> IF s = s0 THEN 1 ELSE 0]
=============================================================================
