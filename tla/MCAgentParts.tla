---------------------------- MODULE MCAgentParts ----------------------------
(* The agent's parts on small instances: the images of MCRunRules, one request
   that may meet every failure and two that meet one another. *)
EXTENDS AgentParts, MCRunRules

CONSTANTS r1, r2, d1, s0, s1, s2, s3, c1, k1, k2, m1, m2

MCMeshRuns == 1..2

\* The requests of SimAgent are interchangeable.
PartSymmetry == Permutations({r1, r2})
=============================================================================
