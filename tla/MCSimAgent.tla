----------------------------- MODULE MCSimAgent -----------------------------
(* SimAgent on small instances: two requests and one caller of down. *)
EXTENDS SimAgent, TLC

CONSTANTS r1, r2, d1

\* The two requests are interchangeable.
RunSymmetry == Permutations({r1, r2})
=============================================================================
