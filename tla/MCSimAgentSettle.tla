--------------------------- MODULE MCSimAgentSettle ---------------------------
(* SimAgentSettle with two requests and one caller of down. *)
EXTENDS SimAgentSettle, TLC

CONSTANTS r1, r2, d1

\* The two requests are interchangeable.
RunSymmetry == Permutations({r1, r2})
=============================================================================
