------------------------------ MODULE MCTrial ------------------------------
(* Trial on two seeds. *)
EXTENDS Trial
=============================================================================
