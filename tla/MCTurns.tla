------------------------------ MODULE MCTurns ------------------------------
(* The small instance of Turns that TLC checks. *)
EXTENDS Turns, TLC
=============================================================================
