----------------------------- MODULE MCRoutines -----------------------------
(* The small instance of Routines that TLC checks: two threads of the       *)
(* harness and one CLI.                                                     *)
EXTENDS Routines, TLC

CONSTANTS t1, t2, t3, p1, p2

ThreeThreads == t1 :> p1 @@ t2 :> p1 @@ t3 :> p2
=============================================================================
