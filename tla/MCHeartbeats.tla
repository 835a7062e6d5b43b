---------------------------- MODULE MCHeartbeats ----------------------------
(* The small instances of Heartbeats that TLC checks. *)
EXTENDS Heartbeats, TLC

(* Two deploys that differ in both fields. *)
MCTwoDeploys == {[enabled |-> TRUE, schedule |-> 1], [enabled |-> FALSE, schedule |-> 2]}

MCSymmetry == Permutations(Worker)
=============================================================================
