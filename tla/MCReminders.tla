---------------------------- MODULE MCReminders ----------------------------
(* The small instances of Reminders that TLC checks. *)
EXTENDS Reminders, TLC
=============================================================================
