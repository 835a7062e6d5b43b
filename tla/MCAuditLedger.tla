--------------------------- MODULE MCAuditLedger ---------------------------
(* The small instances of AuditLedger that TLC checks. Calls are            *)
(* interchangeable, and so are processes; the safety run uses the symmetry. *)
EXTENDS AuditLedger, TLC

MCSymmetry == Permutations(Event) \union Permutations(Writer)
=============================================================================
