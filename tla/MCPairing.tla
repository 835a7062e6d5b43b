----------------------------- MODULE MCPairing -----------------------------
(* The small instance of Pairing that TLC checks. *)
EXTENDS Pairing, TLC
=============================================================================
