-------------------------- MODULE MCGovernedCalls --------------------------
(* Small instances of GovernedCalls. Approvals, processes, calls and sweeps *)
(* are interchangeable; the safety runs use the symmetry.                   *)
EXTENDS GovernedCalls, TLC

MCSymmetry == Permutations(Approval) \union Permutations(Proc)
                 \union Permutations(Call) \union Permutations(Sweeper)
=============================================================================
