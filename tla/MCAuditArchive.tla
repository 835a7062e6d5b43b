-------------------------- MODULE MCAuditArchive ---------------------------
(* The small instance of AuditArchive that TLC checks: two rows of two      *)
(* months in one ledger, which two archives serve. Archives and runs are    *)
(* interchangeable.                                                         *)
EXTENDS AuditArchive, TLC

CONSTANTS r1, r2, b1, d1, d2

MCMonthOf == r1 :> 1 @@ r2 :> 2
OneDbOf   == [r \in Row |-> b1]
TwoServe  == {<<d1, b1>>, <<d2, b1>>}

MCSymmetry == Permutations(Root) \union Permutations(Run)
=============================================================================
