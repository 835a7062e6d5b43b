-------------------------- MODULE ApprovalContract --------------------------
(***************************************************************************)
(* What an approval promises its owner, and nothing about how: it is asked *)
(* once, decided once (approved, rejected or lapsed), the decision is for  *)
(* good, and what it allows is used only after an approval and at most     *)
(* once.                                                                   *)
(***************************************************************************)
EXTENDS Naturals

CONSTANT Approval

VARIABLES
    decision,   \* "none", "pending" (asked), or the decision
    uses        \* how often what the approval allows was done

contractVars == <<decision, uses>>

Pending == {a \in Approval : decision[a] = "pending"}

Init ==
    /\ decision = [a \in Approval |-> "none"]
    /\ uses = [a \in Approval |-> 0]

Ask(a) ==
    /\ decision[a] = "none"
    /\ decision' = [decision EXCEPT ![a] = "pending"]
    /\ UNCHANGED uses

Decide(a, d) ==
    /\ decision[a] = "pending"
    /\ decision' = [decision EXCEPT ![a] = d]
    /\ UNCHANGED uses

(* Several approvals may lapse at once. *)
Lapse(S) ==
    /\ decision' = [a \in Approval |-> IF a \in S THEN "timed_out" ELSE decision[a]]
    /\ UNCHANGED uses

Use(a) ==
    /\ decision[a] = "approved"
    /\ uses[a] = 0
    /\ uses' = [uses EXCEPT ![a] = 1]
    /\ UNCHANGED decision

Next ==
    \/ \E a \in Approval : Ask(a) \/ Use(a)
    \/ \E a \in Approval, d \in {"approved", "rejected"} : Decide(a, d)
    \/ \E S \in SUBSET Pending : Lapse(S)

Spec == Init /\ [][Next]_contractVars
=============================================================================
