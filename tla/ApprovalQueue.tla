--------------------------- MODULE ApprovalQueue ---------------------------
(***************************************************************************)
(* The approval queue: the rows of approval_queue                          *)
(* (kernel/governance/approvals/store.py), the statements that change them *)
(* and the sweeps that time them out and announce each lapse               *)
(* (approvals/queue.py, approvals/service.py).                             *)
(*                                                                         *)
(* One SQLite statement that commits is one step. Several processes open   *)
(* the file (the API server, the CLI, the Telegram gateway), so the steps  *)
(* of one method interleave with everybody else's. The connection is       *)
(* Python's default: a transaction is opened by the first write, so the    *)
(* SELECT of expire_stale commits on its own and its UPDATE is a later     *)
(* step.                                                                   *)
(*                                                                         *)
(* A row's kind is what raised it: "halt" (an evaluator halt, no pinned    *)
(* items), "loop" (a tool call of an agent loop: pinned items, a run to    *)
(* resume) or "deferred" (a code caller's call: pinned items and a caller, *)
(* run by the harness itself). The wall clock is the boolean overdue: the  *)
(* properties only ask whether a row's timeout_at has passed.              *)
(***************************************************************************)
EXTENDS Naturals, FiniteSets

CONSTANTS
    Approval,   \* the approval ids that can be minted
    Sweeper,    \* the processes that run approval_timeout_tick
    MaxAborts   \* bound: how many times a process dies or a write raises

ASSUME AbortsAssumption == MaxAborts \in Nat

VARIABLES
    status,     \* the status column; "none" before the INSERT
    kind,       \* what raised the row (caller and items_json)
    overdue,    \* timeout_at <= now
    executed,   \* executed_at IS NOT NULL
    linked,     \* checkpoint_id IS NOT NULL
    sweep,      \* where each sweep stands
    due,        \* the rows a sweep read and has still to announce
    announced,  \* which sweeps announced the lapse of a row
    aborts      \* how many aborts have happened

rowVars   == <<status, kind, overdue, executed, linked>>
sweepVars == <<sweep, due, announced>>
queueVars == <<status, kind, overdue, executed, linked, sweep, due, announced, aborts>>

Kind       == {"halt", "loop", "deferred"}
Answer     == {"approved", "rejected"}
Settled    == Answer \union {"timed_out"}
Status     == {"none", "pending"} \union Settled
SweepState == {"idle", "selected", "announcing"}

-----------------------------------------------------------------------------
(* The rows. *)

(* INSERT ... 'pending': the deadline lies ahead, nothing is linked or      *)
(* claimed. The id is a fresh UUID.                                         *)
Enqueue(a, k) ==
    /\ status[a] = "none"
    /\ status' = [status EXCEPT ![a] = "pending"]
    /\ kind' = [kind EXCEPT ![a] = k]
    /\ UNCHANGED <<overdue, executed, linked>>

(* The wall clock passes timeout_at. *)
DeadlinePasses(a) ==
    /\ status[a] # "none"
    /\ ~overdue[a]
    /\ overdue' = [overdue EXCEPT ![a] = TRUE]
    /\ UNCHANGED <<status, kind, executed, linked>>

RespondUnconditional(a, ans) ==
    /\ status[a] # "none"
    /\ status' = [status EXCEPT ![a] = ans]
    /\ UNCHANGED <<kind, overdue, executed, linked>>

(* UPDATE ... WHERE status = 'pending', checked by rowcount: an answered or *)
(* timed-out row raises and stays as it is. The deadline is not looked at:  *)
(* an overdue row no sweep has reached is still answerable.                 *)
Respond(a, ans) ==
    /\ status[a] = "pending"
    /\ status' = [status EXCEPT ![a] = ans]
    /\ UNCHANGED <<kind, overdue, executed, linked>>

(* The row may be claimed: approved and never claimed before. *)
Claimable(a) == status[a] = "approved" /\ ~executed[a]

ClaimAgain(a) ==
    /\ status[a] = "approved"
    /\ executed' = [executed EXCEPT ![a] = TRUE]
    /\ UNCHANGED <<status, kind, overdue, linked>>

(* UPDATE ... SET executed_at WHERE status = 'approved' AND executed_at IS  *)
(* NULL: one claimant wins, every other one gets None (no step).            *)
ClaimExecution(a) ==
    /\ Claimable(a)
    /\ executed' = [executed EXCEPT ![a] = TRUE]
    /\ UNCHANGED <<status, kind, overdue, linked>>

(* Allowed whatever the row's status: bookkeeping about where the run is. *)
SetCheckpoint(a) ==
    /\ status[a] # "none"
    /\ linked' = [linked EXCEPT ![a] = TRUE]
    /\ UNCHANGED <<status, kind, overdue, executed>>

-----------------------------------------------------------------------------
(* The sweeps. *)

OverdueLinked == {a \in Approval : status[a] = "pending" /\ overdue[a] /\ linked[a]}

(* The rows a sweep finds: pending and past their deadline. *)
Overdue == {a \in Approval : status[a] = "pending" /\ overdue[a]}

(* expire_stale, first statement. No due row: it returns at once. *)
ExpireStaleSelect(s) ==
    /\ sweep[s] = "idle"
    /\ Overdue # {}
    /\ sweep' = [sweep EXCEPT ![s] = "selected"]
    /\ due' = [due EXCEPT ![s] = Overdue]
    /\ UNCHANGED <<status, kind, overdue, executed, linked, announced>>

ExpireAnyStatus(s) ==
    /\ sweep[s] = "selected"
    /\ status' = [a \in Approval |-> IF a \in due[s] THEN "timed_out" ELSE status[a]]
    /\ sweep' = [sweep EXCEPT ![s] = "announcing"]
    /\ UNCHANGED <<kind, overdue, executed, linked, due, announced>>

(* expire_stale, second statement, under the same now_iso: of the rows due  *)
(* at the SELECT, those still pending time out. What is returned, and so    *)
(* announced, is what the SELECT read. ApprovalQueue.expire_stale audits    *)
(* each returned row before sweep_expired announces it.                     *)
ExpireStaleUpdate(s) ==
    /\ sweep[s] = "selected"
    /\ status' = [a \in Approval |->
                    IF a \in due[s] /\ status[a] = "pending" THEN "timed_out" ELSE status[a]]
    /\ sweep' = [sweep EXCEPT ![s] = "announcing"]
    /\ UNCHANGED <<kind, overdue, executed, linked, due, announced>>

AnnounceLinkedOnly(s, a) ==
    /\ linked[a]
    /\ sweep[s] = "announcing"
    /\ a \in due[s]
    /\ announced' = [announced EXCEPT ![a] = announced[a] \union {s}]
    /\ due' = [due EXCEPT ![s] = due[s] \ {a}]
    /\ sweep' = [sweep EXCEPT ![s] = IF due[s] = {a} THEN "idle" ELSE "announcing"]
    /\ UNCHANGED <<status, kind, overdue, executed, linked>>

(* sweep_expired, one turn of its loop: the notices of one row. A channel   *)
(* or a notifier that fails is logged and the loop goes on.                 *)
SweepAnnounce(s, a) ==
    /\ sweep[s] = "announcing"
    /\ a \in due[s]
    /\ announced' = [announced EXCEPT ![a] = announced[a] \union {s}]
    /\ due' = [due EXCEPT ![s] = due[s] \ {a}]
    /\ sweep' = [sweep EXCEPT ![s] = IF due[s] = {a} THEN "idle" ELSE "announcing"]
    /\ UNCHANGED <<status, kind, overdue, executed, linked>>

(* The sweeping process dies, or an audit write of the sweep raises (the    *)
(* heartbeat reports the tick FAILED): what it had still to do is lost.     *)
SweepAborts(s) ==
    /\ sweep[s] # "idle"
    /\ aborts < MaxAborts
    /\ aborts' = aborts + 1
    /\ sweep' = [sweep EXCEPT ![s] = "idle"]
    /\ due' = [due EXCEPT ![s] = {}]
    /\ UNCHANGED <<status, kind, overdue, executed, linked, announced>>

-----------------------------------------------------------------------------
(* The queue on its own: anybody may answer or claim any row at any time.   *)

QueueInit ==
    /\ status = [a \in Approval |-> "none"]
    /\ kind = [a \in Approval |-> "halt"]
    /\ overdue = [a \in Approval |-> FALSE]
    /\ executed = [a \in Approval |-> FALSE]
    /\ linked = [a \in Approval |-> FALSE]
    /\ sweep = [s \in Sweeper |-> "idle"]
    /\ due = [s \in Sweeper |-> {}]
    /\ announced = [a \in Approval |-> {}]
    /\ aborts = 0

RowStep(a) ==
    \/ \E k \in Kind : Enqueue(a, k)
    \/ DeadlinePasses(a)
    \/ \E ans \in Answer : Respond(a, ans)
    \/ ClaimExecution(a)
    \/ SetCheckpoint(a)

SweepStep(s) ==
    \/ ExpireStaleSelect(s)
    \/ ExpireStaleUpdate(s)
    \/ \E a \in Approval : SweepAnnounce(s, a)

QueueNext ==
    \/ \E a \in Approval : RowStep(a) /\ UNCHANGED sweepVars /\ UNCHANGED aborts
    \/ \E s \in Sweeper : SweepStep(s) /\ UNCHANGED aborts
    \/ \E s \in Sweeper : SweepAborts(s)

QueueSpec == QueueInit /\ [][QueueNext]_queueVars

-----------------------------------------------------------------------------
(* Properties of the queue. *)

(* Every column and every sweep variable holds a value of its type. *)
QueueTypeOK ==
    /\ status \in [Approval -> Status]
    /\ kind \in [Approval -> Kind]
    /\ overdue \in [Approval -> BOOLEAN]
    /\ executed \in [Approval -> BOOLEAN]
    /\ linked \in [Approval -> BOOLEAN]
    /\ sweep \in [Sweeper -> SweepState]
    /\ due \in [Sweeper -> SUBSET Approval]
    /\ announced \in [Approval -> SUBSET Sweeper]
    /\ aborts \in 0 .. MaxAborts

(* A claimed row is an approved row: claim_execution never gives away a     *)
(* row that was rejected, that lapsed, or that a racing sweep is about to   *)
(* time out, and no later write takes the approval back.                    *)
ClaimedIsApproved == \A a \in Approval : executed[a] => status[a] = "approved"

(* A request that is still open is never announced as expired: a sweep      *)
(* announces only rows past their deadline that somebody has settled.       *)
AnnouncedIsOver ==
    \A a \in Approval :
        announced[a] # {} => overdue[a] /\ status[a] \in Settled

(* No row lapses in silence: whoever timed a row out has announced it, or   *)
(* holds it among the rows still to announce, unless a sweep was cut off.   *)
LapseIsAccountedFor ==
    \A a \in Approval :
        status[a] = "timed_out" =>
            \/ announced[a] # {}
            \/ \E s \in Sweeper : sweep[s] = "announcing" /\ a \in due[s]
            \/ aborts > 0

(* A decision is for good: respond and expire_stale only ever move a row    *)
(* out of pending, so a settled status never changes and no row is undone.  *)
DecidedForGood ==
    [][\A a \in Approval :
          /\ status[a] \in Settled => status'[a] = status[a]
          /\ status[a] = "pending" => status'[a] # "none"
          /\ executed[a] => executed'[a]]_queueVars

(* approval_timeout_tick keeps timeout_at from being decorative: a pending  *)
(* row past its deadline is settled in the end, whoever aborts on the way.  *)
OverdueSettles ==
    \A a \in Approval :
        (status[a] = "pending" /\ overdue[a]) ~> status[a] \in Settled

(* A row that lapsed is announced in the end, unless a sweep was cut off    *)
(* between timing it out and announcing it.                                 *)
LapseIsHeard ==
    \A a \in Approval :
        status[a] = "timed_out" ~> (announced[a] # {} \/ aborts > 0)

(* The rows keep the approval contract: a claim is the one use. *)
QueueContract == INSTANCE ApprovalContract
    WITH decision <- status, uses <- [a \in Approval |-> IF executed[a] THEN 1 ELSE 0]

(* ApprovalStore implements the approval contract: decided once, used only  *)
(* when approved, used once, however responders, claimants and sweeps race. *)
QueueKeepsContract == QueueContract!Spec
=============================================================================
