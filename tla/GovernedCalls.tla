--------------------------- MODULE GovernedCalls ---------------------------
(***************************************************************************)
(* What is done with an approval: respond_to_approval, the executor of a   *)
(* code caller's approved call, the resume of a halted run (by an answer   *)
(* or by `evarness run resume`), and the governed execution of the pinned  *)
(* call: PRE_TOOL_USE with the approval claim and the write-ahead ledger   *)
(* row, the tool, POST_TOOL_USE which settles the row.                     *)
(*                                                                         *)
(* A process is whatever handles one answer or one command: an API request *)
(* thread, a CLI invocation, the Telegram poller. A run is named by the    *)
(* approval that halted it: a resumed run that halts again raises a new    *)
(* approval, with a checkpoint of its own. The pinned call is the only     *)
(* call of an approval (_request pins one item).                           *)
(***************************************************************************)
EXTENDS ApprovalQueue

CONSTANTS
    Proc,      \* processes and threads that answer or resume
    Call,      \* the call ids that can be minted
    None       \* no approval, no call

ASSUME NoneAssumption == None \notin Approval /\ None \notin Call

VARIABLES
    risky,     \* the pinned tool is high-risk (pinned_by_declaration)
    stored,    \* the run's checkpoint is in the checkpoint store
    pc,        \* where each process stands
    cur,       \* the approval it works on
    att,       \* the call it runs
    res,       \* what became of that call
    todo,      \* run resume: the ledger rows still to probe
    blind,     \* run resume: the rows it read with no probe to run
    refuse,    \* run resume: a row came out ambiguous
    callOf,    \* the approval a call was minted for
    ledger,    \* the status column of a call's side_effect_ledger row
    probed,    \* the row names a verification probe
    effect,    \* the calls whose tool was invoked
    lost,      \* the calls cut off, or whose row could not be settled
    runs,      \* how often the tool of an approval was invoked
    told,      \* the outcomes sent to the caller (approval.call_completed)
    raised,    \* the approvals whose execute_approved_call raised
    continued  \* the halted runs that were continued

procVars   == <<pc, cur, att, res, todo, blind, refuse>>
ledgerVars == <<callOf, ledger, probed, effect, lost>>
callVars   == <<risky, stored, procVars, ledgerVars, runs, told, raised, continued>>
vars       == <<queueVars, callVars>>

Pc       == {"idle", "executing", "probing", "gate", "waiting", "resuming", "pre",
             "verified", "recorded", "cleared", "post", "settling", "telling"}
InFlight == {"recorded", "cleared", "post", "settling"}  \* a ledger row may be open
Outcome  == {"ran", "failed", "denied"}
RowState == {"none", "pending", "completed", "error", "not_completed", "ambiguous"}

(* The rows `ledger.pending` returns for a run: every row not completed. *)
Unsettled(a) ==
    {c \in Call : callOf[c] = a /\ ledger[c] \notin {"none", "completed"}}

-----------------------------------------------------------------------------
(* A call that needs the owner, and the run it halts. *)

(* DestructiveApprovalHook._request, or the evaluator's hook for a halt: the *)
(* row is written before any checkpoint exists.                              *)
Request(a, k, r) ==
    /\ Enqueue(a, k)
    /\ risky' = [risky EXCEPT ![a] = r /\ k # "halt"]
    /\ UNCHANGED <<stored, procVars, ledgerVars, runs, told, raised, continued>>

(* CheckpointStore.write: the row of this run and step, inserted or replaced. *)
StoreCheckpoint(a) == stored' = [stored EXCEPT ![a] = TRUE]

(* _write_checkpoint: after the approval's row, best-effort. *)
WriteCheckpoint(a) ==
    /\ status[a] # "none" /\ kind[a] # "deferred"
    /\ ~stored[a]
    /\ StoreCheckpoint(a)
    /\ UNCHANGED <<rowVars, risky, procVars, ledgerVars, runs, told, raised, continued>>

(* The checkpoint is removed by hand or swept after its seven days. *)
CheckpointRemoved(a) ==
    /\ stored[a]
    /\ stored' = [stored EXCEPT ![a] = FALSE]
    /\ UNCHANGED <<rowVars, risky, procVars, ledgerVars, runs, told, raised, continued>>

(* _link_approval_checkpoint_for: only once the checkpoint was written. *)
LinkCheckpoint(a) ==
    /\ stored[a] /\ ~linked[a]
    /\ SetCheckpoint(a)
    /\ UNCHANGED callVars

-----------------------------------------------------------------------------
(* Answering. *)

Goes(p, where) ==
    /\ pc' = [pc EXCEPT ![p] = where]
    /\ UNCHANGED <<cur, att, res, todo, blind, refuse>>

(* The handler returns: what it knew is gone. *)
Returns(p) ==
    /\ pc' = [pc EXCEPT ![p] = "idle"]
    /\ cur' = [cur EXCEPT ![p] = None]
    /\ att' = [att EXCEPT ![p] = None]
    /\ res' = [res EXCEPT ![p] = "denied"]
    /\ todo' = [todo EXCEPT ![p] = {}]
    /\ blind' = [blind EXCEPT ![p] = {}]
    /\ refuse' = [refuse EXCEPT ![p] = FALSE]

StartsOn(p, a, where) ==
    /\ pc' = [pc EXCEPT ![p] = where]
    /\ cur' = [cur EXCEPT ![p] = a]
    /\ UNCHANGED <<att, res, todo, blind, refuse>>

(* Where an answer leads: a deferred call is executed, a linked run is       *)
(* resumed if a runtime is at hand, a rejected evaluator halt stays halted.  *)
LeadsTo(a, ans, runtime) ==
    IF kind[a] = "deferred"
    THEN IF ans = "approved" THEN "executing" ELSE "idle"
    ELSE IF linked[a] /\ runtime /\ ~(kind[a] = "halt" /\ ans = "rejected")
         THEN "resuming" ELSE "idle"

(* respond_to_approval. Approving a deferred call where nothing can run it   *)
(* answers nothing. The decision is recorded before anything acts on it. The *)
(* executor tells a code caller of a rejection; with none, nobody does.      *)
RespondToApproval(p, a, ans, runtime) ==
    /\ pc[p] = "idle"
    /\ ~(kind[a] = "deferred" /\ ans = "approved" /\ ~runtime)
    /\ Respond(a, ans)
    /\ told' = [told EXCEPT ![a] =
                   IF kind[a] = "deferred" /\ ans = "rejected" /\ runtime
                   THEN @ \union {"rejected"} ELSE @]
    /\ StartsOn(p, a, LeadsTo(a, ans, runtime))
    /\ UNCHANGED <<risky, stored, ledgerVars, runs, raised, continued>>

(* ToolService.execute_approved_call handed an answered row again: a retry   *)
(* or a replay of the executor.                                              *)
ExecuteApprovedCall(p, a) ==
    /\ pc[p] = "idle"
    /\ kind[a] = "deferred" /\ status[a] = "approved"
    /\ StartsOn(p, a, "executing")
    /\ UNCHANGED <<rowVars, risky, stored, ledgerVars, runs, told, raised, continued>>

-----------------------------------------------------------------------------
(* evarness run resume. *)

(* The latest checkpoint, then the ledger: with no unsettled row the run may *)
(* go on to its gate, otherwise every row is probed.                         *)
RunResume(p, a) ==
    /\ pc[p] = "idle"
    /\ kind[a] # "deferred" /\ stored[a]
    /\ pc' = [pc EXCEPT ![p] = IF Unsettled(a) = {} THEN "gate" ELSE "probing"]
    /\ cur' = [cur EXCEPT ![p] = a]
    /\ todo' = [todo EXCEPT ![p] = Unsettled(a)]
    /\ blind' = [blind EXCEPT ![p] = {c \in Unsettled(a) : ~probed[c]}]
    /\ refuse' = [refuse EXCEPT ![p] = FALSE]
    /\ UNCHANGED <<rowVars, risky, stored, att, res, ledgerVars, runs, told, raised, continued>>

(* run_probe: a row with no probe is ambiguous, a probe may say anything. *)
ProbeResult(p, c) ==
    IF c \in blind[p] THEN {"ambiguous"} ELSE {"completed", "not_completed", "ambiguous"}

(* One row: set_status writes the probe's answer, whatever the row says by   *)
(* now. After the last row one ambiguous answer refuses the resume.          *)
RunProbe(p, c, found) ==
    /\ pc[p] = "probing"
    /\ c \in todo[p]
    /\ found \in ProbeResult(p, c)
    /\ ledger' = [ledger EXCEPT ![c] = found]
    /\ IF todo[p] = {c} /\ (refuse[p] \/ found = "ambiguous") THEN Returns(p)
       ELSE /\ pc' = [pc EXCEPT ![p] = IF todo[p] = {c} THEN "gate" ELSE "probing"]
            /\ todo' = [todo EXCEPT ![p] = todo[p] \ {c}]
            /\ refuse' = [refuse EXCEPT ![p] = refuse[p] \/ found = "ambiguous"]
            /\ UNCHANGED <<cur, att, res, blind>>
    /\ UNCHANGED <<rowVars, risky, stored, callOf, probed, effect, lost, runs, told, raised,
                   continued>>

GateIgnored(p, wait) ==
    /\ pc[p] = "gate"
    /\ Goes(p, "resuming")
    /\ UNCHANGED <<rowVars, risky, stored, ledgerVars, runs, told, raised, continued>>

(* _await_gating_approval: no pending approval, go on; otherwise wait for it *)
(* (--wait) or refuse.                                                       *)
Gate(p, wait) ==
    /\ pc[p] = "gate"
    /\ IF status[cur[p]] = "pending"
       THEN IF wait THEN Goes(p, "waiting") ELSE Returns(p)
       ELSE Goes(p, "resuming")
    /\ UNCHANGED <<rowVars, risky, stored, ledgerVars, runs, told, raised, continued>>

(* ApprovalGate.await_approval, the poll that ends the wait. *)
AwaitApproval(p) ==
    /\ pc[p] = "waiting"
    /\ status[cur[p]] # "pending" \/ overdue[cur[p]]
    /\ IF status[cur[p]] = "approved" THEN Goes(p, "resuming") ELSE Returns(p)
    /\ UNCHANGED <<rowVars, risky, stored, ledgerVars, runs, told, raised, continued>>

-----------------------------------------------------------------------------
(* Resuming and executing. *)

(* The runner mints a call id for the pinned call and fires PRE_TOOL_USE. *)
Mint(p, c) ==
    /\ callOf[c] = None
    /\ callOf' = [callOf EXCEPT ![c] = cur[p]]
    /\ att' = [att EXCEPT ![p] = c]
    /\ pc' = [pc EXCEPT ![p] = "pre"]
    /\ UNCHANGED <<cur, res, todo, blind, refuse, ledger, probed, effect, lost>>

(* resume_halted_run of a run whose approval pins nothing, was not approved, *)
(* or cannot be read: the run continues and no call is executed.             *)
ResumeWithoutCall(p) ==
    /\ pc[p] = "resuming"
    /\ stored[cur[p]]
    /\ continued' = continued \union {cur[p]}
    /\ Returns(p)
    /\ UNCHANGED <<rowVars, risky, stored, ledgerVars, runs, told, raised>>

(* _settle_pending_approval of an approved row: the call the row pins. *)
ResumeWithCall(p, c) ==
    /\ pc[p] = "resuming"
    /\ stored[cur[p]]
    /\ kind[cur[p]] = "loop" /\ status[cur[p]] = "approved"
    /\ Mint(p, c)
    /\ UNCHANGED <<rowVars, risky, stored, runs, told, raised, continued>>

(* The checkpoint is gone (removed, or past its seven days): answered, not   *)
(* resumed.                                                                  *)
ResumeFails(p) ==
    /\ pc[p] = "resuming"
    /\ ~stored[cur[p]]
    /\ Returns(p)
    /\ UNCHANGED <<rowVars, risky, stored, ledgerVars, runs, told, raised, continued>>

(* _run_approved: the pinned call, as the caller that asked. *)
RunApproved(p, c) ==
    /\ pc[p] = "executing"
    /\ Mint(p, c)
    /\ UNCHANGED <<rowVars, risky, stored, runs, told, raised, continued>>

(* The outcome of a call: a loop puts it in the halted step's observation    *)
(* and goes on, the executor tells the caller.                               *)
Ends(p, outcome) ==
    IF kind[cur[p]] = "deferred"
    THEN /\ pc' = [pc EXCEPT ![p] = "telling"]
         /\ res' = [res EXCEPT ![p] = outcome]
         /\ UNCHANGED <<cur, att, todo, blind, refuse>>
    ELSE Returns(p)

(* The call never reaches its tool: the tool is no longer registered, a hook *)
(* denies or raises, the approval hook finds the row not approved or already *)
(* claimed, the credential broker refuses, the ledger row cannot be written. *)
(* Whatever was claimed stays claimed.                                       *)
Refused(p) ==
    /\ pc[p] \in {"executing", "pre", "verified"}
    /\ Ends(p, "denied")
    /\ UNCHANGED <<rowVars, risky, stored, ledgerVars, runs, told, raised, continued>>

VerifyWithoutClaim(p) ==
    /\ pc[p] = "pre"
    /\ status[cur[p]] = "approved"
    /\ Goes(p, "verified")
    /\ UNCHANGED <<rowVars, risky, stored, ledgerVars, runs, told, raised, continued>>

(* DestructiveApprovalHook._verify: the row must be approved; a code         *)
(* caller's row is claimed, a loop's is not.                                 *)
Verify(p) ==
    /\ pc[p] = "pre"
    /\ status[cur[p]] = "approved"
    /\ IF kind[cur[p]] = "deferred" THEN ClaimExecution(cur[p]) ELSE UNCHANGED rowVars
    /\ Goes(p, "verified")
    /\ UNCHANGED <<risky, stored, ledgerVars, runs, told, raised, continued>>

WriteNothing(p) ==
    /\ pc[p] = "verified"
    /\ Goes(p, "recorded")
    /\ UNCHANGED <<rowVars, risky, stored, ledgerVars, runs, told, raised, continued>>

(* SideEffectLedger.record, exclusive: a row under a key that has none. *)
RecordRow(c) ==
    /\ ledger[c] = "none"
    /\ ledger' = [ledger EXCEPT ![c] = "pending"]

(* PreToolUseLedgerHook: a high-risk call leaves a pending row before it     *)
(* runs; any other call leaves none.                                         *)
WriteAhead(p) ==
    /\ pc[p] = "verified"
    /\ IF risky[cur[p]] THEN RecordRow(att[p]) ELSE UNCHANGED ledger
    /\ Goes(p, "recorded")
    /\ UNCHANGED <<rowVars, risky, stored, callOf, probed, effect, lost, runs, told, raised,
                   continued>>

(* The hooks have allowed the call and their audit rows are kept. *)
Cleared(p) ==
    /\ pc[p] = "recorded"
    /\ Goes(p, "cleared")
    /\ UNCHANGED <<rowVars, risky, stored, ledgerVars, runs, told, raised, continued>>

WithdrawLeavesRow(p) ==
    /\ pc[p] = "recorded"
    /\ Ends(p, "denied")
    /\ UNCHANGED <<rowVars, risky, stored, ledgerVars, runs, told, raised, continued>>

(* An audit row was lost, so the kernel withdraws the allow; _settle_unrun_tool *)
(* fires POST_TOOL_USE for the row already written, as an error.                *)
Withdrawn(p) ==
    /\ pc[p] = "recorded"
    /\ pc' = [pc EXCEPT ![p] = "post"]
    /\ res' = [res EXCEPT ![p] = "denied"]
    /\ UNCHANGED <<rowVars, risky, stored, cur, att, todo, blind, refuse, ledgerVars,
                   runs, told, raised, continued>>

(* tool.call: it returns, or raises half-way and may have changed something. *)
InvokeTool(p, outcome) ==
    /\ pc[p] = "cleared"
    /\ effect' = effect \union {att[p]}
    /\ runs' = [runs EXCEPT ![cur[p]] = @ + 1]
    /\ pc' = [pc EXCEPT ![p] = "post"]
    /\ res' = [res EXCEPT ![p] = outcome]
    /\ UNCHANGED <<rowVars, risky, stored, cur, att, todo, blind, refuse, callOf, ledger, probed,
                   lost, told, raised, continued>>

PostSkipsErrors(p) ==
    /\ pc[p] = "post"
    /\ IF ledger[att[p]] = "pending" /\ res[p] = "ran" THEN Goes(p, "settling") ELSE Ends(p, res[p])
    /\ UNCHANGED <<rowVars, risky, stored, ledgerVars, runs, told, raised, continued>>

(* PostToolUseLedgerHook._written_before: is there a pending row to settle? *)
PostReadsRow(p) ==
    /\ pc[p] = "post"
    /\ IF ledger[att[p]] = "pending" THEN Goes(p, "settling") ELSE Ends(p, res[p])
    /\ UNCHANGED <<rowVars, risky, stored, ledgerVars, runs, told, raised, continued>>

SettleAlwaysCompleted(p, probe) ==
    /\ pc[p] = "settling"
    /\ ledger' = [ledger EXCEPT ![att[p]] = "completed"]
    /\ probed' = [probed EXCEPT ![att[p]] = probe]
    /\ Ends(p, res[p])
    /\ UNCHANGED <<rowVars, risky, stored, callOf, effect, lost, runs, told, raised, continued>>

(* _settle: finalize writes the outcome, whatever the row says by now. Only  *)
(* a completed row is given the tool's verification probe, if it has one.    *)
SettleRow(p, probe) ==
    /\ pc[p] = "settling"
    /\ ledger' = [ledger EXCEPT ![att[p]] = IF res[p] = "ran" THEN "completed" ELSE "error"]
    /\ probed' = [probed EXCEPT ![att[p]] = @ \/ (probe /\ res[p] = "ran")]
    /\ Ends(p, res[p])
    /\ UNCHANGED <<rowVars, risky, stored, callOf, effect, lost, runs, told, raised, continued>>

(* The row cannot be read or written: a warning, the result stands. *)
SettleFails(p) ==
    /\ pc[p] \in {"post", "settling"}
    /\ ledger[att[p]] # "none"
    /\ lost' = lost \union {att[p]}
    /\ Ends(p, res[p])
    /\ UNCHANGED <<rowVars, risky, stored, callOf, ledger, probed, effect, runs, told, raised,
                   continued>>

TellAlwaysRan(p, withheld) ==
    /\ pc[p] = "telling"
    /\ told' = [told EXCEPT ![cur[p]] = @ \union {"ran"}]
    /\ Returns(p)
    /\ UNCHANGED <<rowVars, risky, stored, ledgerVars, runs, raised, continued>>

TellNothing(p, withheld) ==
    /\ pc[p] = "telling"
    /\ Returns(p)
    /\ UNCHANGED <<rowVars, risky, stored, ledgerVars, runs, told, raised, continued>>

(* ToolService._settle: the event and the notice. A result that              *)
(* POST_TOOL_USE withheld counts as failed here, although the call's ledger  *)
(* row says completed.                                                       *)
TellOutcome(p, withheld) ==
    /\ pc[p] = "telling"
    /\ told' = [told EXCEPT ![cur[p]] =
                   @ \union {IF res[p] = "ran" /\ withheld THEN "failed" ELSE res[p]}]
    /\ Returns(p)
    /\ UNCHANGED <<rowVars, risky, stored, ledgerVars, runs, raised, continued>>

(* execute_approved_call raises, before the call (no kernel to be had) or    *)
(* before the event: no event goes out, whatever became of the call. The     *)
(* answer's handler leaves an audit row that it failed.                      *)
ExecutorRaises(p) ==
    /\ pc[p] \in {"executing", "telling"}
    /\ raised' = raised \union {cur[p]}
    /\ Returns(p)
    /\ UNCHANGED <<rowVars, risky, stored, ledgerVars, runs, told, continued>>

(* The process dies, is interrupted (Ctrl-C of a --wait), or an audit write  *)
(* outside the kernel raises: nothing more is done for this answer.          *)
Aborts(p) ==
    /\ pc[p] # "idle"
    /\ aborts < MaxAborts
    /\ aborts' = aborts + 1
    /\ lost' = IF pc[p] \in InFlight THEN lost \union {att[p]} ELSE lost
    /\ Returns(p)
    /\ UNCHANGED <<rowVars, sweepVars, risky, stored, callOf, ledger, probed, effect, runs, told,
                   raised, continued>>

(* sweep_expired of a code caller's row: the caller is told it expired. *)
AnnounceLapse(s, a) ==
    /\ SweepAnnounce(s, a)
    /\ told' = [told EXCEPT ![a] = IF kind[a] = "deferred" THEN @ \union {"expired"} ELSE @]
    /\ UNCHANGED <<risky, stored, procVars, ledgerVars, runs, raised, continued>>

-----------------------------------------------------------------------------
Init ==
    /\ QueueInit
    /\ risky = [a \in Approval |-> FALSE]
    /\ stored = [a \in Approval |-> FALSE]
    /\ pc = [p \in Proc |-> "idle"]
    /\ cur = [p \in Proc |-> None]
    /\ att = [p \in Proc |-> None]
    /\ res = [p \in Proc |-> "denied"]
    /\ todo = [p \in Proc |-> {}]
    /\ blind = [p \in Proc |-> {}]
    /\ refuse = [p \in Proc |-> FALSE]
    /\ callOf = [c \in Call |-> None]
    /\ ledger = [c \in Call |-> "none"]
    /\ probed = [c \in Call |-> FALSE]
    /\ effect = {}
    /\ lost = {}
    /\ runs = [a \in Approval |-> 0]
    /\ told = [a \in Approval |-> {}]
    /\ raised = {}
    /\ continued = {}

(* What the harness and its users set off. *)
RunStep(a) ==
    \/ \E k \in Kind, r \in BOOLEAN : Request(a, k, r)
    \/ DeadlinePasses(a) /\ UNCHANGED callVars
    \/ WriteCheckpoint(a)
    \/ CheckpointRemoved(a)
    \/ LinkCheckpoint(a)

Begin(p) ==
    \/ \E a \in Approval, ans \in Answer, runtime \in BOOLEAN :
          RespondToApproval(p, a, ans, runtime)
    \/ \E a \in Approval : ExecuteApprovedCall(p, a)
    \/ \E a \in Approval : RunResume(p, a)

(* What a process then does on its own. *)
ResumeStep(p) ==
    \/ \E c \in Call, found \in RowState : RunProbe(p, c, found)
    \/ \E wait \in BOOLEAN : Gate(p, wait)
    \/ AwaitApproval(p)
    \/ ResumeWithoutCall(p)
    \/ ResumeFails(p)

CallStep(p) ==
    \/ \E c \in Call : ResumeWithCall(p, c) \/ RunApproved(p, c)
    \/ Refused(p)
    \/ Verify(p)
    \/ WriteAhead(p)
    \/ Cleared(p)
    \/ Withdrawn(p)
    \/ \E outcome \in {"ran", "failed"} : InvokeTool(p, outcome)
    \/ PostReadsRow(p)
    \/ \E probe \in BOOLEAN : SettleRow(p, probe)
    \/ SettleFails(p)
    \/ \E withheld \in BOOLEAN : TellOutcome(p, withheld)
    \/ ExecutorRaises(p)

ProcStep(p) == (ResumeStep(p) \/ CallStep(p)) /\ UNCHANGED sweepVars /\ UNCHANGED aborts

SweepsStep(s) ==
    /\ \/ ExpireStaleSelect(s) /\ UNCHANGED callVars
       \/ ExpireStaleUpdate(s) /\ UNCHANGED callVars
       \/ \E a \in Approval : AnnounceLapse(s, a)
    /\ UNCHANGED aborts

Next ==
    \/ \E a \in Approval : RunStep(a) /\ UNCHANGED sweepVars /\ UNCHANGED aborts
    \/ \E p \in Proc : Begin(p) /\ UNCHANGED sweepVars /\ UNCHANGED aborts
    \/ \E p \in Proc : ProcStep(p)
    \/ \E p \in Proc : Aborts(p)
    \/ \E s \in Sweeper : SweepsStep(s)
    \/ \E s \in Sweeper : SweepAborts(s) /\ UNCHANGED callVars

Spec == Init /\ [][Next]_vars

(* A process that is not cut off runs to its end: a request handler or a    *)
(* command never waits for anything but the owner's answer. The sweeps run  *)
(* every minute, in a scheduler that survives a failed one.                 *)
FairSpec ==
    /\ Spec
    /\ \A p \in Proc : WF_vars(ProcStep(p))
    /\ \A s \in Sweeper : WF_vars(SweepsStep(s))

-----------------------------------------------------------------------------
(* Properties. *)

(* Every variable holds a value of its type. *)
TypeOK ==
    /\ QueueTypeOK
    /\ risky \in [Approval -> BOOLEAN]
    /\ stored \in [Approval -> BOOLEAN]
    /\ pc \in [Proc -> Pc]
    /\ cur \in [Proc -> Approval \union {None}]
    /\ att \in [Proc -> Call \union {None}]
    /\ res \in [Proc -> Outcome]
    /\ todo \in [Proc -> SUBSET Call]
    /\ blind \in [Proc -> SUBSET Call]
    /\ refuse \in [Proc -> BOOLEAN]
    /\ callOf \in [Call -> Approval \union {None}]
    /\ ledger \in [Call -> RowState]
    /\ probed \in [Call -> BOOLEAN]
    /\ effect \in SUBSET Call
    /\ lost \in SUBSET Call
    /\ runs \in [Approval -> Nat]
    /\ told \in [Approval -> SUBSET (Outcome \union {"rejected", "expired"})]
    /\ raised \in SUBSET Approval
    /\ continued \in SUBSET Approval

(* An approved code caller's call runs at most once, however it is answered, *)
(* retried or replayed (service.py, _settle_deferred_call).                  *)
DeferredRunsOnce == \A a \in Approval : kind[a] = "deferred" => runs[a] <= 1

(* Nothing an approval pins runs unless the owner approved it, whatever a    *)
(* sweep, a late answer or an `evarness run resume` does in between.         *)
RunsOnlyApproved ==
    \A a \in Approval : runs[a] > 0 => status[a] = "approved" /\ kind[a] # "halt"

(* A high-risk call that may have changed something has a durable row: a     *)
(* process that dies at any later point leaves evidence of it.               *)
EffectHasRow ==
    \A c \in effect : risky[callOf[c]] => ledger[c] # "none"

(* A row says completed only of a call whose tool was invoked, and its       *)
(* probe is only ever set on such a row.                                     *)
CompletedDidRun ==
    \A c \in Call : ledger[c] = "completed" \/ probed[c] => c \in effect

(* No row stays pending behind a call that was refused, withdrawn or done:   *)
(* some process is still at it, or it was cut off.                           *)
NoOrphanRow ==
    \A c \in Call :
        ledger[c] = "pending" =>
            c \in lost \/ \E p \in Proc : att[p] = c /\ pc[p] \in InFlight

(* What the caller is told on approval.call_completed can be relied on this  *)
(* far: told ran, its call was invoked, once; told rejected, it never was    *)
(* nor will be, and no later event says it ran, failed or was denied; told   *)
(* expired, the request is past its deadline and settled. The answers may be *)
(* several and disagree: a replay is told denied of a call that ran, and a   *)
(* sweep that read the row before the owner answered it adds expired.        *)
ToldTheTruth ==
    \A a \in Approval :
        /\ "ran" \in told[a] => runs[a] = 1
        /\ "rejected" \in told[a] => runs[a] = 0 /\ told[a] \intersect Outcome = {}
        /\ "expired" \in told[a] => overdue[a] /\ status[a] \in Settled

(* Nothing steps past an open approval: no pinned call runs and no halted    *)
(* run continues while its approval is pending (main.py, run resume).        *)
OpenApprovalStops ==
    [][\A a \in Approval :
          status[a] \in {"none", "pending"} =>
              runs'[a] = runs[a] /\ (a \in continued' => a \in continued)]_vars

(* For code callers the uses of the contract are invocations of the tool. *)
CallContract == INSTANCE ApprovalContract
    WITH decision <- status,
         uses <- [a \in Approval |-> IF kind[a] = "deferred" THEN runs[a] ELSE 0]

(* Claim, replay, resume and sweep together still keep the approval          *)
(* contract: a deferred call is invoked once at most, after its approval.    *)
CallsKeepContract == CallContract!Spec

(* The caller of an approved deferred call hears of it in the end: ran,      *)
(* failed or denied goes out on approval.call_completed, unless the executor *)
(* itself raised or the process died. Then no event says so.                 *)
ApprovedIsReported ==
    \A a \in Approval :
        kind[a] = "deferred" /\ status[a] = "approved"
            ~> (told[a] \intersect Outcome # {} \/ a \in raised \/ aborts > 0)

(* A write-ahead row is settled in the end, unless its call was cut off. *)
RowSettles ==
    \A c \in Call : ledger[c] = "pending" ~> (ledger[c] # "pending" \/ c \in lost)

(* What store.respond's comment says: nothing an approval gates can be set   *)
(* off twice by one decision. Here, of a run's own approvals.                *)
LoopRunsOnce == \A a \in Approval : kind[a] = "loop" => runs[a] <= 1
=============================================================================
