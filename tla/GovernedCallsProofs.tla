------------------------ MODULE GovernedCallsProofs ------------------------
(***************************************************************************)
(* Theorems about ApprovalQueue and GovernedCalls, for any number of       *)
(* approvals, processes, calls, sweeps and aborts.                         *)
(*                                                                         *)
(* The queue comes first: its invariant is a part of the composition's.    *)
(*                                                                         *)
(* The calls: a call is cleared for its tool only by a process that passed *)
(* Verify on an approved row, and for a code caller's row Verify takes the *)
(* one claim. So of all the processes working on such a row one at most    *)
(* stands between the claim and the invocation, and once the tool was      *)
(* invoked none does (ClaimHeld). The side-effect ledger's part rests on   *)
(* calls being told apart: two processes never run the same call           *)
(* (CallsApart), so where its process stands says what its row must hold   *)
(* (CallRecord), and what a reader was told which call it was (ToldWhom).  *)
(***************************************************************************)
EXTENDS GovernedCalls, TLAPS

-----------------------------------------------------------------------------
(* The approval queue.                                                     *)

(* What the invariants need to be inductive: the rows a sweep has read are   *)
(* past their deadline and do exist, and once its UPDATE is done they are    *)
(* all settled, by this sweep or by whoever got there first.                 *)
DueIsOver ==
    \A s \in Sweeper : \A a \in due[s] :
        /\ overdue[a] /\ status[a] # "none"
        /\ sweep[s] = "announcing" => status[a] \in Settled

QueueInv ==
    /\ QueueTypeOK
    /\ ClaimedIsApproved
    /\ DueIsOver
    /\ AnnouncedIsOver
    /\ LapseIsAccountedFor

(* A step of one row leaves the sweeps alone. *)
RowNext(a) == RowStep(a) /\ UNCHANGED sweepVars /\ UNCHANGED aborts

-----------------------------------------------------------------------------
(* A queue with no rows satisfies every part of the invariant. *)
LEMMA QueueInvInit == QueueInit => QueueInv
  BY AbortsAssumption
  DEF QueueInit, QueueInv, QueueTypeOK, ClaimedIsApproved, DueIsOver, AnnouncedIsOver,
      LapseIsAccountedFor, Status, Settled, Answer, Kind, SweepState

(* Every statement writes values of the columns' types. *)
LEMMA QueueTypeStep == QueueTypeOK /\ [QueueNext]_queueVars => QueueTypeOK'
<1> SUFFICES ASSUME QueueTypeOK, [QueueNext]_queueVars
             PROVE  QueueTypeOK'
  OBVIOUS
<1> USE DEF QueueTypeOK
<1>1. ASSUME NEW a \in Approval, RowNext(a)
      PROVE  QueueTypeOK'
  <2>1. ASSUME NEW k \in Kind, Enqueue(a, k)
        PROVE  QueueTypeOK'
    BY <1>1, <2>1 DEF RowNext, Enqueue, sweepVars, Status, Settled, Answer
  <2>2. CASE DeadlinePasses(a)
    BY <1>1, <2>2 DEF RowNext, DeadlinePasses, sweepVars
  <2>3. ASSUME NEW ans \in Answer, Respond(a, ans)
        PROVE  QueueTypeOK'
    BY <1>1, <2>3 DEF RowNext, Respond, sweepVars, Status, Settled, Answer
  <2>4. CASE ClaimExecution(a)
    BY <1>1, <2>4 DEF RowNext, ClaimExecution, sweepVars
  <2>5. CASE SetCheckpoint(a)
    BY <1>1, <2>5 DEF RowNext, SetCheckpoint, sweepVars
  <2>6. QED
    BY <1>1, <2>1, <2>2, <2>3, <2>4, <2>5 DEF RowNext, RowStep
<1>2. ASSUME NEW s \in Sweeper, SweepStep(s), UNCHANGED aborts
      PROVE  QueueTypeOK'
  <2>1. CASE ExpireStaleSelect(s)
    <3>1. Overdue \in SUBSET Approval
      BY DEF Overdue
    <3>2. QED
      BY <1>2, <2>1, <3>1 DEF ExpireStaleSelect, SweepState
  <2>2. CASE ExpireStaleUpdate(s)
    BY <1>2, <2>2 DEF ExpireStaleUpdate, SweepState, Status, Settled
  <2>3. ASSUME NEW a \in Approval, SweepAnnounce(s, a)
        PROVE  QueueTypeOK'
    BY <1>2, <2>3 DEF SweepAnnounce, SweepState
  <2>4. QED
    BY <1>2, <2>1, <2>2, <2>3 DEF SweepStep
<1>3. ASSUME NEW s \in Sweeper, SweepAborts(s)
      PROVE  QueueTypeOK'
  BY <1>3, AbortsAssumption DEF SweepAborts, SweepState
<1>4. CASE UNCHANGED queueVars
  BY <1>4 DEF queueVars
<1>5. QED
  BY <1>1, <1>2, <1>3, <1>4 DEF QueueNext, RowNext

(* Every statement keeps the whole invariant. Enqueue, respond and claim are *)
(* conditional updates; the sweeps are where a row can change between the    *)
(* moment it is read and the moment it is written or announced.              *)
LEMMA QueueInvStep == QueueInv /\ [QueueNext]_queueVars => QueueInv'
<1> SUFFICES ASSUME QueueInv, [QueueNext]_queueVars
             PROVE  QueueInv'
  OBVIOUS
<1>0. QueueTypeOK /\ QueueTypeOK'
  BY QueueTypeStep DEF QueueInv
<1> USE DEF QueueInv
<1>1. ASSUME NEW a \in Approval, RowNext(a)
      PROVE  QueueInv'
  <2>1. ASSUME NEW k \in Kind, Enqueue(a, k)
        PROVE  QueueInv'
    BY <1>0, <1>1, <2>1
    DEF RowNext, Enqueue, sweepVars, QueueTypeOK, ClaimedIsApproved, DueIsOver,
        AnnouncedIsOver, LapseIsAccountedFor, Settled, Answer
  <2>2. CASE DeadlinePasses(a)
    BY <1>0, <1>1, <2>2
    DEF RowNext, DeadlinePasses, sweepVars, QueueTypeOK, ClaimedIsApproved, DueIsOver,
        AnnouncedIsOver, LapseIsAccountedFor
  <2>3. ASSUME NEW ans \in Answer, Respond(a, ans)
        PROVE  QueueInv'
    BY <1>0, <1>1, <2>3
    DEF RowNext, Respond, sweepVars, QueueTypeOK, ClaimedIsApproved, DueIsOver,
        AnnouncedIsOver, LapseIsAccountedFor, Settled, Answer
  <2>4. CASE ClaimExecution(a)
    BY <1>0, <1>1, <2>4
    DEF RowNext, ClaimExecution, Claimable, sweepVars, QueueTypeOK, ClaimedIsApproved,
        DueIsOver, AnnouncedIsOver, LapseIsAccountedFor
  <2>5. CASE SetCheckpoint(a)
    BY <1>0, <1>1, <2>5
    DEF RowNext, SetCheckpoint, sweepVars, ClaimedIsApproved, DueIsOver, AnnouncedIsOver,
        LapseIsAccountedFor
  <2>6. QED
    BY <1>1, <2>1, <2>2, <2>3, <2>4, <2>5 DEF RowNext, RowStep
<1>2. ASSUME NEW s \in Sweeper, SweepStep(s), UNCHANGED aborts
      PROVE  QueueInv'
  <2>1. CASE ExpireStaleSelect(s)
    <3>1. DueIsOver'
      BY <1>0, <2>1 DEF ExpireStaleSelect, Overdue, DueIsOver, QueueTypeOK
    <3>2. LapseIsAccountedFor'
      BY <1>0, <1>2, <2>1 DEF ExpireStaleSelect, LapseIsAccountedFor, QueueTypeOK
    <3>3. ClaimedIsApproved' /\ AnnouncedIsOver'
      BY <2>1 DEF ExpireStaleSelect, ClaimedIsApproved, AnnouncedIsOver
    <3>4. QED
      BY <1>0, <3>1, <3>2, <3>3
  <2>2. CASE ExpireStaleUpdate(s)
    <3>1. DueIsOver'
      BY <1>0, <2>2 DEF ExpireStaleUpdate, DueIsOver, QueueTypeOK, Status, Settled
    <3>2. LapseIsAccountedFor'
      BY <1>0, <1>2, <2>2 DEF ExpireStaleUpdate, LapseIsAccountedFor, QueueTypeOK
    <3>3. ClaimedIsApproved' /\ AnnouncedIsOver'
      BY <1>0, <2>2 DEF ExpireStaleUpdate, ClaimedIsApproved, AnnouncedIsOver, QueueTypeOK,
                        Settled, Answer
    <3>4. QED
      BY <1>0, <3>1, <3>2, <3>3
  <2>3. ASSUME NEW a \in Approval, SweepAnnounce(s, a)
        PROVE  QueueInv'
    <3>1. DueIsOver'
      BY <1>0, <2>3 DEF SweepAnnounce, DueIsOver, QueueTypeOK
    <3>2. AnnouncedIsOver'
      BY <1>0, <2>3 DEF SweepAnnounce, DueIsOver, AnnouncedIsOver, QueueTypeOK
    <3>3. LapseIsAccountedFor'
      BY <1>0, <1>2, <2>3 DEF SweepAnnounce, LapseIsAccountedFor, QueueTypeOK
    <3>4. ClaimedIsApproved'
      BY <2>3 DEF SweepAnnounce, ClaimedIsApproved
    <3>5. QED
      BY <1>0, <3>1, <3>2, <3>3, <3>4
  <2>4. QED
    BY <1>2, <2>1, <2>2, <2>3 DEF SweepStep
<1>3. ASSUME NEW s \in Sweeper, SweepAborts(s)
      PROVE  QueueInv'
  <2>1. DueIsOver'
    BY <1>0, <1>3 DEF SweepAborts, DueIsOver, QueueTypeOK
  <2>2. ClaimedIsApproved' /\ AnnouncedIsOver'
    BY <1>3 DEF SweepAborts, ClaimedIsApproved, AnnouncedIsOver
  <2>3. LapseIsAccountedFor'
    BY <1>0, <1>3, AbortsAssumption DEF SweepAborts, LapseIsAccountedFor, QueueTypeOK
  <2>4. QED
    BY <1>0, <2>1, <2>2, <2>3
<1>4. CASE UNCHANGED queueVars
  BY <1>0, <1>4 DEF queueVars, ClaimedIsApproved, DueIsOver, AnnouncedIsOver,
                    LapseIsAccountedFor
<1>5. QED
  BY <1>1, <1>2, <1>3, <1>4 DEF QueueNext, RowNext

(* The invariant holds in every state the queue can reach. *)
LEMMA QueueInvariant == QueueSpec => []QueueInv
  BY QueueInvInit, QueueInvStep, PTL DEF QueueSpec

-----------------------------------------------------------------------------
(* Every column and every sweep variable keeps its type. *)
THEOREM QueueTypeCorrect == QueueSpec => []QueueTypeOK
<1>1. QueueInv => QueueTypeOK
  BY DEF QueueInv
<1>2. QED
  BY <1>1, QueueInvariant, PTL

(* However responders, claimants and sweeps race, a row that was claimed is  *)
(* an approved row: claim_execution and expire_stale exclude each other.     *)
THEOREM OnlyApprovedIsClaimed == QueueSpec => []ClaimedIsApproved
<1>1. QueueInv => ClaimedIsApproved
  BY DEF QueueInv
<1>2. QED
  BY <1>1, QueueInvariant, PTL

(* sweep_expired never announces a request that is still open, although it   *)
(* announces what it read before its UPDATE.                                 *)
THEOREM OpenIsNeverAnnounced == QueueSpec => []AnnouncedIsOver
<1>1. QueueInv => AnnouncedIsOver
  BY DEF QueueInv
<1>2. QED
  BY <1>1, QueueInvariant, PTL

(* No row times out in silence unless a sweep was cut off: whoever updated   *)
(* it has announced it or is about to.                                       *)
THEOREM NoSilentLapse == QueueSpec => []LapseIsAccountedFor
<1>1. QueueInv => LapseIsAccountedFor
  BY DEF QueueInv
<1>2. QED
  BY <1>1, QueueInvariant, PTL

(* A settled status and a claim are never taken back by any statement.       *)
THEOREM DecisionsAreFinal == QueueSpec => DecidedForGood
<1> DEFINE Final == \A a \in Approval :
          /\ status[a] \in Settled => status'[a] = status[a]
          /\ status[a] = "pending" => status'[a] # "none"
          /\ executed[a] => executed'[a]
<1>1. ASSUME QueueTypeOK, [QueueNext]_queueVars
      PROVE  Final
  <2> USE <1>1 DEF QueueTypeOK
  <2>1. ASSUME NEW a \in Approval, RowNext(a)
        PROVE  Final
    <3>1. ASSUME NEW k \in Kind, Enqueue(a, k)
          PROVE  Final
      BY <3>1 DEF Enqueue, Settled, Answer
    <3>2. CASE DeadlinePasses(a)
      BY <3>2 DEF DeadlinePasses, Settled, Answer
    <3>3. ASSUME NEW ans \in Answer, Respond(a, ans)
          PROVE  Final
      BY <3>3 DEF Respond, Settled, Answer
    <3>4. CASE ClaimExecution(a)
      BY <3>4 DEF ClaimExecution, Settled, Answer
    <3>5. CASE SetCheckpoint(a)
      BY <3>5 DEF SetCheckpoint, Settled, Answer
    <3>6. QED
      BY <2>1, <3>1, <3>2, <3>3, <3>4, <3>5 DEF RowNext, RowStep
  <2>2. ASSUME NEW s \in Sweeper, SweepStep(s)
        PROVE  Final
    <3>1. CASE ExpireStaleSelect(s)
      BY <3>1 DEF ExpireStaleSelect
    <3>2. CASE ExpireStaleUpdate(s)
      BY <3>2 DEF ExpireStaleUpdate, Settled, Answer
    <3>3. ASSUME NEW a \in Approval, SweepAnnounce(s, a)
          PROVE  Final
      BY <3>3 DEF SweepAnnounce
    <3>4. QED
      BY <2>2, <3>1, <3>2, <3>3 DEF SweepStep
  <2>3. ASSUME NEW s \in Sweeper, SweepAborts(s)
        PROVE  Final
    BY <2>3 DEF SweepAborts
  <2>4. CASE UNCHANGED queueVars
    BY <2>4 DEF queueVars
  <2>5. QED
    BY <1>1, <2>1, <2>2, <2>3, <2>4 DEF QueueNext, RowNext
<1>2. QED
  BY <1>1, QueueTypeCorrect, PTL DEF QueueSpec, DecidedForGood

-----------------------------------------------------------------------------
(* The queue implements the approval contract: an approval is decided once,  *)
(* used only when approved and used once, for any number of racing           *)
(* responders, claimants and sweeps.                                         *)
THEOREM QueueImplementsContract == QueueSpec => QueueKeepsContract
<1> DEFINE C == QueueContract!Next \/ UNCHANGED QueueContract!contractVars
<1>1. QueueInit => QueueContract!Init
  BY DEF QueueInit, QueueContract!Init
<1>2. ASSUME QueueTypeOK, [QueueNext]_queueVars
      PROVE  [QueueContract!Next]_(QueueContract!contractVars)
  <2> USE <1>2 DEF QueueTypeOK
  <2>1. ASSUME NEW a \in Approval, RowNext(a)
        PROVE  C
    <3>1. ASSUME NEW k \in Kind, Enqueue(a, k)
          PROVE  QueueContract!Ask(a)
      BY <3>1 DEF Enqueue, QueueContract!Ask
    <3>2. CASE DeadlinePasses(a)
      BY <3>2 DEF DeadlinePasses, QueueContract!contractVars
    <3>3. ASSUME NEW ans \in Answer, Respond(a, ans)
          PROVE  QueueContract!Decide(a, ans)
      BY <3>3 DEF Respond, QueueContract!Decide
    <3>4. CASE ClaimExecution(a)
      <4>1. QueueContract!Use(a)
        BY <3>4 DEF ClaimExecution, Claimable, QueueContract!Use
      <4>2. QED
        BY <4>1 DEF QueueContract!Next
    <3>5. CASE SetCheckpoint(a)
      BY <3>5 DEF SetCheckpoint, QueueContract!contractVars
    <3>6. QED
      BY <2>1, <3>1, <3>2, <3>3, <3>4, <3>5 DEF RowNext, RowStep, QueueContract!Next, Answer
  <2>2. ASSUME NEW s \in Sweeper, SweepStep(s)
        PROVE  C
    <3>1. CASE ExpireStaleSelect(s)
      BY <3>1 DEF ExpireStaleSelect, QueueContract!contractVars
    <3>2. CASE ExpireStaleUpdate(s)
      <4> DEFINE S == {a \in due[s] : status[a] = "pending"}
      <4>1. S \in SUBSET QueueContract!Pending
        BY DEF QueueContract!Pending
      <4>2. QueueContract!Lapse(S)
        BY <3>2 DEF ExpireStaleUpdate, QueueContract!Lapse
      <4>3. QED
        BY <4>1, <4>2 DEF QueueContract!Next
    <3>3. ASSUME NEW a \in Approval, SweepAnnounce(s, a)
          PROVE  C
      BY <3>3 DEF SweepAnnounce, QueueContract!contractVars
    <3>4. QED
      BY <2>2, <3>1, <3>2, <3>3 DEF SweepStep
  <2>3. ASSUME NEW s \in Sweeper, SweepAborts(s)
        PROVE  C
    BY <2>3 DEF SweepAborts, QueueContract!contractVars
  <2>4. CASE UNCHANGED queueVars
    BY <2>4 DEF queueVars, QueueContract!contractVars
  <2>5. QED
    BY <1>2, <2>1, <2>2, <2>3, <2>4 DEF QueueNext, RowNext
<1>3. QED
  BY <1>1, <1>2, QueueTypeCorrect, PTL DEF QueueSpec, QueueKeepsContract, QueueContract!Spec

-----------------------------------------------------------------------------
(* The governed calls.                                                     *)

Calling == {"pre", "verified", "recorded", "cleared", "post", "settling"}
Granted == {"verified", "recorded", "cleared"}  \* past Verify, before the tool

(* A process that is at work works on a row that exists, with a call of its *)
(* own minted for that row.                                                 *)
AtWork ==
    \A p \in Proc :
        /\ pc[p] # "idle" => cur[p] \in Approval
        /\ cur[p] \in Approval => status[cur[p]] # "none"
        /\ pc[p] \in Calling => att[p] \in Call /\ callOf[att[p]] = cur[p]
        /\ pc[p] = "executing" => status[cur[p]] = "approved" /\ kind[cur[p]] = "deferred"
        /\ pc[p] \in Calling =>
              status[cur[p]] = "approved" /\ kind[cur[p]] # "halt"
        /\ pc[p] = "telling" => status[cur[p]] = "approved" /\ kind[cur[p]] = "deferred"

CallsApart ==
    \A p, q \in Proc :
        p # q /\ pc[p] \in Calling /\ pc[q] \in Calling => att[p] # att[q]

(* Checkpoints and calls belong to rows that exist. *)
Belongs ==
    /\ \A a \in Approval : stored[a] => status[a] # "none"
    /\ \A c \in Call : callOf[c] \in Approval => status[callOf[c]] # "none"
    /\ \A c \in effect : callOf[c] \in Approval

(* Between its claim and its tool a code caller's call has one holder. *)
ClaimHeld ==
    /\ \A p \in Proc :
          pc[p] \in Granted /\ kind[cur[p]] = "deferred" =>
              executed[cur[p]] /\ runs[cur[p]] = 0
    /\ \A p, q \in Proc :
          /\ p # q /\ pc[p] \in Granted /\ pc[q] \in Granted
          /\ kind[cur[p]] = "deferred"
          => cur[p] # cur[q]
    /\ \A a \in Approval :
          kind[a] = "deferred" /\ runs[a] > 0 => executed[a] /\ runs[a] = 1

CallPart == AtWork /\ CallsApart /\ Belongs /\ ClaimHeld /\ RunsOnlyApproved

CallInv == QueueInv /\ TypeOK /\ CallPart

-----------------------------------------------------------------------------
(* An idle system satisfies the invariant. *)
LEMMA CallInvInit == Init => CallInv
<1> SUFFICES ASSUME Init PROVE CallInv
  OBVIOUS
<1>1. QueueInv /\ QueueTypeOK
  BY QueueInvInit DEF Init, QueueInv
<1>2. TypeOK
  BY <1>1 DEF Init, TypeOK, Pc, Outcome, RowState
<1>3. AtWork /\ CallsApart /\ Belongs /\ ClaimHeld /\ RunsOnlyApproved
  BY NoneAssumption
  DEF Init, AtWork, CallsApart, Belongs, ClaimHeld, RunsOnlyApproved, Calling, Granted
<1>4. QED
  BY <1>1, <1>2, <1>3 DEF CallInv, CallPart

(* Seen from the queue, a step of the system is a step of the queue, no step *)
(* at all, or an abort counted: every write to a row goes through the queue. *)
LEMMA StepOnQueue ==
  ASSUME TypeOK, AtWork, [Next]_vars
  PROVE  \/ [QueueNext]_queueVars
         \/ aborts < MaxAborts /\ aborts' = aborts + 1 /\ UNCHANGED <<rowVars, sweepVars>>
<1> DEFINE Seen == \/ [QueueNext]_queueVars
                   \/ aborts < MaxAborts /\ aborts' = aborts + 1
                         /\ UNCHANGED <<rowVars, sweepVars>>
<1>1. ASSUME NEW a \in Approval, RunStep(a), UNCHANGED sweepVars, UNCHANGED aborts
      PROVE  Seen
  <2>1. ASSUME NEW k \in Kind, NEW r \in BOOLEAN, Request(a, k, r)
        PROVE  RowStep(a)
    BY <2>1 DEF Request, RowStep
  <2>2. DeadlinePasses(a) \/ LinkCheckpoint(a) => RowStep(a)
    BY DEF LinkCheckpoint, RowStep
  <2>3. CASE WriteCheckpoint(a) \/ CheckpointRemoved(a)
    BY <1>1, <2>3 DEF WriteCheckpoint, CheckpointRemoved, queueVars, rowVars, sweepVars
  <2>4. QED
    BY <1>1, <2>1, <2>2, <2>3 DEF RunStep, QueueNext
<1>2. ASSUME NEW p \in Proc, Begin(p), UNCHANGED sweepVars, UNCHANGED aborts
      PROVE  Seen
  <2>1. ASSUME NEW a \in Approval, NEW ans \in Answer, NEW runtime \in BOOLEAN,
               RespondToApproval(p, a, ans, runtime)
        PROVE  Seen
    <3>1. RowStep(a)
      BY <2>1 DEF RespondToApproval, RowStep
    <3>2. QED
      BY <1>2, <3>1 DEF QueueNext
  <2>2. ASSUME NEW a \in Approval, ExecuteApprovedCall(p, a) \/ RunResume(p, a)
        PROVE  UNCHANGED queueVars
    BY <1>2, <2>2 DEF ExecuteApprovedCall, RunResume, queueVars, rowVars, sweepVars
  <2>3. QED
    BY <1>2, <2>1, <2>2 DEF Begin
<1>3. ASSUME NEW p \in Proc, ProcStep(p)
      PROVE  Seen
  <2>1. CASE Verify(p) /\ kind[cur[p]] = "deferred"
    <3>1. cur[p] \in Approval
      BY <2>1 DEF Verify, AtWork
    <3>2. RowStep(cur[p])
      BY <2>1 DEF Verify, RowStep
    <3>3. QED
      BY <1>3, <3>1, <3>2 DEF ProcStep, QueueNext
  <2>2. CASE Verify(p) /\ kind[cur[p]] # "deferred"
    BY <1>3, <2>2 DEF Verify, ProcStep, queueVars, rowVars, sweepVars
  <2>3. CASE ResumeStep(p)
    <3>1. UNCHANGED rowVars
      BY <2>3 DEF ResumeStep, RunProbe, Gate, AwaitApproval, ResumeWithoutCall, ResumeFails
    <3>2. QED
      BY <1>3, <3>1 DEF ProcStep, queueVars, rowVars, sweepVars
  <2>4. CASE CallStep(p) /\ ~Verify(p)
    <3>1. UNCHANGED rowVars
      BY <2>4 DEF CallStep, ResumeWithCall, RunApproved, Refused, WriteAhead, Cleared, Withdrawn,
                  InvokeTool, PostReadsRow, SettleRow, SettleFails, TellOutcome,
                  ExecutorRaises
    <3>2. QED
      BY <1>3, <3>1 DEF ProcStep, queueVars, rowVars, sweepVars
  <2>5. QED
    BY <1>3, <2>1, <2>2, <2>3, <2>4 DEF ProcStep
<1>4. ASSUME NEW p \in Proc, Aborts(p)
      PROVE  Seen
  BY <1>4 DEF Aborts
<1>5. ASSUME NEW s \in Sweeper, SweepsStep(s)
      PROVE  Seen
  <2>1. SweepStep(s)
    BY <1>5 DEF SweepsStep, SweepStep, AnnounceLapse
  <2>2. QED
    BY <1>5, <2>1 DEF SweepsStep, QueueNext
<1>6. ASSUME NEW s \in Sweeper, SweepAborts(s)
      PROVE  Seen
  BY <1>6 DEF QueueNext
<1>7. CASE UNCHANGED vars
  BY <1>7 DEF vars, queueVars
<1>8. QED
  BY <1>1, <1>2, <1>3, <1>4, <1>5, <1>6, <1>7 DEF Next

(* The queue's own invariant survives whatever is done with the approvals. *)
LEMMA QueueInvKept ==
  ASSUME QueueInv, TypeOK, AtWork, [Next]_vars
  PROVE  QueueInv'
<1>1. CASE [QueueNext]_queueVars
  BY <1>1, QueueInvStep
<1>2. CASE aborts < MaxAborts /\ aborts' = aborts + 1 /\ UNCHANGED <<rowVars, sweepVars>>
  BY <1>2, AbortsAssumption
  DEF rowVars, sweepVars, QueueInv, QueueTypeOK, ClaimedIsApproved, DueIsOver,
      AnnouncedIsOver, LapseIsAccountedFor
<1>3. QED
  BY <1>1, <1>2, StepOnQueue

(* A process that returns knows nothing more; the others are as they were. *)
LEMMA ReturnsTyped ==
  ASSUME TypeOK, NEW p \in Proc, Returns(p)
  PROVE  /\ pc' \in [Proc -> Pc] /\ cur' \in [Proc -> Approval \union {None}]
         /\ att' \in [Proc -> Call \union {None}] /\ res' \in [Proc -> Outcome]
         /\ todo' \in [Proc -> SUBSET Call] /\ blind' \in [Proc -> SUBSET Call]
         /\ refuse' \in [Proc -> BOOLEAN]
         /\ pc'[p] = "idle" /\ cur'[p] = None /\ todo'[p] = {}
         /\ \A q \in Proc : q # p =>
               /\ pc'[q] = pc[q] /\ cur'[q] = cur[q] /\ att'[q] = att[q]
               /\ res'[q] = res[q] /\ todo'[q] = todo[q] /\ blind'[q] = blind[q]
<1>1. pc' \in [Proc -> Pc] /\ pc'[p] = "idle" /\ \A q \in Proc : q # p => pc'[q] = pc[q]
  BY DEF TypeOK, Returns, Pc
<1>2. /\ cur' \in [Proc -> Approval \union {None}] /\ cur'[p] = None
      /\ \A q \in Proc : q # p => cur'[q] = cur[q]
  BY DEF TypeOK, Returns
<1>3. /\ att' \in [Proc -> Call \union {None}]
      /\ \A q \in Proc : q # p => att'[q] = att[q]
  BY DEF TypeOK, Returns
<1>4. res' \in [Proc -> Outcome] /\ \A q \in Proc : q # p => res'[q] = res[q]
  BY DEF TypeOK, Returns, Outcome
<1>5. /\ todo' \in [Proc -> SUBSET Call] /\ todo'[p] = {}
      /\ \A q \in Proc : q # p => todo'[q] = todo[q]
  BY DEF TypeOK, Returns
<1>6. /\ blind' \in [Proc -> SUBSET Call] /\ refuse' \in [Proc -> BOOLEAN]
      /\ \A q \in Proc : q # p => blind'[q] = blind[q]
  BY DEF TypeOK, Returns
<1>7. QED
  BY <1>1, <1>2, <1>3, <1>4, <1>5, <1>6

LEMMA EndsTyped ==
  ASSUME TypeOK, NEW p \in Proc, NEW outcome \in Outcome, Ends(p, outcome)
  PROVE  /\ pc' \in [Proc -> Pc] /\ cur' \in [Proc -> Approval \union {None}]
         /\ att' \in [Proc -> Call \union {None}] /\ res' \in [Proc -> Outcome]
         /\ todo' \in [Proc -> SUBSET Call] /\ blind' \in [Proc -> SUBSET Call]
         /\ refuse' \in [Proc -> BOOLEAN]
<1>1. CASE Returns(p)
  BY <1>1, ReturnsTyped
<1>2. CASE ~Returns(p)
  <2>1. /\ pc' = [pc EXCEPT ![p] = "telling"] /\ res' = [res EXCEPT ![p] = outcome]
        /\ UNCHANGED <<cur, att, todo, blind, refuse>>
    BY <1>2 DEF Ends
  <2>2. "telling" \in Pc
    BY DEF Pc
  <2> QED
    BY <2>1, <2>2 DEF TypeOK
<1> QED
  BY <1>1, <1>2

(* Every step writes values of the variables' types. *)
LEMMA CallTypeStep ==
  ASSUME TypeOK, QueueTypeOK', AtWork, [Next]_vars
  PROVE  TypeOK'
<1> USE DEF TypeOK
<1>1. ASSUME NEW a \in Approval, RunStep(a), UNCHANGED sweepVars, UNCHANGED aborts
      PROVE  TypeOK'
  BY <1>1 DEF RunStep, Request, WriteCheckpoint, StoreCheckpoint, CheckpointRemoved, LinkCheckpoint,
              callVars, procVars, ledgerVars
<1>2. ASSUME NEW p \in Proc, Begin(p), UNCHANGED sweepVars, UNCHANGED aborts
      PROVE  TypeOK'
  <2>1. ASSUME NEW a \in Approval, NEW ans \in Answer, NEW runtime \in BOOLEAN,
               RespondToApproval(p, a, ans, runtime)
        PROVE  TypeOK'
    BY <2>1 DEF RespondToApproval, StartsOn, LeadsTo, ledgerVars, Pc
  <2>2. ASSUME NEW a \in Approval, ExecuteApprovedCall(p, a)
        PROVE  TypeOK'
    BY <2>2 DEF ExecuteApprovedCall, StartsOn, ledgerVars, Pc
  <2>3. ASSUME NEW a \in Approval, RunResume(p, a)
        PROVE  TypeOK'
    BY <2>3 DEF RunResume, Unsettled, ledgerVars, Pc
  <2>4. QED
    BY <1>2, <2>1, <2>2, <2>3 DEF Begin
<1>3. ASSUME NEW p \in Proc, ResumeStep(p)
      PROVE  TypeOK'
  <2>1. ASSUME NEW c \in Call, NEW found \in RowState, RunProbe(p, c, found)
        PROVE  TypeOK'
    <3>1. CASE Returns(p)
      BY <2>1, <3>1, ReturnsTyped DEF RunProbe
    <3>2. CASE ~Returns(p)
      <4>1. refuse' = [refuse EXCEPT ![p] = refuse[p] \/ found = "ambiguous"]
        BY <2>1, <3>2 DEF RunProbe
      <4>2. refuse' \in [Proc -> BOOLEAN]
        BY <4>1
      <4>3. pc' \in [Proc -> Pc] /\ todo' \in [Proc -> SUBSET Call]
        BY <2>1, <3>2 DEF RunProbe, Pc
      <4>4. QED
        BY <2>1, <3>2, <4>2, <4>3 DEF RunProbe
    <3>3. QED
      BY <3>1, <3>2
  <2>2. ASSUME NEW wait \in BOOLEAN, Gate(p, wait)
        PROVE  TypeOK'
    <3>1. CASE Returns(p)
      BY <2>2, <3>1, ReturnsTyped DEF Gate, ledgerVars
    <3>2. CASE ~Returns(p)
      BY <2>2, <3>2 DEF Gate, Goes, ledgerVars, Pc
    <3> QED
      BY <3>1, <3>2
  <2>3. CASE AwaitApproval(p)
    <3>1. CASE Returns(p)
      BY <2>3, <3>1, ReturnsTyped DEF AwaitApproval, ledgerVars
    <3>2. CASE Goes(p, "resuming")
      BY <2>3, <3>2 DEF AwaitApproval, Goes, ledgerVars, Pc
    <3>3. QED
      BY <2>3, <3>1, <3>2 DEF AwaitApproval
  <2>4. CASE ResumeWithoutCall(p)
    <3>1. continued' \in SUBSET Approval
      BY <2>4 DEF ResumeWithoutCall, AtWork
    <3> QED
      BY <2>4, <3>1, ReturnsTyped DEF ResumeWithoutCall, ledgerVars
  <2>5. CASE ResumeFails(p)
    BY <2>5, ReturnsTyped DEF ResumeFails, ledgerVars
  <2>6. QED
    BY <1>3, <2>1, <2>2, <2>3, <2>4, <2>5 DEF ResumeStep
<1>4. ASSUME NEW p \in Proc, CallStep(p)
      PROVE  TypeOK'
  <2>1. ASSUME NEW c \in Call, ResumeWithCall(p, c) \/ RunApproved(p, c)
        PROVE  TypeOK'
    BY <2>1 DEF ResumeWithCall, RunApproved, Mint, Pc
  <2>2. CASE Refused(p)
    <3>1. "denied" \in Outcome
      BY DEF Outcome
    <3> QED
      BY <2>2, <3>1, EndsTyped DEF Refused, ledgerVars
  <2>3. CASE Verify(p)
    BY <2>3 DEF Verify, Goes, ledgerVars, Pc
  <2>4. CASE WriteAhead(p)
    BY <2>4 DEF WriteAhead, RecordRow, Goes, Pc, RowState
  <2>5. CASE Cleared(p)
    BY <2>5 DEF Cleared, Goes, ledgerVars, Pc
  <2>6. CASE Withdrawn(p)
    BY <2>6 DEF Withdrawn, ledgerVars, Pc, Outcome
  <2>7. ASSUME NEW outcome \in {"ran", "failed"}, InvokeTool(p, outcome)
        PROVE  TypeOK'
    BY <2>7 DEF InvokeTool, AtWork, Calling, Pc, Outcome
  <2>8. CASE PostReadsRow(p)
    <3>1. CASE Goes(p, "settling")
      BY <2>8, <3>1 DEF PostReadsRow, Goes, ledgerVars, Pc
    <3>2. CASE Ends(p, res[p])
      BY <2>8, <3>2, EndsTyped DEF PostReadsRow, ledgerVars
    <3> QED
      BY <2>8, <3>1, <3>2 DEF PostReadsRow
  <2>9. ASSUME NEW probe \in BOOLEAN, SettleRow(p, probe)
        PROVE  TypeOK'
    <3>1. ledger' \in [Call -> RowState]
      BY <2>9 DEF SettleRow, RowState
    <3>2. probed' \in [Call -> BOOLEAN]
      BY <2>9 DEF SettleRow
    <3> QED
      BY <2>9, <3>1, <3>2, EndsTyped DEF SettleRow
  <2>10. CASE SettleFails(p)
    <3>1. lost' \in SUBSET Call
      BY <2>10 DEF SettleFails, AtWork, Calling
    <3> QED
      BY <2>10, <3>1, EndsTyped DEF SettleFails
  <2>11. ASSUME NEW withheld \in BOOLEAN, TellOutcome(p, withheld)
         PROVE  TypeOK'
    <3>1. cur[p] \in Approval /\ res[p] \in Outcome
      BY <2>11 DEF TellOutcome, AtWork
    <3>2. told' \in [Approval -> SUBSET (Outcome \union {"rejected", "expired"})]
      BY <2>11, <3>1 DEF TellOutcome, Outcome
    <3>3. QED
      BY <2>11, <3>2, ReturnsTyped DEF TellOutcome, ledgerVars
  <2>12. CASE ExecutorRaises(p)
    BY <2>12 DEF ExecutorRaises, AtWork, Goes, Returns, ledgerVars, Pc, Outcome
  <2>13. QED
    BY <1>4, <2>1, <2>2, <2>3, <2>4, <2>5, <2>6, <2>7, <2>8, <2>9, <2>10, <2>11, <2>12
    DEF CallStep
<1>5. ASSUME NEW p \in Proc, Aborts(p)
      PROVE  TypeOK'
  BY <1>5 DEF Aborts, Goes, Returns, InFlight, AtWork, Calling, Pc, Outcome
<1>6. ASSUME NEW s \in Sweeper, SweepsStep(s)
      PROVE  TypeOK'
  BY <1>6 DEF SweepsStep, AnnounceLapse, callVars, procVars, ledgerVars
<1>7. CASE UNCHANGED callVars
  BY <1>7 DEF callVars, procVars, ledgerVars
<1>8. QED
  BY <1>1, <1>2, <1>3, <1>4, <1>5, <1>6, <1>7 DEF Next, ProcStep, vars

NoneTakenBack ==
    \A a \in Approval :
        /\ status[a] = "approved" => status'[a] = "approved"
        /\ status[a] # "none" => status'[a] # "none"

(* A step that leaves the processes and the calls alone and takes no approval *)
(* back keeps what is said of them: all the sweeps can do.                    *)
LEMMA CallsUntouched ==
  ASSUME TypeOK, CallPart,
         UNCHANGED <<kind, executed, stored>>, UNCHANGED <<pc, cur, att>>,
         UNCHANGED <<callOf, effect, runs>>, NoneTakenBack
  PROVE  CallPart'
<1>1. AtWork'
  BY DEF NoneTakenBack, CallPart, AtWork, Calling
<1>2. CallsApart'
  BY DEF NoneTakenBack, CallPart, CallsApart
<1>3. Belongs'
  BY DEF NoneTakenBack, CallPart, Belongs, TypeOK
<1>4. ClaimHeld'
  BY DEF NoneTakenBack, CallPart, ClaimHeld
<1>5. RunsOnlyApproved'
  BY DEF NoneTakenBack, CallPart, RunsOnlyApproved
<1>6. QED
  BY <1>1, <1>2, <1>3, <1>4, <1>5 DEF CallPart

LEMMA ReturnKeepsCalls ==
  ASSUME TypeOK, CallPart, NEW p \in Proc, Returns(p),
         UNCHANGED <<status, kind, executed, stored>>, UNCHANGED <<callOf, effect, runs>>
  PROVE  CallPart'
<1>1. /\ pc'[p] = "idle" /\ cur'[p] \notin Approval
      /\ \A q \in Proc : q # p => pc'[q] = pc[q] /\ cur'[q] = cur[q] /\ att'[q] = att[q]
  BY ReturnsTyped, NoneAssumption
<1>2. AtWork'
  BY <1>1 DEF CallPart, AtWork, Calling
<1>3. CallsApart'
  BY <1>1 DEF CallPart, CallsApart, Calling
<1>4. Belongs' /\ RunsOnlyApproved'
  BY DEF CallPart, Belongs, RunsOnlyApproved
<1>5. ClaimHeld'
  BY <1>1 DEF CallPart, ClaimHeld, Granted
<1>6. QED
  BY <1>2, <1>3, <1>4, <1>5 DEF CallPart

(* Every step keeps the whole invariant. Requests, sweeps and the resume of a *)
(* run move no process between its claim and its tool; the steps of a call   *)
(* do, one call at a time.                                                   *)
LEMMA CallInvStep ==
  ASSUME CallInv, [Next]_vars
  PROVE  CallInv'
<1>0. QueueInv /\ TypeOK /\ QueueTypeOK /\ CallPart /\ QueueInv' /\ TypeOK'
  BY QueueInvKept, CallTypeStep DEF CallInv, CallPart, TypeOK, QueueInv
<1>a. ASSUME NEW s \in Sweeper, ExpireStaleUpdate(s), UNCHANGED callVars
      PROVE  CallPart'
  <2>1. NoneTakenBack
    BY <1>0, <1>a DEF ExpireStaleUpdate, QueueTypeOK, NoneTakenBack
  <2>2. /\ UNCHANGED <<kind, executed, stored>> /\ UNCHANGED <<pc, cur, att>>
        /\ UNCHANGED <<callOf, effect, runs>>
    BY <1>a DEF ExpireStaleUpdate, callVars, procVars, ledgerVars
  <2>3. QED
    BY <1>0, <2>1, <2>2, CallsUntouched
<1>b. ASSUME UNCHANGED vars
      PROVE  CallPart'
  <2>1. /\ UNCHANGED <<status, kind, executed, stored>> /\ UNCHANGED <<pc, cur, att>>
        /\ UNCHANGED <<callOf, effect, runs>>
    BY <1>b DEF vars, queueVars, callVars, procVars, ledgerVars
  <2>2. NoneTakenBack
    BY <2>1 DEF NoneTakenBack
  <2>3. QED
    BY <1>0, <2>1, <2>2, CallsUntouched
<1> USE <1>0 DEF CallPart, AtWork, CallsApart, Belongs, ClaimHeld, RunsOnlyApproved
<1>1. ASSUME NEW a \in Approval, RunStep(a), UNCHANGED sweepVars, UNCHANGED aborts
      PROVE  CallPart'
  <2>1. ASSUME NEW k \in Kind, NEW r \in BOOLEAN, Request(a, k, r)
        PROVE  CallPart'
    BY <2>1 DEF Request, Enqueue, procVars, ledgerVars, TypeOK, QueueTypeOK, Granted
  <2>2. CASE DeadlinePasses(a) /\ UNCHANGED callVars
    BY <2>2 DEF DeadlinePasses, callVars, procVars, ledgerVars
  <2>3. CASE WriteCheckpoint(a) \/ CheckpointRemoved(a)
    BY <2>3 DEF WriteCheckpoint, StoreCheckpoint, CheckpointRemoved, rowVars, procVars, ledgerVars, TypeOK
  <2>4. CASE LinkCheckpoint(a)
    BY <2>4 DEF LinkCheckpoint, SetCheckpoint, callVars, procVars, ledgerVars
  <2>5. QED
    BY <1>1, <2>1, <2>2, <2>3, <2>4 DEF RunStep
<1>2. ASSUME NEW p \in Proc, Begin(p), UNCHANGED sweepVars, UNCHANGED aborts
      PROVE  CallPart'
  <2>1. ASSUME NEW a \in Approval, NEW ans \in Answer, NEW runtime \in BOOLEAN,
               RespondToApproval(p, a, ans, runtime)
        PROVE  CallPart'
    BY <2>1 DEF RespondToApproval, Respond, StartsOn, LeadsTo, ledgerVars, TypeOK, QueueTypeOK,
                Answer, Calling, Granted
  <2>2. ASSUME NEW a \in Approval, ExecuteApprovedCall(p, a)
        PROVE  CallPart'
    BY <2>2 DEF ExecuteApprovedCall, StartsOn, rowVars, ledgerVars, TypeOK, Calling, Granted
  <2>3. ASSUME NEW a \in Approval, RunResume(p, a)
        PROVE  CallPart'
    BY <2>3 DEF RunResume, rowVars, ledgerVars, TypeOK, Calling, Granted
  <2>4. QED
    BY <1>2, <2>1, <2>2, <2>3 DEF Begin
<1>3. ASSUME NEW p \in Proc, ResumeStep(p)
      PROVE  CallPart'
  <2>1. ASSUME NEW c \in Call, NEW found \in RowState, RunProbe(p, c, found)
        PROVE  CallPart'
    <3>1. CASE Returns(p)
      BY <2>1, <3>1, ReturnKeepsCalls DEF RunProbe, rowVars
    <3>2. CASE ~Returns(p)
      BY <2>1, <3>2 DEF RunProbe, rowVars, TypeOK, Calling, Granted
    <3>3. QED
      BY <3>1, <3>2
  <2>2. ASSUME NEW wait \in BOOLEAN, Gate(p, wait)
        PROVE  CallPart'
    <3>1. CASE Returns(p)
      BY <2>2, <3>1, ReturnKeepsCalls DEF Gate, rowVars, ledgerVars
    <3>2. CASE ~Returns(p)
      BY <2>2, <3>2 DEF Gate, Goes, rowVars, ledgerVars, TypeOK, Calling, Granted
    <3>3. QED
      BY <3>1, <3>2
  <2>3. CASE AwaitApproval(p)
    <3>1. CASE Returns(p)
      BY <2>3, <3>1, ReturnKeepsCalls DEF AwaitApproval, rowVars, ledgerVars
    <3>2. CASE ~Returns(p)
      BY <2>3, <3>2 DEF AwaitApproval, Goes, rowVars, ledgerVars, TypeOK, Calling, Granted
    <3>3. QED
      BY <3>1, <3>2
  <2>4. CASE ResumeWithoutCall(p) \/ ResumeFails(p)
    BY <2>4, ReturnKeepsCalls DEF ResumeWithoutCall, ResumeFails, rowVars, ledgerVars
  <2>5. QED
    BY <1>3, <2>1, <2>2, <2>3, <2>4 DEF ResumeStep
<1>4. ASSUME NEW p \in Proc, CallStep(p)
      PROVE  CallPart'
  <2>1. ASSUME NEW c \in Call, ResumeWithCall(p, c) \/ RunApproved(p, c)
        PROVE  CallPart'
    <3>1. /\ Mint(p, c) /\ UNCHANGED <<rowVars, stored, runs>>
          /\ cur[p] \in Approval /\ status[cur[p]] = "approved" /\ kind[cur[p]] # "halt"
      BY <2>1 DEF ResumeWithCall, RunApproved
    <3>2. \A q \in Proc : pc[q] \in Calling => att[q] # c
      BY <3>1, NoneAssumption DEF Mint, Calling
    <3>3. \A d \in Call : d # c => callOf'[d] = callOf[d]
      BY <3>1 DEF Mint, TypeOK
    <3>4. \A q \in Proc : q # p => pc'[q] = pc[q] /\ att'[q] = att[q]
      BY <3>1 DEF Mint, TypeOK
    <3>5. pc'[p] = "pre" /\ att'[p] = c /\ callOf'[c] = cur[p] /\ UNCHANGED <<cur, effect>>
      BY <3>1 DEF Mint, TypeOK
    <3>6. AtWork'
      BY <3>1, <3>2, <3>3, <3>4, <3>5 DEF rowVars, Calling, Granted
    <3>7. CallsApart'
      BY <3>2, <3>4, <3>5
    <3>8. Belongs'
      BY <3>1, <3>3, <3>5, NoneAssumption DEF rowVars, Mint, TypeOK
    <3>9. ClaimHeld' /\ RunsOnlyApproved'
      BY <3>1, <3>4, <3>5 DEF rowVars, Granted
    <3>10. QED
      BY <3>6, <3>7, <3>8, <3>9
  <2>2. CASE Refused(p)
    <3>1. CASE Returns(p)
      BY <2>2, <3>1, ReturnKeepsCalls DEF Refused, rowVars, ledgerVars
    <3>2. CASE ~Returns(p)
      BY <2>2, <3>2 DEF Refused, Ends, rowVars, ledgerVars, TypeOK, Calling, Granted
    <3>3. QED
      BY <3>1, <3>2
  <2>3. CASE Verify(p)
    BY <2>3 DEF Verify, ClaimExecution, Claimable, Goes, rowVars, ledgerVars, TypeOK,
                QueueTypeOK, Calling, Granted
  <2>4. CASE WriteAhead(p)
    BY <2>4 DEF WriteAhead, RecordRow, Goes, rowVars, TypeOK, Calling, Granted
  <2>5. CASE Cleared(p)
    BY <2>5 DEF Cleared, Goes, rowVars, ledgerVars, TypeOK, Calling, Granted
  <2>6. CASE Withdrawn(p)
    BY <2>6 DEF Withdrawn, rowVars, ledgerVars, TypeOK, Calling, Granted
  <2>7. ASSUME NEW outcome \in {"ran", "failed"}, InvokeTool(p, outcome)
        PROVE  CallPart'
    BY <2>7 DEF InvokeTool, rowVars, TypeOK, QueueTypeOK, Calling, Granted
  <2>8. CASE PostReadsRow(p)
    <3>1. CASE Returns(p)
      BY <2>8, <3>1, ReturnKeepsCalls DEF PostReadsRow, rowVars, ledgerVars
    <3>2. CASE ~Returns(p)
      BY <2>8, <3>2 DEF PostReadsRow, Goes, Ends, rowVars, ledgerVars, TypeOK, Calling, Granted
    <3>3. QED
      BY <3>1, <3>2
  <2>9. ASSUME NEW probe \in BOOLEAN, SettleRow(p, probe)
        PROVE  CallPart'
    <3>1. CASE Returns(p)
      BY <2>9, <3>1, ReturnKeepsCalls DEF SettleRow, rowVars
    <3>2. CASE ~Returns(p)
      BY <2>9, <3>2 DEF SettleRow, Ends, rowVars, TypeOK, Calling, Granted
    <3>3. QED
      BY <3>1, <3>2
  <2>10. CASE SettleFails(p)
    <3>1. CASE Returns(p)
      BY <2>10, <3>1, ReturnKeepsCalls DEF SettleFails, rowVars
    <3>2. CASE ~Returns(p)
      BY <2>10, <3>2 DEF SettleFails, Ends, rowVars, TypeOK, Calling, Granted
    <3>3. QED
      BY <3>1, <3>2
  <2>11. ASSUME NEW withheld \in BOOLEAN, TellOutcome(p, withheld)
         PROVE  CallPart'
    BY <2>11, ReturnKeepsCalls DEF TellOutcome, rowVars, ledgerVars
  <2>12. CASE ExecutorRaises(p)
    BY <2>12, ReturnKeepsCalls DEF ExecutorRaises, rowVars, ledgerVars
  <2>13. QED
    BY <1>4, <2>1, <2>2, <2>3, <2>4, <2>5, <2>6, <2>7, <2>8, <2>9, <2>10, <2>11, <2>12
    DEF CallStep
<1>5. ASSUME NEW p \in Proc, Aborts(p)
      PROVE  CallPart'
  BY <1>5, ReturnKeepsCalls DEF Aborts, rowVars
<1>6. ASSUME NEW s \in Sweeper, SweepsStep(s)
      PROVE  CallPart'
  <2>1. CASE ExpireStaleSelect(s) /\ UNCHANGED callVars
    BY <2>1 DEF ExpireStaleSelect, callVars, procVars, ledgerVars
  <2>2. CASE ExpireStaleUpdate(s) /\ UNCHANGED callVars
    BY <1>a, <2>2
  <2>3. ASSUME NEW a \in Approval, AnnounceLapse(s, a)
        PROVE  CallPart'
    BY <2>3 DEF AnnounceLapse, SweepAnnounce, procVars, ledgerVars
  <2>4. QED
    BY <1>6, <2>1, <2>2, <2>3 DEF SweepsStep
<1>7. ASSUME NEW s \in Sweeper, SweepAborts(s), UNCHANGED callVars
      PROVE  CallPart'
  BY <1>7 DEF SweepAborts, callVars, procVars, ledgerVars
<1> HIDE DEF CallPart, AtWork, CallsApart, Belongs, ClaimHeld, RunsOnlyApproved
<1>9. CallPart'
  BY <1>1, <1>2, <1>3, <1>4, <1>5, <1>6, <1>7, <1>b DEF Next, ProcStep
<1>10. QED
  BY <1>9 DEF CallInv

(* The invariant holds in every state the system can reach. *)
LEMMA CallInvariant == Spec => []CallInv
<1>1. CallInv /\ [Next]_vars => CallInv'
  BY CallInvStep
<1>2. QED
  BY <1>1, CallInvInit, PTL DEF Spec

-----------------------------------------------------------------------------
(* Every variable keeps its type. *)
THEOREM TypeCorrect == Spec => []TypeOK
<1>1. CallInv => TypeOK
  BY DEF CallInv
<1>2. QED
  BY <1>1, CallInvariant, PTL

(* A code caller's approved call is invoked at most once, whatever number of *)
(* processes answer, replay the executor, sweep or die.                      *)
THEOREM DeferredAtMostOnce == Spec => []DeferredRunsOnce
<1>1. CallInv => DeferredRunsOnce
  BY DEF CallInv, CallPart, ClaimHeld, DeferredRunsOnce, TypeOK
<1>2. QED
  BY <1>1, CallInvariant, PTL

(* No pinned call is invoked without the owner's approval: a row that was    *)
(* rejected, that lapsed or that is still open never reaches its tool.       *)
THEOREM NothingUnapprovedRuns == Spec => []RunsOnlyApproved
<1>1. CallInv => RunsOnlyApproved
  BY DEF CallInv, CallPart
<1>2. QED
  BY <1>1, CallInvariant, PTL

-----------------------------------------------------------------------------
(* The whole path of an approval keeps the approval contract: for code       *)
(* callers the contract's one use is the invocation of the tool itself.      *)
THEOREM CallsImplementContract == Spec => CallsKeepContract
<1> DEFINE C == CallContract!Next \/ UNCHANGED CallContract!contractVars
<1>1. Init => CallContract!Init
  BY DEF Init, QueueInit, CallContract!Init
<1>2. ASSUME CallInv, [Next]_vars
      PROVE  C
  <2>0. TypeOK /\ QueueTypeOK /\ AtWork /\ ClaimHeld /\ RunsOnlyApproved
    BY <1>2 DEF CallInv, CallPart, TypeOK
  <2> USE <2>0 DEF TypeOK, QueueTypeOK
  <2>1. ASSUME UNCHANGED <<status, kind, runs>>
        PROVE  C
    BY <2>1 DEF CallContract!contractVars
  <2>2. ASSUME NEW a \in Approval, RunStep(a)
        PROVE  C
    <3>1. ASSUME NEW k \in Kind, NEW r \in BOOLEAN, Request(a, k, r)
          PROVE  CallContract!Ask(a)
      BY <3>1 DEF Request, Enqueue, RunsOnlyApproved, CallContract!Ask
    <3>2. CASE DeadlinePasses(a) /\ UNCHANGED callVars
      BY <2>1, <3>2 DEF DeadlinePasses, callVars
    <3>3. CASE WriteCheckpoint(a) \/ CheckpointRemoved(a) \/ LinkCheckpoint(a)
      BY <2>1, <3>3 DEF WriteCheckpoint, CheckpointRemoved, LinkCheckpoint, SetCheckpoint,
                        rowVars, callVars
    <3>4. QED
      BY <2>2, <3>1, <3>2, <3>3 DEF RunStep, CallContract!Next
  <2>3. ASSUME NEW p \in Proc, Begin(p)
        PROVE  C
    <3>1. ASSUME NEW a \in Approval, NEW ans \in Answer, NEW runtime \in BOOLEAN,
                 RespondToApproval(p, a, ans, runtime)
          PROVE  CallContract!Decide(a, ans)
      BY <3>1 DEF RespondToApproval, Respond, CallContract!Decide
    <3>2. ASSUME NEW a \in Approval, ExecuteApprovedCall(p, a) \/ RunResume(p, a)
          PROVE  C
      BY <2>1, <3>2 DEF ExecuteApprovedCall, RunResume, rowVars
    <3>3. QED
      BY <2>3, <3>1, <3>2 DEF Begin, CallContract!Next, Answer
  <2>4. ASSUME NEW p \in Proc, ResumeStep(p)
        PROVE  C
    BY <2>1, <2>4 DEF ResumeStep, RunProbe, Gate, AwaitApproval, ResumeWithoutCall, ResumeFails,
                      rowVars
  <2>5. ASSUME NEW p \in Proc, CallStep(p)
        PROVE  C
    <3>1. CASE Verify(p)
      BY <2>1, <3>1 DEF Verify, ClaimExecution, rowVars
    <3>2. ASSUME NEW outcome \in {"ran", "failed"}, InvokeTool(p, outcome)
          PROVE  C
      <4>1. cur[p] \in Approval /\ status[cur[p]] = "approved"
        BY <3>2 DEF InvokeTool, AtWork, Calling
      <4>2. CASE kind[cur[p]] = "deferred"
        <5> PICK a \in Approval : a = cur[p]
          BY <4>1
        <5>1. status[a] = "approved" /\ kind[a] = "deferred" /\ runs[a] = 0
          BY <3>2, <4>1, <4>2 DEF InvokeTool, ClaimHeld, Granted
        <5>2. runs' = [runs EXCEPT ![a] = 1] /\ status' = status /\ kind' = kind
          BY <3>2, <5>1 DEF InvokeTool, rowVars
        <5>3. CallContract!Use(a)
          BY <5>1, <5>2 DEF CallContract!Use
        <5>4. QED
          BY <5>3 DEF CallContract!Next
      <4>3. CASE kind[cur[p]] # "deferred"
        BY <3>2, <4>1, <4>3 DEF InvokeTool, rowVars, CallContract!contractVars
      <4>4. QED
        BY <4>2, <4>3
    <3>3. CASE ~Verify(p) /\ ~\E outcome \in {"ran", "failed"} : InvokeTool(p, outcome)
      <4>1. UNCHANGED <<status, kind, runs>>
        BY <2>5, <3>3 DEF CallStep, ResumeWithCall, RunApproved, Refused, WriteAhead, Cleared,
                          Withdrawn, PostReadsRow, SettleRow, SettleFails, TellOutcome,
                          ExecutorRaises, rowVars
      <4>2. QED
        BY <2>1, <4>1
    <3>4. QED
      BY <3>1, <3>2, <3>3
  <2>6. ASSUME NEW p \in Proc, Aborts(p)
        PROVE  C
    BY <2>1, <2>6 DEF Aborts, rowVars
  <2>7. ASSUME NEW s \in Sweeper, SweepsStep(s)
        PROVE  C
    <3>1. CASE ExpireStaleSelect(s) /\ UNCHANGED callVars
      BY <2>1, <3>1 DEF ExpireStaleSelect, callVars
    <3>2. CASE ExpireStaleUpdate(s) /\ UNCHANGED callVars
      <4> DEFINE S == {a \in due[s] : status[a] = "pending"}
      <4>1. S \in SUBSET CallContract!Pending
        BY DEF CallContract!Pending
      <4>2. CallContract!Lapse(S)
        BY <3>2 DEF ExpireStaleUpdate, callVars, CallContract!Lapse
      <4>3. QED
        BY <4>1, <4>2 DEF CallContract!Next
    <3>3. ASSUME NEW a \in Approval, AnnounceLapse(s, a)
          PROVE  C
      BY <2>1, <3>3 DEF AnnounceLapse, SweepAnnounce
    <3>4. QED
      BY <2>7, <3>1, <3>2, <3>3 DEF SweepsStep
  <2>8. ASSUME NEW s \in Sweeper, SweepAborts(s), UNCHANGED callVars
        PROVE  C
    BY <2>1, <2>8 DEF SweepAborts, callVars
  <2>9. ASSUME UNCHANGED vars
        PROVE  C
    BY <2>1, <2>9 DEF vars, queueVars, callVars
  <2>10. QED
    BY <1>2, <2>2, <2>3, <2>4, <2>5, <2>6, <2>7, <2>8, <2>9 DEF Next, ProcStep
<1>3. CallInv /\ [Next]_vars => [CallContract!Next]_(CallContract!contractVars)
  BY <1>2
<1>4. QED
  BY <1>1, <1>3, CallInvariant, PTL DEF Spec, CallsKeepContract, CallContract!Spec
-----------------------------------------------------------------------------
(* What is recorded and told of a call. *)

(* Where a call stands against what is recorded of it: the row is written    *)
(* before the tool, a result is held only of a tool that was invoked, and a   *)
(* run resumes only past an answered approval.                                *)
CallRecord ==
    \A p \in Proc :
        /\ pc[p] \in {"recorded", "cleared"} /\ risky[cur[p]] => ledger[att[p]] # "none"
        /\ pc[p] \in {"post", "settling"} /\ res[p] = "ran" => att[p] \in effect
        /\ pc[p] \in {"post", "settling", "telling"} /\ res[p] = "ran"
              /\ kind[cur[p]] = "deferred" => runs[cur[p]] = 1
        /\ todo[p] \ blind[p] \subseteq effect
        /\ pc[p] = "resuming" => status[cur[p]] \notin {"none", "pending"}

(* Only code callers are told anything, a rejection only of a row that was   *)
(* rejected, and what became of a call only of one that was approved.        *)
ToldWhom ==
    \A a \in Approval :
        /\ told[a] # {} => kind[a] = "deferred" /\ status[a] # "none"
        /\ "rejected" \in told[a] => status[a] = "rejected"
        /\ told[a] \intersect Outcome # {} => status[a] = "approved"

RecordPart ==
    CallRecord /\ ToldWhom /\ EffectHasRow /\ CompletedDidRun /\ NoOrphanRow /\ ToldTheTruth

(* An idle system has recorded and told nothing. *)
LEMMA RecordInit == Init => RecordPart
BY DEF Init, QueueInit, RecordPart, CallRecord, ToldWhom, EffectHasRow, CompletedDidRun,
       NoOrphanRow, ToldTheTruth

(* A process that returns without an open row keeps it. *)
LEMMA ReturnKeepsRecord ==
  ASSUME TypeOK, RecordPart, NEW p \in Proc, Returns(p), pc[p] \notin InFlight,
         UNCHANGED <<status, kind, overdue>>, UNCHANGED <<risky, runs, told>>,
         UNCHANGED ledgerVars
  PROVE  RecordPart'
<1>1. /\ pc'[p] = "idle" /\ todo'[p] = {}
      /\ \A q \in Proc : q # p =>
               /\ pc'[q] = pc[q] /\ cur'[q] = cur[q] /\ att'[q] = att[q]
               /\ res'[q] = res[q] /\ todo'[q] = todo[q] /\ blind'[q] = blind[q]
  BY ReturnsTyped
<1>2. CallRecord'
  BY <1>1 DEF RecordPart, CallRecord, ledgerVars
<1>3. NoOrphanRow'
  BY <1>1 DEF RecordPart, NoOrphanRow, ledgerVars, InFlight
<1>4. EffectHasRow' /\ CompletedDidRun'
  BY DEF RecordPart, EffectHasRow, CompletedDidRun, ledgerVars
<1>5. ToldWhom' /\ ToldTheTruth'
  BY DEF RecordPart, ToldWhom, ToldTheTruth
<1>6. QED
  BY <1>2, <1>3, <1>4, <1>5 DEF RecordPart

(* Every step keeps it, given the invariant above: a process touches only the *)
(* row of its own call, or probes a row it read, and tells only the caller of *)
(* the row it works on.                                                       *)
LEMMA RecordStep ==
  ASSUME CallInv, CallInv', RecordPart, [Next]_vars
  PROVE  RecordPart'
<1>0. /\ TypeOK /\ QueueTypeOK /\ AtWork /\ CallsApart /\ Belongs /\ ClaimHeld
      /\ RunsOnlyApproved /\ RunsOnlyApproved' /\ TypeOK'
  BY DEF CallInv, CallPart, TypeOK
<1> USE <1>0 DEF RecordPart, CallRecord, ToldWhom, EffectHasRow, CompletedDidRun, NoOrphanRow,
                 ToldTheTruth
<1>1. ASSUME NEW a \in Approval, RunStep(a), UNCHANGED sweepVars, UNCHANGED aborts
      PROVE  RecordPart'
  <2>1. ASSUME NEW k \in Kind, NEW r \in BOOLEAN, Request(a, k, r)
        PROVE  RecordPart'
    BY <2>1 DEF Request, Enqueue, procVars, ledgerVars, TypeOK, QueueTypeOK, AtWork, Belongs, InFlight, Pc
  <2>2. CASE DeadlinePasses(a) /\ UNCHANGED callVars
    BY <2>2 DEF DeadlinePasses, callVars, procVars, ledgerVars
  <2>3. CASE WriteCheckpoint(a) \/ CheckpointRemoved(a)
    BY <2>3 DEF WriteCheckpoint, CheckpointRemoved, rowVars, procVars, ledgerVars
  <2>4. CASE LinkCheckpoint(a)
    BY <2>4 DEF LinkCheckpoint, SetCheckpoint, callVars, procVars, ledgerVars
  <2>5. QED
    BY <1>1, <2>1, <2>2, <2>3, <2>4 DEF RunStep
<1>2. ASSUME NEW p \in Proc, Begin(p), UNCHANGED sweepVars, UNCHANGED aborts
      PROVE  RecordPart'
  <2>1. ASSUME NEW a \in Approval, NEW ans \in Answer, NEW runtime \in BOOLEAN,
               RespondToApproval(p, a, ans, runtime)
        PROVE  RecordPart'
    <3>1. /\ status[a] = "pending" /\ runs[a] = 0 /\ "rejected" \notin told[a] /\ ans # "none"
          /\ status'[a] = ans /\ ans # "pending"
          /\ \A b \in Approval : b # a => status'[b] = status[b] /\ told'[b] = told[b]
          /\ UNCHANGED <<kind, risky, runs>> /\ UNCHANGED ledgerVars
      BY <2>1 DEF RespondToApproval, Respond, TypeOK, QueueTypeOK, RunsOnlyApproved, Answer
    <3>2. /\ \A q \in Proc : q # p => pc'[q] = pc[q] /\ cur'[q] = cur[q]
          /\ UNCHANGED <<att, res, todo, blind>>
          /\ pc[p] = "idle" /\ cur'[p] = a /\ pc'[p] \in {"idle", "executing", "resuming"}
      BY <2>1 DEF RespondToApproval, StartsOn, LeadsTo, TypeOK
    <3>3. CallRecord'
      <4>1. \A q \in Proc : pc[q] = "resuming" => status'[cur[q]] \notin {"none", "pending"}
        BY <3>1 DEF AtWork
      <4>2. \A q \in Proc \ {p} : pc'[q] = pc[q] /\ cur'[q] = cur[q]
        BY <3>2
      <4>3. UNCHANGED <<kind, risky, runs, ledger, effect, att, res, todo, blind>>
        BY <3>1, <3>2 DEF ledgerVars
      <4>4. status'[a] \notin {"none", "pending"}
        BY <3>1
      <4>5. QED
        BY <3>2, <4>1, <4>2, <4>3, <4>4
    <3>4. /\ told'[a] = told[a] \/ told'[a] = told[a] \union {"rejected"}
          /\ "rejected" \in told'[a] => kind[a] = "deferred" /\ ans = "rejected"
      BY <2>1, <3>1 DEF RespondToApproval, TypeOK
    <3>9. /\ told[a] \intersect Outcome = {} /\ UNCHANGED overdue
          /\ told'[a] \intersect Outcome = {}
          /\ status'[a] \in Settled
      BY <2>1, <3>1, <3>4 DEF RespondToApproval, Respond, Outcome, Settled, TypeOK
    <3>5. ToldWhom' /\ ToldTheTruth'
      BY <3>1, <3>4, <3>9
    <3>6. EffectHasRow' /\ CompletedDidRun'
      BY <3>1 DEF ledgerVars
    <3>7. NoOrphanRow'
      BY <3>1, <3>2 DEF ledgerVars, InFlight
    <3>8. QED
      BY <3>3, <3>5, <3>6, <3>7
  <2>2. ASSUME NEW a \in Approval, ExecuteApprovedCall(p, a)
        PROVE  RecordPart'
    BY <2>2 DEF ExecuteApprovedCall, StartsOn, rowVars, ledgerVars, TypeOK, InFlight
  <2>3. ASSUME NEW a \in Approval, RunResume(p, a)
        PROVE  RecordPart'
    BY <2>3 DEF RunResume, Unsettled, rowVars, ledgerVars, TypeOK, InFlight
  <2>4. QED
    BY <1>2, <2>1, <2>2, <2>3 DEF Begin
<1>3. ASSUME NEW p \in Proc, ResumeStep(p)
      PROVE  RecordPart'
  <2>1. ASSUME NEW c \in Call, NEW found \in RowState, RunProbe(p, c, found)
        PROVE  RecordPart'
    <3>1. CASE Returns(p)
      <4>1. /\ pc'[p] = "idle" /\ todo'[p] = {} /\ pc[p] = "probing"
            /\ \A q \in Proc : q # p =>
                     /\ pc'[q] = pc[q] /\ cur'[q] = cur[q] /\ att'[q] = att[q]
                     /\ res'[q] = res[q] /\ todo'[q] = todo[q] /\ blind'[q] = blind[q]
        BY <2>1, <3>1, ReturnsTyped DEF RunProbe
      <4>2. /\ UNCHANGED <<rowVars, risky, stored, callOf, probed, effect, lost, runs, told>>
            /\ ledger'[c] = found /\ found \in {"completed", "not_completed", "ambiguous"}
            /\ found = "completed" => c \in effect
            /\ \A d \in Call : d # c => ledger'[d] = ledger[d]
        BY <2>1 DEF RunProbe, ProbeResult, TypeOK
      <4>3. CallRecord'
        BY <4>1, <4>2 DEF rowVars, AtWork, Calling
      <4>4. EffectHasRow' /\ CompletedDidRun' /\ NoOrphanRow' /\ ToldWhom' /\ ToldTheTruth'
        BY <4>1, <4>2 DEF rowVars, InFlight, TypeOK
      <4>5. QED
        BY <4>3, <4>4
    <3>2. CASE ~Returns(p)
      BY <2>1, <3>2 DEF RunProbe, ProbeResult, rowVars, TypeOK, InFlight, AtWork, Calling
    <3>3. QED
      BY <3>1, <3>2
  <2>2. ASSUME NEW wait \in BOOLEAN, Gate(p, wait)
        PROVE  RecordPart'
    <3>1. CASE Returns(p)
      BY <2>2, <3>1, ReturnKeepsRecord DEF Gate, rowVars, InFlight
    <3>2. CASE ~Returns(p)
      BY <2>2, <3>2 DEF Gate, Goes, rowVars, ledgerVars, TypeOK, InFlight, AtWork
    <3>3. QED
      BY <3>1, <3>2
  <2>3. CASE AwaitApproval(p)
    BY <2>3 DEF AwaitApproval, Goes, Returns, rowVars, ledgerVars, TypeOK, InFlight
  <2>4. CASE ResumeWithoutCall(p) \/ ResumeFails(p)
    BY <2>4, ReturnKeepsRecord DEF ResumeWithoutCall, ResumeFails, rowVars, InFlight
  <2>5. QED
    BY <1>3, <2>1, <2>2, <2>3, <2>4 DEF ResumeStep
<1>4. ASSUME NEW p \in Proc, CallStep(p)
      PROVE  RecordPart'
  <2>1. ASSUME NEW c \in Call, ResumeWithCall(p, c) \/ RunApproved(p, c)
        PROVE  RecordPart'
    <3>1. /\ Mint(p, c) /\ UNCHANGED <<rowVars, risky, runs, told>>
          /\ pc[p] \in {"resuming", "executing"}
      BY <2>1 DEF ResumeWithCall, RunApproved
    <3>2. /\ \A q \in Proc : q # p => pc'[q] = pc[q] /\ att'[q] = att[q]
          /\ pc'[p] = "pre"
          /\ UNCHANGED <<cur, res, todo, blind, ledger, probed, effect, lost>>
      BY <3>1 DEF Mint, TypeOK
    <3>3. CallRecord'
      BY <3>1, <3>2 DEF rowVars
    <3>4. \A d \in effect : callOf'[d] = callOf[d]
      BY <3>1, NoneAssumption DEF Mint, TypeOK, Belongs
    <3>5. EffectHasRow'
      BY <3>1, <3>2, <3>4
    <3>6. NoOrphanRow'
      BY <3>1, <3>2 DEF InFlight
    <3>7. ToldWhom' /\ ToldTheTruth' /\ CompletedDidRun'
      BY <3>1, <3>2 DEF rowVars
    <3>8. QED
      BY <3>3, <3>5, <3>6, <3>7
  <2>2. CASE Refused(p)
    BY <2>2 DEF Refused, Ends, Returns, rowVars, ledgerVars, TypeOK, InFlight
  <2>3. CASE Verify(p)
    BY <2>3 DEF Verify, ClaimExecution, Goes, rowVars, ledgerVars, TypeOK, InFlight
  <2>4. CASE WriteAhead(p)
    BY <2>4 DEF WriteAhead, RecordRow, Goes, rowVars, TypeOK, InFlight, AtWork, Calling
  <2>5. CASE Cleared(p)
    BY <2>5 DEF Cleared, Goes, rowVars, ledgerVars, TypeOK, InFlight
  <2>6. CASE Withdrawn(p)
    BY <2>6 DEF Withdrawn, rowVars, ledgerVars, TypeOK, InFlight
  <2>7. ASSUME NEW outcome \in {"ran", "failed"}, InvokeTool(p, outcome)
        PROVE  RecordPart'
    BY <2>7 DEF InvokeTool, rowVars, TypeOK, InFlight, AtWork, Calling, Granted, ClaimHeld, RunsOnlyApproved
  <2>8. CASE PostReadsRow(p)
    BY <2>8 DEF PostReadsRow, Goes, Ends, Returns, rowVars, ledgerVars, TypeOK, InFlight
  <2>9. ASSUME NEW probe \in BOOLEAN, SettleRow(p, probe)
        PROVE  RecordPart'
    BY <2>9 DEF SettleRow, Ends, Returns, rowVars, TypeOK, InFlight, AtWork, Calling
  <2>10. CASE SettleFails(p)
    BY <2>10 DEF SettleFails, Ends, Returns, rowVars, TypeOK, InFlight
  <2>11. ASSUME NEW withheld \in BOOLEAN, TellOutcome(p, withheld)
         PROVE  RecordPart'
    BY <2>11 DEF TellOutcome, Goes, Returns, rowVars, ledgerVars, TypeOK, InFlight, AtWork, Outcome
  <2>12. CASE ExecutorRaises(p)
    BY <2>12 DEF ExecutorRaises, Goes, Returns, rowVars, ledgerVars, TypeOK, InFlight, AtWork
  <2>13. QED
    BY <1>4, <2>1, <2>2, <2>3, <2>4, <2>5, <2>6, <2>7, <2>8, <2>9, <2>10, <2>11, <2>12
    DEF CallStep
<1>5. ASSUME NEW p \in Proc, Aborts(p)
      PROVE  RecordPart'
  BY <1>5 DEF Aborts, Goes, Returns, rowVars, sweepVars, TypeOK, InFlight
<1>6. ASSUME NEW s \in Sweeper, SweepsStep(s)
      PROVE  RecordPart'
  <2>1. CASE ExpireStaleSelect(s) /\ UNCHANGED callVars
    BY <2>1 DEF ExpireStaleSelect, callVars, procVars, ledgerVars
  <2>2. CASE ExpireStaleUpdate(s) /\ UNCHANGED callVars
    <3>1. /\ UNCHANGED <<kind, overdue, risky, runs, told>> /\ UNCHANGED <<ledgerVars, procVars>>
          /\ \A a \in Approval : status[a] # "pending" => status'[a] = status[a]
          /\ \A a \in Approval : status[a] # "none" => status'[a] # "none"
      BY <2>2 DEF ExpireStaleUpdate, callVars, QueueTypeOK
    <3>6. "pending" \notin Settled /\ \A a \in Approval : status[a] \in Settled => status'[a] \in Settled
      BY <3>1 DEF Settled, Answer
    <3>2. CallRecord'
      BY <3>1 DEF ledgerVars, procVars, AtWork
    <3>3. ToldWhom' /\ ToldTheTruth'
      BY <3>1, <3>6
    <3>4. EffectHasRow' /\ CompletedDidRun' /\ NoOrphanRow'
      BY <3>1 DEF ledgerVars, procVars
    <3>5. QED
      BY <3>2, <3>3, <3>4
  <2>3. ASSUME NEW a \in Approval, AnnounceLapse(s, a)
        PROVE  RecordPart'
    <3>1. /\ UNCHANGED <<status, kind, overdue, risky, runs>> /\ UNCHANGED <<ledgerVars, procVars>>
          /\ status[a] # "none" /\ overdue[a] /\ status[a] \in Settled
      BY <2>3 DEF AnnounceLapse, SweepAnnounce, CallInv, QueueInv, DueIsOver
    <3>2. /\ \A b \in Approval : b # a => told'[b] = told[b]
          /\ told'[a] = IF kind[a] = "deferred" THEN told[a] \union {"expired"} ELSE told[a]
      BY <2>3 DEF AnnounceLapse, TypeOK
    <3>6. "expired" \notin Outcome /\ told'[a] \intersect Outcome = told[a] \intersect Outcome
      BY <3>2 DEF Outcome
    <3>3. ToldWhom' /\ ToldTheTruth'
      BY <3>1, <3>2, <3>6
    <3>4. CallRecord' /\ EffectHasRow' /\ CompletedDidRun' /\ NoOrphanRow'
      BY <3>1 DEF ledgerVars, procVars
    <3>5. QED
      BY <3>3, <3>4
  <2>4. QED
    BY <1>6, <2>1, <2>2, <2>3 DEF SweepsStep
<1>7. ASSUME NEW s \in Sweeper, SweepAborts(s), UNCHANGED callVars
      PROVE  RecordPart'
  BY <1>7 DEF SweepAborts, callVars, procVars, ledgerVars
<1>8. CASE UNCHANGED vars
  BY <1>8 DEF vars, queueVars, rowVars, callVars, procVars, ledgerVars
<1> HIDE DEF RecordPart, CallRecord, ToldWhom, EffectHasRow, CompletedDidRun, NoOrphanRow,
             ToldTheTruth
<1>9. QED
  BY <1>1, <1>2, <1>3, <1>4, <1>5, <1>6, <1>7, <1>8 DEF Next, ProcStep

(* What is recorded and told of a call is true in every state. *)
LEMMA RecordInvariant == Spec => []RecordPart
<1>1. CallInv /\ CallInv' /\ RecordPart /\ [Next]_vars => RecordPart'
  BY RecordStep
<1>2. QED
  BY <1>1, RecordInit, CallInvariant, PTL DEF Spec

(* A process killed at any point after its high-risk tool ran leaves a row   *)
(* of the call behind: the write-ahead comes first on every path.            *)
THEOREM EffectsAreRecorded == Spec => []EffectHasRow
<1>1. RecordPart => EffectHasRow
  BY DEF RecordPart
<1>2. QED
  BY <1>1, RecordInvariant, PTL

(* Neither a settling hook nor the probe of a resume, racing each other over *)
(* one row, ever records as completed a call that never reached its tool.    *)
THEOREM CompletedRowsRan == Spec => []CompletedDidRun
<1>1. RecordPart => CompletedDidRun
  BY DEF RecordPart
<1>2. QED
  BY <1>1, RecordInvariant, PTL

(* A pending row always has someone who will settle it, or a call that was   *)
(* cut off behind it: a refusal or a withdrawal leaves none.                 *)
THEOREM PendingRowsAreOwned == Spec => []NoOrphanRow
<1>1. RecordPart => NoOrphanRow
  BY DEF RecordPart
<1>2. QED
  BY <1>1, RecordInvariant, PTL

(* Whatever retries and replays there are, the caller is told ran only of a  *)
(* call invoked once, rejected only of one that is never invoked nor said to *)
(* be, and expired only of a request past its deadline that is settled.      *)
THEOREM CallersAreToldTheTruth == Spec => []ToldTheTruth
<1>1. RecordPart => ToldTheTruth
  BY DEF RecordPart
<1>2. QED
  BY <1>1, RecordInvariant, PTL

(* No step of any process invokes a pinned call or continues a halted run    *)
(* whose approval is still open.                                             *)
THEOREM OpenApprovalsStop == Spec => OpenApprovalStops
<1> DEFINE Stops == \A a \in Approval :
                       status[a] \in {"none", "pending"} =>
                           runs'[a] = runs[a] /\ (a \in continued' => a \in continued)
<1>1. ASSUME CallInv, RecordPart, [Next]_vars
      PROVE  Stops
  <2>0. TypeOK /\ AtWork /\ CallRecord
    BY <1>1 DEF CallInv, CallPart, RecordPart
  <2>1. ASSUME UNCHANGED <<runs, continued>>
        PROVE  Stops
    BY <2>1
  <2>2. ASSUME NEW p \in Proc, NEW outcome \in {"ran", "failed"}, InvokeTool(p, outcome)
        PROVE  Stops
    BY <2>0, <2>2 DEF InvokeTool, AtWork, Calling, TypeOK
  <2>3. ASSUME NEW p \in Proc, ResumeWithoutCall(p)
        PROVE  Stops
    BY <2>0, <2>3 DEF ResumeWithoutCall, CallRecord
  <2>4. ASSUME NEW p \in Proc, ResumeStep(p)
        PROVE  Stops
    BY <2>1, <2>3, <2>4 DEF ResumeStep, RunProbe, Gate, AwaitApproval, ResumeFails
  <2>5. ASSUME NEW p \in Proc, CallStep(p)
        PROVE  Stops
    BY <2>1, <2>2, <2>5
    DEF CallStep, ResumeWithCall, RunApproved, Refused, Verify, WriteAhead, Cleared, Withdrawn,
        PostReadsRow, SettleRow, SettleFails, TellOutcome, ExecutorRaises
  <2>6. ASSUME NEW a \in Approval, RunStep(a)
        PROVE  Stops
    BY <2>1, <2>6 DEF RunStep, Request, WriteCheckpoint, CheckpointRemoved, LinkCheckpoint, callVars
  <2>7. ASSUME NEW p \in Proc, Begin(p) \/ Aborts(p)
        PROVE  Stops
    BY <2>1, <2>7 DEF Begin, RespondToApproval, ExecuteApprovedCall, RunResume, Aborts
  <2>8. ASSUME NEW s \in Sweeper, SweepsStep(s)
        PROVE  Stops
    BY <2>1, <2>8 DEF SweepsStep, AnnounceLapse, callVars
  <2>9. CASE UNCHANGED callVars
    BY <2>1, <2>9 DEF callVars
  <2> HIDE DEF Stops
  <2>10. QED
    BY <1>1, <2>4, <2>5, <2>6, <2>7, <2>8, <2>9 DEF Next, ProcStep, vars
<1>2. CallInv /\ RecordPart /\ [Next]_vars => [Stops]_vars
  BY <1>1
<1>3. QED
  BY <1>2, CallInvariant, RecordInvariant, PTL DEF Spec, OpenApprovalStops
=============================================================================
