# Evarness: TLA+ models, checks and proofs

Evarness (`src/src/evarness/`) is a self-hosted agent harness in Python: an API
server, a CLI and channel gateways around an agentic loop whose every tool call
passes a governance kernel. Its state is in SQLite files that several processes
open at once, in a few plain files (the audit spool, the audit archive), and in
the memory of each process. There is no central coordinator: what keeps two
processes from doing a thing twice, or from losing it, is the `WHERE` clause of
an `UPDATE`, a file lock, or the order of two writes. That is what these modules
are about.

`PROJECT.json` lists components, runs, mutants, the map from definitions to source
lines, findings, hazards and theorems. Paths below are relative to
`src/src/evarness/` unless they start with `src/`.

## 1. Inventory

### Modelled

| Component | State | Operations | Hard because | Correct means |
|---|---|---|---|---|
| **Approval queue** `kernel/governance/approvals/{store,queue,service,gate}.py` | table `approval_queue`: status, caller and pinned items, `timeout_at`, `executed_at`, `checkpoint_id` | `enqueue`, `respond`, `claim_execution`, `set_checkpoint`, `expire_stale`, `sweep_expired`, `await_approval` | answers from API, CLI and Telegram, claims and a sweep in every process meet on one row | decided once and for good; used only when approved; an unanswered request lapses and its lapse is announced |
| **Deferred calls, destructive-call approval** `plugins/destructive_approval.py`, `runtime/tool_service.py` | the pinned call on the approval row, its claim | `_request`, `_verify`, `execute_approved_call`, `_run_approved`, `_settle` | the answer's executor and a retry in another process both try to run the call; a process dies in the middle | the call runs at most once, only if approved, and what the caller is told of it is true |
| **Side-effect ledger** `side_effects/{store,probes}.py`, `plugins/{pre,post}_tool_use_ledger.py` | a row per high-risk call: pending, completed, error, probe verdicts | write-ahead `record`, `finalize`, `set_status`, `run_probe` | the row is written before and settled after the tool, by different hooks, either of which may fail | an effect has a row; a completed row did run; no row stays pending behind a call that is over |
| **Governed tool runner** `agent/tool_runner.py` | nothing of its own | `execute`: `pre`, tool, `post`, `_settle_unrun_tool` | the allow may be withdrawn after the write-ahead row | as above |
| **Halted runs** `agent/agentic_core.py`, `main.py`, `memory/state/store.py` | checkpoints, the link on the approval row | pause, checkpoint, link, resume by answer, `evarness run resume` (probes, gate, resume) | two ways to resume one run, a checkpoint that expires or is removed in between | nothing steps past an open approval |
| **Audit ledger** `audit/{log,sequence,spool}.py`, `foundation/file_lock.py` | rows with a writer's sequence number; `Writer` (next number, started, missing); the spool file | `record`, `record_many`, `write_compaction`, `allocate`, `claim_gaps`, `append`, `drain` | number, row, gap rows, commit, spool append and replay fail independently; threads share a writer, processes share database and spool; two locks | a lost row leaves a visible hole; gap rows are true; no effect without its row; every write returns |
| **Governance kernel** `kernel.py` (the use of the ledger's answer) | registered hooks | `fire`, `_audit` | the allow stands only if its row is kept | see EffectIsKept |
| **Audit archive** `audit/archive/{compact,writer,markers}.py` | chunk files, `.orphans`, marker rows | `compact`, `_recover_orphans`, `_quarantine`, `write_chunks` | a run is cut off between chunk and marker; rows come back through the spool; one lock per directory, not per ledger | no row is lost, no insertion of one is in two places, markers are true |
| **Reminders** `services/notifications/{store,channels,models,recurrence}.py` | table `notification_reminders`: status, times, attempts, series | tick (`list_due`, `claim`, send, `mark_sent`, `mark_attempt_failed`), `fire`, `complete`, `cancel`, `snooze`, `expire`, `ensure_next_occurrence` | reads and writes are separate transactions and writes are by id alone; a lease on the claim; a process dies while sending | heard once, a due row is sent, a series goes on, an ended reminder stays ended |
| **Heartbeat scheduler** `services/heartbeat/{scheduler,models}.py`, `services/digest/run_first.py` | declared, effective and scheduled definition, the saved override, APScheduler's job and the retry job, `_running` | `register`, `update`, `reset`, `trigger_by_name`, `_invoke`, `_schedule_retry`, `wait_until_idle`, `run_first` | schedule, Run now, retry and the digest's chain start one job from four threads; a restart between an edit and the next, an override that cannot be read | one run at a time; a joined run has ended; a skipped run gets another; the owner's edits come back when they can be read |
| **Routines** `services/routines/{store,models}.py`, `runtime/handlers/ticks.py`, `server/harness_api/routines_routes.py` | a row per routine, `_routines_running` of each process | `list_due`, `claim`, `execute_routine`, `record_run`, `run_routine`, PATCH, DELETE | ticks of two processes; every save writes the whole row from an earlier load; a tick claims all due routines and then runs them | scheduled runs are an interval apart; a save changes what it is about; a claimed slot is served |
| **Device pairing** `kernel/governance/devices/{store,service,throttle}.py` | pairing codes, devices, the window of failed claims | `start_pairing`, `claim`, `record_failed_claim`, `revoke`, `ClaimThrottle` | claims, guesses and new codes race; the window is in memory, the codes are not; the ledger may refuse a row | a code pairs one device; each event one row; the told wait is right; the window reopens |
| **Chat turns** `runtime/turn/pipeline.py` and stages, `server/harness_api/detached_turns.py` | the turn's stages and outcome, `_turns[session_id]`, the queue to the client | start, stages and their events, Stop, relay, client leaves | a turn outlives its client; a second turn of the session starts; Stop closes a generator at an event | the answer is filed, in words that were checked; Stop reaches the newest turn; a client's stream ends |

### Not modelled yet, or not worth it

Every other part is a component of `PROJECT.json` with its reason. In short:

- *Stateful, planned*: hook chain of the kernel, cost store and governor, LLM
  breaker and thermal mode, continuations, re-entry scan's memo, tasks and pending
  actions, kept heartbeat runs and slot verdicts, the agentic loop's own control
  (iterations, stall and repeat guards, pauses).
- *Pure functions of one text or one call*: policy plugins, taint and egress
  policy, redaction, disclosure, external content, vault, evaluator, retrieval.
  Their correctness is about content, which the models abstract.
- *I/O and front ends*: channel connectors, MCP bridge, sandbox, CLI, SDK,
  playground, digest and health reports. They change state through the stores.

The modelled lines are a small part of the repository (some 190,000 lines). Most of
it is text, I/O, command lines and plugins over the stores modelled here, where a
model would restate the code; what is chosen is what several actors write to.

### Interactions

```
 agentic loop / code caller --(PRE_TOOL_USE)--> kernel.fire --> audit ledger (db, else spool)
        |                                         |                     ^      |
        | require_approval                        | write-ahead row     |      v
        v                                         v                     |   archive (chunks, markers)
  approval_queue <--respond-- API, CLI, Telegram  side-effect ledger    |
        |  ^                                         ^   (POST_TOOL_USE settles)
        |  '--expire_stale-- heartbeat tick          |
        '--approved--> resume / executor --> governed runner --> tool
 heartbeat scheduler --fires--> approval sweep, reminder tick, routine_tick, digest (run_first)
 routine_tick --list_due/claim--> routine store <--PATCH, DELETE, Run now-- owner
 chat turn: client <--relay-- queue <--runner-- pipeline stages --> loop above; Stop --> _turns
 device --claim--> throttle --> pairing store --> audit ledger
 reminders: heartbeat tick --claim/send/mark--> table <--Done, snooze, cancel, digest-- owner
```

## 2. Modules

| Module | Models | Builds on |
|---|---|---|
| `ApprovalContract` | abstract: asked once, decided once, used at most once and only when approved | |
| `ApprovalQueue` | the table's statements and the sweeps; one committing statement is one step | refines `ApprovalContract` |
| `GovernedCalls` | what is done with an approval: answering, executing, resuming, the governed call, the side-effect ledger | EXTENDS `ApprovalQueue`; refines `ApprovalContract` with tool invocations as uses |
| `AuditLedger` | numbering, insert, gap and start rows, commit, spool, replay, process end | |
| `AuditArchive` | compaction, recovery, quarantine, with rows landing and coming back meanwhile | |
| `Reminders` | ticks, commands, digest sweeps, series, leases | |
| `Heartbeats` | one job: definition, override, fires, retry, guard, the digest's chain, restart | |
| `Routines` | one routine: slot, claim, runs in several processes, edits, process end | |
| `Pairing` | codes, claims, the throttle's window, the rows owed to the audit ledger | |
| `Turns` | the turns of one session: stages, events, runner, relay, Stop | |
| `…Proofs` | theorems about the module of that name (`GovernedCallsProofs`: `ApprovalQueue` too) | EXTENDS it and `TLAPS` |
| `MC…` | symmetry sets and function-valued constants for TLC | EXTENDS it |

How state and actions correspond to code:

- **A step is a transaction or a critical section.** A method that reads and later
  writes is two actions, and what it remembers in between is a variable
  (`due[s]`, `seenAt[p]`, `blind[p]`, `gaps[e]`). Where one statement both tests
  and writes (`UPDATE ... WHERE status = 'pending'`) it is one action whose guard
  is the `WHERE`; the failing case is a refusal action or no step at all.
- **Processes** are the members of `Proc`, `Sweeper`, `Sender`, `Commander`,
  `Writer`, `Worker`, `Thread`, `Turn`; a `pc` says between which two statements of its handler one stands.
  A thread of a process is an `Event` of the ledger.
- **Crashes** are `SweepAborts`, `Aborts`, `Dies`, `ProcessEnds`, `Stop` (of
  `Heartbeats`), `Crash`, `Restart`: memory and locks
  are gone, SQLite rolls the open transaction back, files keep what was written.
  An exception that ends a handler early is the same step, unless the code catches
  it: then it is an action of its own (`RowRaises`, `SendRaises`, `ExecutorRaises`,
  `TickRaises`, `RunRaises`, `StageRaises`, `RecordRaises`).
- **Data** that no property tells apart is gone: request text, cards, arguments,
  results, row payloads, message wording. A timestamp is the boolean `overdue`
  (approvals), membership in `old` (archive), or a clock counted in units of
  `RETRY_DELAY` (reminders, where leases and slots are compared). In `Heartbeats`
  and `Pairing` time only counts down, to the next fire or until a failure leaves
  the window, so the clock needs no bound; `expired` of a code is a boolean.
- **Undefined or external outcomes** are choices: a probe may say anything unless
  the row has none, a tool returns or raises half-way, any subset of channels
  accepts, a disk may keep part of a spool line.
- **History variables**: `announced`, `runs`, `told`, `raised`, `continued`, `effect`,
  `lost` (approvals and calls), `done` (ledger), `gen` (archive), `accepted`, `ended`,
  `strained` (reminders), `chosen`, `owed`, `off`, `fresh` (heartbeats), `claimed`, `putBack`,
  `stale`, `owed` (routines), `owing` (pairing), `words`, `filed`, `failed` (turns)
  record what happened for the properties. Guards do not
  read them, except that a bound (`MaxGen`, `MaxAborts`, `MaxTorn`, `MaxCuts`,
  `MaxCommands`) limits how often something happens.

Modelling choices worth knowing:

- In `ApprovalQueue` the `SELECT` and the `UPDATE` of `expire_stale` are two steps:
  Python's `sqlite3` begins a transaction at the first write, so the `SELECT`
  commits on its own.
- In `GovernedCalls` a resumed run is followed only as far as its pinned call: a
  run that halts again raises a new approval with a checkpoint of its own. A run is
  named by its approval: lookups that the code keys by `run_id` (`run resume`, the
  gate) find that one row.
- In `AuditLedger` a batch holds the write lock from its first step on, and claims,
  numbers and inserts its gap rows in that step. With nothing to write first,
  `record_many` takes the lock only at its row's `INSERT`; a call that waits there
  with its number in hand is what `Record` and `Insert` have.
- In `GovernedCalls` `told` is what goes out on `approval.call_completed`. The audit
  row of `record_call_outcome` is no answer to the caller; an executor that raises
  leaves only that (`raised`).
- `Heartbeats` and `Routines` follow one job and one routine: every map and every
  statement there is keyed by name or id. Schedules are `interval:n`; cron and
  daily times differ only in when a slot is due.
- In `Heartbeats` each start reads the override whole, not at all, or with a schedule
  that no longer validates (`Reading`). A scheduler without a settings store
  (`scheduler.py:365`) is left out: `runtime/bootstrap.py:792-797` always passes one.
  A process may end between the save of an edit and its use (`StopAfterSave`).
- In `Pairing` two threads of one process share the window; the store's steps are
  its transactions. Codes are fresh secrets, so a code is minted once. A request takes
  its `now` once, so a code that expires while it waits still counts as live for it,
  and one minted while it waits is charged with its failure.
- In `Turns` one event stands for the events of a stage, and what a stage writes
  after its event is lost when Stop closes the generator there. `words` says whose
  words the answer is in, so it also says whether they were checked since they were
  last changed; banners and notices the program appends are not told apart. Building
  the generator (`detached_turns.py:78`, outside the runner's `try`) does not fail in
  the model: `chat_stream` only makes a request object there.

## 3. Runs

| Run | Instance | Distinct states | Shows |
|---|---|---|---|
| `calls_safety` | 1 approval of any kind, 2 processes, 2 calls, 1 sweep, 1 abort | 277,239 | a deferred call runs once and only approved (`DeferredRunsOnce`, `RunsOnlyApproved`, `CallsKeepContract`); the side-effect ledger is honest (`EffectHasRow`, `CompletedDidRun`, `NoOrphanRow`); what the caller is told holds (`ToldTheTruth`); nothing passes an open approval (`OpenApprovalStops`) |
| `calls_liveness` | 1 approval, 2 sweeps, 2 processes, 1 call, 1 abort | 247,115 | the table implements the contract (`QueueKeepsContract`); overdue requests settle and lapses are heard (`OverdueSettles`, `LapseIsHeard`); approved calls are reported unless the executor raises (`ApprovedIsReported`), write-ahead rows settle (`RowSettles`) |
| `ledger_safety` | 3 calls in 1 process, 1 gap row per write, 1 torn line | 2,375,703 | holes (`LossLeavesHole`), accounting (`NumbersAccounted`), true gap rows (`GapsAreTrue`) |
| `ledger_returns` | 2 calls in 2 processes | 299,612 | every write returns across the two locks (`WriteReturns`); `EffectIsKept` with racing appends and replays |
| `archive` | 2 rows of 2 months, 1 ledger, 2 archives, 3 runs, 2 insertions per row | 540,581 | `NothingLost`, `MarkerIsTrue`, `CopyInOnePlace` |
| `reminders` | 1 asked and 2 further rows, 2 ticks, 1 command, 1 cut, time 0..1 | 218,302 | a series goes on (`SeriesGoesOn`), nothing is heard twice (`HeardOnce`) or called missed when heard (`MissedWasNotHeard`), due rows are sent (`DueIsSent`) |
| `heartbeats` | 2 threads, intervals 1 and 2, retry after 1, 2 deploys, any reading of the override | 385,768 | one run at a time (`RunsAlone`); a joined run ended (`JoinedRunEnded`); a skipped run is followed by another in time (`SkipIsOwed`); a start that can read an edit brings it back, whatever starts came before (`RestartKeepsChoice`) |
| `routines` | 2 ticks in 2 processes and 1 request, interval 1, time 0..2, 1 crash | 666,910 | slots are apart (`SlotsAreApart`), saves keep the rest (`UnracedSaveKeepsRest`), claimed slots are served unless a neighbour of the tick raises first (`SlotIsServed`) |
| `pairing` | 2 codes, 2 requests, 2 attempts, window of 2 failures and 2 ticks, 1 restart | 739,248 | `CodePairsOnce`, `EventHasOneRow`, `RetryAfterIsRight`, `WindowReopens` |
| `turns` | 2 turns of any kind | 704,761 | `NewestIsReachable`, `FiledWasChecked`, `AnswerIsFiled`, `RelayIsReleased` |

Each module has a type invariant (`QueueTypeOK`, `TypeOK`, ... `TurnsTypeOK`), proved
as a theorem rather than checked by a run. Every property has a mutant in `PROJECT.json`: a plausible bug in one mapped definition under which TLC
finds that property violated. Mutated forms stand just before the definition they
change.

Runs that are expected to find a violation (the findings):

| Run | Property | What happens |
|---|---|---|
| `calls_loop_twice` | `LoopRunsOnce` | a run's own approval is never claimed, so the resume set off by the answer and a later `evarness run resume` of the checkpoint both run the pinned call |
| `reminders_ended` | `EndedStaysEnded` | a cancel written during a send is overwritten by `mark_attempt_failed`: the reminder is pending again and fires |

Disagreements met while modelling that have no run of their own:

- `expire_stale` (`approvals/store.py:499-503`) says a notice is sent exactly once
  per lapse however many sweeps race, since it selects in the transaction of the
  `UPDATE`. The `SELECT` is outside it: two sweeps may both read, and both
  announce, a row. `announced` is therefore a set of sweeps, and `AnnouncedIsOver`
  and `LapseIsAccountedFor` are what does hold.
- For the same reason an answer that lands between the two statements is announced
  as a lapse, and the caller of a call that ran can be told that nothing was run
  (`runtime/tool_service.py:251-257`).
- `runtime/tool_service.py:29-30` says that whatever became of a call, "the caller
  hears once". It may hear several times and different things: the lapse above beside
  "ran", or "denied" to a replay of a call that ran. And it may not hear at all: when
  `execute_approved_call` raises before `_settle`, `approvals/service.py:334-339`
  leaves an audit row and no event. `ToldTheTruth` says what an answer can be relied
  on for, alone and beside others; `ApprovedIsReported` excuses the raise (`raised`).
- A spooled record that is replayed again after it was archived is archived, and
  counted by the markers, twice. The repository knows
  (`src/docs/architecture/call-identity-and-audit-replay.md:448-452`); the model tells
  insertions of a row apart (`gen`), and `CopyInOnePlace` is about insertions.
- `routine_tick` claims every due routine and then runs them
  (`runtime/handlers/ticks.py:513-524`). A claim or a run that raises (`record_run`
  does when the database stays busy) leaves the other claimed slots unrun until
  their next ones. `SlotIsServed` excuses it (`TickRaises`).
- `runtime/turn/stages/guard.py:3` says every answer passes the response check
  "exactly once". `curate` makes no check of its error texts
  (`agent/response_curator.py:332-348`), a second one of a text its judges changed
  (582-585), and is run again for every hop of an escalation
  (`runtime/escalation_actions.py:303`), whose question for the user replaces the
  answer unchecked (`runtime/facade.py:801-810`). `FiledWasChecked` is what does hold:
  the words that are filed were checked, with those two exceptions and the screen's
  own refusal.
- `evarness run resume` continues a run whose evaluator halt was rejected
  (`main.py:1067`, which looks for pending rows only), while the answer path keeps
  it halted (`approvals/service.py:262-294`).
- `append` to the spool ignores a short `os.write` (`audit/spool.py`): it returns, and
  the torn line and the one after it cannot be replayed but are set aside. The model
  has torn lines (`MaxTorn`); the properties count a set-aside line as kept.
- `audit compact --db X` writes to the default archive (`main.py:1299-1300`).
  Compacting a second ledger into one archive moves away chunks the first ledger's
  markers name; run and theorems assume one ledger per archive.
- The commit of `record_many` may fail after its rows were numbered; no failure is
  noted for them (`audit/log.py:456-461`), so no gap row will name their numbers.
  `NumbersAccounted` states the exception; the hole itself remains visible.
- A reminder's lease is counted from the start of the tick, so a row late in a long
  tick may be claimed with a lease that is already over. Two occurrences of one
  slot can be created when the sender and Done look for a waiting row at once. A
  digest sweep ends a row that was snoozed after it was listed.
- A routine's save writes every column from an earlier load, so of two racing saves
  the older one's fields win, a deleted routine can come back, and a manual run that
  ends after a later scheduled one puts `last_run_at` back: the slot is due again.
  `stale` and `putBack` mark these cases, and the properties say what holds without.
- A heartbeat turned off while it runs loses its guard (`scheduler.py:677` asks
  whether it is still scheduled), so a caller that read its definition before can
  start it beside its own run. A run that ends late cancels the retry a newer,
  skipped run was given (`scheduler.py:723`).
- A heartbeat whose fast runs are kept only when their status changes can be called
  missed by the slot verdicts (`heartbeat/slots.py`); the kept runs are not modelled.
- When a second streamed turn of a session starts, Stop reaches only the newer one
  (`detached_turns.py:60`); the older one runs to its end.
- `resume_halted_run`'s docstring names `intercept` as the only stage a resume drops;
  `RESUME_STAGES` drops `screen` too. The answer being resumed was screened when the
  turn began.
- Stop between the curator's write to session memory and `record` leaves an answer in
  memory that the transcript does not have.
- The LLM breaker lets every waiting call through as its half-open probe
  (`llm/arbiter.py:95`), where its docstring speaks of a single one.

### Bounds, and why they suffice

- Two processes, sweeps or ticks: every race here is between one reader-then-writer
  and one other actor on the same row. Rows do not interact: a sweep treats the rows
  it reads one by one, so one approval is enough (the theorems are about any number).
  The exceptions are the gap rows (three events: two failed writes and the one
  that records them), the archive (two rows in two months, so that a run has two
  chunks of which only one may be written) and a series (three rows: the one in
  hand, the next, and a duplicate). In `routines` the third thread is the owner's or
  a manual run beside the tick of its own process; in `turns` two turns are a newer
  and an older one.
- `MaxGaps` is 1 instead of 16, so that "more gaps than one write may carry"
  happens with two gaps. `MaxAttempts` is 2 instead of 4: a first send, a retry.
- One abort or cut: a second crash finds what some first crash left, and the states
  after a crash and recovery are states another interleaving reaches; `ProcessEnds`
  of the ledger and the interrupted runs of the archive are not limited at all.
- Three compaction runs: one cut off, one that recovers it, one in the other archive.
- `MaxTime`: in `reminders` 1 is enough for a slot to pass, a lease to run out and a
  retry to be due; the bound is also the series' `recur_until`. In `routines` 2 gives
  two slots an interval apart and a run that began before the later one. A routine's
  neighbours in the tick are not modelled; what they can do to it is `TickRaises`.
- `heartbeats` has no bound but its two threads: intervals 1 and 2 around a retry
  after 1 make the next slot come before, with and after the retry. Two deploys that
  differ in both fields make an override meet a newer declaration.
- `pairing`: `MaxAttempts` 2 instead of 5 and `Limit` 2 instead of 10 make the last attempt, the
  filling failure and an overfull window happen with two requests.
- Deadlock is not checked: with all ids minted and bounds used up, every system here
  may rest.

### Fairness, and why the code justifies it

- *Sweeps* (in `FairSpec`): `approval_timeout_tick` runs every 60 s in a scheduler
  that survives a failed tick. Weak fairness of a sweep's steps.
- *Handlers* (`FairSpec`): a request handler or command that is not cut off runs to
  its end; it waits only for the owner's answer, whose arrival is not assumed.
- *Ledger* (`LedgerFairness`): strong fairness of each call's steps, as a call may
  wait for the spool's lock, which others take and release (`flock` without timeout,
  `foundation/file_lock.py`), and for SQLite's write lock, where the busy timeout
  turns an endless wait into a failed write (an action). No fairness for processes
  to start a write or to end.
- *Reminders* (`RemFairness`): the clock advances, the heartbeat runs the reminder
  tick every minute, and a command that was given goes on. Nobody has to give one.
- *Routines* (`FairRtSpec`): a run goes on to its end (its handler returns or raises)
  and `routine_tick` comes every minute.
- *Pairing* (`FairPairSpec`): only that time passes. Guesses may go on for ever.
- *Turns* (`FairTurnsSpec`): the runner thread goes on, a stage returns or raises,
  and a relay that is attached reads on.
- `Heartbeats` has no liveness property: what it owes is bounded by counters
  (`SkipIsOwed`).
- Nothing is fair about answering, claiming, compacting, crashing, or sending
  successfully.

## 4. Proofs

All proofs are by TLAPS, for every value of the constants under the named
assumptions (`AbortsAssumption`, `NoneAssumption`, `LedgerAssumption`,
`ArchiveAssumption`, `HeartbeatAssumption`, `RoutineAssumption`, `PairingAssumption`,
`ReminderAssumption`, `TurnsAssumption`): bounds are naturals, null values are no ids
and no rows, events are no writers, ticks and commands are different processes,
threads and codes are finitely many, functions have their types. Every safety
property a passing run checks is a theorem. Strengthenings were checked by TLC on
the instance of the run before they were proved.

**`GovernedCallsProofs`: the queue.** `QueueInv == QueueTypeOK /\ ClaimedIsApproved /\
DueIsOver /\ AnnouncedIsOver /\ LapseIsAccountedFor`. `DueIsOver` is the
strengthening: what a sweep carries is past its deadline, and once it has updated,
settled; without it `AnnouncedIsOver` is not inductive, since an announcement looks
at no status. From it follow the theorems on the four invariants, `DecisionsAreFinal`
(an action property) and `QueueImplementsContract` (refinement; a claim maps to
`Use`, an `UPDATE` of a sweep to one `Lapse` of a set).

**`GovernedCallsProofs`: the calls.** `CallInv == QueueInv /\ TypeOK /\ CallPart`, with
`CallPart` made of `AtWork` (a process past its start has an approval, an approved one
once it calls or tells, and a call minted for it), `CallsApart` (no call is in two processes' hands), `Belongs`
(checkpoints and calls are of rows that exist), `ClaimHeld` (between `Verify` and
the tool a deferred call has one holder, its row is claimed and it has not run) and
`RunsOnlyApproved`. The claim is
what makes `DeferredRunsOnce` inductive: a second process cannot pass `Verify`, as
`executed` is never taken back. Queue steps are lifted from the queue's part by one
lemma. Theorems: `TypeCorrect`, `DeferredAtMostOnce`, `NothingUnapprovedRuns`,
`CallsImplementContract`. On top of it `RecordPart` adds `CallRecord` (past the
write-ahead the row is there; a result is held only of a tool that was invoked, and
for a deferred call that was its one run) and `ToldWhom` (who is told what, of rows
in which state: a rejected one has run nowhere and no outcome was sent, a lapse was
read overdue). A handler's return (`Returns`) and a call's end (`Ends`) are lemmas of their own. Theorems:
`EffectsAreRecorded`, `CompletedRowsRan`,
`PendingRowsAreOwned`, `CallersAreToldTheTruth` and, an action property from the same
invariant, `OpenApprovalsStop`.

**`AuditLedgerProofs`.** `LedgerInv` is `LedgerTypeOK`, `NumbersIssued` (all numbers
in use are below `next`), `NumbersUnique`, `RowsAreNumbered`, `BatchOnly`,
`ReplayerWrote`, `AnswersAreKept` (a call that returned "kept" or "waiting" has its
row where it says), `ReplayIsWhole` (what a replay is about to drop is in the
database or set aside), `EffectIsKept`, `CommitStarts` and `StartIsRecorded`. A hole
stays a hole because a number is given out once, to a row or to a gap row. Theorems:
`LedgerTypeCorrect`, `LossIsVisible`, `EffectsAreKept`, `StartsAreRecorded`.
`GapInv`, on top of it, says where each number is: `OneTransaction` (gap rows are
claimed under SQLite's write lock), `Unwritten`, `NamedByOne` (a missing number is
named by its writer or by one gap row), `NamedIsFree` (and not while its call still
holds it) and `AllLocated`. `GapRowsNumbered` is the lemma on the gap rows of a set of missing
numbers: each gets a number of its own, in order, and their runs are apart. Theorems:
`NumbersAreAccounted`, `GapRowsAreTrue`.

**`AuditArchiveProofs`.** Under `OneLedgerPerArchive` (without it the theorems are
false, see above): `ArchiveInv` is `ArchiveTypeOK`, `LedgersAreServed`,
`MarkerIsTrue`, `CopiesAreReal`, `RunsAreOwned` (files exist only
for runs that have their archive, so a new run overwrites nothing), `NothingLost` and
`CopyInOnePlace`. Theorems: `ArchiveTypeCorrect`, `CompactionLosesNothing`,
`MarkersAreTrue`, `CopiesInOnePlace`, each of the form
`OneLedgerPerArchive /\ ArchiveSpec => []P`.

**`RoutinesProofs`.** `RtInv` is `RtTypeOK`, `HeldIsARow` and `FreshIsRow` (what a
save holds is a row, and the current one unless `stale`), `ReadWasDue` (what a tick
carries to its claim was due when it read it) and `LastAfterClaim` (`last_run_at` is
at or after the last claim unless `putBack`). The compare-and-set of `claim` joins the
last two: what it finds equal to its reading is both due and not before the last claim.
Theorems: `RtTypeCorrect`, `ScheduledRunsAreApart`, `UnracedSavesKeepRest`.

**`HeartbeatsProofs`.** `HbInv` is a part about the threads and one about the
definitions. `CountIsRuns` (`_running` is the number of handlers at work, for a finite
set of threads) is what makes `RunsAlone` inductive; `ChainsWait` (a waiting chain was
asked by a digest, and a run is in progress or has ended since) does it for
`JoinedRunEnded`; `SavedIsChoice` (what is saved is the owner's last
edit, less what was declared when he made it) gives `RestartKeepsChoice`, for any
sequence of deploys and of starts that could not read it. Theorems: `HbTypeCorrect`,
`JobRunsAlone`, `JoinedRunsEnded`, `ChoiceSurvivesRestart`. `SkipPart`, on top of it,
is what stands between a skip and the run that makes up for it, fire, retry or a run
already under way (`SlotsWork`, `SkipAnswered`); theorem `SkipsAreMadeUpFor`.

**`PairingProofs`.** `PairInv` is the store's types, `UnmintedIsNew` (a fresh code has
neither row nor device) and `CodePairsOnce`; theorem `CodesPairOnce`. `WindowPart`
(the failures are in the order of their age, so those that count are a suffix) gives
`RetryAfterRight`; `RequestPart` counts, per kind of event, the rows that requests
still hold against those that are owed, a sum over a finite set of requests, and gives
`EventsHaveOneRow`. With the types of both: `PairTypeCorrect`.

**`RemindersProofs`.** `RemInv` is the types, `RowsLive` (what a process lists or works
on is in the table, and what it follows up repeats), `SeriesGoesOn` and `SendsOnce`:
every row not in `strained` is `Clean`. A clean row has one sender at most between
claim and record; if it has none it is not "sending", and if it waits it is unheard
and has an attempt left; while it has one it is not "failed", and what the sender knows
(`got`, `spent`) is true of it. Without the last part neither `HeardOnce` nor
`MissedWasNotHeard` is inductive, since `mark_sent` and `mark_attempt_failed` write by
id alone, over whatever Done, Snooze, cancel or the digest wrote meanwhile.
`SeriesGoesOn` is inductive with `RowsLive`: each write that ends a row's waiting puts
its follow-up in the writer's hand. Theorems: `RemTypeCorrect`,
`OccurrencesAreHeardOnce`, `MissedWereNotHeard`, `RepeatingGoesOn`.

**`TurnsProofs`.** `TurnsInv` is the types, `NewestIsReachable`, and that each turn is
`Sound`: its stages are what is left of its list from some stage on, and the answer is
in words that are right for that stage: past the curator a generated answer is in
checked words, or in one of the exceptions', past the guard an intercepted one is. The steps are proved for one turn
record (it stands still, works, or moves on) and lifted to the session by one lemma, for
all but `Start` and `Unregister`. `NewestIsReachable` needs that a streamed turn is
over only through `Unregister`. Theorems: `TurnsTypeCorrect`, `StopReachesTheNewest`,
`FiledAnswersWereChecked`.

Some theorems are about properties no run lists: `DecidedForGood`,
`ClaimedIsApproved`, `AnnouncedIsOver`, `LapseIsAccountedFor`, `StartIsRecorded` and
the type invariants.

**Only model-checked.** Liveness (`OverdueSettles`, `LapseIsHeard`,
`ApprovedIsReported`, `RowSettles`, `WriteReturns`, `DueIsSent`, `SlotIsServed`,
`WindowReopens`, `AnswerIsFiled`, `RelayIsReleased`): fairness and `ENABLED` are beyond
the prover. The two findings are counterexamples, which TLC shows.

## 5. Plan

Built so far, in this order: approval contract and queue, governed calls, audit
ledger, archive, reminders; heartbeats, routines, pairing, turns; the proofs of all
their safety properties. Next:

1. Proofs: that `Overran` is the only way a send is heard twice without a cut
   (`HeardOnce` with the lease's length in place of `strained`); what the theorems on
   `AuditArchive` still hold of when two ledgers share an archive.
2. **KernelFire**: the hook chain of `GovernanceKernel.fire` (order, merging of
   decisions, fail-closed hooks, the audited flag), composed with `AuditLedger`'s
   answer; abstract specification "an effect needs every decider's allow and a row".
3. **AgenticLoop**: iterations, repeat and stall guards, pauses, evaluator halts of
   `_loop` and `run_stream`; that it ends, and that every exit has an answer.
4. **Cost and governor** (spend read before and recorded after a call; sliding
   window), **LLM arbiter** (breaker, thermal hysteresis), **continuations**,
   **tasks**; the bill reminders and `reopen` of `Reminders`; the kept runs and slot
   verdicts of `Heartbeats`.

## 6. Running

```
tlc -workers 2 -config Heartbeats.cfg MCHeartbeats            # likewise the other runs
tlapm GovernedCallsProofs.tla                                # likewise the other proof modules
```
