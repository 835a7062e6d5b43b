----------------------------- MODULE Heartbeats -----------------------------
(***************************************************************************)
(* One heartbeat of the scheduler (services/heartbeat/scheduler.py): the   *)
(* declared, effective and scheduled definition, the APScheduler job and   *)
(* the one-off retry job, the guard that lets one run go at a time, the    *)
(* run's own steps, and the digest's run_first chain that joins a run in   *)
(* progress (services/digest/run_first.py). Every map of the scheduler is  *)
(* keyed by the heartbeat's name, so one heartbeat is the whole story.     *)
(* What a run leaves in the run store is not modelled: nothing here reads  *)
(* it.                                                                     *)
(*                                                                         *)
(* The schedule is `interval:n`. Time only counts down, to the next fire   *)
(* and to the retry, so no bound on the clock is needed.                   *)
(***************************************************************************)
EXTENDS Integers, FiniteSets

CONSTANTS
    Worker,      \* threads: APScheduler's pool, API requests, the digest
    Interval,    \* the intervals a schedule can name
    Deploys,     \* the definitions heartbeats.yaml may declare
    RetryAfter,  \* retry_skipped_after_minutes; 0 when the job has none
    None         \* no definition, no job, no run, no status

Def     == [enabled : BOOLEAN, schedule : Interval]
Status  == {"success", "failed", "skipped"}
Trigger == {"schedule", "manual", "retry", "digest"}

ASSUME HeartbeatAssumption ==
    /\ Interval \subseteq Nat \ {0}
    /\ Deploys \subseteq Def /\ Deploys # {}
    /\ RetryAfter \in Nat
    /\ IsFiniteSet(Worker)
    /\ None \notin Nat /\ None \notin BOOLEAN /\ None \notin Def
    /\ None \notin [def : Def, left : Nat]
    /\ None \notin Trigger /\ None \notin Status

VARIABLES
    up,         \* the process is running
    handler,    \* the job's handler is registered (its plugin is mounted)
    declared,   \* _declared
    saved,      \* the override row in the settings store, None per field
    chosen,     \* the owner's last saved edit: [def, under], what was declared then
    effective,  \* _effective
    scheduled,  \* _definitions: the definition, or None
    job,        \* APScheduler's job: [def, left], or None
    retry,      \* what is left until the retry job runs, or None
    running,    \* _running[name]
    worker,     \* where each thread stands
    owed        \* a run ended skipped and nothing has undone that since

defVars  == <<handler, declared, saved, chosen, effective, scheduled, job>>
hbVars   == <<up, defVars, retry, running, worker, owed>>

Pc == {"idle", "asked", "waiting", "joined", "retry", "called",
       "handling", "ended", "kept"}

(* A thread: its trigger and the definition it was handed, its run's       *)
(* status, whether the job was off when the run began, and whether a run   *)
(* of the job has ended since a digest's chain asked.                      *)
Idle == [pc |-> "idle", trigger |-> None, def |-> None,
         status |-> None, off |-> FALSE, fresh |-> FALSE]
WorkerRec == [pc : Pc, trigger : Trigger \union {None}, def : Def \union {None},
              status : Status \union {None},
              off : BOOLEAN, fresh : BOOLEAN]

Nearer(left)   == IF left = None THEN None ELSE IF left > 0 THEN left - 1 ELSE 0
InPc(p)        == {w \in Worker : worker[w].pc = p}
Busy(trigger)  == {w \in Worker : worker[w].trigger = trigger}

-----------------------------------------------------------------------------
(* The definition: declared, overridden, scheduled.                        *)

(* Mutant: the override is what differs from the definition in force. *)
DiffFromEffective(d) ==
    [enabled  |-> IF d.enabled = effective.enabled THEN None ELSE d.enabled,
     schedule |-> IF d.schedule = effective.schedule THEN None ELSE d.schedule]

(* _save: only the fields that differ from the declared ones are stored.   *)
Diff(d) ==
    [enabled  |-> IF d.enabled = declared.enabled THEN None ELSE d.enabled,
     schedule |-> IF d.schedule = declared.schedule THEN None ELSE d.schedule]

(* How a start can read the override: as it was saved, not at all (the     *)
(* store raises), or with a schedule that no longer validates.             *)
Reading == {"whole", "unreadable", "badSchedule"}

(* _with_override: what cannot be used leaves the declared value. *)
WithOverride(d, r) ==
    [enabled  |-> IF r = "unreadable" \/ saved.enabled = None THEN d.enabled
                  ELSE saved.enabled,
     schedule |-> IF r # "whole" \/ saved.schedule = None THEN d.schedule
                  ELSE saved.schedule]

(* _apply: schedule d if it is on and has a handler h, else unschedule it, *)
(* its retry included. Replacing the job restarts its interval.            *)
Apply(d, h) ==
    IF d.enabled /\ h
    THEN /\ scheduled' = d
         /\ job' = [def |-> d, left |-> d.schedule]
         /\ UNCHANGED retry
    ELSE scheduled' = None /\ job' = None /\ retry' = None

Saves(d) ==
    /\ saved' = Diff(d)
    /\ chosen' = [def |-> d, under |-> declared]

(* update and reset: saved, then in force, then scheduled. *)
Change(d) ==
    /\ Saves(d)
    /\ effective' = d
    /\ Apply(d, handler)
    /\ owed' = FALSE
    /\ UNCHANGED <<up, handler, declared, running, worker>>

(* update: refused when it turns on a job that cannot run here.            *)
Update(d) ==
    /\ up /\ d # effective
    /\ d.enabled => handler
    /\ Change(d)

Reset ==
    /\ up /\ effective # declared
    /\ Change(declared)

(* register, at startup: the saved override applies to what this deploy    *)
(* declares. A plugin's handler may not be there yet.                      *)
Start(d, h, r) ==
    /\ ~up
    /\ r = "badSchedule" => saved.schedule # None
    /\ up' = TRUE /\ handler' = h
    /\ declared' = d
    /\ effective' = WithOverride(d, r)
    /\ Apply(WithOverride(d, r), h)
    /\ UNCHANGED <<saved, chosen, running, worker, owed>>

(* register by a plugin: the config row stays and is applied again, with   *)
(* the handler it may have been waiting for.                               *)
PluginRegisters ==
    /\ up /\ ~handler
    /\ handler' = TRUE
    /\ Apply(effective, TRUE)
    /\ UNCHANGED <<up, declared, saved, chosen, effective, running, worker, owed>>

(* The process ends: everything but the settings and the run store is gone.*)
ProcessEnds ==
    /\ up
    /\ up' = FALSE /\ scheduled' = None /\ job' = None /\ retry' = None
    /\ running' = 0 /\ worker' = [w \in Worker |-> Idle]
    /\ owed' = FALSE
    /\ UNCHANGED <<handler, declared, effective>>

Stop == ProcessEnds /\ UNCHANGED <<saved, chosen>>

(* It ends between the save of an edit or a reset and what follows it. *)
StopAfterSave(d) ==
    /\ d # effective
    /\ d.enabled /\ d # declared => handler
    /\ Saves(d)
    /\ ProcessEnds

-----------------------------------------------------------------------------
(* What starts a run.                                                      *)

Take(w, pc, trigger, def) ==
    /\ worker[w].pc = "idle"
    /\ worker' = [worker EXCEPT ![w] = [Idle EXCEPT !.pc = pc, !.trigger = trigger,
                                                    !.def = def]]

(* APScheduler: a due job is handed to a thread, unless its own last one   *)
(* is still at it (max_instances=1, coalesce).                             *)
Fire(w) ==
    /\ job # None /\ job.left = 0
    /\ job' = [job EXCEPT !.left = job.def.schedule]
    /\ IF Busy("schedule") = {} THEN Take(w, "called", "schedule", job.def)
                                ELSE UNCHANGED worker
    /\ UNCHANGED <<up, handler, declared, saved, chosen, effective, scheduled,
                   retry, running, owed>>

(* APScheduler: the retry job is due; it is gone once it has been handed   *)
(* to a thread.                                                            *)
FireRetry(w) ==
    /\ retry = 0
    /\ retry' = None
    /\ Take(w, "retry", "retry", None)
    /\ UNCHANGED <<up, defVars, running, owed>>

(* retry(): the job as it is then, turned off or changed since the skip.   *)
RetryReads(w) ==
    /\ worker[w].pc = "retry"
    /\ worker' = [worker EXCEPT ![w] =
         IF scheduled = None THEN Idle ELSE [@ EXCEPT !.pc = "called", !.def = scheduled]]
    /\ UNCHANGED <<up, defVars, retry, running, owed>>

(* trigger_by_name: Run now, the health watch's re-run.                    *)
TriggerByName(w) ==
    /\ scheduled # None
    /\ Take(w, "called", "manual", scheduled)
    /\ UNCHANGED <<up, defVars, retry, running, owed>>

(* run_first: a job that is on is run before the digest renders ...        *)
RunFirst(w) ==
    /\ up /\ effective.enabled /\ handler
    /\ Take(w, "asked", "digest", None)
    /\ UNCHANGED <<up, defVars, retry, running, owed>>

(* ... or waited for when a run of it is in progress.                      *)
RunFirstLooks(w) ==
    /\ worker[w].pc = "asked"
    /\ worker' = [worker EXCEPT ![w] =
         IF running > 0 THEN [@ EXCEPT !.pc = "waiting"]
         ELSE IF scheduled = None THEN Idle
         ELSE [@ EXCEPT !.pc = "called", !.def = scheduled]]
    /\ UNCHANGED <<up, defVars, retry, running, owed>>

(* Mutant: the chain does not wait for the run it joins. *)
JoinedAtOnce(w) ==
    /\ worker[w].pc = "waiting"
    /\ worker' = [worker EXCEPT ![w].pc = "joined"]
    /\ UNCHANGED <<up, defVars, retry, running, owed>>

(* wait_until_idle: returns once no run is in progress, or when the budget *)
(* is spent.                                                               *)
Joined(w) ==
    /\ worker[w].pc = "waiting" /\ running = 0
    /\ worker' = [worker EXCEPT ![w].pc = "joined"]
    /\ UNCHANGED <<up, defVars, retry, running, owed>>

ChainEnds(w) ==
    /\ worker[w].pc \in {"waiting", "joined"}
    /\ worker' = [worker EXCEPT ![w] = Idle]
    /\ UNCHANGED <<up, defVars, retry, running, owed>>

-----------------------------------------------------------------------------
(* A run.                                                                  *)

(* Mutant: no guard. *)
NeverRunning(w) == FALSE

(* The guard: a job that is scheduled and in progress is not started. *)
AlreadyRunning(w) == running > 0 /\ scheduled # None

(* _invoke, checked and claimed under one lock. A refused chain waits for  *)
(* the run that is in its way.                                             *)
Enter(w) ==
    /\ worker[w].pc = "called"
    /\ IF AlreadyRunning(w)
       THEN /\ worker' = [worker EXCEPT ![w] =
                 IF @.trigger = "digest" THEN [@ EXCEPT !.pc = "waiting"] ELSE Idle]
            /\ UNCHANGED <<running, owed>>
       ELSE /\ worker' = [worker EXCEPT ![w].pc = "handling",
                                        ![w].off = scheduled = None]
            /\ running' = running + 1
            /\ owed' = FALSE
    /\ UNCHANGED <<up, defVars, retry>>

(* The handler returns or raises; the count goes down and the waiters are  *)
(* notified before anything of the run is written.                         *)
HandlerEnds(w, s) ==
    /\ worker[w].pc = "handling"
    /\ running' = running - 1
    /\ worker' = [v \in Worker |->
         IF v = w THEN [worker[v] EXCEPT !.pc = "ended", !.status = s]
         ELSE IF worker[v].trigger = "digest" THEN [worker[v] EXCEPT !.fresh = TRUE]
         ELSE worker[v]]
    /\ owed' = (s = "skipped")
    /\ UNCHANGED <<up, defVars, retry>>

(* _keep: the run is written to the run store, after the count went down.  *)
Keep(w) ==
    /\ worker[w].pc = "ended"
    /\ worker' = [worker EXCEPT ![w].pc = "kept"]
    /\ UNCHANGED <<up, defVars, retry, running, owed>>

(* Mutant: the comparison with the next slot the wrong way round. *)
ScheduleRetryIfSooner ==
    IF RetryAfter = 0 \/ (job # None /\ job.left >= RetryAfter)
    THEN UNCHANGED retry
    ELSE retry' = RetryAfter

(* _schedule_retry, unless the next slot comes first.                      *)
ScheduleRetry ==
    IF RetryAfter = 0 \/ (job # None /\ job.left <= RetryAfter)
    THEN UNCHANGED retry
    ELSE retry' = RetryAfter

(* The end of _invoke: a skipped run owes a retry, any other cancels it.   *)
Settle(w) ==
    /\ worker[w].pc = "kept"
    /\ IF worker[w].status = "skipped"
       THEN ScheduleRetry /\ UNCHANGED owed
       ELSE retry' = None /\ owed' = FALSE
    /\ worker' = [worker EXCEPT ![w] = Idle]
    /\ UNCHANGED <<up, defVars, running>>

-----------------------------------------------------------------------------
(* Time: what is waited for comes nearer.                                  *)
Tick ==
    /\ job' = IF job = None THEN None ELSE [job EXCEPT !.left = Nearer(@)]
    /\ retry' = Nearer(retry)
    /\ UNCHANGED <<up, handler, declared, saved, chosen, effective, scheduled,
                   running, worker, owed>>

HbInit ==
    /\ up = TRUE /\ handler = TRUE
    /\ declared \in Deploys
    /\ saved = [enabled |-> None, schedule |-> None]
    /\ chosen = [def |-> declared, under |-> declared]
    /\ effective = declared
    /\ scheduled = IF declared.enabled THEN declared ELSE None
    /\ job = IF declared.enabled
             THEN [def |-> declared, left |-> declared.schedule] ELSE None
    /\ retry = None /\ running = 0
    /\ worker = [w \in Worker |-> Idle]
    /\ owed = FALSE

OwnerStep == Reset \/ \E d \in Def : Update(d)
ProcessStep ==
    \/ Stop \/ (\E d \in Def : StopAfterSave(d)) \/ PluginRegisters
    \/ \E d \in Deploys, h \in BOOLEAN, r \in Reading : Start(d, h, r)
StartStep(w) ==
    \/ Fire(w) \/ FireRetry(w) \/ TriggerByName(w) \/ RunFirst(w)
RunStep(w) ==
    \/ RetryReads(w) \/ RunFirstLooks(w) \/ Joined(w) \/ ChainEnds(w)
    \/ Enter(w) \/ (\E s \in Status : HandlerEnds(w, s)) \/ Keep(w) \/ Settle(w)

HbNext ==
    \/ Tick \/ OwnerStep \/ ProcessStep
    \/ \E w \in Worker : StartStep(w) \/ RunStep(w)

HbSpec == HbInit /\ [][HbNext]_hbVars

-----------------------------------------------------------------------------
(* Every variable has its type. *)
HbTypeOK ==
    /\ up \in BOOLEAN /\ handler \in BOOLEAN
    /\ declared \in Def /\ effective \in Def
    /\ saved \in [enabled : BOOLEAN \union {None}, schedule : Interval \union {None}]
    /\ chosen \in [def : Def, under : Def]
    /\ scheduled \in Def \union {None}
    /\ job \in [def : Def, left : Nat] \union {None}
    /\ retry \in 0 .. RetryAfter \union {None}
    /\ running \in Nat
    /\ worker \in [Worker -> WorkerRec]
    /\ owed \in BOOLEAN

(* Two runs of the job are in progress together only if one of them began  *)
(* while the job was off: the schedule, Run now, the retry and the digest  *)
(* share one guard, whatever order they reach _invoke in.                  *)
RunsAlone ==
    \A v, w \in InPc("handling") : v = w \/ worker[v].off \/ worker[w].off

(* A digest that reports it joined a run renders after a run of that job   *)
(* has ended since it asked: neither the check before the trigger nor the  *)
(* refusal of the trigger can make it join a run that was already over.    *)
JoinedRunEnded == \A w \in InPc("joined") : worker[w].fresh

(* After a run ended skipped, one is due within retry_skipped_after_minutes:*)
(* the retry, or the next slot that made it unnecessary. Until the owner   *)
(* edits the job, another run begins, or an earlier run that did not skip  *)
(* comes to its end so late that it cancels this one's retry.              *)
SkipIsOwed ==
    owed /\ job # None /\ RetryAfter > 0
         /\ (\A w \in Worker : worker[w].pc \in {"idle", "asked", "waiting", "joined"})
    => retry # None \/ job.left <= RetryAfter

(* The owner's last edit under a declaration d: the fields he moved stay,  *)
(* the others follow d.                                                    *)
Kept(d) ==
    [enabled  |-> IF chosen.def.enabled = chosen.under.enabled THEN d.enabled
                  ELSE chosen.def.enabled,
     schedule |-> IF chosen.def.schedule = chosen.under.schedule THEN d.schedule
                  ELSE chosen.def.schedule]

(* The owner's last edit survives restarts, the one that cut it short      *)
(* after the save included: a start that can read the override brings back *)
(* every field he moved, under the same or a newer heartbeats.yaml, and    *)
(* although starts in between could not read it or declared something      *)
(* else. A schedule that no longer validates costs the schedule alone, a   *)
(* store that cannot be read the edit until the next start; what is lost   *)
(* is as declared.                                                         *)
RestartKeepsChoice ==
    [][\A d \in Deploys, h \in BOOLEAN, r \in Reading : Start(d, h, r) =>
          effective' = CASE r = "whole"       -> Kept(d)
                         [] r = "badSchedule" -> [Kept(d) EXCEPT !.schedule = d.schedule]
                         [] r = "unreadable"  -> d]_hbVars
=============================================================================
