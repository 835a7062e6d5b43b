------------------------------ MODULE Routines ------------------------------
(***************************************************************************)
(* One routine: its row in the routine store (services/routines/store.py), *)
(* the routine_tick that claims a due slot and runs it, a manual run, the  *)
(* owner's edits through the API, and the in-process guard of              *)
(* execute_routine (runtime/handlers/ticks.py). Every statement of the     *)
(* store names one id, so one routine is the whole story.                  *)
(*                                                                         *)
(* Threads live in processes: the harness and a CLI share the store and    *)
(* nothing else. save writes the whole row, so a save whose load is old    *)
(* undoes what was written in between; `stale` marks such a save. The      *)
(* schedule is `interval:n`.                                               *)
(***************************************************************************)
EXTENDS Integers

CONSTANTS
    Thread,    \* heartbeat threads, API requests, CLI commands
    Ticker,    \* the heartbeat threads: they only tick
    Process,   \* the processes that open the store
    ProcOf,    \* the process of a thread
    Every,     \* the interval of the schedule
    MaxTime,   \* the bound on the clock
    MaxCrash,  \* the bound on how often a process ends
    None       \* no row, no time

Time == 0 .. MaxTime

ASSUME RoutineAssumption ==
    /\ ProcOf \in [Thread -> Process] /\ Ticker \subseteq Thread
    /\ Every \in Nat \ {0} /\ MaxTime \in Nat /\ MaxCrash \in Nat
    /\ None \notin Int /\ None \notin [status : {"on", "off"}, last : Time \union {None}]

VARIABLES
    now,      \* the clock
    row,      \* the routine: [status, last], or None once deleted
    thread,   \* where each thread stands
    running,  \* the processes whose _routines_running holds the routine
    claimed,  \* the time of the last claim
    putBack,  \* a save has put last_run_at back since that claim
    owed,     \* the processes whose claimed slot still waits for an execution to end
    crashes   \* how often a process has ended

rtVars == <<now, row, thread, running, claimed, putBack, owed, crashes>>

(* "on" is approved or scheduled, "off" every other status. *)
Row == [status : {"on", "off"}, last : Time \union {None}]
Pc  == {"idle", "due", "starting", "running", "recording", "saving", "finishing",
        "patching"}

(* A thread: whether it is the tick, its checked_at, the last_run_at a     *)
(* tick read, the row a save is made from, and whether the row was written *)
(* since that was loaded.                                                  *)
Idle == [pc |-> "idle", tick |-> FALSE, at |-> 0, read |-> None, snap |-> None,
         stale |-> FALSE]
ThreadRec == [pc : Pc, tick : BOOLEAN, at : Time, read : Time \union {None},
              snap : Row \union {None}, stale : BOOLEAN]

Holds(t)        == thread[t].pc \in {"saving", "patching"}
Ticking(p)      == \E t \in Thread : ProcOf[t] = p /\ thread[t].tick
Older(one, two) == two # None /\ (one = None \/ one < two)

(* _routine_is_due, of a row list_executable returned. *)
Due(r, at) == r.status = "on" /\ (r.last # None => at - r.last >= Every)

(* Thread t goes on to rec, and the row was written: what others hold of   *)
(* it is old.                                                              *)
Wrote(t, rec) ==
    thread' = [v \in Thread |-> IF v = t THEN rec
                                ELSE IF Holds(v) THEN [thread[v] EXCEPT !.stale = TRUE]
                                ELSE thread[v]]

Becomes(t, rec) == thread' = [thread EXCEPT ![t] = rec]

(* RoutineStore.save: an upsert of every column. *)
Save(r) ==
    /\ row' = r
    /\ putBack' = (putBack \/ row = None \/ Older(r.last, row.last))

-----------------------------------------------------------------------------
(* What starts a run.                                                      *)

(* routine_tick, one at a time in a process: list_due. *)
ListDue(t) ==
    /\ thread[t].pc = "idle" /\ ~Ticking(ProcOf[t])
    /\ row # None /\ Due(row, now)
    /\ Becomes(t, [Idle EXCEPT !.pc = "due", !.tick = TRUE, !.at = now, !.read = row.last])
    /\ UNCHANGED <<now, row, running, claimed, putBack, owed, crashes>>

(* Mutant: claim without the comparison. *)
ClaimAlways(t) == row # None

(* claim's UPDATE ... WHERE last_run_at IS what the tick read. *)
ClaimMatches(t) == row # None /\ row.last = thread[t].read

(* claim: last_run_at moves to checked_at for one caller; whoever finds it *)
(* moved drops the slot. Nothing but last_run_at is compared or written.   *)
Claim(t) ==
    /\ thread[t].pc = "due"
    /\ IF ClaimMatches(t)
       THEN /\ row' = [row EXCEPT !.last = thread[t].at]
            /\ claimed' = thread[t].at /\ putBack' = FALSE
            /\ owed' = owed \union {ProcOf[t]}
            /\ Wrote(t, [thread[t] EXCEPT !.pc = "starting", !.read = None])
       ELSE /\ Becomes(t, Idle)
            /\ UNCHANGED <<row, claimed, putBack, owed>>
    /\ UNCHANGED <<now, running, crashes>>

(* run_routine: loaded and run whatever its status or slot. *)
RunRoutine(t) ==
    /\ t \notin Ticker /\ thread[t].pc = "idle" /\ row # None
    /\ Becomes(t, [Idle EXCEPT !.pc = "starting", !.at = now])
    /\ UNCHANGED <<now, row, running, claimed, putBack, owed, crashes>>

-----------------------------------------------------------------------------
(* A run.                                                                  *)

(* execute_routine: a second run in the process is skipped, unrecorded. *)
ExecuteRoutine(t) ==
    /\ thread[t].pc = "starting"
    /\ IF ProcOf[t] \in running
       THEN Becomes(t, Idle) /\ UNCHANGED running
       ELSE /\ Becomes(t, [thread[t] EXCEPT !.pc = "running"])
            /\ running' = running \union {ProcOf[t]}
    /\ UNCHANGED <<now, row, claimed, putBack, owed, crashes>>

(* The handler returns; success or failure is counted alike. *)
RunEnds(t) ==
    /\ thread[t].pc = "running"
    /\ Becomes(t, [thread[t] EXCEPT !.pc = "recording"])
    /\ UNCHANGED <<now, row, running, claimed, putBack, owed, crashes>>

(* Mutant: the run saves the routine it was handed when it was due. *)
RecordWithoutLoad(t) ==
    /\ thread[t].pc = "recording"
    /\ Becomes(t, [thread[t] EXCEPT !.pc = "saving",
                      !.snap = [status |-> "on", last |-> thread[t].at]])
    /\ UNCHANGED <<now, row, running, claimed, putBack, owed, crashes>>

(* record_run loads the row as it is then ... *)
RecordLoads(t) ==
    /\ thread[t].pc = "recording"
    /\ Becomes(t, IF row = None THEN [thread[t] EXCEPT !.pc = "finishing"]
                  ELSE [thread[t] EXCEPT !.pc = "saving", !.snap = row])
    /\ UNCHANGED <<now, row, running, claimed, putBack, owed, crashes>>

(* ... and saves it with last_run_at = checked_at, when the run began. *)
RecordSaves(t) ==
    /\ thread[t].pc = "saving"
    /\ Save([thread[t].snap EXCEPT !.last = thread[t].at])
    /\ Wrote(t, [thread[t] EXCEPT !.pc = "finishing", !.snap = None, !.stale = FALSE])
    /\ UNCHANGED <<now, running, claimed, owed, crashes>>

(* Mutant: the routine stays in _routines_running. *)
FinishKeepsKey(t) ==
    /\ thread[t].pc = "finishing"
    /\ owed' = owed \ {ProcOf[t]}
    /\ Becomes(t, Idle)
    /\ UNCHANGED <<now, row, running, claimed, putBack, crashes>>

(* The finally of execute_routine. *)
Finish(t) ==
    /\ thread[t].pc = "finishing"
    /\ running' = running \ {ProcOf[t]}
    /\ owed' = owed \ {ProcOf[t]}
    /\ Becomes(t, Idle)
    /\ UNCHANGED <<now, row, claimed, putBack, crashes>>

-----------------------------------------------------------------------------
(* What raises.                                                            *)

(* The tick claims every due routine and only then runs them, one after    *)
(* the other: a claim of its own that raises, a later claim that does, or  *)
(* a neighbour's run that does ends it. A slot it had claimed is left      *)
(* unrun, unless a run of the routine is in progress in the process.       *)
TickRaises(t) ==
    /\ thread[t].tick /\ thread[t].pc \in {"due", "starting"}
    /\ owed' = IF thread[t].pc = "starting" /\ ProcOf[t] \notin running
               THEN owed \ {ProcOf[t]} ELSE owed
    /\ Becomes(t, Idle)
    /\ UNCHANGED <<now, row, running, claimed, putBack, crashes>>

(* _execute_routine_run raises, in what it prepares or in record_run: the  *)
(* row is as it was, and the finally is still to come.                     *)
RunRaises(t) ==
    /\ thread[t].pc \in {"running", "recording", "saving"}
    /\ Becomes(t, [thread[t] EXCEPT !.pc = "finishing", !.snap = None, !.stale = FALSE])
    /\ UNCHANGED <<now, row, running, claimed, putBack, owed, crashes>>

-----------------------------------------------------------------------------
(* The owner.                                                              *)

(* PATCH loads the row, then saves it with s as its new status, or None    *)
(* when other fields change.                                               *)
PatchLoads(t) ==
    /\ t \notin Ticker /\ thread[t].pc = "idle" /\ row # None
    /\ Becomes(t, [Idle EXCEPT !.pc = "patching", !.snap = row])
    /\ UNCHANGED <<now, row, running, claimed, putBack, owed, crashes>>

PatchSaves(t, s) ==
    /\ thread[t].pc = "patching"
    /\ Save(IF s = None THEN thread[t].snap ELSE [thread[t].snap EXCEPT !.status = s])
    /\ Wrote(t, Idle)
    /\ UNCHANGED <<now, running, claimed, owed, crashes>>

Delete(t) ==
    /\ t \notin Ticker /\ thread[t].pc = "idle" /\ row # None
    /\ row' = None
    /\ Wrote(t, Idle)
    /\ UNCHANGED <<now, running, claimed, putBack, owed, crashes>>

-----------------------------------------------------------------------------
(* A process ends: its threads and its guard are gone, the row stays. *)
Crash(p) ==
    /\ crashes < MaxCrash /\ crashes' = crashes + 1
    /\ \E t \in Thread : ProcOf[t] = p /\ thread[t].pc # "idle"
    /\ thread' = [t \in Thread |-> IF ProcOf[t] = p THEN Idle ELSE thread[t]]
    /\ running' = running \ {p}
    /\ owed' = owed \ {p}
    /\ UNCHANGED <<now, row, claimed, putBack>>

Tick ==
    /\ now < MaxTime
    /\ now' = now + 1
    /\ UNCHANGED <<row, thread, running, claimed, putBack, owed, crashes>>

RtInit ==
    /\ now = 0
    /\ row = [status |-> "on", last |-> None]
    /\ thread = [t \in Thread |-> Idle]
    /\ running = {}
    /\ claimed = None /\ putBack = FALSE
    /\ owed = {} /\ crashes = 0

RunStep(t) ==
    \/ Claim(t) \/ ExecuteRoutine(t) \/ RunEnds(t)
    \/ RecordLoads(t) \/ RecordSaves(t) \/ Finish(t)
Raises(t) == TickRaises(t) \/ RunRaises(t)
OwnerStep(t) ==
    \/ PatchLoads(t) \/ (\E s \in {"on", "off", None} : PatchSaves(t, s)) \/ Delete(t)

RtNext ==
    \/ Tick
    \/ \E t \in Thread : ListDue(t) \/ RunRoutine(t) \/ RunStep(t) \/ OwnerStep(t) \/ Raises(t)
    \/ \E p \in Process : Crash(p)

RtSpec == RtInit /\ [][RtNext]_rtVars

(* A run goes on to its end and the tick comes every minute; the owner,    *)
(* what raises and the crash owe nothing.                                  *)
FairRtSpec ==
    /\ RtSpec
    /\ \A t \in Thread : WF_rtVars(RunStep(t))
    /\ \A t \in Ticker : WF_rtVars(ListDue(t))

-----------------------------------------------------------------------------
(* Every variable has its type. *)
RtTypeOK ==
    /\ now \in Time
    /\ row \in Row \union {None}
    /\ thread \in [Thread -> ThreadRec]
    /\ running \in SUBSET Process
    /\ claimed \in Time \union {None}
    /\ putBack \in BOOLEAN
    /\ owed \in SUBSET Process
    /\ crashes \in 0 .. MaxCrash

(* Scheduled runs are at least an interval apart, whichever processes'     *)
(* ticks read the routine as due: a slot is claimed twice only when a save *)
(* from an old load, or a manual run that began earlier, has put           *)
(* last_run_at back.                                                       *)
SlotsAreApart ==
    [][\A t \in Thread :
          /\ thread[t].pc = "due" /\ thread'[t].pc = "starting"
          /\ claimed # None /\ ~putBack
          => thread[t].at - claimed >= Every]_rtVars

(* A save changes only what it is about unless it lost a race: a run that  *)
(* ends, however long it took and whatever the owner did meanwhile, keeps  *)
(* the status he gave the routine and does not bring a deleted one back,   *)
(* and an edit keeps last_run_at.                                          *)
UnracedSaveKeepsRest ==
    [][\A t \in Thread :
          Holds(t) /\ ~thread[t].stale /\ thread'[t].pc \in {"finishing", "idle"} =>
             \/ row' = row
             \/ /\ row # None /\ row' # None
                /\ IF thread[t].pc = "saving" THEN row'.status = row.status
                                             ELSE row'.last = row.last]_rtVars

(* A claimed slot is served: an execution of the routine comes to its end, *)
(* recorded or not, in the process that claimed it, its own or the one     *)
(* that was in progress. Two things excuse it: the process ends, or        *)
(* another routine of the tick raises between the claims and this run,     *)
(* and the slot is lost although the process lives on.                     *)
SlotIsServed == \A p \in Process : p \in owed ~> p \notin owed
=============================================================================
