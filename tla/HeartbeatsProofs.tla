-------------------------- MODULE HeartbeatsProofs --------------------------
(***************************************************************************)
(* One run of a heartbeat at a time, a digest that joins only a run that   *)
(* ends, a skipped run that is made up for, and an owner's choice that     *)
(* survives a restart, for any number of threads, intervals and deployed   *)
(* definitions. HbInv carries the guard's count and the saved override;    *)
(* SkipPart, on top of it, what stands between a skip and the next run.    *)
(***************************************************************************)
EXTENDS Heartbeats, FiniteSetTheorems, TLAPS

(* _running counts the runs whose handler is at work. *)
CountIsRuns == running = Cardinality(InPc("handling"))

(* A chain that waits was asked by a digest, and a run is in progress or   *)
(* has ended since.                                                        *)
ChainsWait ==
    \A w \in Worker :
        /\ worker[w].pc \in {"asked", "waiting"} => worker[w].trigger = "digest"
        /\ worker[w].pc = "waiting" => worker[w].fresh \/ running > 0

(* The saved override is what the owner's last edit moved. *)
SavedIsChoice ==
    /\ saved.enabled = IF chosen.def.enabled = chosen.under.enabled THEN None
                       ELSE chosen.def.enabled
    /\ saved.schedule = IF chosen.def.schedule = chosen.under.schedule THEN None
                        ELSE chosen.def.schedule

(* What the threads' steps keep. *)
WorkerPart ==
    /\ worker \in [Worker -> WorkerRec] /\ running \in Nat
    /\ CountIsRuns /\ ChainsWait /\ RunsAlone /\ JoinedRunEnded

(* What the owner's, the process's and the clock's steps keep. *)
DefPart ==
    /\ up \in BOOLEAN /\ handler \in BOOLEAN /\ owed \in BOOLEAN
    /\ declared \in Def /\ effective \in Def
    /\ saved \in [enabled : BOOLEAN \union {None}, schedule : Interval \union {None}]
    /\ chosen \in [def : Def, under : Def]
    /\ scheduled \in Def \union {None}
    /\ job \in [def : Def, left : Nat] \union {None}
    /\ retry \in 0 .. RetryAfter \union {None}
    /\ SavedIsChoice

HbInv == WorkerPart /\ DefPart

(* The parts hold the type invariant. *)
LEMMA InvIsTyped == HbInv => HbTypeOK
BY DEF HbInv, WorkerPart, DefPart, HbTypeOK

-----------------------------------------------------------------------------
(* Threads.                                                                *)

(* No definition, status or trigger is None. *)
LEMMA IdleIsTyped == Idle \in WorkerRec /\ Idle.pc = "idle"
BY DEF Idle, WorkerRec, Pc

(* The runs in progress are finitely many. *)
LEMMA RunsFinite == IsFiniteSet(InPc("handling")) /\ Cardinality(InPc("handling")) \in Nat
<1>1. IsFiniteSet(Worker) /\ InPc("handling") \subseteq Worker
  BY HeartbeatAssumption DEF InPc
<1> QED
  BY <1>1, FS_Subset, FS_CardinalityType

(* A thread that neither begins nor ends a run keeps the threads' part. *)
LEMMA OneMoves ==
    ASSUME WorkerPart, NEW w \in Worker, NEW rec \in WorkerRec,
           worker' = [worker EXCEPT ![w] = rec], UNCHANGED running,
           worker[w].pc # "handling", rec.pc # "handling",
           rec.pc \in {"asked", "waiting"} => rec.trigger = "digest",
           rec.pc = "waiting" => rec.fresh \/ running > 0,
           rec.pc = "joined" => rec.fresh
    PROVE  WorkerPart'
<1>1. worker \in [Worker -> WorkerRec] /\ running \in Nat
  BY DEF WorkerPart
<1>2. worker' \in [Worker -> WorkerRec]
  BY <1>1
<1>3. /\ worker'[w] = rec
      /\ \A v \in Worker \ {w} : worker'[v] = worker[v]
  BY <1>1
<1>4. InPc("handling")' = InPc("handling")
  BY <1>3 DEF InPc
<1>5. CountIsRuns'
  BY <1>4 DEF WorkerPart, CountIsRuns
<1>6. ChainsWait'
  BY <1>3 DEF WorkerPart, ChainsWait
<1>7. RunsAlone'
  BY <1>3, <1>4 DEF WorkerPart, RunsAlone, InPc
<1>8. JoinedRunEnded'
  BY <1>3 DEF WorkerPart, JoinedRunEnded, InPc
<1> QED
  BY <1>1, <1>2, <1>5, <1>6, <1>7, <1>8 DEF WorkerPart

(* A run that the guard lets in is alone, or begins while the job is off. *)
LEMMA RunBegins ==
    ASSUME WorkerPart, NEW w \in Worker, worker[w].pc = "called", ~AlreadyRunning(w),
           worker' = [worker EXCEPT ![w].pc = "handling", ![w].off = scheduled = None],
           running' = running + 1
    PROVE  WorkerPart'
<1>1. worker \in [Worker -> WorkerRec] /\ running \in Nat
  BY DEF WorkerPart
<1>2. /\ worker'[w] = [worker[w] EXCEPT !.pc = "handling", !.off = scheduled = None]
      /\ \A v \in Worker \ {w} : worker'[v] = worker[v]
  BY <1>1
<1>3. worker'[w] \in WorkerRec /\ worker'[w].pc = "handling"
  <2>1. "handling" \in Pc
    BY DEF Pc
  <2>2. (scheduled = None) \in BOOLEAN
    OBVIOUS
  <2>3. ASSUME NEW off \in BOOLEAN
        PROVE  /\ [worker[w] EXCEPT !.pc = "handling", !.off = off] \in WorkerRec
               /\ [worker[w] EXCEPT !.pc = "handling", !.off = off].pc = "handling"
    BY <1>1, <2>1 DEF WorkerRec
  <2> QED
    BY <1>2, <2>2, <2>3
<1>4. worker'[w].off = (scheduled = None)
  BY <1>1, <1>2 DEF WorkerRec
<1>5. worker' \in [Worker -> WorkerRec]
  BY <1>1, <1>2, <1>3
<1>6. InPc("handling")' = InPc("handling") \union {w} /\ w \notin InPc("handling")
  BY <1>2, <1>3 DEF InPc
<1>7. CountIsRuns'
  BY <1>6, RunsFinite, FS_AddElement DEF WorkerPart, CountIsRuns
<1>8. ChainsWait'
  BY <1>1, <1>2, <1>3 DEF WorkerPart, ChainsWait
<1>9. JoinedRunEnded'
  BY <1>2, <1>3 DEF WorkerPart, JoinedRunEnded, InPc
<1>10. RunsAlone'
  <2>1. CASE scheduled = None
    BY <1>2, <1>4, <1>6, <2>1 DEF WorkerPart, RunsAlone, InPc
  <2>2. CASE running = 0
    <3>1. InPc("handling") = {}
      BY <2>2, RunsFinite, FS_EmptySet DEF WorkerPart, CountIsRuns
    <3> QED
      BY <1>6, <3>1 DEF RunsAlone
  <2> QED
    BY <1>1, <2>1, <2>2 DEF AlreadyRunning
<1> QED
  BY <1>1, <1>5, <1>7, <1>8, <1>9, <1>10 DEF WorkerPart

(* A run that ends is counted out, and every waiting chain learns of it. *)
LEMMA RunEnds ==
    ASSUME WorkerPart, NEW w \in Worker, NEW s \in Status, HandlerEnds(w, s)
    PROVE  WorkerPart'
<1>1. worker \in [Worker -> WorkerRec] /\ running \in Nat /\ worker[w].pc = "handling"
  BY DEF WorkerPart, HandlerEnds
<1>2. /\ worker'[w] \in WorkerRec /\ worker'[w].pc = "ended"
  BY <1>1 DEF HandlerEnds, WorkerRec, Pc
<1>3. ASSUME NEW v \in Worker \ {w}
      PROVE  /\ worker'[v] \in WorkerRec
             /\ worker'[v].pc = worker[v].pc /\ worker'[v].trigger = worker[v].trigger
             /\ worker'[v].off = worker[v].off
             /\ worker'[v].fresh = (worker[v].fresh \/ worker[v].trigger = "digest")
  <2>1. CASE worker[v].trigger = "digest"
    BY <1>1, <2>1 DEF HandlerEnds, WorkerRec
  <2>2. CASE worker[v].trigger # "digest"
    <3>1. worker'[v] = worker[v] /\ worker[v].fresh \in BOOLEAN
      BY <1>1, <2>2 DEF HandlerEnds, WorkerRec
    <3> QED
      BY <1>1, <2>2, <3>1
  <2> QED
    BY <2>1, <2>2
<1>4. worker' \in [Worker -> WorkerRec]
  <2>1. \A v \in Worker : worker'[v] \in WorkerRec
    BY <1>2, <1>3
  <2>2. worker' = [v \in Worker |-> worker'[v]]
    BY DEF HandlerEnds
  <2> QED
    BY <2>1, <2>2
<1>5. InPc("handling")' = InPc("handling") \ {w} /\ w \in InPc("handling")
  BY <1>1, <1>2, <1>3 DEF InPc
<1>6. CountIsRuns' /\ running' \in Nat
  <2>1. /\ IsFiniteSet(InPc("handling") \ {w})
        /\ Cardinality(InPc("handling") \ {w}) = Cardinality(InPc("handling")) - 1
        /\ Cardinality(InPc("handling") \ {w}) \in Nat
    BY <1>5, RunsFinite, FS_RemoveElement, FS_CardinalityType
  <2> QED
    BY <1>5, <2>1 DEF WorkerPart, CountIsRuns, HandlerEnds
<1>7. ChainsWait'
  BY <1>2, <1>3 DEF WorkerPart, ChainsWait
<1>8. RunsAlone'
  BY <1>3, <1>5 DEF WorkerPart, RunsAlone, InPc
<1>9. JoinedRunEnded'
  BY <1>2, <1>3 DEF WorkerPart, JoinedRunEnded, InPc
<1> QED
  BY <1>4, <1>6, <1>7, <1>8, <1>9 DEF WorkerPart

(* With every thread idle and no run counted, the threads' part holds. *)
LEMMA AllIdle ==
    ASSUME worker = [w \in Worker |-> Idle], running = 0
    PROVE  WorkerPart
<1>1. \A w \in Worker : worker[w] \in WorkerRec /\ worker[w].pc = "idle"
  BY IdleIsTyped
<1>2. InPc("handling") = {} /\ InPc("joined") = {}
  BY <1>1 DEF InPc
<1>3. CountIsRuns
  BY <1>2, FS_EmptySet DEF CountIsRuns
<1> QED
  BY <1>1, <1>2, <1>3, IdleIsTyped DEF WorkerPart, ChainsWait, RunsAlone, JoinedRunEnded

-----------------------------------------------------------------------------
(* Definitions.                                                            *)

(* What Apply writes has its type. *)
LEMMA ApplyIsTyped ==
    ASSUME DefPart, NEW d \in Def, NEW h \in BOOLEAN, Apply(d, h)
    PROVE  /\ scheduled' \in Def \union {None}
           /\ job' \in [def : Def, left : Nat] \union {None}
           /\ retry' \in 0 .. RetryAfter \union {None}
<1>1. d.schedule \in Nat
  BY HeartbeatAssumption DEF Def
<1> QED
  BY <1>1 DEF Apply, DefPart

(* What an edit saves is what it moved. *)
LEMMA SaveIsChoice ==
    ASSUME NEW d \in Def, declared \in Def, Saves(d)
    PROVE  /\ saved' \in [enabled : BOOLEAN \union {None}, schedule : Interval \union {None}]
           /\ chosen' \in [def : Def, under : Def]
           /\ SavedIsChoice'
<1>1. /\ d.enabled \in BOOLEAN /\ declared.enabled \in BOOLEAN
      /\ d.schedule \in Interval /\ declared.schedule \in Interval
  BY DEF Def
<1>2. saved' \in [enabled : BOOLEAN \union {None}, schedule : Interval \union {None}]
  BY <1>1 DEF Saves, Diff
<1>3. chosen' \in [def : Def, under : Def] /\ chosen'.def = d /\ chosen'.under = declared
  BY DEF Saves
<1> QED
  BY <1>2, <1>3 DEF Saves, Diff, SavedIsChoice

(* A definition under a saved override is a definition. *)
LEMMA OverrideIsTyped ==
    ASSUME NEW d \in Def, NEW r \in Reading,
           saved \in [enabled : BOOLEAN \union {None}, schedule : Interval \union {None}]
    PROVE  WithOverride(d, r) \in Def
<1>1. d.enabled \in BOOLEAN /\ d.schedule \in Interval
  BY DEF Def
<1>2. (IF r = "unreadable" \/ saved.enabled = None THEN d.enabled ELSE saved.enabled)
        \in BOOLEAN
  BY <1>1
<1>3. (IF r # "whole" \/ saved.schedule = None THEN d.schedule ELSE saved.schedule)
        \in Interval
  BY <1>1
<1> QED
  BY <1>2, <1>3 DEF WithOverride, Def

(* The override as it was saved gives back the owner's choice, as far as   *)
(* it can be read.                                                         *)
LEMMA OverrideIsKept ==
    ASSUME DefPart, NEW d \in Def, NEW r \in Reading
    PROVE  WithOverride(d, r) =
             CASE r = "whole"       -> Kept(d)
               [] r = "badSchedule" -> [Kept(d) EXCEPT !.schedule = d.schedule]
               [] r = "unreadable"  -> d
<1>1. /\ chosen.def.enabled \in BOOLEAN /\ chosen.def.schedule \in Interval
      /\ d = [enabled |-> d.enabled, schedule |-> d.schedule]
  BY DEF DefPart, Def
<1>2. chosen.def.enabled # None /\ chosen.def.schedule # None
  BY <1>1, HeartbeatAssumption
<1>3. Kept(d) = [enabled  |-> IF saved.enabled = None THEN d.enabled ELSE saved.enabled,
                 schedule |-> IF saved.schedule = None THEN d.schedule ELSE saved.schedule]
  BY <1>2 DEF DefPart, SavedIsChoice, Kept
<1>4. CASE r = "whole"
  BY <1>3, <1>4 DEF WithOverride
<1>5. CASE r = "badSchedule"
  BY <1>3, <1>5 DEF WithOverride
<1>6. CASE r = "unreadable"
  BY <1>1, <1>6 DEF WithOverride
<1> QED
  BY <1>4, <1>5, <1>6 DEF Reading

(* A step that touches no definition, job or retry keeps their part. *)
LEMMA DefsStay ==
    ASSUME DefPart, UNCHANGED <<up, defVars, retry>>, owed' \in BOOLEAN
    PROVE  DefPart'
BY DEF DefPart, defVars, SavedIsChoice

(* An edit or a reset keeps the invariant. *)
LEMMA ChangeKeeps ==
    ASSUME HbInv, NEW d \in Def, Change(d)
    PROVE  HbInv'
<1>1. WorkerPart'
  BY DEF HbInv, WorkerPart, Change, CountIsRuns, ChainsWait, RunsAlone, JoinedRunEnded, InPc
<1>2. DefPart /\ handler \in BOOLEAN /\ declared \in Def
  BY DEF HbInv, DefPart
<1>3. /\ scheduled' \in Def \union {None}
      /\ job' \in [def : Def, left : Nat] \union {None}
      /\ retry' \in 0 .. RetryAfter \union {None}
  BY <1>2, ApplyIsTyped DEF Change
<1>4. /\ saved' \in [enabled : BOOLEAN \union {None}, schedule : Interval \union {None}]
      /\ chosen' \in [def : Def, under : Def]
      /\ SavedIsChoice'
  BY <1>2, SaveIsChoice DEF Change
<1>6. DefPart'
  BY <1>2, <1>3, <1>4 DEF Change, DefPart
<1> QED
  BY <1>1, <1>6 DEF HbInv

-----------------------------------------------------------------------------
(* The first start satisfies the invariant. *)
LEMMA HbInitInv == HbInit => HbInv
<1> SUFFICES ASSUME HbInit PROVE HbInv
  OBVIOUS
<1>1. WorkerPart
  BY AllIdle DEF HbInit
<1>2. /\ declared \in Def /\ effective = declared /\ declared.schedule \in Nat
      /\ declared = [enabled |-> declared.enabled, schedule |-> declared.schedule]
  BY HeartbeatAssumption DEF HbInit, Def
<1>3. saved \in [enabled : BOOLEAN \union {None}, schedule : Interval \union {None}]
  BY DEF HbInit
<1>4. saved.enabled = None /\ saved.schedule = None
  BY DEF HbInit
<1>5. SavedIsChoice /\ chosen \in [def : Def, under : Def]
  BY <1>2, <1>4 DEF HbInit, SavedIsChoice
<1>6. /\ scheduled \in Def \union {None}
      /\ job \in [def : Def, left : Nat] \union {None}
  BY <1>2 DEF HbInit
<1>7. up \in BOOLEAN /\ handler \in BOOLEAN /\ owed \in BOOLEAN /\ retry = None
  BY DEF HbInit
<1>8. DefPart
  BY <1>2, <1>3, <1>5, <1>6, <1>7 DEF DefPart
<1> QED
  BY <1>1, <1>8 DEF HbInv

(* The steps that take a thread to work, or along a chain. *)
LEMMA StartKeeps ==
    ASSUME HbInv, NEW w \in Worker, StartStep(w)
    PROVE  HbInv'
<1> USE HeartbeatAssumption
<1>t. WorkerPart /\ DefPart /\ worker \in [Worker -> WorkerRec]
  BY DEF HbInv, WorkerPart
<1>1. ASSUME NEW pc \in {"asked", "retry", "called"}, NEW tr \in Trigger,
             NEW d \in Def \union {None}, Take(w, pc, tr, d), UNCHANGED running,
             pc = "asked" => tr = "digest"
      PROVE  WorkerPart'
  <2> DEFINE rec == [Idle EXCEPT !.pc = pc, !.trigger = tr, !.def = d]
  <2>1. rec \in WorkerRec /\ rec.pc = pc /\ rec.trigger = tr
    BY DEF Idle, WorkerRec, Pc
  <2> QED
    BY <1>1, <1>t, <2>1, OneMoves DEF Take
<1>2. CASE Fire(w)
  <2>1. job \in [def : Def, left : Nat] /\ job.def \in Def /\ job.def.schedule \in Nat
    BY <1>2, <1>t DEF Fire, DefPart, Def
  <2>2. job' \in [def : Def, left : Nat]
    BY <1>2, <2>1 DEF Fire
  <2>3. DefPart'
    BY <1>2, <1>t, <2>2 DEF Fire, DefPart, SavedIsChoice
  <2>4. CASE Busy("schedule") = {}
    <3>1. WorkerPart'
      BY <1>1, <1>2, <2>1, <2>4 DEF Fire, Trigger
    <3> QED
      BY <2>3, <3>1 DEF HbInv
  <2>5. CASE Busy("schedule") # {}
    <3>1. WorkerPart'
      BY <1>2, <1>t, <2>5 DEF Fire, WorkerPart, CountIsRuns, ChainsWait, RunsAlone,
                              JoinedRunEnded, InPc
    <3> QED
      BY <2>3, <3>1 DEF HbInv
  <2> QED
    BY <2>4, <2>5
<1>3. CASE FireRetry(w)
  <2>1. WorkerPart'
    BY <1>1, <1>3 DEF FireRetry, Trigger
  <2>2. DefPart'
    BY <1>3, <1>t DEF FireRetry, DefPart, defVars, SavedIsChoice
  <2> QED
    BY <2>1, <2>2 DEF HbInv
<1>4. CASE TriggerByName(w)
  <2>1. WorkerPart'
    BY <1>1, <1>4, <1>t DEF TriggerByName, Trigger, DefPart
  <2>2. DefPart'
    BY <1>4, <1>t, DefsStay DEF TriggerByName, DefPart
  <2> QED
    BY <2>1, <2>2 DEF HbInv
<1>5. CASE RunFirst(w)
  <2>1. WorkerPart'
    BY <1>1, <1>5 DEF RunFirst, Trigger
  <2>2. DefPart'
    BY <1>5, <1>t, DefsStay DEF RunFirst, DefPart
  <2> QED
    BY <2>1, <2>2 DEF HbInv
<1> QED
  BY <1>2, <1>3, <1>4, <1>5 DEF StartStep

(* The steps of a run, and of a chain that waits for one. *)
LEMMA RunKeeps ==
    ASSUME HbInv, NEW w \in Worker, RunStep(w)
    PROVE  HbInv'
<1>t. /\ WorkerPart /\ DefPart /\ worker \in [Worker -> WorkerRec] /\ running \in Nat
      /\ scheduled \in Def \union {None} /\ owed \in BOOLEAN
  BY DEF HbInv, WorkerPart, DefPart
<1>c. /\ worker[w].pc \in {"asked", "waiting"} => worker[w].trigger = "digest"
      /\ worker[w].pc = "waiting" => worker[w].fresh \/ running > 0
  BY <1>t DEF WorkerPart, ChainsWait
<1>1. CASE RetryReads(w)
  <2> DEFINE rec == IF scheduled = None THEN Idle
                    ELSE [worker[w] EXCEPT !.pc = "called", !.def = scheduled]
  <2>1. rec \in WorkerRec /\ rec.pc \in {"idle", "called"}
    <3>1. CASE scheduled = None
      BY <3>1, IdleIsTyped
    <3>2. CASE scheduled # None
      BY <1>t, <3>2 DEF WorkerRec, Pc
    <3> QED
      BY <3>1, <3>2
  <2>2. worker' = [worker EXCEPT ![w] = rec] /\ UNCHANGED running
    BY <1>1 DEF RetryReads
  <2>3. WorkerPart'
    BY <1>1, <1>t, <2>1, <2>2, OneMoves DEF RetryReads
  <2>4. DefPart'
    BY <1>1, <1>t, DefsStay DEF RetryReads
  <2> QED
    BY <2>3, <2>4 DEF HbInv
<1>2. CASE RunFirstLooks(w)
  <2> DEFINE rec == IF running > 0 THEN [worker[w] EXCEPT !.pc = "waiting"]
                    ELSE IF scheduled = None THEN Idle
                    ELSE [worker[w] EXCEPT !.pc = "called", !.def = scheduled]
  <2>1. /\ rec \in WorkerRec /\ rec.pc \in {"idle", "called", "waiting"}
        /\ rec.pc = "waiting" => rec.trigger = "digest" /\ running > 0
    <3>1. CASE running > 0
      BY <1>2, <1>t, <1>c, <3>1 DEF RunFirstLooks, WorkerRec, Pc
    <3>2. CASE ~(running > 0) /\ scheduled = None
      BY <3>2, IdleIsTyped
    <3>3. CASE ~(running > 0) /\ scheduled # None
      BY <1>t, <3>3 DEF WorkerRec, Pc
    <3> QED
      BY <3>1, <3>2, <3>3
  <2>2. worker' = [worker EXCEPT ![w] = rec] /\ UNCHANGED running
    BY <1>2 DEF RunFirstLooks
  <2>3. WorkerPart'
    BY <1>2, <1>t, <2>1, <2>2, OneMoves DEF RunFirstLooks
  <2>4. DefPart'
    BY <1>2, <1>t, DefsStay DEF RunFirstLooks
  <2> QED
    BY <2>3, <2>4 DEF HbInv
<1>3. CASE Joined(w)
  <2> DEFINE rec == [worker[w] EXCEPT !.pc = "joined"]
  <2>1. rec \in WorkerRec /\ rec.pc = "joined" /\ rec.fresh
    BY <1>3, <1>t, <1>c DEF Joined, WorkerRec, Pc
  <2>2. worker' = [worker EXCEPT ![w] = rec] /\ UNCHANGED running
    BY <1>3 DEF Joined
  <2>3. WorkerPart'
    BY <1>3, <1>t, <2>1, <2>2, OneMoves DEF Joined
  <2>4. DefPart'
    BY <1>3, <1>t, DefsStay DEF Joined
  <2> QED
    BY <2>3, <2>4 DEF HbInv
<1>4. CASE ChainEnds(w)
  <2>1. WorkerPart'
    BY <1>4, <1>t, IdleIsTyped, OneMoves DEF ChainEnds
  <2>2. DefPart'
    BY <1>4, <1>t, DefsStay DEF ChainEnds
  <2> QED
    BY <2>1, <2>2 DEF HbInv
<1>5. CASE Enter(w)
  <2>1. CASE AlreadyRunning(w)
    <3> DEFINE rec == IF worker[w].trigger = "digest"
                      THEN [worker[w] EXCEPT !.pc = "waiting"] ELSE Idle
    <3>1. /\ rec \in WorkerRec /\ rec.pc \in {"idle", "waiting"}
          /\ rec.pc = "waiting" => rec.trigger = "digest" /\ running > 0
      <4>1. CASE worker[w].trigger = "digest"
        BY <1>t, <2>1, <4>1 DEF AlreadyRunning, WorkerRec, Pc
      <4>2. CASE worker[w].trigger # "digest"
        BY <4>2, IdleIsTyped
      <4> QED
        BY <4>1, <4>2
    <3>2. worker' = [worker EXCEPT ![w] = rec] /\ UNCHANGED running
      BY <1>5, <2>1 DEF Enter
    <3>3. WorkerPart'
      BY <1>5, <1>t, <3>1, <3>2, OneMoves DEF Enter
    <3>4. DefPart'
      BY <1>5, <1>t, <2>1, DefsStay DEF Enter
    <3> QED
      BY <3>3, <3>4 DEF HbInv
  <2>2. CASE ~AlreadyRunning(w)
    <3>1. WorkerPart'
      BY <1>5, <1>t, <2>2, RunBegins DEF Enter
    <3>2. DefPart'
      BY <1>5, <1>t, <2>2, DefsStay DEF Enter
    <3> QED
      BY <3>1, <3>2 DEF HbInv
  <2> QED
    BY <2>1, <2>2
<1>6. ASSUME NEW s \in Status, HandlerEnds(w, s) PROVE HbInv'
  <2>1. WorkerPart'
    BY <1>6, <1>t, RunEnds
  <2>2. owed' \in BOOLEAN
    BY <1>6 DEF HandlerEnds
  <2>3. DefPart'
    BY <1>6, <1>t, <2>2, DefsStay DEF HandlerEnds
  <2> QED
    BY <2>1, <2>3 DEF HbInv
<1>7. CASE Keep(w)
  <2> DEFINE rec == [worker[w] EXCEPT !.pc = "kept"]
  <2>1. rec \in WorkerRec /\ rec.pc = "kept"
    BY <1>t DEF WorkerRec, Pc
  <2>2. worker' = [worker EXCEPT ![w] = rec] /\ UNCHANGED running
    BY <1>7 DEF Keep
  <2>3. WorkerPart'
    BY <1>7, <1>t, <2>1, <2>2, OneMoves DEF Keep
  <2>4. DefPart'
    BY <1>7, <1>t, DefsStay DEF Keep
  <2> QED
    BY <2>3, <2>4 DEF HbInv
<1>8. CASE Settle(w)
  <2>1. WorkerPart'
    BY <1>8, <1>t, IdleIsTyped, OneMoves DEF Settle
  <2>2. retry' \in 0 .. RetryAfter \union {None} /\ owed' \in BOOLEAN
    <3>1. retry \in 0 .. RetryAfter \union {None} /\ RetryAfter \in 0 .. RetryAfter
      BY <1>t, HeartbeatAssumption DEF DefPart
    <3>2. retry' = retry \/ retry' = RetryAfter \/ retry' = None
      BY <1>8 DEF Settle, ScheduleRetry
    <3>3. owed' = owed \/ owed' = FALSE
      BY <1>8 DEF Settle
    <3> QED
      BY <1>t, <3>1, <3>2, <3>3
  <2>3. DefPart'
    BY <1>8, <1>t, <2>2 DEF Settle, DefPart, defVars, SavedIsChoice
  <2> QED
    BY <2>1, <2>3 DEF HbInv
<1> QED
  BY <1>1, <1>2, <1>3, <1>4, <1>5, <1>6, <1>7, <1>8 DEF RunStep

(* Starting, stopping and the clock. *)
LEMMA ProcessKeeps ==
    ASSUME HbInv, ProcessStep \/ Tick
    PROVE  HbInv'
<1> USE HeartbeatAssumption
<1>t. WorkerPart /\ DefPart
  BY DEF HbInv
<1>w. ASSUME UNCHANGED <<running, worker>> PROVE WorkerPart'
  BY <1>w, <1>t DEF WorkerPart, CountIsRuns, ChainsWait, RunsAlone, JoinedRunEnded, InPc
<1>1. ASSUME ProcessEnds PROVE WorkerPart'
  <2>1. (worker = [w \in Worker |-> Idle])' /\ (running = 0)'
    BY <1>1 DEF ProcessEnds
  <2>2. \A w \in Worker : worker'[w] \in WorkerRec /\ worker'[w].pc = "idle"
    BY <2>1, IdleIsTyped
  <2>3. InPc("handling")' = {} /\ InPc("joined")' = {}
    BY <2>2 DEF InPc
  <2>4. CountIsRuns'
    BY <2>1, <2>3, FS_EmptySet DEF CountIsRuns
  <2> QED
    BY <2>1, <2>2, <2>3, <2>4, IdleIsTyped
    DEF WorkerPart, ChainsWait, RunsAlone, JoinedRunEnded
<1>5. CASE Stop
  <2>1. DefPart'
    BY <1>5, <1>t DEF Stop, ProcessEnds, DefPart, SavedIsChoice
  <2> QED
    BY <1>1, <1>5, <2>1 DEF Stop, HbInv
<1>6. ASSUME NEW d \in Def, StopAfterSave(d) PROVE HbInv'
  <2>1. /\ saved' \in [enabled : BOOLEAN \union {None}, schedule : Interval \union {None}]
        /\ chosen' \in [def : Def, under : Def]
        /\ SavedIsChoice'
    BY <1>6, <1>t, SaveIsChoice DEF StopAfterSave, DefPart
  <2>2. DefPart'
    BY <1>6, <1>t, <2>1 DEF StopAfterSave, ProcessEnds, DefPart
  <2> QED
    BY <1>1, <1>6, <2>2 DEF StopAfterSave, HbInv
<1>2. CASE PluginRegisters
  <2>1. /\ scheduled' \in Def \union {None}
        /\ job' \in [def : Def, left : Nat] \union {None}
        /\ retry' \in 0 .. RetryAfter \union {None}
    BY <1>2, <1>t, ApplyIsTyped DEF PluginRegisters, DefPart
  <2>2. DefPart'
    BY <1>2, <1>t, <2>1 DEF PluginRegisters, DefPart, SavedIsChoice
  <2> QED
    BY <1>2, <1>w, <2>2 DEF PluginRegisters, HbInv
<1>3. ASSUME NEW d \in Deploys, NEW h \in BOOLEAN, NEW r \in Reading, Start(d, h, r)
      PROVE  HbInv'
  <2>1. d \in Def /\ WithOverride(d, r) \in Def
    BY <1>t, OverrideIsTyped DEF DefPart
  <2>2. /\ scheduled' \in Def \union {None}
        /\ job' \in [def : Def, left : Nat] \union {None}
        /\ retry' \in 0 .. RetryAfter \union {None}
    BY <1>3, <1>t, <2>1, ApplyIsTyped DEF Start
  <2>3. SavedIsChoice'
    BY <1>3, <1>t DEF Start, DefPart, SavedIsChoice
  <2>4. DefPart'
    BY <1>3, <1>t, <2>1, <2>2, <2>3 DEF Start, DefPart
  <2> QED
    BY <1>3, <1>w, <2>4 DEF Start, HbInv
<1>4. CASE Tick
  <2>1. retry' \in 0 .. RetryAfter \union {None}
    BY <1>4, <1>t DEF Tick, Nearer, DefPart
  <2>2. job' \in [def : Def, left : Nat] \union {None}
    <3>1. CASE job = None
      BY <1>4, <3>1 DEF Tick
    <3>2. CASE job # None
      <4>1. job \in [def : Def, left : Nat]
        BY <1>t, <3>2 DEF DefPart
      <4>2. Nearer(job.left) \in Nat
        BY <4>1 DEF Nearer
      <4>3. job' = [job EXCEPT !.left = Nearer(job.left)]
        BY <1>4, <3>2 DEF Tick
      <4> QED
        BY <4>1, <4>2, <4>3
    <3> QED
      BY <3>1, <3>2
  <2>3. DefPart'
    BY <1>4, <1>t, <2>1, <2>2 DEF Tick, DefPart, SavedIsChoice
  <2> QED
    BY <1>4, <1>w, <2>3 DEF Tick, HbInv
<1> QED
  BY <1>2, <1>3, <1>4, <1>5, <1>6 DEF ProcessStep

(* Every step keeps the invariant. *)
LEMMA HbNextInv == HbInv /\ [HbNext]_hbVars => HbInv'
<1> SUFFICES ASSUME HbInv, [HbNext]_hbVars PROVE HbInv'
  OBVIOUS
<1>1. CASE OwnerStep
  <2>1. declared \in Def
    BY DEF HbInv, DefPart
  <2> QED
    BY <1>1, <2>1, ChangeKeeps DEF OwnerStep, Reset, Update
<1>2. CASE UNCHANGED hbVars
  BY <1>2 DEF hbVars, defVars, HbInv, WorkerPart, DefPart, CountIsRuns, ChainsWait, RunsAlone,
              JoinedRunEnded, InPc, SavedIsChoice
<1> QED
  BY <1>1, <1>2, StartKeeps, RunKeeps, ProcessKeeps DEF HbNext

-----------------------------------------------------------------------------
(* A skip is made up for.                                                  *)

(* Where a thread's run of the job is about to begin, goes on, or has not  *)
(* come to its end yet.                                                    *)
AtWork == {"retry", "called", "handling", "ended", "kept"}

(* Without the process or the handler there is neither a job nor a run. *)
Dormant ==
    ~up \/ ~handler =>
        /\ ~owed /\ job = None /\ retry = None /\ scheduled = None
        /\ \A w \in Worker : worker[w].pc = "idle"

(* APScheduler has the job that _definitions has. *)
JobIsScheduled == job = None <=> scheduled = None

(* A thread the schedule took is at work: it never waits. *)
SlotsWork ==
    \A w \in Worker : worker[w].trigger = "schedule" => worker[w].pc \in AtWork

(* After a skip the retry or the next slot is near, or some thread is at   *)
(* work: it will begin a run, or settle the one that ended.                *)
SkipAnswered ==
    owed /\ job # None /\ RetryAfter > 0 =>
        \/ retry # None \/ job.left <= RetryAfter
        \/ \E w \in Worker : worker[w].pc \in AtWork

SkipPart == Dormant /\ JobIsScheduled /\ SlotsWork /\ SkipAnswered

(* With no thread at work, that is what SkipIsOwed says. *)
LEMMA SkipSuffices == HbInv /\ SkipPart => SkipIsOwed
BY DEF SkipPart, SkipAnswered, SkipIsOwed, AtWork

(* An idle thread has no trigger. *)
LEMMA IdleIsUntaken == Idle.trigger # "schedule"
<1>1. None # "schedule"
  BY HeartbeatAssumption DEF Trigger
<1> QED
  BY <1>1 DEF Idle

(* Nothing is owed at first. *)
LEMMA SkipInit == HbInit => SkipPart
<1> SUFFICES ASSUME HbInit PROVE SkipPart
  OBVIOUS
<1>1. declared \in Def /\ declared # None /\ [def |-> declared, left |-> declared.schedule] # None
  <2>1. declared \in Def /\ declared.schedule \in Nat
    BY HeartbeatAssumption DEF HbInit, Def
  <2>2. [def |-> declared, left |-> declared.schedule] \in [def : Def, left : Nat]
    BY <2>1
  <2> QED
    BY <2>1, <2>2, HeartbeatAssumption
<1>2. Idle.pc = "idle" /\ Idle.trigger # "schedule"
  BY IdleIsUntaken DEF Idle
<1>3. \A w \in Worker : worker[w].pc = "idle" /\ worker[w].trigger # "schedule"
  BY <1>2 DEF HbInit
<1> QED
  BY <1>1, <1>3 DEF HbInit, SkipPart, Dormant, JobIsScheduled, SlotsWork, SkipAnswered

(* A step that leaves a thread at work keeps the part. *)
LEMMA OneAtWork ==
    ASSUME SkipPart, up, handler, UNCHANGED <<up, handler>>, JobIsScheduled',
           NEW w \in Worker, worker'[w].pc \in AtWork,
           \A v \in Worker \ {w} : /\ worker'[v].pc = worker[v].pc
                                   /\ worker'[v].trigger = worker[v].trigger
    PROVE  SkipPart'
BY DEF SkipPart, Dormant, SlotsWork, SkipAnswered

(* A thread that moves without settling anything keeps the part, when it   *)
(* was not at work, or another one is.                                     *)
LEMMA OneSteps ==
    ASSUME SkipPart, up, handler, UNCHANGED <<up, defVars, retry>>, owed' => owed,
           NEW w \in Worker, worker'[w].trigger = "schedule" => worker'[w].pc \in AtWork,
           \A v \in Worker \ {w} : /\ worker'[v].pc = worker[v].pc
                                   /\ worker'[v].trigger = worker[v].trigger,
           \/ worker[w].pc \notin AtWork \/ job = None
           \/ \E v \in Worker \ {w} : worker[v].pc \in AtWork
    PROVE  SkipPart'
<1>1. SlotsWork' /\ JobIsScheduled' /\ Dormant'
  BY DEF SkipPart, SlotsWork, JobIsScheduled, Dormant, defVars
<1>2. SkipAnswered'
  <2> SUFFICES ASSUME owed', job' # None, RetryAfter > 0, retry' = None, ~(job'.left <= RetryAfter)
               PROVE  \E v \in Worker : worker'[v].pc \in AtWork
    BY DEF SkipAnswered
  <2>1. PICK v \in Worker : worker[v].pc \in AtWork
    BY DEF SkipPart, SkipAnswered, defVars
  <2>2. CASE v # w
    BY <2>1, <2>2
  <2>3. CASE v = w
    BY <2>1, <2>3 DEF defVars
  <2> QED
    BY <2>2, <2>3
<1> QED
  BY <1>1, <1>2 DEF SkipPart

(* The steps that take a thread to work. *)
LEMMA StartAnswers ==
    ASSUME HbInv, SkipPart, NEW w \in Worker, StartStep(w)
    PROVE  SkipPart'
<1>t. worker \in [Worker -> WorkerRec] /\ job \in [def : Def, left : Nat] \union {None}
  BY DEF HbInv, WorkerPart, DefPart
<1>d. Dormant /\ JobIsScheduled /\ SlotsWork
  BY DEF SkipPart
<1>1. ASSUME NEW pc, NEW tr, NEW d, Take(w, pc, tr, d)
      PROVE  /\ worker'[w].pc = pc /\ worker'[w].trigger = tr
             /\ \A v \in Worker \ {w} : worker'[v] = worker[v]
  BY <1>1, <1>t DEF Take, Idle
<1>2. CASE Fire(w)
  <2>1. up /\ handler /\ UNCHANGED <<up, handler>>
    BY <1>2, <1>d DEF Fire, Dormant
  <2>2. JobIsScheduled'
    <3>1. job' \in [def : Def, left : Nat]
      BY <1>2, <1>t, HeartbeatAssumption DEF Fire, Def
    <3>2. job' # None /\ scheduled # None /\ scheduled' = scheduled
      BY <1>2, <1>d, <3>1, HeartbeatAssumption DEF Fire, JobIsScheduled
    <3> QED
      BY <3>2 DEF JobIsScheduled
  <2>3. CASE Busy("schedule") = {}
    <3>1. /\ worker'[w].pc = "called"
          /\ \A v \in Worker \ {w} : worker'[v] = worker[v]
      BY <1>1, <1>2, <2>3 DEF Fire
    <3> QED
      BY <2>1, <2>2, <3>1, OneAtWork DEF AtWork
  <2>4. CASE Busy("schedule") # {}
    <3>1. PICK v \in Worker : worker[v].trigger = "schedule"
      BY <2>4 DEF Busy
    <3>2. worker[v].pc \in AtWork /\ worker' = worker
      BY <1>2, <1>d, <2>4, <3>1 DEF Fire, SlotsWork
    <3> QED
      BY <2>1, <2>2, <3>2, OneAtWork
  <2> QED
    BY <2>3, <2>4
<1>3. CASE FireRetry(w)
  <2>1. up /\ handler /\ UNCHANGED <<up, handler, job, scheduled>>
    BY <1>3, <1>d, HeartbeatAssumption DEF FireRetry, Dormant, defVars
  <2>2. /\ worker'[w].pc = "retry"
        /\ \A v \in Worker \ {w} : worker'[v] = worker[v]
    BY <1>1, <1>3 DEF FireRetry
  <2>3. JobIsScheduled'
    BY <1>d, <2>1 DEF JobIsScheduled
  <2> QED
    BY <2>1, <2>2, <2>3, OneAtWork DEF AtWork
<1>4. CASE TriggerByName(w)
  <2>1. up /\ handler /\ UNCHANGED <<up, handler, job, scheduled>>
    BY <1>4, <1>d DEF TriggerByName, Dormant, defVars
  <2>2. /\ worker'[w].pc = "called"
        /\ \A v \in Worker \ {w} : worker'[v] = worker[v]
    BY <1>1, <1>4 DEF TriggerByName
  <2>3. JobIsScheduled'
    BY <1>d, <2>1 DEF JobIsScheduled
  <2> QED
    BY <2>1, <2>2, <2>3, OneAtWork DEF AtWork
<1>5. CASE RunFirst(w)
  <2>1. up /\ handler /\ UNCHANGED <<up, defVars, retry, owed>>
    BY <1>5 DEF RunFirst
  <2>2. /\ worker'[w].trigger = "digest"
        /\ \A v \in Worker \ {w} : worker'[v] = worker[v]
    BY <1>1, <1>5 DEF RunFirst
  <2>3. worker[w].pc \notin AtWork
    BY <1>5 DEF RunFirst, Take, AtWork
  <2> QED
    BY <2>1, <2>2, <2>3, OneSteps
<1> QED
  BY <1>2, <1>3, <1>4, <1>5 DEF StartStep

(* The steps of a run, and of a chain that waits for one. *)
LEMMA RunAnswers ==
    ASSUME HbInv, SkipPart, NEW w \in Worker, RunStep(w)
    PROVE  SkipPart'
<1>t. /\ worker \in [Worker -> WorkerRec] /\ running \in Nat /\ owed \in BOOLEAN
      /\ job \in [def : Def, left : Nat] \union {None}
  BY DEF HbInv, WorkerPart, DefPart
<1>d. Dormant /\ JobIsScheduled /\ SlotsWork /\ SkipAnswered
  BY DEF SkipPart
<1>u. worker[w].pc # "idle"
  BY DEF RunStep, RetryReads, RunFirstLooks, Joined, ChainEnds, Enter, HandlerEnds, Keep, Settle
<1>h. up /\ handler
  BY <1>d, <1>u DEF Dormant
<1>i. Idle.pc = "idle" /\ Idle.trigger # "schedule"
  BY IdleIsUntaken DEF Idle
<1>j. ASSUME UNCHANGED <<job, scheduled>> PROVE JobIsScheduled'
  BY <1>d, <1>j DEF JobIsScheduled
<1>1. CASE RetryReads(w)
  <2>1. /\ UNCHANGED <<up, defVars, retry, owed>>
        /\ \A v \in Worker \ {w} : worker'[v] = worker[v]
    BY <1>1, <1>t DEF RetryReads
  <2>2. CASE scheduled = None
    <3>1. worker'[w] = Idle /\ job = None
      BY <1>1, <1>d, <1>t, <2>2 DEF RetryReads, JobIsScheduled
    <3> QED
      BY <1>h, <1>i, <2>1, <3>1, OneSteps
  <2>3. CASE scheduled # None
    <3>1. worker'[w].pc = "called"
      BY <1>1, <1>t, <2>3 DEF RetryReads, WorkerRec
    <3> QED
      BY <1>h, <1>j, <2>1, <3>1, OneAtWork DEF AtWork, defVars
  <2> QED
    BY <2>2, <2>3
<1>2. CASE RunFirstLooks(w)
  <2>1. /\ UNCHANGED <<up, defVars, retry, owed>>
        /\ \A v \in Worker \ {w} : worker'[v] = worker[v]
        /\ worker[w].pc = "asked"
    BY <1>2, <1>t DEF RunFirstLooks
  <2>2. worker[w].trigger = "digest" /\ worker[w].pc \notin AtWork
    BY <2>1 DEF HbInv, WorkerPart, ChainsWait, AtWork
  <2>3. worker'[w].trigger # "schedule"
    <3>1. CASE running > 0
      BY <1>2, <1>t, <2>2, <3>1 DEF RunFirstLooks, WorkerRec
    <3>2. CASE ~(running > 0) /\ scheduled = None
      BY <1>2, <1>t, <1>i, <3>2 DEF RunFirstLooks
    <3>3. CASE ~(running > 0) /\ scheduled # None
      BY <1>2, <1>t, <2>2, <3>3 DEF RunFirstLooks, WorkerRec
    <3> QED
      BY <3>1, <3>2, <3>3
  <2> QED
    BY <1>h, <2>1, <2>2, <2>3, OneSteps
<1>3. CASE Joined(w)
  <2>1. /\ UNCHANGED <<up, defVars, retry, owed>>
        /\ \A v \in Worker \ {w} : worker'[v] = worker[v]
        /\ worker[w].pc = "waiting" /\ worker'[w].trigger = worker[w].trigger
    BY <1>3, <1>t DEF Joined, WorkerRec
  <2>2. worker[w].trigger = "digest" /\ worker[w].pc \notin AtWork
    BY <2>1 DEF HbInv, WorkerPart, ChainsWait, AtWork
  <2> QED
    BY <1>h, <2>1, <2>2, OneSteps
<1>4. CASE ChainEnds(w)
  <2>1. /\ UNCHANGED <<up, defVars, retry, owed>>
        /\ \A v \in Worker \ {w} : worker'[v] = worker[v]
        /\ worker'[w] = Idle
    BY <1>4, <1>t DEF ChainEnds
  <2>2. worker[w].pc \notin AtWork
    BY <1>4 DEF ChainEnds, AtWork
  <2> QED
    BY <1>h, <1>i, <2>1, <2>2, OneSteps
<1>5. CASE Enter(w)
  <2>1. CASE AlreadyRunning(w)
    <3>1. /\ UNCHANGED <<up, defVars, retry, owed>>
          /\ \A v \in Worker \ {w} : worker'[v] = worker[v]
          /\ worker[w].pc = "called"
      BY <1>5, <1>t, <2>1 DEF Enter
    <3>2. worker'[w].trigger # "schedule"
      <4>1. CASE worker[w].trigger = "digest"
        BY <1>5, <1>t, <2>1, <4>1 DEF Enter, WorkerRec
      <4>2. CASE worker[w].trigger # "digest"
        BY <1>5, <1>t, <1>i, <2>1, <4>2 DEF Enter
      <4> QED
        BY <4>1, <4>2
    <3>3. \E v \in Worker \ {w} : worker[v].pc \in AtWork
      <4>1. InPc("handling") # {}
        BY <2>1, FS_EmptySet DEF AlreadyRunning, HbInv, WorkerPart, CountIsRuns
      <4>2. PICK v \in Worker : worker[v].pc = "handling"
        BY <4>1 DEF InPc
      <4> QED
        BY <3>1, <4>2 DEF AtWork
    <3> QED
      BY <1>h, <3>1, <3>2, <3>3, OneSteps
  <2>2. CASE ~AlreadyRunning(w)
    <3>1. /\ UNCHANGED <<up, handler, job, scheduled>>
          /\ \A v \in Worker \ {w} : worker'[v] = worker[v]
          /\ worker'[w].pc = "handling"
      BY <1>5, <1>t, <2>2 DEF Enter, defVars, WorkerRec
    <3> QED
      BY <1>h, <1>j, <3>1, OneAtWork DEF AtWork
  <2> QED
    BY <2>1, <2>2
<1>6. ASSUME NEW s \in Status, HandlerEnds(w, s) PROVE SkipPart'
  <2>1. UNCHANGED <<up, handler, job, scheduled>> /\ worker'[w].pc = "ended"
    BY <1>6, <1>t DEF HandlerEnds, defVars, WorkerRec
  <2>2. \A v \in Worker \ {w} : /\ worker'[v].pc = worker[v].pc
                                /\ worker'[v].trigger = worker[v].trigger
    BY <1>6, <1>t DEF HandlerEnds, WorkerRec
  <2> QED
    BY <1>h, <1>j, <2>1, <2>2, OneAtWork DEF AtWork
<1>7. CASE Keep(w)
  <2>1. /\ UNCHANGED <<up, handler, job, scheduled>>
        /\ \A v \in Worker \ {w} : worker'[v] = worker[v]
        /\ worker'[w].pc = "kept"
    BY <1>7, <1>t DEF Keep, defVars, WorkerRec
  <2> QED
    BY <1>h, <1>j, <2>1, OneAtWork DEF AtWork
<1>8. CASE Settle(w)
  <2>1. /\ UNCHANGED <<up, handler, job, scheduled>>
        /\ \A v \in Worker \ {w} : worker'[v] = worker[v]
        /\ worker'[w] = Idle
    BY <1>8, <1>t DEF Settle, defVars
  <2>2. Dormant' /\ JobIsScheduled' /\ SlotsWork'
    BY <1>h, <1>d, <1>i, <1>j, <2>1 DEF Dormant, SlotsWork
  <2>3. SkipAnswered'
    <3>1. CASE worker[w].status = "skipped"
      <4>1. retry' = RetryAfter \/ RetryAfter = 0 \/ (job # None /\ job.left <= RetryAfter)
        BY <1>8, <3>1 DEF Settle, ScheduleRetry
      <4>2. RetryAfter # None /\ RetryAfter \in Nat
        BY HeartbeatAssumption
      <4> QED
        BY <2>1, <4>1, <4>2 DEF SkipAnswered
    <3>2. CASE worker[w].status # "skipped"
      BY <1>8, <3>2 DEF Settle, SkipAnswered
    <3> QED
      BY <3>1, <3>2
  <2> QED
    BY <2>2, <2>3 DEF SkipPart
<1> QED
  BY <1>1, <1>2, <1>3, <1>4, <1>5, <1>6, <1>7, <1>8 DEF RunStep

(* What Apply schedules, it gives APScheduler a job for. *)
LEMMA ApplySchedules ==
    ASSUME NEW d \in Def, NEW h \in BOOLEAN, Apply(d, h)
    PROVE  /\ JobIsScheduled'
           /\ ~h => job' = None /\ scheduled' = None /\ retry' = None
<1>1. d # None /\ [def |-> d, left |-> d.schedule] # None
  <2>1. d.schedule \in Nat
    BY HeartbeatAssumption DEF Def
  <2>2. [def |-> d, left |-> d.schedule] \in [def : Def, left : Nat]
    BY <2>1
  <2> QED
    BY <2>2, HeartbeatAssumption
<1> QED
  BY <1>1 DEF Apply, JobIsScheduled

(* The owner's edits, starting, stopping and the clock. *)
LEMMA RestAnswers ==
    ASSUME HbInv, SkipPart, OwnerStep \/ ProcessStep \/ Tick
    PROVE  SkipPart'
<1>t. /\ up \in BOOLEAN /\ handler \in BOOLEAN /\ declared \in Def /\ effective \in Def
      /\ saved \in [enabled : BOOLEAN \union {None}, schedule : Interval \union {None}]
      /\ job \in [def : Def, left : Nat] \union {None}
      /\ retry \in 0 .. RetryAfter \union {None}
  BY DEF HbInv, DefPart
<1>d. Dormant /\ JobIsScheduled /\ SlotsWork /\ SkipAnswered
  BY DEF SkipPart
<1>1. ASSUME NEW d \in Def, up, Change(d) PROVE SkipPart'
  <2>1. /\ JobIsScheduled'
        /\ ~handler => job' = None /\ scheduled' = None /\ retry' = None
    BY <1>1, <1>t, ApplySchedules DEF Change
  <2>2. UNCHANGED <<up, handler, worker>> /\ ~owed'
    BY <1>1 DEF Change
  <2> QED
    BY <1>1, <1>d, <2>1, <2>2 DEF SkipPart, Dormant, SlotsWork, SkipAnswered
<1>2. ASSUME ProcessEnds PROVE SkipPart'
  <2>1. /\ ~up' /\ ~owed' /\ job' = None /\ retry' = None /\ scheduled' = None
        /\ worker' = [w \in Worker |-> Idle]
    BY <1>2 DEF ProcessEnds
  <2>2. \A w \in Worker : worker'[w].pc = "idle" /\ worker'[w].trigger # "schedule"
    BY <2>1, IdleIsTyped, IdleIsUntaken
  <2> QED
    BY <2>1, <2>2 DEF SkipPart, Dormant, JobIsScheduled, SlotsWork, SkipAnswered
<1>3. CASE PluginRegisters
  <2>1. JobIsScheduled'
    BY <1>3, <1>t, ApplySchedules DEF PluginRegisters
  <2>2. ~owed /\ UNCHANGED <<up, worker, owed>> /\ up /\ handler'
    BY <1>3, <1>d DEF PluginRegisters, Dormant
  <2> QED
    BY <1>d, <2>1, <2>2 DEF SkipPart, Dormant, SlotsWork, SkipAnswered
<1>4. ASSUME NEW d \in Deploys, NEW h \in BOOLEAN, NEW r \in Reading, Start(d, h, r)
      PROVE  SkipPart'
  <2>1. WithOverride(d, r) \in Def
    BY <1>t, OverrideIsTyped, HeartbeatAssumption
  <2>2. /\ JobIsScheduled'
        /\ ~h => job' = None /\ scheduled' = None /\ retry' = None
    BY <1>4, <2>1, ApplySchedules DEF Start
  <2>3. /\ ~owed /\ UNCHANGED <<worker, owed>> /\ up' /\ handler' = h
        /\ \A w \in Worker : worker[w].pc = "idle"
    BY <1>4, <1>d DEF Start, Dormant
  <2> QED
    BY <1>d, <2>2, <2>3 DEF SkipPart, Dormant, SlotsWork, SkipAnswered
<1>5. CASE Tick
  <2>1. UNCHANGED <<up, handler, scheduled, worker, owed>>
    BY <1>5 DEF Tick
  <2>2. retry' = None <=> retry = None
    BY <1>5, <1>t, HeartbeatAssumption DEF Tick, Nearer
  <2>3. CASE job = None
    <3>1. job' = None
      BY <1>5, <2>3 DEF Tick
    <3> QED
      BY <1>d, <2>1, <2>2, <2>3, <3>1
      DEF SkipPart, Dormant, JobIsScheduled, SlotsWork, SkipAnswered
  <2>4. CASE job # None
    <3>1. job \in [def : Def, left : Nat]
      BY <1>t, <2>4
    <3>2. Nearer(job.left) \in Nat /\ Nearer(job.left) <= job.left
      BY <3>1, HeartbeatAssumption DEF Nearer
    <3>3. job' = [job EXCEPT !.left = Nearer(job.left)]
      BY <1>5, <2>4 DEF Tick
    <3>4. job' \in [def : Def, left : Nat] /\ job'.left <= job.left
      BY <3>1, <3>2, <3>3
    <3>5. job' # None
      BY <3>4, HeartbeatAssumption
    <3>6. job.left <= RetryAfter => job'.left <= RetryAfter
      BY <3>1, <3>4, HeartbeatAssumption
    <3> QED
      BY <1>d, <2>1, <2>2, <2>4, <3>5, <3>6
      DEF SkipPart, Dormant, JobIsScheduled, SlotsWork, SkipAnswered
  <2> QED
    BY <2>3, <2>4
<1> QED
  BY <1>1, <1>2, <1>3, <1>4, <1>5, <1>t 
  DEF OwnerStep, Reset, Update, ProcessStep, Stop, StopAfterSave

(* Every step keeps the part. *)
LEMMA SkipNext == HbInv /\ SkipPart /\ [HbNext]_hbVars => SkipPart'
<1> SUFFICES ASSUME HbInv, SkipPart, [HbNext]_hbVars PROVE SkipPart'
  OBVIOUS
<1>1. CASE UNCHANGED hbVars
  BY <1>1 DEF hbVars, defVars, SkipPart, Dormant, JobIsScheduled, SlotsWork, SkipAnswered
<1> QED
  BY <1>1, StartAnswers, RunAnswers, RestAnswers DEF HbNext

-----------------------------------------------------------------------------
(* The types of the scheduler's state, in every behaviour. *)
THEOREM HbTypeCorrect == HbSpec => []HbTypeOK
  BY HbInitInv, HbNextInv, InvIsTyped, PTL DEF HbSpec

(* _invoke lets one run of a scheduled job in at a time, however many      *)
(* threads of the schedule, Run now, the retry and the digest call it.     *)
THEOREM JobRunsAlone == HbSpec => []RunsAlone
<1>1. HbInv => RunsAlone
  BY DEF HbInv, WorkerPart
<1> QED
  BY HbInitInv, HbNextInv, <1>1, PTL DEF HbSpec

(* A digest's run_first that reports it joined a run renders after a run   *)
(* that ended since it asked, for any number of threads.                   *)
THEOREM JoinedRunsEnded == HbSpec => []JoinedRunEnded
<1>1. HbInv => JoinedRunEnded
  BY DEF HbInv, WorkerPart
<1> QED
  BY HbInitInv, HbNextInv, <1>1, PTL DEF HbSpec

(* After a run that skipped, retry_skipped_after_minutes are not exceeded  *)
(* before the next is due: the comparison with the next slot, the retry    *)
(* job that replaces itself and the runs that race leave no gap, for any   *)
(* intervals and any number of threads.                                    *)
THEOREM SkipsAreMadeUpFor == HbSpec => []SkipIsOwed
  BY HbInitInv, HbNextInv, SkipInit, SkipNext, SkipSuffices, PTL DEF HbSpec

(* The owner's last edit survives restarts, for any definitions and any    *)
(* sequence of deploys, cut edits and starts that could not read it: every *)
(* field he moved comes back at a start that can read it.                  *)
THEOREM ChoiceSurvivesRestart == HbSpec => RestartKeepsChoice
<1>1. HbInv /\ [HbNext]_hbVars =>
        [\A d \in Deploys, h \in BOOLEAN, r \in Reading : Start(d, h, r) =>
           effective' = CASE r = "whole"       -> Kept(d)
                          [] r = "badSchedule" -> [Kept(d) EXCEPT !.schedule = d.schedule]
                          [] r = "unreadable"  -> d]_hbVars
  <2> SUFFICES ASSUME HbInv, NEW d \in Deploys, NEW h \in BOOLEAN, NEW r \in Reading,
                      Start(d, h, r)
               PROVE  effective' = CASE r = "whole"       -> Kept(d)
                                     [] r = "badSchedule" -> [Kept(d) EXCEPT !.schedule = d.schedule]
                                     [] r = "unreadable"  -> d
    OBVIOUS
  <2>1. d \in Def /\ DefPart
    BY HeartbeatAssumption DEF HbInv
  <2>2. effective' = WithOverride(d, r)
    BY DEF Start
  <2> QED
    BY <2>1, <2>2, OverrideIsKept
<1> QED
  BY HbInitInv, HbNextInv, <1>1, PTL DEF HbSpec, RestartKeepsChoice
=============================================================================
