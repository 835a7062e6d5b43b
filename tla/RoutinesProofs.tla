--------------------------- MODULE RoutinesProofs ---------------------------
(***************************************************************************)
(* Scheduled runs of a routine are an interval apart, for any threads and  *)
(* processes: last_run_at never falls behind the last claim without        *)
(* `putBack` saying so, and what a tick read was due when it read it. A    *)
(* save changes only what it is about unless its load has gone stale.      *)
(***************************************************************************)
EXTENDS Routines, TLAPS

(* A save in the making has the row it will be made from. *)
HeldIsARow == \A t \in Thread : Holds(t) => thread[t].snap \in Row

(* A row that was not written since it was loaded is still the row. *)
FreshIsRow == \A t \in Thread : Holds(t) /\ ~thread[t].stale => thread[t].snap = row

(* What a tick carries to its claim was due at its checked_at. *)
ReadWasDue ==
    \A t \in Thread :
        thread[t].pc = "due" /\ thread[t].read # None
           => thread[t].at - thread[t].read >= Every

(* Unless a save has put it back, last_run_at is at or after the last      *)
(* claim.                                                                  *)
LastAfterClaim ==
    claimed # None /\ ~putBack /\ row # None => row.last # None /\ row.last >= claimed

RtInv == RtTypeOK /\ HeldIsARow /\ FreshIsRow /\ ReadWasDue /\ LastAfterClaim

-----------------------------------------------------------------------------
(* None is no row and no time, and times are integers. *)
LEMMA NoneApart == None \notin Row /\ None \notin Time /\ Time \subseteq Int
BY RoutineAssumption DEF Row, Time

(* The initial state satisfies the invariant. *)
LEMMA RtInitInv == RtInit => RtInv
<1> SUFFICES ASSUME RtInit PROVE RtInv
  OBVIOUS
<1>1. Idle \in ThreadRec /\ Idle.pc = "idle"
  BY RoutineAssumption DEF Idle, ThreadRec, Time, Pc
<1>2. row \in Row
  BY DEF RtInit, Row
<1>3. thread \in [Thread -> ThreadRec]
  BY <1>1 DEF RtInit
<1>4. RtTypeOK
  <2>1. putBack \in BOOLEAN /\ claimed = None /\ owed = {} /\ running = {}
    BY DEF RtInit
  <2>2. now \in Time /\ crashes \in 0 .. MaxCrash
    BY RoutineAssumption DEF RtInit, Time
  <2> QED
    BY <1>2, <1>3, <2>1, <2>2 DEF RtTypeOK
<1>5. HeldIsARow /\ FreshIsRow /\ ReadWasDue
  BY <1>1 DEF RtInit, HeldIsARow, FreshIsRow, ReadWasDue, Holds
<1>6. LastAfterClaim
  BY DEF RtInit, LastAfterClaim
<1> QED
  BY <1>4, <1>5, <1>6 DEF RtInv

(* A thread that goes on to a well-formed record keeps the threads'        *)
(* invariants, if what it holds and what it read are right.                *)
LEMMA ThreadsKept ==
    ASSUME RtInv, NEW t \in Thread, NEW rec \in ThreadRec,
           (Becomes(t, rec) /\ UNCHANGED row) \/ Wrote(t, rec),
           rec.pc \in {"saving", "patching"} => rec.snap \in Row /\ rec.snap = row',
           rec.pc = "due" /\ rec.read # None => rec.at - rec.read >= Every
    PROVE  thread' \in [Thread -> ThreadRec] /\ HeldIsARow' /\ FreshIsRow' /\ ReadWasDue'
<1>1. thread \in [Thread -> ThreadRec]
  BY DEF RtInv, RtTypeOK
<1>2. \A v \in Thread : [thread[v] EXCEPT !.stale = TRUE] \in ThreadRec
  BY <1>1 DEF ThreadRec
<1>3. thread' \in [Thread -> ThreadRec]
  BY <1>1, <1>2 DEF Becomes, Wrote
<1>4. thread'[t] = rec
  BY <1>1 DEF Becomes, Wrote
<1>5. \A v \in Thread \ {t} : /\ thread'[v].pc = thread[v].pc
                             /\ thread'[v].snap = thread[v].snap
                             /\ thread'[v].read = thread[v].read
                             /\ thread'[v].at = thread[v].at
  BY <1>1 DEF Becomes, Wrote, ThreadRec
<1>6. HeldIsARow'
  BY <1>4, <1>5 DEF RtInv, HeldIsARow, Holds
<1>7. ReadWasDue'
  BY <1>4, <1>5 DEF RtInv, ReadWasDue
<1>8. FreshIsRow'
  <2>1. ASSUME NEW v \in Thread \ {t}, Wrote(t, rec) PROVE ~(Holds(v)' /\ ~thread'[v].stale)
    <3>1. CASE Holds(v)
      BY <1>1, <2>1, <3>1 DEF Wrote, ThreadRec
    <3>2. CASE ~Holds(v)
      BY <1>1, <2>1, <3>2 DEF Wrote, Holds
    <3> QED
      BY <3>1, <3>2
  <2>2. ASSUME NEW v \in Thread \ {t}, Becomes(t, rec), UNCHANGED row,
               Holds(v)', ~thread'[v].stale
        PROVE  thread'[v].snap = row'
    BY <1>1, <2>2 DEF Becomes, RtInv, FreshIsRow, Holds
  <2> QED
    BY <1>4, <2>1, <2>2 DEF FreshIsRow, Holds
<1> QED
  BY <1>3, <1>6, <1>7, <1>8

(* A save from a row it holds leaves last_run_at at or after the claim, or *)
(* says that it did not.                                                   *)
LEMMA SaveKeeps ==
    ASSUME RtInv, NEW r \in Row, Save(r), UNCHANGED claimed
    PROVE  row' \in Row /\ putBack' \in BOOLEAN /\ LastAfterClaim'
<1>1. row' = r /\ putBack' = (putBack \/ row = None \/ Older(r.last, row.last))
  BY DEF Save
<1>2. putBack' \in BOOLEAN
  BY <1>1 DEF RtInv, RtTypeOK, Older
<1>3. SUFFICES ASSUME claimed # None, ~putBack'
               PROVE  r.last # None /\ r.last >= claimed
  BY <1>1, <1>2 DEF LastAfterClaim
<1>4. ~putBack /\ row # None /\ ~Older(r.last, row.last)
  BY <1>1, <1>3
<1>5. row.last # None /\ row.last >= claimed
  BY <1>3, <1>4 DEF RtInv, LastAfterClaim
<1>6. row \in Row /\ claimed \in Time
  BY <1>3, <1>4 DEF RtInv, RtTypeOK
<1>7. r.last \in Time \union {None} /\ row.last \in Time
  BY <1>5, <1>6 DEF Row
<1>8. r.last # None /\ ~(r.last < row.last)
  BY <1>4, <1>5 DEF Older
<1> QED
  BY <1>5, <1>6, <1>7, <1>8, RoutineAssumption DEF Time

-----------------------------------------------------------------------------
(* Every step keeps the invariant: one step per action. *)
LEMMA RtNextInv == RtInv /\ [RtNext]_rtVars => RtInv'
<1> SUFFICES ASSUME RtInv, [RtNext]_rtVars PROVE RtInv'
  OBVIOUS
<1> USE NoneApart, RoutineAssumption
<1>t. thread \in [Thread -> ThreadRec] /\ row \in Row \union {None} /\ now \in Time
  BY DEF RtInv, RtTypeOK
<1>i. Idle \in ThreadRec /\ Idle.pc = "idle"
  BY DEF Idle, ThreadRec, Time, Pc
<1>1. CASE Tick
  BY <1>1 DEF Tick, RtInv, RtTypeOK, HeldIsARow, FreshIsRow, ReadWasDue, LastAfterClaim, Holds, Time
<1>2. ASSUME NEW t \in Thread, ListDue(t) PROVE RtInv'
  <2> DEFINE rec == [Idle EXCEPT !.pc = "due", !.tick = TRUE, !.at = now, !.read = row.last]
  <2>1. /\ rec \in ThreadRec /\ rec.pc = "due"
        /\ rec.read # None => rec.at - rec.read >= Every
    BY <1>2, <1>t DEF ListDue, Due, Idle, ThreadRec, Row, Pc
  <2>2. thread' \in [Thread -> ThreadRec] /\ HeldIsARow' /\ FreshIsRow' /\ ReadWasDue'
    BY <1>2, <2>1, ThreadsKept DEF ListDue
  <2> QED
    BY <1>2, <2>2 DEF ListDue, RtInv, RtTypeOK, LastAfterClaim
<1>3. ASSUME NEW t \in Thread, Claim(t) PROVE RtInv'
  <2>1. CASE ClaimMatches(t)
    <3> DEFINE rec == [thread[t] EXCEPT !.pc = "starting", !.read = None]
    <3>1. rec \in ThreadRec /\ rec.pc = "starting"
      BY <1>t DEF ThreadRec, Pc
    <3>2. thread' \in [Thread -> ThreadRec] /\ HeldIsARow' /\ FreshIsRow' /\ ReadWasDue'
      BY <1>3, <2>1, <3>1, ThreadsKept DEF Claim
    <3>3. /\ row' \in Row /\ row'.last = thread[t].at /\ thread[t].at \in Time
          /\ claimed' = thread[t].at /\ putBack' = FALSE
      BY <1>3, <2>1, <1>t DEF Claim, ClaimMatches, Row, ThreadRec
    <3>4. LastAfterClaim'
      BY <3>3 DEF LastAfterClaim, Time
    <3>5. owed' \in SUBSET Process
      BY <1>3, <2>1 DEF Claim, RtInv, RtTypeOK
    <3> QED
      BY <1>3, <3>2, <3>3, <3>4, <3>5 DEF Claim, RtInv, RtTypeOK
  <2>2. CASE ~ClaimMatches(t)
    <3>1. thread' \in [Thread -> ThreadRec] /\ HeldIsARow' /\ FreshIsRow' /\ ReadWasDue'
      BY <1>3, <2>2, <1>i, ThreadsKept DEF Claim
    <3> QED
      BY <1>3, <2>2, <3>1 DEF Claim, RtInv, RtTypeOK, LastAfterClaim
  <2> QED
    BY <2>1, <2>2
<1>4. ASSUME NEW t \in Thread, RunRoutine(t) PROVE RtInv'
  <2> DEFINE rec == [Idle EXCEPT !.pc = "starting", !.at = now]
  <2>1. rec \in ThreadRec /\ rec.pc = "starting"
    BY <1>t DEF Idle, ThreadRec, Pc
  <2>2. thread' \in [Thread -> ThreadRec] /\ HeldIsARow' /\ FreshIsRow' /\ ReadWasDue'
    BY <1>4, <2>1, ThreadsKept DEF RunRoutine
  <2> QED
    BY <1>4, <2>2 DEF RunRoutine, RtInv, RtTypeOK, LastAfterClaim
<1>5. ASSUME NEW t \in Thread, ExecuteRoutine(t) PROVE RtInv'
  <2>1. [thread[t] EXCEPT !.pc = "running"] \in ThreadRec
    BY <1>t DEF ThreadRec, Pc
  <2>2. [thread[t] EXCEPT !.pc = "running"].pc = "running"
    BY <1>t DEF ThreadRec
  <2>3. /\ \E rec \in {Idle, [thread[t] EXCEPT !.pc = "running"]} : Becomes(t, rec)
        /\ UNCHANGED row
    BY <1>5 DEF ExecuteRoutine
  <2>4. thread' \in [Thread -> ThreadRec] /\ HeldIsARow' /\ FreshIsRow' /\ ReadWasDue'
    BY <2>1, <2>2, <2>3, <1>i, ThreadsKept
  <2>5. running' \in SUBSET Process
    BY <1>5 DEF ExecuteRoutine, RtInv, RtTypeOK
  <2> QED
    BY <1>5, <2>4, <2>5 DEF ExecuteRoutine, RtInv, RtTypeOK, LastAfterClaim
<1>6. ASSUME NEW t \in Thread, RunEnds(t) PROVE RtInv'
  <2>1. /\ [thread[t] EXCEPT !.pc = "recording"] \in ThreadRec
        /\ [thread[t] EXCEPT !.pc = "recording"].pc = "recording"
    BY <1>t DEF ThreadRec, Pc
  <2>2. thread' \in [Thread -> ThreadRec] /\ HeldIsARow' /\ FreshIsRow' /\ ReadWasDue'
    BY <1>6, <2>1, ThreadsKept DEF RunEnds
  <2> QED
    BY <1>6, <2>2 DEF RunEnds, RtInv, RtTypeOK, LastAfterClaim
<1>7. ASSUME NEW t \in Thread, RecordLoads(t) PROVE RtInv'
  <2> DEFINE rec == IF row = None THEN [thread[t] EXCEPT !.pc = "finishing"]
                    ELSE [thread[t] EXCEPT !.pc = "saving", !.snap = row]
  <2>1. /\ rec \in ThreadRec /\ rec.pc \in {"saving", "finishing"}
        /\ rec.pc = "saving" => rec.snap \in Row /\ rec.snap = row
    BY <1>t DEF ThreadRec, Pc
  <2>2. thread' \in [Thread -> ThreadRec] /\ HeldIsARow' /\ FreshIsRow' /\ ReadWasDue'
    BY <1>7, <2>1, ThreadsKept DEF RecordLoads
  <2> QED
    BY <1>7, <2>2 DEF RecordLoads, RtInv, RtTypeOK, LastAfterClaim
<1>8. ASSUME NEW t \in Thread, RecordSaves(t) PROVE RtInv'
  <2> DEFINE rec == [thread[t] EXCEPT !.pc = "finishing", !.snap = None, !.stale = FALSE]
  <2>1. rec \in ThreadRec /\ rec.pc = "finishing"
    BY <1>t DEF ThreadRec, Pc
  <2>2. thread' \in [Thread -> ThreadRec] /\ HeldIsARow' /\ FreshIsRow' /\ ReadWasDue'
    BY <1>8, <2>1, ThreadsKept DEF RecordSaves
  <2>3. thread[t].snap \in Row /\ thread[t].at \in Time
    BY <1>8, <1>t DEF RecordSaves, RtInv, HeldIsARow, Holds, ThreadRec
  <2>4. [thread[t].snap EXCEPT !.last = thread[t].at] \in Row
    BY <2>3 DEF Row
  <2>5. row' \in Row /\ putBack' \in BOOLEAN /\ LastAfterClaim'
    BY <1>8, <2>4, SaveKeeps DEF RecordSaves
  <2> QED
    BY <1>8, <2>2, <2>5 DEF RecordSaves, RtInv, RtTypeOK
<1>9. ASSUME NEW t \in Thread, Finish(t) PROVE RtInv'
  <2>1. thread' \in [Thread -> ThreadRec] /\ HeldIsARow' /\ FreshIsRow' /\ ReadWasDue'
    BY <1>9, <1>i, ThreadsKept DEF Finish
  <2> QED
    BY <1>9, <2>1 DEF Finish, RtInv, RtTypeOK, LastAfterClaim
<1>10. ASSUME NEW t \in Thread, PatchLoads(t) PROVE RtInv'
  <2> DEFINE rec == [Idle EXCEPT !.pc = "patching", !.snap = row]
  <2>1. rec \in ThreadRec /\ rec.pc = "patching" /\ rec.snap \in Row /\ rec.snap = row
    <3>1. row \in Row
      BY <1>10, <1>t DEF PatchLoads
    <3> QED
      BY <1>i, <3>1 DEF Idle, ThreadRec, Pc
  <2>2. thread' \in [Thread -> ThreadRec] /\ HeldIsARow' /\ FreshIsRow' /\ ReadWasDue'
    BY <1>10, <2>1, ThreadsKept DEF PatchLoads
  <2> QED
    BY <1>10, <2>2 DEF PatchLoads, RtInv, RtTypeOK, LastAfterClaim
<1>11. ASSUME NEW t \in Thread, NEW s \in {"on", "off", None}, PatchSaves(t, s)
       PROVE  RtInv'
  <2>1. thread' \in [Thread -> ThreadRec] /\ HeldIsARow' /\ FreshIsRow' /\ ReadWasDue'
    BY <1>11, <1>i, ThreadsKept DEF PatchSaves
  <2> DEFINE r == IF s = None THEN thread[t].snap ELSE [thread[t].snap EXCEPT !.status = s]
  <2>2. thread[t].snap \in Row
    BY <1>11 DEF PatchSaves, RtInv, HeldIsARow, Holds
  <2>3. r \in Row
    BY <2>2 DEF Row
  <2>4. row' \in Row /\ putBack' \in BOOLEAN /\ LastAfterClaim'
    BY <1>11, <2>3, SaveKeeps DEF PatchSaves
  <2> QED
    BY <1>11, <2>1, <2>4 DEF PatchSaves, RtInv, RtTypeOK
<1>12. ASSUME NEW t \in Thread, Delete(t) PROVE RtInv'
  <2>1. thread' \in [Thread -> ThreadRec] /\ HeldIsARow' /\ FreshIsRow' /\ ReadWasDue'
    BY <1>12, <1>i, ThreadsKept DEF Delete
  <2> QED
    BY <1>12, <2>1 DEF Delete, RtInv, RtTypeOK, LastAfterClaim
<1>13. ASSUME NEW p \in Process, Crash(p) PROVE RtInv'
  <2>1. thread' \in [Thread -> ThreadRec]
    BY <1>13, <1>t, <1>i DEF Crash
  <2>2. HeldIsARow' /\ FreshIsRow' /\ ReadWasDue'
    BY <1>13, <1>t, <1>i DEF Crash, RtInv, HeldIsARow, FreshIsRow, ReadWasDue, Holds
  <2> QED
    BY <1>13, <2>1, <2>2 DEF Crash, RtInv, RtTypeOK, LastAfterClaim
<1>15. ASSUME NEW t \in Thread, TickRaises(t) PROVE RtInv'
  <2>1. thread' \in [Thread -> ThreadRec] /\ HeldIsARow' /\ FreshIsRow' /\ ReadWasDue'
    BY <1>15, <1>i, ThreadsKept DEF TickRaises
  <2>2. owed' \in SUBSET Process
    BY <1>15 DEF TickRaises, RtInv, RtTypeOK
  <2> QED
    BY <1>15, <2>1, <2>2 DEF TickRaises, RtInv, RtTypeOK, LastAfterClaim
<1>16. ASSUME NEW t \in Thread, RunRaises(t) PROVE RtInv'
  <2> DEFINE rec == [thread[t] EXCEPT !.pc = "finishing", !.snap = None, !.stale = FALSE]
  <2>1. rec \in ThreadRec /\ rec.pc = "finishing"
    BY <1>t DEF ThreadRec, Pc
  <2>2. thread' \in [Thread -> ThreadRec] /\ HeldIsARow' /\ FreshIsRow' /\ ReadWasDue'
    BY <1>16, <2>1, ThreadsKept DEF RunRaises
  <2> QED
    BY <1>16, <2>2 DEF RunRaises, RtInv, RtTypeOK, LastAfterClaim
<1>14. CASE UNCHANGED rtVars
  BY <1>14 DEF rtVars, RtInv, RtTypeOK, HeldIsARow, FreshIsRow, ReadWasDue, LastAfterClaim, Holds
<1> QED
  BY <1>1, <1>2, <1>3, <1>4, <1>5, <1>6, <1>7, <1>8, <1>9, <1>10, <1>11, <1>12, <1>13, <1>14,
     <1>15, <1>16
  DEF RtNext, RunStep, OwnerStep, Raises

(* In a state of the invariant, a claim that is won is an interval after   *)
(* the last one.                                                           *)
LEMMA ClaimIsApart ==
    ASSUME RtInv, NEW t \in Thread, Claim(t), ClaimMatches(t), claimed # None, ~putBack
    PROVE  thread[t].at - claimed >= Every
<1>1. row # None /\ row.last = thread[t].read /\ thread[t].pc = "due"
  BY DEF Claim, ClaimMatches
<1>2. thread[t].read # None /\ thread[t].read >= claimed
  BY <1>1 DEF RtInv, LastAfterClaim
<1>3. thread[t].at - thread[t].read >= Every
  BY <1>1, <1>2 DEF RtInv, ReadWasDue
<1>4. thread[t].at \in Time /\ thread[t].read \in Time /\ claimed \in Time
  BY <1>2 DEF RtInv, RtTypeOK, ThreadRec
<1> QED
  BY <1>2, <1>3, <1>4, NoneApart, RoutineAssumption DEF Time

(* A step of another thread leaves where thread t stands alone. *)
LEMMA OthersStay ==
    ASSUME RtInv, NEW t \in Thread, NEW v \in Thread, v # t,
           ListDue(v) \/ RunRoutine(v) \/ RunStep(v) \/ OwnerStep(v) \/ Raises(v)
    PROVE  thread'[t].pc = thread[t].pc
<1>1. PICK rec : Becomes(v, rec) \/ Wrote(v, rec)
  BY DEF ListDue, RunRoutine, RunStep, OwnerStep, Claim, ExecuteRoutine, RunEnds,
         RecordLoads, RecordSaves, Finish, PatchLoads, PatchSaves, Delete,
         Raises, TickRaises, RunRaises
<1> QED
  BY <1>1 DEF RtInv, RtTypeOK, Becomes, Wrote, ThreadRec

(* Only a claim that is won takes a thread from "due" to "starting". *)
LEMMA OnlyClaimStarts ==
    ASSUME RtInv, RtNext, NEW t \in Thread,
           thread[t].pc = "due", thread'[t].pc = "starting"
    PROVE  Claim(t) /\ ClaimMatches(t)
<1>t. thread \in [Thread -> ThreadRec] /\ Idle.pc = "idle"
  BY DEF RtInv, RtTypeOK, Idle
<1>1. Claim(t) => ClaimMatches(t)
  BY <1>t DEF Claim, Becomes
<1>2. ASSUME NEW v \in Thread, v # t
      PROVE  ~(ListDue(v) \/ RunRoutine(v) \/ RunStep(v) \/ OwnerStep(v) \/ Raises(v))
  BY <1>2, OthersStay
<1>3. ListDue(t) \/ RunRoutine(t) \/ RunStep(t) \/ OwnerStep(t) => Claim(t)
  BY DEF ListDue, RunRoutine, RunStep, OwnerStep, ExecuteRoutine, RunEnds,
         RecordLoads, RecordSaves, Finish, PatchLoads, PatchSaves, Delete
<1>6. ~Raises(t)
  BY <1>t DEF Raises, TickRaises, RunRaises, Becomes
<1>4. ASSUME NEW p \in Process, Crash(p) PROVE FALSE
  BY <1>4, <1>t DEF Crash
<1>5. ~Tick
  BY DEF Tick
<1> QED
  BY <1>1, <1>2, <1>3, <1>4, <1>5, <1>6 DEF RtNext

(* A save whose load is not stale changes only what it is about. *)
LEMMA FreshSaveKeepsRest ==
    ASSUME RtInv, RtNext, NEW t \in Thread, Holds(t), ~thread[t].stale,
           thread'[t].pc \in {"finishing", "idle"}
    PROVE  \/ row' = row
           \/ /\ row # None /\ row' # None
              /\ IF thread[t].pc = "saving" THEN row'.status = row.status
                                           ELSE row'.last = row.last
<1>1. row \in Row /\ thread[t].snap = row /\ thread[t].pc \in {"saving", "patching"}
  BY DEF RtInv, HeldIsARow, FreshIsRow, Holds
<1>2. thread[t].at \in Time
  BY DEF RtInv, RtTypeOK, ThreadRec
<1>3. CASE RecordSaves(t)
  <2>1. /\ thread[t].pc = "saving"
        /\ row' = [row EXCEPT !.last = thread[t].at]
    BY <1>1, <1>3 DEF RecordSaves, Save
  <2>2. row' \in Row /\ row'.status = row.status
    BY <1>1, <1>2, <2>1 DEF Row
  <2> QED
    BY <1>1, <2>1, <2>2, NoneApart
<1>4. ASSUME NEW s \in {"on", "off", None}, PatchSaves(t, s)
      PROVE  row' # None /\ thread[t].pc = "patching" /\ row'.last = row.last
  <2>1. /\ thread[t].pc = "patching"
        /\ row' = IF s = None THEN row ELSE [row EXCEPT !.status = s]
    BY <1>1, <1>4 DEF PatchSaves, Save
  <2>2. row' \in Row /\ row'.last = row.last
    BY <1>1, <1>4, <2>1 DEF Row
  <2> QED
    BY <2>1, <2>2, NoneApart
<1>5. ListDue(t) \/ RunRoutine(t) \/ RunStep(t) \/ OwnerStep(t)
        => RecordSaves(t) \/ \E s \in {"on", "off", None} : PatchSaves(t, s)
  BY <1>1 DEF ListDue, RunRoutine, RunStep, OwnerStep, Claim, ExecuteRoutine, RunEnds,
              RecordLoads, Finish, PatchLoads, Delete
<1>6. ASSUME NEW v \in Thread, v # t
      PROVE  ~(ListDue(v) \/ RunRoutine(v) \/ RunStep(v) \/ OwnerStep(v) \/ Raises(v))
  BY <1>1, <1>6, OthersStay
<1>7. (Tick \/ Raises(t) \/ \E p \in Process : Crash(p)) => row' = row
  BY DEF Tick, Crash, Raises, TickRaises, RunRaises
<1> QED
  BY <1>1, <1>3, <1>4, <1>5, <1>6, <1>7, NoneApart DEF RtNext

(* The types of the model's variables, of every behaviour of the routine.  *)
THEOREM RtTypeCorrect == RtSpec => []RtTypeOK
<1>1. RtInv => RtTypeOK
  BY DEF RtInv
<1> QED
  BY RtInitInv, RtNextInv, <1>1, PTL DEF RtSpec

(* Two claims of RoutineStore.claim that are won are at least an interval  *)
(* apart, for any number of processes and ticks, unless a save put         *)
(* last_run_at back in between.                                            *)
THEOREM ScheduledRunsAreApart == RtSpec => SlotsAreApart
<1>1. RtInv /\ [RtNext]_rtVars =>
        [\A t \in Thread :
          /\ thread[t].pc = "due" /\ thread'[t].pc = "starting"
          /\ claimed # None /\ ~putBack
          => thread[t].at - claimed >= Every]_rtVars
  <2> SUFFICES ASSUME RtInv, RtNext, NEW t \in Thread,
                      thread[t].pc = "due", thread'[t].pc = "starting",
                      claimed # None, ~putBack
               PROVE  thread[t].at - claimed >= Every
    OBVIOUS
  <2> QED
    BY OnlyClaimStarts, ClaimIsApart
<1> QED
  BY RtInitInv, RtNextInv, <1>1, PTL DEF RtSpec, SlotsAreApart

(* RoutineStore.save writes every column, yet a run's record keeps the     *)
(* status and an edit keeps last_run_at, for any number of threads, unless *)
(* the row was written between its load and its save.                      *)
THEOREM UnracedSavesKeepRest == RtSpec => UnracedSaveKeepsRest
<1>1. RtInv /\ [RtNext]_rtVars =>
        [\A t \in Thread :
          Holds(t) /\ ~thread[t].stale /\ thread'[t].pc \in {"finishing", "idle"} =>
             \/ row' = row
             \/ /\ row # None /\ row' # None
                /\ IF thread[t].pc = "saving" THEN row'.status = row.status
                                             ELSE row'.last = row.last]_rtVars
  BY FreshSaveKeepsRest
<1> QED
  BY RtInitInv, RtNextInv, <1>1, PTL DEF RtSpec, UnracedSaveKeepsRest
=============================================================================
