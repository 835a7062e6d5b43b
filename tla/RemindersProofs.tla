--------------------------- MODULE RemindersProofs ---------------------------
(***************************************************************************)
(* Theorems about Reminders, for any number of reminders, heartbeats and   *)
(* commands, with any bounds on time, commands and cuts.                   *)
(*                                                                         *)
(* The argument: as long as no send of a row is cut off or overrun, at     *)
(* most one tick stands between its claim and the record of what came of   *)
(* the send, and a row nobody is sending waits only if it was not heard    *)
(* and has an attempt left (Clean). A series goes on because every write   *)
(* that ends a row's waiting leaves its follow-up in somebody's hand.      *)
(***************************************************************************)
EXTENDS Reminders, TLAPS

RowTyped ==
    /\ status \in [Reminder -> Status]
    /\ series \in [Reminder -> Reminder \union {None}]
    /\ at \in [Reminder -> Time]
    /\ nextTry \in [Reminder -> 1 .. MaxTime + 1 \union {None}]
    /\ attempts \in [Reminder -> Nat]
    /\ fired \in [Reminder -> BOOLEAN]
    /\ dismissed \in [Reminder -> BOOLEAN]

ProcTyped ==
    /\ pc \in [Proc -> Pc]
    /\ op \in [Proc -> Op]
    /\ when \in [Proc -> Time]
    /\ todo \in [Proc -> SUBSET Reminder]
    /\ cur \in [Proc -> Reminder \union {None}]
    /\ seenAt \in [Proc -> Time]
    /\ spent \in [Proc -> BOOLEAN]
    /\ got \in [Proc -> BOOLEAN]
    /\ slot \in [Proc -> Time]

TraceTyped ==
    /\ accepted \in [Reminder -> Nat]
    /\ ended \in SUBSET Reminder
    /\ strained \in SUBSET Reminder
    /\ cuts \in 0 .. MaxCuts

(* Whatever a process lists or works on is a row of the table, and what it *)
(* follows up repeats.                                                     *)
Working == {"sending", "answered", "writing", "following", "creating"}
RowsLive ==
    /\ \A p \in Proc : \A r \in todo[p] : status[r] # "none"
    /\ \A p \in Proc : pc[p] \in Working => cur[p] \in Reminder /\ status[cur[p]] # "none"
    /\ \A p \in Proc : pc[p] \in {"following", "creating"} => series[cur[p]] # None
    /\ \A r \in Reminder : status[r] = "none" => attempts[r] = 0 /\ accepted[r] = 0

(* From its claim of the row to the record of what came of the send. *)
InSend(p, r) == cur[p] = r /\ pc[p] \in {"sending", "answered", "writing"}

Unsent(r) == accepted[r] = 0 /\ attempts[r] < MaxAttempts

Clean(r) ==
    /\ \A p, q \in Sender : InSend(p, r) /\ InSend(q, r) => p = q
    /\ attempts[r] <= MaxAttempts /\ accepted[r] <= 1
    /\ status[r] = "failed" => accepted[r] = 0
    /\ (\A p \in Sender : ~InSend(p, r)) =>
          status[r] # "sending" /\ (status[r] = "pending" => Unsent(r))
    /\ \A p \in Sender : InSend(p, r) =>
          /\ status[r] # "failed"
          /\ pc[p] = "sending" \/ ~got[p] => accepted[r] = 0
          /\ pc[p] = "writing" /\ ~got[p] /\ ~spent[p] => attempts[r] < MaxAttempts

SendsOnce == \A r \in Reminder \ strained : Clean(r)

(* The invariant but for the number of commands given. *)
Core ==
    /\ now \in Time /\ RowTyped /\ ProcTyped /\ TraceTyped
    /\ RowsLive /\ SeriesGoesOn /\ SendsOnce

-----------------------------------------------------------------------------
(* What a step of one process leaves alone.                                *)

Alone(p) ==
    \A q \in Proc \ {p} : /\ pc'[q] = pc[q] /\ todo'[q] = todo[q] /\ cur'[q] = cur[q]
                          /\ spent'[q] = spent[q] /\ got'[q] = got[q]

(* The rows keep their place in their series, and stay cancelled. *)
Kept ==
    \A r \in Reminder :
        status[r] # "none" => /\ status'[r] # "none" /\ series'[r] = series[r]
                              /\ dismissed[r] => dismissed'[r]

LEMMA Bounds ==
    /\ MaxTime \in Nat /\ MaxCuts \in Nat /\ MaxAttempts \in Nat /\ 0 < MaxAttempts
    /\ 0 \in Time /\ None \notin Reminder /\ Sender \subseteq Proc /\ Commander \subseteq Proc
    /\ \A p \in Commander : p \notin Sender
BY ReminderAssumption DEF Time, Proc

LEMMA OverIs ==
    ASSUME ProcTyped, NEW p \in Proc, NEW left \in SUBSET Reminder, Over(p, left)
    PROVE  /\ ProcTyped' /\ Alone(p)
           /\ todo'[p] = left /\ pc'[p] \in {"idle", "listed"} /\ cur'[p] = None
<1>1. ProcTyped'
  BY Bounds DEF ProcTyped, Over, Pc, Op
<1>2. Alone(p)
  BY DEF ProcTyped, Over, Alone
<1>3. todo'[p] = left /\ pc'[p] \in {"idle", "listed"} /\ cur'[p] = None
  BY DEF ProcTyped, Over
<1> QED
  BY <1>1, <1>2, <1>3

LEMMA FollowsIs ==
    ASSUME ProcTyped, NEW p \in Proc, Follows(p)
    PROVE  /\ ProcTyped' /\ Alone(p) /\ todo'[p] = todo[p]
           /\ \/ series[cur[p]] = None /\ pc'[p] \in {"idle", "listed"}
              \/ series[cur[p]] # None /\ pc'[p] = "following" /\ cur'[p] = cur[p]
<1>1. CASE series[cur[p]] = None
  <2>1. Over(p, todo[p]) /\ todo[p] \in SUBSET Reminder
    BY <1>1 DEF Follows, ProcTyped
  <2> QED
    BY <1>1, <2>1, OverIs
<1>2. CASE series[cur[p]] # None
  <2>1. Goes(p, "following") /\ UNCHANGED <<op, when, todo, cur, seenAt, spent, got, slot>>
    BY <1>2 DEF Follows
  <2>2. ProcTyped' /\ pc'[p] = "following"
    BY <2>1 DEF ProcTyped, Goes, Pc
  <2>3. Alone(p)
    BY <2>1 DEF ProcTyped, Goes, Alone
  <2> QED
    BY <1>2, <2>1, <2>2, <2>3
<1> QED
  BY <1>1, <1>2

LEMMA ListsIs ==
    ASSUME ProcTyped, now \in Time, NEW p \in Proc, NEW o \in Op, NEW rows \in SUBSET Reminder,
           Lists(p, o, rows)
    PROVE  ProcTyped' /\ Alone(p) /\ todo'[p] = rows /\ pc[p] = "idle" /\ pc'[p] = "listed"
<1>1. ProcTyped' /\ todo'[p] = rows /\ pc[p] = "idle" /\ pc'[p] = "listed"
  BY DEF ProcTyped, Lists, Goes, Pc
<1>2. Alone(p)
  BY DEF ProcTyped, Lists, Goes, Alone
<1> QED
  BY <1>1, <1>2

LEMMA ReadsIs ==
    ASSUME ProcTyped, RowTyped, NEW p \in Proc, NEW r \in Reminder, NEW o \in Op, Reads(p, r, o)
    PROVE  /\ ProcTyped' /\ Alone(p) /\ todo'[p] = todo[p] \ {r}
           /\ pc'[p] = "writing" /\ cur'[p] = r
<1>1. ProcTyped' /\ todo'[p] = todo[p] \ {r} /\ pc'[p] = "writing" /\ cur'[p] = r
  BY DEF ProcTyped, RowTyped, Reads, Goes, Pc
<1>2. Alone(p)
  BY DEF ProcTyped, Reads, Goes, Alone
<1> QED
  BY <1>1, <1>2

-----------------------------------------------------------------------------
(* The rows stay live. *)
LEMMA LiveKeeps ==
    ASSUME RowsLive, ProcTyped, NEW p \in Proc, Alone(p), Kept,
           \A r \in todo'[p] : r \in Reminder /\ status'[r] # "none",
           pc'[p] \in Working => cur'[p] \in Reminder /\ status'[cur'[p]] # "none",
           pc'[p] \in {"following", "creating"} => series'[cur'[p]] # None,
           \A r \in Reminder : status'[r] = "none" => attempts'[r] = 0 /\ accepted'[r] = 0
    PROVE  RowsLive'
<1>1. \A q \in Proc : \A r \in todo'[q] : status'[r] # "none"
  BY DEF RowsLive, ProcTyped, Alone, Kept
<1>2. \A q \in Proc : pc'[q] \in Working => cur'[q] \in Reminder /\ status'[cur'[q]] # "none"
  BY DEF RowsLive, Alone, Kept
<1>3. \A q \in Proc : pc'[q] \in {"following", "creating"} => series'[cur'[q]] # None
  BY DEF RowsLive, Alone, Kept, Working
<1> QED
  BY <1>1, <1>2, <1>3 DEF RowsLive

(* A series whose rows and whose follow-ups in hand all go on, goes on. *)
Hand     == {"writing", "following", "creating"}
Waits(r) == status[r] \in {"pending", "sending"} \/ dismissed[r]
OnTo(s)  == \/ \E r \in Reminder : series[r] = s /\ status[r] # "none" /\ Waits(r)
            \/ InHand(s) \/ s \in ended \/ cuts > 0

LEMMA SeriesIs ==
    SeriesGoesOn <=> \A s, r \in Reminder : series[r] = s /\ status[r] # "none" => OnTo(s)
BY DEF SeriesGoesOn, OnTo, Waits

LEMMA SeriesKeeps ==
    ASSUME SeriesGoesOn, RowsLive, ProcTyped, RowTyped, NEW p \in Proc, Alone(p), Kept,
           ended \subseteq ended', cuts > 0 => cuts' > 0,
           \A r \in Reminder : status[r] = "none" /\ status'[r] # "none" =>
                                   status'[r] = "pending",
           \A s, r \in Reminder : status[r] \in {"pending", "sending"} /\ series[r] = s =>
                                      Waits(r)' \/ OnTo(s)',
           \A s \in Reminder : pc[p] \in Hand /\ series[cur[p]] = s => OnTo(s)'
    PROVE  SeriesGoesOn'
<1>1. ASSUME NEW s \in Reminder, OnTo(s) PROVE OnTo(s)'
  <2>1. CASE \E r \in Reminder : series[r] = s /\ status[r] # "none" /\ Waits(r)
    <3>1. PICK r \in Reminder : series[r] = s /\ status[r] # "none" /\ Waits(r)
      BY <2>1
    <3>2. series'[r] = s /\ status'[r] # "none"
      BY <3>1 DEF Kept
    <3>3. Waits(r)' \/ OnTo(s)'
      BY <3>1 DEF Waits, Kept
    <3>4. Waits(r)' => OnTo(s)'
      BY <3>2 DEF OnTo
    <3> QED
      BY <3>3, <3>4
  <2>2. CASE InHand(s)
    <3>1. PICK q \in Proc : cur[q] # None /\ series[cur[q]] = s /\ pc[q] \in Hand
      BY <2>2 DEF InHand, Hand
    <3>2. CASE q = p
      BY <3>1, <3>2
    <3>3. CASE q # p
      <4>1. cur[q] \in Reminder /\ status[cur[q]] # "none"
        BY <3>1 DEF RowsLive, Hand, Working
      <4>2. series'[cur[q]] = s /\ cur'[q] = cur[q] /\ pc'[q] = pc[q]
        BY <3>1, <3>3, <4>1 DEF Kept, Alone
      <4>3. InHand(s)'
        BY <3>1, <4>2 DEF InHand, Hand
      <4> QED
        BY <4>3 DEF OnTo
    <3> QED
      BY <3>2, <3>3
  <2>3. CASE s \in ended \/ cuts > 0
    BY <2>3 DEF OnTo
  <2> QED
    BY <1>1, <2>1, <2>2, <2>3 DEF OnTo
<1>2. ASSUME NEW s \in Reminder, NEW r \in Reminder, series'[r] = s, status'[r] # "none"
      PROVE  OnTo(s)'
  <2>1. CASE status[r] = "none"
    BY <1>2, <2>1 DEF OnTo, Waits
  <2>2. CASE status[r] # "none"
    <3>1. series[r] = s
      BY <1>2, <2>2 DEF Kept
    <3> QED
      BY <1>1, <2>2, <3>1, SeriesIs
  <2> QED
    BY <2>1, <2>2
<1> QED
  BY <1>2 DEF SeriesGoesOn, OnTo, Waits

-----------------------------------------------------------------------------
(* Sends. A step that has nothing to do with the sending of a row leaves   *)
(* its senders as they are.                                                *)
Away(p, r) == p \in Sender => ~InSend(p, r) /\ ~InSend(p, r)'

SameSenders(r) ==
    \A q \in Sender : /\ InSend(q, r)' <=> InSend(q, r)
                      /\ InSend(q, r) => /\ pc'[q] = pc[q] /\ got'[q] = got[q]
                                         /\ spent'[q] = spent[q]

LEMMA AwaySame ==
    ASSUME NEW p \in Proc, NEW r \in Reminder, Alone(p), Away(p, r)
    PROVE  SameSenders(r)
BY Bounds DEF Alone, Away, SameSenders, InSend

(* Such a step keeps a row clean if it leaves it alone, ends it, or sets   *)
(* it waiting afresh.                                                      *)
LEMMA CleanKeeps ==
    ASSUME NEW r \in Reminder, Clean(r), SameSenders(r),
           \/ /\ status'[r] = status[r] \/ status'[r] \notin {"failed", "sending", "pending"}
              /\ attempts'[r] = attempts[r] /\ accepted'[r] = accepted[r]
           \/ status'[r] = "pending" /\ attempts'[r] = 0 /\ accepted'[r] = 0
    PROVE  Clean(r)'
<1>1. \A q \in Sender : InSend(q, r)' <=> InSend(q, r)
  BY DEF SameSenders
<1>2. attempts'[r] <= MaxAttempts /\ accepted'[r] <= 1
  BY Bounds DEF Clean
<1>3. status'[r] = "failed" => accepted'[r] = 0
  BY DEF Clean
<1>4. (\A q \in Sender : ~InSend(q, r)') =>
          status'[r] # "sending" /\ (status'[r] = "pending" => Unsent(r)')
  BY <1>1, Bounds DEF Clean, Unsent
<1>5. ASSUME NEW q \in Sender, InSend(q, r)'
      PROVE  /\ status'[r] # "failed"
             /\ pc'[q] = "sending" \/ ~got'[q] => accepted'[r] = 0
             /\ pc'[q] = "writing" /\ ~got'[q] /\ ~spent'[q] => attempts'[r] < MaxAttempts
  BY <1>1, <1>5, Bounds DEF Clean, SameSenders
<1> QED
  BY <1>1, <1>2, <1>3, <1>4, <1>5 DEF Clean

(* The tick that sent the row writes what came of it. *)
LEMMA CleanLeaves ==
    ASSUME NEW r \in Reminder, Clean(r), NEW p \in Sender, Alone(p), InSend(p, r),
           ~InSend(p, r)', attempts'[r] = attempts[r], accepted'[r] = accepted[r],
           \/ status'[r] \notin {"failed", "sending", "pending"}
           \/ status'[r] = "failed" /\ accepted[r] = 0
           \/ status'[r] = "pending" /\ Unsent(r)
    PROVE  Clean(r)'
<1>1. \A q \in Sender : ~InSend(q, r)'
  BY Bounds DEF Clean, Alone, InSend
<1> QED
  BY <1>1 DEF Clean, Unsent

(* A step that moves its process on and writes no row: it is not one of a  *)
(* send, and drops no follow-up.                                           *)
LEMMA QuietKeeps ==
    ASSUME Core, NEW p \in Proc, UNCHANGED <<now, rowVars, traceVars, cuts>>,
           ProcTyped', Alone(p), \A r \in Reminder : Away(p, r),
           \A r \in todo'[p] : status[r] # "none",
           pc'[p] \in Working => cur'[p] \in Reminder /\ status[cur'[p]] # "none",
           pc'[p] \in {"following", "creating"} => series[cur'[p]] # None,
           pc[p] \in Hand => pc'[p] \in Hand /\ cur'[p] = cur[p]
    PROVE  Core'
<1>1. now' \in Time /\ RowTyped' /\ TraceTyped'
  BY DEF Core, RowTyped, TraceTyped, rowVars, traceVars
<1>2. Kept
  BY DEF Kept, rowVars
<1>3. RowsLive'
  <2>1. \A r \in todo'[p] : r \in Reminder
    BY DEF ProcTyped
  <2> QED
    BY <1>2, <2>1, LiveKeeps DEF Core, RowsLive, rowVars, traceVars
<1>4. SeriesGoesOn'
  <2>1. ASSUME NEW s \in Reminder, pc[p] \in Hand, series[cur[p]] = s PROVE OnTo(s)'
    <3>1. cur[p] \in Reminder
      BY <2>1 DEF Core, RowsLive, Hand, Working
    <3>2. InHand(s)'
      BY <2>1, <3>1, Bounds DEF InHand, Hand, rowVars
    <3> QED
      BY <3>2 DEF OnTo
  <2>2. \A r \in Reminder : status[r] \in {"pending", "sending"} => Waits(r)'
    BY DEF Waits, rowVars
  <2>3. UNCHANGED <<status, series, dismissed, ended, cuts>>
    BY DEF rowVars, traceVars
  <2> QED
    BY <1>2, <2>1, <2>2, <2>3, SeriesKeeps DEF Core
<1>5. ASSUME NEW r \in Reminder \ strained PROVE Clean(r)'
  <2>1. SameSenders(r)
    BY AwaySame
  <2>2. status'[r] = status[r] /\ attempts'[r] = attempts[r] /\ accepted'[r] = accepted[r]
    BY DEF rowVars, traceVars
  <2> QED
    BY <2>1, <2>2, CleanKeeps DEF Core, SendsOnce
<1>6. strained' = strained
  BY DEF traceVars
<1> QED
  BY <1>1, <1>3, <1>4, <1>5, <1>6 DEF Core, SendsOnce

(* The lists, the rows passed over, the rows read by a command, the        *)
(* follow-ups that go ahead.                                               *)
LEMMA ListsKeeps ==
    ASSUME Core, NEW p \in Proc, NEW o \in Op, NEW rows \in SUBSET Reminder,
           \A r \in rows : status[r] # "none", Lists(p, o, rows)
    PROVE  Core'
<1>1. ProcTyped' /\ Alone(p) /\ todo'[p] = rows /\ pc[p] = "idle" /\ pc'[p] = "listed"
  BY ListsIs DEF Core
<1>2. UNCHANGED <<now, rowVars, traceVars, cuts>>
  BY DEF Lists
<1>3. \A r \in Reminder : Away(p, r)
  BY <1>1 DEF Away, InSend
<1>4. pc[p] \notin Hand /\ pc'[p] \notin Working /\ pc'[p] \notin {"following", "creating"}
  BY <1>1 DEF Hand, Working
<1> QED
  BY <1>1, <1>2, <1>3, <1>4, QuietKeeps

LEMMA SkipsKeeps ==
    ASSUME Core, NEW p \in Proc, NEW r \in Reminder, pc[p] = "listed", Skips(p, r)
    PROVE  Core'
<1>1. todo[p] \ {r} \in SUBSET Reminder
  BY DEF Core, ProcTyped
<1>2. ProcTyped' /\ Alone(p) /\ todo'[p] = todo[p] \ {r} /\ pc'[p] \in {"idle", "listed"}
  BY <1>1, OverIs DEF Core, Skips
<1>3. UNCHANGED <<now, rowVars, traceVars, cuts>>
  BY DEF Skips
<1>4. \A x \in Reminder : Away(p, x)
  BY <1>2 DEF Away, InSend
<1>5. pc[p] \notin Hand /\ pc'[p] \notin Working /\ pc'[p] \notin {"following", "creating"}
  BY <1>2 DEF Hand, Working
<1>6. \A x \in todo'[p] : status[x] # "none"
  BY <1>2 DEF Core, RowsLive
<1> QED
  BY <1>2, <1>3, <1>4, <1>5, <1>6, QuietKeeps

LEMMA ReadsKeeps ==
    ASSUME Core, NEW p \in Commander, NEW r \in Reminder, NEW o \in Op,
           pc[p] \in {"idle", "listed"}, status[r] # "none", Reads(p, r, o)
    PROVE  Core'
<1>1. p \in Proc /\ p \notin Sender
  BY Bounds
<1>2. /\ ProcTyped' /\ Alone(p) /\ todo'[p] = todo[p] \ {r}
      /\ pc'[p] = "writing" /\ cur'[p] = r
  BY <1>1, ReadsIs DEF Core
<1>3. UNCHANGED <<now, rowVars, traceVars, cuts>>
  BY DEF Reads
<1>4. \A x \in Reminder : Away(p, x)
  BY <1>1 DEF Away
<1>5. pc[p] \notin Hand /\ pc'[p] \notin {"following", "creating"}
  BY <1>2 DEF Hand
<1>6. \A x \in todo'[p] : status[x] # "none"
  BY <1>1, <1>2 DEF Core, RowsLive
<1> QED
  BY <1>1, <1>2, <1>3, <1>4, <1>5, <1>6, QuietKeeps

LEMMA FireKeeps ==
    ASSUME Core, NEW p \in Commander, NEW r \in Reminder, Fire(p, r) PROVE Core'
<1>1. p \in Proc /\ p \notin Sender
  BY Bounds
<1>2. /\ ProcTyped' /\ todo'[p] = todo[p] \ {r}
      /\ pc'[p] = "answered" /\ cur'[p] = r /\ pc[p] = "listed"
  BY <1>1 DEF Core, ProcTyped, Fire, Goes, Pc
<1>3. Alone(p)
  BY <1>1 DEF Core, ProcTyped, Fire, Goes, Alone
<1>4. UNCHANGED <<now, rowVars, traceVars, cuts>>
  BY DEF Fire
<1>5. \A x \in Reminder : Away(p, x)
  BY <1>1 DEF Away
<1>6. pc[p] \notin Hand /\ pc'[p] \notin {"following", "creating"}
  BY <1>2 DEF Hand
<1>7. status[r] # "none" /\ \A x \in todo'[p] : status[x] # "none"
  BY <1>1, <1>2 DEF Core, RowsLive, Fire
<1> QED
  BY <1>1, <1>2, <1>3, <1>4, <1>5, <1>6, <1>7, QuietKeeps

LEMMA FollowUpKeeps == ASSUME Core, NEW p \in Proc, FollowUp(p) PROVE Core'
<1>1. /\ ProcTyped' /\ todo'[p] = todo[p]
      /\ pc'[p] = "creating" /\ cur'[p] = cur[p] /\ pc[p] = "following"
  <2>1. NextSlot(p) \in Time
    <3>1. now \in Nat /\ when[p] \in Nat /\ seenAt[p] \in Nat
      BY Bounds DEF Core, ProcTyped, Time
    <3>2. NextSlot(p) \in Nat
      BY <3>1 DEF NextSlot
    <3> QED
      BY <3>2, Bounds DEF FollowUp, Time
  <2> QED
    BY <2>1 DEF Core, ProcTyped, FollowUp, Goes, Pc
<1>2. Alone(p)
  BY DEF Core, ProcTyped, FollowUp, Goes, Alone
<1>3. UNCHANGED <<now, rowVars, traceVars, cuts>>
  BY DEF FollowUp
<1>4. \A x \in Reminder : Away(p, x)
  BY <1>1 DEF Away, InSend
<1>5. pc'[p] \in Hand
  BY <1>1 DEF Hand
<1>6. /\ cur[p] \in Reminder /\ status[cur[p]] # "none" /\ series[cur[p]] # None
      /\ \A x \in todo'[p] : status[x] # "none"
  BY <1>1 DEF Core, RowsLive, Working
<1> QED
  BY <1>1, <1>2, <1>3, <1>4, <1>5, <1>6, QuietKeeps

-----------------------------------------------------------------------------
(* Writes. Whoever writes a row leaves it waiting, cancelled, or with its  *)
(* follow-up in hand.                                                      *)
LEMMA WriteKeeps ==
    ASSUME Core, NEW p \in Proc, NEW c \in Reminder, pc[p] = "writing", cur[p] = c,
           UNCHANGED <<now, series, ended, strained, cuts>>,
           RowTyped', TraceTyped', ProcTyped', Alone(p), todo'[p] = todo[p],
           \A r \in Reminder \ {c} : /\ status'[r] = status[r] /\ attempts'[r] = attempts[r]
                                     /\ accepted'[r] = accepted[r]
                                     /\ dismissed'[r] = dismissed[r],
           dismissed[c] => dismissed'[c], status'[c] # "none",
           \/ pc'[p] \in {"idle", "listed"} /\ (Waits(c)' \/ series[c] = None)
           \/ pc'[p] = "following" /\ cur'[p] = c /\ series[c] # None,
           c \notin strained => Clean(c)'
    PROVE  Core'
<1>1. Kept
  BY DEF Kept
<1>2. RowsLive'
  <2>1. \A r \in todo'[p] : r \in Reminder /\ status'[r] # "none"
    BY <1>1 DEF Core, ProcTyped, RowsLive, Kept
  <2>2. pc'[p] \in Working => cur'[p] \in Reminder /\ status'[cur'[p]] # "none"
    BY DEF Working
  <2>3. pc'[p] \in {"following", "creating"} => series'[cur'[p]] # None
    OBVIOUS
  <2>4. \A r \in Reminder : status'[r] = "none" => attempts'[r] = 0 /\ accepted'[r] = 0
    BY DEF Core, RowsLive
  <2> QED
    BY <1>1, <2>1, <2>2, <2>3, <2>4, LiveKeeps DEF Core
<1>3. SeriesGoesOn'
  <2>1. ASSUME NEW s \in Reminder, series[c] = s PROVE OnTo(s)'
    <3>1. CASE Waits(c)'
      BY <2>1, <3>1 DEF OnTo
    <3>2. CASE pc'[p] = "following" /\ cur'[p] = c
      <4>1. InHand(s)'
        BY <2>1, <3>2, Bounds DEF InHand
      <4> QED
        BY <4>1 DEF OnTo
    <3> QED
      BY <2>1, <3>1, <3>2, Bounds
  <2>2. \A r \in Reminder \ {c} : status[r] \in {"pending", "sending"} => Waits(r)'
    BY DEF Waits
  <2>3. \A s, r \in Reminder : status[r] \in {"pending", "sending"} /\ series[r] = s =>
                                   Waits(r)' \/ OnTo(s)'
    BY <2>1, <2>2
  <2>4. \A r \in Reminder : status[r] = "none" /\ status'[r] # "none" => status'[r] = "pending"
    BY DEF Core, RowsLive, Working
  <2> QED
    BY <1>1, <2>1, <2>3, <2>4, SeriesKeeps DEF Core
<1>4. ASSUME NEW r \in Reminder \ strained PROVE Clean(r)'
  <2>1. CASE r = c
    BY <2>1
  <2>2. CASE r # c
    <3>1. Away(p, r)
      BY <2>2 DEF Away, InSend
    <3>2. SameSenders(r)
      BY <3>1, AwaySame
    <3> QED
      BY <2>2, <3>2, CleanKeeps DEF Core, SendsOnce
  <2> QED
    BY <2>1, <2>2
<1> QED
  BY <1>2, <1>3, <1>4 DEF Core, SendsOnce

(* A row that ends or is sent stays clean, whoever wrote it. *)
LEMMA EndIsClean ==
    ASSUME Core, NEW p \in Proc, NEW c \in Reminder, pc[p] = "writing", cur[p] = c, Alone(p),
           pc'[p] \notin {"sending", "answered", "writing"}, c \notin strained,
           status'[c] \notin {"failed", "sending", "pending"},
           attempts'[c] = attempts[c], accepted'[c] = accepted[c]
    PROVE  Clean(c)'
<1>1. Clean(c)
  BY DEF Core, SendsOnce
<1>2. CASE p \in Sender
  <2>1. InSend(p, c) /\ ~InSend(p, c)'
    BY DEF InSend
  <2> QED
    BY <1>1, <1>2, <2>1, CleanLeaves
<1>3. CASE p \notin Sender
  <2>1. SameSenders(c)
    BY <1>3, AwaySame DEF Away
  <2> QED
    BY <1>1, <2>1, CleanKeeps
<1> QED
  BY <1>2, <1>3

LEMMA WriterHasRow ==
    ASSUME Core, NEW p \in Proc, pc[p] \in Working
    PROVE  cur[p] \in Reminder /\ status[cur[p]] # "none" /\ todo[p] \in SUBSET Reminder
BY DEF Core, RowsLive, ProcTyped

LEMMA MarkSentKeeps == ASSUME Core, NEW p \in Proc, MarkSent(p) PROVE Core'
<1>1. PICK c \in Reminder : cur[p] = c
  BY WriterHasRow DEF MarkSent, Working
<1>2. pc[p] = "writing" /\ UNCHANGED <<now, series, ended, strained, cuts>>
  BY DEF MarkSent, traceVars
<1>3. /\ ProcTyped' /\ Alone(p) /\ todo'[p] = todo[p]
      /\ \/ series[c] = None /\ pc'[p] \in {"idle", "listed"}
         \/ series[c] # None /\ pc'[p] = "following" /\ cur'[p] = c
  BY <1>1, FollowsIs DEF MarkSent, Core
<1>4. RowTyped' /\ TraceTyped'
  BY <1>1 DEF MarkSent, Core, RowTyped, TraceTyped, Status, traceVars
<1>5. /\ status'[c] = "sent" /\ attempts'[c] = attempts[c] /\ accepted'[c] = accepted[c]
      /\ UNCHANGED dismissed
      /\ \A r \in Reminder \ {c} : /\ status'[r] = status[r] /\ attempts'[r] = attempts[r]
                                   /\ accepted'[r] = accepted[r]
  BY <1>1 DEF MarkSent, Core, RowTyped, traceVars
<1>6. c \notin strained => Clean(c)'
  BY <1>1, <1>2, <1>3, <1>5, EndIsClean
<1> QED
  BY <1>1, <1>2, <1>3, <1>4, <1>5, <1>6, WriteKeeps

LEMMA MarkFailedKeeps == ASSUME Core, NEW p \in Sender, MarkAttemptFailed(p) PROVE Core'
<1>1. p \in Proc
  BY Bounds
<1>2. PICK c \in Reminder : cur[p] = c
  BY <1>1, WriterHasRow DEF MarkAttemptFailed, Working
<1>3. pc[p] = "writing" /\ ~got[p] /\ UNCHANGED <<now, series, ended, strained, cuts>>
  BY DEF MarkAttemptFailed, traceVars
<1>4. /\ ProcTyped' /\ Alone(p) /\ todo'[p] = todo[p]
      /\ \/ pc'[p] \in {"idle", "listed"} /\ (~spent[p] \/ series[c] = None)
         \/ series[c] # None /\ pc'[p] = "following" /\ cur'[p] = c
  <2>1. CASE spent[p]
    <3>1. Follows(p)
      BY <2>1 DEF MarkAttemptFailed
    <3> QED
      BY <1>1, <1>2, <3>1, FollowsIs DEF Core
  <2>2. CASE ~spent[p]
    <3>1. Over(p, todo[p]) /\ todo[p] \in SUBSET Reminder
      BY <1>1, <2>2 DEF MarkAttemptFailed, Core, ProcTyped
    <3> QED
      BY <1>1, <2>2, <3>1, OverIs DEF Core
  <2> QED
    BY <2>1, <2>2
<1>5. RowTyped' /\ TraceTyped'
  <2>1. when[p] + 1 \in 1 .. MaxTime + 1
    BY <1>1, Bounds DEF Core, ProcTyped, Time
  <2> QED
    BY <1>2, <2>1 DEF MarkAttemptFailed, Core, RowTyped, TraceTyped, Status, traceVars
<1>6. /\ status'[c] = IF spent[p] THEN "failed" ELSE "pending"
      /\ attempts'[c] = attempts[c] /\ accepted'[c] = accepted[c]
      /\ UNCHANGED dismissed
      /\ \A r \in Reminder \ {c} : /\ status'[r] = status[r] /\ attempts'[r] = attempts[r]
                                   /\ accepted'[r] = accepted[r]
  BY <1>2 DEF MarkAttemptFailed, Core, RowTyped, traceVars
<1>7. ASSUME c \notin strained PROVE Clean(c)'
  <2>1. Clean(c)
    BY <1>7 DEF Core, SendsOnce
  <2>2. InSend(p, c) /\ ~InSend(p, c)'
    BY <1>2, <1>3, <1>4 DEF InSend
  <2>3. accepted[c] = 0 /\ (~spent[p] => Unsent(c))
    BY <1>3, <2>1, <2>2 DEF Clean, Unsent
  <2> QED
    BY <1>4, <1>6, <2>1, <2>2, <2>3, CleanLeaves
<1>8. ~spent[p] => Waits(c)'
  BY <1>6 DEF Waits
<1> QED
  BY <1>1, <1>2, <1>3, <1>4, <1>5, <1>6, <1>7, <1>8, WriteKeeps

LEMMA WriteEndKeeps == ASSUME Core, NEW p \in Proc, WriteEnd(p) PROVE Core'
<1>1. PICK c \in Reminder : cur[p] = c
  BY WriterHasRow DEF WriteEnd, Working
<1>2. pc[p] = "writing" /\ UNCHANGED <<now, series, ended, strained, cuts>>
  BY DEF WriteEnd, traceVars
<1>3. /\ ProcTyped' /\ Alone(p) /\ todo'[p] = todo[p]
      /\ \/ series[c] = None /\ pc'[p] \in {"idle", "listed"}
         \/ series[c] # None /\ pc'[p] = "following" /\ cur'[p] = c
  BY <1>1, FollowsIs DEF WriteEnd, Core
<1>4. RowTyped' /\ TraceTyped'
  BY <1>1 DEF WriteEnd, Core, RowTyped, TraceTyped, Status, Terminal, traceVars
<1>5. /\ status'[c] \in {"done", "expired"}
      /\ attempts'[c] = attempts[c] /\ accepted'[c] = accepted[c]
      /\ UNCHANGED dismissed
      /\ \A r \in Reminder \ {c} : /\ status'[r] = status[r] /\ attempts'[r] = attempts[r]
                                   /\ accepted'[r] = accepted[r]
  BY <1>1 DEF WriteEnd, Core, RowTyped, traceVars
<1>6. c \notin strained => Clean(c)'
  BY <1>1, <1>2, <1>3, <1>5, EndIsClean
<1> QED
  BY <1>1, <1>2, <1>3, <1>4, <1>5, <1>6, WriteKeeps

LEMMA WriteCancelKeeps == ASSUME Core, NEW p \in Proc, WriteCancel(p) PROVE Core'
<1>1. PICK c \in Reminder : cur[p] = c /\ todo[p] \in SUBSET Reminder
  BY WriterHasRow DEF WriteCancel, Working
<1>2. pc[p] = "writing" /\ UNCHANGED <<now, series, ended, strained, cuts>>
  BY DEF WriteCancel, traceVars
<1>3. ProcTyped' /\ Alone(p) /\ todo'[p] = todo[p] /\ pc'[p] \in {"idle", "listed"}
  BY <1>1, OverIs DEF WriteCancel, Core
<1>4. RowTyped' /\ TraceTyped'
  BY <1>1 DEF WriteCancel, Core, RowTyped, TraceTyped, Status, Terminal, traceVars
<1>5. /\ status'[c] = "cancelled" /\ dismissed'[c]
      /\ attempts'[c] = attempts[c] /\ accepted'[c] = accepted[c]
      /\ \A r \in Reminder \ {c} : /\ status'[r] = status[r] /\ attempts'[r] = attempts[r]
                                   /\ accepted'[r] = accepted[r]
                                   /\ dismissed'[r] = dismissed[r]
  BY <1>1 DEF WriteCancel, Core, RowTyped, traceVars
<1>6. c \notin strained => Clean(c)'
  BY <1>1, <1>2, <1>3, <1>5, EndIsClean
<1>7. Waits(c)'
  BY <1>5 DEF Waits
<1> QED
  BY <1>1, <1>2, <1>3, <1>4, <1>5, <1>6, <1>7, WriteKeeps

LEMMA WriteSnoozeKeeps ==
    ASSUME Core, NEW p \in Commander, NEW t \in Time, WriteSnooze(p, t) PROVE Core'
<1>1. p \in Proc /\ p \notin Sender
  BY Bounds
<1>2. PICK c \in Reminder : cur[p] = c /\ todo[p] \in SUBSET Reminder
  BY <1>1, WriterHasRow DEF WriteSnooze, Working
<1>3. pc[p] = "writing" /\ UNCHANGED <<now, series, dismissed, ended, strained, cuts>>
  BY DEF WriteSnooze
<1>4. ProcTyped' /\ Alone(p) /\ todo'[p] = todo[p] /\ pc'[p] \in {"idle", "listed"}
  BY <1>1, <1>2, OverIs DEF WriteSnooze, Core
<1>5. RowTyped' /\ TraceTyped'
  BY <1>2 DEF WriteSnooze, Core, RowTyped, TraceTyped, Status
<1>6. /\ status'[c] = "pending" /\ attempts'[c] = 0 /\ accepted'[c] = 0
      /\ \A r \in Reminder \ {c} : /\ status'[r] = status[r] /\ attempts'[r] = attempts[r]
                                   /\ accepted'[r] = accepted[r]
  BY <1>2 DEF WriteSnooze, Core, RowTyped, TraceTyped
<1>7. ASSUME c \notin strained PROVE Clean(c)'
  <2>1. SameSenders(c)
    BY <1>1, <1>4, AwaySame DEF Away
  <2> QED
    BY <1>6, <1>7, <2>1, CleanKeeps DEF Core, SendsOnce
<1>8. Waits(c)'
  BY <1>6 DEF Waits
<1> QED
  BY <1>1, <1>2, <1>3, <1>4, <1>5, <1>6, <1>7, <1>8, WriteKeeps

-----------------------------------------------------------------------------
(* Claims, sends, cuts and the end of a series: no row stops waiting.      *)
LEMMA StepKeeps ==
    ASSUME Core, NEW p \in Proc, now' \in Time, RowTyped', TraceTyped', ProcTyped', Alone(p),
           UNCHANGED <<series, dismissed>>,
           \A r \in Reminder : \/ status'[r] = status[r]
                               \/ status[r] \in {"pending", "sending"} /\ status'[r] = "sending",
           ended \subseteq ended', cuts > 0 => cuts' > 0,
           \A r \in todo'[p] : status[r] # "none",
           pc'[p] \in Working => cur'[p] \in Reminder /\ status[cur'[p]] # "none",
           pc'[p] \in {"following", "creating"} => series[cur'[p]] # None,
           \A r \in Reminder : status[r] = "none" =>
                                   attempts'[r] = attempts[r] /\ accepted'[r] = accepted[r],
           \A s \in Reminder : pc[p] \in Hand /\ series[cur[p]] = s => OnTo(s)',
           \A r \in Reminder \ strained' : Clean(r)'
    PROVE  Core'
<1>1. Kept
  BY DEF Kept
<1>2. RowsLive'
  <2>1. \A r \in todo'[p] : r \in Reminder /\ status'[r] # "none"
    BY <1>1 DEF ProcTyped, Kept
  <2>2. pc'[p] \in Working => cur'[p] \in Reminder /\ status'[cur'[p]] # "none"
    BY <1>1 DEF Kept
  <2>3. \A r \in Reminder : status'[r] = "none" => attempts'[r] = 0 /\ accepted'[r] = 0
    BY <1>1 DEF Core, RowsLive, Kept
  <2> QED
    BY <1>1, <2>1, <2>2, <2>3, LiveKeeps DEF Core
<1>3. SeriesGoesOn'
  <2>1. \A r \in Reminder : status[r] \in {"pending", "sending"} => Waits(r)'
    BY DEF Waits
  <2>2. \A r \in Reminder : status[r] = "none" /\ status'[r] # "none" => status'[r] = "pending"
    OBVIOUS
  <2> QED
    BY <1>1, <2>1, <2>2, SeriesKeeps DEF Core
<1> QED
  BY <1>2, <1>3 DEF Core, SendsOnce

(* claim gives the row to one tick: nobody else is sending it, so it was   *)
(* waiting, unheard and with an attempt left.                              *)
LEMMA ClaimKeeps == ASSUME Core, NEW p \in Sender, NEW c \in Reminder, Claim(p, c) PROVE Core'
<1>1. p \in Proc
  BY Bounds
<1>2. /\ ProcTyped' /\ todo'[p] = todo[p] \ {c} /\ pc[p] = "listed"
      /\ pc'[p] = "sending" /\ cur'[p] = c
  BY <1>1 DEF Core, ProcTyped, Claim, Goes, Pc
<1>3. Alone(p)
  BY <1>1 DEF Core, ProcTyped, Claim, Goes, Alone
<1>4. /\ UNCHANGED <<now, series, dismissed, ended, cuts, accepted>>
      /\ strained' = IF Overran(p, c) THEN strained \union {c} ELSE strained
  BY DEF Claim
<1>5. RowTyped' /\ TraceTyped'
  <2>1. when[p] + 1 \in 1 .. MaxTime + 1
    BY <1>1, Bounds DEF Core, ProcTyped, Time
  <2>2. RowTyped'
    BY <2>1 DEF Claim, Core, RowTyped, Status
  <2>3. TraceTyped'
    BY <1>4 DEF Core, TraceTyped
  <2> QED
    BY <2>2, <2>3
<1>6. /\ status'[c] = "sending" /\ attempts'[c] = attempts[c] + 1
      /\ \A r \in Reminder \ {c} : status'[r] = status[r] /\ attempts'[r] = attempts[r]
  BY DEF Claim, Core, RowTyped
<1>7. Due(c, when[p]) /\ status[c] \in {"pending", "sending"}
  BY DEF Claim, Due
<1>8. ASSUME NEW r \in Reminder \ strained' PROVE Clean(r)'
  <2>1. Clean(r)
    BY <1>4, <1>8 DEF Core, SendsOnce
  <2>2. CASE r # c
    <3>1. Away(p, r)
      BY <1>2, <2>2 DEF Away, InSend
    <3>2. SameSenders(r)
      BY <1>1, <1>3, <3>1, AwaySame
    <3> QED
      BY <1>4, <1>6, <2>1, <2>2, <3>2, CleanKeeps
  <2>3. CASE r = c
    <3>1. \A q \in Sender \ {p} : ~InSend(q, c)
      BY <1>4, <1>7, <2>3 DEF Overran, InSend
    <3>2. ~InSend(p, c)
      BY <1>2 DEF InSend
    <3>3. accepted[c] = 0 /\ attempts[c] < MaxAttempts
      BY <1>7, <2>1, <2>3, <3>1, <3>2 DEF Clean, Unsent
    <3>4. \A q \in Sender : InSend(q, c)' <=> q = p
      BY <1>2, <1>3, <3>1, Bounds DEF InSend, Alone
    <3>5. attempts'[c] <= MaxAttempts /\ accepted'[c] = 0
      <4>1. attempts[c] \in Nat
        BY DEF Core, RowTyped
      <4> QED
        BY <1>4, <1>6, <3>3, <4>1, Bounds
    <3> QED
      BY <1>2, <1>6, <2>3, <3>4, <3>5 DEF Clean
  <2> QED
    BY <2>2, <2>3
<1>9. /\ \A r \in todo'[p] : status[r] # "none"
      /\ pc[p] \notin Hand /\ pc'[p] \notin {"following", "creating"}
  BY <1>1, <1>2 DEF Core, RowsLive, Hand
<1>10. \A r \in Reminder : status[r] = "none" =>
                               attempts'[r] = attempts[r] /\ accepted'[r] = accepted[r]
  BY <1>4, <1>6, <1>7
<1>11. now' \in Time /\ ended \subseteq ended'
  BY <1>4 DEF Core
<1> QED
  BY <1>1, <1>2, <1>3, <1>4, <1>5, <1>6, <1>7, <1>8, <1>9, <1>10, <1>11, StepKeeps

(* A tick hears what came of its send, and reads the row again. *)
LEMMA SendKeeps ==
    ASSUME Core, NEW p \in Sender, NEW n \in 0 .. Channels, Send(p, n) PROVE Core'
<1>1. p \in Proc
  BY Bounds
<1>2. PICK c \in Reminder : cur[p] = c /\ status[c] # "none"
  BY <1>1, WriterHasRow DEF Send, Working
<1>3. /\ ProcTyped' /\ todo'[p] = todo[p] /\ pc[p] = "sending"
      /\ pc'[p] = "answered" /\ cur'[p] = c /\ got'[p] = (n > 0)
  BY <1>1, <1>2 DEF Core, ProcTyped, Send, Goes, Pc
<1>4. Alone(p)
  BY <1>1 DEF Core, ProcTyped, Send, Goes, Alone
<1>5. UNCHANGED <<now, rowVars, ended, strained, cuts>>
  BY DEF Send
<1>6. UNCHANGED <<status, series, attempts, dismissed>>
  BY <1>5 DEF rowVars
<1>7. RowTyped' /\ TraceTyped'
  <2>1. RowTyped'
    BY <1>5 DEF Core, RowTyped, rowVars
  <2>2. TraceTyped'
    BY <1>2, <1>5 DEF Core, TraceTyped, Send
  <2> QED
    BY <2>1, <2>2
<1>8. /\ accepted'[c] = accepted[c] + IF n > 0 THEN 1 ELSE 0
      /\ \A r \in Reminder \ {c} : accepted'[r] = accepted[r]
  BY <1>2 DEF Send, Core, TraceTyped
<1>9. ASSUME NEW r \in Reminder \ strained' PROVE Clean(r)'
  <2>1. Clean(r)
    BY <1>5, <1>9 DEF Core, SendsOnce
  <2>2. CASE r # c
    <3>1. Away(p, r)
      BY <1>2, <1>3, <2>2 DEF Away, InSend
    <3>2. SameSenders(r)
      BY <1>1, <1>4, <3>1, AwaySame
    <3> QED
      BY <1>6, <1>8, <2>1, <2>2, <3>2, CleanKeeps
  <2>3. CASE r = c
    <3>1. InSend(p, c)
      BY <1>2, <1>3 DEF InSend
    <3>2. accepted[c] = 0 /\ status[c] # "failed" /\ \A q \in Sender : InSend(q, c) => q = p
      BY <1>3, <2>1, <2>3, <3>1 DEF Clean
    <3>3. \A q \in Sender : InSend(q, c)' <=> q = p
      BY <1>2, <1>3, <1>4, <3>2, Bounds DEF InSend, Alone
    <3>4. accepted'[c] <= 1 /\ (~got'[p] => accepted'[c] = 0)
      <4>1. ~got'[p] => ~(n > 0)
        BY <1>3, Zenon
      <4>2. accepted'[c] <= 1 /\ (~(n > 0) => accepted'[c] = 0)
        BY <1>8, <3>2
      <4> QED
        BY <4>1, <4>2
    <3>5. attempts'[c] <= MaxAttempts /\ status'[c] # "failed"
      BY <1>6, <2>1, <2>3, <3>2 DEF Clean
    <3> QED
      BY <1>3, <2>3, <3>3, <3>4, <3>5 DEF Clean
  <2> QED
    BY <2>2, <2>3
<1>10. /\ \A r \in todo'[p] : status[r] # "none"
       /\ pc[p] \notin Hand /\ pc'[p] \notin {"following", "creating"}
  BY <1>1, <1>3 DEF Core, RowsLive, Hand
<1>11. now' \in Time /\ ended \subseteq ended'
  BY <1>5 DEF Core
<1> QED
  BY <1>1, <1>2, <1>3, <1>4, <1>5, <1>6, <1>7, <1>8, <1>9, <1>10, <1>11, StepKeeps

LEMMA MarkReadsKeeps == ASSUME Core, NEW p \in Proc, MarkReads(p) PROVE Core'
<1>1. PICK c \in Reminder : cur[p] = c /\ status[c] # "none"
  BY WriterHasRow DEF MarkReads, Working
<1>2. /\ ProcTyped' /\ todo'[p] = todo[p] /\ pc[p] = "answered"
      /\ pc'[p] = "writing" /\ cur'[p] = c /\ got'[p] = got[p]
  BY <1>1 DEF Core, ProcTyped, RowTyped, MarkReads, Goes, Pc
<1>3. spent'[p] = (attempts[c] >= MaxAttempts)
  BY <1>1 DEF Core, ProcTyped, MarkReads
<1>4. Alone(p)
  BY DEF Core, ProcTyped, MarkReads, Goes, Alone
<1>5. UNCHANGED <<now, rowVars, traceVars, cuts>>
  BY DEF MarkReads
<1>6. UNCHANGED <<status, series, attempts, dismissed, accepted, ended, strained>>
  BY <1>5 DEF rowVars, traceVars
<1>7. RowTyped' /\ TraceTyped'
  BY <1>5 DEF Core, RowTyped, TraceTyped, rowVars, traceVars
<1>8. ASSUME NEW r \in Reminder \ strained' PROVE Clean(r)'
  <2>1. Clean(r)
    BY <1>6, <1>8 DEF Core, SendsOnce
  <2>2. CASE r # c \/ p \notin Sender
    <3>1. Away(p, r)
      BY <1>1, <1>2, <2>2 DEF Away, InSend
    <3>2. SameSenders(r)
      BY <1>4, <3>1, AwaySame
    <3> QED
      BY <1>6, <2>1, <3>2, CleanKeeps
  <2>3. CASE r = c /\ p \in Sender
    <3>1. InSend(p, c)
      BY <1>1, <1>2 DEF InSend
    <3>2. /\ ~got[p] => accepted[c] = 0
          /\ status[c] # "failed" /\ \A q \in Sender : InSend(q, c) => q = p
      BY <1>2, <2>1, <2>3, <3>1 DEF Clean
    <3>3. \A q \in Sender : InSend(q, c)' <=> q = p
      BY <1>1, <1>2, <1>4, <2>3, <3>2, Bounds DEF InSend, Alone
    <3>4. ~spent'[p] => attempts'[c] < MaxAttempts
      <4>1. attempts[c] \in Nat
        BY DEF Core, RowTyped
      <4>2. ~spent'[p] => ~(attempts[c] >= MaxAttempts)
        BY <1>3, Zenon
      <4> QED
        BY <1>6, <4>1, <4>2, Bounds
    <3>5. /\ attempts'[c] <= MaxAttempts /\ status'[c] # "failed" /\ accepted'[c] <= 1
          /\ ~got'[p] => accepted'[c] = 0
      BY <1>2, <1>6, <2>1, <2>3, <3>2 DEF Clean
    <3> QED
      BY <1>2, <2>3, <3>3, <3>4, <3>5 DEF Clean
  <2> QED
    BY <2>2, <2>3
<1>9. /\ \A r \in todo'[p] : status[r] # "none"
      /\ pc[p] \notin Hand /\ pc'[p] \notin {"following", "creating"}
  BY <1>2 DEF Core, RowsLive, Hand
<1>10. now' \in Time
  BY <1>5 DEF Core
<1> QED
  BY <1>1, <1>2, <1>4, <1>5, <1>6, <1>7, <1>8, <1>9, <1>10, StepKeeps

(* A process that is cut off: the row it was at counts as strained, and    *)
(* what it owed its series as cut.                                         *)
LEMMA CutKeeps ==
    ASSUME Core, NEW p \in Proc, NEW left \in SUBSET todo[p], Over(p, left),
           cuts < MaxCuts, cuts' = cuts + 1, UNCHANGED <<now, rowVars, ended>>,
           accepted' \in [Reminder -> Nat],
           \A r \in Reminder : r # cur[p] => accepted'[r] = accepted[r],
           pc[p] = "sending" \/ UNCHANGED accepted,
           strained' = IF cur[p] # None THEN strained \union {cur[p]} ELSE strained
    PROVE  Core'
<1>1. left \in SUBSET Reminder
  BY DEF Core, ProcTyped
<1>2. ProcTyped' /\ Alone(p) /\ todo'[p] = left /\ pc'[p] \in {"idle", "listed"} /\ cur'[p] = None
  BY <1>1, OverIs DEF Core
<1>3. UNCHANGED <<status, series, attempts, dismissed>>
  BY DEF rowVars
<1>4. cuts' \in 0 .. MaxCuts /\ cuts' > 0
  BY Bounds DEF Core, TraceTyped
<1>5. RowTyped'
  BY DEF Core, RowTyped, rowVars
<1>6. TraceTyped'
  <2>1. cur[p] \in Reminder \union {None}
    BY DEF Core, ProcTyped
  <2> QED
    BY <1>4, <2>1 DEF Core, TraceTyped
<1>7. ASSUME NEW r \in Reminder \ strained' PROVE Clean(r)'
  <2>1. r \notin strained /\ r # cur[p]
    BY <1>7, Bounds
  <2>2. Away(p, r)
    BY <1>2, <2>1 DEF Away, InSend
  <2>3. SameSenders(r)
    BY <1>2, <2>2, AwaySame
  <2> QED
    BY <1>3, <2>1, <2>3, CleanKeeps DEF Core, SendsOnce
<1>8. \A s \in Reminder : OnTo(s)'
  BY <1>4 DEF OnTo
<1>9. /\ \A r \in todo'[p] : status[r] # "none"
      /\ pc'[p] \notin Working /\ pc'[p] \notin {"following", "creating"}
  BY <1>2 DEF Core, RowsLive, Working
<1>10. \A r \in Reminder : status[r] = "none" => accepted'[r] = accepted[r]
  BY DEF Core, RowsLive, Working
<1>11. now' \in Time
  BY DEF Core
<1> QED
  BY <1>2, <1>3, <1>4, <1>5, <1>6, <1>7, <1>8, <1>9, <1>10, <1>11, StepKeeps

LEMMA SendRaisesKeeps ==
    ASSUME Core, NEW p \in Sender, NEW n \in 0 .. Channels, SendRaises(p, n) PROVE Core'
<1>1. p \in Proc
  BY Bounds
<1>2. PICK c \in Reminder : cur[p] = c
  BY <1>1, WriterHasRow DEF SendRaises, Working
<1>3. accepted' \in [Reminder -> Nat] /\ \A r \in Reminder \ {c} : accepted'[r] = accepted[r]
  BY <1>2 DEF SendRaises, Core, TraceTyped
<1>4. strained' = IF cur[p] # None THEN strained \union {cur[p]} ELSE strained
  BY <1>2, Bounds DEF SendRaises
<1>5. Over(p, todo[p]) /\ cuts < MaxCuts /\ cuts' = cuts + 1 /\ UNCHANGED <<now, rowVars, ended>>
  BY DEF SendRaises
<1>6. pc[p] = "sending"
  BY DEF SendRaises
<1> QED
  BY <1>1, <1>2, <1>3, <1>4, <1>5, <1>6, CutKeeps

LEMMA DiesKeeps == ASSUME Core, NEW p \in Proc, Dies(p) PROVE Core'
<1>1. accepted' \in [Reminder -> Nat] /\ UNCHANGED accepted
  BY DEF Dies, Core, TraceTyped
<1>2. /\ Over(p, {}) /\ cuts < MaxCuts /\ cuts' = cuts + 1 /\ UNCHANGED <<now, rowVars, ended>>
      /\ strained' = IF cur[p] # None THEN strained \union {cur[p]} ELSE strained
  BY DEF Dies
<1> QED
  BY <1>1, <1>2, CutKeeps

LEMMA RowRaisesKeeps ==
    ASSUME Core, NEW p \in Proc, NEW left \in SUBSET todo[p], RowRaises(p, left) PROVE Core'
<1>1. accepted' \in [Reminder -> Nat] /\ UNCHANGED accepted
  BY DEF RowRaises, Core, TraceTyped
<1>2. /\ Over(p, left) /\ cuts < MaxCuts /\ cuts' = cuts + 1 /\ UNCHANGED <<now, rowVars, ended>>
      /\ strained' = IF cur[p] # None THEN strained \union {cur[p]} ELSE strained
  BY DEF RowRaises
<1> QED
  BY <1>1, <1>2, CutKeeps

(* Nothing is left to create: another row waits, or the series is over. *)
LEMMA NoFollowUpKeeps == ASSUME Core, NEW p \in Proc, NoFollowUp(p) PROVE Core'
<1>1. PICK c \in Reminder : /\ cur[p] = c /\ todo[p] \in SUBSET Reminder
  BY WriterHasRow DEF NoFollowUp, Working
<1>2. /\ ProcTyped' /\ Alone(p) /\ todo'[p] = todo[p] /\ pc[p] = "following"
      /\ pc'[p] \in {"idle", "listed"}
  BY <1>1, OverIs DEF NoFollowUp, Core
<1>3. UNCHANGED <<now, rowVars, accepted, strained, cuts>>
  BY DEF NoFollowUp
<1>4. UNCHANGED <<status, series, at, attempts, dismissed>>
  BY <1>3 DEF rowVars
<1>5. series[c] \in Reminder
  BY <1>1, <1>2 DEF Core, RowsLive, RowTyped
<1>6. ended' = IF Waiting(p) THEN ended ELSE ended \union {series[c]}
  BY <1>1 DEF NoFollowUp
<1>7. RowTyped' /\ TraceTyped'
  <2>1. RowTyped'
    BY <1>3 DEF Core, RowTyped, rowVars
  <2>2. TraceTyped'
    BY <1>3, <1>5, <1>6 DEF Core, TraceTyped
  <2> QED
    BY <2>1, <2>2
<1>8. ASSUME NEW s \in Reminder, series[c] = s PROVE OnTo(s)'
  <2>1. CASE Waiting(p)
    <3>1. PICK r \in Reminder : series[r] = s /\ status[r] \in {"pending", "sending"}
      BY <1>1, <1>8, <2>1 DEF Waiting
    <3> QED
      BY <1>4, <3>1 DEF OnTo, Waits
  <2>2. CASE ~Waiting(p)
    BY <1>6, <1>8, <2>2 DEF OnTo
  <2> QED
    BY <2>1, <2>2
<1>9. ASSUME NEW r \in Reminder \ strained' PROVE Clean(r)'
  <2>1. Clean(r)
    BY <1>3, <1>9 DEF Core, SendsOnce
  <2>2. SameSenders(r)
    BY <1>2, AwaySame DEF Away, InSend
  <2> QED
    BY <1>3, <1>4, <2>1, <2>2, CleanKeeps
<1>10. /\ \A r \in todo'[p] : status[r] # "none"
       /\ pc'[p] \notin Working /\ pc'[p] \notin {"following", "creating"}
  BY <1>2 DEF Core, RowsLive, Working
<1>11. now' \in Time /\ ended \subseteq ended'
  BY <1>3, <1>6 DEF Core
<1> QED
  BY <1>1, <1>2, <1>3, <1>4, <1>7, <1>8, <1>9, <1>10, <1>11, StepKeeps

-----------------------------------------------------------------------------
(* A row is inserted, by the owner or by a follow-up.                      *)
LEMMA InsertIs ==
    ASSUME Core, NEW r \in Reminder, NEW t \in Time, NEW s \in Reminder \union {None},
           Insert(r, t, s), UNCHANGED accepted
    PROVE  /\ RowTyped' /\ Kept /\ status[r] = "none" /\ status'[r] = "pending"
           /\ series'[r] = s /\ dismissed' = dismissed
           /\ \A x \in Reminder \ {r} : status'[x] = status[x] /\ series'[x] = series[x]
           /\ \A x \in Reminder : attempts'[x] = attempts[x] /\ accepted'[x] = accepted[x]
           /\ attempts[r] = 0 /\ accepted[r] = 0
<1>1. RowTyped' /\ status[r] = "none" /\ status'[r] = "pending" /\ series'[r] = s
  BY DEF Core, RowTyped, Insert, Status
<1>2. \A x \in Reminder \ {r} : status'[x] = status[x] /\ series'[x] = series[x]
  BY DEF Core, RowTyped, Insert
<1>3. UNCHANGED <<attempts, dismissed>>
  BY DEF Insert
<1>4. Kept
  BY <1>1, <1>2, <1>3 DEF Kept
<1>5. attempts[r] = 0 /\ accepted[r] = 0
  BY <1>1 DEF Core, RowsLive
<1> QED
  BY <1>1, <1>2, <1>3, <1>4, <1>5

LEMMA InsertKeeps ==
    ASSUME Core, NEW p \in Proc, NEW r \in Reminder, NEW t \in Time,
           NEW s \in Reminder \union {None},
           Insert(r, t, s), UNCHANGED <<now, traceVars, cuts>>, ProcTyped', Alone(p),
           \A x \in Reminder : Away(p, x),
           todo'[p] = todo[p], pc'[p] \notin Working \/ (pc'[p] = pc[p] /\ cur'[p] = cur[p]),
           pc[p] \in Hand => (pc'[p] = pc[p] /\ cur'[p] = cur[p]) \/ series[cur[p]] = s
    PROVE  Core'
<1>1. UNCHANGED <<accepted, ended, strained>> /\ now' \in Time /\ TraceTyped'
  BY DEF traceVars, Core, TraceTyped
<1>2. /\ RowTyped' /\ Kept /\ status[r] = "none" /\ status'[r] = "pending"
      /\ series'[r] = s /\ dismissed' = dismissed
      /\ \A x \in Reminder \ {r} : status'[x] = status[x] /\ series'[x] = series[x]
      /\ \A x \in Reminder : attempts'[x] = attempts[x] /\ accepted'[x] = accepted[x]
      /\ attempts[r] = 0 /\ accepted[r] = 0
  BY <1>1, InsertIs
<1>3. RowsLive'
  <2>1. \A x \in todo'[p] : x \in Reminder /\ status'[x] # "none"
    BY <1>2 DEF Core, ProcTyped, RowsLive, Kept
  <2>2. pc'[p] \in Working => cur'[p] \in Reminder /\ status'[cur'[p]] # "none"
    BY <1>2 DEF Core, RowsLive, Kept
  <2>3. pc'[p] \in {"following", "creating"} => series'[cur'[p]] # None
    BY <1>2 DEF Core, RowsLive, Kept, Working
  <2>4. \A x \in Reminder : status'[x] = "none" => attempts'[x] = 0 /\ accepted'[x] = 0
    BY <1>2 DEF Core, RowsLive
  <2> QED
    BY <1>2, <2>1, <2>2, <2>3, <2>4, LiveKeeps DEF Core
<1>4. SeriesGoesOn'
  <2>1. \A x \in Reminder : status[x] \in {"pending", "sending"} => Waits(x)'
    BY <1>2 DEF Waits
  <2>2. \A x \in Reminder : status[x] = "none" /\ status'[x] # "none" => status'[x] = "pending"
    BY <1>2
  <2>3. ASSUME NEW y \in Reminder, pc[p] \in Hand, series[cur[p]] = y PROVE OnTo(y)'
    <3>1. CASE series[cur[p]] = s
      BY <1>2, <2>3, <3>1 DEF OnTo, Waits
    <3>2. CASE pc'[p] = pc[p] /\ cur'[p] = cur[p]
      <4>1. cur[p] \in Reminder /\ status[cur[p]] # "none"
        BY <2>3 DEF Core, RowsLive, Hand, Working
      <4>2. InHand(y)'
        BY <1>2, <2>3, <3>2, <4>1, Bounds DEF InHand, Hand, Kept
      <4> QED
        BY <4>2 DEF OnTo
    <3> QED
      BY <2>3, <3>1, <3>2
  <2> QED
    BY <1>1, <1>2, <2>1, <2>2, <2>3, SeriesKeeps DEF Core
<1>5. ASSUME NEW x \in Reminder \ strained PROVE Clean(x)'
  <2>1. Clean(x) /\ SameSenders(x)
    BY AwaySame DEF Core, SendsOnce
  <2>2. CASE x = r
    BY <1>2, <2>1, <2>2, CleanKeeps
  <2>3. CASE x # r
    BY <1>2, <2>1, <2>3, CleanKeeps
  <2> QED
    BY <2>2, <2>3
<1> QED
  BY <1>1, <1>2, <1>3, <1>4, <1>5 DEF Core, SendsOnce

LEMMA CreateNextKeeps ==
    ASSUME Core, NEW p \in Proc, NEW r \in Reminder, CreateNext(p, r) PROVE Core'
<1>1. PICK c \in Reminder : cur[p] = c /\ todo[p] \in SUBSET Reminder
  BY WriterHasRow DEF CreateNext, Working
<1>2. /\ ProcTyped' /\ Alone(p) /\ todo'[p] = todo[p] /\ pc[p] = "creating"
      /\ pc'[p] \in {"idle", "listed"}
  BY <1>1, OverIs DEF CreateNext, Core
<1>3. series[c] \in Reminder \union {None} /\ slot[p] \in Time
  BY DEF Core, RowTyped, ProcTyped
<1>4. Insert(r, slot[p], series[c]) /\ UNCHANGED <<now, traceVars, cuts>>
  BY <1>1 DEF CreateNext
<1>5. \A x \in Reminder : Away(p, x)
  BY <1>2 DEF Away, InSend
<1>6. pc'[p] \notin Working
  BY <1>2 DEF Working
<1> QED
  BY <1>1, <1>2, <1>3, <1>4, <1>5, <1>6, InsertKeeps

LEMMA CreateKeeps ==
    ASSUME Core, NEW r \in Reminder, NEW t \in Time, NEW repeats \in BOOLEAN, Create(r, t, repeats)
    PROVE  Core'
<1>1. PICK s \in Reminder \union {None} : Insert(r, t, s)
  BY DEF Create
<1>2. UNCHANGED <<pc, op, when, todo, cur, seenAt, spent, got, slot>>
  BY DEF Create, procVars
<1>3. /\ UNCHANGED <<accepted, ended, strained, cuts>> /\ now' \in Time /\ TraceTyped'
  BY DEF Create, traceVars, Core, TraceTyped
<1>4. ProcTyped'
  BY <1>2 DEF Core, ProcTyped
<1>5. /\ RowTyped' /\ Kept /\ status[r] = "none" /\ status'[r] = "pending"
      /\ series'[r] = s /\ dismissed' = dismissed
      /\ \A x \in Reminder \ {r} : status'[x] = status[x] /\ series'[x] = series[x]
      /\ \A x \in Reminder : attempts'[x] = attempts[x] /\ accepted'[x] = accepted[x]
      /\ attempts[r] = 0 /\ accepted[r] = 0
  BY <1>1, <1>3, InsertIs
<1>6. RowsLive'
  <2>1. \A q \in Proc : \A x \in todo[q] : x \in Reminder /\ status'[x] # "none"
    BY <1>5 DEF Core, RowsLive, ProcTyped, Kept
  <2>2. \A q \in Proc : pc[q] \in Working =>
            /\ cur[q] \in Reminder /\ status'[cur[q]] # "none"
            /\ series'[cur[q]] = series[cur[q]]
    BY <1>5 DEF Core, RowsLive, Kept
  <2>3. \A q \in Proc : pc[q] \in {"following", "creating"} => series'[cur[q]] # None
    BY <2>2 DEF Core, RowsLive, Working
  <2>4. \A x \in Reminder : status'[x] = "none" => attempts'[x] = 0 /\ accepted'[x] = 0
    BY <1>5 DEF Core, RowsLive
  <2> QED
    BY <1>2, <2>1, <2>2, <2>3, <2>4 DEF RowsLive
<1>7. SeriesGoesOn'
  <2>1. ASSUME NEW y \in Reminder, OnTo(y) PROVE OnTo(y)'
    <3>1. CASE \E x \in Reminder : series[x] = y /\ status[x] # "none" /\ Waits(x)
      BY <1>5, <3>1 DEF OnTo, Waits, Kept
    <3>2. CASE InHand(y)
      <4>1. PICK q \in Proc : cur[q] # None /\ series[cur[q]] = y /\ pc[q] \in Hand
        BY <3>2 DEF InHand, Hand
      <4>2. cur[q] \in Reminder /\ status[cur[q]] # "none"
        BY <4>1 DEF Core, RowsLive, Hand, Working
      <4>3. InHand(y)'
        BY <1>2, <1>5, <4>1, <4>2 DEF InHand, Hand, Kept
      <4> QED
        BY <4>3 DEF OnTo
    <3>3. CASE y \in ended \/ cuts > 0
      BY <1>3, <3>3 DEF OnTo
    <3> QED
      BY <2>1, <3>1, <3>2, <3>3 DEF OnTo
  <2>2. ASSUME NEW y \in Reminder, NEW x \in Reminder, series'[x] = y, status'[x] # "none"
        PROVE  OnTo(y)'
    <3>1. CASE x = r
      BY <1>5, <2>2, <3>1 DEF OnTo, Waits
    <3>2. CASE x # r
      <4>1. OnTo(y)
        BY <1>5, <2>2, <3>2, SeriesIs DEF Core
      <4> QED
        BY <2>1, <4>1
    <3> QED
      BY <3>1, <3>2
  <2> QED
    BY <2>2 DEF SeriesGoesOn, OnTo, Waits
<1>8. ASSUME NEW x \in Reminder \ strained PROVE Clean(x)'
  <2>1. Clean(x) /\ SameSenders(x)
    BY <1>2, <1>8 DEF Core, SendsOnce, SameSenders, InSend
  <2>2. CASE x = r
    BY <1>5, <2>1, <2>2, CleanKeeps
  <2>3. CASE x # r
    BY <1>5, <2>1, <2>3, CleanKeeps
  <2> QED
    BY <2>2, <2>3
<1> QED
  BY <1>3, <1>4, <1>5, <1>6, <1>7, <1>8 DEF Core, SendsOnce

(* A step that changes neither rows nor processes. *)
LEMMA IdleKeeps ==
    ASSUME Core, now' \in Time,
           UNCHANGED <<status, series, at, nextTry, attempts, fired, dismissed, pc, op, when,
                       todo, cur, seenAt, spent, got, slot, accepted, ended, strained, cuts>>
    PROVE  Core'
<1>1. RowTyped' /\ ProcTyped' /\ TraceTyped'
  BY DEF Core, RowTyped, ProcTyped, TraceTyped
<1>2. RowsLive'
  BY DEF Core, RowsLive
<1>3. SeriesGoesOn'
  BY DEF Core, SeriesGoesOn, InHand
<1>4. SendsOnce'
  BY DEF Core, SendsOnce, Clean, InSend, Unsent
<1> QED
  BY <1>1, <1>2, <1>3, <1>4 DEF Core

-----------------------------------------------------------------------------
LEMMA TickKeeps == ASSUME Core, NEW p \in Sender, TickStep(p) PROVE Core'
<1>1. p \in Proc /\ "deliver" \in Op
  BY Bounds DEF Op
<1>2. CASE TickLists(p)
  <2> DEFINE rows == {r \in Reminder : Due(r, now)}
  <2>1. rows \in SUBSET Reminder /\ \A r \in rows : status[r] # "none"
    BY DEF Due
  <2>2. Lists(p, "deliver", rows)
    BY <1>2 DEF TickLists
  <2> HIDE DEF rows
  <2> QED
    BY <1>1, <2>1, <2>2, ListsKeeps
<1>3. ASSUME NEW r \in Reminder, Claim(p, r) \/ ClaimFails(p, r) PROVE Core'
  <2>1. CASE Claim(p, r)
    BY <2>1, ClaimKeeps
  <2>2. CASE ClaimFails(p, r)
    BY <1>1, <2>2, SkipsKeeps DEF ClaimFails
  <2> QED
    BY <1>3, <2>1, <2>2
<1>4. ASSUME NEW n \in 0 .. Channels, Send(p, n) PROVE Core'
  BY <1>4, SendKeeps
<1>5. CASE MarkReads(p)
  BY <1>1, <1>5, MarkReadsKeeps
<1>6. CASE MarkSent(p)
  BY <1>1, <1>6, MarkSentKeeps
<1>7. CASE MarkAttemptFailed(p)
  BY <1>7, MarkFailedKeeps
<1>8. CASE FollowUp(p)
  BY <1>1, <1>8, FollowUpKeeps
<1>9. CASE NoFollowUp(p)
  BY <1>1, <1>9, NoFollowUpKeeps
<1>10. ASSUME NEW r \in Reminder, CreateNext(p, r) PROVE Core'
  BY <1>1, <1>10, CreateNextKeeps
<1> QED
  BY <1>2, <1>3, <1>4, <1>5, <1>6, <1>7, <1>8, <1>9, <1>10 DEF TickStep

LEMMA BeginKeeps == ASSUME Core, NEW p \in Commander, CommandBegins(p) PROVE Core'
<1>1. p \in Proc /\ {"complete", "cancel", "snooze", "expire", "fire"} \subseteq Op
  BY Bounds DEF Op
<1>2. ASSUME NEW r \in Reminder, Complete(p, r) \/ Cancel(p, r) \/ Snooze(p, r) PROVE Core'
  <2>1. pc[p] \in {"idle", "listed"} /\ status[r] # "none"
    BY <1>2 DEF Complete, Cancel, Snooze, Terminal
  <2>2. PICK o \in Op : Reads(p, r, o)
    BY <1>1, <1>2 DEF Complete, Cancel, Snooze
  <2> QED
    BY <2>1, <2>2, ReadsKeeps
<1>3. CASE CliLists(p)
  <2> DEFINE rows == {r \in Reminder : Due(r, now)}
  <2>1. rows \in SUBSET Reminder /\ \A r \in rows : status[r] # "none"
    BY DEF Due
  <2>2. Lists(p, "fire", rows)
    BY <1>3 DEF CliLists
  <2> HIDE DEF rows
  <2> QED
    BY <1>1, <2>1, <2>2, ListsKeeps
<1>4. ASSUME NEW rows \in SUBSET Reminder, DigestLists(p, rows) PROVE Core'
  <2>1. \A r \in rows : status[r] # "none"
    BY <1>4 DEF DigestLists
  <2>2. Lists(p, "expire", rows)
    BY <1>4 DEF DigestLists
  <2> QED
    BY <1>1, <2>1, <2>2, ListsKeeps
<1> QED
  BY <1>2, <1>3, <1>4 DEF CommandBegins

LEMMA CommandKeeps == ASSUME Core, NEW p \in Commander, CommandStep(p) PROVE Core'
<1>1. p \in Proc /\ "expire" \in Op
  BY Bounds DEF Op
<1>2. ASSUME NEW r \in Reminder,
             Fire(p, r) \/ FireRefuses(p, r) \/ Expire(p, r) \/ ExpireSkips(p, r)
      PROVE  Core'
  <2>1. CASE Fire(p, r)
    BY <2>1, FireKeeps
  <2>2. CASE FireRefuses(p, r)
    BY <1>1, <2>2, SkipsKeeps DEF FireRefuses
  <2>3. CASE Expire(p, r)
    <3>1. pc[p] \in {"idle", "listed"} /\ status[r] # "none" /\ Reads(p, r, "expire")
      BY <1>1, <2>3 DEF Expire, Core, RowsLive
    <3> QED
      BY <1>1, <3>1, ReadsKeeps
  <2>4. CASE ExpireSkips(p, r)
    BY <1>1, <2>4, SkipsKeeps DEF ExpireSkips
  <2> QED
    BY <1>2, <2>1, <2>2, <2>3, <2>4
<1>3. CASE MarkReads(p)
  BY <1>1, <1>3, MarkReadsKeeps
<1>4. CASE MarkSent(p)
  BY <1>1, <1>4, MarkSentKeeps
<1>5. CASE WriteEnd(p)
  BY <1>1, <1>5, WriteEndKeeps
<1>6. CASE WriteCancel(p)
  BY <1>1, <1>6, WriteCancelKeeps
<1>7. ASSUME NEW t \in Time, WriteSnooze(p, t) PROVE Core'
  BY <1>7, WriteSnoozeKeeps
<1>8. CASE FollowUp(p)
  BY <1>1, <1>8, FollowUpKeeps
<1>9. CASE NoFollowUp(p)
  BY <1>1, <1>9, NoFollowUpKeeps
<1>10. ASSUME NEW r \in Reminder, CreateNext(p, r) PROVE Core'
  BY <1>1, <1>10, CreateNextKeeps
<1> QED
  BY <1>2, <1>3, <1>4, <1>5, <1>6, <1>7, <1>8, <1>9, <1>10 DEF CommandStep

RemInv == Core /\ given \in 0 .. MaxCommands

LEMMA RemStart == RemInit => RemInv
<1> SUFFICES ASSUME RemInit PROVE RemInv
  OBVIOUS
<1>1. now \in Time /\ RowTyped
  BY Bounds DEF RemInit, RowTyped, Status
<1>2. ProcTyped
  BY Bounds DEF RemInit, ProcTyped, Pc, Op
<1>3. TraceTyped /\ given \in 0 .. MaxCommands
  BY ReminderAssumption DEF RemInit, TraceTyped
<1>4. RowsLive
  BY DEF RemInit, RowsLive, Working
<1>5. SeriesGoesOn
  BY DEF RemInit, SeriesGoesOn
<1>6. SendsOnce
  BY Bounds DEF RemInit, SendsOnce, Clean, InSend
<1> QED
  BY <1>1, <1>2, <1>3, <1>4, <1>5, <1>6 DEF RemInv, Core

LEMMA RemStep == RemInv /\ [RemNext]_remVars => RemInv'
<1> SUFFICES ASSUME RemInv, [RemNext]_remVars PROVE RemInv'
  OBVIOUS
<1>1. Core
  BY DEF RemInv
<1>2. given' \in 0 .. MaxCommands
  BY ReminderAssumption DEF RemInv, RemNext, CommandBegins, remVars
<1>3. ASSUME NEW p \in Commander, CommandBegins(p) PROVE Core'
  BY <1>1, <1>3, BeginKeeps
<1>4. ASSUME NEW r \in Reminder, NEW t \in Time, NEW repeats \in BOOLEAN, Create(r, t, repeats)
      PROVE  Core'
  BY <1>1, <1>4, CreateKeeps
<1>5. ASSUME TimePasses PROVE Core'
  <2>1. now' \in Time
    BY <1>1, <1>5, Bounds DEF TimePasses, Core, Time
  <2>2. UNCHANGED <<status, series, at, nextTry, attempts, fired, dismissed, pc, op, when, todo,
                   cur, seenAt, spent, got, slot, accepted, ended, strained, cuts>>
    BY <1>5 DEF TimePasses, rowVars, procVars, traceVars
  <2> QED
    BY <1>1, <2>1, <2>2, IdleKeeps
<1>6. ASSUME NEW p \in Sender, TickStep(p) PROVE Core'
  BY <1>1, <1>6, TickKeeps
<1>7. ASSUME NEW p \in Sender, NEW n \in 0 .. Channels, SendRaises(p, n) PROVE Core'
  BY <1>1, <1>7, SendRaisesKeeps
<1>8. ASSUME NEW p \in Commander, CommandStep(p) PROVE Core'
  BY <1>1, <1>8, CommandKeeps
<1>9. ASSUME NEW p \in Proc, Dies(p) PROVE Core'
  BY <1>1, <1>9, DiesKeeps
<1>10. ASSUME UNCHANGED remVars PROVE Core'
  <2>1. now' \in Time
    BY <1>1, <1>10 DEF remVars, Core
  <2>2. UNCHANGED <<status, series, at, nextTry, attempts, fired, dismissed, pc, op, when, todo,
                   cur, seenAt, spent, got, slot, accepted, ended, strained, cuts>>
    BY <1>10 DEF remVars
  <2> QED
    BY <1>1, <2>1, <2>2, IdleKeeps
<1>11. ASSUME NEW p \in Proc, NEW left \in SUBSET todo[p], RowRaises(p, left) PROVE Core'
  BY <1>1, <1>11, RowRaisesKeeps
<1>12. ASSUME RemNext PROVE Core'
  BY <1>3, <1>4, <1>5, <1>6, <1>7, <1>8, <1>9, <1>11, <1>12 DEF RemNext
<1> QED
  BY <1>2, <1>10, <1>12 DEF RemInv

LEMMA RemInvariant == RemSpec => []RemInv
BY RemStart, RemStep, PTL DEF RemSpec

(* Every column and every process variable keeps its type: no clock, slot  *)
(* or retry time leaves its range, and what is followed up is a series.    *)
THEOREM RemTypeCorrect == RemSpec => []RemTypeOK
<1>1. RemInv => RemTypeOK
  BY DEF RemInv, Core, RowTyped, ProcTyped, TraceTyped, RemTypeOK
<1> QED
  BY <1>1, RemInvariant, PTL

(* The owner hears of an occurrence once, after MAX_ATTEMPTS sends at the  *)
(* most, whatever Done, Snooze, cancel and the digest do meanwhile, unless *)
(* a send was cut off or outlived its lease (claim, mark_sent and          *)
(* mark_attempt_failed).                                                   *)
THEOREM OccurrencesAreHeardOnce == RemSpec => []HeardOnce
<1>1. RemInv => HeardOnce
  <2> SUFFICES ASSUME RemInv, NEW r \in Reminder, r \notin strained
               PROVE  ~(accepted[r] > 1) /\ ~(attempts[r] > MaxAttempts)
    BY DEF HeardOnce
  <2>1. attempts[r] <= MaxAttempts /\ accepted[r] <= 1
    BY DEF RemInv, Core, SendsOnce, Clean
  <2>2. attempts[r] \in Nat /\ accepted[r] \in Nat
    BY DEF RemInv, Core, RowTyped, TraceTyped
  <2> QED
    BY <2>1, <2>2, Bounds
<1> QED
  BY <1>1, RemInvariant, PTL

(* A reminder that is listed as missed was not heard, with the same        *)
(* exceptions (mark_attempt_failed).                                       *)
THEOREM MissedWereNotHeard == RemSpec => []MissedWasNotHeard
<1>1. RemInv => MissedWasNotHeard
  BY DEF RemInv, Core, SendsOnce, Clean, MissedWasNotHeard
<1> QED
  BY <1>1, RemInvariant, PTL

(* A repeating reminder goes on, whoever ends or sends its rows and in     *)
(* whatever order, unless a row of it is cancelled or a process is cut off *)
(* (ensure_next_occurrence and its callers).                               *)
THEOREM RepeatingGoesOn == RemSpec => []SeriesGoesOn
<1>1. RemInv => SeriesGoesOn
  BY DEF RemInv, Core
<1> QED
  BY <1>1, RemInvariant, PTL

=============================================================================
