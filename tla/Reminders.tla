----------------------------- MODULE Reminders -----------------------------
(***************************************************************************)
(* Reminders: the rows of notification_reminders                           *)
(* (services/notifications/store.py), the heartbeat tick that sends what   *)
(* is due (channels.py, deliver_due), the owner's Done, Snooze and cancel, *)
(* the morning digest's sweeps (digest/expiry.py) and the CLI's            *)
(* `evarness reminder tick`.                                               *)
(*                                                                         *)
(* A method of the store opens a connection per statement: what it reads   *)
(* and what it writes are separate transactions, hence separate steps, and *)
(* every write but the claim is by id alone. Time is counted in units of   *)
(* RETRY_DELAY; a repeating reminder has a slot in every unit, up to       *)
(* MaxTime, the series' recur_until.                                       *)
(***************************************************************************)
EXTENDS Naturals, FiniteSets

CONSTANTS
    Reminder,     \* the reminder ids that can be minted
    Asked,        \* bound: those of them the owner's requests get
    Sender,       \* harness processes, each with one reminder tick at a time
    Commander,    \* API requests, Telegram taps, CLI commands, digest runs
    Channels,     \* how many reminder channels are registered
    MaxAttempts,  \* MAX_ATTEMPTS: sends per occurrence
    MaxTime,      \* bound: the clock stops here
    MaxCommands,  \* bound: how many commands and digest sweeps there are
    MaxCuts,      \* bound: how many times a process dies or a send raises
    None          \* no reminder, no series, no time

ASSUME ReminderAssumption ==
    /\ Channels \in Nat \ {0} /\ MaxAttempts \in Nat \ {0}
    /\ MaxTime \in Nat /\ MaxCommands \in Nat /\ MaxCuts \in Nat
    /\ Asked \subseteq Reminder /\ None \notin Reminder /\ None \notin Nat
    /\ Sender \intersect Commander = {}

VARIABLES
    now,        \* the wall clock
    status,     \* the status column; "none" before the INSERT
    series,     \* series_id: None, or the series' first row
    at,         \* remind_at
    nextTry,    \* next_attempt_at
    attempts,   \* attempts
    fired,      \* fired_at IS NOT NULL
    dismissed,  \* dismissed_at IS NOT NULL
    pc,         \* where each process stands
    op,         \* what it is doing
    when,       \* a tick's own "now", read when it starts
    todo,       \* the rows a tick or a digest sweep listed
    cur,        \* the row it works on
    seenAt,     \* that row's remind_at as last read
    spent,      \* no attempt is left, as last read
    got,        \* a channel accepted the send
    slot,       \* the next occurrence to create
    accepted,   \* sends of a row that a channel accepted, since its last snooze
    ended,      \* series that have no slot left before recur_until
    strained,   \* rows whose send was cut off, or claimed while still being sent
    given,      \* how many commands have been given
    cuts        \* how many cuts have happened

rowVars    == <<status, series, at, nextTry, attempts, fired, dismissed>>
procVars   == <<pc, op, when, todo, cur, seenAt, spent, got, slot>>
traceVars  == <<accepted, ended, strained>>
remVars    == <<now, status, series, at, nextTry, attempts, fired, dismissed, pc, op, when, todo,
                cur, seenAt, spent, got, slot, accepted, ended, strained, given, cuts>>

Proc     == Sender \union Commander
Time     == 0 .. MaxTime
Terminal == {"done", "cancelled", "expired"}
Status   == {"none", "pending", "sending", "sent", "failed"} \union Terminal
Op       == {"idle", "deliver", "fire", "complete", "cancel", "snooze", "expire"}
Pc       == {"idle", "listed", "sending", "answered", "writing", "following", "creating"}

-----------------------------------------------------------------------------
(* Rows. *)

DueUnlessClaimed(r, t) ==
    /\ status[r] = "pending"
    /\ (IF nextTry[r] # None THEN nextTry[r] ELSE at[r]) <= t

(* _DUE_WHERE: a pending row whose retry, or else whose time, has come; a    *)
(* claimed row whose lease ran out.                                          *)
Due(r, t) ==
    \/ /\ status[r] = "pending"
       /\ (IF nextTry[r] # None THEN nextTry[r] ELSE at[r]) <= t
    \/ status[r] = "sending" /\ nextTry[r] # None /\ nextTry[r] <= t

(* INSERT of a fresh UUID. *)
Insert(r, t, s) ==
    /\ status[r] = "none"
    /\ status' = [status EXCEPT ![r] = "pending"]
    /\ at' = [at EXCEPT ![r] = t]
    /\ series' = [series EXCEPT ![r] = s]
    /\ UNCHANGED <<nextTry, attempts, fired, dismissed>>

(* The owner asks for a reminder, a repeating one (the first of its series)  *)
(* or not.                                                                   *)
Create(r, t, repeats) ==
    /\ r \in Asked
    /\ t >= now
    /\ Insert(r, t, IF repeats THEN r ELSE None)
    /\ UNCHANGED <<now, procVars, traceVars, cuts>>

(* The wall clock. *)
TimePasses ==
    /\ now < MaxTime
    /\ now' = now + 1
    /\ UNCHANGED <<rowVars, procVars, traceVars, cuts>>

-----------------------------------------------------------------------------
(* What processes have in common. *)

(* The process goes on with the rows still to be worked on, or is done. *)
Over(p, left) ==
    /\ todo' = [todo EXCEPT ![p] = left]
    /\ pc' = [pc EXCEPT ![p] = IF left = {} THEN "idle" ELSE "listed"]
    /\ op' = [op EXCEPT ![p] = IF left = {} THEN "idle" ELSE @]
    /\ when' = [when EXCEPT ![p] = IF left = {} THEN 0 ELSE @]
    /\ cur' = [cur EXCEPT ![p] = None]
    /\ seenAt' = [seenAt EXCEPT ![p] = 0]
    /\ spent' = [spent EXCEPT ![p] = FALSE]
    /\ got' = [got EXCEPT ![p] = FALSE]
    /\ slot' = [slot EXCEPT ![p] = 0]

Goes(p, where) == pc' = [pc EXCEPT ![p] = where]

(* The row is written. ensure_next_occurrence comes next; it has nothing to      *)
(* do for a reminder that does not repeat.                                   *)
Follows(p) ==
    IF series[cur[p]] = None
    THEN Over(p, todo[p])
    ELSE Goes(p, "following") /\ UNCHANGED <<op, when, todo, cur, seenAt, spent, got, slot>>

(* list_due, list_missed, list_sent_before: the rows to work on. *)
Lists(p, o, rows) ==
    /\ pc[p] = "idle"
    /\ rows # {}
    /\ Goes(p, "listed")
    /\ op' = [op EXCEPT ![p] = o]
    /\ when' = [when EXCEPT ![p] = now]
    /\ todo' = [todo EXCEPT ![p] = rows]
    /\ UNCHANGED <<now, rowVars, cur, seenAt, spent, got, slot, traceVars, cuts>>

(* One listed row is not, or no longer, to be worked on. *)
Skips(p, r) ==
    /\ Over(p, todo[p] \ {r})
    /\ UNCHANGED <<now, rowVars, traceVars, cuts>>

(* _require of the row a command is about to change. *)
Reads(p, r, o) ==
    /\ Goes(p, "writing")
    /\ op' = [op EXCEPT ![p] = o]
    /\ cur' = [cur EXCEPT ![p] = r]
    /\ seenAt' = [seenAt EXCEPT ![p] = at[r]]
    /\ todo' = [todo EXCEPT ![p] = @ \ {r}]
    /\ UNCHANGED <<now, rowVars, when, spent, got, slot, traceVars, cuts>>

-----------------------------------------------------------------------------
(* The heartbeat's tick: deliver_due. *)

TickLists(p) == Lists(p, "deliver", {r \in Reminder : Due(r, now)})

(* The row falls due again while another process is between its claim of it  *)
(* and the record of what came of the send.                                  *)
Overran(p, r) ==
    /\ Due(r, when[p])
    /\ \E q \in Sender \ {p} : cur[q] = r /\ pc[q] \in {"sending", "answered", "writing"}

ClaimAnyway(p, r) ==
    /\ pc[p] = "listed" /\ op[p] = "deliver" /\ r \in todo[p]
    /\ status[r] \in {"pending", "sending"}
    /\ status' = [status EXCEPT ![r] = "sending"]
    /\ attempts' = [attempts EXCEPT ![r] = @ + 1]
    /\ nextTry' = [nextTry EXCEPT ![r] = when[p] + 1]
    /\ Goes(p, "sending")
    /\ cur' = [cur EXCEPT ![p] = r]
    /\ todo' = [todo EXCEPT ![p] = @ \ {r}]
    /\ strained' = IF Overran(p, r) THEN strained \union {r} ELSE strained
    /\ UNCHANGED <<now, series, at, fired, dismissed, op, when, seenAt, spent, got, slot,
                   accepted, ended, cuts>>

(* claim: one conditional UPDATE. Due is judged, and the lease counted, from *)
(* the time the tick started.                                                *)
Claim(p, r) ==
    /\ pc[p] = "listed" /\ op[p] = "deliver" /\ r \in todo[p]
    /\ Due(r, when[p])
    /\ status' = [status EXCEPT ![r] = "sending"]
    /\ attempts' = [attempts EXCEPT ![r] = @ + 1]
    /\ nextTry' = [nextTry EXCEPT ![r] = when[p] + 1]
    /\ Goes(p, "sending")
    /\ cur' = [cur EXCEPT ![p] = r]
    /\ todo' = [todo EXCEPT ![p] = @ \ {r}]
    /\ strained' = IF Overran(p, r) THEN strained \union {r} ELSE strained
    /\ UNCHANGED <<now, series, at, fired, dismissed, op, when, seenAt, spent, got, slot,
                   accepted, ended, cuts>>

(* Another tick took the row first, or it is no longer due. *)
ClaimFails(p, r) ==
    /\ pc[p] = "listed" /\ op[p] = "deliver" /\ r \in todo[p]
    /\ ~Due(r, when[p])
    /\ Skips(p, r)

(* send_reminder: n of the channels accepted; one is enough. *)
Send(p, n) ==
    /\ pc[p] = "sending"
    /\ got' = [got EXCEPT ![p] = n > 0]
    /\ accepted' = [accepted EXCEPT ![cur[p]] = @ + IF n > 0 THEN 1 ELSE 0]
    /\ Goes(p, "answered")
    /\ UNCHANGED <<now, rowVars, op, when, todo, cur, seenAt, spent, slot, ended, strained, cuts>>

(* Building or sending a message raises, perhaps after a channel accepted:   *)
(* the row stays claimed, the tick goes on with the next one.                *)
SendRaises(p, n) ==
    /\ pc[p] = "sending"
    /\ cuts < MaxCuts
    /\ cuts' = cuts + 1
    /\ accepted' = [accepted EXCEPT ![cur[p]] = @ + IF n > 0 THEN 1 ELSE 0]
    /\ strained' = strained \union {cur[p]}
    /\ Over(p, todo[p])
    /\ UNCHANGED <<now, rowVars, ended>>

(* mark_sent and mark_attempt_failed read the row again. *)
MarkReads(p) ==
    /\ pc[p] = "answered"
    /\ seenAt' = [seenAt EXCEPT ![p] = at[cur[p]]]
    /\ spent' = [spent EXCEPT ![p] = attempts[cur[p]] >= MaxAttempts]
    /\ Goes(p, "writing")
    /\ UNCHANGED <<now, rowVars, op, when, todo, cur, got, slot, traceVars, cuts>>

MarkByAttempts(p) ==
    /\ pc[p] = "writing" /\ op[p] \in {"deliver", "fire"} /\ got[p]
    /\ status' = [status EXCEPT ![cur[p]] = IF spent[p] THEN "failed" ELSE "sent"]
    /\ nextTry' = [nextTry EXCEPT ![cur[p]] = None]
    /\ fired' = [fired EXCEPT ![cur[p]] = TRUE]
    /\ Follows(p)
    /\ UNCHANGED <<now, series, at, attempts, dismissed, traceVars, cuts>>

(* mark_sent: the row is sent, whatever it is by now, and reminder.fired is  *)
(* emitted.                                                                  *)
MarkSent(p) ==
    /\ pc[p] = "writing" /\ op[p] \in {"deliver", "fire"} /\ got[p]
    /\ status' = [status EXCEPT ![cur[p]] = "sent"]
    /\ nextTry' = [nextTry EXCEPT ![cur[p]] = None]
    /\ fired' = [fired EXCEPT ![cur[p]] = TRUE]
    /\ Follows(p)
    /\ UNCHANGED <<now, series, at, attempts, dismissed, traceVars, cuts>>

(* mark_attempt_failed: one retry later, or failed for good. *)
MarkAttemptFailed(p) ==
    /\ pc[p] = "writing" /\ op[p] = "deliver" /\ ~got[p]
    /\ status' = [status EXCEPT ![cur[p]] = IF spent[p] THEN "failed" ELSE "pending"]
    /\ nextTry' = [nextTry EXCEPT ![cur[p]] = IF spent[p] THEN None ELSE when[p] + 1]
    /\ IF spent[p] THEN Follows(p) ELSE Over(p, todo[p])
    /\ UNCHANGED <<now, series, at, attempts, fired, dismissed, traceVars, cuts>>

-----------------------------------------------------------------------------
(* `evarness reminder tick`: every due row is marked sent, nothing is sent.  *)

CliLists(p) == Lists(p, "fire", {r \in Reminder : Due(r, now)})

(* fire, of a row that was neither cancelled nor fired; then mark_sent. *)
Fire(p, r) ==
    /\ pc[p] = "listed" /\ op[p] = "fire" /\ r \in todo[p]
    /\ ~dismissed[r] /\ status[r] # "cancelled" /\ ~fired[r]
    /\ Goes(p, "answered")
    /\ got' = [got EXCEPT ![p] = TRUE]
    /\ cur' = [cur EXCEPT ![p] = r]
    /\ todo' = [todo EXCEPT ![p] = @ \ {r}]
    /\ UNCHANGED <<now, rowVars, op, when, seenAt, spent, slot, traceVars, cuts>>

FireRefuses(p, r) ==
    /\ pc[p] = "listed" /\ op[p] = "fire" /\ r \in todo[p]
    /\ dismissed[r] \/ status[r] = "cancelled" \/ fired[r]
    /\ Skips(p, r)

-----------------------------------------------------------------------------
(* The owner and the digest: each method reads the row, and returns or       *)
(* raises unless it may go on.                                               *)

(* Done. *)
Complete(p, r) ==
    /\ pc[p] = "idle"
    /\ status[r] \notin Terminal \union {"none"}
    /\ Reads(p, r, "complete")

(* `evarness reminder cancel`. *)
Cancel(p, r) ==
    /\ pc[p] = "idle"
    /\ status[r] \notin Terminal \union {"none", "sent"}
    /\ Reads(p, r, "cancel")

Snooze(p, r) ==
    /\ pc[p] = "idle"
    /\ status[r] \in {"pending", "sent", "failed"}
    /\ Reads(p, r, "snooze")

(* sweep_missed_reminders and sweep_unacknowledged_reminders, of rows a      *)
(* digest has shown already: what failed, and what was due before today      *)
(* (here: before now) and sent. They are listed first and read again later.  *)
DigestLists(p, rows) ==
    /\ rows \subseteq {r \in Reminder :
                          status[r] = "failed" \/ (status[r] = "sent" /\ at[r] < now)}
    /\ Lists(p, "expire", rows)

(* expire reads the row again: it ends unless it has ended. *)
Expire(p, r) ==
    /\ pc[p] = "listed" /\ op[p] = "expire" /\ r \in todo[p]
    /\ status[r] \notin Terminal
    /\ Reads(p, r, "expire")

ExpireSkips(p, r) ==
    /\ pc[p] = "listed" /\ op[p] = "expire" /\ r \in todo[p]
    /\ status[r] \in Terminal
    /\ Skips(p, r)

EndsWithoutNext(p) ==
    /\ pc[p] = "writing" /\ op[p] \in {"complete", "expire"}
    /\ status' = [status EXCEPT ![cur[p]] = IF op[p] = "complete" THEN "done" ELSE "expired"]
    /\ nextTry' = [nextTry EXCEPT ![cur[p]] = None]
    /\ Over(p, todo[p])
    /\ UNCHANGED <<now, series, at, attempts, fired, dismissed, traceVars, cuts>>

(* complete and expire write the end; the series goes on. *)
WriteEnd(p) ==
    /\ pc[p] = "writing" /\ op[p] \in {"complete", "expire"}
    /\ status' = [status EXCEPT ![cur[p]] = IF op[p] = "complete" THEN "done" ELSE "expired"]
    /\ nextTry' = [nextTry EXCEPT ![cur[p]] = None]
    /\ Follows(p)
    /\ UNCHANGED <<now, series, at, attempts, fired, dismissed, traceVars, cuts>>

WriteCancel(p) ==
    /\ pc[p] = "writing" /\ op[p] = "cancel"
    /\ status' = [status EXCEPT ![cur[p]] = "cancelled"]
    /\ nextTry' = [nextTry EXCEPT ![cur[p]] = None]
    /\ dismissed' = [dismissed EXCEPT ![cur[p]] = TRUE]
    /\ Over(p, todo[p])
    /\ UNCHANGED <<now, series, at, attempts, fired, traceVars, cuts>>

(* snooze writes: pending again, at a later time, with fresh attempts. *)
WriteSnooze(p, t) ==
    /\ pc[p] = "writing" /\ op[p] = "snooze"
    /\ t > now
    /\ status' = [status EXCEPT ![cur[p]] = "pending"]
    /\ at' = [at EXCEPT ![cur[p]] = t]
    /\ attempts' = [attempts EXCEPT ![cur[p]] = 0]
    /\ nextTry' = [nextTry EXCEPT ![cur[p]] = None]
    /\ fired' = [fired EXCEPT ![cur[p]] = FALSE]
    /\ accepted' = [accepted EXCEPT ![cur[p]] = 0]
    /\ Over(p, todo[p])
    /\ UNCHANGED <<now, series, dismissed, ended, strained, cuts>>

-----------------------------------------------------------------------------
(* ensure_next_occurrence. *)

(* Another row of the series waits beyond the one just dealt with. *)
Waiting(p) ==
    \E r \in Reminder \ {cur[p]} :
        /\ series[r] = series[cur[p]]
        /\ status[r] \in {"pending", "sending"}
        /\ at[r] > seenAt[p]

(* The series' first slot after both that row and now (for a tick, the time  *)
(* it started).                                                              *)
NextSlot(p) ==
    LET t == IF op[p] = "deliver" THEN when[p] ELSE now
    IN  1 + IF t > seenAt[p] THEN t ELSE seenAt[p]

FollowUp(p) ==
    /\ pc[p] = "following"
    /\ ~Waiting(p)
    /\ NextSlot(p) <= MaxTime
    /\ Goes(p, "creating")
    /\ slot' = [slot EXCEPT ![p] = NextSlot(p)]
    /\ UNCHANGED <<now, rowVars, op, when, todo, cur, seenAt, spent, got, traceVars, cuts>>

(* A row waits already, or no slot is left. *)
NoFollowUp(p) ==
    /\ pc[p] = "following"
    /\ Waiting(p) \/ NextSlot(p) > MaxTime
    /\ Over(p, todo[p])
    /\ ended' = IF Waiting(p) THEN ended ELSE ended \union {series[cur[p]]}
    /\ UNCHANGED <<now, rowVars, accepted, strained, cuts>>

CreateNext(p, r) ==
    /\ pc[p] = "creating"
    /\ Insert(r, slot[p], series[cur[p]])
    /\ Over(p, todo[p])
    /\ UNCHANGED <<now, traceVars, cuts>>

-----------------------------------------------------------------------------
(* A statement raises in a tick, which catches it and goes on with the       *)
(* other rows.                                                               *)
RowRaises(p, left) ==
    /\ op[p] \in {"deliver", "fire"}
    /\ IF cur[p] # None THEN left = todo[p] ELSE \E r \in todo[p] : left = todo[p] \ {r}
    /\ cuts < MaxCuts
    /\ cuts' = cuts + 1
    /\ strained' = IF cur[p] # None THEN strained \union {cur[p]} ELSE strained
    /\ Over(p, left)
    /\ UNCHANGED <<now, rowVars, accepted, ended>>

(* The process dies, or a command or the digest's sweep raises: nothing more *)
(* is done.                                                                  *)
Dies(p) ==
    /\ pc[p] # "idle"
    /\ cuts < MaxCuts
    /\ cuts' = cuts + 1
    /\ strained' = IF cur[p] # None THEN strained \union {cur[p]} ELSE strained
    /\ Over(p, {})
    /\ UNCHANGED <<now, rowVars, accepted, ended>>

RemInit ==
    /\ now = 0
    /\ status = [r \in Reminder |-> "none"]
    /\ series = [r \in Reminder |-> None]
    /\ at = [r \in Reminder |-> 0]
    /\ nextTry = [r \in Reminder |-> None]
    /\ attempts = [r \in Reminder |-> 0]
    /\ fired = [r \in Reminder |-> FALSE]
    /\ dismissed = [r \in Reminder |-> FALSE]
    /\ pc = [p \in Proc |-> "idle"]
    /\ op = [p \in Proc |-> "idle"]
    /\ when = [p \in Proc |-> 0]
    /\ todo = [p \in Proc |-> {}]
    /\ cur = [p \in Proc |-> None]
    /\ seenAt = [p \in Proc |-> 0]
    /\ spent = [p \in Proc |-> FALSE]
    /\ got = [p \in Proc |-> FALSE]
    /\ slot = [p \in Proc |-> 0]
    /\ accepted = [r \in Reminder |-> 0]
    /\ ended = {}
    /\ strained = {}
    /\ given = 0
    /\ cuts = 0

(* What a tick, once started, does on its own. *)
TickStep(p) ==
    \/ TickLists(p)
    \/ \E r \in Reminder : Claim(p, r) \/ ClaimFails(p, r)
    \/ \E n \in 0 .. Channels : Send(p, n)
    \/ MarkReads(p)
    \/ MarkSent(p)
    \/ MarkAttemptFailed(p)
    \/ FollowUp(p)
    \/ NoFollowUp(p)
    \/ \E r \in Reminder : CreateNext(p, r)

CommandBegins(p) ==
    /\ given < MaxCommands
    /\ given' = given + 1
    /\ \/ \E r \in Reminder : Complete(p, r) \/ Cancel(p, r) \/ Snooze(p, r)
       \/ CliLists(p)
       \/ \E rows \in SUBSET Reminder : DigestLists(p, rows)

CommandStep(p) ==
    \/ \E r \in Reminder : Fire(p, r) \/ FireRefuses(p, r) \/ Expire(p, r) \/ ExpireSkips(p, r)
    \/ MarkReads(p)
    \/ MarkSent(p)
    \/ WriteEnd(p)
    \/ WriteCancel(p)
    \/ \E t \in Time : WriteSnooze(p, t)
    \/ FollowUp(p)
    \/ NoFollowUp(p)
    \/ \E r \in Reminder : CreateNext(p, r)

RemNext ==
    \/ \E p \in Commander : CommandBegins(p)
    \/ /\ \/ \E r \in Reminder, t \in Time, repeats \in BOOLEAN : Create(r, t, repeats)
          \/ TimePasses
          \/ \E p \in Sender : TickStep(p)
          \/ \E p \in Sender, n \in 0 .. Channels : SendRaises(p, n)
          \/ \E p \in Commander : CommandStep(p)
          \/ \E p \in Proc : Dies(p)
          \/ \E p \in Proc : \E left \in SUBSET todo[p] : RowRaises(p, left)
       /\ UNCHANGED given

RemSpec == RemInit /\ [][RemNext]_remVars

(* Time passes, the heartbeat runs the reminder tick every minute and a tick *)
(* or a command that is not cut off runs to its end. Nobody is obliged to    *)
(* give a command.                                                           *)
RemFairness ==
    /\ WF_remVars(TimePasses /\ UNCHANGED given)
    /\ \A p \in Sender : WF_remVars(TickStep(p) /\ UNCHANGED given)
    /\ \A p \in Commander : WF_remVars(CommandStep(p) /\ UNCHANGED given)

FairRemSpec == RemSpec /\ RemFairness

-----------------------------------------------------------------------------
(* Properties. *)

(* Every column and every process variable holds a value of its type. *)
RemTypeOK ==
    /\ now \in Time
    /\ status \in [Reminder -> Status]
    /\ series \in [Reminder -> Reminder \union {None}]
    /\ at \in [Reminder -> Time]
    /\ nextTry \in [Reminder -> 1 .. MaxTime + 1 \union {None}]
    /\ attempts \in [Reminder -> Nat]
    /\ fired \in [Reminder -> BOOLEAN]
    /\ dismissed \in [Reminder -> BOOLEAN]
    /\ pc \in [Proc -> Pc]
    /\ op \in [Proc -> Op]
    /\ when \in [Proc -> Time]
    /\ todo \in [Proc -> SUBSET Reminder]
    /\ cur \in [Proc -> Reminder \union {None}]
    /\ seenAt \in [Proc -> Time]
    /\ spent \in [Proc -> BOOLEAN]
    /\ got \in [Proc -> BOOLEAN]
    /\ slot \in [Proc -> Time]
    /\ accepted \in [Reminder -> Nat]
    /\ ended \in SUBSET Reminder
    /\ strained \in SUBSET Reminder
    /\ given \in 0 .. MaxCommands
    /\ cuts \in 0 .. MaxCuts

(* The owner hears of an occurrence once, after MAX_ATTEMPTS sends at the    *)
(* most, unless a send was cut off or outlived its lease: claim gives a due  *)
(* row to one tick, and what came of the send is written before it is due    *)
(* again.                                                                    *)
HeardOnce ==
    \A r \in Reminder :
        accepted[r] > 1 \/ attempts[r] > MaxAttempts => r \in strained

(* A reminder the owner got is not listed as missed: a failed row is one no  *)
(* channel accepted, with the same exceptions.                               *)
MissedWasNotHeard ==
    \A r \in Reminder : status[r] = "failed" /\ accepted[r] > 0 => r \in strained

(* Some process still has the follow-up of a row of the series before it. *)
InHand(s) ==
    \E p \in Proc :
        cur[p] # None /\ series[cur[p]] = s /\ pc[p] \in {"writing", "following", "creating"}

(* A repeating reminder goes on: whoever ends or sends its rows, in whatever *)
(* order, one of them is waiting, or somebody is about to create the next,   *)
(* or its last slot has been reached, unless a row of it was cancelled or a  *)
(* process was cut off.                                                      *)
SeriesGoesOn ==
    \A s \in Reminder :
        LET rows == {r \in Reminder : series[r] = s /\ status[r] # "none"}
        IN  rows # {} =>
              \/ \E r \in rows : status[r] \in {"pending", "sending"} \/ dismissed[r]
              \/ InHand(s)
              \/ s \in ended
              \/ cuts > 0

(* A send of the row is to come, or under way, within the time modelled. *)
SendAhead(r) ==
    /\ status[r] \in {"pending", "sending"}
    /\ (IF nextTry[r] # None THEN nextTry[r] ELSE at[r]) <= MaxTime

(* A send that falls due is made: no row stays due, not even one whose       *)
(* process died in the middle of sending it.                                 *)
DueIsSent == \A r \in Reminder : SendAhead(r) ~> ~SendAhead(r)

(* What models.py says of the terminal statuses, "States a reminder never    *)
(* leaves", and cancel's docstring, "terminal - never fires again".          *)
EndedStaysEnded ==
    [][\A r \in Reminder : status[r] \in Terminal => status'[r] = status[r]]_remVars
=============================================================================
