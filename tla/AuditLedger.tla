---------------------------- MODULE AuditLedger ----------------------------
(***************************************************************************)
(* The audit ledger's write path (kernel/governance/audit: log.py,         *)
(* sequence.py, spool.py) and the kernel's use of its answer.              *)
(*                                                                         *)
(* A writer is one process; it numbers its rows before it writes them. A   *)
(* row goes to the database or, when that fails, to the spool file, which  *)
(* the next write that lands replays. A number whose write failed is       *)
(* remembered, and the next transaction of the writer records it in a gap  *)
(* row.                                                                    *)
(*                                                                         *)
(* An event is one call of record, record_many or write_compaction, in a   *)
(* thread of its own: SQLite's write lock, the lock of the spool file and  *)
(* the registry's lock (one step per critical section) are all that orders *)
(* them. A batch of record_many is one row here: its rows share nothing    *)
(* but the commit. writer.close is an ordinary record before the end of    *)
(* its process; a forked child is a writer of its own.                     *)
(***************************************************************************)
EXTENDS Integers, FiniteSets

CONSTANTS
    Event,      \* calls that write
    Writer,     \* processes
    MaxGaps,    \* MAX_GAPS_PER_WRITE: the gap rows one transaction carries
    MaxTorn,    \* bound: how often the disk takes only part of a spool line
    None        \* nobody

ASSUME LedgerAssumption ==
    /\ MaxGaps \in Nat /\ MaxTorn \in Nat
    /\ None \notin Event \union Writer
    /\ Event \intersect Writer = {}

VARIABLES
    pc,         \* where each call stands
    mode,       \* which call it is
    by,         \* the process it runs in
    num,        \* its row's number, 0 before it has one
    gaps,       \* the gap rows of its transaction
    next,       \* Writer.next_seq
    started,    \* Writer.started
    missing,    \* Writer.missing
    alive,      \* the process runs
    lock,       \* who holds SQLite's write lock
    flock,      \* who holds the spool's lock, to replay it
    applied,    \* that replay has committed
    saved,      \* the events whose row is in the database
    gapRows,    \* the gap rows in the database
    startRows,  \* the writers whose writer.start row is in the database
    spool,      \* the events on well-formed lines of the spool
    torn,       \* the events on malformed lines of the spool
    rejected,   \* the events on malformed lines that were set aside
    tail,       \* the spool's last line has no end
    tears,      \* how many lines were cut short
    done        \* the events whose effect happened

opVars     == <<pc, mode, by, num, gaps>>
seqVars    == <<next, started, missing, alive>>
dbVars     == <<saved, gapRows, startRows>>
spoolVars  == <<spool, torn, rejected, tail, tears>>
drainVars  == <<flock, applied>>
ledgerVars == <<opVars, seqVars, lock, drainVars, dbVars, spoolVars, done>>

Mode     == {"record", "batch", "marker"}
Open     == {"numbered", "inserted", "opened", "unsaved", "ready", "rowless"}  \* before the commit
Failing  == {"failed", "appended"}
After    == {"committed", "flushing"}
Returned == {"kept", "waiting", "lost", "undone"}
Pc       == {"new", "cut"} \union Open \union Failing \union After \union Returned
InFlight == Open \union Failing \union After

(* (writer_id, writer_seq) is taken: the database has a unique index on it. *)
InDb(w, n) ==
    \/ \E e \in saved : by[e] = w /\ num[e] = n
    \/ \E g \in gapRows : g.writer = w /\ g.seq = n

Spans(G) == UNION {g.span : g \in G}
Seqs(G)  == {g.seq : g \in G}

-----------------------------------------------------------------------------
(* sequence.py: the writer's counters. *)

(* allocate, before the write is attempted. *)
Allocate(e, w) ==
    /\ num' = [num EXCEPT ![e] = next[w]]
    /\ next' = [next EXCEPT ![w] = @ + 1]

(* The lowest numbers of the runs of consecutive numbers in S. *)
RunStarts(S) == {n \in S : n - 1 \notin S}

(* The numbers of the first MaxGaps runs. *)
FirstRuns(S) == {n \in S : Cardinality({k \in RunStarts(S) : k <= n}) <= MaxGaps}

(* claim_gaps, and the gap rows for the runs it takes, numbered from first. *)
GapRowsFor(w, S, first) ==
    {[writer |-> w,
      seq    |-> first + Cardinality({k \in RunStarts(S) : k < n}),
      span   |-> {m \in S : n <= m /\ n .. m \subseteq S}] : n \in RunStarts(FirstRuns(S))}

Owed(w) == GapRowsFor(w, missing[w], next[w])

-----------------------------------------------------------------------------
(* log.py: record, _write and write_compaction. *)

Moves(e, where) == pc' = [pc EXCEPT ![e] = where]

Idle(e, w) == pc[e] = "new" /\ alive[w]

(* record, or the marker of write_compaction: a number comes first. *)
Record(e, w, m) ==
    /\ Idle(e, w)
    /\ m \in {"record", "marker"}
    /\ by' = [by EXCEPT ![e] = w]
    /\ mode' = [mode EXCEPT ![e] = m]
    /\ Allocate(e, w)
    /\ Moves(e, "numbered")
    /\ UNCHANGED <<gaps, started, missing, alive, lock, drainVars, dbVars, spoolVars, done>>

(* INSERT: takes the write lock; a number that is there already raises. *)
Insert(e) ==
    /\ pc[e] = "numbered"
    /\ lock = None
    /\ ~InDb(by[e], num[e])
    /\ lock' = e
    /\ Moves(e, "inserted")
    /\ UNCHANGED <<mode, by, num, gaps, seqVars, drainVars, dbVars, spoolVars, done>>

PreambleKeepsMissing(e) ==
    /\ pc[e] = "inserted"
    /\ gaps' = [gaps EXCEPT ![e] = Owed(by[e])]
    /\ next' = [next EXCEPT ![by[e]] = @ + Cardinality(Owed(by[e]))]
    /\ Moves(e, "ready")
    /\ UNCHANGED <<mode, by, num, missing, started, alive, lock, drainVars, dbVars, spoolVars, done>>

(* _write_preamble: the missing numbers leave the writer, each run becomes  *)
(* a gap row with a number of its own.                                      *)
WritePreamble(e) ==
    /\ pc[e] = "inserted"
    /\ gaps' = [gaps EXCEPT ![e] = Owed(by[e])]
    /\ missing' = [missing EXCEPT ![by[e]] = @ \ Spans(Owed(by[e]))]
    /\ next' = [next EXCEPT ![by[e]] = @ + Cardinality(Owed(by[e]))]
    /\ Moves(e, "ready")
    /\ UNCHANGED <<mode, by, num, started, alive, lock, drainVars, dbVars, spoolVars, done>>

(* A gap row cannot be inserted: the claimed numbers are handed back, those *)
(* taken for gap rows so far (up to last) are missing too.                  *)
PreambleFails(e, last) ==
    /\ pc[e] = "inserted"
    /\ last \in Seqs(Owed(by[e]))
    /\ missing' = [missing EXCEPT ![by[e]] =
                      @ \union next[by[e]] .. last \union
                      (IF mode[e] = "marker" THEN {num[e]} ELSE {})]
    /\ next' = [next EXCEPT ![by[e]] = last + 1]
    /\ lock' = None
    /\ Moves(e, IF mode[e] = "marker" THEN "lost" ELSE "failed")
    /\ UNCHANGED <<mode, by, num, gaps, started, alive, drainVars, dbVars, spoolVars, done>>

NumberReturned(e) ==
    /\ pc[e] = "inserted" /\ mode[e] = "record"
    /\ next' = [next EXCEPT ![by[e]] = num[e]]
    /\ lock' = None
    /\ Moves(e, "failed")
    /\ UNCHANGED <<mode, by, num, gaps, started, missing, alive, drainVars, dbVars, spoolVars, done>>

(* The write fails before the commit, or the commit does: rolled back, the  *)
(* claimed gaps restored, the gap rows' own numbers missing. A marker is    *)
(* not spooled.                                                             *)
WriteFails(e) ==
    /\ pc[e] \in {"numbered", "inserted", "ready"}
    /\ mode[e] # "batch"
    /\ missing' = [missing EXCEPT ![by[e]] =
                      @ \union Spans(gaps[e]) \union Seqs(gaps[e]) \union
                      (IF mode[e] = "marker" THEN {num[e]} ELSE {})]
    /\ gaps' = [gaps EXCEPT ![e] = {}]
    /\ lock' = IF lock = e THEN None ELSE lock
    /\ Moves(e, IF mode[e] = "marker" THEN "lost" ELSE "failed")
    /\ UNCHANGED <<mode, by, num, next, started, alive, drainVars, dbVars, spoolVars, done>>

(* The commit: the row (a batch's only if it went in), the gap rows and, by *)
(* a writer not yet known to have started, its start row (OR IGNORE).       *)
Commit(e) ==
    /\ pc[e] \in {"ready", "rowless"}
    /\ saved' = IF pc[e] = "ready" THEN saved \union {e} ELSE saved
    /\ gapRows' = gapRows \union gaps[e]
    /\ startRows' = IF started[by[e]] THEN startRows ELSE startRows \union {by[e]}
    /\ gaps' = [gaps EXCEPT ![e] = {}]
    /\ lock' = None
    /\ Moves(e, "committed")
    /\ UNCHANGED <<mode, by, num, seqVars, drainVars, spoolVars, done>>

(* mark_started, once the transaction is in the database. *)
MarkStarted(e) ==
    /\ pc[e] = "committed"
    /\ started' = [started EXCEPT ![by[e]] = TRUE]
    /\ Moves(e, "flushing")
    /\ UNCHANGED <<mode, by, num, gaps, next, missing, alive, lock, drainVars, dbVars, spoolVars, done>>

-----------------------------------------------------------------------------
(* record_many: the preamble first, then the row in a savepoint. *)

(* The batch opens its transaction with the preamble. It holds the write    *)
(* lock from here on even when there was nothing to write: an insert that   *)
(* waits with its number in hand is the one of Record.                      *)
BatchOpen(e, w) ==
    /\ Idle(e, w)
    /\ lock = None
    /\ lock' = e
    /\ by' = [by EXCEPT ![e] = w]
    /\ mode' = [mode EXCEPT ![e] = "batch"]
    /\ gaps' = [gaps EXCEPT ![e] = Owed(w)]
    /\ missing' = [missing EXCEPT ![w] = @ \ Spans(Owed(w))]
    /\ next' = [next EXCEPT ![w] = @ + Cardinality(Owed(w))]
    /\ Moves(e, "opened")
    /\ UNCHANGED <<num, started, alive, drainVars, dbVars, spoolVars, done>>

(* It cannot: claimed gaps are handed back, the numbers taken for gap rows  *)
(* so far (up to last; none, when the database stays busy) are missing.     *)
BatchRefused(e, w, last) ==
    /\ Idle(e, w)
    /\ last = next[w] - 1 \/ (lock = None /\ last \in Seqs(Owed(w)))
    /\ by' = [by EXCEPT ![e] = w]
    /\ mode' = [mode EXCEPT ![e] = "batch"]
    /\ missing' = [missing EXCEPT ![w] = @ \union next[w] .. last]
    /\ next' = [next EXCEPT ![w] = last + 1]
    /\ Moves(e, "undone")
    /\ UNCHANGED <<num, gaps, started, alive, lock, drainVars, dbVars, spoolVars, done>>

(* The row is numbered and inserted, or SQLite refuses it and the savepoint *)
(* is rolled back.                                                          *)
BatchRow(e, taken) ==
    /\ pc[e] = "opened"
    /\ taken => ~InDb(by[e], next[by[e]])
    /\ Allocate(e, by[e])
    /\ Moves(e, IF taken THEN "ready" ELSE "unsaved")
    /\ UNCHANGED <<mode, by, gaps, started, missing, alive, lock, drainVars, dbVars, spoolVars, done>>

(* The commit fails: gaps restored, the gap rows' own numbers missing. The  *)
(* number of a row that had gone in is not noted anywhere.                  *)
BatchFails(e) ==
    /\ mode[e] = "batch"
    /\ pc[e] \in {"opened", "ready", "rowless"}
    /\ missing' = [missing EXCEPT ![by[e]] = @ \union Spans(gaps[e]) \union Seqs(gaps[e])]
    /\ gaps' = [gaps EXCEPT ![e] = {}]
    /\ lock' = None
    /\ Moves(e, "undone")
    /\ UNCHANGED <<mode, by, num, next, started, alive, drainVars, dbVars, spoolVars, done>>

-----------------------------------------------------------------------------
(* spool.py: a row the database would not take. *)

(* A line after a torn one continues it: the two are one malformed line. *)
AddLine(e, whole) ==
    /\ spool' = IF whole /\ ~tail THEN spool \union {e} ELSE spool
    /\ torn' = IF whole /\ ~tail THEN torn ELSE torn \union {e}
    /\ tail' = ~whole
    /\ tears' = IF whole THEN tears ELSE tears + 1
    /\ UNCHANGED rejected

AppendUnlocked(e, whole) ==
    /\ pc[e] \in {"failed", "unsaved"}
    /\ whole \/ tears < MaxTorn
    /\ AddLine(e, whole)
    /\ Moves(e, IF pc[e] = "failed" THEN "appended" ELSE "rowless")
    /\ missing' = [missing EXCEPT ![by[e]] =
                      IF pc[e] = "failed" THEN @ ELSE @ \union {num[e]}]
    /\ UNCHANGED <<mode, by, num, gaps, next, started, alive, lock, drainVars, dbVars, done>>

(* append, under the spool's lock: write and fsync. How much of the line    *)
(* os.write took is not looked at, so a full disk may keep part of it. A    *)
(* batch notes the number with it (it holds the write lock anyway).         *)
SpoolAppend(e, whole) ==
    /\ pc[e] \in {"failed", "unsaved"}
    /\ flock = None
    /\ whole \/ tears < MaxTorn
    /\ AddLine(e, whole)
    /\ Moves(e, IF pc[e] = "failed" THEN "appended" ELSE "rowless")
    /\ missing' = [missing EXCEPT ![by[e]] =
                      IF pc[e] = "failed" THEN @ ELSE @ \union {num[e]}]
    /\ UNCHANGED <<mode, by, num, gaps, next, started, alive, lock, drainVars, dbVars, done>>

(* note_failure of a spooled row: record returns 0. *)
SpoolNoted(e) ==
    /\ pc[e] = "appended"
    /\ missing' = [missing EXCEPT ![by[e]] = @ \union {num[e]}]
    /\ Moves(e, "waiting")
    /\ UNCHANGED <<mode, by, num, gaps, next, started, alive, lock, drainVars, dbVars, spoolVars, done>>

SpoolFailsUnnoted(e) ==
    /\ pc[e] \in {"failed", "unsaved"}
    /\ flock = None
    /\ Moves(e, IF pc[e] = "failed" THEN "lost" ELSE "rowless")
    /\ UNCHANGED <<mode, by, num, gaps, seqVars, lock, drainVars, dbVars, spoolVars, done>>

(* The spool cannot take the row either: noted as lost, and raised (a batch *)
(* goes on).                                                                *)
SpoolFails(e) ==
    /\ pc[e] \in {"failed", "unsaved"}
    /\ flock = None
    /\ missing' = [missing EXCEPT ![by[e]] = @ \union {num[e]}]
    /\ Moves(e, IF pc[e] = "failed" THEN "lost" ELSE "rowless")
    /\ UNCHANGED <<mode, by, num, gaps, next, started, alive, lock, drainVars, dbVars, spoolVars, done>>

-----------------------------------------------------------------------------
(* drain_spool, after a write that landed (x is the event) and whenever an  *)
(* AuditLog is constructed (x is the process).                              *)

SpoolExists == spool \union torn # {}

MayDrain(x) ==
    \/ x \in Event /\ pc[x] = "flushing"
    \/ x \in Writer /\ alive[x]

(* Malformed lines go to the .rejected file, whatever becomes of the rest. *)
SetAside(kept) ==
    /\ rejected' = rejected \union torn
    /\ spool' = kept /\ torn' = {} /\ tail' = FALSE

(* The write whose trailing drain is over returns its row id. *)
DrainOver(x) ==
    /\ flock' = None
    /\ applied' = FALSE
    /\ pc' = IF x \in Event THEN [pc EXCEPT ![x] = "kept"] ELSE pc

(* No spool file: nothing to do. *)
NoSpool(e) ==
    /\ pc[e] = "flushing"
    /\ ~SpoolExists
    /\ Moves(e, "kept")
    /\ UNCHANGED <<mode, by, num, gaps, seqVars, lock, drainVars, dbVars, spoolVars, done>>

(* The spool's lock is taken and the file read; nobody appends meanwhile. *)
DrainStart(x) ==
    /\ MayDrain(x)
    /\ SpoolExists
    /\ flock = None
    /\ flock' = x
    /\ UNCHANGED <<opVars, seqVars, lock, applied, dbVars, spoolVars, done>>

(* _apply_spooled: INSERT OR IGNORE of every line, and the commit. *)
DrainApply(x) ==
    /\ flock = x /\ ~applied
    /\ spool = {} \/ lock = None
    /\ saved' = saved \union {e \in spool : ~InDb(by[e], num[e])}
    /\ applied' = TRUE
    /\ UNCHANGED <<opVars, seqVars, lock, flock, gapRows, startRows, spoolVars, done>>

DrainWaits(x) ==
    /\ flock = x /\ ~applied
    /\ spool # {} /\ lock = None
    /\ SetAside(spool)
    /\ DrainOver(x)
    /\ UNCHANGED <<mode, by, num, gaps, seqVars, lock, dbVars, tears, done>>

(* The database is busy past the timeout, or refuses the rows: the          *)
(* well-formed lines stay, the malformed ones are set aside.                *)
DrainFails(x) ==
    /\ flock = x /\ ~applied
    /\ spool # {}
    /\ SetAside(spool)
    /\ DrainOver(x)
    /\ UNCHANGED <<mode, by, num, gaps, seqVars, lock, dbVars, tears, done>>

(* The file is removed. *)
DrainDrop(x) ==
    /\ flock = x /\ applied
    /\ SetAside({})
    /\ DrainOver(x)
    /\ UNCHANGED <<mode, by, num, gaps, seqVars, lock, dbVars, tears, done>>

(* The file cannot be removed: the rows will be replayed again. *)
DrainDropFails(x) ==
    /\ flock = x /\ applied
    /\ rejected' = rejected \union torn
    /\ DrainOver(x)
    /\ UNCHANGED <<mode, by, num, gaps, seqVars, lock, dbVars, spool, torn, tail, tears, done>>

-----------------------------------------------------------------------------
(* The kernel and the process. *)

(* GovernanceKernel.fire at a point that guards an effect: the allow stands *)
(* when the row went to the database or the spool, so the caller acts; it   *)
(* is withdrawn when the row was lost.                                      *)
Act(e) ==
    /\ mode[e] = "record"
    /\ pc[e] \in {"kept", "waiting"}
    /\ e \notin done
    /\ done' = done \union {e}
    /\ UNCHANGED <<opVars, seqVars, lock, drainVars, dbVars, spoolVars>>

(* The process ends or is killed: its transaction is rolled back, its locks *)
(* and its memory are gone.                                                 *)
ProcessEnds(w) ==
    /\ alive[w]
    /\ alive' = [alive EXCEPT ![w] = FALSE]
    /\ pc' = [e \in Event |-> IF by[e] = w /\ pc[e] \in InFlight THEN "cut" ELSE pc[e]]
    /\ lock' = IF lock # None /\ by[lock] = w THEN None ELSE lock
    /\ LET ours == flock = w \/ (flock \in Event /\ by[flock] = w)
       IN  /\ flock' = IF ours THEN None ELSE flock
           /\ applied' = IF ours THEN FALSE ELSE applied
    /\ UNCHANGED <<mode, by, num, gaps, next, started, missing, dbVars, spoolVars, done>>

-----------------------------------------------------------------------------
LedgerInit ==
    /\ pc = [e \in Event |-> "new"]
    /\ mode = [e \in Event |-> "record"]
    /\ by = [e \in Event |-> None]
    /\ num = [e \in Event |-> 0]
    /\ gaps = [e \in Event |-> {}]
    /\ next = [w \in Writer |-> 1]
    /\ started = [w \in Writer |-> FALSE]
    /\ missing = [w \in Writer |-> {}]
    /\ alive = [w \in Writer |-> TRUE]
    /\ lock = None
    /\ flock = None /\ applied = FALSE
    /\ saved = {} /\ gapRows = {} /\ startRows = {}
    /\ spool = {} /\ torn = {} /\ rejected = {} /\ tail = FALSE /\ tears = 0
    /\ done = {}

WriteStep(e) ==
    \/ Insert(e)
    \/ WritePreamble(e)
    \/ pc[e] = "inserted" /\ \E last \in Seqs(Owed(by[e])) : PreambleFails(e, last)
    \/ WriteFails(e)
    \/ Commit(e)
    \/ MarkStarted(e)
    \/ \E taken \in BOOLEAN : BatchRow(e, taken)
    \/ BatchFails(e)
    \/ \E whole \in BOOLEAN : SpoolAppend(e, whole)
    \/ SpoolNoted(e)
    \/ SpoolFails(e)
    \/ NoSpool(e)

DrainStep(x) ==
    \/ DrainStart(x)
    \/ DrainApply(x)
    \/ DrainFails(x)
    \/ DrainDrop(x)
    \/ DrainDropFails(x)

LedgerNext ==
    \/ \E e \in Event, w \in Writer :
          \/ \E m \in Mode : Record(e, w, m)
          \/ BatchOpen(e, w)
          \/ \E last \in {next[w] - 1} \union Seqs(Owed(w)) : BatchRefused(e, w, last)
    \/ \E e \in Event : WriteStep(e)
    \/ \E x \in Event \union Writer : DrainStep(x)
    \/ \E e \in Event : Act(e)
    \/ \E w \in Writer : ProcessEnds(w)

LedgerSpec == LedgerInit /\ [][LedgerNext]_ledgerVars

(* A call that has begun goes on. SQLite's busy timeout ends every wait for *)
(* the write lock; the wait for the spool's lock is flock's, which has no   *)
(* timeout and serves its waiters in order, hence the strong fairness.      *)
LedgerFairness ==
    /\ \A e \in Event : SF_ledgerVars(WriteStep(e) \/ DrainStep(e))
    /\ \A w \in Writer : WF_ledgerVars(flock = w /\ DrainStep(w))

FairLedgerSpec == LedgerSpec /\ LedgerFairness

-----------------------------------------------------------------------------
(* Properties. *)

GapRow == [writer : Writer, seq : Nat, span : SUBSET Nat]

(* Every variable holds a value of its type. *)
LedgerTypeOK ==
    /\ pc \in [Event -> Pc]
    /\ mode \in [Event -> Mode]
    /\ by \in [Event -> Writer \union {None}]
    /\ num \in [Event -> Nat]
    /\ gaps \in [Event -> SUBSET GapRow]
    /\ next \in [Writer -> Nat]
    /\ started \in [Writer -> BOOLEAN]
    /\ missing \in [Writer -> SUBSET Nat]
    /\ alive \in [Writer -> BOOLEAN]
    /\ lock \in Event \union {None}
    /\ flock \in Event \union Writer \union {None}
    /\ applied \in BOOLEAN
    /\ saved \in SUBSET Event
    /\ gapRows \in SUBSET GapRow
    /\ startRows \in SUBSET Writer
    /\ spool \in SUBSET Event
    /\ torn \in SUBSET Event
    /\ rejected \in SUBSET Event
    /\ tail \in BOOLEAN
    /\ tears \in 0 .. MaxTorn
    /\ done \in SUBSET Event

(* A row that is not in the database has left a hole: nothing else of its   *)
(* writer ever takes its number, so a reader of the sequence sees the loss. *)
LossLeavesHole ==
    \A e \in Event : num[e] # 0 /\ e \notin saved => ~InDb(by[e], num[e])

(* What an event's number is still held by: its call, as its own number, as *)
(* a claimed gap or as the number of a gap row.                             *)
HeldBy(e, n) == n = num[e] \/ n \in Spans(gaps[e]) \/ n \in Seqs(gaps[e])

(* The number n of the writer w is in the database, named by a gap row,     *)
(* missing and so owed to the next transaction, or in the hands of a call   *)
(* under way.                                                               *)
Accounted(w, n) ==
    \/ InDb(w, n)
    \/ n \in missing[w]
    \/ \E g \in gapRows : g.writer = w /\ n \in g.span
    \/ \E e \in Event : by[e] = w /\ pc[e] \in InFlight /\ HeldBy(e, n)

(* A process that runs never forgets a failed write: every number it gave   *)
(* out is accounted for. The exception is a row of a batch whose commit     *)
(* failed.                                                                  *)
NumbersAccounted ==
    \A w \in Writer : alive[w] =>
        \A n \in 1 .. next[w] - 1 :
            Accounted(w, n) \/ \E e \in Event : by[e] = w /\ pc[e] = "undone" /\ n = num[e]

(* A gap row tells the truth, once: no other gap row names its numbers, and *)
(* a number it names was given to no gap row that is there and to no row    *)
(* that is there, unless the spool brought it in later.                     *)
GapsAreTrue ==
    \A g \in gapRows :
        /\ \A h \in gapRows : g.writer = h.writer =>
               /\ h.seq \notin g.span
               /\ g # h => g.span \intersect h.span = {}
        /\ \A e \in saved : by[e] = g.writer /\ num[e] \in g.span =>
               pc[e] = "waiting" \/ mode[e] = "batch"

(* A writer is taken for started only when its writer.start row is there. *)
StartIsRecorded == \A w \in Writer : started[w] => w \in startRows

(* An effect the kernel let happen has its row for good: in the database,   *)
(* waiting in the spool, or set aside as malformed; no crash, failed replay *)
(* or racing append makes it vanish.                                        *)
EffectIsKept == done \subseteq saved \union spool \union torn \union rejected

(* A call that writes returns, in the end, whoever holds which lock. *)
WriteReturns ==
    \A e \in Event : pc[e] \in InFlight ~> pc[e] \in Returned \union {"cut"}
=============================================================================
