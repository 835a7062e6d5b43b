---------------------------- MODULE AuditArchive ----------------------------
(***************************************************************************)
(* Compaction of the audit ledger (kernel/governance/audit/archive): old   *)
(* rows leave SQLite for chunk files, and a marker row names the chunks in *)
(* the transaction that deletes the rows. A run that is cut off leaves     *)
(* chunks no marker names; the next run in that archive adopts them or     *)
(* sets them aside.                                                        *)
(*                                                                         *)
(* Meanwhile rows land in the ledger, late ones through the spool. The     *)
(* lock is one per archive directory, and `evarness audit compact` takes   *)
(* any directory (--archive-root) for any database (--db), so runs in two  *)
(* archives may work on one ledger at a time. Serves says which archives   *)
(* are used for which ledgers.                                             *)
(*                                                                         *)
(* A copy of a row is [row, gen]: the record_id, and which insertion of it *)
(* this is (the hot id). A run writes one chunk per month.                 *)
(***************************************************************************)
EXTENDS Naturals, FiniteSets

CONSTANTS
    Row,        \* the records, by record_id
    Db,         \* the ledgers' databases
    DbOf,       \* the ledger a row is written to
    Root,       \* the archive directories
    Serves,     \* the pairs of an archive and a ledger that compact is run with
    Run,        \* the compaction ids that can be minted
    MonthOf,    \* the month of each row's timestamp
    MaxGen,     \* bound: how often a record is inserted
    None        \* no run

ASSUME ArchiveAssumption ==
    /\ MonthOf \in [Row -> Nat]
    /\ MaxGen \in Nat \ {0}
    /\ DbOf \in [Row -> Db]
    /\ Serves \subseteq Root \X Db
    /\ None \notin Run \union Root \union Db

VARIABLES
    hot,        \* the insertion of a record that is in SQLite, 0 for none
    gen,        \* how often a record was inserted
    spool,      \* the records on lines of the spool
    replayed,   \* the ledgers whose drain has committed and not yet dropped the lines
    old,        \* the records older than the cutoff
    at,         \* what the compaction in an archive is doing
    db,         \* the ledger it compacts
    cur,        \* the run it is busy with
    rootOf,     \* the archive a run writes to
    holds,      \* the copies a chunk holds
    file,       \* what has become of a chunk's file
    named       \* the chunks the markers of a ledger name

rowVars     == <<hot, gen, spool, replayed, old>>
chunkVars   == <<rootOf, holds, file, named>>
archiveVars == <<rowVars, at, db, cur, chunkVars>>

Month == {MonthOf[r] : r \in Row}
Chunk == Run \X Month
Copy  == [row : Row, gen : Nat]

(* The copies of rows of S that are in the SQLite file of b. *)
HotCopies(b, S) == {[row |-> r, gen |-> hot[r]] : r \in {q \in S : DbOf[q] = b /\ hot[q] # 0}}

ChunksOf(run) == {run} \X Month

-----------------------------------------------------------------------------
(* The ledger. *)

(* A row is written, or the database refuses it and the spool keeps it. *)
RowLands(r) ==
    /\ gen[r] = 0 /\ r \notin spool
    /\ hot' = [hot EXCEPT ![r] = 1]
    /\ gen' = [gen EXCEPT ![r] = 1]
    /\ UNCHANGED <<spool, replayed, old, at, db, cur, chunkVars>>

RowSpooled(r) ==
    /\ gen[r] = 0 /\ r \notin spool
    /\ DbOf[r] \notin replayed
    /\ spool' = spool \union {r}
    /\ UNCHANGED <<hot, gen, replayed, old, at, db, cur, chunkVars>>

(* The row's timestamp falls behind the cutoff. *)
RowAges(r) ==
    /\ gen[r] > 0 \/ r \in spool
    /\ r \notin old
    /\ old' = old \union {r}
    /\ UNCHANGED <<hot, gen, spool, replayed, at, db, cur, chunkVars>>

(* The spool's lines are inserted, OR IGNORE: a record that is hot is left  *)
(* alone, one that is not (archived meanwhile, too) is inserted anew.       *)
DrainCommits(b) ==
    LET Lines   == {r \in spool : DbOf[r] = b}
        Inserts == {r \in Lines : hot[r] = 0}
    IN  /\ Lines # {} /\ b \notin replayed
        /\ \A r \in Inserts : gen[r] < MaxGen
        /\ hot' = [r \in Row |-> IF r \in Inserts THEN gen[r] + 1 ELSE hot[r]]
        /\ gen' = [r \in Row |-> IF r \in Inserts THEN gen[r] + 1 ELSE gen[r]]
        /\ replayed' = replayed \union {b}
        /\ UNCHANGED <<spool, old, at, db, cur, chunkVars>>

(* The file is removed; or the process dies first and the lines stay. *)
DrainEnds(b, dies) ==
    /\ b \in replayed
    /\ replayed' = replayed \ {b}
    /\ spool' = IF dies THEN spool ELSE {r \in spool : DbOf[r] # b}
    /\ UNCHANGED <<hot, gen, old, at, db, cur, chunkVars>>

-----------------------------------------------------------------------------
(* AuditCompactor.compact, in the archive d and under its lock. *)

Moves(d, where) ==
    /\ at' = [at EXCEPT ![d] = where]
    /\ UNCHANGED <<db, cur>>

Begin(d, b) ==
    /\ at[d] = "idle"
    /\ <<d, b>> \in Serves
    /\ at' = [at EXCEPT ![d] = "recovering"]
    /\ db' = [db EXCEPT ![d] = b]
    /\ UNCHANGED <<rowVars, cur, chunkVars>>

(* The archive's files that no marker of the ledger accounts for. *)
Unfinished(d) == {c \in Chunk : rootOf[c[1]] = d /\ file[c] = "tmp"}
AllChunks(d) == {c \in Chunk : rootOf[c[1]] = d /\ file[c] = "published"}
Orphans(d) == {c \in Chunk : rootOf[c[1]] = d /\ file[c] = "published" /\ c \notin named[db[d]]}

(* _quarantine: moved to .orphans, where no reader looks; never deleted. *)
Quarantine(c) == file' = [file EXCEPT ![c] = "aside"]

(* A chunk that never finished publishing, or that cannot be read. *)
QuarantineBroken(d, c) ==
    /\ at[d] = "recovering"
    /\ c \in Unfinished(d) \/ (Unfinished(d) = {} /\ c \in Orphans(d))
    /\ Quarantine(c)
    /\ UNCHANGED <<rowVars, at, db, cur, rootOf, holds, named>>

(* write_compaction finds every copy still there, by id and record_id. *)
StillHot(b, S) == \A k \in S : DbOf[k.row] = b /\ hot[k.row] = k.gen

Archived(C) == UNION {holds[c] : c \in C}

MarkUnchecked(b, C) ==
    /\ hot' = [r \in Row |-> IF \E k \in Archived(C) : k.row = r THEN 0 ELSE hot[r]]
    /\ named' = [named EXCEPT ![b] = @ \union C]
    /\ UNCHANGED <<gen, spool, replayed, old, rootOf, holds, file>>

MarkByTime(b, C) ==
    /\ StillHot(b, Archived(C))
    /\ hot' = [r \in Row |-> IF r \in old /\ DbOf[r] = b THEN 0 ELSE hot[r]]
    /\ named' = [named EXCEPT ![b] = @ \union C]
    /\ UNCHANGED <<gen, spool, replayed, old, rootOf, holds, file>>

(* write_compaction: one transaction of b writes the marker, checks the     *)
(* copies of the chunks C and deletes exactly those.                        *)
WriteCompaction(b, C) ==
    /\ StillHot(b, Archived(C))
    /\ hot' = [r \in Row |-> IF \E k \in Archived(C) : k.row = r THEN 0 ELSE hot[r]]
    /\ named' = [named EXCEPT ![b] = @ \union C]
    /\ UNCHANGED <<gen, spool, replayed, old, rootOf, holds, file>>

(* _recover_orphans: the chunks of one interrupted run get their marker. *)
Adopt(d, run) ==
    /\ at[d] = "recovering"
    /\ Unfinished(d) = {}
    /\ ChunksOf(run) \intersect Orphans(d) # {}
    /\ WriteCompaction(db[d], ChunksOf(run) \intersect Orphans(d))
    /\ UNCHANGED <<at, db, cur>>

(* Some row is not hot any more: the chunks are not trusted. *)
Disown(d, run) ==
    /\ at[d] = "recovering"
    /\ Unfinished(d) = {}
    /\ ChunksOf(run) \intersect Orphans(d) # {}
    /\ ~StillHot(db[d], Archived(ChunksOf(run) \intersect Orphans(d)))
    /\ at' = [at EXCEPT ![d] = "disowning"]
    /\ cur' = [cur EXCEPT ![d] = run]
    /\ UNCHANGED <<rowVars, db, chunkVars>>

(* One chunk after the other is moved away; the recovery then goes on. *)
QuarantineDisowned(d, c) ==
    /\ at[d] \in {"disowning", "conflict"}
    /\ c \in ChunksOf(cur[d]) \intersect Orphans(d)
    /\ Quarantine(c)
    /\ at' = [at EXCEPT ![d] = IF ChunksOf(cur[d]) \intersect Orphans(d) # {c} THEN @
                               ELSE IF @ = "disowning" THEN "recovering" ELSE "idle"]
    /\ UNCHANGED <<rowVars, db, cur, rootOf, holds, named>>

(* _select_rows_older_than, once nothing is left to recover: no old row, or *)
(* a new run with one chunk per month to write.                             *)
Select(d, run) ==
    /\ at[d] = "recovering"
    /\ Unfinished(d) = {} /\ Orphans(d) = {}
    /\ rootOf[run] = None
    /\ HotCopies(db[d], old) # {}
    /\ at' = [at EXCEPT ![d] = "writing"]
    /\ cur' = [cur EXCEPT ![d] = run]
    /\ rootOf' = [rootOf EXCEPT ![run] = d]
    /\ holds' = [c \in Chunk |-> IF c[1] = run
                                 THEN {k \in HotCopies(db[d], old) : MonthOf[k.row] = c[2]}
                                 ELSE holds[c]]
    /\ UNCHANGED <<rowVars, db, file, named>>

NothingToSelect(d) ==
    /\ at[d] = "recovering"
    /\ Unfinished(d) = {} /\ Orphans(d) = {}
    /\ HotCopies(db[d], old) = {}
    /\ Moves(d, "idle")
    /\ UNCHANGED <<rowVars, chunkVars>>

(* write_chunks, month by month: under a temporary name, then published. *)
Unwritten(d) == {c \in ChunksOf(cur[d]) : holds[c] # {} /\ file[c] = "none"}

WriteChunk(d, c) ==
    /\ at[d] = "writing"
    /\ Unfinished(d) = {}
    /\ c \in Unwritten(d) /\ \A b \in Unwritten(d) : c[2] <= b[2]
    /\ file' = [file EXCEPT ![c] = "tmp"]
    /\ UNCHANGED <<rowVars, at, db, cur, rootOf, holds, named>>

PublishChunk(d, c) ==
    /\ at[d] = "writing"
    /\ c \in Unfinished(d)
    /\ file' = [file EXCEPT ![c] = "published"]
    /\ Moves(d, IF Unwritten(d) = {} THEN "marking" ELSE "writing")
    /\ UNCHANGED <<rowVars, rootOf, holds, named>>

Mark(d) ==
    /\ at[d] = "marking"
    /\ WriteCompaction(db[d], ChunksOf(cur[d]) \intersect Orphans(d))
    /\ Moves(d, "idle")

(* A row changed since it was selected: rolled back, the chunks set aside. *)
Conflict(d) ==
    /\ at[d] = "marking"
    /\ ~StillHot(db[d], Archived(ChunksOf(cur[d]) \intersect Orphans(d)))
    /\ Moves(d, "conflict")
    /\ UNCHANGED <<rowVars, chunkVars>>

(* The process dies, or the database or the disk refuses and compact        *)
(* raises: the lock is released and the files stay where they are.          *)
CompactionEnds(d) ==
    /\ at[d] # "idle"
    /\ Moves(d, "idle")
    /\ UNCHANGED <<rowVars, chunkVars>>

-----------------------------------------------------------------------------
ArchiveInit ==
    /\ hot = [r \in Row |-> 0]
    /\ gen = [r \in Row |-> 0]
    /\ spool = {} /\ replayed = {} /\ old = {}
    /\ at = [d \in Root |-> "idle"]
    /\ db = [d \in Root |-> None]
    /\ cur = [d \in Root |-> None]
    /\ rootOf = [run \in Run |-> None]
    /\ holds = [c \in Chunk |-> {}]
    /\ file = [c \in Chunk |-> "none"]
    /\ named = [b \in Db |-> {}]

LedgerStep ==
    \/ \E r \in Row : RowLands(r) \/ RowSpooled(r) \/ RowAges(r)
    \/ \E b \in Db : DrainCommits(b) \/ \E dies \in BOOLEAN : DrainEnds(b, dies)

CompactStep(d) ==
    \/ \E b \in Db : Begin(d, b)
    \/ \E c \in Chunk : QuarantineBroken(d, c) \/ QuarantineDisowned(d, c)
    \/ \E run \in Run : Adopt(d, run) \/ Disown(d, run) \/ Select(d, run)
    \/ NothingToSelect(d)
    \/ \E c \in Chunk : WriteChunk(d, c) \/ PublishChunk(d, c)
    \/ Mark(d)
    \/ Conflict(d)
    \/ CompactionEnds(d)

ArchiveNext == LedgerStep \/ \E d \in Root : CompactStep(d)

ArchiveSpec == ArchiveInit /\ [][ArchiveNext]_archiveVars

-----------------------------------------------------------------------------
(* Properties. *)

(* No archive is used for two ledgers. *)
OneLedgerPerArchive ==
    \A d \in Root : \A a, b \in Db : <<d, a>> \in Serves /\ <<d, b>> \in Serves => a = b

(* Every variable holds a value of its type. *)
ArchiveTypeOK ==
    /\ hot \in [Row -> 0 .. MaxGen]
    /\ gen \in [Row -> 0 .. MaxGen]
    /\ spool \in SUBSET Row
    /\ replayed \in SUBSET Db
    /\ old \in SUBSET Row
    /\ at \in [Root -> {"idle", "recovering", "disowning", "writing", "marking", "conflict"}]
    /\ db \in [Root -> Db \union {None}]
    /\ cur \in [Root -> Run \union {None}]
    /\ rootOf \in [Run -> Root \union {None}]
    /\ holds \in [Chunk -> SUBSET Copy]
    /\ file \in [Chunk -> {"none", "tmp", "published", "aside"}]
    /\ named \in [Db -> SUBSET Chunk]

(* No audit row is ever lost: what a ledger has once taken is in SQLite, or *)
(* in a published chunk a marker of that ledger names, at every moment and  *)
(* after any number of runs cut off at any point.                           *)
NothingLost ==
    \A r \in Row : gen[r] > 0 =>
        \/ hot[r] # 0
        \/ \E c \in named[DbOf[r]] : file[c] = "published" /\ \E k \in holds[c] : k.row = r

(* What a marker names stays in place: no recovery takes a named chunk for  *)
(* an orphan, and none is named before it is published.                     *)
MarkerIsTrue == \A b \in Db : \A c \in named[b] : file[c] = "published"

(* An insertion of a row is in one place: it is not hot and archived at     *)
(* once, and no two named chunks hold it, so a record is in as many places, *)
(* and counted by as many markers, as it was inserted times at most. A      *)
(* record that a repeated replay inserts anew after it was archived is one  *)
(* of two insertions, archived and counted twice in the end: the limit      *)
(* docs/architecture/call-identity-and-audit-replay.md names.               *)
CopyInOnePlace ==
    \A b \in Db : \A c \in named[b] : \A k \in holds[c] :
        /\ hot[k.row] # k.gen
        /\ \A a \in Db : \A e \in named[a] : k \in holds[e] => e = c /\ a = b
=============================================================================
