------------------------- MODULE AuditArchiveProofs -------------------------
(***************************************************************************)
(* Compaction loses no row, for any number of ledgers, rows, archives,     *)
(* runs and crashes, as long as no archive is used for two ledgers.        *)
(***************************************************************************)
EXTENDS AuditArchive, TLAPS

(* A chunk's copies were in SQLite once, and are of the chunk's month. *)
CopiesAreReal ==
    /\ \A r \in Row : hot[r] <= gen[r]
    /\ \A c \in Chunk : \A k \in holds[c] :
          k.gen # 0 /\ k.gen <= gen[k.row] /\ MonthOf[k.row] = c[2]

(* A file is written only for a run that has its archive, so a new run does *)
(* not overwrite what a chunk holds.                                        *)
RunsAreOwned ==
    /\ \A c \in Chunk : file[c] # "none" => rootOf[c[1]] # None
    /\ \A d \in Root : at[d] \in {"disowning", "writing", "marking", "conflict"} =>
          cur[d] \in Run /\ rootOf[cur[d]] = d

(* A compaction is of a ledger its archive serves, and so is a marker. *)
LedgersAreServed ==
    /\ \A d \in Root : at[d] # "idle" => db[d] \in Db /\ <<d, db[d]>> \in Serves
    /\ \A b \in Db : \A c \in named[b] : <<rootOf[c[1]], b>> \in Serves

(* The inductive invariant. *)
ArchiveInv ==
    /\ OneLedgerPerArchive
    /\ ArchiveTypeOK
    /\ LedgersAreServed
    /\ MarkerIsTrue
    /\ CopiesAreReal
    /\ RunsAreOwned
    /\ NothingLost
    /\ CopyInOnePlace

(* A chunk is a run and a month. *)
LEMMA ChunkParts ==
    ASSUME NEW c \in Chunk PROVE c[1] \in Run /\ c[2] \in Month /\ c = <<c[1], c[2]>>
  BY DEF Chunk

(* It holds at first. *)
LEMMA InitInv == OneLedgerPerArchive /\ ArchiveInit => ArchiveInv
  <1> SUFFICES ASSUME OneLedgerPerArchive, ArchiveInit PROVE ArchiveInv
    OBVIOUS
  <1>1. ArchiveTypeOK
    <2>1. db \in [Root -> Db \union {None}] /\ replayed \in SUBSET Db /\ named \in [Db -> SUBSET Chunk]
      BY DEF ArchiveInit
    <2>2. hot \in [Row -> 0 .. MaxGen] /\ gen \in [Row -> 0 .. MaxGen]
      BY ArchiveAssumption DEF ArchiveInit
    <2>3. /\ spool \in SUBSET Row /\ old \in SUBSET Row
          /\ cur \in [Root -> Run \union {None}] /\ rootOf \in [Run -> Root \union {None}]
      BY DEF ArchiveInit
    <2>4. /\ at \in [Root -> {"idle", "recovering", "disowning", "writing", "marking", "conflict"}]
          /\ file \in [Chunk -> {"none", "tmp", "published", "aside"}]
      BY DEF ArchiveInit
    <2>5. holds \in [Chunk -> SUBSET Copy]
      BY DEF ArchiveInit
    <2> QED
      BY <2>1, <2>2, <2>3, <2>4, <2>5 DEF ArchiveTypeOK
  <1>2. RunsAreOwned
    BY DEF ArchiveInit, RunsAreOwned
  <1>3. CopiesAreReal
    BY DEF ArchiveInit, CopiesAreReal
  <1>4. MarkerIsTrue /\ CopyInOnePlace /\ NothingLost /\ LedgersAreServed
    BY DEF ArchiveInit, MarkerIsTrue, CopyInOnePlace, NothingLost, LedgersAreServed
  <1> QED
    BY <1>1, <1>2, <1>3, <1>4 DEF ArchiveInv

-----------------------------------------------------------------------------
(* Where a compaction may stand after a step. *)
AtOK ==
    /\ at \in [Root -> {"idle", "recovering", "disowning", "writing", "marking", "conflict"}]
    /\ db \in [Root -> Db \union {None}]
    /\ cur \in [Root -> Run \union {None}]
    /\ \A d \in Root : at[d] # "idle" => db[d] \in Db /\ <<d, db[d]>> \in Serves
    /\ \A d \in Root : at[d] \in {"disowning", "writing", "marking", "conflict"} =>
          cur[d] \in Run /\ rootOf[cur[d]] = d

(* A step that only moves a compaction along keeps the invariant. *)
LEMMA WalkKeeps ==
    ASSUME ArchiveInv, UNCHANGED <<rowVars, chunkVars>>, AtOK' PROVE ArchiveInv'
  <1>1. ArchiveTypeOK'
    BY DEF ArchiveInv, ArchiveTypeOK, rowVars, chunkVars, AtOK
  <1>2. RunsAreOwned' /\ LedgersAreServed'
    BY DEF ArchiveInv, RunsAreOwned, LedgersAreServed, chunkVars, AtOK
  <1>3. (OneLedgerPerArchive /\ MarkerIsTrue /\ CopiesAreReal /\ NothingLost /\ CopyInOnePlace)'
    BY DEF ArchiveInv, OneLedgerPerArchive, MarkerIsTrue, CopiesAreReal, NothingLost, CopyInOnePlace, rowVars, chunkVars
  <1> QED
    BY <1>1, <1>2, <1>3 DEF ArchiveInv

(* So does writing, publishing or moving a file that no marker names. *)
LEMMA FileStepKeeps ==
    ASSUME ArchiveInv, UNCHANGED <<rowVars, rootOf, holds, named>>, AtOK',
           NEW c \in Chunk, \A b \in Db : c \notin named[b], rootOf[c[1]] # None,
           NEW x \in {"tmp", "published", "aside"}, file' = [file EXCEPT ![c] = x]
    PROVE  ArchiveInv'
  <1>1. ArchiveTypeOK'
    BY DEF ArchiveInv, ArchiveTypeOK, rowVars, AtOK
  <1>2. RunsAreOwned' /\ LedgersAreServed'
    BY DEF ArchiveInv, ArchiveTypeOK, RunsAreOwned, LedgersAreServed, AtOK
  <1>3. \A b \in Db : \A e \in named[b] : file'[e] = file[e]
    BY DEF ArchiveInv, ArchiveTypeOK
  <1>4. MarkerIsTrue' /\ NothingLost'
    BY <1>3, ArchiveAssumption DEF ArchiveInv, MarkerIsTrue, NothingLost, rowVars
  <1>5. CopiesAreReal' /\ CopyInOnePlace' /\ OneLedgerPerArchive'
    BY DEF ArchiveInv, CopiesAreReal, CopyInOnePlace, OneLedgerPerArchive, rowVars
  <1> QED
    BY <1>1, <1>2, <1>4, <1>5 DEF ArchiveInv

(* The transaction of write_compaction keeps it: what it deletes is in the  *)
(* chunks it names, and those hold different copies, being of one run.      *)
LEMMA WriteCompactionKeeps ==
    ASSUME ArchiveInv, AtOK', NEW b \in Db, NEW run \in Run, <<rootOf[run], b>> \in Serves,
           NEW C, C \subseteq ChunksOf(run),
           \A c \in C : file[c] = "published", WriteCompaction(b, C)
    PROVE  ArchiveInv'
  <1> USE DEF WriteCompaction
  <1>0. C \subseteq Chunk /\ \A c \in C : c[1] = run
    BY DEF ChunksOf, Chunk
  <1>t. /\ OneLedgerPerArchive /\ ArchiveTypeOK /\ LedgersAreServed /\ MarkerIsTrue /\ CopiesAreReal
        /\ RunsAreOwned /\ NothingLost /\ CopyInOnePlace
    BY DEF ArchiveInv
  <1>n. /\ named'[b] = named[b] \union C
        /\ \A a \in Db : a # b => named'[a] = named[a]
        /\ \A a \in Db : named'[a] \in SUBSET Chunk
    BY <1>t, <1>0 DEF ArchiveTypeOK
  <1>1. ArchiveTypeOK'
    <2>1. hot' \in [Row -> 0 .. MaxGen]
      BY <1>t, ArchiveAssumption DEF ArchiveTypeOK
    <2>2. named' \in [Db -> SUBSET Chunk]
      BY <1>t, <1>0 DEF ArchiveTypeOK
    <2> QED
      BY <2>1, <2>2, <1>t DEF ArchiveTypeOK, AtOK
  <1>2. RunsAreOwned' /\ OneLedgerPerArchive'
    BY <1>t DEF RunsAreOwned, OneLedgerPerArchive, AtOK
  <1>s. LedgersAreServed'
    BY <1>t, <1>n, <1>0 DEF LedgersAreServed, AtOK
  <1>3. MarkerIsTrue'
    BY <1>t, <1>n DEF MarkerIsTrue
  <1>4. CopiesAreReal'
    <2>1. \A r \in Row : hot'[r] <= gen'[r]
      BY <1>t DEF CopiesAreReal, ArchiveTypeOK
    <2> QED
      BY <2>1, <1>t DEF CopiesAreReal
  <1>h. \A c \in C : holds[c] \subseteq Archived(C)
    BY DEF Archived
  <1>5. NothingLost'
    <2> SUFFICES ASSUME NEW r \in Row, gen[r] > 0, hot'[r] = 0
                 PROVE  \E c \in named'[DbOf[r]] : file[c] = "published" /\ \E k \in holds[c] : k.row = r
      BY DEF NothingLost
    <2>1. CASE \E k \in Archived(C) : k.row = r
      <3>1. PICK c \in C : \E k \in holds[c] : k.row = r
        BY <2>1 DEF Archived
      <3>2. DbOf[r] = b
        BY <3>1, <1>h DEF StillHot
      <3> QED
        BY <3>1, <3>2, <1>n
    <2>2. CASE ~ \E k \in Archived(C) : k.row = r
      <3>1. hot[r] = 0 /\ DbOf[r] \in Db
        BY <2>2, ArchiveAssumption
      <3> QED
        BY <3>1, <1>t, <1>n DEF NothingLost
    <2> QED
      BY <2>1, <2>2
  <1>6. CopyInOnePlace'
    <2> SUFFICES ASSUME NEW a \in Db, NEW c \in named'[a], NEW k \in holds[c]
                 PROVE  /\ hot'[k.row] # k.gen
                        /\ \A z \in Db : \A e \in named'[z] : k \in holds[e] => e = c /\ z = a
      BY DEF CopyInOnePlace
    <2>1. c \in Chunk /\ k \in Copy /\ k.row \in Row
      BY <1>n, <1>t DEF ArchiveTypeOK, Copy
    <2>2. k.gen # 0 /\ MonthOf[k.row] = c[2]
      BY <1>t, <2>1 DEF CopiesAreReal
    <2>4. CASE k \in Archived(C)
      <3>1. hot'[k.row] = 0 /\ hot[k.row] = k.gen
        BY <2>1, <2>4 DEF StillHot
      <3>2. \A z \in Db : \A e \in named[z] : k \notin holds[e]
        BY <3>1, <1>t DEF CopyInOnePlace
      <3>3. \A z \in Db : \A e \in named'[z] : k \in holds[e] => z = b /\ e \in C
        BY <3>2, <1>n
      <3>4. c \in C /\ a = b
        BY <3>3
      <3>5. ASSUME NEW e \in C, k \in holds[e] PROVE e = c
        <4>1. e \in Chunk /\ MonthOf[k.row] = e[2]
          BY <3>5, <1>0, <1>t DEF CopiesAreReal
        <4>2. e[1] = run /\ c[1] = run
          BY <3>4, <3>5, <1>0
        <4> QED
          BY <4>1, <4>2, <2>1, <2>2, ChunkParts
      <3> QED
        BY <3>1, <3>3, <3>4, <3>5, <2>2
    <2>5. CASE k \notin Archived(C)
      <3>1. c \in named[a] /\ \A z \in Db : \A e \in named'[z] : k \in holds[e] => e \in named[z]
        BY <1>h, <2>5, <1>n
      <3>2. hot[k.row] # k.gen /\ \A z \in Db : \A e \in named[z] : k \in holds[e] => e = c /\ z = a
        BY <3>1, <1>t DEF CopyInOnePlace
      <3>3. hot'[k.row] \in {0, hot[k.row]}
        BY <2>1
      <3> QED
        BY <3>1, <3>2, <3>3, <2>2
    <2> QED
      BY <2>4, <2>5
  <1> QED
    BY <1>1, <1>2, <1>s, <1>3, <1>4, <1>5, <1>6 DEF ArchiveInv

-----------------------------------------------------------------------------
(* A row that comes in is a new copy, which no chunk holds. *)
LEMMA RowStepKeeps ==
    ASSUME ArchiveInv, UNCHANGED <<at, db, cur, chunkVars>>, old' \in SUBSET Row,
           spool' \in SUBSET Row, replayed' \in SUBSET Db,
           hot' \in [Row -> 0 .. MaxGen], gen' \in [Row -> 0 .. MaxGen],
           \A r \in Row : \/ hot'[r] = hot[r] /\ gen'[r] = gen[r]
                          \/ hot'[r] = gen[r] + 1 /\ gen'[r] = gen[r] + 1
    PROVE  ArchiveInv'
  <1>t. /\ OneLedgerPerArchive /\ ArchiveTypeOK /\ LedgersAreServed /\ MarkerIsTrue /\ CopiesAreReal
        /\ RunsAreOwned /\ NothingLost /\ CopyInOnePlace
    BY DEF ArchiveInv
  <1>0. \A r \in Row : hot[r] \in Nat /\ gen[r] \in Nat
    BY <1>t, ArchiveAssumption DEF ArchiveTypeOK
  <1>1. ArchiveTypeOK'
    BY <1>t DEF ArchiveTypeOK, chunkVars
  <1>2. (OneLedgerPerArchive /\ RunsAreOwned /\ LedgersAreServed /\ MarkerIsTrue)'
    BY <1>t DEF OneLedgerPerArchive, RunsAreOwned, LedgersAreServed, MarkerIsTrue, chunkVars
  <1>3. CopiesAreReal'
    <2>1. \A r \in Row : hot'[r] <= gen'[r] /\ gen[r] <= gen'[r]
      BY <1>0, <1>t DEF CopiesAreReal
    <2>2. ASSUME NEW c \in Chunk, NEW k \in holds[c]
          PROVE  k.gen # 0 /\ k.gen <= gen'[k.row] /\ MonthOf[k.row] = c[2]
      <3>1. k.row \in Row /\ k.gen \in Nat
        BY <1>t DEF ArchiveTypeOK, Copy
      <3>2. gen'[k.row] \in Nat
        BY <1>0, <3>1
      <3> QED
        BY <1>t, <1>0, <2>1, <3>1, <3>2 DEF CopiesAreReal
    <2> QED
      BY <2>1, <2>2 DEF CopiesAreReal, chunkVars
  <1>4. NothingLost'
    BY <1>t, <1>0 DEF NothingLost, chunkVars
  <1>5. CopyInOnePlace'
    <2>1. ASSUME NEW b \in Db, NEW c \in named[b], NEW k \in holds[c] PROVE hot'[k.row] # k.gen
      <3>1. c \in Chunk /\ k.row \in Row /\ k.gen \in Nat
        BY <1>t DEF ArchiveTypeOK, Copy
      <3>2. k.gen <= gen[k.row] /\ hot[k.row] # k.gen
        BY <3>1, <1>t DEF CopiesAreReal, CopyInOnePlace
      <3> QED
        BY <3>1, <3>2, <1>0
    <2> QED
      BY <2>1, <1>t DEF CopyInOnePlace, chunkVars
  <1> QED
    BY <1>1, <1>2, <1>3, <1>4, <1>5 DEF ArchiveInv

(* Every step of the ledger is such a step. *)
LEMMA LedgerStepKeeps == ArchiveInv /\ LedgerStep => ArchiveInv'
  <1> SUFFICES ASSUME ArchiveInv, LedgerStep PROVE ArchiveInv'
    OBVIOUS
  <1>t. ArchiveTypeOK
    BY DEF ArchiveInv
  <1>0. \A r \in Row : hot[r] \in Nat /\ gen[r] \in Nat
    BY <1>t, ArchiveAssumption DEF ArchiveTypeOK
  <1>1. ASSUME NEW r \in Row, RowLands(r) PROVE ArchiveInv'
    <2> USE <1>1 DEF RowLands
    <2>1. hot' \in [Row -> 0 .. MaxGen] /\ gen' \in [Row -> 0 .. MaxGen]
      BY <1>t, ArchiveAssumption DEF ArchiveTypeOK
    <2>2. \A q \in Row : \/ hot'[q] = hot[q] /\ gen'[q] = gen[q]
                         \/ hot'[q] = gen[q] + 1 /\ gen'[q] = gen[q] + 1
      BY <1>t DEF ArchiveTypeOK
    <2> QED
      BY <2>1, <2>2, <1>t, RowStepKeeps DEF ArchiveTypeOK
  <1>2. ASSUME NEW r \in Row, RowSpooled(r) \/ RowAges(r) PROVE ArchiveInv'
    <2> USE <1>2 DEF RowSpooled, RowAges
    <2> QED
      BY <1>t, RowStepKeeps DEF ArchiveTypeOK
  <1>3. ASSUME NEW b \in Db, DrainCommits(b) PROVE ArchiveInv'
    <2> USE <1>3 DEF DrainCommits
    <2>1. hot' \in [Row -> 0 .. MaxGen] /\ gen' \in [Row -> 0 .. MaxGen]
      BY <1>t, <1>0, ArchiveAssumption DEF ArchiveTypeOK
    <2>2. \A q \in Row : \/ hot'[q] = hot[q] /\ gen'[q] = gen[q]
                         \/ hot'[q] = gen[q] + 1 /\ gen'[q] = gen[q] + 1
      BY <1>t DEF ArchiveTypeOK
    <2> QED
      BY <2>1, <2>2, <1>t, RowStepKeeps DEF ArchiveTypeOK
  <1>4. ASSUME NEW b \in Db, NEW dies \in BOOLEAN, DrainEnds(b, dies) PROVE ArchiveInv'
    <2> USE <1>4 DEF DrainEnds
    <2> QED
      BY <1>t, RowStepKeeps DEF ArchiveTypeOK
  <1> QED
    BY <1>1, <1>2, <1>3, <1>4 DEF LedgerStep

-----------------------------------------------------------------------------
(* A new run takes an id nobody wrote a file for, so it overwrites nothing. *)
LEMMA SelectKeeps ==
    ASSUME ArchiveInv, NEW d \in Root, NEW run \in Run, Select(d, run) PROVE ArchiveInv'
  <1> USE DEF Select
  <1>t. /\ OneLedgerPerArchive /\ ArchiveTypeOK /\ LedgersAreServed /\ MarkerIsTrue /\ CopiesAreReal
        /\ RunsAreOwned /\ NothingLost /\ CopyInOnePlace
    BY DEF ArchiveInv
  <1>0. \A r \in Row : hot[r] \in Nat /\ gen[r] \in Nat
    BY <1>t, ArchiveAssumption DEF ArchiveTypeOK
  <1>h. \A k \in HotCopies(db[d], old) : k \in Copy /\ k.gen # 0 /\ k.gen <= gen[k.row]
    BY <1>t, <1>0 DEF HotCopies, Copy, CopiesAreReal, ArchiveTypeOK
  <1>k. \A b \in Db : \A c \in named[b] : /\ c \in Chunk /\ holds'[c] = holds[c]
                                          /\ rootOf'[c[1]] = rootOf[c[1]]
    <2> TAKE b \in Db
    <2> TAKE c \in named[b]
    <2>1. c \in Chunk /\ file[c] = "published" /\ c[1] # run
      BY <1>t DEF ArchiveTypeOK, MarkerIsTrue, RunsAreOwned
    <2> QED
      BY <2>1, <1>t, ChunkParts DEF ArchiveTypeOK
  <1>1. ArchiveTypeOK'
    <2>1. holds' \in [Chunk -> SUBSET Copy]
      BY <1>t, <1>h DEF ArchiveTypeOK
    <2>2. (at \in [Root -> {"idle", "recovering", "disowning", "writing", "marking", "conflict"}])'
      BY <1>t DEF ArchiveTypeOK
    <2>3. (cur \in [Root -> Run \union {None}] /\ rootOf \in [Run -> Root \union {None}])'
      BY <1>t DEF ArchiveTypeOK
    <2> QED
      BY <2>1, <2>2, <2>3, <1>t DEF ArchiveTypeOK, rowVars
  <1>2. RunsAreOwned'
    <2>1. ASSUME NEW c \in Chunk, file[c] # "none" PROVE rootOf'[c[1]] # None
      BY <2>1, <1>t, ChunkParts, ArchiveAssumption DEF RunsAreOwned, ArchiveTypeOK
    <2>2. ASSUME NEW e \in Root, at'[e] \in {"disowning", "writing", "marking", "conflict"}
          PROVE  cur'[e] \in Run /\ rootOf'[cur'[e]] = e
      <3>1. CASE e = d
        BY <3>1, <1>t DEF ArchiveTypeOK
      <3>2. CASE e # d
        <4>1. cur'[e] = cur[e] /\ cur[e] \in Run /\ rootOf[cur[e]] = e
          BY <2>2, <3>2, <1>t DEF ArchiveTypeOK, RunsAreOwned
        <4>2. cur[e] # run
          BY <4>1, ArchiveAssumption
        <4> QED
          BY <4>1, <4>2, <1>t DEF ArchiveTypeOK
      <3> QED
        BY <3>1, <3>2
    <2> QED
      BY <2>1, <2>2 DEF RunsAreOwned
  <1>3. CopiesAreReal'
    <2>1. \A r \in Row : hot'[r] <= gen'[r]
      BY <1>t DEF CopiesAreReal, rowVars
    <2>2. ASSUME NEW c \in Chunk, NEW k \in holds'[c]
          PROVE  k.gen # 0 /\ k.gen <= gen[k.row] /\ MonthOf[k.row] = c[2]
      BY <1>t, <1>h DEF CopiesAreReal
    <2> QED
      BY <2>1, <2>2 DEF CopiesAreReal, rowVars
  <1>4. MarkerIsTrue' /\ OneLedgerPerArchive'
    BY <1>t DEF MarkerIsTrue, OneLedgerPerArchive
  <1>s. LedgersAreServed'
    BY <1>t, <1>k DEF LedgersAreServed, ArchiveTypeOK
  <1>v. UNCHANGED <<hot, gen, file, named>>
    BY DEF rowVars
  <1> HIDE DEF Select
  <1>5. NothingLost'
    BY <1>k, <1>t, <1>v, ArchiveAssumption DEF NothingLost
  <1>6. CopyInOnePlace'
    <2>1. \A b \in Db : \A c \in named'[b] : holds'[c] = holds[c] /\ c \in named[b]
      BY <1>k, <1>v
    <2> QED
      BY <2>1, <1>t, <1>v DEF CopyInOnePlace
  <1> QED
    BY <1>1, <1>2, <1>3, <1>4, <1>s, <1>5, <1>6 DEF ArchiveInv

-----------------------------------------------------------------------------
(* Every step of a compaction keeps the invariant. *)
LEMMA CompactStepKeeps ==
    ASSUME ArchiveInv, NEW d \in Root, CompactStep(d) PROVE ArchiveInv'
  <1>t. OneLedgerPerArchive /\ ArchiveTypeOK /\ LedgersAreServed /\ MarkerIsTrue /\ RunsAreOwned
    BY DEF ArchiveInv
  <1>w. ASSUME Moves(d, "idle"), UNCHANGED rootOf PROVE AtOK'
    BY <1>w, <1>t DEF Moves, AtOK, ArchiveTypeOK, RunsAreOwned, LedgersAreServed
  <1>u. ASSUME UNCHANGED <<at, db, cur, rootOf>> PROVE AtOK'
    BY <1>u, <1>t DEF AtOK, ArchiveTypeOK, RunsAreOwned, LedgersAreServed
  <1>o. ASSUME at[d] # "idle", NEW c \in Orphans(d)
        PROVE  /\ c \in Chunk /\ rootOf[c[1]] = d /\ rootOf[c[1]] # None
               /\ \A b \in Db : c \notin named[b]
    <2>1. c \in Chunk /\ rootOf[c[1]] = d /\ c \notin named[db[d]]
      BY DEF Orphans
    <2>2. ASSUME NEW b \in Db, c \in named[b] PROVE b = db[d]
      BY <1>o, <2>1, <2>2, <1>t DEF LedgersAreServed, OneLedgerPerArchive
    <2> QED
      BY <2>1, <2>2, ArchiveAssumption
  <1>f. \A c \in Unfinished(d) : /\ c \in Chunk /\ rootOf[c[1]] = d /\ rootOf[c[1]] # None
                                 /\ \A b \in Db : c \notin named[b]
    BY <1>t, ArchiveAssumption DEF Unfinished, MarkerIsTrue
  <1>1. ASSUME NEW b \in Db, Begin(d, b) PROVE ArchiveInv'
    <2>1. AtOK'
      BY <1>1, <1>t DEF Begin, AtOK, ArchiveTypeOK, RunsAreOwned, LedgersAreServed, chunkVars
    <2> QED
      BY <1>1, <2>1, WalkKeeps DEF Begin
  <1>2. ASSUME NEW c \in Chunk, QuarantineBroken(d, c) PROVE ArchiveInv'
    BY <1>2, <1>u, <1>o, <1>f, FileStepKeeps DEF QuarantineBroken, Quarantine
  <1>3. ASSUME NEW c \in Chunk, QuarantineDisowned(d, c) PROVE ArchiveInv'
    <2>1. AtOK'
      BY <1>3, <1>t DEF QuarantineDisowned, AtOK, ArchiveTypeOK, RunsAreOwned, LedgersAreServed
    <2> QED
      BY <1>3, <2>1, <1>o, FileStepKeeps DEF QuarantineDisowned, Quarantine
  <1>4. ASSUME NEW run \in Run, Adopt(d, run) PROVE ArchiveInv'
    <2>1. AtOK'
      BY <1>4, <1>u DEF Adopt, WriteCompaction
    <2>2. PICK c \in ChunksOf(run) : c \in Orphans(d)
      BY <1>4 DEF Adopt
    <2>3. rootOf[run] = d
      BY <1>4, <2>2, <1>o DEF ChunksOf, Adopt
    <2>4. db[d] \in Db /\ <<d, db[d]>> \in Serves
      BY <1>4, <1>t DEF Adopt, LedgersAreServed
    <2> QED
      BY <1>4, <2>1, <2>3, <2>4, WriteCompactionKeeps DEF Adopt, Orphans
  <1>5. ASSUME NEW run \in Run, Disown(d, run) PROVE ArchiveInv'
    <2>1. PICK c \in ChunksOf(run) : c \in Orphans(d)
      BY <1>5 DEF Disown
    <2>2. rootOf[run] = d
      BY <1>5, <2>1, <1>o DEF ChunksOf, Disown
    <2>3. AtOK'
      BY <1>5, <2>2, <1>t DEF Disown, AtOK, ArchiveTypeOK, RunsAreOwned, LedgersAreServed, chunkVars
    <2> QED
      BY <1>5, <2>3, WalkKeeps DEF Disown
  <1>6. ASSUME NEW run \in Run, Select(d, run) PROVE ArchiveInv'
    BY <1>6, SelectKeeps
  <1>7. CASE NothingToSelect(d)
    BY <1>7, <1>w, WalkKeeps DEF NothingToSelect, chunkVars
  <1>8. ASSUME NEW c \in Chunk, WriteChunk(d, c) PROVE ArchiveInv'
    <2>1. rootOf[cur[d]] = d /\ c[1] = cur[d] /\ file[c] = "none"
      BY <1>8, <1>t DEF WriteChunk, Unwritten, ChunksOf, RunsAreOwned
    <2>2. (\A b \in Db : c \notin named[b]) /\ rootOf[c[1]] # None
      BY <2>1, <1>t, ArchiveAssumption DEF MarkerIsTrue
    <2> QED
      BY <1>8, <2>2, <1>u, FileStepKeeps DEF WriteChunk
  <1>9. ASSUME NEW c \in Chunk, PublishChunk(d, c) PROVE ArchiveInv'
    <2>1. AtOK'
      BY <1>9, <1>t DEF PublishChunk, Moves, AtOK, ArchiveTypeOK, RunsAreOwned, LedgersAreServed
    <2> QED
      BY <1>9, <2>1, <1>f, FileStepKeeps DEF PublishChunk
  <1>10. CASE Mark(d)
    <2>1. AtOK'
      BY <1>10, <1>w DEF Mark, WriteCompaction
    <2>2. cur[d] \in Run /\ rootOf[cur[d]] = d /\ db[d] \in Db /\ <<d, db[d]>> \in Serves
      BY <1>10, <1>t DEF Mark, RunsAreOwned, LedgersAreServed
    <2> QED
      BY <1>10, <2>1, <2>2, WriteCompactionKeeps DEF Mark, Orphans
  <1>11. CASE Conflict(d)
    <2>1. AtOK'
      BY <1>11, <1>t DEF Conflict, Moves, AtOK, ArchiveTypeOK, RunsAreOwned, LedgersAreServed, chunkVars
    <2> QED
      BY <1>11, <2>1, WalkKeeps DEF Conflict
  <1>12. CASE CompactionEnds(d)
    BY <1>12, <1>w, WalkKeeps DEF CompactionEnds, chunkVars
  <1> QED
    BY <1>1, <1>2, <1>3, <1>4, <1>5, <1>6, <1>7, <1>8, <1>9, <1>10, <1>11, <1>12 DEF CompactStep

(* Every step keeps it. *)
LEMMA StepInv == ArchiveInv /\ [ArchiveNext]_archiveVars => ArchiveInv'
  <1> SUFFICES ASSUME ArchiveInv, [ArchiveNext]_archiveVars PROVE ArchiveInv'
    OBVIOUS
  <1>1. CASE LedgerStep
    BY <1>1, LedgerStepKeeps
  <1>2. ASSUME NEW d \in Root, CompactStep(d) PROVE ArchiveInv'
    BY <1>2, CompactStepKeeps
  <1>3. CASE UNCHANGED archiveVars
    <2>1. UNCHANGED <<rowVars, chunkVars>> /\ UNCHANGED <<at, db, cur, rootOf>>
      BY <1>3 DEF archiveVars, chunkVars
    <2>2. AtOK'
      BY <2>1 DEF AtOK, ArchiveInv, ArchiveTypeOK, RunsAreOwned, LedgersAreServed
    <2> QED
      BY <2>1, <2>2, WalkKeeps
  <1> QED
    BY <1>1, <1>2, <1>3 DEF ArchiveNext

(* So it holds for good. *)
LEMMA ArchiveInvHolds == OneLedgerPerArchive /\ ArchiveSpec => []ArchiveInv
  BY InitInv, StepInv, PTL DEF ArchiveSpec

-----------------------------------------------------------------------------
(* The variables of compaction keep their types; in particular a chunk file *)
(* is written, published or set aside, and never deleted.                   *)
THEOREM ArchiveTypeCorrect == OneLedgerPerArchive /\ ArchiveSpec => []ArchiveTypeOK
  <1>1. ArchiveInv => ArchiveTypeOK
    BY DEF ArchiveInv
  <1> QED
    BY <1>1, ArchiveInvHolds, PTL

(* AuditCompactor.compact loses no row, wherever a run is cut off and       *)
(* however many archives compact the ledger while late rows land.           *)
THEOREM CompactionLosesNothing == OneLedgerPerArchive /\ ArchiveSpec => []NothingLost
  <1>1. ArchiveInv => NothingLost
    BY DEF ArchiveInv
  <1> QED
    BY <1>1, ArchiveInvHolds, PTL

(* No recovery sets aside a chunk a marker names.                           *)
THEOREM MarkersAreTrue == OneLedgerPerArchive /\ ArchiveSpec => []MarkerIsTrue
  <1>1. ArchiveInv => MarkerIsTrue
    BY DEF ArchiveInv
  <1> QED
    BY <1>1, ArchiveInvHolds, PTL

(* write_compaction never leaves an insertion of a row hot that it archived *)
(* and archives none twice; a record inserted again counts as another.      *)
THEOREM CopiesInOnePlace == OneLedgerPerArchive /\ ArchiveSpec => []CopyInOnePlace
  <1>1. ArchiveInv => CopyInOnePlace
    BY DEF ArchiveInv
  <1> QED
    BY <1>1, ArchiveInvHolds, PTL
=============================================================================
