------------------------- MODULE AuditLedgerProofs -------------------------
(***************************************************************************)
(* An effect the kernel let happen keeps its audit row, a row that is not  *)
(* in the database leaves a hole, every number a live writer gave out is   *)
(* accounted for, and gap rows are true, for any number of calls,          *)
(* processes, failures and crashes. LedgerInv is about the rows; GapInv,   *)
(* on top of it, about where each number is.                               *)
(***************************************************************************)
EXTENDS AuditLedger, FiniteSetTheorems, TLAPS

(* The numbers a writer has anything to do with are numbers it gave out. *)
NumbersIssued ==
    /\ \A w \in Writer : next[w] >= 1 /\ \A n \in missing[w] : n < next[w]
    /\ \A e \in Event :
          /\ pc[e] # "new" => by[e] \in Writer
          /\ pc[e] = "new" => num[e] = 0 /\ gaps[e] = {}
          /\ num[e] # 0 => num[e] < next[by[e]]
          /\ \A g \in gaps[e] : /\ g.writer = by[e]
                                /\ g.seq < next[by[e]]
                                /\ \A n \in g.span : n < next[by[e]]
    /\ \A g \in gapRows : g.seq < next[g.writer]

(* No number is given to two rows. *)
NumbersUnique ==
    \A e \in Event : num[e] # 0 =>
        /\ \A f \in Event : by[f] = by[e] /\ num[f] = num[e] => f = e
        /\ \A f \in Event : by[f] = by[e] => \A g \in gaps[f] : g.seq # num[e]
        /\ \A g \in gapRows : g.writer = by[e] => g.seq # num[e]

(* A row that does not go in is a batch's. *)
BatchOnly ==
    \A e \in Event : mode[e] # "batch" => pc[e] \notin {"opened", "unsaved", "rowless", "undone"}

(* A call that has a row has a number for it, and so has a spooled row. *)
RowsAreNumbered ==
    /\ \A e \in Event : pc[e] \notin {"new", "opened", "undone", "cut"} => num[e] # 0
    /\ \A e \in spool : num[e] # 0

(* A call that replays the spool has its own row in the database. *)
ReplayerWrote ==
    flock \in Event =>
        /\ pc[flock] # "new" /\ num[flock] # 0
        /\ mode[flock] = "record" => flock \in saved

(* What record and the spool have answered for is kept. *)
AnswersAreKept ==
    \A e \in Event :
        /\ mode[e] = "record" /\ pc[e] \in {"committed", "flushing", "kept"} => e \in saved
        /\ pc[e] \in {"appended", "waiting"} => e \in saved \union spool \union torn \union rejected

(* The file is removed only after its rows are in the database. *)
ReplayIsWhole == applied => flock # None /\ spool \subseteq saved

(* A writer whose transaction is in has its start row there. *)
CommitStarts == \A e \in Event : pc[e] = "committed" => by[e] \in startRows

(* The inductive invariant. *)
LedgerInv ==
    /\ LedgerTypeOK
    /\ NumbersIssued /\ NumbersUnique
    /\ RowsAreNumbered /\ BatchOnly /\ ReplayerWrote
    /\ AnswersAreKept /\ ReplayIsWhole /\ EffectIsKept
    /\ CommitStarts /\ StartIsRecorded

-----------------------------------------------------------------------------
(* The gap rows claim_gaps makes for the missing numbers S are numbered     *)
(* from first on, each with a number of its own and every number given to   *)
(* one; no two of them name the same missing number.                        *)
LEMMA GapRowsNumbered ==
    ASSUME NEW w \in Writer, NEW S \in SUBSET Nat, IsFiniteSet(S), NEW first \in Nat
    PROVE  /\ Cardinality(GapRowsFor(w, S, first)) \in Nat
           /\ \A g \in GapRowsFor(w, S, first) :
                 /\ g \in GapRow /\ g.writer = w /\ g.span \subseteq S
                 /\ first <= g.seq /\ g.seq < first + Cardinality(GapRowsFor(w, S, first))
           /\ \A g, h \in GapRowsFor(w, S, first) :
                 g # h => g.seq # h.seq /\ g.span \intersect h.span = {}
           /\ \A n \in first .. first + Cardinality(GapRowsFor(w, S, first)) - 1 :
                 \E g \in GapRowsFor(w, S, first) : g.seq = n
  <1> DEFINE Below(n) == {k \in RunStarts(S) : k < n}
             Upto(n)  == {k \in RunStarts(S) : k <= n}
             Span(n)  == {m \in S : n <= m /\ n .. m \subseteq S}
             Gap(n)   == [writer |-> w, seq |-> first + Cardinality(Below(n)), span |-> Span(n)]
             Heads    == RunStarts(FirstRuns(S))
             Made     == GapRowsFor(w, S, first)
  <1>1. Made = {Gap(n) : n \in Heads}
    BY DEF GapRowsFor
  <1>2. /\ IsFiniteSet(RunStarts(S)) /\ IsFiniteSet(Heads)
        /\ Heads \subseteq S /\ RunStarts(S) \subseteq S /\ FirstRuns(S) \subseteq S
    <2>1. Heads \subseteq S /\ RunStarts(S) \subseteq S /\ FirstRuns(S) \subseteq S
      BY DEF RunStarts, FirstRuns
    <2> QED
      BY <2>1, FS_Subset
  <1>3. \A n \in Nat : /\ IsFiniteSet(Below(n)) /\ Cardinality(Below(n)) \in Nat
                       /\ IsFiniteSet(Upto(n)) /\ Cardinality(Upto(n)) \in Nat
    <2> TAKE n \in Nat
    <2>1. Below(n) \in SUBSET RunStarts(S) /\ Upto(n) \in SUBSET RunStarts(S)
      OBVIOUS
    <2> QED
      BY <2>1, <1>2, FS_Subset, FS_CardinalityType
  <1>4. Cardinality(Made) = Cardinality(Heads) /\ Cardinality(Heads) \in Nat
    <2> DEFINE f == [n \in Heads |-> Gap(n)]
    <2>1. \A n \in Heads : n \in Span(n) /\ \A m \in Span(n) : n <= m
      <3> TAKE n \in Heads
      <3>1. n \in S /\ n \in Nat
        BY <1>2
      <3>2. n .. n = {n}
        BY <3>1
      <3> QED
        BY <3>1, <3>2
    <2>2. \A n, m \in Heads : Gap(n) = Gap(m) => n = m
      <3> SUFFICES ASSUME NEW n \in Heads, NEW m \in Heads, Gap(n) = Gap(m) PROVE n = m
        OBVIOUS
      <3>1. Span(n) = Span(m)
        OBVIOUS
      <3> HIDE DEF Span
      <3>2. n <= m /\ m <= n /\ n \in Nat /\ m \in Nat
        BY <3>1, <2>1, <1>2
      <3> QED
        BY <3>2
    <2>3. f \in Bijection(Heads, Made)
      <3> HIDE DEF Gap
      <3> QED
        BY <1>1, <2>2 DEF Bijection, Injection, Surjection, IsInjective
    <2>4. ExistsBijection(Heads, Made)
      BY <2>3 DEF ExistsBijection
    <2> QED
      BY <2>4, <1>2, FS_Bijection, FS_CardinalityType
  <1>5. ASSUME NEW n \in Heads PROVE Cardinality(Below(n)) < Cardinality(Heads)
    <2>1. n \in Nat /\ n \in FirstRuns(S) /\ n \in S /\ Cardinality(Upto(n)) <= MaxGaps
      BY <1>2 DEF RunStarts, FirstRuns
    <2>2. ASSUME NEW k \in Below(n) PROVE k \in Heads \ {n}
      <3>1. k \in S /\ k \in Nat /\ k - 1 \notin S /\ k < n
        BY <1>2 DEF RunStarts
      <3>2. Upto(k) \in SUBSET Upto(n)
        <4>1. \A j \in RunStarts(S) : j \in Nat
          BY <1>2
        <4>2. \A j \in Nat : j <= k => j <= n
          BY <3>1, <2>1
        <4> QED
          BY <4>1, <4>2
      <3>3. Cardinality(Upto(k)) <= Cardinality(Upto(n))
        BY <3>2, <2>1, <1>3, FS_Subset
      <3>4. Cardinality(Upto(k)) <= MaxGaps
        <4>1. Cardinality(Upto(k)) \in Nat /\ Cardinality(Upto(n)) \in Nat /\ MaxGaps \in Nat
          BY <3>1, <2>1, <1>3, LedgerAssumption
        <4> HIDE DEF Upto
        <4> QED
          BY <3>3, <2>1, <4>1
      <3>5. k \in FirstRuns(S)
        BY <3>1, <3>4 DEF FirstRuns
      <3> QED
        BY <3>1, <3>5, <2>1, <1>2 DEF RunStarts
    <2>3. Below(n) \in SUBSET (Heads \ {n})
      BY <2>2
    <2>4. IsFiniteSet(Heads \ {n}) /\ Cardinality(Heads \ {n}) = Cardinality(Heads) - 1
      BY <1>2, FS_RemoveElement
    <2>5. Cardinality(Below(n)) <= Cardinality(Heads \ {n})
      BY <2>3, <2>4, FS_Subset
    <2>6. Cardinality(Below(n)) \in Nat
      BY <2>1, <1>3
    <2> HIDE DEF Below, Heads
    <2> QED
      BY <2>4, <2>5, <2>6, <1>4
  <1>6. ASSUME NEW g \in Made
        PROVE  /\ g \in GapRow /\ g.writer = w /\ g.span \subseteq S
               /\ first <= g.seq /\ g.seq < first + Cardinality(Made)
    <2>1. PICK n \in Heads : g = Gap(n)
      BY <1>1
    <2>2. n \in Nat /\ Cardinality(Below(n)) \in Nat /\ Cardinality(Below(n)) < Cardinality(Made)
      BY <1>2, <1>3, <1>4, <1>5
    <2>3. Span(n) \subseteq S
      OBVIOUS
    <2>4. g.writer = w /\ g.seq = first + Cardinality(Below(n)) /\ g.span = Span(n)
      BY <2>1
    <2>5. first <= g.seq /\ g.seq \in Nat /\ g.seq < first + Cardinality(Made)
      <3> HIDE DEF Below, Made
      <3> QED
        BY <2>2, <2>4, <1>4
    <2>6. g \in GapRow
      <3> HIDE DEF Below, Span
      <3> QED
        BY <2>1, <2>3, <2>4, <2>5 DEF GapRow
    <2> QED
      BY <2>3, <2>4, <2>5, <2>6
  <1>7. ASSUME NEW n \in Heads PROVE n \in RunStarts(S)
    <2>1. n \in Nat /\ n \in S /\ Cardinality(Upto(n)) <= MaxGaps /\ n - 1 \notin FirstRuns(S)
      BY <1>2 DEF RunStarts, FirstRuns
    <2>2. ASSUME n - 1 \in S PROVE FALSE
      <3>1. n - 1 \in Nat
        BY <2>2
      <3>2. Upto(n - 1) \in SUBSET Upto(n)
        <4>1. \A j \in RunStarts(S) : j \in Nat
          BY <1>2
        <4>2. \A j \in Nat : j <= n - 1 => j <= n
          BY <2>1
        <4> QED
          BY <4>1, <4>2
      <3>3. Cardinality(Upto(n - 1)) <= Cardinality(Upto(n))
        BY <3>2, <2>1, <1>3, FS_Subset
      <3>4. Cardinality(Upto(n - 1)) <= MaxGaps
        <4>1. Cardinality(Upto(n - 1)) \in Nat /\ Cardinality(Upto(n)) \in Nat /\ MaxGaps \in Nat
          BY <3>1, <2>1, <1>3, LedgerAssumption
        <4> HIDE DEF Upto
        <4> QED
          BY <3>3, <2>1, <4>1
      <3> QED
        BY <2>1, <2>2, <3>4 DEF FirstRuns
    <2> QED
      BY <2>1, <2>2 DEF RunStarts
  <1>8. ASSUME NEW n \in Heads, NEW m \in Heads, n < m
        PROVE  Cardinality(Below(n)) < Cardinality(Below(m)) /\ Span(n) \intersect Span(m) = {}
    <2>1. n \in Nat /\ m \in Nat /\ n \in RunStarts(S) /\ m - 1 \notin S
      BY <1>2, <1>7 DEF RunStarts
    <2>2. n \in Below(m) /\ Below(n) \in SUBSET (Below(m) \ {n})
      <3>1. \A j \in RunStarts(S) : j \in Nat
        BY <1>2
      <3>2. \A j \in Nat : j < n => j < m /\ j # n
        BY <1>8, <2>1
      <3> QED
        BY <1>8, <2>1, <3>1, <3>2
    <2>3. IsFiniteSet(Below(m) \ {n}) /\ Cardinality(Below(m) \ {n}) = Cardinality(Below(m)) - 1
      BY <2>1, <2>2, <1>3, FS_RemoveElement
    <2>4. Cardinality(Below(n)) <= Cardinality(Below(m) \ {n})
      BY <2>2, <2>3, FS_Subset
    <2>5. Cardinality(Below(n)) \in Nat /\ Cardinality(Below(m)) \in Nat
      BY <2>1, <1>3
    <2>6. Cardinality(Below(n)) < Cardinality(Below(m))
      <3> HIDE DEF Below
      <3> QED
        BY <2>3, <2>4, <2>5
    <2>7. ASSUME NEW x \in Span(n), x \in Span(m) PROVE FALSE
      <3>1. x \in Nat /\ m <= x /\ n .. x \subseteq S
        BY <2>7
      <3>2. m - 1 \in n .. x
        BY <1>8, <2>1, <3>1
      <3> QED
        BY <2>1, <3>1, <3>2
    <2> QED
      BY <2>6, <2>7
  <1>9. ASSUME NEW g \in Made, NEW h \in Made, g # h
        PROVE  g.seq # h.seq /\ g.span \intersect h.span = {}
    <2>1. PICK n \in Heads : g = Gap(n)
      BY <1>1
    <2>2. PICK m \in Heads : h = Gap(m)
      BY <1>1
    <2>3. /\ g.seq = first + Cardinality(Below(n)) /\ g.span = Span(n)
          /\ h.seq = first + Cardinality(Below(m)) /\ h.span = Span(m)
      BY <2>1, <2>2
    <2>4. n \in Nat /\ m \in Nat /\ n # m
      BY <1>2, <1>9, <2>1, <2>2
    <2>5. Cardinality(Below(n)) \in Nat /\ Cardinality(Below(m)) \in Nat
      BY <2>4, <1>3
    <2>6. Cardinality(Below(n)) # Cardinality(Below(m)) /\ Span(n) \intersect Span(m) = {}
      <3>1. n < m \/ m < n
        BY <2>4
      <3> HIDE DEF Below, Span
      <3> QED
        BY <3>1, <1>8, <2>5
    <2> HIDE DEF Below, Span
    <2> QED
      BY <2>3, <2>5, <2>6
  <1>10. ASSUME NEW i \in first .. first + Cardinality(Made) - 1 PROVE \E g \in Made : g.seq = i
    <2> DEFINE f == [n \in Heads |-> Cardinality(Below(n))]
               T == 0 .. (Cardinality(Heads) - 1)
    <2>1. IsFiniteSet(T) /\ Cardinality(T) = Cardinality(Heads)
      <3> HIDE DEF Heads
      <3> QED
        BY <1>4, FS_Interval
    <2>2. \A n \in Heads : Cardinality(Below(n)) \in T
      <3>1. \A n \in Heads : /\ Cardinality(Below(n)) \in Nat
                              /\ Cardinality(Below(n)) < Cardinality(Heads)
        BY <1>2, <1>3, <1>5
      <3> HIDE DEF Below, Heads
      <3> QED
        BY <3>1, <1>4
    <2>3. \A n, m \in Heads : Cardinality(Below(n)) = Cardinality(Below(m)) => n = m
      <3>1. \A n, m \in Heads : n < m \/ m < n \/ n = m
        <4>1. Heads \subseteq Nat
          BY <1>2
        <4>2. \A n, m \in Nat : n < m \/ m < n \/ n = m
          OBVIOUS
        <4> HIDE DEF Heads
        <4> QED
          BY <4>1, <4>2
      <3>2. \A n \in Heads : Cardinality(Below(n)) \in Nat
        BY <1>2, <1>3
      <3> HIDE DEF Below, Heads, Span
      <3> QED
        BY <3>1, <3>2, <1>8
    <2>4. f \in Injection(Heads, T)
      <3> HIDE DEF Below, Heads, T
      <3> QED
        BY <2>2, <2>3 DEF Injection, IsInjective
    <2>5. f \in Surjection(Heads, T)
      <3> HIDE DEF f, Heads, T
      <3> QED
        BY <2>1, <2>4, FS_Injection
    <2>6. i - first \in T
      <3> HIDE DEF Heads, Made
      <3> QED
        BY <1>4
    <2>7. PICK n \in Heads : Cardinality(Below(n)) = i - first
      BY <2>5, <2>6 DEF Surjection
    <2>8. Gap(n) \in Made /\ Gap(n).seq = first + Cardinality(Below(n))
      BY <1>1
    <2>9. first + (i - first) = i
      <3> HIDE DEF Made
      <3> QED
        BY <1>4
    <2> QED
      BY <2>7, <2>8, <2>9
  <1> QED
    BY <1>4, <1>6, <1>9, <1>10

(* What a writer owes, numbered after everything it gave out. *)
LEMMA OwedNumbered ==
    ASSUME LedgerTypeOK, NumbersIssued, NEW w \in Writer
    PROVE  /\ next[w] \in Nat /\ missing[w] \in SUBSET Nat
           /\ Cardinality(Owed(w)) \in Nat
           /\ \A g \in Owed(w) :
                 /\ g \in GapRow /\ g.writer = w /\ g.span \subseteq missing[w]
                 /\ next[w] <= g.seq /\ g.seq < next[w] + Cardinality(Owed(w))
           /\ \A g, h \in Owed(w) :
                 g # h => g.seq # h.seq /\ g.span \intersect h.span = {}
           /\ \A n \in next[w] .. next[w] + Cardinality(Owed(w)) - 1 : n \in Seqs(Owed(w))
  <1>1. next[w] \in Nat /\ missing[w] \in SUBSET Nat /\ \A n \in missing[w] : n <= next[w]
    BY DEF LedgerTypeOK, NumbersIssued
  <1>2. IsFiniteSet(missing[w])
    BY <1>1, FS_BoundedSetOfNaturals
  <1> QED
    BY <1>1, <1>2, GapRowsNumbered DEF Owed, Seqs

-----------------------------------------------------------------------------
(* The numbers of gap rows. *)
LEMMA GapNumbers ==
    ASSUME NEW G \in SUBSET GapRow
    PROVE  /\ Spans(G) \in SUBSET Nat /\ \A n \in Spans(G) : \E g \in G : n \in g.span
           /\ Seqs(G) \in SUBSET Nat /\ \A n \in Seqs(G) : \E g \in G : n = g.seq
  BY DEF Spans, Seqs, GapRow

(* Type correctness, action by action. *)
LEMMA TypeStep == LedgerTypeOK /\ NumbersIssued /\ [LedgerNext]_ledgerVars => LedgerTypeOK'
  <1> SUFFICES ASSUME LedgerTypeOK, NumbersIssued, [LedgerNext]_ledgerVars PROVE LedgerTypeOK'
    OBVIOUS
  <1> USE DEF ledgerVars, opVars, seqVars, dbVars, spoolVars, drainVars,
              LedgerTypeOK, Pc, Open, Failing, After, Returned, Mode
  <1>o. \A e \in Event : pc[e] # "new" => by[e] \in Writer
    BY DEF NumbersIssued
  <1>1. ASSUME NEW e \in Event, NEW w \in Writer, NEW m \in Mode, Record(e, w, m) PROVE LedgerTypeOK'
    BY <1>1, <1>o DEF Record, Idle, Moves, Allocate
  <1>2. ASSUME NEW e \in Event, NEW w \in Writer, BatchOpen(e, w) PROVE LedgerTypeOK'
    BY <1>2, <1>o, OwedNumbered DEF BatchOpen, Idle, Moves
  <1>3. ASSUME NEW e \in Event, Insert(e) PROVE LedgerTypeOK'
    BY <1>3, <1>o DEF Insert, Moves
  <1>4. ASSUME NEW e \in Event, WritePreamble(e) PROVE LedgerTypeOK'
    BY <1>4, <1>o, OwedNumbered DEF WritePreamble, Moves
  <1>5. ASSUME NEW e \in Event, NEW last \in Seqs(Owed(by[e])), PreambleFails(e, last) PROVE LedgerTypeOK'
    <2>1. last \in Nat
      BY <1>5, <1>o, OwedNumbered DEF PreambleFails, Seqs, GapRow
    <2>2. next[by[e]] .. last \in SUBSET Nat
      BY <2>1, <1>5, <1>o DEF PreambleFails
    <2> QED
      BY <1>5, <1>o, <2>1, <2>2 DEF PreambleFails, Moves
  <1>6. ASSUME NEW e \in Event, WriteFails(e) PROVE LedgerTypeOK'
    <2>1. Spans(gaps[e]) \in SUBSET Nat /\ Seqs(gaps[e]) \in SUBSET Nat
      BY GapNumbers
    <2> QED
      BY <1>6, <1>o, <2>1 DEF WriteFails, Moves
  <1>7. ASSUME NEW e \in Event, Commit(e) PROVE LedgerTypeOK'
    BY <1>7, <1>o DEF Commit, Moves
  <1>8. ASSUME NEW e \in Event, MarkStarted(e) PROVE LedgerTypeOK'
    BY <1>8, <1>o DEF MarkStarted, Moves
  <1>9. ASSUME NEW e \in Event, NEW taken \in BOOLEAN, BatchRow(e, taken) PROVE LedgerTypeOK'
    BY <1>9, <1>o DEF BatchRow, Moves, Allocate
  <1>10. ASSUME NEW e \in Event, BatchFails(e) PROVE LedgerTypeOK'
    <2>1. Spans(gaps[e]) \in SUBSET Nat /\ Seqs(gaps[e]) \in SUBSET Nat
      BY GapNumbers
    <2> QED
      BY <1>10, <1>o, <2>1 DEF BatchFails, Moves
  <1>11. ASSUME NEW e \in Event, NEW whole \in BOOLEAN, SpoolAppend(e, whole) PROVE LedgerTypeOK'
    <2>1. tail' \in BOOLEAN
      BY <1>11, Zenon DEF SpoolAppend, AddLine
    <2>2. tears' \in 0 .. MaxTorn
      BY <1>11, LedgerAssumption DEF SpoolAppend, AddLine
    <2>3. spool' \in SUBSET Event /\ torn' \in SUBSET Event /\ rejected' \in SUBSET Event
      BY <1>11 DEF SpoolAppend, AddLine
    <2>4. pc' \in [Event -> Pc] /\ missing' \in [Writer -> SUBSET Nat]
      BY <1>11, <1>o DEF SpoolAppend, Moves
    <2> QED
      BY <1>11, <2>1, <2>2, <2>3, <2>4 DEF SpoolAppend
  <1>12. ASSUME NEW e \in Event, SpoolNoted(e) PROVE LedgerTypeOK'
    BY <1>12, <1>o DEF SpoolNoted, Moves
  <1>13. ASSUME NEW e \in Event, SpoolFails(e) PROVE LedgerTypeOK'
    BY <1>13, <1>o DEF SpoolFails, Moves
  <1>14. ASSUME NEW e \in Event, NoSpool(e) PROVE LedgerTypeOK'
    BY <1>14, <1>o DEF NoSpool, Moves
  <1>15. ASSUME NEW x \in Event \union Writer, DrainStart(x) PROVE LedgerTypeOK'
    BY <1>15, <1>o DEF DrainStart
  <1>16. ASSUME NEW x \in Event \union Writer, DrainApply(x) PROVE LedgerTypeOK'
    BY <1>16, <1>o DEF DrainApply
  <1>17. ASSUME NEW x \in Event \union Writer, DrainFails(x) PROVE LedgerTypeOK'
    BY <1>17, <1>o DEF DrainFails, SetAside, DrainOver
  <1>18. ASSUME NEW x \in Event \union Writer, DrainDrop(x) PROVE LedgerTypeOK'
    BY <1>18, <1>o DEF DrainDrop, SetAside, DrainOver
  <1>19. ASSUME NEW x \in Event \union Writer, DrainDropFails(x) PROVE LedgerTypeOK'
    BY <1>19, <1>o DEF DrainDropFails, DrainOver
  <1>20. ASSUME NEW e \in Event, Act(e) PROVE LedgerTypeOK'
    BY <1>20, <1>o DEF Act
  <1>21. ASSUME NEW w \in Writer, ProcessEnds(w) PROVE LedgerTypeOK'
    BY <1>21, <1>o DEF ProcessEnds
  <1>22. ASSUME NEW e \in Event, NEW w \in Writer,
                NEW last \in {next[w] - 1} \union Seqs(Owed(w)), BatchRefused(e, w, last)
         PROVE  LedgerTypeOK'
    <2>1. last + 1 \in Nat /\ last \in Int /\ next[w] \in Nat
      BY OwedNumbered DEF Seqs, GapRow, NumbersIssued
    <2>2. next[w] .. last \in SUBSET Nat
      BY <2>1
    <2> QED
      BY <1>22, <2>1, <2>2 DEF BatchRefused, Idle, Moves
  <1>23. CASE UNCHANGED ledgerVars
    BY <1>23
  <1> QED
    BY <1>1, <1>2, <1>3, <1>4, <1>5, <1>6, <1>7, <1>8, <1>9, <1>10, <1>11, <1>12, <1>13, <1>14,
       <1>15, <1>16, <1>17, <1>18, <1>19, <1>20, <1>21, <1>22, <1>23
       DEF LedgerNext, WriteStep, DrainStep

-----------------------------------------------------------------------------
(* A step that gives no number to a row keeps the numbers apart. *)
LEMMA CountersKeep ==
    ASSUME LedgerTypeOK, NumbersIssued, NumbersUnique, LedgerTypeOK',
           UNCHANGED num,
           \A e \in Event : gaps'[e] \subseteq gaps[e] /\ (pc'[e] = "new" => pc[e] = "new"),
           \A e \in Event : IF pc[e] = "new" THEN pc'[e] = "new" \/ by'[e] \in Writer
                                             ELSE by'[e] = by[e],
           \A w \in Writer : next[w] <= next'[w] /\ \A n \in missing'[w] : n < next'[w],
           \A g \in gapRows' : g \in gapRows \/ \E e \in Event : pc[e] # "new" /\ g \in gaps[e]
    PROVE  NumbersIssued' /\ NumbersUnique'
  <1>n. \A w \in Writer : next[w] \in Nat /\ next'[w] \in Nat
    BY DEF LedgerTypeOK
  <1>g. \A g \in GapRow : g.seq \in Nat /\ g.span \in SUBSET Nat /\ g.writer \in Writer
    BY DEF GapRow
  <1>1. NumbersIssued'
    <2>1. \A w \in Writer : next'[w] >= 1 /\ \A n \in missing'[w] : n < next'[w]
      BY <1>n DEF NumbersIssued
    <2>2. ASSUME NEW e \in Event
          PROVE  /\ pc'[e] # "new" => by'[e] \in Writer
                 /\ pc'[e] = "new" => num[e] = 0 /\ gaps'[e] = {}
                 /\ num[e] # 0 => num[e] < next'[by'[e]]
                 /\ \A g \in gaps'[e] : /\ g.writer = by'[e]
                                        /\ g.seq < next'[by'[e]]
                                        /\ \A n \in g.span : n < next'[by'[e]]
      <3>1. CASE pc[e] = "new"
        BY <3>1 DEF NumbersIssued
      <3>2. CASE pc[e] # "new"
        <4>1. by'[e] = by[e] /\ by[e] \in Writer /\ num[e] \in Nat /\ gaps[e] \in SUBSET GapRow
          BY <3>2 DEF NumbersIssued, LedgerTypeOK
        <4>2. next[by[e]] <= next'[by[e]] /\ next[by[e]] \in Nat /\ next'[by[e]] \in Nat
          BY <4>1, <1>n
        <4>3. num[e] # 0 => num[e] < next'[by[e]]
          BY <4>1, <4>2 DEF NumbersIssued
        <4>4. ASSUME NEW g \in gaps'[e]
              PROVE  g.writer = by[e] /\ g.seq < next'[by[e]] /\ \A n \in g.span : n < next'[by[e]]
          <5>1. g \in gaps[e] /\ g.seq \in Nat /\ g.span \in SUBSET Nat
            BY <4>1, <1>g
          <5> QED
            BY <5>1, <4>2 DEF NumbersIssued
        <4> QED
          BY <3>2, <4>1, <4>3, <4>4
      <3> QED
        BY <3>1, <3>2
    <2>3. ASSUME NEW g \in gapRows' PROVE g.seq < next'[g.writer]
      <3>1. g \in GapRow /\ g.seq \in Nat /\ g.writer \in Writer
        BY <1>g DEF LedgerTypeOK
      <3>2. ASSUME NEW e \in Event, g \in gaps[e] PROVE g.seq < next[g.writer]
        BY <3>2 DEF NumbersIssued
      <3>3. g.seq < next[g.writer]
        BY <3>2 DEF NumbersIssued
      <3> QED
        BY <3>1, <3>3, <1>n
    <2> QED
      BY <2>1, <2>2, <2>3 DEF NumbersIssued
  <1>2. NumbersUnique'
    <2>1. \A e \in Event : num[e] # 0 \/ gaps[e] # {} => by'[e] = by[e]
      BY DEF NumbersIssued
    <2> QED
      BY <2>1 DEF NumbersUnique, NumbersIssued
  <1> QED
    BY <1>1, <1>2

(* The next number of its writer is new to a row. *)
LEMMA NumberIsNew ==
    ASSUME LedgerTypeOK, NumbersIssued, NumbersUnique, LedgerTypeOK',
           NEW e \in Event, NEW w \in Writer,
           pc[e] = "new" \/ by[e] = w,
           by' = [by EXCEPT ![e] = w], Allocate(e, w), pc'[e] # "new",
           UNCHANGED <<gaps, missing, gapRows>>,
           \A f \in Event \ {e} : pc'[f] = pc[f]
    PROVE  NumbersIssued' /\ NumbersUnique'
  <1> USE DEF Allocate
  <1>n. next[w] \in Nat /\ next[w] >= 1 /\ next'[w] = next[w] + 1
    BY DEF LedgerTypeOK, NumbersIssued
  <1>x. num'[e] = next[w] /\ by'[e] = w /\ \A f \in Event \ {e} : num'[f] = num[f] /\ by'[f] = by[f]
    BY DEF LedgerTypeOK
  <1>w. \A v \in Writer : next[v] \in Nat /\ next'[v] \in Nat /\ next[v] <= next'[v]
    BY <1>n DEF LedgerTypeOK
  <1>o. \A f \in Event : gaps[f] # {} \/ num[f] # 0 => by[f] \in Writer
    BY DEF NumbersIssued
  <1>g. \A f \in Event : \A g \in gaps[f] : g \in GapRow /\ g.seq \in Nat /\ g.span \in SUBSET Nat
    BY DEF LedgerTypeOK, GapRow
  <1>r. \A g \in gapRows : g \in GapRow /\ g.seq \in Nat /\ g.writer \in Writer
    BY DEF LedgerTypeOK, GapRow
  <1>1. NumbersIssued'
    <2>1. \A v \in Writer : next'[v] >= 1 /\ \A n \in missing'[v] : n < next'[v]
      BY <1>w DEF NumbersIssued, LedgerTypeOK
    <2>2. ASSUME NEW f \in Event
          PROVE  /\ pc'[f] # "new" => by'[f] \in Writer
                 /\ pc'[f] = "new" => num'[f] = 0 /\ gaps'[f] = {}
                 /\ num'[f] # 0 => num'[f] < next'[by'[f]]
      BY <1>n, <1>x, <1>w, <1>o DEF NumbersIssued, LedgerTypeOK
    <2>3. ASSUME NEW f \in Event, NEW g \in gaps[f]
          PROVE  g.writer = by'[f] /\ g.seq < next'[by'[f]] /\ \A n \in g.span : n < next'[by'[f]]
      <3>1. by'[f] = by[f] /\ by[f] \in Writer
        BY <1>x, <1>o DEF NumbersIssued
      <3>2. g.writer = by[f] /\ g.seq < next[by[f]] /\ \A n \in g.span : n < next[by[f]]
        BY DEF NumbersIssued
      <3> QED
        BY <3>1, <3>2, <1>w, <1>g
    <2>4. ASSUME NEW g \in gapRows PROVE g.seq < next'[g.writer]
      BY <1>r, <1>w DEF NumbersIssued
    <2> QED
      BY <2>1, <2>2, <2>3, <2>4 DEF NumbersIssued
  <1>2. \A f \in Event \ {e} : by[f] = w => num[f] # next[w]
    BY <1>n DEF NumbersIssued, LedgerTypeOK
  <1>3. \A f \in Event : by'[f] = w => \A g \in gaps[f] : g.seq # next[w]
    <2> SUFFICES ASSUME NEW f \in Event, by'[f] = w, NEW g \in gaps[f] PROVE g.seq # next[w]
      OBVIOUS
    <2>1. by[f] = w
      BY <1>x DEF NumbersIssued
    <2> QED
      BY <2>1, <1>n, <1>g DEF NumbersIssued
  <1>4. \A g \in gapRows : g.writer = w => g.seq # next[w]
    BY <1>n, <1>r DEF NumbersIssued
  <1>5. NumbersUnique'
    <2> SUFFICES ASSUME NEW f \in Event, num'[f] # 0
                 PROVE  /\ \A h \in Event : by'[h] = by'[f] /\ num'[h] = num'[f] => h = f
                        /\ \A h \in Event : by'[h] = by'[f] => \A g \in gaps[h] : g.seq # num'[f]
                        /\ \A g \in gapRows : g.writer = by'[f] => g.seq # num'[f]
      BY DEF NumbersUnique
    <2>1. CASE f = e
      BY <2>1, <1>x, <1>2, <1>3, <1>4
    <2>2. CASE f # e
      <3>1. num'[f] = num[f] /\ by'[f] = by[f]
        BY <2>2, <1>x
      <3>2. \A h \in Event : gaps[h] # {} => by'[h] = by[h]
        BY <1>x DEF NumbersIssued
      <3>3. \A h \in Event : by'[h] = by'[f] /\ num'[h] = num'[f] => h = f
        BY <2>2, <3>1, <1>x, <1>2 DEF NumbersUnique
      <3> QED
        BY <3>1, <3>2, <3>3 DEF NumbersUnique
    <2> QED
      BY <2>1, <2>2
  <1> QED
    BY <1>1, <1>5

(* So are the numbers of its gap rows. *)
LEMMA GapNumbersAreNew ==
    ASSUME LedgerTypeOK, NumbersIssued, NumbersUnique, LedgerTypeOK',
           NEW e \in Event, NEW w \in Writer,
           pc[e] = "new" \/ by[e] = w,
           by' = [by EXCEPT ![e] = w], pc'[e] # "new",
           gaps' = [gaps EXCEPT ![e] = Owed(w)],
           missing' = [missing EXCEPT ![w] = @ \ Spans(Owed(w))],
           next' = [next EXCEPT ![w] = @ + Cardinality(Owed(w))],
           UNCHANGED <<num, gapRows>>,
           \A f \in Event \ {e} : pc'[f] = pc[f]
    PROVE  NumbersIssued' /\ NumbersUnique'
  <1>o. /\ next[w] \in Nat /\ Cardinality(Owed(w)) \in Nat
        /\ \A g \in Owed(w) :
              /\ g \in GapRow /\ g.writer = w /\ g.span \subseteq missing[w]
              /\ next[w] <= g.seq /\ g.seq < next[w] + Cardinality(Owed(w))
    BY OwedNumbered
  <1>x. /\ by'[e] = w /\ gaps'[e] = Owed(w) /\ next'[w] = next[w] + Cardinality(Owed(w))
        /\ \A f \in Event \ {e} : gaps'[f] = gaps[f] /\ by'[f] = by[f]
        /\ num[e] # 0 => by[e] = w
    BY DEF LedgerTypeOK, NumbersIssued
  <1>w. \A v \in Writer : next[v] \in Nat /\ next'[v] \in Nat /\ next[v] <= next'[v]
    <2> TAKE v \in Writer
    <2>1. CASE v = w
      BY <2>1, <1>o, <1>x
    <2>2. CASE v # w
      BY <2>2 DEF LedgerTypeOK
    <2> QED
      BY <2>1, <2>2
  <1>g. \A f \in Event : \A g \in gaps'[f] : g.seq \in Nat /\ g.span \in SUBSET Nat
    BY DEF LedgerTypeOK, GapRow
  <1>1. NumbersIssued'
    <2>1. ASSUME NEW v \in Writer
          PROVE  next'[v] >= 1 /\ \A n \in missing'[v] : n < next'[v]
      <3>1. missing'[v] \subseteq missing[v] /\ missing[v] \in SUBSET Nat
        BY DEF LedgerTypeOK
      <3>2. next[v] >= 1 /\ \A n \in missing[v] : n < next[v]
        BY DEF NumbersIssued
      <3> QED
        BY <3>1, <3>2, <1>w
    <2>2. ASSUME NEW f \in Event
          PROVE  /\ pc'[f] # "new" => by'[f] \in Writer
                 /\ pc'[f] = "new" => num[f] = 0 /\ gaps'[f] = {}
                 /\ num[f] # 0 => num[f] < next'[by'[f]]
      <3>1. num[f] # 0 => by'[f] = by[f] /\ by[f] \in Writer
        BY <1>x DEF NumbersIssued
      <3>2. num[f] \in Nat /\ (num[f] # 0 => num[f] < next[by[f]])
        BY DEF LedgerTypeOK, NumbersIssued
      <3>3. num[f] # 0 => num[f] < next'[by'[f]]
        BY <3>1, <3>2, <1>w
      <3> QED
        BY <3>3, <1>x DEF NumbersIssued
    <2>3. ASSUME NEW f \in Event, NEW g \in gaps'[f]
          PROVE  g.writer = by'[f] /\ g.seq < next'[by'[f]] /\ \A n \in g.span : n < next'[by'[f]]
      <3>1. CASE f = e
        <4>1. g \in Owed(w) /\ g.span \subseteq missing[w]
          BY <3>1, <1>x, <1>o
        <4>2. \A n \in missing[w] : n \in Nat /\ n < next[w]
          BY DEF NumbersIssued, LedgerTypeOK
        <4>3. g.writer = by'[f] /\ g.seq < next'[by'[f]]
          BY <3>1, <4>1, <1>x, <1>o
        <4> QED
          BY <3>1, <4>1, <4>2, <4>3, <1>w, <1>x
      <3>2. CASE f # e
        <4>1. by'[f] = by[f] /\ g \in gaps[f] /\ by[f] \in Writer
          BY <3>2, <1>x DEF NumbersIssued
        <4>2. g.writer = by[f] /\ g.seq < next[by[f]] /\ \A n \in g.span : n < next[by[f]]
          BY <4>1 DEF NumbersIssued
        <4> QED
          BY <4>1, <4>2, <1>w, <1>g
      <3> QED
        BY <3>1, <3>2
    <2>4. ASSUME NEW g \in gapRows PROVE g.seq < next'[g.writer]
      <3>1. g.seq \in Nat /\ g.writer \in Writer
        BY DEF LedgerTypeOK, GapRow
      <3> QED
        BY <3>1, <1>w DEF NumbersIssued
    <2> QED
      BY <2>1, <2>2, <2>3, <2>4 DEF NumbersIssued
  <1>2. NumbersUnique'
    <2> SUFFICES ASSUME NEW f \in Event, num[f] # 0
                 PROVE  /\ \A h \in Event : by'[h] = by'[f] /\ num[h] = num[f] => h = f
                        /\ \A h \in Event : by'[h] = by'[f] => \A g \in gaps'[h] : g.seq # num[f]
                        /\ \A g \in gapRows : g.writer = by'[f] => g.seq # num[f]
      BY DEF NumbersUnique
    <2>1. \A h \in Event : num[h] # 0 => by'[h] = by[h]
      BY <1>x
    <2>2. \A h \in Event : by'[h] = by'[f] /\ num[h] = num[f] => h = f
      BY <2>1 DEF NumbersUnique
    <2>3. ASSUME NEW h \in Event, by'[h] = by'[f], NEW g \in gaps'[h] PROVE g.seq # num[f]
      <3>1. CASE h = e
        <4>1. by[f] = w /\ num[f] \in Nat /\ num[f] < next[w]
          BY <3>1, <2>3, <2>1, <1>x DEF NumbersIssued, LedgerTypeOK
        <4>2. next[w] <= g.seq /\ g.seq \in Nat
          BY <3>1, <1>x, <1>o, <1>g
        <4> QED
          BY <4>1, <4>2, <1>o
      <3>2. CASE h # e
        BY <3>2, <2>3, <2>1, <1>x DEF NumbersUnique
      <3> QED
        BY <3>1, <3>2
    <2> QED
      BY <2>1, <2>2, <2>3 DEF NumbersUnique
  <1> QED
    BY <1>1, <1>2

(* Every action keeps the numbers apart. *)
LEMMA NumbersStep ==
    ASSUME LedgerTypeOK, NumbersIssued, NumbersUnique, ReplayerWrote, [LedgerNext]_ledgerVars
    PROVE  NumbersIssued' /\ NumbersUnique'
  <1> USE DEF ledgerVars, opVars, seqVars, dbVars, spoolVars, drainVars
  <1>t. LedgerTypeOK'
    BY TypeStep
  <1>o. \A e \in Event : pc[e] # "new" => by[e] \in Writer
    BY DEF NumbersIssued
  <1>b. \A e \in Event : by[e] = [by EXCEPT ![e] = by[e]][e] /\ by = [by EXCEPT ![e] = by[e]]
    BY DEF LedgerTypeOK
  <1>n. \A w \in Writer : next[w] \in Nat /\ missing[w] \in SUBSET Nat /\ \A n \in missing[w] : n < next[w]
    BY DEF LedgerTypeOK, NumbersIssued
  <1>1. ASSUME NEW e \in Event, NEW w \in Writer, NEW m \in Mode, Record(e, w, m)
        PROVE  NumbersIssued' /\ NumbersUnique'
    BY <1>1, <1>t, NumberIsNew DEF Record, Idle, Moves, LedgerTypeOK
  <1>2. ASSUME NEW e \in Event, NEW w \in Writer, BatchOpen(e, w)
        PROVE  NumbersIssued' /\ NumbersUnique'
    BY <1>2, <1>t, GapNumbersAreNew DEF BatchOpen, Idle, Moves, LedgerTypeOK
  <1>3. ASSUME NEW e \in Event, WritePreamble(e)
        PROVE  NumbersIssued' /\ NumbersUnique'
    BY <1>3, <1>t, <1>o, <1>b, GapNumbersAreNew DEF WritePreamble, Moves, LedgerTypeOK
  <1>4. ASSUME NEW e \in Event, NEW taken \in BOOLEAN, BatchRow(e, taken)
        PROVE  NumbersIssued' /\ NumbersUnique'
    BY <1>4, <1>t, <1>o, <1>b, NumberIsNew DEF BatchRow, Moves, LedgerTypeOK
  <1>5. ASSUME NEW e \in Event, NEW last \in Seqs(Owed(by[e])), PreambleFails(e, last)
        PROVE  NumbersIssued' /\ NumbersUnique'
    <2>1. by[e] \in Writer /\ num[e] \in Nat
      BY <1>5, <1>o DEF PreambleFails, LedgerTypeOK
    <2>2. last \in Nat /\ next[by[e]] <= last /\ next'[by[e]] = last + 1
      BY <1>5, <2>1, OwedNumbered DEF PreambleFails, Seqs, GapRow, LedgerTypeOK
    <2>3. num[e] # 0 => num[e] < next[by[e]]
      BY DEF NumbersIssued
    <2>4. ASSUME NEW w \in Writer PROVE next[w] <= next'[w] /\ \A n \in missing'[w] : n < next'[w]
      <3>1. CASE w = by[e]
        <4>1. missing'[w] \subseteq missing[w] \union next[w] .. last \union {num[e]}
          BY <1>5, <3>1 DEF PreambleFails, LedgerTypeOK
        <4> QED
          BY <4>1, <3>1, <2>1, <2>2, <2>3, <1>n
      <3>2. CASE w # by[e]
        BY <1>5, <3>2, <1>n DEF PreambleFails, LedgerTypeOK
      <3> QED
        BY <3>1, <3>2
    <2> QED
      BY <1>5, <1>t, <2>4, CountersKeep DEF PreambleFails, Moves, LedgerTypeOK
  <1>6. ASSUME NEW e \in Event, WriteFails(e) \/ BatchFails(e)
        PROVE  NumbersIssued' /\ NumbersUnique'
    <2>1. by[e] \in Writer /\ num[e] \in Nat /\ gaps[e] \in SUBSET GapRow
      BY <1>6, <1>o DEF WriteFails, BatchFails, LedgerTypeOK
    <2>2. \A n \in Spans(gaps[e]) \union Seqs(gaps[e]) : n < next[by[e]]
      BY <2>1, GapNumbers DEF NumbersIssued
    <2>3. num[e] < next[by[e]]
      BY <2>1, <1>n DEF NumbersIssued
    <2>4. ASSUME NEW w \in Writer PROVE next[w] <= next'[w] /\ \A n \in missing'[w] : n < next'[w]
      <3>1. missing'[w] \subseteq missing[w] \union
               (IF w = by[e] THEN Spans(gaps[e]) \union Seqs(gaps[e]) \union {num[e]} ELSE {})
        BY <1>6 DEF WriteFails, BatchFails, LedgerTypeOK
      <3>2. next' = next
        BY <1>6 DEF WriteFails, BatchFails
      <3> QED
        BY <3>1, <3>2, <2>2, <2>3, <1>n
    <2> QED
      BY <1>6, <1>t, <2>4, CountersKeep DEF WriteFails, BatchFails, Moves, LedgerTypeOK
  <1>7. ASSUME NEW e \in Event, NEW whole \in BOOLEAN,
               SpoolAppend(e, whole) \/ SpoolNoted(e) \/ SpoolFails(e)
        PROVE  NumbersIssued' /\ NumbersUnique'
    <2> USE DEF SpoolAppend, SpoolNoted, SpoolFails
    <2>1. by[e] \in Writer /\ num[e] \in Nat
      BY <1>7, <1>o DEF LedgerTypeOK
    <2>2. num[e] < next[by[e]]
      BY <2>1, <1>n DEF NumbersIssued
    <2>3. ASSUME NEW w \in Writer PROVE next[w] <= next'[w] /\ \A n \in missing'[w] : n < next'[w]
      <3>1. missing'[w] \subseteq missing[w] \union (IF w = by[e] THEN {num[e]} ELSE {})
        BY <1>7 DEF LedgerTypeOK
      <3>2. next' = next
        BY <1>7
      <3> QED
        BY <3>1, <3>2, <2>2, <1>n
    <2> QED
      BY <1>7, <1>t, <2>3, CountersKeep DEF Moves, LedgerTypeOK
  <1>8. ASSUME NEW e \in Event, Commit(e)
        PROVE  NumbersIssued' /\ NumbersUnique'
    BY <1>8, <1>t, <1>n, CountersKeep DEF Commit, Moves, LedgerTypeOK
  <1>9. ASSUME NEW e \in Event, Insert(e) \/ MarkStarted(e) \/ NoSpool(e) \/ Act(e)
        PROVE  NumbersIssued' /\ NumbersUnique'
    BY <1>9, <1>t, <1>n, CountersKeep DEF Insert, MarkStarted, NoSpool, Act, Moves, LedgerTypeOK
  <1>10. ASSUME NEW x \in Event \union Writer, DrainStart(x) \/ DrainApply(x)
         PROVE  NumbersIssued' /\ NumbersUnique'
    BY <1>10, <1>t, <1>n, CountersKeep DEF DrainStart, DrainApply
  <1>11. ASSUME NEW x \in Event \union Writer, DrainFails(x) \/ DrainDrop(x) \/ DrainDropFails(x)
         PROVE  NumbersIssued' /\ NumbersUnique'
    BY <1>11, <1>t, <1>n, CountersKeep
       DEF DrainFails, DrainDrop, DrainDropFails, DrainOver, ReplayerWrote, LedgerTypeOK
  <1>12. ASSUME NEW w \in Writer, ProcessEnds(w)
         PROVE  NumbersIssued' /\ NumbersUnique'
    BY <1>12, <1>t, <1>n, CountersKeep DEF ProcessEnds, InFlight, Open, Failing, After
  <1>13. CASE UNCHANGED ledgerVars
    BY <1>13, <1>t, <1>n, CountersKeep
  <1>14. ASSUME NEW e \in Event, NEW w \in Writer,
                NEW last \in {next[w] - 1} \union Seqs(Owed(w)), BatchRefused(e, w, last)
         PROVE  NumbersIssued' /\ NumbersUnique'
    <2>1. last \in Int /\ next[w] <= last + 1 /\ next'[w] = last + 1
      BY <1>14, OwedNumbered DEF BatchRefused, Seqs, GapRow, LedgerTypeOK
    <2>2. ASSUME NEW v \in Writer PROVE next[v] <= next'[v] /\ \A n \in missing'[v] : n < next'[v]
      <3>1. CASE v = w
        <4>1. missing'[v] \subseteq missing[v] \union next[v] .. last
          BY <1>14, <3>1 DEF BatchRefused, LedgerTypeOK
        <4> QED
          BY <4>1, <3>1, <2>1, <1>n
      <3>2. CASE v # w
        BY <1>14, <3>2, <1>n DEF BatchRefused, LedgerTypeOK
      <3> QED
        BY <3>1, <3>2
    <2> QED
      BY <1>14, <1>t, <2>2, CountersKeep DEF BatchRefused, Idle, Moves, LedgerTypeOK
  <1> QED
    BY <1>1, <1>2, <1>3, <1>4, <1>5, <1>6, <1>7, <1>8, <1>9, <1>10, <1>11, <1>12, <1>13, <1>14
       DEF LedgerNext, WriteStep, DrainStep

-----------------------------------------------------------------------------
(* A row that is not in the database has a number no other row has. *)
LEMMA HoleIsLeft == LedgerTypeOK /\ NumbersUnique => LossLeavesHole
  BY DEF LedgerTypeOK, NumbersUnique, LossLeavesHole, InDb

(* A row keeps its number, after every action. *)
LEMMA NumberedStep == LedgerInv /\ [LedgerNext]_ledgerVars => RowsAreNumbered'
  <1> SUFFICES ASSUME LedgerInv, [LedgerNext]_ledgerVars PROVE RowsAreNumbered'
    OBVIOUS
  <1> USE DEF ledgerVars, opVars, seqVars, dbVars, spoolVars, drainVars, RowsAreNumbered
  <1>t. LedgerTypeOK /\ RowsAreNumbered /\ ReplayerWrote
    BY DEF LedgerInv
  <1>n. /\ \A w \in Writer : next[w] \in Nat /\ next[w] # 0
        /\ \A e \in Event : pc[e] # "new" => by[e] \in Writer
    BY <1>t DEF LedgerInv, NumbersIssued, LedgerTypeOK
  <1>1. ASSUME NEW e \in Event, NEW w \in Writer, BatchOpen(e, w) \/ \E m \in Mode : Record(e, w, m)
        PROVE  RowsAreNumbered'
    BY <1>1, <1>t, <1>n DEF BatchOpen, Record, Allocate, Idle, Moves, LedgerTypeOK
  <1>11. ASSUME NEW e \in Event, NEW w \in Writer, NEW last, BatchRefused(e, w, last)
         PROVE  RowsAreNumbered'
    BY <1>11, <1>t DEF BatchRefused, Idle, Moves, LedgerTypeOK
  <1>2. ASSUME NEW e \in Event, NEW taken \in BOOLEAN, BatchRow(e, taken) PROVE RowsAreNumbered'
    BY <1>2, <1>t, <1>n DEF BatchRow, Allocate, Moves, LedgerTypeOK
  <1>3. ASSUME NEW e \in Event, \/ Insert(e) \/ WritePreamble(e) \/ WriteFails(e) \/ Commit(e)
                                \/ MarkStarted(e) \/ SpoolNoted(e) \/ SpoolFails(e) \/ NoSpool(e)
        PROVE  RowsAreNumbered'
    BY <1>3, <1>t DEF Insert, WritePreamble, WriteFails, Commit, MarkStarted, SpoolNoted,
                      SpoolFails, NoSpool, Moves, LedgerTypeOK
  <1>4. ASSUME NEW e \in Event, NEW last \in Seqs(Owed(by[e])), PreambleFails(e, last)
        PROVE  RowsAreNumbered'
    BY <1>4, <1>t DEF PreambleFails, Moves, LedgerTypeOK
  <1>5. ASSUME NEW e \in Event, BatchFails(e) PROVE RowsAreNumbered'
    BY <1>5, <1>t DEF BatchFails, Moves, LedgerTypeOK
  <1>6. ASSUME NEW e \in Event, NEW whole \in BOOLEAN, SpoolAppend(e, whole) PROVE RowsAreNumbered'
    BY <1>6, <1>t DEF SpoolAppend, AddLine, Moves, LedgerTypeOK
  <1>7. ASSUME NEW x \in Event \union Writer, DrainStep(x) PROVE RowsAreNumbered'
    <2>1. CASE DrainStart(x) \/ DrainApply(x)
      BY <2>1, <1>t DEF DrainStart, DrainApply
    <2>2. CASE DrainFails(x) \/ DrainDrop(x) \/ DrainDropFails(x)
      <3>1. /\ spool' \subseteq spool /\ num' = num /\ flock = x
            /\ pc' = IF x \in Event THEN [pc EXCEPT ![x] = "kept"] ELSE pc
        BY <2>2 DEF DrainFails, DrainDrop, DrainDropFails, SetAside, DrainOver
      <3> QED
        BY <3>1, <1>t DEF ReplayerWrote, LedgerTypeOK
    <2> QED
      BY <1>7, <2>1, <2>2 DEF DrainStep
  <1>8. ASSUME NEW e \in Event, Act(e) PROVE RowsAreNumbered'
    BY <1>8, <1>t DEF Act
  <1>9. ASSUME NEW w \in Writer, ProcessEnds(w) PROVE RowsAreNumbered'
    BY <1>9, <1>t DEF ProcessEnds
  <1>10. CASE UNCHANGED ledgerVars
    BY <1>10, <1>t
  <1> QED
    BY <1>1, <1>2, <1>3, <1>4, <1>5, <1>6, <1>7, <1>8, <1>9, <1>10, <1>11 DEF LedgerNext, WriteStep

(* What the database and the spool hold, after every action. *)
LEMMA KeptStep ==
    ASSUME LedgerInv, [LedgerNext]_ledgerVars
    PROVE  (BatchOnly /\ ReplayerWrote /\ AnswersAreKept /\ ReplayIsWhole /\ EffectIsKept)'
  <1> USE DEF ledgerVars, opVars, seqVars, dbVars, spoolVars, drainVars
  <1> DEFINE Kept == BatchOnly /\ ReplayerWrote /\ AnswersAreKept /\ ReplayIsWhole /\ EffectIsKept
  <1>t. LedgerTypeOK /\ NumbersUnique /\ RowsAreNumbered /\ Kept
    BY DEF LedgerInv
  <1>n. /\ \A w \in Writer : next[w] \in Nat /\ next[w] # 0
        /\ \A e \in Event : pc[e] # "new" => by[e] \in Writer
    BY <1>t DEF LedgerInv, NumbersIssued, LedgerTypeOK
  <1> USE DEF BatchOnly, ReplayerWrote, AnswersAreKept, ReplayIsWhole, EffectIsKept
  <1>1. ASSUME NEW e \in Event, NEW w \in Writer, NEW m \in Mode, Record(e, w, m) PROVE Kept'
    BY <1>1, <1>t, <1>n DEF Record, Idle, Moves, Allocate, LedgerTypeOK
  <1>2. ASSUME NEW e \in Event, NEW w \in Writer, BatchOpen(e, w) PROVE Kept'
    BY <1>2, <1>t DEF BatchOpen, Idle, Moves, LedgerTypeOK
  <1>3. ASSUME NEW e \in Event, Insert(e) PROVE Kept'
    BY <1>3, <1>t DEF Insert, Moves, LedgerTypeOK
  <1>4. ASSUME NEW e \in Event, WritePreamble(e) PROVE Kept'
    BY <1>4, <1>t DEF WritePreamble, Moves, LedgerTypeOK
  <1>5. ASSUME NEW e \in Event, NEW last \in Seqs(Owed(by[e])), PreambleFails(e, last) PROVE Kept'
    BY <1>5, <1>t DEF PreambleFails, Moves, LedgerTypeOK
  <1>6. ASSUME NEW e \in Event, WriteFails(e) PROVE Kept'
    BY <1>6, <1>t DEF WriteFails, Moves, LedgerTypeOK
  <1>7. ASSUME NEW e \in Event, Commit(e) PROVE Kept'
    BY <1>7, <1>t DEF Commit, Moves, LedgerTypeOK
  <1>8. ASSUME NEW e \in Event, MarkStarted(e) PROVE Kept'
    BY <1>8, <1>t DEF MarkStarted, Moves, LedgerTypeOK
  <1>9. ASSUME NEW e \in Event, NEW taken \in BOOLEAN, BatchRow(e, taken) PROVE Kept'
    BY <1>9, <1>t, <1>n DEF BatchRow, Moves, Allocate, LedgerTypeOK
  <1>10. ASSUME NEW e \in Event, BatchFails(e) PROVE Kept'
    BY <1>10, <1>t DEF BatchFails, Moves, LedgerTypeOK
  <1>11. ASSUME NEW e \in Event, NEW whole \in BOOLEAN, SpoolAppend(e, whole) PROVE Kept'
    <2>1. spool \union torn \union {e} = spool' \union torn' /\ rejected' = rejected
      BY <1>11 DEF SpoolAppend, AddLine
    <2> QED
      BY <1>11, <1>t, <2>1 DEF SpoolAppend, Moves, LedgerTypeOK
  <1>12. ASSUME NEW e \in Event, SpoolNoted(e) PROVE Kept'
    BY <1>12, <1>t DEF SpoolNoted, Moves, LedgerTypeOK
  <1>13. ASSUME NEW e \in Event, SpoolFails(e) PROVE Kept'
    BY <1>13, <1>t DEF SpoolFails, Moves, LedgerTypeOK
  <1>14. ASSUME NEW e \in Event, NoSpool(e) PROVE Kept'
    BY <1>14, <1>t DEF NoSpool, Moves, LedgerTypeOK
  <1>15. ASSUME NEW x \in Event \union Writer, DrainStart(x) PROVE Kept'
    BY <1>15, <1>t, LedgerAssumption DEF DrainStart, MayDrain, RowsAreNumbered
  <1>16. ASSUME NEW x \in Event \union Writer, DrainApply(x) PROVE Kept'
    <2>1. spool \subseteq saved'
      BY <1>16, <1>t, HoleIsLeft DEF DrainApply, LossLeavesHole, LedgerTypeOK, RowsAreNumbered
    <2> QED
      BY <1>16, <1>t, <2>1, LedgerAssumption DEF DrainApply
  <1>17. ASSUME NEW x \in Event \union Writer, DrainFails(x) PROVE Kept'
    BY <1>17, <1>t, LedgerAssumption DEF DrainFails, SetAside, DrainOver, LedgerTypeOK
  <1>18. ASSUME NEW x \in Event \union Writer, DrainDrop(x) PROVE Kept'
    BY <1>18, <1>t, LedgerAssumption DEF DrainDrop, SetAside, DrainOver, LedgerTypeOK
  <1>19. ASSUME NEW x \in Event \union Writer, DrainDropFails(x) PROVE Kept'
    BY <1>19, <1>t, LedgerAssumption DEF DrainDropFails, DrainOver, LedgerTypeOK
  <1>20. ASSUME NEW e \in Event, Act(e) PROVE Kept'
    BY <1>20, <1>t DEF Act
  <1>21. ASSUME NEW w \in Writer, ProcessEnds(w) PROVE Kept'
    <2>1. \A e \in Event : pc'[e] \in {pc[e], "cut"} /\ (pc[e] = "new" => pc'[e] = "new")
      BY <1>21 DEF ProcessEnds, InFlight, Open, Failing, After
    <2>2. (flock' = flock /\ applied' = applied) \/ (flock' = None /\ applied' = FALSE)
      <3>1. CASE flock = w \/ (flock \in Event /\ by[flock] = w)
        BY <1>21, <3>1 DEF ProcessEnds
      <3>2. CASE ~ (flock = w \/ (flock \in Event /\ by[flock] = w))
        BY <1>21, <3>2 DEF ProcessEnds
      <3> QED
        BY <3>1, <3>2
    <2>3. flock' \in Event => pc'[flock'] # "new"
      BY <1>21, <1>t, <2>1, <2>2, LedgerAssumption DEF ProcessEnds, InFlight, Open, Failing, After
    <2> QED
      BY <1>21, <1>t, <2>1, <2>2, <2>3, LedgerAssumption DEF ProcessEnds
  <1>22. ASSUME NEW e \in Event, NEW w \in Writer, NEW last, BatchRefused(e, w, last) PROVE Kept'
    BY <1>22, <1>t DEF BatchRefused, Idle, Moves, LedgerTypeOK
  <1>23. CASE UNCHANGED ledgerVars
    BY <1>23, <1>t
  <1> QED
    BY <1>1, <1>2, <1>3, <1>4, <1>5, <1>6, <1>7, <1>8, <1>9, <1>10, <1>11, <1>12, <1>13, <1>14,
       <1>15, <1>16, <1>17, <1>18, <1>19, <1>20, <1>21, <1>22, <1>23 DEF LedgerNext, WriteStep, DrainStep

(* A writer is marked started after its start row, in every action. *)
LEMMA StartStep == LedgerInv /\ [LedgerNext]_ledgerVars => CommitStarts' /\ StartIsRecorded'
  <1> SUFFICES ASSUME LedgerInv, [LedgerNext]_ledgerVars PROVE CommitStarts' /\ StartIsRecorded'
    OBVIOUS
  <1> USE DEF ledgerVars, opVars, seqVars, dbVars, spoolVars, drainVars
  <1>t. LedgerTypeOK /\ NumbersIssued /\ CommitStarts /\ StartIsRecorded
    BY DEF LedgerInv
  <1>o. \A e \in Event : pc[e] # "new" => by[e] \in Writer
    BY <1>t DEF NumbersIssued
  <1>k. ASSUME UNCHANGED <<started, startRows>>,
               \A e \in Event : pc'[e] = "committed" => pc[e] = "committed" /\ by'[e] = by[e]
        PROVE  CommitStarts' /\ StartIsRecorded'
    BY <1>k, <1>t DEF CommitStarts, StartIsRecorded
  <1>1. ASSUME NEW e \in Event, NEW w \in Writer, BatchOpen(e, w) \/ \E m \in Mode : Record(e, w, m)
        PROVE  CommitStarts' /\ StartIsRecorded'
    BY <1>1, <1>k, <1>t DEF BatchOpen, Record, Allocate, Idle, Moves, LedgerTypeOK
  <1>9. ASSUME NEW e \in Event, NEW w \in Writer, NEW last, BatchRefused(e, w, last)
        PROVE  CommitStarts' /\ StartIsRecorded'
    BY <1>9, <1>k, <1>t DEF BatchRefused, Idle, Moves, LedgerTypeOK
  <1>2. ASSUME NEW e \in Event, Commit(e) PROVE CommitStarts' /\ StartIsRecorded'
    BY <1>2, <1>t, <1>o DEF Commit, Moves, LedgerTypeOK, CommitStarts, StartIsRecorded
  <1>3. ASSUME NEW e \in Event, MarkStarted(e) PROVE CommitStarts' /\ StartIsRecorded'
    BY <1>3, <1>t, <1>o DEF MarkStarted, Moves, LedgerTypeOK, CommitStarts, StartIsRecorded
  <1>4. ASSUME NEW e \in Event,
               \/ Insert(e) \/ WritePreamble(e) \/ WriteFails(e) \/ BatchFails(e)
               \/ SpoolNoted(e) \/ SpoolFails(e) \/ NoSpool(e) \/ Act(e)
        PROVE  CommitStarts' /\ StartIsRecorded'
    BY <1>4, <1>k, <1>t DEF Insert, WritePreamble, WriteFails, BatchFails, SpoolNoted, SpoolFails,
                            NoSpool, Act, Moves, LedgerTypeOK
  <1>5. ASSUME NEW e \in Event,
               \/ \E last \in Seqs(Owed(by[e])) : PreambleFails(e, last)
               \/ \E taken \in BOOLEAN : BatchRow(e, taken)
               \/ \E whole \in BOOLEAN : SpoolAppend(e, whole)
        PROVE  CommitStarts' /\ StartIsRecorded'
    BY <1>5, <1>k, <1>t DEF PreambleFails, BatchRow, SpoolAppend, Allocate, Moves, LedgerTypeOK
  <1>6. ASSUME NEW x \in Event \union Writer, DrainStep(x) PROVE CommitStarts' /\ StartIsRecorded'
    BY <1>6, <1>k, <1>t DEF DrainStep, DrainStart, DrainApply, DrainFails, DrainDrop, DrainDropFails,
                            DrainOver, LedgerTypeOK
  <1>7. ASSUME NEW w \in Writer, ProcessEnds(w) PROVE CommitStarts' /\ StartIsRecorded'
    BY <1>7, <1>k, <1>t DEF ProcessEnds
  <1>8. CASE UNCHANGED ledgerVars
    BY <1>8, <1>k
  <1> QED
    BY <1>1, <1>2, <1>3, <1>4, <1>5, <1>6, <1>7, <1>8, <1>9 DEF LedgerNext, WriteStep

-----------------------------------------------------------------------------
(* The invariant holds at first, every step keeps it, so it holds for good. *)
LEMMA LedgerInitInv == LedgerInit => LedgerInv
  <1> SUFFICES ASSUME LedgerInit PROVE LedgerInv
    OBVIOUS
  <1>1. LedgerTypeOK
    <2>1. applied \in BOOLEAN /\ tail \in BOOLEAN
      BY Zenon DEF LedgerInit
    <2>2. started \in [Writer -> BOOLEAN] /\ alive \in [Writer -> BOOLEAN]
      BY Zenon DEF LedgerInit
    <2>3. /\ pc \in [Event -> Pc] /\ mode \in [Event -> Mode] /\ by \in [Event -> Writer \union {None}]
          /\ num \in [Event -> Nat] /\ next \in [Writer -> Nat] /\ tears \in 0 .. MaxTorn
      BY LedgerAssumption DEF LedgerInit, Pc, Mode
    <2>4. gaps \in [Event -> SUBSET GapRow] /\ missing \in [Writer -> SUBSET Nat]
      BY DEF LedgerInit
    <2> QED
      BY <2>1, <2>2, <2>3, <2>4 DEF LedgerInit, LedgerTypeOK
  <1>2. NumbersIssued
    BY DEF LedgerInit, NumbersIssued
  <1>3. NumbersUnique /\ RowsAreNumbered
    BY DEF LedgerInit, NumbersUnique, RowsAreNumbered
  <1>4. BatchOnly /\ ReplayerWrote /\ AnswersAreKept /\ ReplayIsWhole /\ EffectIsKept
    BY LedgerAssumption DEF LedgerInit, BatchOnly, ReplayerWrote, AnswersAreKept, ReplayIsWhole, EffectIsKept
  <1>5. CommitStarts /\ StartIsRecorded
    BY DEF LedgerInit, CommitStarts, StartIsRecorded
  <1> QED
    BY <1>1, <1>2, <1>3, <1>4, <1>5 DEF LedgerInv

(* It is kept: the parts above, together. *)
LEMMA LedgerStepInv == LedgerInv /\ [LedgerNext]_ledgerVars => LedgerInv'
  <1> SUFFICES ASSUME LedgerInv, [LedgerNext]_ledgerVars PROVE LedgerInv'
    OBVIOUS
  <1>t. LedgerTypeOK /\ NumbersIssued /\ NumbersUnique /\ ReplayerWrote
    BY DEF LedgerInv
  <1> QED
    BY <1>t, TypeStep, NumbersStep, NumberedStep, KeptStep, StartStep DEF LedgerInv

(* The ledger's invariant. *)
LEMMA LedgerInvHolds == LedgerSpec => []LedgerInv
  BY LedgerInitInv, LedgerStepInv, PTL DEF LedgerSpec

-----------------------------------------------------------------------------
(* The counters, the spool and the database hold what they should. *)
THEOREM LedgerTypeCorrect == LedgerSpec => []LedgerTypeOK
  <1>1. LedgerInv => LedgerTypeOK
    BY DEF LedgerInv
  <1> QED
    BY <1>1, LedgerInvHolds, PTL

(* sequence.allocate gives no number twice: a row record could not write    *)
(* leaves a hole that no other row fills.                                   *)
THEOREM LossIsVisible == LedgerSpec => []LossLeavesHole
  <1>1. LedgerInv => LossLeavesHole
    BY HoleIsLeft DEF LedgerInv
  <1> QED
    BY <1>1, LedgerInvHolds, PTL

(* No effect the kernel let happen is without its row: spool.drain removes  *)
(* only what the database has, whoever appends, fails or dies meanwhile.    *)
THEOREM EffectsAreKept == LedgerSpec => []EffectIsKept
  <1>1. LedgerInv => EffectIsKept
    BY DEF LedgerInv
  <1> QED
    BY <1>1, LedgerInvHolds, PTL

(* sequence.mark_started follows the commit of the writer.start row. *)
THEOREM StartsAreRecorded == LedgerSpec => []StartIsRecorded
  <1>1. LedgerInv => StartIsRecorded
    BY DEF LedgerInv
  <1> QED
    BY <1>1, LedgerInvHolds, PTL
-----------------------------------------------------------------------------
(* Where the numbers are. *)

(* A call has its own number to answer for in Own, and is in a transaction, *)
(* with SQLite's write lock, in InTx.                                       *)
Own  == {"numbered", "inserted", "ready", "unsaved", "failed", "appended"}
InTx == {"inserted", "opened", "unsaved", "ready", "rowless"}

(* The gap rows there are: in the database, or claimed by the transaction. *)
InHand == IF lock = None THEN {} ELSE gaps[lock]
Rows   == gapRows \union InHand

(* A number whose write failed, and that a gap row names or will name. *)
Named(w, n) == n \in missing[w] \/ \E g \in Rows : g.writer = w /\ n \in g.span

(* Gap rows are claimed in a transaction and are not in the database yet. *)
OneTransaction ==
    /\ \A e \in Event : pc[e] \in InTx <=> lock = e
    /\ InHand \intersect gapRows = {}
    /\ \A e \in Event : gaps[e] # {} => pc[e] \in (InTx \ {"inserted"}) \union {"cut"}
    /\ flock \in Event => pc[flock] \in {"flushing", "kept"}

(* A row that was not written yet, or is lost, is nowhere. *)
Unwritten ==
    /\ \A e \in saved : num[e] # 0
    /\ \A e \in Event :
          /\ pc[e] = "opened" => num[e] = 0
          /\ pc[e] \in {"new", "numbered", "inserted", "ready", "opened", "failed", "unsaved", "lost"}
                => e \notin saved /\ e \notin spool

(* A number is named once, by its writer or by one gap row, and never while *)
(* it is the number of a gap row.                                           *)
NamedByOne ==
    /\ \A g \in Rows :
          /\ g.seq \notin missing[g.writer] /\ g.span \intersect missing[g.writer] = {}
          /\ \A n \in g.span : n < next[g.writer]
    /\ \A g, h \in Rows : g.writer = h.writer =>
          /\ h.seq \notin g.span
          /\ g # h => g.seq # h.seq /\ g.span \intersect h.span = {}

(* Nor is it named while its call holds it. Of the rows that were numbered  *)
(* outside a batch only the spooled and the lost are named.                 *)
NamedIsFree ==
    \A e \in Event : num[e] # 0 /\ Named(by[e], num[e]) =>
        /\ pc[e] \notin Own
        /\ mode[e] # "batch" => pc[e] \in {"waiting", "lost"}

(* Each number a running process gave out is somewhere. *)
Located(w, n) ==
    \/ Named(w, n)
    \/ \E g \in Rows : g.writer = w /\ g.seq = n
    \/ \E e \in Event : by[e] = w /\ num[e] = n /\ (e \in saved \/ pc[e] \in Own \union {"undone"})

AllLocated == \A w \in Writer : alive[w] => \A n \in 1 .. next[w] - 1 : Located(w, n)

GapInv == OneTransaction /\ Unwritten /\ NamedByOne /\ NamedIsFree /\ AllLocated

-----------------------------------------------------------------------------
(* The gap rows there are, as typed values. *)
LEMMA RowsTyped ==
    ASSUME LedgerTypeOK
    PROVE  /\ Rows \in SUBSET GapRow
           /\ \A g \in Rows : g.writer \in Writer /\ g.seq \in Nat /\ g.span \in SUBSET Nat
  <1>1. InHand \in SUBSET GapRow
    BY DEF LedgerTypeOK, InHand
  <1>2. Rows \in SUBSET GapRow
    BY <1>1 DEF LedgerTypeOK, Rows
  <1> QED
    BY <1>2 DEF GapRow

(* A step that claims no gaps: rows may be dropped and numbers noted, as    *)
(* long as nothing that is named, or is the number of a row, is noted again *)
(* and what a call lets go of is in the database or noted.                  *)
LEMMA NoClaim ==
    ASSUME LedgerTypeOK, LedgerTypeOK', NamedByOne, NamedIsFree, AllLocated,
           Rows' \subseteq Rows,
           \A v \in Writer :
               /\ next[v] <= next'[v] /\ missing[v] \subseteq missing'[v]
               /\ alive'[v] => alive[v]
               /\ \A n \in missing'[v] \ missing[v] :
                     \A g \in Rows' : g.writer = v => g.seq # n /\ n \notin g.span
               /\ alive'[v] => \A n \in next[v] .. next'[v] - 1 :
                     \/ n \in missing'[v]
                     \/ \E f \in Event : by'[f] = v /\ num'[f] = n /\ pc'[f] \in Own,
           \A g \in Rows : alive'[g.writer] =>
               \/ g \in Rows'
               \/ g.seq \in missing'[g.writer] /\ g.span \subseteq missing'[g.writer],
           \A f \in Event : num[f] # 0 =>
               /\ num'[f] = num[f] /\ by'[f] = by[f] /\ mode'[f] = mode[f] /\ by[f] \in Writer
               /\ \/ pc'[f] = pc[f]
                  \/ pc[f] \notin {"waiting", "lost"} /\ (pc'[f] \in Own => pc[f] \in Own)
               /\ num[f] \in missing'[by[f]] \ missing[by[f]] =>
                     \/ Named(by[f], num[f])
                     \/ pc'[f] \notin Own /\ (mode[f] # "batch" => pc'[f] \in {"waiting", "lost"})
               /\ (f \in saved \/ pc[f] \in Own \union {"undone"}) /\ alive'[by[f]] =>
                     \/ f \in saved' \/ pc'[f] \in Own \union {"undone"}
                     \/ num[f] \in missing'[by[f]],
           \A f \in Event : num[f] = 0 /\ num'[f] # 0 =>
               /\ by'[f] \in Writer
               /\ num'[f] >= next[by'[f]] /\ num'[f] \notin missing'[by'[f]]
    PROVE  NamedByOne' /\ NamedIsFree' /\ AllLocated'
  <1>r. \A g \in Rows : g.writer \in Writer /\ g.seq \in Nat /\ g.span \in SUBSET Nat
    BY RowsTyped
  <1>n. /\ \A v \in Writer : next[v] \in Nat /\ next'[v] \in Nat /\ missing'[v] \in SUBSET Nat
        /\ \A f \in Event : num[f] \in Nat /\ num'[f] \in Nat
    BY DEF LedgerTypeOK
  <1>1. NamedByOne'
    <2>1. ASSUME NEW g \in Rows'
          PROVE  /\ g.seq \notin missing'[g.writer] /\ g.span \intersect missing'[g.writer] = {}
                 /\ \A n \in g.span : n < next'[g.writer]
      <3>1. /\ g \in Rows /\ g.writer \in Writer /\ g.span \in SUBSET Nat
            /\ g.seq \notin missing[g.writer] /\ g.span \intersect missing[g.writer] = {}
            /\ \A n \in g.span : n < next[g.writer]
        BY <1>r DEF NamedByOne
      <3> QED
        BY <3>1, <1>n
    <2>2. ASSUME NEW g \in Rows', NEW h \in Rows', g.writer = h.writer
          PROVE  h.seq \notin g.span /\ (g # h => g.seq # h.seq /\ g.span \intersect h.span = {})
      BY <2>2 DEF NamedByOne
    <2> QED
      BY <2>1, <2>2 DEF NamedByOne
  <1>2. ASSUME NEW e \in Event, num'[e] # 0, Named(by[e], num[e])'
        PROVE  pc'[e] \notin Own /\ (mode'[e] # "batch" => pc'[e] \in {"waiting", "lost"})
    <2>1. num[e] # 0
      <3> SUFFICES ASSUME num[e] = 0 PROVE FALSE
        OBVIOUS
      <3>1. by'[e] \in Writer /\ num'[e] >= next[by'[e]] /\ num'[e] \notin missing'[by'[e]]
        BY <1>2
      <3>2. PICK g \in Rows' : g.writer = by'[e] /\ num'[e] \in g.span
        BY <1>2, <3>1 DEF Named
      <3>3. num'[e] < next[by'[e]]
        BY <3>2 DEF NamedByOne
      <3> QED
        BY <3>1, <3>3, <1>n
    <2>2. num'[e] = num[e] /\ by'[e] = by[e] /\ mode'[e] = mode[e] /\ by[e] \in Writer
      BY <2>1
    <2>3. Named(by[e], num[e]) \/ num[e] \in missing'[by[e]] \ missing[by[e]]
      BY <1>2, <2>2 DEF Named
    <2>4. CASE Named(by[e], num[e])
      <3>1. pc[e] \notin Own /\ (mode[e] # "batch" => pc[e] \in {"waiting", "lost"})
        BY <2>1, <2>4 DEF NamedIsFree
      <3>2. \/ pc'[e] = pc[e]
            \/ pc[e] \notin {"waiting", "lost"} /\ (pc'[e] \in Own => pc[e] \in Own)
        BY <2>1
      <3> QED
        BY <2>2, <3>1, <3>2
    <2>5. CASE ~Named(by[e], num[e])
      <3>1. pc'[e] \notin Own /\ (mode[e] # "batch" => pc'[e] \in {"waiting", "lost"})
        BY <2>1, <2>3, <2>5
      <3> QED
        BY <2>2, <3>1
    <2> QED
      BY <2>4, <2>5
  <1>3. ASSUME NEW v \in Writer, alive'[v], NEW n \in 1 .. next'[v] - 1
        PROVE  Located(v, n)'
    <2>1. CASE n \in next[v] .. next'[v] - 1
      BY <1>3, <2>1 DEF Located, Named
    <2>2. CASE n \in 1 .. next[v] - 1
      <3>1. Located(v, n)
        BY <1>3, <2>2 DEF AllLocated
      <3>2. CASE n \in missing[v]
        BY <3>2 DEF Located, Named
      <3>3. CASE \E g \in Rows : g.writer = v /\ (n \in g.span \/ g.seq = n)
        BY <1>3, <3>3 DEF Located, Named
      <3>4. CASE \E e \in Event : /\ by[e] = v /\ num[e] = n
                                  /\ e \in saved \/ pc[e] \in Own \union {"undone"}
        <4>1. PICK e \in Event : /\ by[e] = v /\ num[e] = n
                                 /\ e \in saved \/ pc[e] \in Own \union {"undone"}
          BY <3>4
        <4>2. num[e] # 0 /\ alive'[by[e]]
          BY <1>3, <4>1
        <4>3. /\ num'[e] = n /\ by'[e] = v
              /\ \/ e \in saved' \/ pc'[e] \in Own \union {"undone"}
                 \/ n \in missing'[v]
          BY <4>1, <4>2
        <4> QED
          BY <4>3 DEF Located, Named
      <3> QED
        BY <3>1, <3>2, <3>3, <3>4 DEF Located, Named
    <2> QED
      BY <1>n, <1>3, <2>1, <2>2
  <1> QED
    BY <1>1, <1>2, <1>3 DEF NamedIsFree, AllLocated

(* The numbers of gap rows were given out. *)
LEMMA RowsIssued ==
    ASSUME LedgerTypeOK, NumbersIssued
    PROVE  \A g \in Rows : g.seq < next[g.writer]
  <1>1. \A g \in InHand : g.seq < next[g.writer]
    BY DEF InHand, LedgerTypeOK, NumbersIssued
  <1> QED
    BY <1>1 DEF Rows, NumbersIssued

(* A step that claims the gaps of a writer: what is named stays named, by a *)
(* gap row now, and every number it takes is the number of a gap row.       *)
LEMMA Claim ==
    ASSUME LedgerTypeOK, LedgerTypeOK', NumbersIssued, NamedByOne, NamedIsFree, AllLocated,
           NEW w \in Writer,
           Rows' = Rows \union Owed(w),
           missing' = [missing EXCEPT ![w] = @ \ Spans(Owed(w))],
           next' = [next EXCEPT ![w] = @ + Cardinality(Owed(w))],
           UNCHANGED <<num, alive, saved>>,
           \A f \in Event : num[f] # 0 =>
               /\ by'[f] = by[f] /\ mode'[f] = mode[f] /\ by[f] \in Writer
               /\ \/ pc'[f] = pc[f]
                  \/ pc[f] \notin {"waiting", "lost", "undone"} /\ (pc'[f] \in Own <=> pc[f] \in Own)
    PROVE  NamedByOne' /\ NamedIsFree' /\ AllLocated'
  <1>r. \A g \in Rows : /\ g.writer \in Writer /\ g.seq \in Nat /\ g.span \in SUBSET Nat
                        /\ g.seq < next[g.writer]
    BY RowsTyped, RowsIssued
  <1>o. /\ next[w] \in Nat /\ Cardinality(Owed(w)) \in Nat
        /\ \A g \in Owed(w) : /\ g.writer = w /\ g.span \subseteq missing[w]
                              /\ g.seq \in Nat /\ next[w] <= g.seq
        /\ \A g, h \in Owed(w) : g # h => g.seq # h.seq /\ g.span \intersect h.span = {}
        /\ \A n \in next[w] .. next[w] + Cardinality(Owed(w)) - 1 : n \in Seqs(Owed(w))
    BY OwedNumbered DEF GapRow
  <1>n. /\ \A v \in Writer : /\ next[v] \in Nat /\ missing[v] \in SUBSET Nat
                             /\ \A n \in missing[v] : n < next[v]
        /\ \A v \in Writer : v # w => next'[v] = next[v] /\ missing'[v] = missing[v]
        /\ next'[w] = next[w] + Cardinality(Owed(w)) /\ missing'[w] = missing[w] \ Spans(Owed(w))
    BY DEF LedgerTypeOK, NumbersIssued
  <1>s. \A n : n \in Spans(Owed(w)) <=> \E g \in Owed(w) : n \in g.span
    BY DEF Spans
  <1>1. \A v \in Writer : \A n : Named(v, n)' <=> Named(v, n)
    <2>1. ASSUME NEW v \in Writer, NEW n, Named(v, n)' PROVE Named(v, n)
      <3>1. CASE n \in missing'[v]
        BY <3>1, <1>n DEF Named
      <3>2. CASE \E g \in Rows' : g.writer = v /\ n \in g.span
        BY <3>2, <1>o DEF Named
      <3> QED
        BY <2>1, <3>1, <3>2 DEF Named
    <2>2. ASSUME NEW v \in Writer, NEW n, Named(v, n) PROVE Named(v, n)'
      <3>1. CASE n \in missing[v]
        <4>1. n \in missing'[v] \/ (v = w /\ n \in Spans(Owed(w)))
          BY <3>1, <1>n
        <4> QED
          BY <4>1, <1>s, <1>o DEF Named
      <3>2. CASE \E g \in Rows : g.writer = v /\ n \in g.span
        BY <3>2 DEF Named
      <3> QED
        BY <2>2, <3>1, <3>2 DEF Named
    <2> QED
      BY <2>1, <2>2
  <1>2. NamedByOne'
    <2>1. ASSUME NEW g \in Rows
          PROVE  /\ g.seq \notin missing'[g.writer] /\ g.span \intersect missing'[g.writer] = {}
                 /\ \A n \in g.span : n < next'[g.writer]
      <3>1. /\ g.seq \notin missing[g.writer] /\ g.span \intersect missing[g.writer] = {}
            /\ \A n \in g.span : n < next[g.writer]
        BY DEF NamedByOne
      <3>2. missing'[g.writer] \subseteq missing[g.writer] /\ next[g.writer] <= next'[g.writer]
        BY <1>r, <1>n, <1>o
      <3> QED
        BY <3>1, <3>2, <1>r, <1>n, <1>o
    <2>2. ASSUME NEW g \in Owed(w)
          PROVE  /\ g.seq \notin missing'[g.writer] /\ g.span \intersect missing'[g.writer] = {}
                 /\ \A n \in g.span : n < next'[g.writer]
      <3>1. g.writer = w /\ g.span \subseteq missing[w] /\ g.seq \in Nat /\ next[w] <= g.seq
        BY <1>o
      <3>2. g.seq \notin missing[w]
        BY <3>1, <1>n, <1>o
      <3>3. g.span \intersect missing'[w] = {}
        BY <1>n, <1>s
      <3>4. \A n \in g.span : n < next'[w]
        BY <3>1, <1>n, <1>o
      <3> QED
        BY <3>1, <3>2, <3>3, <3>4, <1>n
    <2>3. ASSUME NEW g \in Rows, NEW h \in Rows, g.writer = h.writer
          PROVE  h.seq \notin g.span /\ (g # h => g.seq # h.seq /\ g.span \intersect h.span = {})
      BY <2>3 DEF NamedByOne
    <2>4. ASSUME NEW g \in Rows, NEW h \in Owed(w), g.writer = h.writer
          PROVE  /\ h.seq \notin g.span /\ g.seq \notin h.span
                 /\ g.seq # h.seq /\ g.span \intersect h.span = {}
      <3>1. g.writer = w /\ h.span \subseteq missing[w] /\ h.seq \in Nat /\ next[w] <= h.seq
        BY <2>4, <1>o
      <3>2. /\ g.seq \notin missing[w] /\ g.span \intersect missing[w] = {}
            /\ \A n \in g.span : n < next[w]
        BY <3>1 DEF NamedByOne
      <3> QED
        BY <3>1, <3>2, <1>r, <1>o
    <2>5. ASSUME NEW g \in Owed(w), NEW h \in Owed(w)
          PROVE  h.seq \notin g.span /\ (g # h => g.seq # h.seq /\ g.span \intersect h.span = {})
      <3>1. g.span \subseteq missing[w] /\ h.seq \in Nat /\ next[w] <= h.seq
        BY <1>o
      <3> QED
        BY <3>1, <1>n, <1>o
    <2> QED
      BY <2>1, <2>2, <2>3, <2>4, <2>5 DEF NamedByOne
  <1>3. NamedIsFree'
    <2> SUFFICES ASSUME NEW e \in Event, num[e] # 0, Named(by[e], num[e])'
                 PROVE  pc'[e] \notin Own /\ (mode'[e] # "batch" => pc'[e] \in {"waiting", "lost"})
      BY DEF NamedIsFree
    <2>1. by'[e] = by[e] /\ by[e] \in Writer /\ mode'[e] = mode[e]
      OBVIOUS
    <2>2. Named(by[e], num[e])
      BY <1>1, <2>1 DEF Named
    <2>3. pc[e] \notin Own /\ (mode[e] # "batch" => pc[e] \in {"waiting", "lost"})
      BY <2>2 DEF NamedIsFree
    <2> QED
      BY <2>1, <2>3
  <1>4. ASSUME NEW v \in Writer, alive[v], NEW n \in 1 .. next'[v] - 1
        PROVE  Located(v, n)'
    <2>1. CASE v = w /\ n \in next[w] .. next[w] + Cardinality(Owed(w)) - 1
      <3>1. PICK g \in Owed(w) : g.seq = n
        BY <2>1, <1>o DEF Seqs
      <3> QED
        BY <2>1, <3>1, <1>o DEF Located
    <2>2. CASE n \in 1 .. next[v] - 1
      <3>1. Located(v, n)
        BY <1>4, <2>2 DEF AllLocated
      <3>2. ASSUME NEW e \in Event, by[e] = v, num[e] = n, e \in saved \/ pc[e] \in Own \union {"undone"}
            PROVE  by'[e] = v /\ num'[e] = n /\ (e \in saved' \/ pc'[e] \in Own \union {"undone"})
        <4>1. num[e] # 0
          BY <3>2
        <4> QED
          BY <3>2, <4>1
      <3> QED
        BY <3>1, <3>2, <1>1 DEF Located
    <2> QED
      BY <1>n, <1>o, <1>4, <2>1, <2>2
  <1> QED
    BY <1>2, <1>3, <1>4 DEF AllLocated

(* A step that notes nothing and gives no number. *)
LEMMA NothingNoted ==
    ASSUME LedgerTypeOK, LedgerTypeOK', NumbersIssued, NamedByOne, NamedIsFree, AllLocated,
           UNCHANGED <<num, by, mode, next, missing>>,
           saved \subseteq saved', Rows' \subseteq Rows,
           \A v \in Writer : alive'[v] => alive[v],
           \A g \in Rows : alive'[g.writer] => g \in Rows',
           \A f \in Event : num[f] # 0 =>
               /\ \/ pc'[f] = pc[f]
                  \/ pc[f] \notin {"waiting", "lost"} /\ (pc'[f] \in Own => pc[f] \in Own)
               /\ pc[f] \in Own \union {"undone"} /\ alive'[by[f]] =>
                     f \in saved' \/ pc'[f] \in Own \union {"undone"}
    PROVE  NamedByOne' /\ NamedIsFree' /\ AllLocated'
  <1>1. \A v \in Writer : next[v] \in Nat
    BY DEF LedgerTypeOK
  <1>2. \A f \in Event : num[f] # 0 => by[f] \in Writer
    BY DEF NumbersIssued
  <1> QED
    BY <1>1, <1>2, NoClaim

(* While a call holds its number, no gap row has it or names it. *)
LEMMA NumberApart ==
    ASSUME LedgerTypeOK, NumbersIssued, NumbersUnique, NamedIsFree,
           NEW e \in Event, pc[e] \in Own, num[e] # 0
    PROVE  \A g \in Rows : g.writer = by[e] => g.seq # num[e] /\ num[e] \notin g.span
  <1>1. \A g \in Rows : g.writer = by[e] => num[e] \notin g.span
    BY DEF NamedIsFree, Named
  <1>2. \A g \in gapRows : g.writer = by[e] => g.seq # num[e]
    BY DEF NumbersUnique
  <1>3. \A g \in InHand : g.writer = by[e] => g.seq # num[e]
    <2> SUFFICES ASSUME NEW g \in InHand, g.writer = by[e] PROVE g.seq # num[e]
      OBVIOUS
    <2>1. lock \in Event /\ g \in gaps[lock]
      BY DEF InHand, LedgerTypeOK
    <2>2. by[lock] = g.writer
      BY <2>1 DEF NumbersIssued
    <2> QED
      BY <2>1, <2>2 DEF NumbersUnique
  <1> QED
    BY <1>1, <1>2, <1>3 DEF Rows

(* A step in which a call notes the number of its own row as missing and    *)
(* lets go of it.                                                           *)
LEMMA OwnNoted ==
    ASSUME LedgerTypeOK, LedgerTypeOK', NumbersIssued, NumbersUnique,
           NamedByOne, NamedIsFree, AllLocated,
           NEW e \in Event, pc[e] \in Own, num[e] # 0,
           missing' = [missing EXCEPT ![by[e]] = @ \union {num[e]}],
           UNCHANGED <<num, by, mode, next, alive, saved>>, Rows' = Rows,
           \A f \in Event : f # e => pc'[f] = pc[f],
           pc'[e] \notin Own,
           mode[e] # "batch" => pc'[e] \in {"waiting", "lost"}
    PROVE  NamedByOne' /\ NamedIsFree' /\ AllLocated'
  <1>1. /\ \A v \in Writer : next[v] \in Nat
        /\ \A f \in Event : num[f] # 0 => by[f] \in Writer
    BY DEF LedgerTypeOK, NumbersIssued
  <1>2. /\ missing'[by[e]] = missing[by[e]] \union {num[e]}
        /\ \A v \in Writer : v # by[e] => missing'[v] = missing[v]
    BY <1>1 DEF LedgerTypeOK
  <1>4. \A g \in Rows : g.writer = by[e] => g.seq # num[e] /\ num[e] \notin g.span
    BY NumberApart
  <1>5. \A f \in Event : num[f] # 0 /\ num[f] \in missing'[by[f]] \ missing[by[f]] => f = e
    BY <1>1, <1>2 DEF NumbersUnique
  <1>6. \A f \in Event : num[f] # 0 =>
           /\ \/ pc'[f] = pc[f]
              \/ pc[f] \notin {"waiting", "lost"} /\ (pc'[f] \in Own => pc[f] \in Own)
           /\ f \in saved \/ pc[f] \in Own \union {"undone"} =>
                 \/ f \in saved' \/ pc'[f] \in Own \union {"undone"}
                 \/ num[f] \in missing'[by[f]]
    BY <1>2 DEF Own
  <1> QED
    BY <1>1, <1>2, <1>4, <1>5, <1>6, NoClaim

(* A step in which a write of w fails: the gap rows it claimed are dropped, *)
(* what they named is noted again with their own numbers, and so are other  *)
(* numbers, which nobody else answers for.                                  *)
LEMMA Dropped ==
    ASSUME LedgerTypeOK, LedgerTypeOK', NumbersIssued, NumbersUnique,
           NamedByOne, NamedIsFree, AllLocated,
           NEW w \in Writer,
           Rows' \subseteq Rows, UNCHANGED <<num, alive, saved>>,
           \A g \in Rows : \/ g \in Rows'
                           \/ /\ g.writer = w
                              /\ g.seq \in missing'[w] /\ g.span \subseteq missing'[w],
           \A v \in Writer : v # w => next'[v] = next[v] /\ missing'[v] = missing[v],
           missing[w] \subseteq missing'[w] /\ next[w] <= next'[w],
           \A n \in next[w] .. next'[w] - 1 : n \in missing'[w],
           \A n \in missing'[w] \ missing[w] :
               \/ \E h \in Rows \ Rows' : n \in h.span \/ n = h.seq
               \/ /\ \A g \in Rows : g.writer = w => g.seq # n /\ n \notin g.span
                  /\ \A f \in Event : by[f] = w /\ num[f] = n =>
                        /\ pc'[f] \notin Own
                        /\ mode[f] # "batch" => pc'[f] \in {"waiting", "lost"},
           \A f \in Event : num[f] # 0 =>
               /\ by'[f] = by[f] /\ mode'[f] = mode[f]
               /\ \/ pc'[f] = pc[f]
                  \/ pc[f] \notin {"waiting", "lost"} /\ (pc'[f] \in Own => pc[f] \in Own)
               /\ pc[f] \in Own \union {"undone"} =>
                     pc'[f] \in Own \union {"undone"} \/ (by[f] = w /\ num[f] \in missing'[w])
    PROVE  NamedByOne' /\ NamedIsFree' /\ AllLocated'
  <1>1. /\ \A v \in Writer : next[v] \in Nat /\ next'[v] \in Nat
        /\ \A f \in Event : num[f] # 0 => by[f] \in Writer
        /\ \A f \in Event : num[f] \in Nat
    BY DEF LedgerTypeOK, NumbersIssued
  <1>3. ASSUME NEW n \in missing'[w] \ missing[w], NEW g \in Rows', g.writer = w
        PROVE  g.seq # n /\ n \notin g.span
    <2>1. CASE \A h \in Rows : h.writer = w => h.seq # n /\ n \notin h.span
      BY <1>3, <2>1
    <2>2. CASE \E h \in Rows \ Rows' : n \in h.span \/ n = h.seq
      <3>1. PICK h \in Rows \ Rows' : n \in h.span \/ n = h.seq
        BY <2>2
      <3>2. h \in Rows /\ g \in Rows /\ g # h /\ h.writer = w
        BY <1>3
      <3> QED
        BY <1>3, <3>1, <3>2 DEF NamedByOne
    <2> QED
      BY <2>1, <2>2
  <1>4. \A f \in Event : num[f] # 0 => \A g \in Rows : g.writer = by[f] => g.seq # num[f]
    <2> SUFFICES ASSUME NEW f \in Event, num[f] # 0, NEW g \in Rows, g.writer = by[f]
                 PROVE  g.seq # num[f]
      OBVIOUS
    <2>1. CASE g \in gapRows
      BY <2>1 DEF NumbersUnique
    <2>2. CASE g \in InHand
      <3>1. lock \in Event /\ g \in gaps[lock]
        BY <2>2 DEF InHand, LedgerTypeOK
      <3>2. by[lock] = g.writer
        BY <3>1 DEF NumbersIssued
      <3> QED
        BY <3>1, <3>2 DEF NumbersUnique
    <2> QED
      BY <2>1, <2>2 DEF Rows
  <1>5. ASSUME NEW f \in Event, num[f] # 0, num[f] \in missing'[by[f]] \ missing[by[f]]
        PROVE  \/ Named(by[f], num[f])
               \/ pc'[f] \notin Own /\ (mode[f] # "batch" => pc'[f] \in {"waiting", "lost"})
    <2>1. by[f] = w
      BY <1>1, <1>5
    <2>2. CASE \E h \in Rows \ Rows' : num[f] \in h.span \/ num[f] = h.seq
      <3>1. PICK h \in Rows \ Rows' : num[f] \in h.span \/ num[f] = h.seq
        BY <2>2
      <3>2. h \in Rows /\ h.writer = w /\ h.seq # num[f]
        BY <1>4, <1>5, <2>1
      <3> QED
        BY <2>1, <3>1, <3>2 DEF Named
    <2> QED
      BY <1>5, <2>1, <2>2
  <1>6. \A g \in Rows : \/ g \in Rows'
                        \/ g.seq \in missing'[g.writer] /\ g.span \subseteq missing'[g.writer]
    OBVIOUS
  <1>7. \A f \in Event : num[f] # 0 /\ (f \in saved \/ pc[f] \in Own \union {"undone"}) =>
           \/ f \in saved' \/ pc'[f] \in Own \union {"undone"}
           \/ num[f] \in missing'[by[f]]
    OBVIOUS
  <1>8. \A v \in Writer : /\ next[v] <= next'[v] /\ missing[v] \subseteq missing'[v]
                          /\ \A n \in next[v] .. next'[v] - 1 : n \in missing'[v]
                          /\ \A n \in missing'[v] \ missing[v] :
                                \A g \in Rows' : g.writer = v => g.seq # n /\ n \notin g.span
    <2> TAKE v \in Writer
    <2>1. CASE v = w
      BY <2>1, <1>3
    <2>2. CASE v # w
      BY <2>2, <1>1
    <2> QED
      BY <2>1, <2>2
  <1> QED
    BY <1>1, <1>5, <1>6, <1>7, <1>8, NoClaim

-----------------------------------------------------------------------------
(* Transactions and unwritten rows, action by action. *)
LEMMA TxStep ==
    ASSUME LedgerInv, LedgerInv', OneTransaction, Unwritten, [LedgerNext]_ledgerVars
    PROVE  OneTransaction' /\ Unwritten'
  <1> USE DEF ledgerVars, opVars, seqVars, dbVars, spoolVars, drainVars
  <1>t. /\ LedgerTypeOK /\ NumbersIssued /\ RowsAreNumbered /\ BatchOnly
        /\ OneTransaction /\ Unwritten /\ None \notin Event /\ LedgerTypeOK'
    BY LedgerAssumption DEF LedgerInv
  <1>o. /\ \A e \in Event : pc[e] # "new" => by[e] \in Writer
        /\ \A w \in Writer : next[w] \in Nat /\ next[w] # 0
    BY <1>t DEF NumbersIssued, LedgerTypeOK
  <1> USE <1>t DEF OneTransaction, Unwritten, InHand, InTx
  <1>1. ASSUME NEW e \in Event, NEW w \in Writer, NEW m \in Mode, Record(e, w, m)
        PROVE  OneTransaction' /\ Unwritten'
    BY <1>1, <1>o DEF Record, Idle, Moves, Allocate, LedgerTypeOK
  <1>2. ASSUME NEW e \in Event, NEW w \in Writer, BatchOpen(e, w) PROVE OneTransaction' /\ Unwritten'
    <2>1. Owed(w) \intersect gapRows = {}
      <3>1. \A g \in Owed(w) : g.writer = w /\ next[w] <= g.seq /\ g.seq \in Nat
        BY OwedNumbered DEF GapRow
      <3>2. \A g \in gapRows : g.seq < next[g.writer]
        BY DEF NumbersIssued
      <3> QED
        BY <3>1, <3>2, <1>o
    <2> QED
      BY <1>2, <2>1 DEF BatchOpen, Idle, Moves, LedgerTypeOK, NumbersIssued
  <1>3. ASSUME NEW e \in Event, Insert(e) PROVE OneTransaction' /\ Unwritten'
    BY <1>3 DEF Insert, Moves, LedgerTypeOK
  <1>4. ASSUME NEW e \in Event, WritePreamble(e) PROVE OneTransaction' /\ Unwritten'
    <2>1. Owed(by[e]) \intersect gapRows = {}
      <3>0. by[e] \in Writer
        BY <1>4, <1>o DEF WritePreamble
      <3>1. \A g \in Owed(by[e]) : g.writer = by[e] /\ next[by[e]] <= g.seq /\ g.seq \in Nat
        BY <3>0, OwedNumbered DEF GapRow
      <3>2. \A g \in gapRows : g.seq < next[g.writer]
        BY DEF NumbersIssued
      <3> QED
        BY <3>0, <3>1, <3>2, <1>o
    <2> QED
      BY <1>4, <2>1 DEF WritePreamble, Moves, LedgerTypeOK
  <1>5. ASSUME NEW e \in Event, NEW last \in Seqs(Owed(by[e])), PreambleFails(e, last)
        PROVE  OneTransaction' /\ Unwritten'
    BY <1>5 DEF PreambleFails, Moves, LedgerTypeOK
  <1>6. ASSUME NEW e \in Event, WriteFails(e) PROVE OneTransaction' /\ Unwritten'
    BY <1>6 DEF WriteFails, Moves, LedgerTypeOK
  <1>7. ASSUME NEW e \in Event, Commit(e) PROVE OneTransaction' /\ Unwritten'
    BY <1>7 DEF Commit, Moves, LedgerTypeOK, RowsAreNumbered
  <1>8. ASSUME NEW e \in Event, MarkStarted(e) PROVE OneTransaction' /\ Unwritten'
    BY <1>8 DEF MarkStarted, Moves, LedgerTypeOK
  <1>9. ASSUME NEW e \in Event, NEW taken \in BOOLEAN, BatchRow(e, taken)
        PROVE  OneTransaction' /\ Unwritten'
    BY <1>9, <1>o DEF BatchRow, Moves, Allocate, LedgerTypeOK
  <1>10. ASSUME NEW e \in Event, BatchFails(e) PROVE OneTransaction' /\ Unwritten'
    BY <1>10 DEF BatchFails, Moves, LedgerTypeOK
  <1>11. ASSUME NEW e \in Event, NEW whole \in BOOLEAN, SpoolAppend(e, whole)
         PROVE  OneTransaction' /\ Unwritten'
    BY <1>11 DEF SpoolAppend, AddLine, Moves, LedgerTypeOK
  <1>12. ASSUME NEW e \in Event, SpoolNoted(e) PROVE OneTransaction' /\ Unwritten'
    BY <1>12 DEF SpoolNoted, Moves, LedgerTypeOK
  <1>13. ASSUME NEW e \in Event, SpoolFails(e) PROVE OneTransaction' /\ Unwritten'
    BY <1>13 DEF SpoolFails, Moves, LedgerTypeOK
  <1>14. ASSUME NEW e \in Event, NoSpool(e) PROVE OneTransaction' /\ Unwritten'
    BY <1>14 DEF NoSpool, Moves, LedgerTypeOK
  <1>15. ASSUME NEW x \in Event \union Writer, DrainStart(x) PROVE OneTransaction' /\ Unwritten'
    BY <1>15, LedgerAssumption DEF DrainStart, MayDrain
  <1>16. ASSUME NEW x \in Event \union Writer, DrainApply(x) PROVE OneTransaction' /\ Unwritten'
    BY <1>16 DEF DrainApply, RowsAreNumbered
  <1>17. ASSUME NEW x \in Event \union Writer, DrainFails(x) \/ DrainDrop(x) \/ DrainDropFails(x)
         PROVE  OneTransaction' /\ Unwritten'
    <2>1. /\ spool' \subseteq spool /\ flock = x /\ flock' = None
          /\ UNCHANGED <<mode, by, num, gaps, lock, saved, gapRows>>
          /\ pc' = IF x \in Event THEN [pc EXCEPT ![x] = "kept"] ELSE pc
      BY <1>17 DEF DrainFails, DrainDrop, DrainDropFails, SetAside, DrainOver
    <2> QED
      BY <2>1 DEF LedgerTypeOK
  <1>20. ASSUME NEW e \in Event, Act(e) PROVE OneTransaction' /\ Unwritten'
    BY <1>20 DEF Act
  <1>21. ASSUME NEW w \in Writer, ProcessEnds(w) PROVE OneTransaction' /\ Unwritten'
    <2>1. /\ \A e \in Event : pc'[e] = IF by[e] = w /\ pc[e] \in InFlight THEN "cut" ELSE pc[e]
          /\ lock' = IF lock # None /\ by[lock] = w THEN None ELSE lock
          /\ UNCHANGED <<mode, by, num, gaps, saved, gapRows, spool>>
      BY <1>21 DEF ProcessEnds
    <2>2. flock' = flock \/ flock' = None
      BY <1>21 DEF ProcessEnds
    <2>3. flock' \in Event => by[flock'] # w
      BY <1>21 DEF ProcessEnds
    <2>4. Unwritten'
      BY <2>1
    <2>5. \A e \in Event : pc'[e] \in InTx <=> lock' = e
      <3> TAKE e \in Event
      <3>1. CASE by[e] = w
        BY <2>1, <3>1 DEF InFlight, Open
      <3>2. CASE by[e] # w
        BY <2>1, <3>2
      <3> QED
        BY <3>1, <3>2
    <2>6. InHand' \intersect gapRows' = {}
      BY <2>1
    <2>7. \A e \in Event : gaps'[e] # {} => pc'[e] \in (InTx \ {"inserted"}) \union {"cut"}
      BY <2>1
    <2>8. flock' \in Event => pc'[flock'] \in {"flushing", "kept"}
      BY <2>1, <2>2, <2>3
    <2> QED
      BY <2>4, <2>5, <2>6, <2>7, <2>8
  <1>22. ASSUME NEW e \in Event, NEW w \in Writer, NEW last, BatchRefused(e, w, last)
         PROVE  OneTransaction' /\ Unwritten'
    BY <1>22 DEF BatchRefused, Idle, Moves, LedgerTypeOK
  <1>23. CASE UNCHANGED ledgerVars
    BY <1>23
  <1> HIDE DEF OneTransaction, Unwritten
  <1> QED
    BY <1>1, <1>2, <1>3, <1>4, <1>5, <1>6, <1>7, <1>8, <1>9, <1>10, <1>11, <1>12, <1>13, <1>14,
       <1>15, <1>16, <1>17, <1>20, <1>21, <1>22, <1>23 DEF LedgerNext, WriteStep, DrainStep

(* Where the numbers are, action by action. *)
LEMMA GapStep ==
    ASSUME LedgerInv, LedgerInv', GapInv, OneTransaction', [LedgerNext]_ledgerVars
    PROVE  (NamedByOne /\ NamedIsFree /\ AllLocated)'
  <1> USE DEF ledgerVars, opVars, seqVars, dbVars, spoolVars, drainVars
  <1> DEFINE Goal == NamedByOne /\ NamedIsFree /\ AllLocated
  <1>t. /\ LedgerTypeOK /\ NumbersIssued /\ NumbersUnique /\ RowsAreNumbered /\ BatchOnly
        /\ OneTransaction /\ Unwritten /\ NamedByOne /\ NamedIsFree /\ AllLocated
        /\ LedgerTypeOK' /\ None \notin Event
    BY LedgerAssumption DEF LedgerInv, GapInv
  <1>o. /\ \A e \in Event : pc[e] # "new" => by[e] \in Writer
        /\ \A e \in Event : num[e] # 0 => by[e] \in Writer /\ num[e] < next[by[e]] /\ pc[e] # "new"
        /\ \A w \in Writer : next[w] \in Nat /\ next[w] # 0 /\ missing[w] \in SUBSET Nat
        /\ \A w \in Writer : \A n \in missing[w] : n < next[w]
        /\ \A e \in Event : num[e] \in Nat
    BY <1>t DEF NumbersIssued, LedgerTypeOK
  <1>r. \A g \in Rows : /\ g.writer \in Writer /\ g.seq \in Nat /\ g.span \in SUBSET Nat
                        /\ g.seq < next[g.writer] /\ \A n \in g.span : n < next[g.writer]
    BY <1>t, RowsTyped, RowsIssued DEF NamedByOne
  <1>h. ASSUME NEW e \in Event, pc[e] \in InTx PROVE InHand = gaps[e] /\ lock = e
    BY <1>t, <1>h DEF OneTransaction, InHand
  <1>1. ASSUME NEW e \in Event, NEW w \in Writer, NEW m \in Mode, Record(e, w, m) PROVE Goal'
    <2>1. Rows' = Rows /\ UNCHANGED <<missing, alive, saved>>
      BY <1>1 DEF Record, Rows, InHand
    <2>2. /\ pc[e] = "new" /\ num[e] = 0
          /\ pc'[e] = "numbered" /\ by'[e] = w /\ num'[e] = next[w] /\ next'[w] = next[w] + 1
          /\ \A f \in Event : f # e => /\ pc'[f] = pc[f] /\ by'[f] = by[f]
                                       /\ num'[f] = num[f] /\ mode'[f] = mode[f]
          /\ \A v \in Writer : v # w => next'[v] = next[v]
      BY <1>1, <1>t DEF Record, Idle, Moves, Allocate, LedgerTypeOK, NumbersIssued
    <2>3. \A v \in Writer : /\ next[v] <= next'[v]
                            /\ \A n \in next[v] .. next'[v] - 1 :
                                  by'[e] = v /\ num'[e] = n /\ pc'[e] \in Own
      BY <2>2, <1>o DEF Own
    <2>4. num'[e] >= next[w] /\ num'[e] \notin missing[w]
      BY <2>2, <1>o
    <2> QED
      BY <1>t, <1>o, <2>1, <2>2, <2>3, <2>4, NoClaim
  <1>2. ASSUME NEW e \in Event, NEW w \in Writer, BatchOpen(e, w) PROVE Goal'
    <2>1. Rows' = Rows \union Owed(w)
      BY <1>2, <1>t DEF BatchOpen, Rows, InHand, LedgerTypeOK
    <2>2. /\ pc[e] = "new" /\ num[e] = 0
          /\ \A f \in Event : f # e => pc'[f] = pc[f] /\ by'[f] = by[f] /\ mode'[f] = mode[f]
      BY <1>2, <1>t DEF BatchOpen, Idle, Moves, LedgerTypeOK, NumbersIssued
    <2>3. /\ missing' = [missing EXCEPT ![w] = @ \ Spans(Owed(w))]
          /\ next' = [next EXCEPT ![w] = @ + Cardinality(Owed(w))]
          /\ UNCHANGED <<num, alive, saved>>
      BY <1>2 DEF BatchOpen
    <2> QED
      BY <1>t, <1>o, <2>1, <2>2, <2>3, Claim
  <1>3. ASSUME NEW e \in Event, Insert(e) PROVE Goal'
    <2>1. Rows' = Rows
      BY <1>3, <1>t DEF Insert, Rows, InHand, OneTransaction, InTx
    <2> QED
      BY <1>3, <1>t, <2>1, NothingNoted DEF Insert, Moves, LedgerTypeOK, Own
  <1>4. ASSUME NEW e \in Event, WritePreamble(e) PROVE Goal'
    <2>1. Rows' = Rows \union Owed(by[e])
      BY <1>4, <1>t, <1>h DEF WritePreamble, Rows, InHand, OneTransaction, InTx, LedgerTypeOK
    <2>2. /\ by[e] \in Writer /\ pc[e] = "inserted" /\ pc'[e] = "ready"
          /\ \A f \in Event : f # e => pc'[f] = pc[f]
          /\ UNCHANGED <<by, mode>>
      BY <1>4, <1>t, <1>o DEF WritePreamble, Moves, LedgerTypeOK
    <2>3. /\ missing' = [missing EXCEPT ![by[e]] = @ \ Spans(Owed(by[e]))]
          /\ next' = [next EXCEPT ![by[e]] = @ + Cardinality(Owed(by[e]))]
          /\ UNCHANGED <<num, alive, saved>>
      BY <1>4 DEF WritePreamble
    <2>4. pc[e] \notin {"waiting", "lost", "undone"} /\ pc[e] \in Own /\ pc'[e] \in Own
      BY <2>2 DEF Own
    <2> QED
      BY <1>t, <1>o, <2>1, <2>2, <2>3, <2>4, Claim
  <1>7. ASSUME NEW e \in Event, Commit(e) PROVE Goal'
    <2>1. Rows' = Rows
      BY <1>7, <1>t, <1>h DEF Commit, Rows, InHand, InTx
    <2>2. /\ pc[e] \in {"ready", "rowless"} /\ (pc[e] = "ready" => e \in saved')
          /\ pc'[e] = "committed" /\ \A f \in Event : f # e => pc'[f] = pc[f]
          /\ saved \subseteq saved' /\ UNCHANGED <<num, by, mode, next, missing, alive>>
      BY <1>7, <1>t DEF Commit, Moves, LedgerTypeOK
    <2>3. pc'[e] \notin Own /\ pc[e] \notin {"waiting", "lost", "undone"} /\ (pc[e] \in Own => e \in saved')
      BY <2>2 DEF Own
    <2> QED
      BY <1>t, <2>1, <2>2, <2>3, NothingNoted
  <1>8. ASSUME NEW e \in Event, MarkStarted(e) \/ NoSpool(e) PROVE Goal'
    <2>1. Rows' = Rows
      BY <1>8 DEF MarkStarted, NoSpool, Rows, InHand
    <2> QED
      BY <1>8, <1>t, <2>1, NothingNoted DEF MarkStarted, NoSpool, Moves, LedgerTypeOK, Own
  <1>9. ASSUME NEW e \in Event, NEW taken \in BOOLEAN, BatchRow(e, taken) PROVE Goal'
    <2>1. Rows' = Rows /\ UNCHANGED <<missing, alive, saved, by, mode>>
      BY <1>9 DEF BatchRow, Rows, InHand
    <2>2. /\ pc[e] = "opened" /\ num[e] = 0 /\ by[e] \in Writer
          /\ pc'[e] \in {"ready", "unsaved"} /\ num'[e] = next[by[e]]
          /\ next'[by[e]] = next[by[e]] + 1
          /\ \A f \in Event : f # e => pc'[f] = pc[f] /\ num'[f] = num[f]
          /\ \A v \in Writer : v # by[e] => next'[v] = next[v]
      BY <1>9, <1>t, <1>o DEF BatchRow, Moves, Allocate, LedgerTypeOK, Unwritten
    <2>3. \A v \in Writer : /\ next[v] <= next'[v]
                            /\ \A n \in next[v] .. next'[v] - 1 :
                                  by'[e] = v /\ num'[e] = n /\ pc'[e] \in Own
      BY <2>1, <2>2, <1>o DEF Own
    <2>4. num'[e] >= next[by[e]] /\ num'[e] \notin missing[by[e]]
      BY <2>2, <1>o
    <2> QED
      BY <1>t, <1>o, <2>1, <2>2, <2>3, <2>4, NoClaim
  <1>11. ASSUME NEW e \in Event, NEW whole \in BOOLEAN, SpoolAppend(e, whole) PROVE Goal'
    <2>1. Rows' = Rows /\ UNCHANGED <<num, by, mode, next, alive, saved>>
      BY <1>11 DEF SpoolAppend, Rows, InHand
    <2>2. /\ pc[e] \in {"failed", "unsaved"} /\ num[e] # 0 /\ by[e] \in Writer
          /\ pc'[e] = IF pc[e] = "failed" THEN "appended" ELSE "rowless"
          /\ \A f \in Event : f # e => pc'[f] = pc[f]
      BY <1>11, <1>t, <1>o DEF SpoolAppend, Moves, LedgerTypeOK, RowsAreNumbered
    <2>3. CASE pc[e] = "failed"
      <3>1. missing' = missing
        BY <1>11, <1>t, <2>2, <2>3 DEF SpoolAppend, LedgerTypeOK
      <3>2. pc[e] \in Own /\ pc'[e] \in Own /\ pc[e] \notin {"waiting", "lost"}
        BY <2>2, <2>3 DEF Own
      <3> QED
        BY <1>t, <2>1, <2>2, <3>1, <3>2, NothingNoted
    <2>4. CASE pc[e] = "unsaved"
      <3>1. missing' = [missing EXCEPT ![by[e]] = @ \union {num[e]}]
        BY <1>11, <2>4 DEF SpoolAppend
      <3>2. pc[e] \in Own /\ pc'[e] \notin Own /\ mode[e] = "batch"
        BY <1>t, <2>2, <2>4 DEF Own, BatchOnly
      <3> QED
        BY <1>t, <2>1, <2>2, <3>1, <3>2, OwnNoted
    <2> QED
      BY <2>2, <2>3, <2>4
  <1>12. ASSUME NEW e \in Event, SpoolNoted(e) \/ SpoolFails(e) PROVE Goal'
    <2>1. /\ Rows' = Rows /\ UNCHANGED <<num, by, mode, next, alive, saved>>
          /\ missing' = [missing EXCEPT ![by[e]] = @ \union {num[e]}]
      BY <1>12 DEF SpoolNoted, SpoolFails, Rows, InHand
    <2>2. /\ pc[e] \in {"appended", "failed", "unsaved"} /\ num[e] # 0
          /\ pc'[e] \in {"waiting", "lost", "rowless"} /\ (pc'[e] = "rowless" => pc[e] = "unsaved")
          /\ \A f \in Event : f # e => pc'[f] = pc[f]
      BY <1>12, <1>t DEF SpoolNoted, SpoolFails, Moves, LedgerTypeOK, RowsAreNumbered
    <2>3. /\ pc[e] \in Own /\ pc'[e] \notin Own
          /\ mode[e] # "batch" => pc'[e] \in {"waiting", "lost"}
      BY <1>t, <2>2 DEF Own, BatchOnly
    <2> QED
      BY <1>t, <2>1, <2>2, <2>3, OwnNoted
  <1>15. ASSUME NEW x \in Event \union Writer, DrainStart(x) \/ DrainApply(x) PROVE Goal'
    <2>1. Rows' = Rows /\ saved \subseteq saved' /\ UNCHANGED <<num, by, mode, next, missing, pc, alive>>
      BY <1>15 DEF DrainStart, DrainApply, Rows, InHand
    <2> QED
      BY <1>t, <2>1, NothingNoted
  <1>17. ASSUME NEW x \in Event \union Writer, DrainFails(x) \/ DrainDrop(x) \/ DrainDropFails(x)
         PROVE  Goal'
    <2>1. /\ flock = x /\ UNCHANGED <<mode, by, num, next, missing, alive, saved>>
          /\ Rows' = Rows
          /\ pc' = IF x \in Event THEN [pc EXCEPT ![x] = "kept"] ELSE pc
      BY <1>17 DEF DrainFails, DrainDrop, DrainDropFails, SetAside, DrainOver, Rows, InHand
    <2>2. \A f \in Event : pc'[f] = pc[f] \/ (pc[f] \in {"flushing", "kept"} /\ pc'[f] = "kept")
      BY <2>1, <1>t DEF OneTransaction, LedgerTypeOK
    <2> QED
      BY <1>t, <2>1, <2>2, NothingNoted DEF Own
  <1>20. ASSUME UNCHANGED <<num, by, mode, next, missing, pc, alive, saved>>, Rows' = Rows PROVE Goal'
    BY <1>20, <1>t, NothingNoted
  <1>21. ASSUME NEW w \in Writer, ProcessEnds(w) PROVE Goal'
    <2>1. /\ \A e \in Event : pc'[e] = IF by[e] = w /\ pc[e] \in InFlight THEN "cut" ELSE pc[e]
          /\ lock' = IF lock # None /\ by[lock] = w THEN None ELSE lock
          /\ UNCHANGED <<mode, by, num, next, missing, gaps, saved, gapRows>>
          /\ ~alive'[w] /\ \A v \in Writer : alive'[v] => alive[v]
      BY <1>21, <1>t DEF ProcessEnds, LedgerTypeOK
    <2>2. Rows' \subseteq Rows
      BY <2>1 DEF Rows, InHand
    <2>3. ASSUME NEW g \in Rows, alive'[g.writer] PROVE g \in Rows'
      <3>1. CASE g \in gapRows
        BY <2>1, <3>1 DEF Rows
      <3>2. CASE g \in InHand
        <4>1. lock \in Event /\ g \in gaps[lock]
          BY <3>2, <1>t DEF InHand, LedgerTypeOK
        <4>2. by[lock] = g.writer
          BY <4>1, <1>t DEF NumbersIssued
        <4>3. lock' = lock
          BY <2>1, <2>3, <4>2
        <4> QED
          BY <2>1, <4>1, <4>3, <1>t DEF Rows, InHand
      <3> QED
        BY <3>1, <3>2 DEF Rows
    <2>4. \A f \in Event : /\ \/ pc'[f] = pc[f]
                              \/ pc[f] \notin {"waiting", "lost"} /\ pc'[f] \notin Own
                           /\ by[f] # w => pc'[f] = pc[f]
      BY <2>1 DEF InFlight, Open, Failing, After, Own
    <2>5. \A f \in Event : alive'[by[f]] => by[f] # w
      BY <2>1
    <2> QED
      BY <1>t, <2>1, <2>2, <2>3, <2>4, <2>5, NothingNoted
  <1>5. ASSUME NEW e \in Event, NEW last \in Seqs(Owed(by[e])), PreambleFails(e, last) PROVE Goal'
    <2>1. /\ by[e] \in Writer /\ pc[e] = "inserted" /\ num[e] # 0
          /\ pc'[e] = IF mode[e] = "marker" THEN "lost" ELSE "failed"
          /\ \A f \in Event : f # e => pc'[f] = pc[f]
          /\ UNCHANGED <<by, mode, num, alive, saved>>
      BY <1>5, <1>t, <1>o DEF PreambleFails, Moves, LedgerTypeOK, RowsAreNumbered
    <2>2. PICK w \in Writer : w = by[e]
      BY <2>1
    <2>3. last \in Nat /\ next[w] <= last
      BY <1>t, <2>2, OwedNumbered DEF Seqs, GapRow
    <2>4. Rows' = Rows
      BY <1>5, <1>t, <1>h DEF PreambleFails, Rows, InHand, OneTransaction, InTx
    <2>5. /\ missing'[w] = missing[w] \union (next[w] .. last) \union
                              (IF mode[e] = "marker" THEN {num[e]} ELSE {})
          /\ next'[w] = last + 1
          /\ \A v \in Writer : v # w => next'[v] = next[v] /\ missing'[v] = missing[v]
      BY <1>5, <1>t, <2>2 DEF PreambleFails, LedgerTypeOK
    <2>6. missing[w] \subseteq missing'[w] /\ next[w] <= next'[w]
      BY <1>o, <2>3, <2>5
    <2>7. \A n \in next[w] .. next'[w] - 1 : n \in missing'[w]
      BY <1>o, <2>3, <2>5
    <2>8. ASSUME NEW n \in missing'[w] \ missing[w]
          PROVE  /\ \A g \in Rows : g.writer = w => g.seq # n /\ n \notin g.span
                 /\ \A f \in Event : by[f] = w /\ num[f] = n => f = e /\ mode[e] = "marker"
      <3>1. CASE n \in next[w] .. last
        BY <3>1, <2>3, <1>r, <1>o
      <3>2. CASE n = num[e] /\ mode[e] = "marker"
        BY <3>2, <1>t, <2>1, <2>2, NumberApart DEF Own, NumbersUnique
      <3> QED
        BY <2>5, <3>1, <3>2
    <2>9. mode[e] = "marker" => num[e] \in missing'[w] /\ by[e] = w
      BY <2>2, <2>5
    <2>10. \A f \in Event : num[f] # 0 =>
             /\ \/ pc'[f] = pc[f]
                \/ pc[f] \notin {"waiting", "lost"} /\ (pc'[f] \in Own => pc[f] \in Own)
             /\ pc[f] \in Own \union {"undone"} =>
                   pc'[f] \in Own \union {"undone"} \/ (by[f] = w /\ num[f] \in missing'[w])
      BY <2>1, <2>9 DEF Own
    <2>11. mode[e] = "marker" => pc'[e] \notin Own /\ pc'[e] \in {"waiting", "lost"}
      BY <2>1 DEF Own
    <2> QED
      BY <1>t, <2>1, <2>4, <2>5, <2>6, <2>7, <2>8, <2>10, <2>11, Dropped
  <1>6. ASSUME NEW e \in Event, WriteFails(e) PROVE Goal'
    <2>1. /\ by[e] \in Writer /\ pc[e] \in {"numbered", "inserted", "ready"} /\ num[e] # 0
          /\ pc'[e] = IF mode[e] = "marker" THEN "lost" ELSE "failed"
          /\ \A f \in Event : f # e => pc'[f] = pc[f]
          /\ UNCHANGED <<by, mode, num, alive, saved, next, gapRows>>
      BY <1>6, <1>t, <1>o DEF WriteFails, Moves, LedgerTypeOK, RowsAreNumbered
    <2>2. PICK w \in Writer : w = by[e]
      BY <2>1
    <2>3. Rows \ Rows' = gaps[e] /\ Rows' \subseteq Rows
      <3>1. CASE pc[e] = "numbered"
        <4>1. gaps[e] = {} /\ lock # e
          BY <3>1, <1>t DEF OneTransaction, InTx
        <4>2. lock' = lock /\ gaps' = gaps
          BY <1>6, <1>t, <4>1 DEF WriteFails, LedgerTypeOK
        <4> QED
          BY <2>1, <4>1, <4>2 DEF Rows, InHand
      <3>2. CASE pc[e] \in {"inserted", "ready"}
        <4>1. InHand = gaps[e] /\ lock = e
          BY <1>h, <3>2 DEF InTx
        <4>2. InHand' = {} /\ gapRows' = gapRows
          BY <1>6, <4>1 DEF WriteFails, InHand
        <4> QED
          BY <1>t, <4>1, <4>2 DEF Rows, OneTransaction
      <3> QED
        BY <2>1, <3>1, <3>2
    <2>4. \A g \in gaps[e] : g.writer = w
      BY <1>t, <2>2 DEF NumbersIssued
    <2>5. /\ missing'[w] = missing[w] \union Spans(gaps[e]) \union Seqs(gaps[e]) \union
                              (IF mode[e] = "marker" THEN {num[e]} ELSE {})
          /\ \A v \in Writer : v # w => next'[v] = next[v] /\ missing'[v] = missing[v]
      BY <1>6, <1>t, <2>2 DEF WriteFails, LedgerTypeOK
    <2>s. /\ \A n : n \in Spans(gaps[e]) <=> \E g \in gaps[e] : n \in g.span
          /\ \A n : n \in Seqs(gaps[e]) <=> \E g \in gaps[e] : n = g.seq
      BY DEF Spans, Seqs
    <2>6. /\ missing[w] \subseteq missing'[w] /\ next[w] <= next'[w]
          /\ \A n \in next[w] .. next'[w] - 1 : n \in missing'[w]
      BY <1>o, <2>1, <2>5
    <2>7. \A g \in Rows : g \in Rows' \/ /\ g.writer = w
                                         /\ g.seq \in missing'[w] /\ g.span \subseteq missing'[w]
      BY <2>3, <2>4, <2>5, <2>s
    <2>8. ASSUME NEW n \in missing'[w] \ missing[w]
          PROVE  \/ \E h \in Rows \ Rows' : n \in h.span \/ n = h.seq
                 \/ /\ \A g \in Rows : g.writer = w => g.seq # n /\ n \notin g.span
                    /\ \A f \in Event : by[f] = w /\ num[f] = n => f = e /\ mode[e] = "marker"
      <3>1. CASE n \in Spans(gaps[e]) \/ n \in Seqs(gaps[e])
        BY <3>1, <2>3, <2>s
      <3>2. CASE n = num[e] /\ mode[e] = "marker"
        BY <3>2, <1>t, <2>1, <2>2, NumberApart DEF Own, NumbersUnique
      <3> QED
        BY <2>5, <3>1, <3>2
    <2>9. mode[e] = "marker" => num[e] \in missing'[w] /\ by[e] = w
      BY <2>2, <2>5
    <2>10. \A f \in Event : num[f] # 0 =>
             /\ \/ pc'[f] = pc[f]
                \/ pc[f] \notin {"waiting", "lost"} /\ (pc'[f] \in Own => pc[f] \in Own)
             /\ pc[f] \in Own \union {"undone"} =>
                   pc'[f] \in Own \union {"undone"} \/ (by[f] = w /\ num[f] \in missing'[w])
      BY <2>1, <2>9 DEF Own
    <2>11. mode[e] = "marker" => pc'[e] \notin Own /\ pc'[e] \in {"waiting", "lost"}
      BY <2>1 DEF Own
    <2> QED
      BY <1>t, <2>1, <2>3, <2>5, <2>6, <2>7, <2>8, <2>10, <2>11, Dropped
  <1>10. ASSUME NEW e \in Event, BatchFails(e) PROVE Goal'
    <2>1. /\ by[e] \in Writer /\ pc[e] \in {"opened", "ready", "rowless"} /\ pc'[e] = "undone"
          /\ \A f \in Event : f # e => pc'[f] = pc[f]
          /\ UNCHANGED <<by, mode, num, alive, saved, next, gapRows>>
      BY <1>10, <1>t, <1>o DEF BatchFails, Moves, LedgerTypeOK
    <2>2. PICK w \in Writer : w = by[e]
      BY <2>1
    <2>3. Rows \ Rows' = gaps[e] /\ Rows' \subseteq Rows
      <3>1. InHand = gaps[e]
        BY <1>h, <2>1 DEF InTx
      <3>2. InHand' = {} /\ gapRows' = gapRows
        BY <1>10 DEF BatchFails, InHand
      <3> QED
        BY <1>t, <3>1, <3>2 DEF Rows, OneTransaction
    <2>4. \A g \in gaps[e] : g.writer = w
      BY <1>t, <2>2 DEF NumbersIssued
    <2>5. /\ missing'[w] = missing[w] \union Spans(gaps[e]) \union Seqs(gaps[e])
          /\ \A v \in Writer : v # w => next'[v] = next[v] /\ missing'[v] = missing[v]
      BY <1>10, <1>t, <2>2 DEF BatchFails, LedgerTypeOK
    <2>s. /\ \A n : n \in Spans(gaps[e]) <=> \E g \in gaps[e] : n \in g.span
          /\ \A n : n \in Seqs(gaps[e]) <=> \E g \in gaps[e] : n = g.seq
      BY DEF Spans, Seqs
    <2>6. /\ missing[w] \subseteq missing'[w] /\ next[w] <= next'[w]
          /\ \A n \in next[w] .. next'[w] - 1 : n \in missing'[w]
      BY <1>o, <2>1, <2>5
    <2>7. \A g \in Rows : g \in Rows' \/ /\ g.writer = w
                                         /\ g.seq \in missing'[w] /\ g.span \subseteq missing'[w]
      BY <2>3, <2>4, <2>5, <2>s
    <2>8. \A n \in missing'[w] \ missing[w] : \E h \in Rows \ Rows' : n \in h.span \/ n = h.seq
      BY <2>3, <2>5, <2>s
    <2>9. \A f \in Event : num[f] # 0 =>
             /\ \/ pc'[f] = pc[f]
                \/ pc[f] \notin {"waiting", "lost"} /\ (pc'[f] \in Own => pc[f] \in Own)
             /\ pc[f] \in Own \union {"undone"} => pc'[f] \in Own \union {"undone"}
      BY <2>1 DEF Own
    <2> QED
      BY <1>t, <2>1, <2>3, <2>5, <2>6, <2>7, <2>8, <2>9, Dropped
  <1>22. ASSUME NEW e \in Event, NEW w \in Writer, NEW last \in {next[w] - 1} \union Seqs(Owed(w)),
                BatchRefused(e, w, last)
         PROVE  Goal'
    <2>1. /\ pc[e] = "new" /\ num[e] = 0
          /\ \A f \in Event : f # e => pc'[f] = pc[f] /\ by'[f] = by[f] /\ mode'[f] = mode[f]
          /\ UNCHANGED <<num, alive, saved, lock, gaps, gapRows>>
      BY <1>22, <1>t DEF BatchRefused, Idle, Moves, LedgerTypeOK, NumbersIssued
    <2>2. last \in Int /\ last + 1 >= next[w]
      BY <1>t, <1>o, OwedNumbered DEF Seqs, GapRow
    <2>3. /\ missing'[w] = missing[w] \union (next[w] .. last) /\ next'[w] = last + 1
          /\ \A v \in Writer : v # w => next'[v] = next[v] /\ missing'[v] = missing[v]
      BY <1>22, <1>t DEF BatchRefused, LedgerTypeOK
    <2>4. /\ missing[w] \subseteq missing'[w] /\ next[w] <= next'[w]
          /\ \A n \in next[w] .. next'[w] - 1 : n \in missing'[w]
      BY <1>o, <2>2, <2>3
    <2>5. ASSUME NEW n \in missing'[w] \ missing[w]
          PROVE  /\ \A g \in Rows : g.writer = w => g.seq # n /\ n \notin g.span
                 /\ \A f \in Event : by[f] = w => num[f] # n
      <3>1. n \in next[w] .. last
        BY <2>3
      <3> QED
        BY <3>1, <2>2, <1>r, <1>o
    <2>6. Rows' = Rows
      BY <2>1 DEF Rows, InHand
    <2> QED
      BY <1>t, <2>1, <2>3, <2>4, <2>5, <2>6, Dropped
  <1>23. ASSUME NEW e \in Event, Act(e) PROVE Goal'
    BY <1>20, <1>23 DEF Act, Rows, InHand
  <1>24. CASE UNCHANGED ledgerVars
    BY <1>20, <1>24 DEF Rows, InHand
  <1> QED
    BY <1>1, <1>2, <1>3, <1>4, <1>5, <1>6, <1>7, <1>8, <1>9, <1>10, <1>11, <1>12,
       <1>15, <1>17, <1>21, <1>22, <1>23, <1>24 DEF LedgerNext, WriteStep, DrainStep

(* No number is anywhere yet. *)
LEMMA GapInit == LedgerInit => GapInv
  <1> SUFFICES ASSUME LedgerInit PROVE GapInv
    OBVIOUS
  <1>1. /\ OneTransaction /\ Unwritten
        /\ Rows = {}
    BY LedgerAssumption DEF LedgerInit, OneTransaction, Unwritten, InTx, InHand, Rows
  <1>2. NamedByOne /\ NamedIsFree
    BY <1>1 DEF LedgerInit, NamedByOne, NamedIsFree
  <1>3. AllLocated
    BY DEF LedgerInit, AllLocated
  <1> QED
    BY <1>1, <1>2, <1>3 DEF GapInv

(* Every number stays where it can be found, and is named once. *)
LEMMA GapInvHolds == LedgerSpec => []GapInv
  <1>1. ASSUME LedgerInv, LedgerInv', GapInv, [LedgerNext]_ledgerVars PROVE GapInv'
    <2>1. OneTransaction' /\ Unwritten'
      BY <1>1, TxStep DEF GapInv
    <2>2. (NamedByOne /\ NamedIsFree /\ AllLocated)'
      BY <1>1, <2>1, GapStep
    <2> QED
      BY <2>1, <2>2 DEF GapInv
  <1>2. LedgerInv /\ LedgerInv' /\ GapInv /\ [LedgerNext]_ledgerVars => GapInv'
    BY <1>1
  <1> QED
    BY <1>2, GapInit, LedgerInvHolds, PTL DEF LedgerSpec

(* A process that runs never loses track of a number: whatever fails, each  *)
(* number allocate gave out is in the database, named there, still owed, or *)
(* in the hands of a call (or was a batch's whose commit failed).           *)
THEOREM NumbersAreAccounted == LedgerSpec => []NumbersAccounted
  <1>1. ASSUME LedgerInv, GapInv PROVE NumbersAccounted
    <2>t. LedgerTypeOK /\ NumbersIssued /\ OneTransaction /\ AllLocated /\ None \notin Event
      BY <1>1, LedgerAssumption DEF LedgerInv, GapInv
    <2> SUFFICES ASSUME NEW w \in Writer, NEW n, Located(w, n)
                 PROVE  \/ Accounted(w, n)
                        \/ \E e \in Event : by[e] = w /\ pc[e] = "undone" /\ n = num[e]
      BY <2>t DEF AllLocated, NumbersAccounted
    <2>1. CASE n \in missing[w]
      BY <2>1 DEF Accounted
    <2>2. CASE \E g \in gapRows : g.writer = w /\ (n \in g.span \/ g.seq = n)
      BY <2>2 DEF Accounted, InDb
    <2>3. CASE \E g \in InHand : g.writer = w /\ (n \in g.span \/ g.seq = n)
      <3>1. PICK g \in InHand : g.writer = w /\ (n \in g.span \/ g.seq = n)
        BY <2>3
      <3>2. lock \in Event /\ g \in gaps[lock]
        BY <2>t DEF InHand, LedgerTypeOK
      <3>3. by[lock] = w
        BY <2>t, <3>1, <3>2 DEF NumbersIssued
      <3>4. pc[lock] \in InFlight
        BY <2>t, <3>2 DEF OneTransaction, InTx, InFlight, Open
      <3>5. HeldBy(lock, n)
        BY <3>1, <3>2 DEF HeldBy, Spans, Seqs
      <3> QED
        BY <3>2, <3>3, <3>4, <3>5 DEF Accounted
    <2>4. CASE \E e \in Event : by[e] = w /\ num[e] = n /\ e \in saved
      BY <2>4 DEF Accounted, InDb
    <2>5. CASE \E e \in Event : by[e] = w /\ num[e] = n /\ pc[e] \in Own
      BY <2>5 DEF Accounted, HeldBy, Own, InFlight, Open, Failing
    <2> QED
      BY <2>1, <2>2, <2>3, <2>4, <2>5 DEF Located, Named, Rows
  <1>2. LedgerInv /\ GapInv => NumbersAccounted
    BY <1>1
  <1> QED
    BY <1>2, LedgerInvHolds, GapInvHolds, PTL

(* The gap rows of the ledger never contradict one another or the rows that *)
(* are there: claim_gaps hands each failed number to one gap row only, even *)
(* after failed claims were restored, and record never names what it wrote. *)
THEOREM GapRowsAreTrue == LedgerSpec => []GapsAreTrue
  <1>1. ASSUME LedgerInv, GapInv PROVE GapsAreTrue
    <2>t. LedgerTypeOK /\ Unwritten /\ NamedByOne /\ NamedIsFree /\ gapRows \subseteq Rows
      BY <1>1 DEF LedgerInv, GapInv, Rows
    <2>1. ASSUME NEW g \in gapRows, NEW h \in gapRows, g.writer = h.writer
          PROVE  h.seq \notin g.span /\ (g # h => g.span \intersect h.span = {})
      BY <2>1, <2>t DEF NamedByOne
    <2>2. ASSUME NEW g \in gapRows, NEW e \in saved, by[e] = g.writer, num[e] \in g.span
          PROVE  pc[e] = "waiting" \/ mode[e] = "batch"
      <3>1. e \in Event /\ num[e] # 0 /\ pc[e] # "lost"
        BY <2>t DEF LedgerTypeOK, Unwritten
      <3>2. Named(by[e], num[e])
        BY <2>2, <2>t DEF Named
      <3> QED
        BY <3>1, <3>2, <2>t DEF NamedIsFree
    <2> QED
      BY <2>1, <2>2 DEF GapsAreTrue
  <1>2. LedgerInv /\ GapInv => GapsAreTrue
    BY <1>1
  <1> QED
    BY <1>2, LedgerInvHolds, GapInvHolds, PTL
=============================================================================
