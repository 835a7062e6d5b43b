---------------------------- MODULE PairingProofs ----------------------------
(***************************************************************************)
(* A pairing code pairs one device, every event of the service gets one    *)
(* ledger row, and the throttle tells the right wait, for any codes,       *)
(* requests, limits and restarts. PairInv is about the store; WindowPart,  *)
(* the order of the failures, and RequestPart, what each request holds of  *)
(* what is owed, are on top of it.                                         *)
(***************************************************************************)
EXTENDS Pairing, FiniteSetTheorems, SequenceTheorems, TLAPS

RowRec == [attempts : 0 .. MaxAttempts, used : BOOLEAN, expired : BOOLEAN]

(* The store's tables have their types. *)
StoreTypeOK ==
    /\ row \in [Code -> RowRec \union {None}]
    /\ devices \in [Code -> Nat] /\ minted \subseteq Code

(* A code is fresh: before it is minted it has no row and no device. *)
UnmintedIsNew == \A c \in Code \ minted : row[c] = None /\ devices[c] = 0

PairInv == StoreTypeOK /\ UnmintedIsNew /\ CodePairsOnce

-----------------------------------------------------------------------------
(* An empty store satisfies the invariant. *)
LEMMA PairInitInv == PairInit => PairInv
BY DEF PairInit, PairInv, StoreTypeOK, UnmintedIsNew, CodePairsOnce

(* A step that leaves rows, codes and devices alone keeps the invariant. *)
LEMMA StoreStays == PairInv /\ UNCHANGED <<row, minted, devices>> => PairInv'
BY DEF PairInv, StoreTypeOK, UnmintedIsNew, CodePairsOnce

(* A step that writes rows only, each to one that is expired, charged      *)
(* while unused, or gone, keeps the invariant.                             *)
LEMMA RowsChange ==
    ASSUME PairInv, UNCHANGED <<minted, devices>>, row' \in [Code -> RowRec \union {None}],
           \A c \in Code : row'[c] = None
               \/ /\ row[c] # None /\ row'[c].used = row[c].used
                  /\ row[c].used => row'[c].attempts = row[c].attempts
    PROVE  PairInv'
<1>1. StoreTypeOK' /\ UnmintedIsNew'
  BY DEF PairInv, StoreTypeOK, UnmintedIsNew
<1>2. CodePairsOnce'
  BY DEF PairInv, CodePairsOnce
<1> QED
  BY <1>1, <1>2 DEF PairInv

(* Every step keeps the invariant. *)
LEMMA PairNextInv == PairInv /\ [PairNext]_pairVars => PairInv'
<1> SUFFICES ASSUME PairInv, [PairNext]_pairVars PROVE PairInv'
  OBVIOUS
<1> USE PairingAssumption
<1>t. row \in [Code -> RowRec \union {None}] /\ devices \in [Code -> Nat] /\ minted \subseteq Code
  BY DEF PairInv, StoreTypeOK
<1>1. ASSUME NEW t \in Thread, NEW c \in Code, StartPairing(t, c) PROVE PairInv'
  <2> DEFINE new == [attempts |-> 0, used |-> FALSE, expired |-> FALSE]
  <2>1. new \in RowRec /\ new.used = FALSE
    BY DEF RowRec
  <2>2. /\ row'[c] = new
        /\ \A k \in Code \ {c} : row'[k] = row[k] \/ row'[k] = None
        /\ row' = [k \in Code |-> row'[k]]
    BY <1>1 DEF StartPairing
  <2>3. row' \in [Code -> RowRec \union {None}]
    <3>1. \A k \in Code : row'[k] \in RowRec \union {None}
      BY <1>t, <2>1, <2>2
    <3> QED
      BY <2>2, <3>1
  <2>4. devices[c] = 0
    BY <1>1 DEF StartPairing, PairInv, UnmintedIsNew
  <2>5. minted' = minted \union {c} /\ devices' = devices
    BY <1>1 DEF StartPairing
  <2>6. StoreTypeOK' /\ UnmintedIsNew'
    BY <1>t, <2>2, <2>3, <2>5 DEF PairInv, StoreTypeOK, UnmintedIsNew
  <2>7. CodePairsOnce'
    BY <2>1, <2>2, <2>4, <2>5 DEF PairInv, CodePairsOnce
  <2> QED
    BY <2>6, <2>7 DEF PairInv
<1>2. ASSUME NEW c \in Code, CodeExpires(c) PROVE PairInv'
  <2>1. row[c] \in RowRec /\ row' = [row EXCEPT ![c] = [row[c] EXCEPT !.expired = TRUE]]
    BY <1>2, <1>t DEF CodeExpires
  <2>2. /\ [row[c] EXCEPT !.expired = TRUE] \in RowRec
        /\ [row[c] EXCEPT !.expired = TRUE].used = row[c].used
        /\ [row[c] EXCEPT !.expired = TRUE].attempts = row[c].attempts
    BY <2>1 DEF RowRec
  <2>3. row' \in [Code -> RowRec \union {None}]
    BY <1>t, <2>1, <2>2
  <2> QED
    BY <1>2, <1>t, <2>1, <2>2, <2>3, RowsChange DEF CodeExpires
<1>3. ASSUME NEW t \in Thread, StoreClaim(t) PROVE PairInv'
  <2> DEFINE c == thread[t].guess
  <2>1. CASE Spendable(t)
    <3>1. /\ c \in Code /\ row[c] \in RowRec /\ row[c].used = FALSE
          /\ row[c].attempts < MaxAttempts
      BY <2>1, <1>t DEF Spendable, Live, RowRec
    <3>2. row' = [row EXCEPT ![c] = [row[c] EXCEPT !.used = TRUE]]
      BY <1>3, <2>1 DEF StoreClaim
    <3>3. /\ [row[c] EXCEPT !.used = TRUE] \in RowRec
          /\ [row[c] EXCEPT !.used = TRUE].used = TRUE
          /\ [row[c] EXCEPT !.used = TRUE].attempts = row[c].attempts
      BY <3>1 DEF RowRec
    <3>4. devices[c] = 0
      BY <1>t, <3>1, <2>1 DEF PairInv, CodePairsOnce, Spendable, Live
    <3>5. devices' = [devices EXCEPT ![c] = 1] /\ minted' = minted
      BY <1>3, <1>t, <2>1, <3>4 DEF StoreClaim
    <3>6. c \in minted
      BY <2>1, <3>1 DEF PairInv, UnmintedIsNew, Spendable, Live
    <3>7. StoreTypeOK' /\ UnmintedIsNew'
      BY <1>t, <3>1, <3>2, <3>3, <3>5, <3>6 DEF PairInv, StoreTypeOK, UnmintedIsNew
    <3>8. CodePairsOnce'
      BY <1>t, <3>1, <3>2, <3>3, <3>5 DEF PairInv, CodePairsOnce
    <3> QED
      BY <3>7, <3>8 DEF PairInv
  <2>2. CASE ~Spendable(t)
    BY <1>3, <2>2, StoreStays DEF StoreClaim
  <2> QED
    BY <2>1, <2>2
<1>4. ASSUME NEW t \in Thread, RecordFailedClaim(t) PROVE PairInv'
  <2>1. ASSUME NEW c \in Code
        PROVE  /\ row'[c] \in RowRec \union {None}
               /\ \/ row'[c] = None
                  \/ /\ row[c] # None /\ row'[c].used = row[c].used
                     /\ row[c].used => row'[c].attempts = row[c].attempts
    <3>1. CASE c \in Charged(t)
      <4>1. /\ row[c] \in RowRec /\ row[c] # None /\ row[c].used = FALSE
            /\ row[c].attempts < MaxAttempts
        BY <1>t, <3>1 DEF Charged, Live, RowRec
      <4>2. row'[c] = [row[c] EXCEPT !.attempts = row[c].attempts + 1]
        BY <1>4, <3>1 DEF RecordFailedClaim
      <4> QED
        BY <4>1, <4>2 DEF RowRec
    <3>2. CASE c \notin Charged(t)
      BY <1>4, <1>t, <3>2 DEF RecordFailedClaim
    <3> QED
      BY <3>1, <3>2
  <2>2. row' = [c \in Code |-> row'[c]]
    BY <1>4 DEF RecordFailedClaim
  <2>3. row' \in [Code -> RowRec \union {None}]
    BY <2>1, <2>2
  <2> QED
    BY <1>4, <2>1, <2>3, RowsChange DEF RecordFailedClaim
<1>5. CASE UNCHANGED <<row, minted, devices>>
  BY <1>5, StoreStays
<1>6. ASSUME NEW t \in Thread,
             \/ \E g \in Code \union {Wrong} : Admit(t, g)
             \/ CountFailure(t) \/ Record(t) \/ RecordRaises(t)
             \/ \E c \in Code : Revoke(t, c)
      PROVE  UNCHANGED <<row, minted, devices>>
  BY <1>6 DEF Admit, CountFailure, Record, RecordRaises, Revoke, storeVars
<1>7. Tick \/ Restart \/ UNCHANGED pairVars => UNCHANGED <<row, minted, devices>>
  BY DEF Tick, Restart, pairVars, storeVars
<1> QED
  BY <1>1, <1>2, <1>3, <1>4, <1>5, <1>6, <1>7 DEF PairNext, ClaimStep

-----------------------------------------------------------------------------
(* The window.                                                             *)

Ordered(s) == \A i, j \in 1 .. Len(s) : i <= j => s[i] <= s[j]

(* _failures has its type and is oldest first, and a full window tripped. *)
WindowPart ==
    /\ failures \in Seq(0 .. Window) /\ tripped \in BOOLEAN
    /\ Ordered(failures)
    /\ Full(Expired(failures)) => tripped

(* A function on 1 .. n is a sequence of length n. *)
LEMMA FunctionIsSeq ==
    ASSUME NEW n \in Nat, NEW S, NEW f \in [1 .. n -> S]
    PROVE  f \in Seq(S) /\ Len(f) = n
OBVIOUS

(* There is a first failure that still counts, or the window is empty. *)
LEMMA OldestExists ==
    ASSUME NEW s \in Seq(0 .. Window)
    PROVE  /\ OldestIn(s) \in 1 .. Len(s) + 1
           /\ \A i \in 1 .. OldestIn(s) - 1 : s[i] = 0
           /\ OldestIn(s) <= Len(s) => s[OldestIn(s)] > 0
<1> DEFINE T == {k \in 1 .. Len(s) + 1 : k <= Len(s) => s[k] > 0}
<1>1. Len(s) \in Nat /\ \A i \in 1 .. Len(s) : s[i] \in Nat
  BY ElementOfSeq, LenProperties, PairingAssumption
<1>2. T \subseteq Nat /\ T # {}
  <2>1. Len(s) + 1 \in T
    BY <1>1
  <2> QED
    BY <1>1, <2>1
<1>3. \E k \in T : \A j \in T : ~(<<j, k>> \in OpToRel(<, Nat))
  <2> HIDE DEF T
  <2> QED
    BY <1>2, WFMin, NatLessThanWellFounded, Zenon
<1>4. PICK k \in T : \A j \in T : ~(j < k)
  BY <1>2, <1>3 DEF OpToRel
<1>5. ASSUME NEW i \in 1 .. k - 1 PROVE s[i] = 0
  <2>1. i \in 1 .. Len(s) /\ i < k /\ i \notin T
    BY <1>1, <1>4, <1>5
  <2> QED
    BY <1>1, <2>1
<1>6. \E m \in 1 .. Len(s) + 1 :
        (\A i \in 1 .. m - 1 : s[i] = 0) /\ (m <= Len(s) => s[m] > 0)
  BY <1>4, <1>5
<1> QED
  BY <1>6 DEF OldestIn

(* What is left of the window: its tail from that failure on. *)
LEMMA ExpiredIs ==
    ASSUME NEW s \in Seq(0 .. Window)
    PROVE  /\ Expired(s) \in Seq(0 .. Window)
           /\ Len(Expired(s)) = Len(s) - OldestIn(s) + 1
           /\ \A i \in 1 .. Len(Expired(s)) : Expired(s)[i] = s[OldestIn(s) + i - 1]
<1>1. OldestIn(s) \in 1 .. Len(s) + 1 /\ Len(s) \in Nat
  BY OldestExists, LenProperties
<1>2. ASSUME NEW i \in OldestIn(s) .. Len(s) PROVE s[i] \in 0 .. Window
  <2>1. i \in 1 .. Len(s)
    BY <1>1
  <2> QED
    BY <2>1, ElementOfSeq
<1>3. /\ SubSeq(s, OldestIn(s), Len(s)) \in Seq(0 .. Window)
      /\ Len(SubSeq(s, OldestIn(s), Len(s)))
           = IF OldestIn(s) <= Len(s) THEN Len(s) - OldestIn(s) + 1 ELSE 0
      /\ \A i \in 1 .. Len(s) - OldestIn(s) + 1 :
            SubSeq(s, OldestIn(s), Len(s))[i] = s[OldestIn(s) + i - 1]
  BY <1>1, <1>2, SubSeqProperties
<1> QED
  BY <1>1, <1>3 DEF Expired

(* What counts is kept in order, and all of it counts. *)
LEMMA ExpiredOrdered ==
    ASSUME NEW s \in Seq(0 .. Window), Ordered(s)
    PROVE  /\ Ordered(Expired(s))
           /\ \A i \in 1 .. Len(Expired(s)) : Expired(s)[i] > 0
<1>1. /\ OldestIn(s) \in 1 .. Len(s) + 1 /\ Len(s) \in Nat
      /\ OldestIn(s) <= Len(s) => s[OldestIn(s)] > 0
      /\ \A i \in 1 .. Len(s) : s[i] \in Nat
  BY OldestExists, LenProperties, ElementOfSeq, PairingAssumption
<1>2. ASSUME NEW i \in 1 .. Len(Expired(s))
      PROVE  /\ OldestIn(s) + i - 1 \in 1 .. Len(s) /\ OldestIn(s) <= Len(s)
             /\ Expired(s)[i] = s[OldestIn(s) + i - 1]
             /\ OldestIn(s) \in 1 .. Len(s) /\ OldestIn(s) <= OldestIn(s) + i - 1
  <2>1. Len(Expired(s)) = Len(s) - OldestIn(s) + 1
    BY ExpiredIs
  <2>2. /\ OldestIn(s) + i - 1 \in 1 .. Len(s) /\ OldestIn(s) <= Len(s)
        /\ OldestIn(s) \in 1 .. Len(s) /\ OldestIn(s) <= OldestIn(s) + i - 1
    BY <1>1, <2>1
  <2>3. Expired(s)[i] = s[OldestIn(s) + i - 1]
    BY ExpiredIs
  <2> QED
    BY <2>2, <2>3
<1>3. ASSUME NEW i \in 1 .. Len(Expired(s)) PROVE Expired(s)[i] > 0
  <2>1. s[OldestIn(s)] <= s[OldestIn(s) + i - 1] /\ s[OldestIn(s)] > 0
    BY <1>1, <1>2 DEF Ordered
  <2>2. s[OldestIn(s)] \in Nat /\ s[OldestIn(s) + i - 1] \in Nat
    BY <1>1, <1>2
  <2> QED
    BY <1>2, <2>1, <2>2
<1>4. ASSUME NEW i \in 1 .. Len(Expired(s)), NEW j \in 1 .. Len(Expired(s)), i <= j
      PROVE  Expired(s)[i] <= Expired(s)[j]
  <2>1. OldestIn(s) + i - 1 <= OldestIn(s) + j - 1
    BY <1>1, <1>4
  <2> QED
    BY <1>2, <2>1 DEF Ordered
<1> QED
  BY <1>3, <1>4 DEF Ordered

(* A window whose oldest failure counts is left as it is. *)
LEMMA NothingExpires ==
    ASSUME NEW s \in Seq(0 .. Window), Len(s) > 0 => s[1] > 0
    PROVE  Expired(s) = s
<1>1. /\ OldestIn(s) \in 1 .. Len(s) + 1 /\ Len(s) \in Nat
      /\ \A i \in 1 .. OldestIn(s) - 1 : s[i] = 0
  BY OldestExists, LenProperties
<1>2. OldestIn(s) = 1
  BY <1>1
<1> QED
  BY <1>2, SubSeqFull DEF Expired

(* Looking at the window leaves what counts. *)
LEMMA LookKeepsWindow ==
    ASSUME WindowPart
    PROVE  /\ Expired(failures) \in Seq(0 .. Window) /\ Ordered(Expired(failures))
           /\ \A i \in 1 .. Len(Expired(failures)) : Expired(failures)[i] > 0
           /\ Len(Expired(failures)) \in Nat
           /\ Expired(Expired(failures)) = Expired(failures)
<1>1. /\ Expired(failures) \in Seq(0 .. Window) /\ Ordered(Expired(failures))
      /\ \A i \in 1 .. Len(Expired(failures)) : Expired(failures)[i] > 0
  BY ExpiredIs, ExpiredOrdered DEF WindowPart
<1>2. Len(Expired(failures)) \in Nat
  BY <1>1, LenProperties
<1>3. Len(Expired(failures)) > 0 => Expired(failures)[1] > 0
  BY <1>1, <1>2
<1> QED
  BY <1>1, <1>2, <1>3, NothingExpires

(* retry_after keeps the window's part. *)
LEMMA AdmitKeepsWindow ==
    ASSUME WindowPart, failures' = Expired(failures),
           tripped' = (tripped /\ Full(Expired(failures)))
    PROVE  WindowPart'
<1>1. failures' \in Seq(0 .. Window) /\ Ordered(failures') /\ Expired(failures') = Expired(failures)
  BY LookKeepsWindow
<1>2. tripped \in BOOLEAN /\ (Full(Expired(failures)) => tripped)
  BY DEF WindowPart
<1>3. tripped' \in BOOLEAN /\ (Full(Expired(failures)) => tripped')
  BY <1>2
<1> QED
  BY <1>1, <1>3 DEF WindowPart

(* The newest failure is put last, with the whole window before it. *)
LEMMA AppendKeepsWindow ==
    ASSUME WindowPart
    PROVE  /\ Append(Expired(failures), Window) \in Seq(0 .. Window)
           /\ Ordered(Append(Expired(failures), Window))
           /\ Expired(Append(Expired(failures), Window)) = Append(Expired(failures), Window)
           /\ Len(Append(Expired(failures), Window)) = Len(Expired(failures)) + 1
<1> DEFINE left == Expired(failures)
           more == Append(left, Window)
<1>1. /\ left \in Seq(0 .. Window) /\ Ordered(left) /\ Len(left) \in Nat
      /\ \A i \in 1 .. Len(left) : left[i] > 0
  BY LookKeepsWindow
<1>2. Window \in 0 .. Window /\ Window > 0 /\ Window \in Nat
  BY PairingAssumption
<1>3. /\ more \in Seq(0 .. Window) /\ Len(more) = Len(left) + 1
      /\ \A i \in 1 .. Len(left) : more[i] = left[i]
      /\ more[Len(left) + 1] = Window
  BY <1>1, <1>2, AppendProperties
<1>4. \A i \in 1 .. Len(left) : left[i] \in 0 .. Window
  BY <1>1, ElementOfSeq
<1> HIDE DEF left, more
<1>5. Ordered(more)
  <2> SUFFICES ASSUME NEW i \in 1 .. Len(left) + 1, NEW j \in 1 .. Len(left) + 1, i <= j
               PROVE  more[i] <= more[j]
    BY <1>3 DEF Ordered
  <2>1. CASE j \in 1 .. Len(left)
    BY <1>1, <1>3, <2>1 DEF Ordered
  <2>2. CASE j = Len(left) + 1 /\ i \in 1 .. Len(left)
    <3>1. more[i] \in 0 .. Window
      BY <1>3, <1>4, <2>2
    <3> QED
      BY <1>2, <1>3, <2>2, <3>1
  <2>3. CASE j = Len(left) + 1 /\ i = j
    BY <1>2, <1>3, <2>3
  <2> QED
    BY <1>1, <2>1, <2>2, <2>3
<1>6. more[1] > 0
  <2>1. CASE Len(left) = 0
    BY <1>2, <1>3, <2>1
  <2>2. CASE Len(left) > 0
    BY <1>1, <1>3, <2>2
  <2> QED
    BY <1>1, <2>1, <2>2
<1>7. Expired(more) = more
  BY <1>3, <1>6, NothingExpires
<1> QED
  BY <1>3, <1>5, <1>7 DEF left, more

(* Time brings every failure nearer to its end, and fills no window. *)
LEMMA TickKeepsWindow ==
    ASSUME WindowPart, Tick
    PROVE  WindowPart'
<1>1. failures \in Seq(0 .. Window) /\ Len(failures) \in Nat /\ Ordered(failures)
  BY LenProperties DEF WindowPart
<1>2. DOMAIN failures = 1 .. Len(failures) /\ failures \in [1 .. Len(failures) -> 0 .. Window]
  BY <1>1, LenProperties
<1>3. failures' = [i \in 1 .. Len(failures) |-> IF failures[i] > 0 THEN failures[i] - 1 ELSE 0]
  BY <1>2 DEF Tick
<1>4. \A i \in 1 .. Len(failures) : failures[i] \in 0 .. Window /\ failures'[i] \in 0 .. Window
  BY <1>2, <1>3, PairingAssumption
<1>5. failures' \in Seq(0 .. Window) /\ Len(failures') = Len(failures)
  <2>1. failures' \in [1 .. Len(failures) -> 0 .. Window]
    BY <1>3, <1>4
  <2> QED
    BY <1>1, <2>1, FunctionIsSeq
<1>6. ASSUME NEW i \in 1 .. Len(failures), NEW j \in 1 .. Len(failures), i <= j
      PROVE  failures'[i] <= failures'[j]
  <2>1. failures[i] <= failures[j]
    BY <1>1, <1>6 DEF Ordered
  <2> QED
    BY <1>3, <1>4, <2>1, PairingAssumption
<1>7. Ordered(failures')
  BY <1>5, <1>6 DEF Ordered
<1>8. Len(Expired(failures')) <= Len(Expired(failures))
  <2> DEFINE k == OldestIn(failures)
             l == OldestIn(failures')
  <2>1. /\ k \in 1 .. Len(failures) + 1 /\ l \in 1 .. Len(failures) + 1
        /\ \A i \in 1 .. k - 1 : failures[i] = 0
        /\ l <= Len(failures) => failures'[l] > 0
    BY <1>1, <1>5, OldestExists
  <2>2. k <= l
    <3>1. SUFFICES ASSUME l < k PROVE FALSE
      BY <1>1, <2>1
    <3>2. l \in 1 .. k - 1 /\ l \in 1 .. Len(failures)
      BY <1>1, <2>1, <3>1
    <3> QED
      BY <1>3, <2>1, <3>2
  <2> QED
    BY <1>1, <1>5, <2>1, <2>2, ExpiredIs
<1>9. Full(Expired(failures')) => Full(Expired(failures))
  <2>1. Len(Expired(failures')) \in Nat /\ Len(Expired(failures)) \in Nat
    BY <1>1, <1>5, ExpiredIs, LenProperties
  <2> QED
    BY <1>8, <2>1, PairingAssumption DEF Full
<1> QED
  BY <1>5, <1>7, <1>9 DEF WindowPart, Tick

(* In a full window that is in order, the failure retry_after names is the *)
(* one whose end leaves room.                                              *)
LEMMA WindowSuffices == WindowPart => RetryAfterIsRight
<1> SUFFICES ASSUME WindowPart, Full(Expired(failures))
             PROVE  LET left == Expired(failures)
                        StillIn(d) == Cardinality({i \in DOMAIN left : left[i] > d})
                    IN  /\ StillIn(RetryAfter(left)) < Limit
                        /\ StillIn(RetryAfter(left) - 1) >= Limit
  BY DEF RetryAfterIsRight
<1> DEFINE left == Expired(failures)
           n == Len(left)
           k == n - Limit + 1
           late == {i \in DOMAIN left : left[i] > left[k]}
           soon == {i \in DOMAIN left : left[i] > left[k] - 1}
<1>1. left \in Seq(0 .. Window) /\ Ordered(left) /\ n \in Nat /\ n >= Limit
  BY LookKeepsWindow DEF Full
<1>2. DOMAIN left = 1 .. n /\ \A i \in 1 .. n : left[i] \in Nat
  BY <1>1, LenProperties, ElementOfSeq, PairingAssumption
<1>3. k \in 1 .. n /\ Limit \in Nat /\ Limit > 0
  BY <1>1, PairingAssumption
<1> HIDE DEF left, n
<1>4. late \subseteq k + 1 .. n
  BY <1>1, <1>2, <1>3 DEF Ordered, n
<1>5. k .. n \subseteq soon
  BY <1>1, <1>2, <1>3 DEF Ordered, n
<1>6. soon \subseteq 1 .. n
  BY <1>2
<1>7. /\ IsFiniteSet(k + 1 .. n) /\ Cardinality(k + 1 .. n) = Limit - 1
      /\ Cardinality(k .. n) = Limit /\ IsFiniteSet(1 .. n)
  <2>1. k \in Int /\ k + 1 \in Int /\ n \in Int /\ 1 \in Int
    BY <1>1, <1>3
  <2>2. /\ IsFiniteSet(k + 1 .. n) /\ IsFiniteSet(1 .. n)
        /\ Cardinality(k + 1 .. n) = (IF k + 1 > n THEN 0 ELSE n - (k + 1) + 1)
        /\ Cardinality(k .. n) = (IF k > n THEN 0 ELSE n - k + 1)
    <3> HIDE DEF k
    <3> QED
      BY <2>1, FS_Interval
  <2> QED
    BY <1>1, <1>3, <2>2
<1> HIDE DEF late, soon
<1>8. Cardinality(late) <= Cardinality(k + 1 .. n) /\ IsFiniteSet(late)
  BY <1>4, <1>7, FS_Subset
<1>9. IsFiniteSet(soon) /\ Cardinality(k .. n) <= Cardinality(soon)
  BY <1>5, <1>6, <1>7, FS_Subset
<1>10. Cardinality(late) \in Nat /\ Cardinality(soon) \in Nat
  BY <1>8, <1>9, FS_CardinalityType
<1>11. Cardinality(late) < Limit /\ Cardinality(soon) >= Limit
  BY <1>3, <1>7, <1>8, <1>9, <1>10
<1> QED
  BY <1>11 DEF late, soon, left, n, RetryAfter

-----------------------------------------------------------------------------
(* The rows owed.                                                          *)

Request == [pc : Pc, guess : Code \union {Wrong}, late : SUBSET Code,
            n : 0 .. Cardinality(Code)]

(* What a request holds of event e, and what the requests th hold of it,   *)
(* one by one.                                                             *)
Own(rec, e) == IF rec.pc = e THEN rec.n ELSE 0
Held(th, e) ==
    {h \in Thread \X (1 .. Cardinality(Code)) : th[h[1]].pc = e /\ h[2] <= th[h[1]].n}
Others(th, e, t) == {h \in Held(th, e) : h[1] # t}

RequestPart ==
    /\ thread \in [Thread -> Request] /\ owing \in [Event -> Int]
    /\ EventHasOneRow

(* Codes and requests are finitely many. *)
LEMMA CodesCount == Cardinality(Code) \in Nat /\ Cardinality(Code) >= 1
  BY PairingAssumption, FS_CardinalityType, FS_EmptySet

(* What the requests hold is what one of them holds and what the others do. *)
LEMMA HeldSplits ==
    ASSUME NEW th \in [Thread -> Request], NEW t \in Thread, NEW e \in Event
    PROVE  /\ Cardinality(Held(th, e)) = Cardinality(Others(th, e, t)) + Own(th[t], e)
           /\ Cardinality(Others(th, e, t)) \in Nat
<1> DEFINE all == Thread \X (1 .. Cardinality(Code))
           n == Own(th[t], e)
           mine == {t} \X (1 .. n)
<1>1. n \in 0 .. Cardinality(Code) /\ th[t] \in Request
  BY CodesCount DEF Own, Request
<1>2. IsFiniteSet(all)
  <2>1. IsFiniteSet(1 .. Cardinality(Code))
    <3>1. 1 \in Int /\ Cardinality(Code) \in Int
      BY CodesCount
    <3> QED
      BY <3>1, FS_Interval
  <2> QED
    BY <2>1, PairingAssumption, FS_Product
<1>3. Held(th, e) = Others(th, e, t) \union mine
  <2>1. ASSUME NEW h \in mine PROVE h \in Held(th, e)
    <3>1. h \in all /\ h[1] = t /\ h[2] \in 1 .. n
      BY <1>1, <2>1, CodesCount
    <3>2. n > 0 /\ h[2] <= n
      BY <1>1, <3>1, CodesCount
    <3>3. th[t].pc = e /\ n = th[t].n
      BY <3>2 DEF Own
    <3> QED
      BY <3>1, <3>2, <3>3 DEF Held
  <2>2. ASSUME NEW h \in Held(th, e), h[1] = t PROVE h \in mine
    <3>1. h \in all /\ th[t].pc = e /\ h[2] <= th[t].n
      BY <2>2 DEF Held
    <3>2. n = th[t].n
      BY <3>1 DEF Own
    <3>3. h = <<h[1], h[2]>> /\ h[2] \in 1 .. Cardinality(Code)
      BY <3>1
    <3>4. h[2] \in 1 .. n
      BY <1>1, <3>1, <3>2, <3>3, CodesCount
    <3> QED
      BY <2>2, <3>3, <3>4
  <2> QED
    BY <2>1, <2>2 DEF Others
<1>4. Others(th, e, t) \intersect mine = {}
  BY DEF Others
<1>5. IsFiniteSet(Others(th, e, t))
  BY <1>2, FS_Subset DEF Others, Held
<1>6. IsFiniteSet(mine) /\ Cardinality(mine) = n
  <2>1. /\ IsFiniteSet({t}) /\ Cardinality({t}) = 1
        /\ IsFiniteSet(1 .. n) /\ Cardinality(1 .. n) = n /\ n \in Nat
    <3>1. n \in Nat /\ n \in Int /\ 1 \in Int
      BY <1>1, CodesCount
    <3>2. IsFiniteSet(1 .. n) /\ Cardinality(1 .. n) = (IF 1 > n THEN 0 ELSE n - 1 + 1)
      <4> HIDE DEF n
      <4> QED
        BY <3>1, FS_Interval
    <3>3. Cardinality(1 .. n) = n
      BY <3>1, <3>2
    <3> QED
      BY <3>1, <3>2, <3>3, FS_Singleton
  <2>2. IsFiniteSet(mine) /\ Cardinality(mine) = Cardinality({t}) * Cardinality(1 .. n)
    BY <2>1, FS_Product
  <2> QED
    BY <2>1, <2>2
<1>7. Cardinality(Others(th, e, t)) \in Nat
  BY <1>5, FS_CardinalityType
<1> HIDE DEF mine, n
<1>8. Cardinality(Held(th, e))
        = Cardinality(Others(th, e, t)) + Cardinality(mine)
            - Cardinality(Others(th, e, t) \intersect mine)
  BY <1>3, <1>5, <1>6, FS_Union
<1>9. Cardinality(Others(th, e, t) \intersect mine) = 0
  BY <1>4, FS_EmptySet
<1> QED
  BY <1>1, <1>6, <1>7, <1>8, <1>9, CodesCount DEF n

(* InHand counts them. *)
LEMMA InHandIs == ASSUME NEW e PROVE InHand(e) = Cardinality(Held(thread, e))
<1>1. {h \in {t \in Thread : thread[t].pc = e} \X (1 .. Cardinality(Code)) :
          h[2] <= thread[h[1]].n} = Held(thread, e)
  BY DEF Held
<1> QED
  BY <1>1 DEF InHand

(* A request that takes up or hands in what it owes keeps the part. *)
LEMMA RequestMoves ==
    ASSUME RequestPart, NEW t \in Thread, NEW rec \in Request, Go(t, rec),
           owing' \in [Event -> Int],
           \A e \in Event : owing'[e] = owing[e] + Own(rec, e) - Own(thread[t], e)
    PROVE  RequestPart'
<1>1. thread \in [Thread -> Request] /\ owing \in [Event -> Int]
  BY DEF RequestPart
<1>2. /\ thread' \in [Thread -> Request] /\ thread'[t] = rec
      /\ \A s \in Thread \ {t} : thread'[s] = thread[s]
  BY <1>1 DEF Go
<1>3. ASSUME NEW e \in Event PROVE owing'[e] = InHand(e)'
  <2>1. Others(thread', e, t) = Others(thread, e, t)
    BY <1>2 DEF Others, Held
  <2>2. /\ Cardinality(Held(thread, e)) = Cardinality(Others(thread, e, t)) + Own(thread[t], e)
        /\ Cardinality(Others(thread, e, t)) \in Nat
    BY <1>1, HeldSplits
  <2>3. Cardinality(Held(thread', e)) = Cardinality(Others(thread', e, t)) + Own(thread'[t], e)
    BY <1>2, HeldSplits
  <2>4. owing[e] = Cardinality(Held(thread, e))
    BY InHandIs DEF RequestPart, EventHasOneRow
  <2>5. InHand(e)' = Cardinality(Held(thread', e))
    <3>1. {h \in {s \in Thread : thread'[s].pc = e} \X (1 .. Cardinality(Code)) :
              h[2] <= thread'[h[1]].n} = Held(thread', e)
      BY DEF Held
    <3> QED
      BY <3>1 DEF InHand
  <2>6. Own(thread[t], e) \in Nat /\ Own(rec, e) \in Nat
    BY <1>1, CodesCount DEF Own, Request
  <2> QED
    BY <1>1, <1>2, <2>1, <2>2, <2>3, <2>4, <2>5, <2>6
<1> QED
  BY <1>2, <1>3 DEF RequestPart, EventHasOneRow

(* A request that is at no event holds nothing. *)
LEMMA IdleIsTyped ==
    /\ Idle \in Request /\ Idle.pc = "idle"
    /\ \A p \in Pc, m \in 0 .. Cardinality(Code) :
          /\ [Idle EXCEPT !.pc = p, !.n = m] \in Request
          /\ [Idle EXCEPT !.pc = p, !.n = m].pc = p
          /\ [Idle EXCEPT !.pc = p, !.n = m].n = m
    /\ \A p \in Pc : [Idle EXCEPT !.pc = p] \in Request /\ [Idle EXCEPT !.pc = p].pc = p
<1>1. 0 \in 0 .. Cardinality(Code)
  BY CodesCount
<1> QED
  BY <1>1 DEF Idle, Request, Pc

(* A request that comes to an event for the first time owes its row. *)
LEMMA EventHappens ==
    ASSUME RequestPart, NEW t \in Thread, thread[t].pc \notin Event, NEW e \in Event,
           NEW m \in 0 .. Cardinality(Code), Happened(e, m),
           Go(t, [Idle EXCEPT !.pc = e, !.n = m])
    PROVE  RequestPart'
<1> DEFINE rec == [Idle EXCEPT !.pc = e, !.n = m]
<1>1. rec \in Request /\ rec.pc = e /\ rec.n = m
  BY IdleIsTyped DEF Pc
<1>2. owing \in [Event -> Int] /\ m \in Int
  BY CodesCount DEF RequestPart
<1>3. /\ owing' \in [Event -> Int] /\ owing'[e] = owing[e] + m
      /\ \A f \in Event \ {e} : owing'[f] = owing[f]
  BY <1>2 DEF Happened
<1> HIDE DEF rec
<1>4. \A f \in Event : owing'[f] = owing[f] + Own(rec, f) - Own(thread[t], f)
  BY <1>1, <1>2, <1>3 DEF Own
<1> QED
  BY <1>1, <1>3, <1>4, RequestMoves DEF rec

(* A request that is at no event and comes to none owes nothing new. *)
LEMMA NothingHappens ==
    ASSUME RequestPart, NEW t \in Thread, thread[t].pc \notin Event,
           NEW rec \in Request, rec.pc \notin Event, Go(t, rec), UNCHANGED owing
    PROVE  RequestPart'
<1>1. owing \in [Event -> Int]
  BY DEF RequestPart
<1>2. \A f \in Event : owing'[f] = owing[f] + Own(rec, f) - Own(thread[t], f)
  BY <1>1 DEF Own
<1> QED
  BY <1>1, <1>2, RequestMoves

(* The row a request writes, or cannot write, is no longer owed. *)
LEMMA RowIsHandedIn ==
    ASSUME RequestPart, NEW t \in Thread, thread[t].pc \in Event,
           owing' = [owing EXCEPT ![thread[t].pc] = @ - thread[t].n],
           NEW rec \in Request, rec.pc \notin Event, Go(t, rec)
    PROVE  RequestPart'
<1>1. owing \in [Event -> Int] /\ thread[t].n \in Int
  BY CodesCount DEF RequestPart, Request
<1>2. /\ owing' \in [Event -> Int] /\ owing'[thread[t].pc] = owing[thread[t].pc] - thread[t].n
      /\ \A f \in Event \ {thread[t].pc} : owing'[f] = owing[f]
  BY <1>1
<1>3. \A f \in Event : owing'[f] = owing[f] + Own(rec, f) - Own(thread[t], f)
  BY <1>1, <1>2 DEF Own
<1> QED
  BY <1>2, <1>3, RequestMoves

(* The codes the store says a guess voids, before its UPDATE, are those    *)
(* the UPDATE voids.                                                       *)
LEMMA VoidedIsCounted ==
    ASSUME PairInv, NEW t \in Thread, thread[t] \in Request, RecordFailedClaim(t)
    PROVE  /\ VoidedCount(t) \in 0 .. Cardinality(Code)
           /\ Happened("voided", VoidedCount(t))
<1> DEFINE before == {c \in Charged(t) : row[c].attempts = MaxAttempts - 1}
           after == {c \in Code : row[c] # None
                       /\ row[c].attempts < MaxAttempts /\ row'[c].attempts = MaxAttempts}
<1>1. /\ row \in [Code -> RowRec \union {None}] /\ Charged(t) \subseteq Code
      /\ \A c \in Charged(t) : row[c] # None /\ row[c].attempts < MaxAttempts
  BY DEF PairInv, StoreTypeOK, Request, Charged, Live
<1>2. \A c \in Code : row[c] # None => row[c] \in RowRec /\ row[c].attempts \in Nat
  BY <1>1, PairingAssumption DEF RowRec
<1>3. ASSUME NEW c \in Charged(t) PROVE row'[c].attempts = row[c].attempts + 1
  <2>1. row'[c] = [row[c] EXCEPT !.attempts = row[c].attempts + 1] /\ row[c] \in RowRec
    BY <1>1, <1>2 DEF RecordFailedClaim
  <2> QED
    BY <2>1 DEF RowRec
<1>4. \A c \in Code \ Charged(t) : row'[c] = row[c]
  BY DEF RecordFailedClaim
<1>5. before = after
  <2>1. ASSUME NEW c \in before PROVE c \in after
    BY <1>1, <1>2, <1>3, PairingAssumption
  <2>2. ASSUME NEW c \in after PROVE c \in before
    <3>1. CASE c \in Charged(t)
      BY <1>1, <1>2, <1>3, <3>1, PairingAssumption
    <3>2. CASE c \notin Charged(t)
      BY <1>2, <1>4, <3>2, PairingAssumption
    <3> QED
      BY <3>1, <3>2
  <2> QED
    BY <2>1, <2>2
<1>6. VoidedCount(t) \in 0 .. Cardinality(Code)
  <2>1. IsFiniteSet(before) /\ Cardinality(before) <= Cardinality(Code)
    BY <1>1, PairingAssumption, FS_Subset
  <2>2. Cardinality(before) \in Nat
    BY <2>1, FS_CardinalityType
  <2> QED
    BY <2>1, <2>2, CodesCount DEF VoidedCount
<1>7. Happened("voided", Cardinality(after))
  BY DEF RecordFailedClaim
<1> QED
  BY <1>5, <1>6, <1>7 DEF VoidedCount

-----------------------------------------------------------------------------
(* Throttle and ledger together.                                           *)

ServicePart ==
    /\ WindowPart /\ RequestPart
    /\ revoked \subseteq Code /\ crashes \in 0 .. MaxCrash

(* A step that leaves the window alone keeps its part. *)
LEMMA WindowStays == WindowPart /\ UNCHANGED <<failures, tripped>> => WindowPart'
BY DEF WindowPart

(* A step that leaves requests and rows alone keeps their part. *)
LEMMA RequestsStay == RequestPart /\ UNCHANGED <<thread, owing>> => RequestPart'
BY DEF RequestPart, EventHasOneRow, InHand

(* An empty window is in order and not full. *)
LEMMA EmptyWindow == <<>> \in Seq(0 .. Window) /\ Ordered(<<>>) /\ ~Full(Expired(<<>>))
<1>1. <<>> \in Seq(0 .. Window) /\ Len(<<>>) = 0
  BY EmptySeq
<1>2. Ordered(<<>>) /\ ~(Len(<<>>) > 0)
  BY <1>1 DEF Ordered
<1>3. Expired(<<>>) = <<>>
  BY <1>1, <1>2, NothingExpires
<1>4. ~Full(<<>>)
  BY <1>1, PairingAssumption DEF Full
<1> QED
  BY <1>1, <1>2, <1>3, <1>4

(* With no failure, no request and nothing owed, the parts hold. *)
LEMMA NothingYet ==
    ASSUME failures = <<>>, tripped = FALSE, thread = [t \in Thread |-> Idle],
           owing = [e \in Event |-> 0]
    PROVE  WindowPart /\ RequestPart
<1>1. WindowPart
  BY EmptyWindow DEF WindowPart
<1>4. \A t \in Thread : thread[t] \in Request /\ thread[t].pc = "idle"
  BY IdleIsTyped
<1>5. ASSUME NEW e \in Event PROVE owing[e] = InHand(e)
  <2>1. Held(thread, e) = {}
    BY <1>4 DEF Held, Event
  <2> QED
    BY <2>1, InHandIs, FS_EmptySet
<1>6. thread \in [Thread -> Request] /\ owing \in [Event -> Int]
  <2>1. Idle \in Request
    BY IdleIsTyped
  <2>2. thread \in [Thread -> Request]
    BY <2>1
  <2>3. owing \in [Event -> Int]
    OBVIOUS
  <2> QED
    BY <2>2, <2>3
<1> QED
  BY <1>1, <1>5, <1>6 DEF RequestPart, EventHasOneRow

(* The first start. *)
LEMMA ServiceInit == PairInit => ServicePart
<1>1. 0 \in 0 .. MaxCrash
  BY PairingAssumption
<1> QED
  BY <1>1, NothingYet DEF PairInit, ServicePart

(* The steps of a request. *)
LEMMA RequestStep ==
    ASSUME PairInv, ServicePart, NEW t \in Thread,
           \/ \E g \in Code \union {Wrong} : Admit(t, g)
           \/ ClaimStep(t)
           \/ \E c \in Code : StartPairing(t, c) \/ Revoke(t, c)
    PROVE  ServicePart'
<1>t. /\ WindowPart /\ RequestPart /\ revoked \subseteq Code /\ crashes \in 0 .. MaxCrash
      /\ thread \in [Thread -> Request] /\ owing \in [Event -> Int] /\ thread[t] \in Request
  BY DEF ServicePart, RequestPart
<1>n. 1 \in 0 .. Cardinality(Code) /\ 0 \in 0 .. Cardinality(Code)
  BY CodesCount
<1>1. ASSUME NEW g \in Code \union {Wrong}, Admit(t, g) PROVE ServicePart'
  <2>1. WindowPart'
    BY <1>1, <1>t, AdmitKeepsWindow DEF Admit
  <2>2. RequestPart'
    <3>1. CASE Full(Expired(failures))
      BY <1>1, <1>t, <3>1, RequestsStay DEF Admit
    <3>2. CASE ~Full(Expired(failures))
      <4> DEFINE rec == [Idle EXCEPT !.pc = "claiming", !.guess = g, !.late = Late]
      <4>1. rec \in Request /\ rec.pc = "claiming"
        BY <1>n DEF Idle, Request, Pc, Late
      <4>2. Go(t, rec) /\ UNCHANGED owing /\ thread[t].pc = "idle"
        BY <1>1, <3>2 DEF Admit
      <4> HIDE DEF rec
      <4>3. thread[t].pc \notin Event /\ rec.pc \notin Event
        BY <4>1, <4>2 DEF Event
      <4> QED
        BY <1>t, <4>1, <4>2, <4>3, NothingHappens
    <3> QED
      BY <3>1, <3>2
  <2> QED
    BY <1>1, <1>t, <2>1, <2>2 DEF Admit, ServicePart, storeVars
<1>2. CASE StoreClaim(t)
  <2>1. WindowPart'
    BY <1>2, <1>t, WindowStays DEF StoreClaim
  <2>2. thread[t].pc \notin Event
    BY <1>2 DEF StoreClaim, Event
  <2>3. RequestPart'
    <3>1. CASE Spendable(t)
      <4>1. "paired" \in Event /\ Happened("paired", 1) /\ Go(t, [Idle EXCEPT !.pc = "paired", !.n = 1])
        BY <1>2, <3>1 DEF StoreClaim, Event
      <4> QED
        BY <1>t, <1>n, <2>2, <4>1, EventHappens
    <3>2. CASE ~Spendable(t)
      <4> DEFINE rec == [Idle EXCEPT !.pc = "failed", !.late = thread[t].late]
      <4>1. rec \in Request /\ rec.pc = "failed"
        BY <1>n, <1>t DEF Idle, Request, Pc
      <4>2. Go(t, rec) /\ UNCHANGED owing
        BY <1>2, <3>2 DEF StoreClaim
      <4> HIDE DEF rec
      <4>3. rec.pc \notin Event
        BY <4>1 DEF Event
      <4> QED
        BY <1>t, <2>2, <4>1, <4>2, <4>3, NothingHappens
    <3> QED
      BY <3>1, <3>2
  <2> QED
    BY <1>2, <1>t, <2>1, <2>3 DEF StoreClaim, ServicePart
<1>3. CASE RecordFailedClaim(t)
  <2>1. WindowPart'
    BY <1>3, <1>t, WindowStays DEF RecordFailedClaim
  <2>2. thread[t].pc \notin Event
    BY <1>3 DEF RecordFailedClaim, Event
  <2>3. VoidedCount(t) \in 0 .. Cardinality(Code) /\ Happened("voided", VoidedCount(t))
    BY <1>3, <1>t, VoidedIsCounted
  <2>4. RequestPart'
    <3>1. CASE VoidedCount(t) > 0
      <4>1. "voided" \in Event /\ Go(t, [Idle EXCEPT !.pc = "voided", !.n = VoidedCount(t)])
        BY <1>3, <3>1 DEF RecordFailedClaim, Event
      <4> QED
        BY <1>t, <2>2, <2>3, <4>1, EventHappens
    <3>2. CASE ~(VoidedCount(t) > 0)
      <4> DEFINE rec == [Idle EXCEPT !.pc = "counting"]
      <4>1. rec \in Request /\ rec.pc = "counting" /\ rec.pc \notin Event
        BY IdleIsTyped DEF Pc, Event
      <4>2. Go(t, rec)
        BY <1>3, <3>2 DEF RecordFailedClaim
      <4>3. VoidedCount(t) = 0 /\ "voided" \in Event
        BY <2>3, <3>2, CodesCount DEF Event
      <4>4. UNCHANGED owing
        BY <1>t, <2>3, <4>3 DEF Happened
      <4> QED
        BY <1>t, <2>2, <4>1, <4>2, <4>4, NothingHappens
    <3> QED
      BY <3>1, <3>2
  <2> QED
    BY <1>3, <1>t, <2>1, <2>4 DEF RecordFailedClaim, ServicePart
<1>4. CASE CountFailure(t)
  <2> DEFINE left == Expired(failures)
             more == Append(left, Window)
  <2>1. /\ more \in Seq(0 .. Window) /\ Ordered(more) /\ Expired(more) = more
        /\ Len(more) = Len(left) + 1 /\ Len(left) \in Nat
    BY <1>t, AppendKeepsWindow, LookKeepsWindow
  <2>2. /\ failures' = more /\ thread[t].pc = "counting"
        /\ tripped' = ((tripped /\ Full(left)) \/ Trips(left))
        /\ Happened("throttled", IF Full(more) /\ ~Full(left) THEN 1 ELSE 0)
        /\ Go(t, IF Trips(left) THEN [Idle EXCEPT !.pc = "throttled", !.n = 1] ELSE Idle)
        /\ UNCHANGED <<storeVars, crashes>>
    BY <1>4 DEF CountFailure
  <2>3. tripped \in BOOLEAN /\ (Full(left) => tripped)
    BY <1>t DEF WindowPart
  <2>4. Trips(left) <=> (Full(more) /\ ~Full(left))
    BY <2>3 DEF Trips
  <2> HIDE DEF left, more
  <2>5. WindowPart'
    <3>1. tripped' \in BOOLEAN
      BY <2>2
    <3>2. Full(more) => tripped'
      BY <2>2, <2>3, <2>4
    <3> QED
      BY <2>1, <2>2, <3>1, <3>2 DEF WindowPart
  <2>6. thread[t].pc \notin Event /\ "throttled" \in Event
    BY <2>2 DEF Event
  <2>7. RequestPart'
    <3>1. CASE Trips(left)
      <4>1. Happened("throttled", 1) /\ Go(t, [Idle EXCEPT !.pc = "throttled", !.n = 1])
        BY <2>2, <2>4, <3>1
      <4> QED
        BY <1>t, <1>n, <2>6, <4>1, EventHappens
    <3>2. CASE ~Trips(left)
      <4>1. Happened("throttled", 0) /\ Go(t, Idle)
        BY <2>2, <2>4, <3>2
      <4>2. UNCHANGED owing
        BY <1>t, <2>6, <4>1 DEF Happened
      <4>3. Idle \in Request /\ Idle.pc \notin Event
        BY IdleIsTyped DEF Event
      <4> QED
        BY <1>t, <2>6, <4>1, <4>2, <4>3, NothingHappens
    <3> QED
      BY <3>1, <3>2
  <2> QED
    BY <1>t, <2>2, <2>5, <2>7 DEF ServicePart, storeVars
<1>5. CASE Record(t) \/ RecordRaises(t)
  <2>1. WindowPart'
    BY <1>5, <1>t, WindowStays DEF Record, RecordRaises
  <2>2. PICK rec \in {Idle, [Idle EXCEPT !.pc = "counting"]} : Go(t, rec)
    BY <1>5 DEF Record, RecordRaises
  <2>3. rec \in Request /\ rec.pc \notin Event
    BY IdleIsTyped DEF Pc, Event
  <2>4. /\ thread[t].pc \in Event
        /\ owing' = [owing EXCEPT ![thread[t].pc] = @ - thread[t].n]
    BY <1>5 DEF Record, RecordRaises
  <2>5. RequestPart'
    BY <1>t, <2>2, <2>3, <2>4, RowIsHandedIn
  <2> QED
    BY <1>5, <1>t, <2>1, <2>5 DEF Record, RecordRaises, ServicePart, storeVars
<1>6. ASSUME NEW c \in Code, StartPairing(t, c) PROVE ServicePart'
  <2>1. WindowPart'
    BY <1>6, <1>t, WindowStays DEF StartPairing
  <2>2. /\ thread[t].pc \notin Event /\ "started" \in Event
        /\ Happened("started", 1) /\ Go(t, [Idle EXCEPT !.pc = "started", !.n = 1])
    BY <1>6 DEF StartPairing, Event
  <2>3. RequestPart'
    BY <1>t, <1>n, <2>2, EventHappens
  <2> QED
    BY <1>6, <1>t, <2>1, <2>3 DEF StartPairing, ServicePart
<1>7. ASSUME NEW c \in Code, Revoke(t, c) PROVE ServicePart'
  <2>1. WindowPart'
    BY <1>7, <1>t, WindowStays DEF Revoke
  <2>2. /\ thread[t].pc \notin Event /\ "revoked" \in Event
        /\ Happened("revoked", 1) /\ Go(t, [Idle EXCEPT !.pc = "revoked", !.n = 1])
    BY <1>7 DEF Revoke, Event
  <2>3. RequestPart'
    BY <1>t, <1>n, <2>2, EventHappens
  <2> QED
    BY <1>7, <1>t, <2>1, <2>3 DEF Revoke, ServicePart
<1> QED
  BY <1>1, <1>2, <1>3, <1>4, <1>5, <1>6, <1>7 DEF ClaimStep

(* Every step keeps the service's part. *)
LEMMA ServiceNext == PairInv /\ ServicePart /\ [PairNext]_pairVars => ServicePart'
<1> SUFFICES ASSUME PairInv, ServicePart, [PairNext]_pairVars PROVE ServicePart'
  OBVIOUS
<1>t. WindowPart /\ RequestPart /\ revoked \subseteq Code /\ crashes \in 0 .. MaxCrash
  BY DEF ServicePart
<1>1. CASE Tick
  BY <1>1, <1>t, TickKeepsWindow, RequestsStay DEF Tick, ServicePart, storeVars
<1>2. CASE Restart
  <2>1. /\ failures' = <<>> /\ tripped' = FALSE /\ thread' = [t \in Thread |-> Idle]
        /\ owing' = [e \in Event |-> 0]
    BY <1>2 DEF Restart
  <2>2. WindowPart'
    BY <2>1, EmptyWindow DEF WindowPart
  <2>3. RequestPart'
    <3>1. \A t \in Thread : thread'[t] \in Request /\ thread'[t].pc = "idle"
      BY <2>1, IdleIsTyped
    <3>2. ASSUME NEW e \in Event PROVE owing'[e] = InHand(e)'
      <4>1. {h \in {t \in Thread : thread'[t].pc = e} \X (1 .. Cardinality(Code)) :
                h[2] <= thread'[h[1]].n} = {}
        BY <3>1 DEF Event
      <4> QED
        BY <2>1, <4>1, FS_EmptySet DEF InHand
    <3>3. thread' \in [Thread -> Request] /\ owing' \in [Event -> Int]
      <4>1. Idle \in Request
        BY IdleIsTyped
      <4>2. thread' \in [Thread -> Request]
        BY <2>1, <4>1
      <4>3. owing' \in [Event -> Int]
        BY <2>1
      <4> QED
        BY <4>2, <4>3
    <3> QED
      BY <3>2, <3>3 DEF RequestPart, EventHasOneRow
  <2>4. crashes' \in 0 .. MaxCrash /\ UNCHANGED revoked
    BY <1>2, <1>t, PairingAssumption DEF Restart, storeVars
  <2> QED
    BY <1>t, <2>2, <2>3, <2>4 DEF ServicePart
<1>3. ASSUME NEW c \in Code, CodeExpires(c) PROVE ServicePart'
  BY <1>3, <1>t, WindowStays, RequestsStay DEF CodeExpires, ServicePart
<1>4. CASE UNCHANGED pairVars
  BY <1>4, <1>t, WindowStays, RequestsStay DEF pairVars, storeVars, ServicePart
<1> QED
  BY <1>1, <1>2, <1>3, <1>4, RequestStep DEF PairNext

-----------------------------------------------------------------------------
(* DeviceStore.claim spends a code for one device, and a code that failed  *)
(* guesses voided for none, for any number of requests, codes and restarts.*)
THEOREM CodesPairOnce == PairSpec => []CodePairsOnce
<1>1. PairInv => CodePairsOnce
  BY DEF PairInv
<1> QED
  BY PairInitInv, PairNextInv, <1>1, PTL DEF PairSpec

(* The types of the pairing store, the throttle and the requests. *)
THEOREM PairTypeCorrect == PairSpec => []PairTypeOK
<1>1. PairInv /\ ServicePart => PairTypeOK
  BY DEF PairInv, StoreTypeOK, RowRec, ServicePart, WindowPart, RequestPart, Request, PairTypeOK
<1> QED
  BY PairInitInv, PairNextInv, ServiceInit, ServiceNext, <1>1, PTL DEF PairSpec

(* Every code issued or voided, pairing, revocation and trip of the        *)
(* throttle gets one ledger row or a failed request, for any number of     *)
(* requests: SELECT COUNT before the UPDATE counts the codes the UPDATE    *)
(* voids, and _tripped lets the first failure of a trip report it.         *)
THEOREM EventsHaveOneRow == PairSpec => []EventHasOneRow
<1>1. ServicePart => EventHasOneRow
  BY DEF ServicePart, RequestPart
<1> QED
  BY PairInitInv, PairNextInv, ServiceInit, ServiceNext, <1>1, PTL DEF PairSpec

(* The wait retry_after tells is right for any limit, window and overshoot *)
(* of concurrent failures: _failures stays oldest first.                   *)
THEOREM RetryAfterRight == PairSpec => []RetryAfterIsRight
<1>1. ServicePart => RetryAfterIsRight
  BY WindowSuffices DEF ServicePart
<1> QED
  BY PairInitInv, PairNextInv, ServiceInit, ServiceNext, <1>1, PTL DEF PairSpec
=============================================================================
