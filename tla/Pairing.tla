------------------------------- MODULE Pairing -------------------------------
(***************************************************************************)
(* Device pairing (kernel/governance/devices): the pairing codes and       *)
(* devices of store.py, the steps of DeviceService.claim and revoke, the   *)
(* sliding window of ClaimThrottle, and the ledger rows they owe.          *)
(*                                                                         *)
(* A code is a fresh secret and pairs at most one device (CodePairsOnce),  *)
(* so a device is named by its code. A failure in the window is what is    *)
(* left until it stops counting; the code drops it at the next look.       *)
(***************************************************************************)
EXTENDS Integers, Sequences, FiniteSets

CONSTANTS
    Code,         \* the codes that can be minted
    Wrong,        \* a guess that is no code
    Thread,       \* the requests handled at once
    MaxAttempts,  \* PAIRING_MAX_ATTEMPTS
    Limit,        \* CLAIM_FAILURE_LIMIT
    Window,       \* CLAIM_FAILURE_WINDOW
    MaxCrash,     \* the bound on restarts of the process
    None          \* no row

ASSUME PairingAssumption ==
    /\ Wrong \notin Code
    /\ MaxAttempts \in Nat \ {0} /\ Limit \in Nat \ {0} /\ Window \in Nat \ {0}
    /\ MaxCrash \in Nat
    /\ IsFiniteSet(Code) /\ Code # {} /\ IsFiniteSet(Thread)
    /\ None \notin [attempts : 0 .. MaxAttempts, used : BOOLEAN, expired : BOOLEAN]

VARIABLES
    row,       \* a code's row: [attempts, used, expired], or None
    minted,    \* the codes handed out
    devices,   \* how many devices a code has paired
    revoked,   \* the devices that are revoked
    failures,  \* _failures, oldest first
    tripped,   \* _tripped
    thread,    \* where each request stands
    owing,     \* events that happened, less those recorded or refused a row
    crashes    \* how often the process restarted

storeVars == <<row, minted, devices, revoked>>
pairVars  == <<storeVars, failures, tripped, thread, owing, crashes>>

Event == {"started", "paired", "revoked", "voided", "throttled"}
Pc    == {"idle", "claiming", "failed", "counting"} \union Event

(* A request: the code it claims, the codes expired at its `now`, and how  *)
(* many codes the store says it voided.                                    *)
Idle == [pc |-> "idle", guess |-> Wrong, late |-> {}, n |-> 0]

Go(t, rec)     == thread' = [thread EXCEPT ![t] = rec]
Happened(e, n) == owing' = [owing EXCEPT ![e] = @ + n]
Live(c)        == row[c] # None /\ ~row[c].used
Late           == {c \in Code : row[c] # None /\ row[c].expired}

-----------------------------------------------------------------------------
(* The window.                                                             *)

(* The oldest failure that still counts, or the end of s. *)
OldestIn(s) ==
    CHOOSE k \in 1 .. Len(s) + 1 :
        /\ \A i \in 1 .. k - 1 : s[i] = 0
        /\ k <= Len(s) => s[k] > 0

(* _expire: failures leave on the left until one still counts. *)
Expired(s) == SubSeq(s, OldestIn(s), Len(s))
Full(s)    == Len(s) >= Limit

(* Mutant: the window reopens with its oldest failure. *)
RetryAfterOldest(s) == s[1]

(* retry_after's answer while s is full: when enough of the oldest         *)
(* failures are out.                                                       *)
RetryAfter(s) == s[Len(s) - Limit + 1]

-----------------------------------------------------------------------------
(* Codes.                                                                  *)

(* start_pairing: the dead codes are dropped, a fresh one is stored. *)
StartPairing(t, c) ==
    /\ thread[t].pc = "idle" /\ c \notin minted
    /\ minted' = minted \union {c}
    /\ row' = [k \in Code |->
         IF k = c THEN [attempts |-> 0, used |-> FALSE, expired |-> FALSE]
         ELSE IF row[k] # None /\ (row[k].used \/ row[k].expired) THEN None
         ELSE row[k]]
    /\ Happened("started", 1)
    /\ Go(t, [Idle EXCEPT !.pc = "started", !.n = 1])
    /\ UNCHANGED <<devices, revoked, failures, tripped, crashes>>

CodeExpires(c) ==
    /\ row[c] # None /\ ~row[c].expired
    /\ row' = [row EXCEPT ![c].expired = TRUE]
    /\ UNCHANGED <<minted, devices, revoked, failures, tripped, thread, owing, crashes>>

-----------------------------------------------------------------------------
(* DeviceService.claim, step by step.                                      *)

(* Mutant: a refused claim counts as a failure. *)
AdmitCountsRefusal(t, guess) ==
    /\ thread[t].pc = "idle"
    /\ LET left == Expired(failures) IN
         /\ failures' = IF Full(left) THEN Append(left, Window) ELSE left
         /\ tripped' = (tripped /\ Full(left))
         /\ IF Full(left) THEN UNCHANGED thread
            ELSE Go(t, [Idle EXCEPT !.pc = "claiming", !.guess = guess, !.late = Late])
    /\ UNCHANGED <<storeVars, owing, crashes>>

(* The throttle is asked first: a refused claim costs nothing. `now` is    *)
(* taken once, for the claim and for its failure.                          *)
Admit(t, guess) ==
    /\ thread[t].pc = "idle"
    /\ LET left == Expired(failures) IN
         /\ failures' = left
         /\ tripped' = (tripped /\ Full(left))
         /\ IF Full(left) THEN UNCHANGED thread
            ELSE Go(t, [Idle EXCEPT !.pc = "claiming", !.guess = guess, !.late = Late])
    /\ UNCHANGED <<storeVars, owing, crashes>>

(* Mutant: the UPDATE does not look at used_at. *)
SpendableAgain(t) ==
    LET c == thread[t].guess IN
    c \in Code \ thread[t].late /\ row[c] # None /\ row[c].attempts < MaxAttempts

(* What the UPDATE of DeviceStore.claim matches. *)
Spendable(t) ==
    LET c == thread[t].guess IN
    c \in Code \ thread[t].late /\ Live(c) /\ row[c].attempts < MaxAttempts

(* The code is spent and its device made in one transaction. *)
StoreClaim(t) ==
    LET c == thread[t].guess IN
    /\ thread[t].pc = "claiming"
    /\ IF Spendable(t)
       THEN /\ row' = [row EXCEPT ![c].used = TRUE]
            /\ devices' = [devices EXCEPT ![c] = @ + 1]
            /\ Happened("paired", 1)
            /\ Go(t, [Idle EXCEPT !.pc = "paired", !.n = 1])
       ELSE /\ Go(t, [Idle EXCEPT !.pc = "failed", !.late = thread[t].late])
            /\ UNCHANGED <<row, devices, owing>>
    /\ UNCHANGED <<minted, revoked, failures, tripped, crashes>>

(* The codes not yet voided that had not expired at the request's `now`,   *)
(* one minted since then among them.                                       *)
Charged(t) ==
    {c \in Code \ thread[t].late : Live(c) /\ row[c].attempts < MaxAttempts}

(* Mutant: attempts = max counted after the UPDATE. *)
VoidedCountAfter(t) ==
    Cardinality({c \in Code \ thread[t].late : Live(c) /\ row[c].attempts >= MaxAttempts - 1})

(* SELECT COUNT before the UPDATE: the codes on their last attempt. *)
VoidedCount(t) ==
    Cardinality({c \in Charged(t) : row[c].attempts = MaxAttempts - 1})

(* record_failed_claim: a wrong guess is charged to every live code. *)
RecordFailedClaim(t) ==
    /\ thread[t].pc = "failed"
    /\ row' = [c \in Code |->
         IF c \in Charged(t) THEN [row[c] EXCEPT !.attempts = @ + 1] ELSE row[c]]
    /\ Happened("voided", Cardinality({c \in Code : row[c] # None
           /\ row[c].attempts < MaxAttempts /\ row'[c].attempts = MaxAttempts}))
    /\ Go(t, IF VoidedCount(t) > 0 THEN [Idle EXCEPT !.pc = "voided", !.n = VoidedCount(t)]
             ELSE [Idle EXCEPT !.pc = "counting"])
    /\ UNCHANGED <<minted, devices, revoked, failures, tripped, crashes>>

(* ClaimThrottle.record_failure: the failure that fills the window trips   *)
(* it, once per trip.                                                      *)
Trips(left) == Full(Append(left, Window)) /\ ~(tripped /\ Full(left))

CountFailure(t) ==
    /\ thread[t].pc = "counting"
    /\ LET left == Expired(failures) IN
         /\ failures' = Append(left, Window)
         /\ tripped' = ((tripped /\ Full(left)) \/ Trips(left))
         /\ Happened("throttled", IF Full(failures') /\ ~Full(left) THEN 1 ELSE 0)
         /\ Go(t, IF Trips(left) THEN [Idle EXCEPT !.pc = "throttled", !.n = 1] ELSE Idle)
    /\ UNCHANGED <<storeVars, crashes>>

(* _record: the ledger row of what the request has just done. *)
Record(t) ==
    LET e == thread[t].pc IN
    /\ e \in Event
    /\ owing' = [owing EXCEPT ![e] = @ - thread[t].n]
    /\ Go(t, IF e = "voided" THEN [Idle EXCEPT !.pc = "counting"] ELSE Idle)
    /\ UNCHANGED <<storeVars, failures, tripped, crashes>>

(* The ledger has no room for the row: the request fails where it stands,  *)
(* its code spent or its device revoked; a failed claim is not counted.    *)
RecordRaises(t) ==
    LET e == thread[t].pc IN
    /\ e \in Event
    /\ owing' = [owing EXCEPT ![e] = @ - thread[t].n]
    /\ Go(t, Idle)
    /\ UNCHANGED <<storeVars, failures, tripped, crashes>>

-----------------------------------------------------------------------------
(* revoke: UPDATE ... WHERE revoked_at IS NULL; only the call that changed *)
(* the row records it.                                                     *)
Revoke(t, c) ==
    /\ thread[t].pc = "idle" /\ devices[c] > 0
    /\ c \notin revoked
    /\ revoked' = revoked \union {c}
    /\ Happened("revoked", 1)
    /\ Go(t, [Idle EXCEPT !.pc = "revoked", !.n = 1])
    /\ UNCHANGED <<row, minted, devices, failures, tripped, crashes>>

(* The process restarts: the window and every request are gone, the store  *)
(* stays, rows not yet written never will be.                              *)
Restart ==
    /\ crashes < MaxCrash
    /\ crashes' = crashes + 1
    /\ thread' = [t \in Thread |-> Idle]
    /\ failures' = <<>> /\ tripped' = FALSE
    /\ owing' = [e \in Event |-> 0]
    /\ UNCHANGED storeVars

Tick ==
    /\ \E i \in DOMAIN failures : failures[i] > 0
    /\ failures' = [i \in DOMAIN failures |-> IF failures[i] > 0 THEN failures[i] - 1 ELSE 0]
    /\ UNCHANGED <<storeVars, tripped, thread, owing, crashes>>

PairInit ==
    /\ row = [c \in Code |-> None] /\ minted = {}
    /\ devices = [c \in Code |-> 0] /\ revoked = {}
    /\ failures = <<>> /\ tripped = FALSE
    /\ thread = [t \in Thread |-> Idle]
    /\ owing = [e \in Event |-> 0]
    /\ crashes = 0

ClaimStep(t) == StoreClaim(t) \/ RecordFailedClaim(t) \/ CountFailure(t) \/ Record(t)
                   \/ RecordRaises(t)

PairNext ==
    \/ Tick \/ Restart
    \/ \E c \in Code : CodeExpires(c)
    \/ \E t \in Thread :
         \/ \E g \in Code \union {Wrong} : Admit(t, g)
         \/ ClaimStep(t)
         \/ \E c \in Code : StartPairing(t, c) \/ Revoke(t, c)

PairSpec == PairInit /\ [][PairNext]_pairVars

(* Only that time passes: a flood of guesses may go on for ever. *)
FairPairSpec == PairSpec /\ WF_pairVars(Tick)

-----------------------------------------------------------------------------
(* Every variable has its type. *)
PairTypeOK ==
    /\ row \in [Code -> [attempts : 0 .. MaxAttempts, used : BOOLEAN, expired : BOOLEAN]
                           \union {None}]
    /\ minted \subseteq Code
    /\ devices \in [Code -> Nat] /\ revoked \subseteq Code
    /\ failures \in Seq(0 .. Window) /\ tripped \in BOOLEAN
    /\ thread \in [Thread -> [pc : Pc, guess : Code \union {Wrong},
                              late : SUBSET Code, n : 0 .. Cardinality(Code)]]
    /\ owing \in [Event -> Int]
    /\ crashes \in 0 .. MaxCrash

(* A code pairs one device, and none once it is voided, however claims,    *)
(* wrong guesses, new codes and restarts interleave: the store's UPDATE is *)
(* the lock.                                                               *)
CodePairsOnce ==
    \A c \in Code :
        /\ devices[c] <= 1
        /\ row[c] # None => (devices[c] = 1 <=> row[c].used)
        /\ devices[c] = 1 /\ row[c] # None => row[c].attempts < MaxAttempts

(* What is in a request's hands of event e. *)
InHand(e) ==
    LET holders == {t \in Thread : thread[t].pc = e}
    IN  Cardinality({h \in holders \X (1 .. Cardinality(Code)) : h[2] <= thread[h[1]].n})

(* Every code issued or voided, pairing, revocation and closing of the     *)
(* window gets one ledger row, or its request fails for want of one: two   *)
(* guesses racing on a code's last attempt report its void once, and       *)
(* concurrent failures report a trip once. A restart between an event and  *)
(* its row loses the row: it clears `owing`.                               *)
EventHasOneRow == \A e \in Event : owing[e] = InHand(e)

(* The wait a refused caller is told is right: that long from now the      *)
(* window has room, and not sooner, although concurrent claims can have    *)
(* overfilled it.                                                          *)
RetryAfterIsRight ==
    LET left == Expired(failures)
        StillIn(d) == Cardinality({i \in DOMAIN left : left[i] > d})
    IN  Full(left) =>
          /\ StillIn(RetryAfter(left)) < Limit
          /\ StillIn(RetryAfter(left) - 1) >= Limit

(* A flood of guesses cannot keep the window shut: refused claims are not  *)
(* counted, so it opens again while they go on.                            *)
WindowReopens == Full(Expired(failures)) ~> ~Full(Expired(failures))
=============================================================================
