-------------------------------- MODULE Turns --------------------------------
(***************************************************************************)
(* The chat turns of one session: the stages of runtime/turn/pipeline.py   *)
(* and which of them serve a turn, the runner thread that drives a         *)
(* streamed turn and the relay that streams it                             *)
(* (server/harness_api/detached_turns.py), Stop, and the turns driven in   *)
(* line by drain: a synchronous chat, a resumed run and the welcome.       *)
(*                                                                         *)
(* A stage works, then hands its events to whoever drives the generator;   *)
(* what it writes after its last event is lost when Stop closes the        *)
(* generator there. One event stands for the events of a stage. The queue  *)
(* between runner and relay is first in, first out, so all that counts of  *)
(* it is whether its end is in it.                                         *)
(***************************************************************************)
EXTENDS Naturals, Sequences

CONSTANTS MaxTurns   \* the bound on the turns that start

ASSUME TurnsAssumption == MaxTurns \in Nat

Turn == 1 .. MaxTurns

VARIABLES
    started,     \* how many turns have started; turn n is the n-th
    registered,  \* _turns[session_id], or 0
    turn         \* where each turn stands

turnVars == <<started, registered, turn>>

Kind  == {"stream", "chat", "resume", "opener"}
Pc    == {"work", "yield", "failed", "end", "unregister", "over"}
Relay == {"none", "attached", "left", "ended"}

(* Whose words the answer is in: none yet, the program's own (the screen's *)
(* refusal, an error), what a handler said, what the curator or the guard  *)
(* passed or refused in its place, a judge's rewriting of it, the          *)
(* escalation judge's question.                                            *)
Words == {"none", "own", "raw", "curated", "guarded", "rewritten", "question"}

(* A turn: its stages still to come, what the screen, the handlers, the    *)
(* response checks and the record made of it, Stop, the end of its queue   *)
(* and its relay.                                                          *)
Fresh(k) ==
    [kind |-> k, pc |-> "work",
     stages |-> CASE k = "resume" -> <<"classify", "route", "plan", "execute", "curate",
                                       "guard", "notice", "record">>
                  [] k = "opener" -> <<"open", "guard", "record">>
                  [] OTHER -> <<"screen", "intercept", "classify", "route", "plan", "execute",
                                "curate", "guard", "notice", "record">>,
     screenedOut |-> FALSE, intercepted |-> FALSE, words |-> "none", filed |-> FALSE,
     failed |-> FALSE, cancel |-> FALSE, ended |-> FALSE,
     relay |-> IF k = "stream" THEN "attached" ELSE "none"]

(* STAGE_AUDIENCE. *)
Audience(stage) ==
    CASE stage \in {"classify", "route", "plan", "execute", "curate"} -> "generated"
      [] stage = "guard" -> "handled"
      [] OTHER -> "all"

(* serves: whether a stage runs for this turn, from the turn so far. *)
Serves(stage, t) ==
    IF t.screenedOut THEN stage = "record"
    ELSE CASE Audience(stage) = "generated" -> ~t.intercepted
           [] Audience(stage) = "handled" -> t.intercepted
           [] OTHER -> TRUE

Becomes(n, t) == turn' = [turn EXCEPT ![n] = t]
Closed(t)     == [t EXCEPT !.pc = IF t.kind = "stream" THEN "end" ELSE "over"]
NextStage(t)  == [t EXCEPT !.pc = "work", !.stages = Tail(t.stages)]

-----------------------------------------------------------------------------
(* Starting, stopping, watching.                                           *)

(* DetachedTurns.start: the session's newest turn takes the entry. A turn  *)
(* driven in line has none.                                                *)
Start(k) ==
    /\ started < MaxTurns
    /\ started' = started + 1
    /\ registered' = IF k = "stream" THEN started + 1 ELSE registered
    /\ Becomes(started + 1, Fresh(k))

(* cancel: Stop flags the registered turn. *)
Cancel ==
    /\ registered # 0 /\ ~turn[registered].cancel
    /\ Becomes(registered, [turn[registered] EXCEPT !.cancel = TRUE])
    /\ UNCHANGED <<started, registered>>

(* The client goes away: the relay's finally detaches the turn. *)
ClientLeaves(n) ==
    /\ n <= started /\ turn[n].relay = "attached"
    /\ Becomes(n, [turn[n] EXCEPT !.relay = "left"])
    /\ UNCHANGED <<started, registered>>

(* The relay reads the end of the queue. *)
RelayReads(n) ==
    /\ n <= started /\ turn[n].relay = "attached" /\ turn[n].ended
    /\ Becomes(n, [turn[n] EXCEPT !.relay = "ended"])
    /\ UNCHANGED <<started, registered>>

-----------------------------------------------------------------------------
(* The pipeline: _run_stages.                                              *)

(* A stage that does not serve the turn is skipped. *)
SkipStage(n) ==
    /\ n <= started /\ turn[n].pc = "work" /\ turn[n].stages # <<>>
    /\ ~Serves(Head(turn[n].stages), turn[n])
    /\ Becomes(n, NextStage(turn[n]))
    /\ UNCHANGED <<started, registered>>

(* notice and record have no event; record files the answer in the session *)
(* log. Both need an answer.                                               *)
QuietStage(n) ==
    /\ n <= started /\ turn[n].pc = "work" /\ turn[n].stages # <<>>
    /\ Head(turn[n].stages) \in {"notice", "record"}
    /\ Serves(Head(turn[n].stages), turn[n])
    /\ Becomes(n, [NextStage(turn[n]) EXCEPT !.filed = @ \/ Head(turn[n].stages) = "record"])
    /\ UNCHANGED <<started, registered>>

(* A deterministic handler that traces nothing, or none that matches: the  *)
(* intercept stage goes on without an event, so Stop is not looked at.     *)
SilentIntercept(n, hit) ==
    /\ n <= started /\ turn[n].pc = "work" /\ turn[n].stages # <<>>
    /\ Head(turn[n].stages) = "intercept"
    /\ Serves("intercept", turn[n])
    /\ Becomes(n, [NextStage(turn[n]) EXCEPT !.intercepted = hit,
                                              !.words = IF hit THEN "raw" ELSE @])
    /\ UNCHANGED <<started, registered>>

(* Mutant: what a judge rewrote is not checked again. *)
NoFinalCheck(w) == w

(* The second check, of a text the judges have changed since the first. *)
FinalCheck(w) == IF w = "rewritten" THEN "curated" ELSE w

(* curate: an error text, unchecked, when no task succeeded; else the text *)
(* as it was checked, or as the judges rewrote it.                         *)
Curate == {"own", FinalCheck("curated"), FinalCheck("rewritten")}

(* _finalize_chat: curated, and again after every re-run the escalation    *)
(* judge asks for, so in the end in curate's words; or the question that   *)
(* judge has for the user, which goes through no check.                    *)
Finalized == Curate \union {"question"}

(* The words after the stage t is at has worked. *)
Spoken(t) ==
    IF t.stages = <<>> THEN {t.words}
    ELSE CASE Head(t.stages) = "curate" -> Finalized
           [] Head(t.stages) = "guard" -> {"guarded"}
           [] OTHER -> {t.words}

(* Any other stage works, the curator and the guard on the answer's words, *)
(* and hands over an event. After the last stage comes `done`.             *)
StageWorks(n) ==
    /\ n <= started /\ turn[n].pc = "work"
    /\ turn[n].stages # <<>> =>
          /\ Serves(Head(turn[n].stages), turn[n])
          /\ Head(turn[n].stages) \notin {"notice", "record"}
    /\ \E w \in Spoken(turn[n]) :
          Becomes(n, [turn[n] EXCEPT !.pc = "yield", !.words = w])
    /\ UNCHANGED <<started, registered>>

(* A stage raises: a streamed turn ends with an error event, the others    *)
(* raise to their caller.                                                  *)
StageRaises(n) ==
    /\ n <= started /\ turn[n].pc = "work" /\ turn[n].stages # <<>>
    /\ Serves(Head(turn[n].stages), turn[n])
    /\ Becomes(n, [turn[n] EXCEPT !.failed = TRUE,
                      !.pc = IF turn[n].kind = "stream" THEN "failed" ELSE "over"])
    /\ UNCHANGED <<started, registered>>

(* What a stage writes after its event: the screen may refuse the turn, a  *)
(* handler may answer it, the opener does.                                 *)
Refused(t)  == [NextStage(t) EXCEPT !.screenedOut = TRUE, !.words = "own"]
Answered(t) == [NextStage(t) EXCEPT !.intercepted = TRUE, !.words = "raw"]

Resumes(t) ==
    {NextStage(t)}
      \union (IF Head(t.stages) = "screen" THEN {Refused(t)} ELSE {})
      \union (IF Head(t.stages) = "intercept" THEN {Answered(t)} ELSE {})

AfterEvent(t) ==
    IF t.pc = "failed" \/ t.stages = <<>> THEN {Closed(t)}
    ELSE IF Head(t.stages) = "open" THEN {Answered(t)}
    ELSE Resumes(t)

(* Mutant: the turn is closed when its client has gone, as it used to be. *)
TakeEventWhileRead(n) ==
    /\ n <= started /\ turn[n].pc \in {"yield", "failed"}
    /\ IF turn[n].cancel \/ turn[n].relay = "left" THEN Becomes(n, Closed(turn[n]))
       ELSE \E t \in AfterEvent(turn[n]) : Becomes(n, t)
    /\ UNCHANGED <<started, registered>>

(* The driver takes the event. The runner looks at Stop first, and closes  *)
(* the generator; it queues the event unless nobody reads, and goes on.    *)
TakeEvent(n) ==
    /\ n <= started /\ turn[n].pc \in {"yield", "failed"}
    /\ IF turn[n].cancel THEN Becomes(n, Closed(turn[n]))
       ELSE \E t \in AfterEvent(turn[n]) : Becomes(n, t)
    /\ UNCHANGED <<started, registered>>

-----------------------------------------------------------------------------
(* Mutant: a stopped turn puts no end in its queue. *)
PutEndUnlessStopped(n) ==
    /\ n <= started /\ turn[n].pc = "end"
    /\ Becomes(n, [turn[n] EXCEPT !.pc = "unregister", !.ended = ~turn[n].cancel])
    /\ UNCHANGED <<started, registered>>

(* Mutant: the runner drops the session's entry whosever it is. *)
UnregisterAny(n) ==
    /\ n <= started /\ turn[n].pc = "unregister"
    /\ registered' = 0
    /\ Becomes(n, [turn[n] EXCEPT !.pc = "over"])
    /\ UNCHANGED started

(* The runner's finally: the end of the queue, whatever happened, then the *)
(* entry, if it is still this turn's.                                      *)
PutEnd(n) ==
    /\ n <= started /\ turn[n].pc = "end"
    /\ Becomes(n, [turn[n] EXCEPT !.pc = "unregister", !.ended = TRUE])
    /\ UNCHANGED <<started, registered>>

Unregister(n) ==
    /\ n <= started /\ turn[n].pc = "unregister"
    /\ registered' = IF registered = n THEN 0 ELSE registered
    /\ Becomes(n, [turn[n] EXCEPT !.pc = "over"])
    /\ UNCHANGED started

TurnsInit ==
    /\ started = 0 /\ registered = 0
    /\ turn = [n \in Turn |-> Fresh("chat")]

RunnerStep(n) ==
    \/ SkipStage(n) \/ QuietStage(n) \/ StageWorks(n) \/ TakeEvent(n)
    \/ \E hit \in BOOLEAN : SilentIntercept(n, hit)
    \/ PutEnd(n) \/ Unregister(n)

TurnsNext ==
    \/ \E k \in Kind : Start(k)
    \/ Cancel
    \/ \E n \in Turn : ClientLeaves(n) \/ RelayReads(n) \/ RunnerStep(n) \/ StageRaises(n)

TurnsSpec == TurnsInit /\ [][TurnsNext]_turnVars

(* A runner thread runs on, a model call returns or raises, and a relay    *)
(* that is still attached reads on. Clients and the owner owe nothing.     *)
FairTurnsSpec ==
    /\ TurnsSpec
    /\ \A n \in Turn : WF_turnVars(RunnerStep(n)) /\ WF_turnVars(RelayReads(n))

-----------------------------------------------------------------------------
StageName == {"open", "screen", "intercept", "classify", "route", "plan", "execute",
              "curate", "guard", "notice", "record"}

(* Every variable has its type. *)
TurnsTypeOK ==
    /\ started \in 0 .. MaxTurns /\ registered \in 0 .. MaxTurns
    /\ turn \in [Turn -> [kind : Kind, pc : Pc, stages : Seq(StageName),
                          screenedOut : BOOLEAN, intercepted : BOOLEAN, words : Words,
                          filed : BOOLEAN, failed : BOOLEAN, cancel : BOOLEAN,
                          ended : BOOLEAN, relay : Relay]]

(* A turn outlives its connection: once started, it files its answer       *)
(* unless the owner stops it or a stage fails, whether or not its client   *)
(* stays and whatever turn starts after it.                                *)
AnswerIsFiled ==
    \A n \in Turn :
        n <= started ~> (n <= started /\ (turn[n].filed \/ turn[n].cancel \/ turn[n].failed))

(* Stop and turn_in_progress reach the session's newest streamed turn for  *)
(* as long as it runs: an older turn that ends later does not take the     *)
(* newer one's entry with it, and no entry outlives its turn.              *)
NewestIsReachable ==
    LET streams == {n \in 1 .. started : turn[n].kind = "stream"}
    IN  \A n \in streams :
          (\A m \in streams : m <= n) => (registered = n <=> turn[n].pc # "over")

(* A client that stays is not kept waiting: its stream ends, also when the *)
(* turn is stopped, superseded or fails.                                   *)
RelayIsReleased ==
    \A n \in Turn :
        (n <= started /\ turn[n].relay = "attached") ~> turn[n].relay # "attached"

(* What is filed in the session log was checked where it should be: a      *)
(* handler's answer by the guard and never by the curator, a generated one *)
(* by the curator and never by the guard, in the words that are filed, a   *)
(* judge's rewriting included. Three things pass no check: the screen's    *)
(* refusal, curate's own words when every task failed, and the escalation  *)
(* judge's question. What the program appends to a checked answer (a       *)
(* warning banner, a notice) is not told apart.                            *)
FiledWasChecked ==
    \A n \in 1 .. started : turn[n].filed =>
        turn[n].words \in IF turn[n].screenedOut THEN {"own"}
                          ELSE IF turn[n].intercepted THEN {"guarded"}
                          ELSE {"curated", "own", "question"}
=============================================================================
