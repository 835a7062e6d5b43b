----------------------------- MODULE TurnsProofs -----------------------------
(***************************************************************************)
(* Stop reaches the session's newest streamed turn, and every answer that  *)
(* is filed was checked by the stage it is for, for any number of turns.   *)
(*                                                                         *)
(* What one turn's steps keep (Sound) is proved for a turn record alone:   *)
(* where it stands in its list of stages says whose words its answer is    *)
(* in. The session's part is the register (NewestIsReachable).             *)
(***************************************************************************)
EXTENDS Turns, Integers, SequenceTheorems, TLAPS

TurnRec == [kind : Kind, pc : Pc, stages : Seq(StageName),
            screenedOut : BOOLEAN, intercepted : BOOLEAN, words : Words,
            filed : BOOLEAN, failed : BOOLEAN, cancel : BOOLEAN,
            ended : BOOLEAN, relay : Relay]

(* The stages of a chat turn, and what is left of them at the i-th; a      *)
(* resumed run starts at the third. The welcome has a list of its own.     *)
Chat == <<"screen", "intercept", "classify", "route", "plan", "execute",
          "curate", "guard", "notice", "record">>
Welcome == <<"open", "guard", "record">>
ChatFrom(i)    == SubSeq(Chat, i, 10)
WelcomeFrom(i) == SubSeq(Welcome, i, 3)

Running(t) == t.pc \in {"work", "yield"}

(* The answer is in the words it may be filed in. *)
Right(t) ==
    t.words \in IF t.screenedOut THEN {"own"}
                ELSE IF t.intercepted THEN {"guarded"}
                ELSE {"curated", "own", "question"}

(* A turn at the i-th stage of a chat: a refused one is in the program's   *)
(* words from the start; a generated answer is right from the curator (7)  *)
(* on, a handler's from the guard (8) on.                                  *)
ChatAt(t, i) ==
    /\ t.stages = ChatFrom(i)
    /\ Running(t) /\ i <= 7 => (t.screenedOut => t.words = "own")
    /\ t.pc = "yield" /\ i = 2 => ~t.screenedOut
    /\ t.pc = "yield" /\ i = 7 => Right(t) /\ ~t.screenedOut /\ ~t.intercepted
    /\ t.pc = "work" /\ i = 8 => Right(t) \/ (t.intercepted /\ ~t.screenedOut)
    /\ t.pc = "yield" /\ i = 8 => Right(t)
    /\ Running(t) /\ i > 8 => Right(t)
    /\ i = 11 => Right(t)
    /\ t.filed => i = 11

WelcomeAt(t, i) ==
    /\ t.stages = WelcomeFrom(i) /\ ~t.screenedOut
    /\ Running(t) /\ i = 2 => t.intercepted
    /\ t.pc = "yield" /\ i = 2 => Right(t)
    /\ Running(t) /\ i > 2 => Right(t)
    /\ i = 4 => Right(t)
    /\ t.filed => i = 4

Sound(t) ==
    IF t.kind = "opener" THEN \E i \in 1 .. 4 : WelcomeAt(t, i)
                         ELSE \E i \in 1 .. 11 : ChatAt(t, i)

TurnsInv ==
    /\ started \in 0 .. MaxTurns /\ registered \in 0 .. MaxTurns
    /\ turn \in [Turn -> TurnRec]
    /\ \A n \in Turn : Sound(turn[n])
    /\ NewestIsReachable

-----------------------------------------------------------------------------
(* The lists of stages.                                                    *)

LEMMA ChatStages ==
    /\ Chat \in Seq(StageName) /\ Len(Chat) = 10
    /\ Chat[1] = "screen" /\ Chat[2] = "intercept" /\ Chat[3] = "classify"
    /\ Chat[4] = "route" /\ Chat[5] = "plan" /\ Chat[6] = "execute"
    /\ Chat[7] = "curate" /\ Chat[8] = "guard" /\ Chat[9] = "notice" /\ Chat[10] = "record"
BY DEF Chat, StageName

LEMMA WelcomeStages ==
    /\ Welcome \in Seq(StageName) /\ Len(Welcome) = 3
    /\ Welcome[1] = "open" /\ Welcome[2] = "guard" /\ Welcome[3] = "record"
BY DEF Welcome, StageName

(* What is left has the stage it is at first, and then what is left of the *)
(* next.                                                                   *)
LEMMA ChatRests ==
    /\ ChatFrom(11) = <<>>
    /\ \A i \in 1 .. 11 : ChatFrom(i) \in Seq(StageName)
    /\ \A i \in 1 .. 10 : /\ ChatFrom(i) # <<>>
                          /\ Head(ChatFrom(i)) = Chat[i]
                          /\ Tail(ChatFrom(i)) = ChatFrom(i + 1)
<1>1. ChatFrom(11) = <<>>
  BY SubSeqEmpty DEF ChatFrom
<1>2. ASSUME NEW i \in 1 .. 10
      PROVE  /\ Head(ChatFrom(i)) = Chat[i] /\ Tail(ChatFrom(i)) = ChatFrom(i + 1)
  BY <1>2, ChatStages, HeadTailOfSubSeq DEF ChatFrom
<1>3. ASSUME NEW i \in 1 .. 11
      PROVE  ChatFrom(i) \in Seq(StageName) /\ (i < 11 => ChatFrom(i) # <<>>)
  <2>1. ASSUME NEW k \in i .. 10 PROVE Chat[k] \in StageName
    <3>1. k \in 1 .. Len(Chat)
      BY ChatStages
    <3> QED
      BY <3>1, ChatStages, ElementOfSeq
  <2>2. /\ SubSeq(Chat, i, 10) \in Seq(StageName)
        /\ Len(SubSeq(Chat, i, 10)) = IF i <= 10 THEN 10 - i + 1 ELSE 0
    BY <2>1, SubSeqProperties
  <2>3. i < 11 => Len(ChatFrom(i)) > 0
    BY <2>2 DEF ChatFrom
  <2>4. Len(<<>>) = 0
    BY EmptySeq
  <2>5. i < 11 => ChatFrom(i) # <<>>
    BY <2>3, <2>4
  <2>6. ChatFrom(i) \in Seq(StageName)
    BY <2>2 DEF ChatFrom
  <2> QED
    BY <2>5, <2>6
<1>4. \A i \in 1 .. 10 : i \in 1 .. 11 /\ i < 11
  OBVIOUS
<1> QED
  BY <1>1, <1>2, <1>3, <1>4

LEMMA WelcomeRests ==
    /\ WelcomeFrom(4) = <<>>
    /\ \A i \in 1 .. 4 : WelcomeFrom(i) \in Seq(StageName)
    /\ \A i \in 1 .. 3 : /\ WelcomeFrom(i) # <<>>
                         /\ Head(WelcomeFrom(i)) = Welcome[i]
                         /\ Tail(WelcomeFrom(i)) = WelcomeFrom(i + 1)
<1>1. WelcomeFrom(4) = <<>>
  BY SubSeqEmpty DEF WelcomeFrom
<1>2. ASSUME NEW i \in 1 .. 3
      PROVE  /\ Head(WelcomeFrom(i)) = Welcome[i] /\ Tail(WelcomeFrom(i)) = WelcomeFrom(i + 1)
  BY <1>2, WelcomeStages, HeadTailOfSubSeq DEF WelcomeFrom
<1>3. ASSUME NEW i \in 1 .. 4
      PROVE  WelcomeFrom(i) \in Seq(StageName) /\ (i < 4 => WelcomeFrom(i) # <<>>)
  <2>1. ASSUME NEW k \in i .. 3 PROVE Welcome[k] \in StageName
    <3>1. k \in 1 .. Len(Welcome)
      BY WelcomeStages
    <3> QED
      BY <3>1, WelcomeStages, ElementOfSeq
  <2>2. /\ SubSeq(Welcome, i, 3) \in Seq(StageName)
        /\ Len(SubSeq(Welcome, i, 3)) = IF i <= 3 THEN 3 - i + 1 ELSE 0
    BY <2>1, SubSeqProperties
  <2>3. i < 4 => Len(WelcomeFrom(i)) > 0
    BY <2>2 DEF WelcomeFrom
  <2>4. Len(<<>>) = 0
    BY EmptySeq
  <2>5. i < 4 => WelcomeFrom(i) # <<>>
    BY <2>3, <2>4
  <2>6. WelcomeFrom(i) \in Seq(StageName)
    BY <2>2 DEF WelcomeFrom
  <2> QED
    BY <2>5, <2>6
<1>4. \A i \in 1 .. 3 : i \in 1 .. 4 /\ i < 4
  OBVIOUS
<1> QED
  BY <1>1, <1>2, <1>3, <1>4

(* A turn that starts is sound. *)
LEMMA FreshIsSound ==
    ASSUME NEW k \in Kind
    PROVE  /\ Fresh(k) \in TurnRec /\ Sound(Fresh(k))
           /\ Fresh(k).kind = k /\ Fresh(k).pc = "work"
<1> DEFINE resumed == <<"classify", "route", "plan", "execute", "curate", "guard",
                        "notice", "record">>
<1>1. ChatFrom(1) = Chat
  BY ChatStages, SubSeqFull DEF ChatFrom
<1>2. WelcomeFrom(1) = Welcome
  BY WelcomeStages, SubSeqFull DEF WelcomeFrom
<1>3. ChatFrom(3) = resumed
  <2>1. resumed \in Seq(StageName) /\ Len(resumed) = 8
    BY DEF StageName
  <2>2. ASSUME NEW j \in 3 .. 10 PROVE Chat[j] \in StageName
    <3>1. j \in 1 .. Len(Chat)
      BY ChatStages
    <3> QED
      BY <3>1, ChatStages, ElementOfSeq
  <2>3. /\ ChatFrom(3) \in Seq(StageName) /\ Len(ChatFrom(3)) = 8
        /\ \A j \in 1 .. 8 : ChatFrom(3)[j] = Chat[3 + j - 1]
    BY <2>2, SubSeqProperties DEF ChatFrom
  <2>4. \A j \in 1 .. 8 : resumed[j] = Chat[3 + j - 1]
    BY DEF Chat
  <2> QED
    BY <2>1, <2>3, <2>4, SeqEqual
<1>4. CASE k = "opener"
  <2>1. Fresh(k) = [kind |-> k, pc |-> "work", stages |-> WelcomeFrom(1),
                    screenedOut |-> FALSE, intercepted |-> FALSE, words |-> "none", filed |-> FALSE,
                    failed |-> FALSE, cancel |-> FALSE, ended |-> FALSE, relay |-> "none"]
    BY <1>2, <1>4 DEF Fresh, Welcome
  <2>2. Fresh(k) \in TurnRec
    BY <2>1, WelcomeRests DEF TurnRec, Pc, Relay, Words
  <2>3. WelcomeAt(Fresh(k), 1)
    BY <2>1 DEF WelcomeAt, Running
  <2> QED
    BY <1>4, <2>1, <2>2, <2>3 DEF Sound
<1>5. CASE k # "opener"
  <2>1. PICK i \in {1, 3} : (k = "resume" /\ i = 3) \/ (k # "resume" /\ i = 1)
    OBVIOUS
  <2>2. PICK rel \in Relay :
            Fresh(k) = [kind |-> k, pc |-> "work", stages |-> ChatFrom(i),
                    screenedOut |-> FALSE, intercepted |-> FALSE, words |-> "none", filed |-> FALSE,
                    failed |-> FALSE, cancel |-> FALSE, ended |-> FALSE, relay |-> rel]
    BY <1>1, <1>3, <1>5, <2>1 DEF Fresh, Chat, Relay
  <2>5. i \in 1 .. 11
    BY <2>1
  <2>6. ChatFrom(i) \in Seq(StageName) /\ "work" \in Pc
    BY <2>5, ChatRests DEF Pc
  <2>3. Fresh(k) \in TurnRec
    BY <2>2, <2>6 DEF TurnRec, Words
  <2>4. ChatAt(Fresh(k), i)
    BY <2>1, <2>2 DEF ChatAt, Running
  <2> QED
    BY <1>5, <2>1, <2>2, <2>3, <2>4 DEF Sound
<1> QED
  BY <1>4, <1>5

-----------------------------------------------------------------------------
(* What a step does to the turn it is of.                                  *)

(* A turn stays sound when it stands where it stood, and when it leaves    *)
(* its stages for good.                                                    *)
LEMMA StandsStill ==
    ASSUME NEW t, NEW u, Sound(t), u.pc = t.pc \/ ~Running(u),
           u.kind = t.kind, u.stages = t.stages, u.words = t.words, u.filed = t.filed,
           u.screenedOut = t.screenedOut, u.intercepted = t.intercepted
    PROVE  Sound(u)
<1>1. \A i \in 1 .. 4 : WelcomeAt(t, i) => WelcomeAt(u, i)
  BY DEF WelcomeAt, Running, Right
<1>2. \A i \in 1 .. 11 : ChatAt(t, i) => ChatAt(u, i)
  BY DEF ChatAt, Running, Right
<1> QED
  BY <1>1, <1>2 DEF Sound

(* A stage that serves a turn and works: the curator puts a generated      *)
(* answer right, the guard a handler's, no other changes the words.        *)
LEMMA WorkIsSound ==
    ASSUME NEW t \in TurnRec, NEW u, Sound(t), t.pc = "work", u.pc = "yield",
           t.stages # <<>> => /\ Serves(Head(t.stages), t)
                              /\ Head(t.stages) \notin {"notice", "record"},
           u.kind = t.kind, u.stages = t.stages, u.words \in Spoken(t),
           u.filed = t.filed,
           u.screenedOut = t.screenedOut, u.intercepted = t.intercepted
    PROVE  Sound(u)
<1>1. CASE t.kind = "opener"
  <2>1. PICK i \in 1 .. 4 : WelcomeAt(t, i)
    BY <1>1 DEF Sound
  <2>2. i < 4 => t.stages # <<>> /\ Head(t.stages) = Welcome[i]
    BY <2>1, WelcomeRests DEF WelcomeAt
  <2>3. WelcomeAt(u, i) => Sound(u)
    BY <1>1 DEF Sound
  <2>4. CASE i = 1
    BY <2>1, <2>3, <2>4 DEF WelcomeAt, Running
  <2>5. CASE i = 2
    <3>1. u.words = "guarded"
      BY <2>2, <2>5, WelcomeStages DEF Spoken
    <3>2. t.intercepted /\ ~t.screenedOut
      BY <2>1, <2>5 DEF WelcomeAt, Running
    <3> QED
      BY <2>1, <2>3, <2>5, <3>1, <3>2 DEF WelcomeAt, Running, Right
  <2>6. CASE i = 3
    BY <2>2, <2>6, WelcomeStages
  <2>7. CASE i = 4
    <3>1. u.words = t.words
      BY <2>1, <2>7, WelcomeRests DEF Spoken, WelcomeAt
    <3> QED
      BY <2>1, <2>3, <2>7, <3>1 DEF WelcomeAt, Running, Right
  <2> QED
    BY <2>4, <2>5, <2>6, <2>7
<1>2. CASE t.kind # "opener"
  <2>1. PICK i \in 1 .. 11 : ChatAt(t, i)
    BY <1>2 DEF Sound
  <2>2. ASSUME i < 11 PROVE t.stages # <<>> /\ Head(t.stages) = Chat[i]
    <3>1. i \in 1 .. 10
      BY <2>2
    <3> QED
      BY <2>1, <3>1, ChatRests DEF ChatAt
  <2>3. ChatAt(u, i) => Sound(u)
    BY <1>2 DEF Sound
  <2>4. CASE i < 7
    <3>1. u.words = t.words
      BY <2>2, <2>4, ChatStages DEF Spoken
    <3>2. i = 2 => ~t.screenedOut
      BY <2>2, <2>4, ChatStages DEF Serves
    <3> QED
      BY <2>1, <2>3, <2>4, <3>1, <3>2 DEF ChatAt, Running
  <2>5. CASE i = 7
    <3>1. Head(t.stages) = "curate" /\ t.stages # <<>>
      BY <2>2, <2>5, ChatStages
    <3>2. ~t.screenedOut /\ ~t.intercepted
      BY <3>1 DEF Serves, Audience
    <3>3. u.words \in {"curated", "own", "question"}
      BY <3>1 DEF Spoken, Finalized, Curate, FinalCheck
    <3> QED
      BY <2>1, <2>3, <2>5, <3>2, <3>3 DEF ChatAt, Running, Right
  <2>6. CASE i = 8
    <3>1. Head(t.stages) = "guard" /\ t.stages # <<>>
      BY <2>2, <2>6, ChatStages
    <3>2. ~t.screenedOut /\ t.intercepted
      BY <3>1 DEF Serves, Audience
    <3>3. u.words = "guarded"
      BY <3>1 DEF Spoken
    <3> QED
      BY <2>1, <2>3, <2>6, <3>2, <3>3 DEF ChatAt, Running, Right
  <2>7. CASE i \in {9, 10}
    BY <2>2, <2>7, ChatStages
  <2>8. CASE i = 11
    <3>1. u.words = t.words
      BY <2>1, <2>8, ChatRests DEF Spoken, ChatAt
    <3> QED
      BY <2>1, <2>3, <2>8, <3>1 DEF ChatAt, Running, Right
  <2> QED
    BY <2>4, <2>5, <2>6, <2>7, <2>8
<1> QED
  BY <1>1, <1>2

(* A turn that goes on to its next stage: only the screen, the handlers    *)
(* and the opener change who answers it and in which words, only the       *)
(* record files it, and a stage that checks is left without its check only *)
(* if it does not serve the turn.                                          *)
MovesOn(t, u) ==
    /\ t.stages # <<>> /\ Running(t) /\ u.pc = "work"
    /\ u.kind = t.kind /\ u.stages = Tail(t.stages)
    /\ Head(t.stages) \notin {"screen", "intercept", "open"} =>
           /\ u.screenedOut = t.screenedOut /\ u.intercepted = t.intercepted
           /\ u.words = t.words
    /\ Head(t.stages) = "screen" =>
           u.words = "own" \/ (u.words = t.words /\ u.screenedOut = t.screenedOut)
    /\ Head(t.stages) = "intercept" =>
           /\ u.screenedOut = t.screenedOut
           /\ u.words = t.words \/ t.pc = "yield" \/ Serves("intercept", t)
    /\ Head(t.stages) = "open" => u.screenedOut = t.screenedOut
    /\ Head(t.stages) = "open" /\ t.pc = "yield" => u.intercepted
    /\ t.pc = "work" /\ Head(t.stages) \in {"curate", "guard", "open"} =>
           ~Serves(Head(t.stages), t)
    /\ u.filed => t.filed \/ Head(t.stages) = "record"

LEMMA MoveIsSound ==
    ASSUME NEW t \in TurnRec, NEW u \in TurnRec, Sound(t), MovesOn(t, u)
    PROVE  Sound(u)
<1>1. CASE t.kind = "opener"
  <2>1. PICK i \in 1 .. 4 : WelcomeAt(t, i)
    BY <1>1 DEF Sound
  <2>2. i # 4
    BY <2>1, WelcomeRests DEF WelcomeAt, MovesOn
  <2>3. i \in 1 .. 3 /\ i + 1 \in 1 .. 4
    BY <2>2
  <2>4. /\ Head(t.stages) = Welcome[i] /\ u.stages = WelcomeFrom(i + 1)
        /\ u.kind = "opener" /\ ~t.screenedOut /\ ~t.filed
    BY <1>1, <2>1, <2>3, WelcomeRests DEF WelcomeAt, MovesOn
  <2>5. WelcomeAt(u, i + 1) => Sound(u)
    BY <2>3, <2>4 DEF Sound
  <2>6. CASE i = 1
    <3>1. Head(t.stages) = "open"
      BY <2>4, <2>6, WelcomeStages
    <3>2. Serves("open", t)
      BY <2>4 DEF Serves, Audience
    <3>3. u.intercepted /\ ~u.screenedOut /\ ~u.filed
      BY <2>4, <3>1, <3>2 DEF MovesOn, Running
    <3> QED
      BY <2>1, <2>4, <2>5, <2>6, <3>3 DEF WelcomeAt, Running, Right, MovesOn
  <2>7. CASE i = 2
    <3>1. Head(t.stages) = "guard"
      BY <2>4, <2>7, WelcomeStages
    <3>2. t.pc = "work" => Serves("guard", t)
      BY <2>1, <2>7 DEF Serves, Audience, WelcomeAt, Running
    <3>3. t.pc = "yield" /\ ~u.screenedOut /\ ~u.filed
      BY <2>4, <3>1, <3>2 DEF MovesOn, Running
    <3>4. Right(t) /\ u.screenedOut = t.screenedOut /\ u.intercepted = t.intercepted
            /\ u.words = t.words
      BY <2>1, <2>7, <3>1, <3>3 DEF WelcomeAt, MovesOn
    <3>5. Right(u)
      BY <3>4 DEF Right
    <3> QED
      BY <2>4, <2>5, <2>7, <3>3, <3>5 DEF WelcomeAt, Running
  <2>8. CASE i = 3
    <3>1. Head(t.stages) = "record"
      BY <2>4, <2>8, WelcomeStages
    <3>2. Right(t) /\ u.screenedOut = t.screenedOut /\ u.intercepted = t.intercepted
            /\ u.words = t.words
      BY <2>1, <2>8, <3>1 DEF WelcomeAt, MovesOn
    <3>3. Right(u)
      BY <3>2 DEF Right
    <3> QED
      BY <2>4, <2>5, <2>8, <3>2, <3>3 DEF WelcomeAt, Running
  <2> QED
    BY <2>3, <2>6, <2>7, <2>8
<1>2. CASE t.kind # "opener"
  <2>1. PICK i \in 1 .. 11 : ChatAt(t, i)
    BY <1>2 DEF Sound
  <2>2. i # 11
    BY <2>1, ChatRests DEF ChatAt, MovesOn
  <2>3. i \in 1 .. 10 /\ i + 1 \in 1 .. 11
    BY <2>2
  <2>4. /\ Head(t.stages) = Chat[i] /\ u.stages = ChatFrom(i + 1)
        /\ u.kind # "opener" /\ ~t.filed
    BY <1>2, <2>1, <2>2, <2>3, ChatRests DEF ChatAt, MovesOn
  <2>5. ChatAt(u, i + 1) => Sound(u)
    BY <2>3, <2>4 DEF Sound
  <2>6. CASE i < 7
    <3>1. ~u.filed
      BY <2>3, <2>4, <2>6, ChatStages DEF MovesOn
    <3>2. u.screenedOut => u.words = "own"
      <4>1. t.screenedOut => t.words = "own"
        BY <2>1, <2>6 DEF ChatAt, MovesOn
      <4>2. CASE i = 1
        BY <2>4, <4>1, <4>2, ChatStages DEF MovesOn
      <4>3. CASE i = 2
        BY <2>1, <2>4, <4>1, <4>3, ChatStages DEF MovesOn, Serves, ChatAt
      <4>4. CASE i \in 3 .. 6
        <5>1. Head(t.stages) \notin {"screen", "intercept", "open"}
          BY <2>4, <4>4, ChatStages
        <5> QED
          BY <4>1, <5>1 DEF MovesOn
      <4> QED
        BY <2>3, <2>6, <4>2, <4>3, <4>4
    <3> QED
      BY <2>1, <2>3, <2>4, <2>5, <2>6, <3>1, <3>2 DEF ChatAt, Running, MovesOn
  <2>7. CASE i = 7
    <3>1. Head(t.stages) = "curate"
      BY <2>4, <2>7, ChatStages
    <3>2. t.pc = "work" => t.screenedOut \/ t.intercepted
      BY <3>1 DEF MovesOn, Serves, Audience
    <3>3. /\ u.screenedOut = t.screenedOut /\ u.intercepted = t.intercepted /\ ~u.filed
          /\ u.words = t.words
      BY <2>4, <3>1 DEF MovesOn
    <3> QED
      BY <2>1, <2>4, <2>5, <2>7, <3>2, <3>3 DEF ChatAt, Running, Right, MovesOn
  <2>8. CASE i = 8
    <3>1. Head(t.stages) = "guard"
      BY <2>4, <2>8, ChatStages
    <3>2. t.pc = "work" => t.screenedOut \/ ~t.intercepted
      BY <3>1 DEF MovesOn, Serves, Audience
    <3>3. /\ u.screenedOut = t.screenedOut /\ u.intercepted = t.intercepted /\ ~u.filed
          /\ u.words = t.words
      BY <2>4, <3>1 DEF MovesOn
    <3> QED
      BY <2>1, <2>4, <2>5, <2>8, <3>2, <3>3 DEF ChatAt, Running, Right, MovesOn
  <2>9. CASE i \in {9, 10}
    <3>1. Head(t.stages) \in {"notice", "record"} /\ (Head(t.stages) = "record" => i = 10)
      BY <2>4, <2>9, ChatStages
    <3>2. /\ u.screenedOut = t.screenedOut /\ u.intercepted = t.intercepted
          /\ u.words = t.words
      BY <3>1 DEF MovesOn
    <3>3. u.filed => i = 10
      BY <2>4, <3>1 DEF MovesOn
    <3> QED
      BY <2>1, <2>4, <2>5, <2>9, <3>2, <3>3 DEF ChatAt, Running, Right, MovesOn
  <2> QED
    BY <2>3, <2>6, <2>7, <2>8, <2>9
<1> QED
  BY <1>1, <1>2

-----------------------------------------------------------------------------
(* The session: a step of one turn that is not over, and is not over after *)
(* it if it is streamed, keeps the register right.                         *)

LEMMA TurnSteps ==
    ASSUME TurnsInv, NEW n \in Turn, NEW u \in TurnRec, Becomes(n, u),
           UNCHANGED <<started, registered>>, Sound(u), u.kind = turn[n].kind,
           u.kind = "stream" => (u.pc = "over" <=> turn[n].pc = "over")
    PROVE  TurnsInv'
<1>1. turn' \in [Turn -> TurnRec] /\ turn'[n] = u /\ \A m \in Turn \ {n} : turn'[m] = turn[m]
  BY DEF TurnsInv, Becomes
<1>2. \A m \in Turn : Sound(turn'[m])
  BY <1>1 DEF TurnsInv
<1>3. \A m \in Turn : turn'[m].kind = turn[m].kind
  BY <1>1
<1>4. 1 .. started \subseteq Turn
  BY TurnsAssumption DEF TurnsInv, Turn
<1>5. \A m \in Turn : turn[m].kind = "stream" => (turn'[m].pc = "over" <=> turn[m].pc = "over")
  BY <1>1
<1>6. NewestIsReachable'
  BY <1>3, <1>4, <1>5 DEF TurnsInv, NewestIsReachable
<1> QED
  BY <1>1, <1>2, <1>6 DEF TurnsInv

LEMMA StartSteps == ASSUME TurnsInv, NEW k \in Kind, Start(k) PROVE TurnsInv'
<1> DEFINE n == started + 1
<1>1. n \in Turn /\ started \in Nat
  BY TurnsAssumption DEF TurnsInv, Start, Turn
<1>2. started' \in 0 .. MaxTurns /\ registered' \in 0 .. MaxTurns
  BY <1>1 DEF TurnsInv, Start, Turn
<1>3. /\ turn' \in [Turn -> TurnRec] /\ turn'[n] = Fresh(k)
      /\ \A m \in Turn \ {n} : turn'[m] = turn[m]
  BY <1>1, FreshIsSound DEF TurnsInv, Start, Becomes
<1>4. \A m \in Turn : Sound(turn'[m])
  BY <1>3, FreshIsSound DEF TurnsInv
<1>5. turn'[n].kind = k /\ turn'[n].pc = "work"
  BY <1>3, FreshIsSound
<1>6. /\ 1 .. started \subseteq Turn \ {n} /\ 1 .. started' = (1 .. started) \union {n}
      /\ \A m \in 1 .. started : m < n
  BY <1>1, TurnsAssumption DEF TurnsInv, Start, Turn
<1>7. \A m \in 1 .. started : turn'[m] = turn[m]
  BY <1>3, <1>6
<1>8. CASE k = "stream"
  <2>1. registered' = n
    BY <1>8 DEF Start
  <2>2. \A m \in 1 .. started : ~(n <= m)
    BY <1>1, <1>6
  <2> HIDE DEF n
  <2> QED
    BY <1>2, <1>3, <1>4, <1>5, <1>6, <1>8, <2>1, <2>2 DEF TurnsInv, NewestIsReachable
<1>9. CASE k # "stream"
  <2>1. registered' = registered
    BY <1>9 DEF Start
  <2>2. {m \in 1 .. started' : turn'[m].kind = "stream"} =
            {m \in 1 .. started : turn[m].kind = "stream"}
    BY <1>5, <1>6, <1>7, <1>9
  <2>3. \A m \in 1 .. started : turn'[m].pc = turn[m].pc
    BY <1>7
  <2>4. NewestIsReachable'
    BY <2>1, <2>2, <2>3 DEF TurnsInv, NewestIsReachable
  <2> QED
    BY <1>2, <1>3, <1>4, <2>4 DEF TurnsInv
<1> QED
  BY <1>8, <1>9

LEMMA CancelSteps == ASSUME TurnsInv, Cancel PROVE TurnsInv'
<1> DEFINE t == turn[registered]
           u == [t EXCEPT !.cancel = TRUE]
<1>1. registered \in Turn
  BY DEF TurnsInv, Cancel, Turn
<1>2. t \in TurnRec /\ Sound(t)
  BY <1>1 DEF TurnsInv
<1>3. u \in TurnRec
  BY <1>2 DEF TurnRec
<1>4. /\ u.pc = t.pc /\ u.kind = t.kind /\ u.stages = t.stages /\ u.words = t.words
      /\ u.filed = t.filed /\ u.screenedOut = t.screenedOut /\ u.intercepted = t.intercepted
  BY <1>2 DEF TurnRec
<1>5. Becomes(registered, u) /\ UNCHANGED <<started, registered>>
  BY DEF Cancel
<1> HIDE DEF u, t
<1>6. Sound(u)
  BY <1>2, <1>4, StandsStill
<1> QED
  BY <1>1, <1>3, <1>4, <1>5, <1>6, TurnSteps DEF t

(* The relay: the turn itself stands where it stood. *)
LEMMA RelaySteps ==
    ASSUME TurnsInv, NEW n \in Turn, ClientLeaves(n) \/ RelayReads(n)
    PROVE  TurnsInv'
<1>1. PICK r \in Relay : /\ Becomes(n, [turn[n] EXCEPT !.relay = r])
                         /\ UNCHANGED <<started, registered>>
  BY DEF ClientLeaves, RelayReads, Relay
<1> DEFINE t == turn[n]
           u == [t EXCEPT !.relay = r]
<1>2. t \in TurnRec /\ Sound(t)
  BY DEF TurnsInv
<1>3. u \in TurnRec
  BY <1>2 DEF TurnRec
<1>4. /\ u.pc = t.pc /\ u.kind = t.kind /\ u.stages = t.stages /\ u.words = t.words
      /\ u.filed = t.filed /\ u.screenedOut = t.screenedOut /\ u.intercepted = t.intercepted
  BY <1>2 DEF TurnRec
<1>5. Becomes(n, u) /\ UNCHANGED <<started, registered>>
  BY <1>1
<1> HIDE DEF u, t
<1>6. Sound(u)
  BY <1>2, <1>4, StandsStill
<1> QED
  BY <1>3, <1>4, <1>5, <1>6, TurnSteps DEF t

(* The pipeline goes on: a stage that does not serve the turn, one without  *)
(* an event, and an intercept that is silent.                              *)
LEMMA QuietSteps ==
    ASSUME TurnsInv, NEW n \in Turn,
           SkipStage(n) \/ QuietStage(n) \/ \E hit \in BOOLEAN : SilentIntercept(n, hit)
    PROVE  TurnsInv'
<1> DEFINE t == turn[n]
<1>1. t \in TurnRec /\ Sound(t) /\ Tail(t.stages) \in Seq(StageName)
  <2>1. t \in TurnRec /\ Sound(t) /\ t.stages \in Seq(StageName) /\ t.stages # <<>>
    BY DEF TurnsInv, TurnRec, SkipStage, QuietStage, SilentIntercept
  <2> QED
    BY <2>1, HeadTailProperties
<1>2. UNCHANGED <<started, registered>> /\ t.pc = "work" /\ t.stages # <<>>
  BY DEF SkipStage, QuietStage, SilentIntercept
<1>3. ASSUME NEW u \in TurnRec, MovesOn(t, u), Becomes(n, u) PROVE TurnsInv'
  <2>1. Sound(u) /\ u.kind = t.kind /\ u.pc = "work"
    BY <1>1, <1>3, MoveIsSound DEF MovesOn
  <2> HIDE DEF t
  <2> QED
    BY <1>2, <1>3, <2>1, TurnSteps DEF t
<1>4. CASE SkipStage(n)
  <2> DEFINE u == NextStage(t)
  <2>1. u \in TurnRec
    BY <1>1 DEF TurnRec, NextStage, Pc
  <2>2. MovesOn(t, u)
    BY <1>1, <1>2, <1>4 DEF MovesOn, NextStage, TurnRec, Running, SkipStage
  <2> QED
    BY <1>3, <1>4, <2>1, <2>2 DEF SkipStage
<1>5. CASE QuietStage(n)
  <2> DEFINE u == [NextStage(t) EXCEPT !.filed = @ \/ Head(t.stages) = "record"]
  <2>1. u \in TurnRec
    BY <1>1 DEF TurnRec, NextStage, Pc
  <2>2. MovesOn(t, u)
    BY <1>1, <1>2, <1>5 DEF MovesOn, NextStage, TurnRec, Running, QuietStage
  <2> QED
    BY <1>3, <1>5, <2>1, <2>2 DEF QuietStage
<1>6. ASSUME NEW hit \in BOOLEAN, SilentIntercept(n, hit) PROVE TurnsInv'
  <2> DEFINE w == IF hit THEN "raw" ELSE t.words
             u == [NextStage(t) EXCEPT !.intercepted = hit, !.words = w]
  <2>3. w \in Words
    BY <1>1 DEF TurnRec, Words
  <2>4. Becomes(n, u)
    BY <1>1, <1>6 DEF SilentIntercept, NextStage, TurnRec
  <2> HIDE DEF w
  <2>1. u \in TurnRec
    BY <1>1, <2>3 DEF TurnRec, NextStage, Pc
  <2>2. MovesOn(t, u)
    BY <1>1, <1>2, <1>6 DEF MovesOn, NextStage, TurnRec, Running, SilentIntercept
  <2> QED
    BY <1>3, <2>1, <2>2, <2>4
<1> QED
  BY <1>4, <1>5, <1>6

LEMMA WorkSteps == ASSUME TurnsInv, NEW n \in Turn, StageWorks(n) PROVE TurnsInv'
<1> DEFINE t == turn[n]
<1>1. t \in TurnRec /\ Sound(t)
  BY DEF TurnsInv
<1>2. PICK w \in Spoken(t) : Becomes(n, [t EXCEPT !.pc = "yield", !.words = w])
  BY DEF StageWorks
<1> DEFINE u == [t EXCEPT !.pc = "yield", !.words = w]
<1>7. w \in Words /\ "yield" \in Pc
  BY <1>1, <1>2 DEF Spoken, Finalized, Curate, FinalCheck, TurnRec, Words, Pc
<1>3. u \in TurnRec
  BY <1>1, <1>7 DEF TurnRec
<1>4. /\ t.pc = "work" /\ Becomes(n, u) /\ UNCHANGED <<started, registered>>
      /\ t.stages # <<>> => /\ Serves(Head(t.stages), t)
                            /\ Head(t.stages) \notin {"notice", "record"}
  BY <1>2 DEF StageWorks
<1>5. /\ u.pc = "yield" /\ u.kind = t.kind /\ u.stages = t.stages
      /\ u.words \in Spoken(t) /\ u.filed = t.filed
      /\ u.screenedOut = t.screenedOut /\ u.intercepted = t.intercepted
  BY <1>1, <1>2 DEF TurnRec
<1> HIDE DEF u, t
<1>6. Sound(u)
  BY <1>1, <1>4, <1>5, WorkIsSound
<1> QED
  BY <1>3, <1>4, <1>5, <1>6, TurnSteps DEF t

(* A turn that leaves its stages: a streamed one has its end to put in the *)
(* queue, or its error, and is not over.                                   *)
LEMMA Leaves ==
    ASSUME TurnsInv, NEW n \in Turn, NEW pc \in Pc, NEW bad \in BOOLEAN, NEW end \in BOOLEAN,
           turn[n].pc # "over", pc \notin {"work", "yield"},
           turn[n].kind = "stream" => pc # "over",
           Becomes(n, [turn[n] EXCEPT !.pc = pc, !.failed = bad, !.ended = end]),
           UNCHANGED <<started, registered>>
    PROVE  TurnsInv'
<1> DEFINE t == turn[n]
           u == [t EXCEPT !.pc = pc, !.failed = bad, !.ended = end]
<1>1. t \in TurnRec /\ Sound(t)
  BY DEF TurnsInv
<1>2. u \in TurnRec
  BY <1>1 DEF TurnRec
<1>3. /\ u.pc = pc /\ u.kind = t.kind /\ u.stages = t.stages /\ u.words = t.words
      /\ u.filed = t.filed /\ u.screenedOut = t.screenedOut /\ u.intercepted = t.intercepted
  BY <1>1 DEF TurnRec
<1>4. Becomes(n, u)
  OBVIOUS
<1>5. t.pc # "over" /\ (t.kind = "stream" => pc # "over")
  OBVIOUS
<1> HIDE DEF u, t
<1>6. Sound(u)
  BY <1>1, <1>3, StandsStill DEF Running
<1> QED
  BY <1>2, <1>3, <1>4, <1>5, <1>6, TurnSteps DEF t

LEMMA RaiseSteps == ASSUME TurnsInv, NEW n \in Turn, StageRaises(n) PROVE TurnsInv'
<1> DEFINE t == turn[n]
           to == IF t.kind = "stream" THEN "failed" ELSE "over"
<1>1. t \in TurnRec
  BY DEF TurnsInv
<1>2. /\ [t EXCEPT !.failed = TRUE, !.pc = to] =
             [t EXCEPT !.pc = to, !.failed = TRUE, !.ended = t.ended]
      /\ t.ended \in BOOLEAN
  BY <1>1 DEF TurnRec
<1>3. to \in Pc /\ to \notin {"work", "yield"} /\ (t.kind = "stream" => to # "over")
  BY DEF Pc
<1> QED
  BY <1>2, <1>3, Leaves DEF StageRaises

LEMMA CloseSteps ==
    ASSUME TurnsInv, NEW n \in Turn, turn[n].pc \in {"yield", "failed"},
           Becomes(n, Closed(turn[n])), UNCHANGED <<started, registered>>
    PROVE  TurnsInv'
<1> DEFINE t == turn[n]
           to == IF t.kind = "stream" THEN "end" ELSE "over"
<1>1. t \in TurnRec
  BY DEF TurnsInv
<1>2. /\ Closed(t) = [t EXCEPT !.pc = to, !.failed = t.failed, !.ended = t.ended]
      /\ t.ended \in BOOLEAN /\ t.failed \in BOOLEAN
  BY <1>1 DEF TurnRec, Closed
<1>3. to \in Pc /\ to \notin {"work", "yield"} /\ (t.kind = "stream" => to # "over")
  BY DEF Pc
<1>4. Becomes(n, [t EXCEPT !.pc = to, !.failed = t.failed, !.ended = t.ended])
  BY <1>2
<1>5. t.pc # "over"
  OBVIOUS
<1> HIDE DEF to
<1> QED
  BY <1>2, <1>3, <1>4, <1>5, Leaves

LEMMA EndSteps == ASSUME TurnsInv, NEW n \in Turn, PutEnd(n) PROVE TurnsInv'
<1> DEFINE t == turn[n]
<1>1. t \in TurnRec
  BY DEF TurnsInv
<1>2. /\ [t EXCEPT !.pc = "unregister", !.ended = TRUE] =
             [t EXCEPT !.pc = "unregister", !.failed = t.failed, !.ended = TRUE]
      /\ t.failed \in BOOLEAN
  BY <1>1 DEF TurnRec
<1> QED
  BY <1>2, Leaves DEF PutEnd, Pc

(* The driver takes an event: the generator is closed, or goes on. *)
LEMMA EventSteps == ASSUME TurnsInv, NEW n \in Turn, TakeEvent(n) PROVE TurnsInv'
<1> DEFINE t == turn[n]
<1>1. t \in TurnRec /\ Sound(t) /\ t.stages \in Seq(StageName)
  BY DEF TurnsInv, TurnRec
<1>2. UNCHANGED <<started, registered>> /\ t.pc \in {"yield", "failed"}
  BY DEF TakeEvent
<1>3. PICK u : Becomes(n, u) /\ (u = Closed(t) \/ u \in AfterEvent(t))
  BY DEF TakeEvent
<1>4. CASE u = Closed(t)
  BY <1>2, <1>3, <1>4, CloseSteps
<1>5. CASE u # Closed(t)
  <2>1. t.pc = "yield" /\ t.stages # <<>>
    BY <1>2, <1>3, <1>5 DEF AfterEvent
  <2>2. Tail(t.stages) \in Seq(StageName)
    BY <1>1, <2>1, HeadTailProperties
  <2>3. PICK so \in BOOLEAN, in \in BOOLEAN, w \in Words :
            /\ u = [NextStage(t) EXCEPT !.screenedOut = so, !.intercepted = in, !.words = w]
            /\ so = t.screenedOut \/ (Head(t.stages) = "screen" /\ w = "own")
            /\ in = t.intercepted \/ Head(t.stages) \in {"intercept", "open"}
            /\ w = t.words \/ Head(t.stages) \in {"screen", "intercept", "open"}
            /\ Head(t.stages) = "screen" => w = t.words \/ w = "own"
            /\ Head(t.stages) = "open" => in
    <3>1. /\ t.screenedOut \in BOOLEAN /\ t.intercepted \in BOOLEAN /\ t.words \in Words
          /\ "own" \in Words /\ "raw" \in Words
          /\ NextStage(t) = [NextStage(t) EXCEPT !.screenedOut = t.screenedOut,
                                !.intercepted = t.intercepted, !.words = t.words]
          /\ Refused(t) = [NextStage(t) EXCEPT !.screenedOut = TRUE,
                                !.intercepted = t.intercepted, !.words = "own"]
          /\ Answered(t) = [NextStage(t) EXCEPT !.screenedOut = t.screenedOut,
                                !.intercepted = TRUE, !.words = "raw"]
      BY <1>1 DEF TurnRec, NextStage, Refused, Answered, Words
    <3>2. CASE Head(t.stages) = "open"
      <4>1. u = Answered(t)
        BY <1>3, <1>5, <2>1, <3>2 DEF AfterEvent
      <4> QED
        BY <3>1, <3>2, <4>1
    <3>3. CASE Head(t.stages) # "open"
      <4>1. u \in Resumes(t)
        BY <1>3, <1>5, <2>1, <3>3 DEF AfterEvent
      <4>2. \/ u = NextStage(t)
            \/ Head(t.stages) = "screen" /\ u = Refused(t)
            \/ Head(t.stages) = "intercept" /\ u = Answered(t)
        BY <4>1 DEF Resumes
      <4> QED
        BY <3>1, <3>3, <4>2
    <3> QED
      BY <3>2, <3>3
  <2>4. u \in TurnRec
    BY <1>1, <2>2, <2>3 DEF TurnRec, NextStage, Pc
  <2>5. /\ u.pc = "work" /\ u.kind = t.kind /\ u.stages = Tail(t.stages)
        /\ u.words = w /\ u.filed = t.filed
        /\ u.screenedOut = so /\ u.intercepted = in
    BY <1>1, <2>3 DEF TurnRec, NextStage
  <2>6. MovesOn(t, u)
    BY <2>1, <2>3, <2>5 DEF MovesOn, Running
  <2> HIDE DEF t
  <2>7. Sound(u)
    BY <1>1, <2>4, <2>6, MoveIsSound
  <2> QED
    BY <1>2, <1>3, <2>1, <2>4, <2>5, <2>7, TurnSteps DEF t
<1> QED
  BY <1>4, <1>5

(* The entry goes with the turn it is of, and with no other. *)
LEMMA UnregisterSteps == ASSUME TurnsInv, NEW n \in Turn, Unregister(n) PROVE TurnsInv'
<1> DEFINE t == turn[n]
           u == [t EXCEPT !.pc = "over"]
<1>1. t \in TurnRec /\ Sound(t)
  BY DEF TurnsInv
<1>2. u \in TurnRec
  BY <1>1 DEF TurnRec, Pc
<1>3. /\ u.pc = "over" /\ u.kind = t.kind /\ u.stages = t.stages /\ u.words = t.words
      /\ u.filed = t.filed /\ u.screenedOut = t.screenedOut /\ u.intercepted = t.intercepted
  BY <1>1 DEF TurnRec
<1>4. Becomes(n, u) /\ started' = started /\ n <= started
  BY DEF Unregister
<1>5. registered' = IF registered = n THEN 0 ELSE registered
  BY DEF Unregister
<1> HIDE DEF u, t
<1>6. Sound(u)
  BY <1>1, <1>3, StandsStill DEF Running
<1>7. turn' \in [Turn -> TurnRec] /\ turn'[n] = u /\ \A m \in Turn \ {n} : turn'[m] = turn[m]
  BY <1>2, <1>4 DEF TurnsInv, Becomes
<1>8. \A m \in Turn : Sound(turn'[m])
  BY <1>6, <1>7 DEF TurnsInv
<1>9. registered' \in 0 .. MaxTurns
  BY <1>5, TurnsAssumption DEF TurnsInv
<1>10. \A m \in Turn : turn'[m].kind = turn[m].kind /\ m # 0
  BY <1>3, <1>7, TurnsAssumption DEF t, Turn
<1>11. 1 .. started \subseteq Turn
  BY TurnsAssumption DEF TurnsInv, Turn
<1>12. NewestIsReachable'
  <2>1. ASSUME NEW m \in 1 .. started, turn[m].kind = "stream",
               \A k \in 1 .. started : turn[k].kind = "stream" => k <= m
        PROVE  registered' = m <=> turn'[m].pc # "over"
    <3>1. registered = m <=> turn[m].pc # "over"
      BY <2>1 DEF TurnsInv, NewestIsReachable
    <3>2. m \in Turn /\ m # 0
      BY <1>10, <1>11
    <3>3. CASE m = n
      BY <1>3, <1>5, <1>7, <3>2, <3>3
    <3>4. CASE m # n
      BY <1>5, <1>7, <3>1, <3>2, <3>4
    <3> QED
      BY <3>3, <3>4
  <2> QED
    BY <1>4, <1>10, <1>11, <2>1 DEF NewestIsReachable
<1> QED
  BY <1>4, <1>7, <1>8, <1>9, <1>12 DEF TurnsInv

-----------------------------------------------------------------------------
LEMMA TurnsStart == TurnsInit => TurnsInv
<1> SUFFICES ASSUME TurnsInit PROVE TurnsInv
  OBVIOUS
<1>1. Fresh("chat") \in TurnRec /\ Sound(Fresh("chat"))
  BY FreshIsSound DEF Kind
<1>2. 1 .. started = {}
  BY DEF TurnsInit
<1>3. NewestIsReachable
  BY <1>2 DEF NewestIsReachable
<1>4. 0 \in 0 .. MaxTurns
  BY TurnsAssumption
<1> QED
  BY <1>1, <1>3, <1>4 DEF TurnsInv, TurnsInit

LEMMA TurnsStep == TurnsInv /\ [TurnsNext]_turnVars => TurnsInv'
<1> SUFFICES ASSUME TurnsInv, [TurnsNext]_turnVars PROVE TurnsInv'
  OBVIOUS
<1>1. ASSUME NEW k \in Kind, Start(k) PROVE TurnsInv'
  BY <1>1, StartSteps
<1>2. CASE Cancel
  BY <1>2, CancelSteps
<1>3. ASSUME NEW n \in Turn, ClientLeaves(n) \/ RelayReads(n) \/ RunnerStep(n) \/ StageRaises(n)
      PROVE  TurnsInv'
  <2>1. CASE ClientLeaves(n) \/ RelayReads(n)
    BY <2>1, RelaySteps
  <2>2. CASE StageRaises(n)
    BY <2>2, RaiseSteps
  <2>3. CASE SkipStage(n) \/ QuietStage(n) \/ \E hit \in BOOLEAN : SilentIntercept(n, hit)
    BY <2>3, QuietSteps
  <2>4. CASE StageWorks(n)
    BY <2>4, WorkSteps
  <2>5. CASE TakeEvent(n)
    BY <2>5, EventSteps
  <2>6. CASE PutEnd(n)
    BY <2>6, EndSteps
  <2>7. CASE Unregister(n)
    BY <2>7, UnregisterSteps
  <2> QED
    BY <1>3, <2>1, <2>2, <2>3, <2>4, <2>5, <2>6, <2>7 DEF RunnerStep
<1>4. CASE UNCHANGED turnVars
  BY <1>4 DEF TurnsInv, NewestIsReachable, turnVars
<1> QED
  BY <1>1, <1>2, <1>3, <1>4 DEF TurnsNext

LEMMA TurnsInvariant == TurnsSpec => []TurnsInv
BY TurnsStart, TurnsStep, PTL DEF TurnsSpec

(* Every variable keeps its type, in every behaviour of the session's      *)
(* turns.                                                                  *)
THEOREM TurnsTypeCorrect == TurnsSpec => []TurnsTypeOK
<1>1. TurnsInv => TurnsTypeOK
  BY DEF TurnsInv, TurnsTypeOK, TurnRec
<1> QED
  BY <1>1, TurnsInvariant, PTL

(* Stop and turn_in_progress reach the session's newest streamed turn for  *)
(* as long as it runs, however many turns start and in whatever order      *)
(* their runners end (DetachedTurns.start and the runner's finally).       *)
THEOREM StopReachesTheNewest == TurnsSpec => []NewestIsReachable
<1>1. TurnsInv => NewestIsReachable
  BY DEF TurnsInv
<1> QED
  BY <1>1, TurnsInvariant, PTL

(* Every answer that is filed was checked by the stage it is for: the      *)
(* guard for a handler's, the curator for a generated one, in the words    *)
(* that are filed; whichever list of stages the turn ran, whatever the     *)
(* judges rewrote, and wherever a handler or the screen answered for the   *)
(* model (STAGE_AUDIENCE, serves and curate's final check). Unchecked are  *)
(* only the refusal, curate's error text and the judge's question.         *)
THEOREM FiledAnswersWereChecked == TurnsSpec => []FiledWasChecked
<1>1. TurnsInv => FiledWasChecked
  <2> SUFFICES ASSUME TurnsInv, NEW n \in 1 .. started, turn[n].filed
               PROVE  Right(turn[n])
    BY DEF FiledWasChecked, Right
  <2>1. n \in Turn
    BY TurnsAssumption DEF TurnsInv, Turn
  <2>2. Sound(turn[n])
    BY <2>1 DEF TurnsInv
  <2>3. CASE turn[n].kind = "opener"
    BY <2>2, <2>3 DEF Sound, WelcomeAt
  <2>4. CASE turn[n].kind # "opener"
    BY <2>2, <2>4 DEF Sound, ChatAt
  <2> QED
    BY <2>3, <2>4
<1> QED
  BY <1>1, TurnsInvariant, PTL

=============================================================================
