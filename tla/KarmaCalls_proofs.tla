-------------------------- MODULE KarmaCalls_proofs --------------------------
(***************************************************************************)
(* Proofs about KarmaCalls, for every set of calls and of speeches.        *)
(***************************************************************************)
EXTENDS KarmaCalls, TLAPS

IsCached(c) == wanted[c] # None /\ wanted[c].kind \in Cached

\* What a call has seen so far, at each place it can be at.
CallFits(c) ==
    /\ call[c] = "new" => wanted[c] = None /\ answers[c] = <<>>
    /\ call[c] = "get" => IsCached(c) /\ answers[c] = <<>>
    /\ call[c] = "ask" => Len(answers[c]) < (IF IsScore(c) THEN MaxRetries ELSE 1)
    /\ call[c] = "set" => IsCached(c) /\ audio[c] = wanted[c]

CallsFit == \A c \in Call : CallFits(c)

\* The cache holds audio under the key of its own speech.
CacheFits == \A e \in redis : e[1] = Key(e[2])

\* The inductive invariant.
IInv == TypeOK /\ CallsFit /\ CacheFits /\ OwnAudio /\ FailureExplained

\* While Redis works and calls do not overlap: what Karma has made is in the cache
\* when the next call looks.
AtMostOneBusy == \A c, d \in Call : Busy(c) /\ Busy(d) => c = d

Made(c) == IsCached(c) /\ answers[c] = <<"ok">>

InRedis(c) == \E e \in redis : e[1] = Key(wanted[c])

MadeKept ==
    \A c \in Call :
        /\ Made(c) => call[c] = "set" \/ (call[c] = "done" /\ InRedis(c))
        /\ call[c] = "ask" /\ IsCached(c) => ~InRedis(c)

OnceInv ==
    ~overlapping =>
        /\ AtMostOneBusy
        /\ ~unreliable =>
            MadeKept /\ \A c, d \in Call : Made(c) /\ Made(d) /\ wanted[c] = wanted[d] => c = d

-----------------------------------------------------------------------------
LEMMA InitInv == ASSUME Init PROVE IInv /\ OnceInv
<1>1. TypeOK
  <2>1. \A c \in Call : answers[c] = <<>>
    BY DEF Init
  <2>2. /\ answers \in [Call -> Seq(Answer)]
        /\ \A c \in Call : Len(answers[c]) <= (IF IsScore(c) THEN MaxRetries ELSE 1)
    BY <2>1 DEF Init, MaxRetries
  <2> QED BY <2>2 DEF Init, TypeOK
<1>2. CallsFit /\ CacheFits /\ OwnAudio /\ FailureExplained
  BY DEF Init, CallsFit, CallFits, CacheFits, OwnAudio, FailureExplained
<1>3. OnceInv
  BY DEF Init, OnceInv, AtMostOneBusy, Busy, MadeKept, Made, IsCached
<1> QED BY <1>1, <1>2, <1>3 DEF IInv

\* Where a call goes after an answer of Karma.
LEMMA AfterAnswerIs ==
    ASSUME TypeOK, NEW c \in Call, NEW a \in Answer
    PROVE  /\ AfterAnswer(c, a) \in {"set", "done", "ask", "failed"}
           /\ AfterAnswer(c, a) = "set" <=> a = "ok" /\ IsCached(c)
           /\ AfterAnswer(c, a) = "done" <=> a = "ok" /\ ~IsCached(c)
           /\ AfterAnswer(c, a) = "ask" =>
                a = "gateway" /\ IsScore(c) /\ Len(answers[c]) < MaxRetries - 1
           /\ AfterAnswer(c, a) = "failed" =>
                /\ a # "ok"
                /\ a = "gateway" /\ IsScore(c) => ~(Len(answers[c]) < MaxRetries - 1)
<1>1. CASE a = "ok"
  BY <1>1 DEF AfterAnswer, IsCached, IsScore
<1>2. CASE a # "ok"
  BY <1>2 DEF AfterAnswer, Answer
<1> QED BY <1>1, <1>2

\* A step of one call leaves the others alone.
LEMMA Others ==
    ASSUME TypeOK, NEW c \in Call, Begin(c) \/ Step(c), NEW d \in Call, d # c
    PROVE  /\ call'[d] = call[d] /\ wanted'[d] = wanted[d]
           /\ answers'[d] = answers[d] /\ audio'[d] = audio[d]
  BY DEF Step, Begin, Get, Ask, Set, Goto, TypeOK

-----------------------------------------------------------------------------
(* Each call on its own.                                                   *)

LEMMA BeginInv == ASSUME IInv, NEW c \in Call, Begin(c) PROVE IInv'
<1>1. TypeOK /\ CallsFit /\ CacheFits /\ OwnAudio /\ FailureExplained
  BY DEF IInv
<1>2. call[c] = "new" /\ wanted[c] = None /\ answers[c] = <<>>
  BY <1>1 DEF Begin, CallsFit, CallFits
<1>3. /\ UNCHANGED <<answers, audio, redis>>
      /\ \/ call'[c] = "ask" /\ wanted'[c] \in Speech \cup {None}
         \/ call'[c] = "get" /\ wanted'[c] # None /\ wanted'[c].kind \in Cached
  BY <1>1, <1>2, CallAssumption DEF Begin, Goto, TypeOK
<1>4. TypeOK'
  <2>1. /\ call' \in [Call -> {"new", "get", "ask", "set", "done", "failed"}]
        /\ wanted' \in [Call -> Speech \cup {None}]
    BY <1>1 DEF Begin, Goto, TypeOK
  <2>2. \A d \in Call : Len(answers[d]) <= (IF wanted'[d] = None THEN MaxRetries ELSE 1)
    <3>1. Len(answers[c]) = 0
      BY <1>2
    <3>2. ASSUME NEW d \in Call, d # c PROVE wanted'[d] = wanted[d]
      BY <1>1, <3>2, Others
    <3> QED BY <1>1, <3>1, <3>2 DEF TypeOK, IsScore, MaxRetries
  <2> QED BY <1>1, <1>3, <2>1, <2>2 DEF TypeOK, Begin, IsScore
<1>5. ASSUME NEW d \in Call PROVE CallFits(d)'
  <2>1. CASE d = c
    BY <1>2, <1>3, <2>1 DEF CallFits, IsCached, IsScore, MaxRetries
  <2>2. CASE d # c
    BY <1>1, <2>2, Others DEF CallsFit, CallFits, IsCached, IsScore
  <2> QED BY <2>1, <2>2
<1>6. OwnAudio' /\ FailureExplained'
  BY <1>1, <1>3, Others DEF OwnAudio, FailureExplained, IsScore
<1> QED BY <1>1, <1>3, <1>4, <1>5, <1>6 DEF IInv, CallsFit, CacheFits

LEMMA GetInv == ASSUME IInv, NEW c \in Call, Get(c) PROVE IInv'
<1>1. TypeOK /\ CallsFit /\ CacheFits /\ OwnAudio /\ FailureExplained
  BY DEF IInv
<1>2. call[c] = "get" /\ IsCached(c) /\ answers[c] = <<>> /\ Step(c)
  BY <1>1 DEF Get, CallsFit, CallFits, Step
<1>3. /\ UNCHANGED <<wanted, answers, redis, overlapping>>
      /\ \/ call'[c] = "ask"
         \/ /\ call'[c] = "done"
            /\ \E e \in redis : e[1] = Key(wanted[c]) /\ audio'[c] = e[2]
  BY <1>1 DEF Get, Goto, TypeOK
<1>4. TypeOK'
  <2>1. \A e \in redis : e[2] \in Speech
    BY <1>1 DEF TypeOK
  <2>2. /\ call' \in [Call -> {"new", "get", "ask", "set", "done", "failed"}]
        /\ audio' \in [Call -> Speech \cup {None}] /\ unreliable' \in BOOLEAN
    BY <1>1, <2>1 DEF Get, Goto, TypeOK
  <2> QED BY <1>1, <1>3, <2>2 DEF TypeOK, IsScore
<1>5. ASSUME NEW d \in Call PROVE CallFits(d)'
  <2>1. CASE d = c
    BY <1>2, <1>3, <2>1 DEF CallFits, IsCached, IsScore
  <2>2. CASE d # c
    BY <1>1, <1>2, <2>2, Others DEF CallsFit, CallFits, IsCached, IsScore
  <2> QED BY <2>1, <2>2
<1>6. ASSUME call'[c] = "done" PROVE audio'[c] # None /\ Sound(audio'[c]) = Sound(wanted[c])
  <2>1. PICK e \in redis : e[1] = Key(wanted[c]) /\ audio'[c] = e[2]
    BY <1>3, <1>6
  <2>2. e[2] # None /\ Key(e[2]) = Key(wanted[c])
    BY <1>1, <2>1, CallAssumption DEF TypeOK, CacheFits
  <2> QED BY <2>1, <2>2 DEF Key, Sound
<1>7. OwnAudio' /\ FailureExplained'
  BY <1>1, <1>2, <1>3, <1>6, Others DEF OwnAudio, FailureExplained, IsScore
<1> QED BY <1>1, <1>3, <1>4, <1>5, <1>7 DEF IInv, CallsFit, CacheFits

LEMMA AskInv == ASSUME IInv, NEW c \in Call, Ask(c) PROVE IInv'
<1>1. TypeOK /\ CallsFit /\ CacheFits /\ OwnAudio /\ FailureExplained
  BY DEF IInv
<1>2. /\ call[c] = "ask" /\ answers[c] \in Seq(Answer) /\ Step(c)
      /\ Len(answers[c]) < (IF IsScore(c) THEN MaxRetries ELSE 1)
  BY <1>1 DEF Ask, CallsFit, CallFits, TypeOK, Step
<1>3. PICK a \in Answer :
        /\ answers' = [answers EXCEPT ![c] = Append(@, a)]
        /\ call' = [call EXCEPT ![c] = AfterAnswer(c, a)]
        /\ audio' = [audio EXCEPT ![c] = IF a = "ok" THEN wanted[c] ELSE None]
  BY DEF Ask, Goto
<1>4. UNCHANGED <<overlapping, wanted, redis, unreliable>>
  BY DEF Ask
<1>5. /\ answers'[c] = Append(answers[c], a) /\ call'[c] = AfterAnswer(c, a)
      /\ audio'[c] = IF a = "ok" THEN wanted[c] ELSE None
  BY <1>1, <1>3 DEF TypeOK
<1>6. /\ answers'[c] \in Seq(Answer) /\ Len(answers'[c]) = Len(answers[c]) + 1
      /\ answers'[c] # <<>> /\ Last(answers'[c]) = a
  BY <1>2, <1>5 DEF Last
<1>7. TypeOK'
  <2>1. /\ call' \in [Call -> {"new", "get", "ask", "set", "done", "failed"}]
        /\ answers' \in [Call -> Seq(Answer)]
        /\ audio' \in [Call -> Speech \cup {None}]
    BY <1>1, <1>2, <1>3, AfterAnswerIs DEF TypeOK
  <2>2. \A d \in Call : Len(answers'[d]) <= (IF IsScore(d) THEN MaxRetries ELSE 1)
    <3>1. Len(answers[c]) \in Nat
      BY <1>2
    <3>2. Len(answers'[c]) <= (IF IsScore(c) THEN MaxRetries ELSE 1)
      BY <1>2, <1>6, <3>1 DEF MaxRetries
    <3> QED BY <1>1, <1>2, <3>2, Others DEF TypeOK
  <2> QED BY <1>1, <1>4, <2>1, <2>2 DEF TypeOK, IsScore
<1>8. ASSUME NEW d \in Call PROVE CallFits(d)'
  <2>1. CASE d = c
    <3>1. Len(answers[c]) \in Nat
      BY <1>2
    <3>2. call'[c] = "ask" => IsScore(c) /\ Len(answers'[c]) < MaxRetries
      <4>1. AfterAnswer(c, a) = "ask" => IsScore(c) /\ Len(answers[c]) < MaxRetries - 1
        BY <1>1, AfterAnswerIs
      <4> QED BY <1>5, <1>6, <3>1, <4>1 DEF MaxRetries
    <3>3. call'[c] = "set" => IsCached(c) /\ audio'[c] = wanted[c]
      BY <1>1, <1>5, AfterAnswerIs
    <3>4. call'[c] \notin {"new", "get"}
      BY <1>1, <1>5, AfterAnswerIs
    <3> QED BY <1>4, <2>1, <3>2, <3>3, <3>4 DEF CallFits, IsCached, IsScore
  <2>2. CASE d # c
    BY <1>1, <1>2, <2>2, Others DEF CallsFit, CallFits, IsCached, IsScore
  <2> QED BY <2>1, <2>2
<1>9. call'[c] = "done" /\ ~IsScore(c) => audio'[c] # None /\ Sound(audio'[c]) = Sound(wanted[c])
  <2>1. AfterAnswer(c, a) = "done" => a = "ok"
    BY <1>1, AfterAnswerIs
  <2> QED BY <1>5, <2>1 DEF IsScore
<1>10. call'[c] = "failed" =>
        /\ answers'[c] # <<>> /\ Last(answers'[c]) # "ok"
        /\ IsScore(c) /\ Last(answers'[c]) = "gateway" => Len(answers'[c]) = MaxRetries
  <2>1. Len(answers[c]) \in Nat
    BY <1>2
  <2>2. AfterAnswer(c, a) = "failed" =>
          /\ a # "ok"
          /\ a = "gateway" /\ IsScore(c) => ~(Len(answers[c]) < MaxRetries - 1)
    BY <1>1, AfterAnswerIs
  <2>3. IsScore(c) => Len(answers[c]) < MaxRetries
    BY <1>2
  <2> QED BY <1>5, <1>6, <2>1, <2>2, <2>3 DEF MaxRetries
<1>11. OwnAudio' /\ FailureExplained'
  BY <1>1, <1>2, <1>4, <1>9, <1>10, Others DEF OwnAudio, FailureExplained, IsScore
<1> QED BY <1>1, <1>4, <1>7, <1>8, <1>11 DEF IInv, CallsFit, CacheFits

LEMMA SetInv == ASSUME IInv, NEW c \in Call, Set(c) PROVE IInv'
<1>1. TypeOK /\ CallsFit /\ CacheFits /\ OwnAudio /\ FailureExplained
  BY DEF IInv
<1>2. call[c] = "set" /\ IsCached(c) /\ audio[c] = wanted[c] /\ wanted[c] \in Speech /\ Step(c)
  BY <1>1 DEF Set, CallsFit, CallFits, Step, IsCached, TypeOK
<1>3. /\ UNCHANGED <<overlapping, wanted, answers, audio>>
      /\ call' = [call EXCEPT ![c] = "done"]
      /\ redis' \subseteq redis \cup {<<Key(wanted[c]), wanted[c]>>} /\ unreliable' \in BOOLEAN
  BY <1>1, <1>2 DEF Set, Goto, TypeOK
<1>4. TypeOK'
  <2>1. redis' \subseteq {Key(s) : s \in Speech} \X Speech
    BY <1>1, <1>2, <1>3 DEF TypeOK
  <2> QED BY <1>1, <1>3, <2>1 DEF TypeOK, IsScore
<1>5. CacheFits'
  BY <1>1, <1>3 DEF CacheFits
<1>6. CallsFit'
  BY <1>1, <1>3 DEF CallsFit, CallFits, IsCached, IsScore, TypeOK
<1>7. OwnAudio' /\ FailureExplained'
  BY <1>1, <1>2, <1>3 DEF OwnAudio, FailureExplained, IsScore, IsCached, TypeOK
<1> QED BY <1>4, <1>5, <1>6, <1>7 DEF IInv

LEMMA StepInv == ASSUME IInv, [Next]_vars PROVE IInv'
<1>1. ASSUME NEW c \in Call, Begin(c) \/ Step(c) PROVE IInv'
  BY <1>1, BeginInv, GetInv, AskInv, SetInv DEF Step
<1>2. CASE Expire \/ UNCHANGED vars
  <2>1. UNCHANGED <<overlapping, call, wanted, answers, audio>> /\ redis' \subseteq redis
    BY <1>2 DEF Expire, vars
  <2>2. unreliable' \in BOOLEAN
    BY <1>2 DEF Expire, vars, IInv, TypeOK
  <2>3. TypeOK'
    BY <2>1, <2>2 DEF IInv, TypeOK, IsScore
  <2>4. CallsFit' /\ CacheFits' /\ OwnAudio' /\ FailureExplained'
    BY <2>1 DEF IInv, CallsFit, CallFits, IsCached, CacheFits, OwnAudio, FailureExplained, IsScore
  <2> QED BY <2>3, <2>4 DEF IInv
<1> QED BY <1>1, <1>2 DEF Next

-----------------------------------------------------------------------------
(* Calls that do not overlap.                                              *)

LEMMA OneBusyStep ==
    ASSUME IInv, AtMostOneBusy, ~overlapping, NEW c \in Call, Begin(c) \/ Step(c)
    PROVE  AtMostOneBusy' /\ \A d \in Call \ {c} : ~Busy(d)
<1>1. \A d \in Call \ {c} : ~Busy(d)
  BY DEF Begin, Step, Get, Ask, Set, AtMostOneBusy, Busy
<1>2. \A d \in Call \ {c} : call'[d] = call[d]
  BY Others DEF IInv
<1> QED BY <1>1, <1>2 DEF AtMostOneBusy, Busy

OnceOnly == \A c, d \in Call : Made(c) /\ Made(d) /\ wanted[c] = wanted[d] => c = d

\* The other calls are where they were; what was made for them is still kept.
LEMMA OthersMade ==
    ASSUME IInv, NEW c \in Call, Begin(c) \/ Step(c), NEW d \in Call, d # c
    PROVE  (Made(d)' <=> Made(d)) /\ (IsCached(d)' <=> IsCached(d))
  BY Others DEF IInv, Made, IsCached

LEMMA OnceStep ==
    ASSUME IInv, AtMostOneBusy, MadeKept, OnceOnly, ~overlapping,
           NEW c \in Call, Begin(c) \/ Step(c), ~unreliable'
    PROVE  MadeKept' /\ OnceOnly'
<1>1. TypeOK /\ CallsFit
  BY DEF IInv
<1>2. \A d \in Call \ {c} : ~Busy(d)
  BY OneBusyStep
<1>3. \A d \in Call \ {c} : call[d] \notin {"ask", "set"} /\ call'[d] \notin {"ask", "set"}
  BY <1>1, <1>2, Others DEF Busy
<1>4. \A d \in Call \ {c} : Made(d) => call'[d] = "done" /\ InRedis(d) /\ wanted'[d] = wanted[d]
  BY <1>1, <1>3, Others DEF MadeKept
<1>5. CASE ~Set(c)
  <2> redis' = redis /\ (Begin(c) \/ Get(c) \/ Ask(c))
    BY <1>5 DEF Step, Begin, Get, Ask
  <2>1. \A d \in Call \ {c} : InRedis(d)' <=> InRedis(d)
    BY <1>1, <1>5, Others DEF InRedis
  <2>2. CASE ~Made(c)'
    <3>1. call'[c] = "ask" /\ IsCached(c)' => ~InRedis(c)'
      <4>1. CASE Begin(c)
        BY <1>1, <4>1 DEF Begin, Goto, TypeOK, CallsFit, CallFits, IsCached, IsScore
      <4>2. CASE Get(c)
        BY <1>1, <1>5, <4>2 DEF Get, Goto, TypeOK, InRedis
      <4>3. CASE Ask(c)
        BY <1>1, <4>3, AfterAnswerIs DEF Ask, Goto, TypeOK, IsCached, IsScore
      <4> QED BY <4>1, <4>2, <4>3
    <3>2. MadeKept'
      BY <1>3, <1>4, <2>1, <2>2, <3>1, OthersMade DEF MadeKept
    <3>3. OnceOnly'
      BY <1>1, <2>2, Others, OthersMade DEF OnceOnly
    <3> QED BY <3>2, <3>3
  <2>3. CASE Made(c)'
    <3>1. Ask(c)
      <4>1. ~Ask(c) => answers'[c] = <<>>
        BY <1>1 DEF Begin, Get, CallsFit, CallFits
      <4> QED BY <2>3, <4>1 DEF Made
    <3>2. call[c] = "ask" /\ IsCached(c) /\ wanted' = wanted /\ ~InRedis(c)
      BY <2>3, <3>1 DEF Ask, Made, IsCached, MadeKept
    <3>3. call'[c] = "set"
      <4>1. PICK a \in Answer : /\ answers'[c] = Append(answers[c], a)
                                /\ call'[c] = AfterAnswer(c, a)
        BY <1>1, <3>1 DEF Ask, Goto, TypeOK
      <4>2. answers[c] \in Seq(Answer) /\ Append(answers[c], a) = <<"ok">>
        BY <1>1, <2>3, <4>1 DEF Made, TypeOK
      <4>3. Len(answers[c]) \in Nat /\ Len(Append(answers[c], a)) = Len(answers[c]) + 1
        BY <4>2
      <4>4. Len(answers[c]) = 0
        BY <4>2, <4>3
      <4>5. Append(answers[c], a)[Len(answers[c]) + 1] = a
        <5>1. answers[c] \in Seq(Answer)
          BY <4>2
        <5> QED BY <5>1
      <4>6. a = "ok"
        BY <4>2, <4>4, <4>5
      <4> QED BY <1>1, <3>2, <4>1, <4>6, AfterAnswerIs
    <3>4. \A d \in Call \ {c} : Made(d)' => wanted[d] # wanted[c]
      BY <1>4, <3>2, OthersMade DEF InRedis
    <3>5. MadeKept'
      BY <1>3, <1>4, <2>1, <3>3, OthersMade DEF MadeKept
    <3>6. OnceOnly'
      BY <1>1, <3>2, <3>4, Others, OthersMade DEF OnceOnly
    <3> QED BY <3>5, <3>6
  <2> QED BY <2>2, <2>3
<1>6. CASE Set(c)
  <2>1. /\ redis' = {e \in redis : e[1] # Key(wanted[c])} \cup {<<Key(wanted[c]), audio[c]>>}
        /\ UNCHANGED <<wanted, answers>> /\ call'[c] = "done"
    BY <1>1, <1>6 DEF Set, Goto, TypeOK
  <2>2. InRedis(c)'
    <3>1. <<Key(wanted[c]), audio[c]>> \in redis'
      BY <2>1
    <3>2. <<Key(wanted[c]), audio[c]>>[1] = Key(wanted[c])
      OBVIOUS
    <3> QED BY <2>1, <3>1, <3>2 DEF InRedis
  <2>3. ASSUME NEW d \in Call, InRedis(d) PROVE InRedis(d)'
    <3>1. PICK e \in redis : e[1] = Key(wanted[d])
      BY <2>3 DEF InRedis
    <3>2. CASE e[1] = Key(wanted[c])
      BY <2>1, <2>2, <3>1, <3>2 DEF InRedis
    <3>3. CASE e[1] # Key(wanted[c])
      BY <2>1, <3>1, <3>3 DEF InRedis
    <3> QED BY <3>2, <3>3
  <2>4. MadeKept'
    BY <1>3, <1>4, <2>1, <2>2, <2>3, OthersMade DEF MadeKept
  <2>5. OnceOnly'
    BY <2>1 DEF OnceOnly, Made, IsCached
  <2> QED BY <2>4, <2>5
<1> QED BY <1>5, <1>6

LEMMA StepOnce == ASSUME IInv, OnceInv, [Next]_vars PROVE OnceInv'
<1>1. ASSUME NEW c \in Call, Begin(c) \/ Step(c) PROVE OnceInv'
  <2>1. UNCHANGED overlapping /\ (unreliable => unreliable')
    BY <1>1 DEF Begin, Step, Get, Ask, Set
  <2> QED BY <1>1, <2>1, OneBusyStep, OnceStep DEF OnceInv, OnceOnly
<1>2. CASE Expire
  BY <1>2 DEF Expire, OnceInv, AtMostOneBusy, Busy
<1>3. CASE UNCHANGED vars
  BY <1>3 DEF OnceInv, AtMostOneBusy, Busy, MadeKept, Made, InRedis, IsCached, vars
<1> QED BY <1>1, <1>2, <1>3 DEF Next

LEMMA Invariance == Spec => [](IInv /\ OnceInv)
<1>1. Init => IInv /\ OnceInv
  BY InitInv
<1>2. IInv /\ OnceInv /\ [Next]_vars => IInv' /\ OnceInv'
  BY StepInv, StepOnce
<1> QED BY <1>1, <1>2, PTL DEF Spec

-----------------------------------------------------------------------------
\* Every variable keeps its type; in particular, no call asks Karma more often
\* than its kind allows.
THEOREM TypeCorrect == Spec => []TypeOK
<1>1. IInv /\ OnceInv => TypeOK
  BY DEF IInv
<1> QED BY <1>1, Invariance, PTL

\* Whatever calls overlap, and whatever expires or fails, a call is given audio of
\* its own text, voice and speed.
THEOREM AudioCorrect == Spec => []OwnAudio
<1>1. IInv /\ OnceInv => OwnAudio
  BY DEF IInv
<1> QED BY <1>1, Invariance, PTL

\* Only an answer of Karma makes a call fail, and only the third bad gateway a
\* score.
THEOREM FailureCorrect == Spec => []FailureExplained
<1>1. IInv /\ OnceInv => FailureExplained
  BY DEF IInv
<1> QED BY <1>1, Invariance, PTL

\* With a cache that works and calls one after the other, Karma makes an
\* introduction or outro once, for any number of calls.
THEOREM OnceCorrect == Spec => []MadeOnce
<1>1. IInv /\ OnceInv => MadeOnce
  BY DEF OnceInv, MadeOnce, Made, IsCached, IsScore
<1> QED BY <1>1, Invariance, PTL
=============================================================================
