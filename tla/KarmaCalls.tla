----------------------------- MODULE KarmaCalls -----------------------------
(***************************************************************************)
(* Calls of Karma (internal/service/karma.go) and the cache in front of    *)
(* one of them (internal/features/helper.go, internal/utils/redis).        *)
(*                                                                         *)
(* prepareLipSync has speech made, once per request; introductions and the *)
(* outro are kept in Redis for an hour.  Score has fluency judged and      *)
(* tries up to three times (its caller in irelia.go is commented out).     *)
(* Redis and Karma may fail at every call, and a deadline of the caller    *)
(* makes both fail.                                                        *)
(***************************************************************************)
EXTENDS Naturals, Sequences, SequencesExt

CONSTANTS
    Call,     \* executions of prepareLipSync and Score
    Speech,   \* what may be asked for: records of kind, content, voice, language, speed
    None

ASSUME CallAssumption == None \notin Speech

MaxRetries == 3

VARIABLES
    overlapping, \* whether calls are made at the same time
    call,        \* how far each call has come
    wanted,      \* what it wants: a speech, or None for a score
    answers,     \* what Karma has answered it
    audio,       \* the speech it has been given the audio of
    redis,       \* the cache: pairs of a key and the speech whose audio is there
    unreliable   \* observer: Redis has failed, or a key has expired

vars == <<overlapping, call, wanted, answers, audio, redis, unreliable>>

Cached == {"intro", "outro"}
Kind   == Cached \cup {"question"}
Answer == {"ok", "gateway", "error"}

Busy(c)    == call[c] \notin {"new", "done", "failed"}
IsScore(c) == wanted[c] = None

\* What Karma makes depends on: the request has no kind and no language.
Sound(s) == <<s.content, s.voice, s.speed>>

\* Mutant: a key for each voice and text.
KeyWithoutSpeed(s) == <<s.kind, s.voice, s.language, s.content>>

\* lipSyncCacheKey; no two texts have the same digest.
Key(s) == <<s.kind, s.voice, s.language, s.speed, s.content>>

Init ==
    /\ overlapping \in BOOLEAN
    /\ call = [c \in Call |-> "new"]
    /\ wanted = [c \in Call |-> None]
    /\ answers = [c \in Call |-> <<>>]
    /\ audio = [c \in Call |-> None]
    /\ redis = {}
    /\ unreliable = FALSE

-----------------------------------------------------------------------------
Goto(c, next) == call' = [call EXCEPT ![c] = next]

\* A call of Score, or of prepareLipSync; only some kinds look into the cache.
Begin(c) ==
    /\ call[c] = "new"
    /\ overlapping \/ ~ \E d \in Call : Busy(d)
    /\ \/ Goto(c, "ask") /\ UNCHANGED wanted
       \/ \E s \in Speech :
            /\ wanted' = [wanted EXCEPT ![c] = s]
            /\ Goto(c, IF s.kind \in Cached THEN "get" ELSE "ask")
    /\ UNCHANGED <<overlapping, answers, audio, redis, unreliable>>

\* Mutant: an error of Redis is an error of the call.
GetReported(c) ==
    /\ call[c] = "get"
    /\ \/ Goto(c, "ask") /\ UNCHANGED unreliable
       \/ Goto(c, "failed") /\ unreliable' = TRUE
    /\ UNCHANGED <<overlapping, wanted, answers, audio, redis>>

\* Get: a hit ends the call; a miss, an error and what cannot be read all lead
\* to Karma.
Get(c) ==
    /\ call[c] = "get"
    /\ \/ \E e \in redis :
            /\ e[1] = Key(wanted[c])
            /\ audio' = [audio EXCEPT ![c] = e[2]]
            /\ Goto(c, "done")
            /\ UNCHANGED unreliable
       \/ /\ \A e \in redis : e[1] # Key(wanted[c])
          /\ Goto(c, "ask")
          /\ UNCHANGED <<audio, unreliable>>
       \/ Goto(c, "ask") /\ unreliable' = TRUE /\ UNCHANGED audio
    /\ UNCHANGED <<overlapping, wanted, answers, redis>>

\* What follows an answer: submitToKarma retries a bad gateway, LipSync nothing.
AfterAnswer(c, a) ==
    CASE a = "ok" -> IF ~IsScore(c) /\ wanted[c].kind \in Cached THEN "set" ELSE "done"
      [] a = "gateway" /\ IsScore(c) /\ Len(answers[c]) < MaxRetries - 1 -> "ask"
      [] OTHER -> "failed"

\* A request to Karma and its answer: 200, a bad gateway, or any other failure.
Ask(c) ==
    /\ call[c] = "ask"
    /\ \E a \in Answer :
        /\ answers' = [answers EXCEPT ![c] = Append(@, a)]
        /\ Goto(c, AfterAnswer(c, a))
        /\ audio' = [audio EXCEPT ![c] = IF a = "ok" THEN wanted[c] ELSE None]
    /\ UNCHANGED <<overlapping, wanted, redis, unreliable>>

\* Mutant: what Karma made is not kept.
SetNever(c) ==
    /\ call[c] = "set"
    /\ Goto(c, "done")
    /\ UNCHANGED <<overlapping, wanted, answers, audio, redis, unreliable>>

\* Set; that it failed is not even logged.
Set(c) ==
    /\ call[c] = "set"
    /\ \/ /\ redis' = {e \in redis : e[1] # Key(wanted[c])} \cup {<<Key(wanted[c]), audio[c]>>}
          /\ UNCHANGED unreliable
       \/ unreliable' = TRUE /\ UNCHANGED redis
    /\ Goto(c, "done")
    /\ UNCHANGED <<overlapping, wanted, answers, audio>>

\* An hour has passed.
Expire ==
    /\ \E e \in redis : redis' = redis \ {e}
    /\ unreliable' = TRUE
    /\ UNCHANGED <<overlapping, call, wanted, answers, audio>>

Step(c) == Get(c) \/ Ask(c) \/ Set(c)

Next == Expire \/ \E c \in Call : Begin(c) \/ Step(c)

Spec == Init /\ [][Next]_vars

-----------------------------------------------------------------------------
(* Properties.                                                             *)

\* Every variable has its type.
TypeOK ==
    /\ overlapping \in BOOLEAN
    /\ call \in [Call -> {"new", "get", "ask", "set", "done", "failed"}]
    /\ wanted \in [Call -> Speech \cup {None}]
    /\ answers \in [Call -> Seq(Answer)]
    /\ \A c \in Call : Len(answers[c]) <= (IF IsScore(c) THEN MaxRetries ELSE 1)
    /\ audio \in [Call -> Speech \cup {None}]
    /\ redis \subseteq {Key(s) : s \in Speech} \X Speech
    /\ unreliable \in BOOLEAN

\* However calls share the cache, nobody is given audio of another text, another
\* voice or another speed.
OwnAudio ==
    \A c \in Call :
        call[c] = "done" /\ ~IsScore(c) =>
            audio[c] # None /\ Sound(audio[c]) = Sound(wanted[c])

\* A call fails only because Karma failed it, never because of Redis; and a score
\* is not given up for a bad gateway before the third.
FailureExplained ==
    \A c \in Call :
        call[c] = "failed" =>
            /\ answers[c] # <<>>
            /\ Last(answers[c]) # "ok"
            /\ IsScore(c) /\ Last(answers[c]) = "gateway" => Len(answers[c]) = MaxRetries

\* As long as Redis works and calls do not overlap, Karma makes each introduction
\* and outro once.
MadeOnce ==
    ~overlapping /\ ~unreliable =>
        \A c, d \in Call :
            /\ ~IsScore(c) /\ ~IsScore(d) /\ wanted[c] = wanted[d]
            /\ wanted[c].kind \in Cached
            /\ answers[c] = <<"ok">> /\ answers[d] = <<"ok">>
            => c = d
=============================================================================
