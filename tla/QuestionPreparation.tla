------------------------ MODULE QuestionPreparation ------------------------
(***************************************************************************)
(* How a question comes into being (internal/features/helper.go).          *)
(*                                                                         *)
(* A run is one execution of prepareQuestion.  Most runs are started by a  *)
(* pool worker through prepareQuestionSafe, which lets one run per         *)
(* interview and index proceed and gives it a deadline; the run that       *)
(* stores the introduction is called by StartInterview directly, without   *)
(* that guard.  A run looks whether its question exists, asks Darius for a *)
(* batch of texts, and for each of them asks Karma for the lip sync data   *)
(* and inserts a row; at last it publishes the texts.  Each call of the    *)
(* database, Darius or Karma is a step of its own.                         *)
(*                                                                         *)
(* Interviews are independent of their content: a text is identified with  *)
(* its index, and a table row with its interview and index.                *)
(***************************************************************************)
EXTENDS Naturals, FiniteSets

CONSTANTS
    Run,             \* executions of prepareQuestion
    Interview,
    TotalQuestions,  \* the same for every interview
    MaxBatch,        \* the most texts Darius returns at once
    Faults           \* what can go wrong around the code, see Fault

\* "db", "karma", "darius": calls that return an error (a generated text that is
\* empty is refused by the table, which counts as "db"); "expiry": the five
\* minutes pass, or a client goes away; "hang": Darius never answers; "crash":
\* the process is restarted.
Fault == {"db", "karma", "darius", "expiry", "hang", "crash"}

ASSUME PreparationAssumption ==
    /\ TotalQuestions \in Nat \ {0}
    /\ MaxBatch \in Nat \ {0}
    /\ Faults \subseteq Fault

VARIABLES
    preparing,   \* preparationStatus: the flagged indices of each interview
    tracked,     \* the interviews preparationStatus has an entry for
    questions,   \* rows of the table questions
    published,   \* public_questions: the runs that inserted each text, a row each
    unsaved,     \* the texts whose lip sync or insert failed in each run
    pc,          \* the next call of each run
    slot,        \* the interview and index a run was asked for
    guarded,     \* whether it came through prepareQuestionSafe
    batch,       \* how many texts it has to store
    pos,         \* how many of them it has dealt with
    expired,     \* whether its context is done
    outcome      \* what it returned

guard  == <<preparing, tracked>>
tables == <<questions, published, unsaved>>
job    == <<slot, guarded>>
vars   == <<guard, tables, pc, job, batch, pos, expired, outcome>>

\* GetNextQuestion accepts every index up to the total (0 stands for all that
\* are below 1), and StartInterview asks for index 2 whatever the total is.
JobIndex == (0 .. TotalQuestions) \cup {2}
Slot     == Interview \X (0 .. TotalQuestions)
JobSlot  == Interview \X JobIndex

Step == {"idle", "exists", "gather", "generate", "lipsync", "create",
         "publish", "release", "done"}

Working(r)  == pc[r] \notin {"idle", "done"}
Holds(r, s) == Working(r) /\ guarded[r] /\ slot[r] = s

\* The slot of the text a run is dealing with, and those it will publish: the
\* introduction is not a public question.
Current(r)     == <<slot[r][1], slot[r][2] + pos[r]>>
ToPublish(r)   == {<<slot[r][1], slot[r][2] + k>> : k \in {i \in 0 .. batch[r] - 1 : slot[r][2] + i > 1}}

\* A call with a finished context fails.
CallSucceeds(r)   == ~expired[r]
CallFails(r, who) == expired[r] \/ who \in Faults

-----------------------------------------------------------------------------
Init ==
    /\ preparing = [iv \in Interview |-> {}]
    /\ tracked = {}
    /\ questions = {}
    /\ published = [s \in Slot |-> {}]
    /\ unsaved = [r \in Run |-> {}]
    /\ pc = [r \in Run |-> "idle"]
    /\ slot \in [Run -> JobSlot]
    /\ guarded \in [Run -> BOOLEAN]
    /\ \A r \in Run : guarded[r] \/ slot[r][2] = 1
    /\ \A r, q \in Run :
         ~guarded[r] /\ ~guarded[q] /\ slot[r] = slot[q] => r = q
    /\ batch = [r \in Run |-> 0]
    /\ pos = [r \in Run |-> 0]
    /\ expired = [r \in Run |-> FALSE]
    /\ outcome = [r \in Run |-> "none"]

\* Mutant: the cleanup runs on success only, instead of being deferred.
ReturnWithoutCleanup(r, result) ==
    /\ outcome' = [outcome EXCEPT ![r] = result]
    /\ pc' = [pc EXCEPT ![r] = IF guarded[r] /\ result = "ok" THEN "release" ELSE "done"]

\* prepareQuestion returns; the deferred function of prepareQuestionSafe, if
\* there is one, is still to run.
Return(r, result) ==
    /\ outcome' = [outcome EXCEPT ![r] = result]
    /\ pc' = [pc EXCEPT ![r] = IF guarded[r] THEN "release" ELSE "done"]

Goto(r, next) ==
    /\ pc' = [pc EXCEPT ![r] = next]
    /\ UNCHANGED outcome

-----------------------------------------------------------------------------
\* Mutant: the flag is set but not looked at.
ClaimUnchecked(r) ==
    /\ pc[r] = "idle"
    /\ guarded[r]
    /\ tracked' = tracked \cup {slot[r][1]}
    /\ preparing' = [preparing EXCEPT ![slot[r][1]] = @ \cup {slot[r][2]}]
    /\ Goto(r, "exists")
    /\ UNCHANGED <<tables, job, batch, pos, expired>>

\* Mutant: any preparation of the same interview counts as "in progress".
ClaimByInterview(r) ==
    /\ pc[r] = "idle"
    /\ guarded[r]
    /\ LET iv == slot[r][1]
       IN  /\ tracked' = tracked \cup {iv}
           /\ \/ /\ preparing[iv] # {}
                 /\ pc' = [pc EXCEPT ![r] = "done"]
                 /\ outcome' = [outcome EXCEPT ![r] = "skipped"]
                 /\ UNCHANGED preparing
              \/ /\ preparing[iv] = {}
                 /\ preparing' = [preparing EXCEPT ![iv] = {slot[r][2]}]
                 /\ Goto(r, "exists")
    /\ UNCHANGED <<tables, job, batch, pos, expired>>

\* prepareQuestionSafe up to the unlock: claim the slot, or give up because a
\* run for it is in progress.
Claim(r) ==
    /\ pc[r] = "idle"
    /\ guarded[r]
    /\ LET iv == slot[r][1]
           index == slot[r][2]
       IN  /\ tracked' = tracked \cup {iv}
           /\ \/ /\ index \in preparing[iv]
                 /\ pc' = [pc EXCEPT ![r] = "done"]
                 /\ outcome' = [outcome EXCEPT ![r] = "skipped"]
                 /\ UNCHANGED preparing
              \/ /\ index \notin preparing[iv]
                 /\ preparing' = [preparing EXCEPT ![iv] = @ \cup {index}]
                 /\ Goto(r, "exists")
    /\ UNCHANGED <<tables, job, batch, pos, expired>>

\* StartInterview calls prepareQuestion itself.
CallDirectly(r) ==
    /\ pc[r] = "idle"
    /\ ~guarded[r]
    /\ Goto(r, "exists")
    /\ UNCHANGED <<guard, tables, job, batch, pos, expired>>

\* Mutant: an existing question is generated again.
CheckExistsIgnored(r) ==
    /\ pc[r] = "exists"
    /\ CallSucceeds(r)
    /\ Goto(r, IF guarded[r] THEN "gather" ELSE "lipsync")
    /\ batch' = [batch EXCEPT ![r] = IF guarded[r] THEN 0 ELSE 1]
    /\ UNCHANGED <<guard, tables, job, pos, expired>>

\* Nothing is generated when the question exists; StartInterview passes the
\* introduction along, the workers pass no texts.
CheckExists(r) ==
    /\ pc[r] = "exists"
    /\ \/ CallFails(r, "db") /\ Return(r, "error") /\ UNCHANGED batch
       \/ /\ CallSucceeds(r)
          /\ slot[r] \in questions
          /\ Return(r, "ok")
          /\ UNCHANGED batch
       \/ /\ CallSucceeds(r)
          /\ slot[r] \notin questions
          /\ Goto(r, IF guarded[r] THEN "gather" ELSE "lipsync")
          /\ batch' = [batch EXCEPT ![r] = IF guarded[r] THEN 0 ELSE 1]
    /\ UNCHANGED <<guard, tables, job, pos, expired>>

\* GetQaPair and GetContext, two reads.
Gather(r) ==
    /\ pc[r] = "gather"
    /\ \/ CallFails(r, "db") /\ Return(r, "error")
       \/ CallSucceeds(r) /\ Goto(r, "generate")
    /\ UNCHANGED <<guard, tables, job, batch, pos, expired>>

\* Mutant: texts beyond the last question are kept.
GenerateUncut(r) ==
    /\ pc[r] = "generate"
    /\ \/ "darius" \in Faults /\ Return(r, "error") /\ UNCHANGED batch
       \/ \E n \in 1 .. MaxBatch :
            batch' = [batch EXCEPT ![r] = n] /\ Goto(r, "lipsync")
    /\ UNCHANGED <<guard, tables, job, pos, expired>>

\* Mutant: an error of Darius is taken for an empty answer.
GenerateErrorIgnored(r) ==
    /\ pc[r] = "generate"
    /\ \/ "darius" \in Faults /\ Goto(r, "publish") /\ UNCHANGED batch
       \/ \E n \in 1 .. MaxBatch :
            LET kept == {i \in 0 .. n - 1 : slot[r][2] + i <= TotalQuestions}
            IN  /\ batch' = [batch EXCEPT ![r] = Cardinality(kept)]
                /\ Goto(r, IF kept = {} THEN "publish" ELSE "lipsync")
    /\ UNCHANGED <<guard, tables, job, pos, expired>>

\* Darius is called without the deadline.  Texts beyond the last question are
\* cut off, which may leave none.
Generate(r) ==
    /\ pc[r] = "generate"
    /\ \/ /\ "darius" \in Faults
          /\ Return(r, "error")
          /\ UNCHANGED batch
       \/ \E n \in 1 .. MaxBatch :
            LET kept == {i \in 0 .. n - 1 : slot[r][2] + i <= TotalQuestions}
            IN  /\ batch' = [batch EXCEPT ![r] = Cardinality(kept)]
                /\ Goto(r, IF kept = {} THEN "publish" ELSE "lipsync")
    /\ UNCHANGED <<guard, tables, job, pos, expired>>

\* The next turn of the loop over the texts.
NextText(r) ==
    /\ pos' = [pos EXCEPT ![r] = @ + 1]
    /\ Goto(r, IF pos[r] + 1 < batch[r] THEN "lipsync" ELSE "publish")

\* An error is logged, and the loop goes on with the next text.
PassOver(r) == unsaved' = [unsaved EXCEPT ![r] = @ \cup {Current(r)}]

LipSync(r) ==
    /\ pc[r] = "lipsync"
    /\ \/ CallFails(r, "karma") /\ PassOver(r) /\ NextText(r)
       \/ CallSucceeds(r) /\ Goto(r, "create") /\ UNCHANGED <<pos, unsaved>>
    /\ UNCHANGED <<guard, questions, published, job, batch, expired>>

\* The unique index refuses a second row for a slot, and the loop goes on, as it
\* does after any other error; an insert that reports an error may have reached
\* the table.
Create(r) ==
    /\ pc[r] = "create"
    /\ \/ CallSucceeds(r) /\ questions' = questions \cup {Current(r)} /\ UNCHANGED unsaved
       \/ /\ CallFails(r, "db")
          /\ PassOver(r)
          /\ questions' \in {questions, questions \cup {Current(r)}}
    /\ NextText(r)
    /\ UNCHANGED <<guard, published, job, batch, expired>>

\* The texts a run makes public, in one statement.
InsertPublic(r) ==
    published' = [s \in Slot |-> IF s \in ToPublish(r) THEN published[s] \cup {r} ELSE published[s]]

\* All texts that were generated, saved or not.
Publish(r) ==
    /\ pc[r] = "publish"
    /\ \/ ToPublish(r) = {} /\ Return(r, "ok") /\ UNCHANGED published
       \/ /\ ToPublish(r) # {}
          /\ CallFails(r, "db")
          /\ InsertPublic(r) \/ UNCHANGED published
          /\ Return(r, "error")
       \/ /\ ToPublish(r) # {}
          /\ CallSucceeds(r)
          /\ InsertPublic(r)
          /\ Return(r, "ok")
    /\ UNCHANGED <<guard, questions, unsaved, job, batch, pos, expired>>

\* The deferred cleanup of prepareQuestionSafe.
Release(r) ==
    /\ pc[r] = "release"
    /\ LET iv == slot[r][1]
           left == preparing[iv] \ {slot[r][2]}
       IN  /\ preparing' = [preparing EXCEPT ![iv] = left]
           /\ tracked' = IF left = {} THEN tracked \ {iv} ELSE tracked
    /\ Goto(r, "done")
    /\ UNCHANGED <<tables, job, batch, pos, expired>>

RunStep(r) ==
    \/ Claim(r) \/ CallDirectly(r) \/ CheckExists(r) \/ Gather(r)
    \/ LipSync(r) \/ Create(r) \/ Publish(r) \/ Release(r)

Expire(r) ==
    /\ "expiry" \in Faults
    /\ Working(r)
    /\ ~expired[r]
    /\ expired' = [expired EXCEPT ![r] = TRUE]
    /\ UNCHANGED <<guard, tables, pc, job, batch, pos, outcome>>

\* The process restarts: its runs and preparationStatus are gone, the rows stay.
Crash ==
    /\ "crash" \in Faults
    /\ \E r \in Run : Working(r)
    /\ pc' = [r \in Run |-> IF Working(r) THEN "done" ELSE pc[r]]
    /\ outcome' = [r \in Run |-> IF Working(r) THEN "lost" ELSE outcome[r]]
    /\ preparing' = [iv \in Interview |-> {}]
    /\ tracked' = {}
    /\ UNCHANGED <<tables, job, batch, pos, expired>>

Next ==
    \/ \E r \in Run : RunStep(r) \/ Generate(r) \/ Expire(r)
    \/ Crash

Spec == Init /\ [][Next]_vars

\* A run that has started is scheduled, and a call of the database or of Karma
\* ends (their contexts see to it); Darius answers unless it may hang.
Fairness ==
    \A r \in Run :
        /\ WF_vars(RunStep(r) /\ Working(r))
        /\ "hang" \in Faults \/ WF_vars(Generate(r))

FairSpec == Spec /\ Fairness

-----------------------------------------------------------------------------
(* Properties.                                                             *)

Outcome == {"none", "ok", "error", "skipped", "lost"}

\* Every variable has its type; in particular only indices up to the total are
\* ever stored (the cuts in prepareContent and in the loop of prepareQuestion).
TypeOK ==
    /\ preparing \in [Interview -> SUBSET JobIndex]
    /\ tracked \subseteq Interview
    /\ questions \subseteq Slot
    /\ published \in [Slot -> SUBSET Run]
    /\ unsaved \in [Run -> SUBSET Slot]
    /\ pc \in [Run -> Step]
    /\ slot \in [Run -> JobSlot]
    /\ guarded \in [Run -> BOOLEAN]
    /\ batch \in [Run -> Nat]
    /\ pos \in [Run -> Nat]
    /\ expired \in [Run -> BOOLEAN]
    /\ outcome \in [Run -> Outcome]

\* preparationStatus says what is going on, through failures, expired deadlines
\* and restarts: a slot is flagged exactly while a guarded run works on it, so
\* no failure path leaves a flag behind that would make GetNextQuestion report
\* "loading" for ever; and the outer map has no entry without a flag.
FlagExact ==
    /\ \A iv \in Interview, i \in JobIndex :
         i \in preparing[iv] <=> \E r \in Run : Holds(r, <<iv, i>>)
    /\ tracked = {iv \in Interview : preparing[iv] # {}}

\* Two runs that came through prepareQuestionSafe never work on the same slot at
\* once, so Darius is not asked twice for it.
GuardExclusive ==
    \A r, q \in Run, s \in JobSlot : Holds(r, s) /\ Holds(q, s) => r = q

\* "Successfully prepared and saved questions", the log says at the end of
\* prepareQuestion, which then returns no error: the question the run was asked
\* for is stored.  The code does not keep this, see Create.
SuccessMeansSaved ==
    \A r \in Run : outcome[r] = "ok" /\ slot[r] \in Slot => slot[r] \in questions

\* What success does mean, whatever fails, expires or is restarted: the question
\* is stored, by this run or another, or this very run tried to save it and was
\* told that it had failed.  An error before the loop is never a success.
SuccessExplained ==
    \A r \in Run :
        outcome[r] = "ok" /\ slot[r] \in Slot => slot[r] \in questions \cup unsaved[r]

\* A text comes twice into public_questions only from runs for different questions
\* with overlapping batches, or when one of the two failed to save its question:
\* preparing a question again, at the same time or after a restart, finds the
\* first attempt, even one that was stored but not published.
PublishedAgain ==
    \A s \in Slot : \A r, q \in published[s] :
        r # q /\ slot[r] = slot[q] => slot[r] \in unsaved[r] \cup unsaved[q]

\* A run waits for Darius, who was called without the deadline.
AtDarius(r) == pc[r] = "generate"

\* Every claimed slot is given back, whichever calls fail, so that the question
\* can be asked for again.  Only a call of Darius that is never answered keeps it
\* for ever, deadline or not.
SlotReleased ==
    \A iv \in Interview, i \in JobIndex :
        i \in preparing[iv] ~>
            \/ i \notin preparing[iv]
            \/ \E r \in Run : [](Holds(r, <<iv, i>>) /\ AtDarius(r))

\* Every run leads to its question, also one that was skipped because another
\* run was in progress, unless a run for that question reported an error, was
\* lost with the process, failed to save it, or waits for Darius for ever.
RequestServed ==
    \A r \in Run :
        (Working(r) \/ outcome[r] = "skipped") /\ slot[r] \in Slot ~>
            \/ slot[r] \in questions
            \/ \E q \in Run : /\ slot[q] = slot[r]
                              /\ outcome[q] \in {"error", "lost"} \/ slot[r] \in unsaved[q]
            \/ \E q \in Run : [](slot[q] = slot[r] /\ AtDarius(q))
=============================================================================
