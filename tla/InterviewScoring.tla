-------------------------- MODULE InterviewScoring --------------------------
(***************************************************************************)
(* Answering and scoring one interview (internal/features/irelia.go): the  *)
(* handlers SubmitAnswer and SubmitInterview, the goroutine that the       *)
(* latter leaves behind to have Darius score the answers, and the rows of  *)
(* the tables interviews and questions they read and write.                *)
(*                                                                         *)
(* No handler uses a transaction: each reads a row, keeps the copy, and    *)
(* later writes all columns back from its copy.  Each such round trip is a *)
(* step, and any number of requests are in progress at once.  Columns that *)
(* never change are left out; what remains of a question is its status,    *)
(* whose answer it holds and which submission scored it, and of the        *)
(* interview its status and the submission its feedback comes from.        *)
(***************************************************************************)
EXTENDS FiniteSets

CONSTANTS
    Question,      \* the indices of the interview's questions
    Answer,        \* requests to SubmitAnswer, one text each
    Submission,    \* requests to SubmitInterview
    Faults,        \* what can go wrong around the code
    None           \* model value

\* "db", "karma", "darius": calls that return an error, Darius possibly an answer
\* that does not grade every question; "crash": the process is restarted.
Fault == {"db", "karma", "darius", "crash"}

ASSUME ScoringAssumption ==
    /\ Faults \subseteq Fault
    /\ None \notin Answer \cup Submission

VARIABLES
    questions,   \* the rows of the interview's questions
    interview,   \* the row of the interview
    asked,       \* the question each answer is for
    answerPc,    \* the next call of each SubmitAnswer
    answerCopy,  \* the row it read
    answerReply, \* what its client was told
    submitPc,    \* the next call of each SubmitInterview and its goroutine
    interviewCopy, \* the interview row it read
    sent,        \* the questions it reads and sends to Darius
    ungraded,    \* the graded questions it has not dealt with
    scoring,     \* the question it is storing a score of
    scoreCopy,   \* the row it read for that
    submitReply  \* what its client was told

answering == <<asked, answerPc, answerCopy, answerReply>>
scored    == <<sent, ungraded, scoring, scoreCopy>>
submitting == <<submitPc, interviewCopy, scored, submitReply>>
vars      == <<questions, interview, answering, submitting>>

Absent == [status |-> "ABSENT", answer |-> None, scoredBy |-> None]
New    == [Absent EXCEPT !.status = "NEW"]

Row == [status : {"ABSENT", "NEW", "ANSWERED", "FAILED", "RATED"},
        answer : Answer \cup {None}, scoredBy : Submission \cup {None}]
InterviewRow == [status : {"IN_PROGRESS", "PENDING", "COMPLETED"},
                 result : Submission \cup {None}]

Stored == {q \in Question : questions[q].status # "ABSENT"}

-----------------------------------------------------------------------------
\* StartInterview has created the interview; its questions arrive one by one.
Init ==
    /\ questions = [q \in Question |-> Absent]
    /\ interview = [status |-> "IN_PROGRESS", result |-> None]
    /\ asked \in [Answer -> Question]
    /\ answerPc = [a \in Answer |-> "get"]
    /\ answerCopy = [a \in Answer |-> Absent]
    /\ answerReply = [a \in Answer |-> "none"]
    /\ submitPc = [s \in Submission |-> "get"]
    /\ interviewCopy = [s \in Submission |-> interview]
    /\ sent = [s \in Submission |-> {}]
    /\ ungraded = [s \in Submission |-> {}]
    /\ scoring = [s \in Submission |-> None]
    /\ scoreCopy = [s \in Submission |-> Absent]
    /\ submitReply = [s \in Submission |-> "none"]

\* A run of QuestionPreparation stores a question, possibly after the interview
\* was submitted.
QuestionArrives(q) ==
    /\ questions[q] = Absent
    /\ questions' = [questions EXCEPT ![q] = New]
    /\ UNCHANGED <<interview, answering, submitting>>

\* A whole row is written; a write that reports an error may have happened.
Write(q, row)      == questions' = [questions EXCEPT ![q] = row]
WriteFails(q, row) == "db" \in Faults /\ (Write(q, row) \/ UNCHANGED questions)

-----------------------------------------------------------------------------
(* SubmitAnswer                                                            *)

ReplyAnswer(a, reply) ==
    /\ answerReply' = [answerReply EXCEPT ![a] = reply]
    /\ answerPc' = [answerPc EXCEPT ![a] = "done"]

\* Mutant: the status of the question is not looked at.
GetQuestionUnchecked(a) ==
    /\ answerPc[a] = "get"
    /\ LET row == questions[asked[a]]
       IN  \/ /\ row = Absent \/ "db" \in Faults
              /\ ReplyAnswer(a, "not found")
              /\ UNCHANGED answerCopy
           \/ /\ row # Absent
              /\ answerCopy' = [answerCopy EXCEPT ![a] = row]
              /\ answerPc' = [answerPc EXCEPT ![a] = "update"]
              /\ UNCHANGED answerReply
    /\ UNCHANGED <<questions, interview, asked, submitting>>

\* Only a question whose status is NEW takes an answer, and no empty one; the
\* status of the interview is not looked at.
GetQuestion(a) ==
    /\ answerPc[a] = "get"
    /\ LET row == questions[asked[a]]
       IN  \/ /\ row = Absent \/ "db" \in Faults
              /\ ReplyAnswer(a, "not found")
              /\ UNCHANGED answerCopy
           \/ /\ row # Absent
              /\ row.status # "NEW"
              /\ ReplyAnswer(a, "already answered")
              /\ UNCHANGED answerCopy
           \/ /\ row.status = "NEW"
              /\ ReplyAnswer(a, "empty")
              /\ UNCHANGED answerCopy
           \/ /\ row.status = "NEW"
              /\ answerCopy' = [answerCopy EXCEPT ![a] = row]
              /\ answerPc' = [answerPc EXCEPT ![a] = "update"]
              /\ UNCHANGED answerReply
    /\ UNCHANGED <<questions, interview, asked, submitting>>

\* Mutant: the error of the update is ignored.
UpdateAnswerUnchecked(a) ==
    /\ answerPc[a] = "update"
    /\ LET row == [answerCopy[a] EXCEPT !.answer = a, !.status = "ANSWERED"]
       IN  Write(asked[a], row) \/ WriteFails(asked[a], row)
    /\ ReplyAnswer(a, "success")
    /\ UNCHANGED <<interview, asked, answerCopy, submitting>>

\* The copy is written back with the answer and the status ANSWERED.
UpdateAnswer(a) ==
    /\ answerPc[a] = "update"
    /\ LET row == [answerCopy[a] EXCEPT !.answer = a, !.status = "ANSWERED"]
       IN  \/ Write(asked[a], row) /\ ReplyAnswer(a, "success")
           \/ WriteFails(asked[a], row) /\ ReplyAnswer(a, "failed")
    /\ UNCHANGED <<interview, asked, answerCopy, submitting>>

-----------------------------------------------------------------------------
(* SubmitInterview: the handler                                            *)

Goto(s, next) ==
    /\ submitPc' = [submitPc EXCEPT ![s] = next]
    /\ UNCHANGED submitReply

ReplySubmit(s, reply, next) ==
    /\ submitReply' = [submitReply EXCEPT ![s] = reply]
    /\ submitPc' = [submitPc EXCEPT ![s] = next]

\* Mutant: a COMPLETED interview is not refused.
GetInterviewUnguarded(s) ==
    /\ submitPc[s] = "get"
    /\ \/ "db" \in Faults /\ ReplySubmit(s, "error", "done") /\ UNCHANGED interviewCopy
       \/ /\ interviewCopy' = [interviewCopy EXCEPT ![s] = interview]
          /\ Goto(s, "answers")
    /\ UNCHANGED <<questions, interview, answering, scored>>

\* An interview that is COMPLETED is refused, one that is PENDING is not.
GetInterview(s) ==
    /\ submitPc[s] = "get"
    /\ \/ /\ interview.status = "COMPLETED" \/ "db" \in Faults
          /\ ReplySubmit(s, "error", "done")
          /\ UNCHANGED interviewCopy
       \/ /\ interview.status # "COMPLETED"
          /\ interviewCopy' = [interviewCopy EXCEPT ![s] = interview]
          /\ Goto(s, "answers")
    /\ UNCHANGED <<questions, interview, answering, scored>>

\* An error is only logged: the handler goes on with no answers.
GetAnswers(s) ==
    /\ submitPc[s] = "answers"
    /\ \/ sent' = [sent EXCEPT ![s] = Stored]
       \/ "db" \in Faults /\ UNCHANGED sent
    /\ Goto(s, "pending")
    /\ UNCHANGED <<questions, interview, answering, interviewCopy, ungraded,
                   scoring, scoreCopy>>

\* Mutant: the error of the update is ignored.
SavePendingUnchecked(s) ==
    /\ submitPc[s] = "pending"
    /\ LET row == [interviewCopy[s] EXCEPT !.status = "PENDING"]
       IN  interview' = row \/ ("db" \in Faults /\ interview' = interview)
    /\ Goto(s, "outro")
    /\ UNCHANGED <<questions, answering, interviewCopy, scored>>

\* The copy of the interview is written back with the status PENDING.
SavePending(s) ==
    /\ submitPc[s] = "pending"
    /\ LET row == [interviewCopy[s] EXCEPT !.status = "PENDING"]
       IN  \/ interview' = row /\ Goto(s, "outro")
           \/ /\ "db" \in Faults
              /\ interview' \in {interview, row}
              /\ ReplySubmit(s, "error", "done")
    /\ UNCHANGED <<questions, answering, interviewCopy, scored>>

\* The lip sync of the outro; without it no goroutine is started.
PrepareOutro(s) ==
    /\ submitPc[s] = "outro"
    /\ \/ "karma" \in Faults /\ ReplySubmit(s, "error", "done")
       \/ ReplySubmit(s, "outro", "score")
    /\ UNCHANGED <<questions, interview, answering, interviewCopy, scored>>

-----------------------------------------------------------------------------
(* SubmitInterview: the goroutine                                          *)

\* The next graded question, or the end of the loop.
NextResult(s, left) ==
    /\ ungraded' = [ungraded EXCEPT ![s] = left]
    /\ Goto(s, IF left = {} THEN "complete" ELSE "fetch")

\* An error ends the goroutine: the interview stays PENDING.
Score(s) ==
    /\ submitPc[s] = "score"
    /\ \/ /\ "darius" \in Faults
          /\ Goto(s, "done")
          /\ UNCHANGED ungraded
       \/ \E graded \in SUBSET sent[s] :
            /\ "darius" \in Faults \/ graded = sent[s]
            /\ NextResult(s, graded)
    /\ UNCHANGED <<questions, interview, answering, interviewCopy, sent,
                   scoring, scoreCopy>>

\* A question that cannot be read is passed over.
FetchRow(s) ==
    /\ submitPc[s] = "fetch"
    /\ \E q \in ungraded[s] :
        \/ /\ scoreCopy' = [scoreCopy EXCEPT ![s] = questions[q]]
           /\ scoring' = [scoring EXCEPT ![s] = q]
           /\ Goto(s, "store")
           /\ UNCHANGED ungraded
        \/ /\ "db" \in Faults
           /\ NextResult(s, ungraded[s] \ {q})
           /\ UNCHANGED <<scoreCopy, scoring>>
    /\ UNCHANGED <<questions, interview, answering, interviewCopy, sent>>

\* Mutant: the loop ends after the first question.
StoreScoreOnce(s) ==
    /\ submitPc[s] = "store"
    /\ \E verdict \in {"RATED", "FAILED"} :
         LET row == [scoreCopy[s] EXCEPT !.scoredBy = s, !.status = verdict]
         IN  Write(scoring[s], row) \/ WriteFails(scoring[s], row)
    /\ NextResult(s, {})
    /\ UNCHANGED <<interview, answering, interviewCopy, sent, scoring, scoreCopy>>

\* The copy is written back with comment, score and a status that says whether
\* there is a score; a write that fails is passed over.
StoreScore(s) ==
    /\ submitPc[s] = "store"
    /\ \E verdict \in {"RATED", "FAILED"} :
         LET row == [scoreCopy[s] EXCEPT !.scoredBy = s, !.status = verdict]
         IN  Write(scoring[s], row) \/ WriteFails(scoring[s], row)
    /\ NextResult(s, ungraded[s] \ {scoring[s]})
    /\ UNCHANGED <<interview, answering, interviewCopy, sent, scoring, scoreCopy>>

\* Mutant: the status is not set again before the last update.
CompleteStatusForgotten(s) ==
    /\ submitPc[s] = "complete"
    /\ interview' = [status |-> "PENDING", result |-> s]
    /\ Goto(s, "done")
    /\ UNCHANGED <<questions, answering, interviewCopy, scored>>

\* The copy of the interview is written back with the feedback.
Complete(s) ==
    /\ submitPc[s] = "complete"
    /\ LET row == [status |-> "COMPLETED", result |-> s]
       IN  \/ interview' = row
           \/ "db" \in Faults /\ interview' \in {interview, row}
    /\ Goto(s, "done")
    /\ UNCHANGED <<questions, answering, interviewCopy, scored>>

-----------------------------------------------------------------------------
AnswerStep(a) == GetQuestion(a) \/ UpdateAnswer(a)

SubmitStep(s) ==
    \/ GetInterview(s) \/ GetAnswers(s) \/ SavePending(s) \/ PrepareOutro(s)
    \/ Score(s) \/ FetchRow(s) \/ StoreScore(s) \/ Complete(s)

\* Requests in progress and scoring goroutines are gone, the rows stay.
Crash ==
    /\ "crash" \in Faults
    /\ answerPc' = [a \in Answer |-> IF answerPc[a] = "get" THEN "get" ELSE "done"]
    /\ submitPc' = [s \in Submission |-> IF submitPc[s] = "get" THEN "get" ELSE "done"]
    /\ UNCHANGED <<questions, interview, asked, answerCopy, answerReply,
                   interviewCopy, scored, submitReply>>

Next ==
    \/ \E q \in Question : QuestionArrives(q)
    \/ \E a \in Answer : AnswerStep(a)
    \/ \E s \in Submission : SubmitStep(s)
    \/ Crash

Spec == Init /\ [][Next]_vars

\* A request that has been read is carried on, and so is its goroutine; nothing
\* makes a client answer, submit, or wait for the next question.
Fairness ==
    /\ \A a \in Answer : WF_vars(UpdateAnswer(a))
    /\ \A s \in Submission : WF_vars(SubmitStep(s) /\ submitPc[s] # "get")

FairSpec == Spec /\ Fairness

-----------------------------------------------------------------------------
(* Properties.                                                             *)

\* Rows and copies are rows of their tables, and every request is at one of the
\* calls of its handler.
TypeOK ==
    /\ questions \in [Question -> Row]
    /\ interview \in InterviewRow
    /\ asked \in [Answer -> Question]
    /\ answerPc \in [Answer -> {"get", "update", "done"}]
    /\ answerCopy \in [Answer -> Row]
    /\ answerReply \in [Answer -> {"none", "not found", "already answered",
                                   "empty", "success", "failed"}]
    /\ submitPc \in [Submission -> {"get", "answers", "pending", "outro",
                                    "score", "fetch", "store", "complete", "done"}]
    /\ interviewCopy \in [Submission -> InterviewRow]
    /\ sent \in [Submission -> SUBSET Question]
    /\ ungraded \in [Submission -> SUBSET Question]
    /\ scoring \in [Submission -> Question \cup {None}]
    /\ scoreCopy \in [Submission -> Row]
    /\ submitReply \in [Submission -> {"none", "error", "outro"}]

\* The feedback shown by GetInterview belongs to the status: the interview is
\* COMPLETED exactly when it holds the feedback of a submission, although every
\* submission writes the whole row back from a copy of any age.
CompletedIffResult ==
    interview.status = "COMPLETED" <=> interview.result # None

\* No question carries a score before the interview was submitted: PENDING is
\* saved before Darius is asked.
ScoredAfterSubmit ==
    (\E q \in Question : questions[q].scoredBy # None) => interview.status # "IN_PROGRESS"

\* The status of a question says what its row holds, whichever of the two
\* writers with their copies came last: RATED or FAILED with a score, ANSWERED
\* with an answer and no score, NEW with neither.
StatusMatchesRow ==
    \A q \in Question :
        LET row == questions[q]
        IN  /\ row.status \in {"RATED", "FAILED"} <=> row.scoredBy # None
            /\ row.status = "ANSWERED" => row.answer # None
            /\ row.status \in {"ABSENT", "NEW"} => row.answer = None

\* An answer whose client was told "success" is in the table, unless another
\* answer to the same question was accepted from a copy as old, or a score was
\* written from a copy that did not have it yet.
AcceptedAnswerAccounted ==
    \A a \in Answer : answerReply[a] = "success" =>
        LET row == questions[asked[a]]
        IN  \/ row.answer = a
            \/ \E b \in Answer \ {a} : row.answer = b /\ asked[b] = asked[a]
            \/ row.scoredBy # None

\* When the database works, completing means that every question the
\* submission had read was graded, or answered while it was being graded: none
\* is left NEW.
CompletedCovers ==
    interview.status = "COMPLETED" =>
        \A q \in sent[interview.result] : questions[q].status # "NEW"

\* SubmitInterview refuses what is COMPLETED with "Interview already submitted":
\* once scored, an interview stays scored, in the history and with its feedback.
CompletedFinal ==
    [][interview.status = "COMPLETED" => interview.status' = "COMPLETED"]_vars

\* The client that is sent the outro ("You can check out the results in a few
\* minutes") finds results from some moment on.
ResultsAvailable ==
    \A s \in Submission :
        submitReply[s] = "outro" ~> [](interview.status = "COMPLETED")
=============================================================================
