----------------------- MODULE InterviewScoring_proofs -----------------------
(***************************************************************************)
(* Proofs about InterviewScoring, for any number of questions, answers and *)
(* submissions, and whatever fails.                                        *)
(***************************************************************************)
EXTENDS InterviewScoring, TLAPS

\* What the handlers may rely on about the copies they keep: a copy of a
\* question that an answer goes into was NEW, a copy of the interview that is
\* written back with PENDING has no feedback in it, and whoever is past that
\* write finds the interview submitted.
CopiesFit ==
    /\ \A a \in Answer : answerPc[a] = "update" => answerCopy[a] = New
    /\ \A s \in Submission :
         /\ submitPc[s] \in {"answers", "pending"} => interviewCopy[s].result = None
         /\ submitPc[s] \in {"outro", "score", "fetch", "store", "complete"} =>
              interview.status # "IN_PROGRESS"
         /\ submitPc[s] = "store" => scoring[s] \in Question

\* A row that is NEW is exactly the row QuestionPreparation inserted.
NewIsNew == \A q \in Question : questions[q].status = "NEW" => questions[q] = New

\* The inductive invariant.
IInv ==
    /\ TypeOK
    /\ CopiesFit
    /\ NewIsNew
    /\ CompletedIffResult
    /\ ScoredAfterSubmit
    /\ StatusMatchesRow
    /\ AcceptedAnswerAccounted

-----------------------------------------------------------------------------
(* Rows.                                                                   *)

\* None is neither an answer nor a submission.
LEMMA NoneFacts == (\A a \in Answer : a # None) /\ (\A s \in Submission : s # None)
  BY ScoringAssumption

\* A row without answer and score has the type of a row.
LEMMA NewFacts ==
    /\ Absent \in Row /\ New \in Row /\ New # Absent
    /\ Absent.status = "ABSENT" /\ Absent.answer = None /\ Absent.scoredBy = None
    /\ New.status = "NEW" /\ New.answer = None /\ New.scoredBy = None
  BY DEF Absent, New, Row

\* The row SubmitAnswer writes.
LEMMA AnsweredRow ==
    ASSUME NEW a \in Answer
    PROVE  LET row == [New EXCEPT !.answer = a, !.status = "ANSWERED"]
           IN  row \in Row /\ row.status = "ANSWERED" /\ row.answer = a /\ row.scoredBy = None
  BY DEF Absent, New, Row

-----------------------------------------------------------------------------
(* The invariant holds initially, and steps preserve it.                   *)

LEMMA InitInv == Init => IInv
<1> SUFFICES ASSUME Init PROVE IInv
  OBVIOUS
<1>1. TypeOK
  BY NewFacts DEF Init, TypeOK, InterviewRow
<1>2. CopiesFit
  BY DEF Init, CopiesFit
<1>3. NewIsNew /\ StatusMatchesRow /\ ScoredAfterSubmit
  BY NewFacts DEF Init, NewIsNew, StatusMatchesRow, ScoredAfterSubmit
<1>4. CompletedIffResult /\ AcceptedAnswerAccounted
  BY DEF Init, CompletedIffResult, AcceptedAnswerAccounted
<1> QED BY <1>1, <1>2, <1>3, <1>4 DEF IInv

\* A step that leaves the interview and the questions alone keeps what is said
\* of the tables.
LEMMA SameTables ==
    ASSUME IInv, UNCHANGED <<questions, interview>>
    PROVE  NewIsNew' /\ CompletedIffResult' /\ ScoredAfterSubmit' /\ StatusMatchesRow'
  BY DEF IInv, NewIsNew, CompletedIffResult, ScoredAfterSubmit, StatusMatchesRow

\* A step that leaves rows, questions asked and replies alone accounts for the
\* same answers.
LEMMA SameAnswers ==
    ASSUME IInv, UNCHANGED <<questions, asked, answerReply>>
    PROVE  AcceptedAnswerAccounted'
  BY DEF IInv, AcceptedAnswerAccounted

\* A question is stored.
LEMMA ArrivesInv ==
    ASSUME IInv, NEW q \in Question, QuestionArrives(q)
    PROVE  IInv'
<1> USE DEF IInv
<1>1. questions[q] = Absent /\ questions' = [questions EXCEPT ![q] = New]
      /\ UNCHANGED <<interview, answering, submitting>>
  BY DEF QuestionArrives
<1>2. TypeOK'
  BY <1>1, NewFacts DEF TypeOK, answering, submitting, scored
<1>3. CopiesFit'
  BY <1>1 DEF CopiesFit, answering, submitting, scored
<1>4. NewIsNew' /\ CompletedIffResult' /\ ScoredAfterSubmit' /\ StatusMatchesRow'
  BY <1>1, NewFacts DEF TypeOK, NewIsNew, CompletedIffResult, ScoredAfterSubmit, StatusMatchesRow
<1>5. \A a \in Answer : answerReply[a] = "success" => asked[a] # q
  BY <1>1, NewFacts, NoneFacts DEF AcceptedAnswerAccounted
<1>6. AcceptedAnswerAccounted'
  BY <1>1, <1>5 DEF AcceptedAnswerAccounted, answering, TypeOK
<1> QED BY <1>2, <1>3, <1>4, <1>6

\* A request to SubmitAnswer reads its question, or writes it.
LEMMA AnswerInv ==
    ASSUME IInv, NEW a \in Answer, AnswerStep(a)
    PROVE  IInv'
<1> USE DEF IInv
<1>1. asked[a] \in Question
  BY DEF TypeOK
<1>2. CASE GetQuestion(a)
  <2>1. TypeOK'
    BY <1>1, <1>2 DEF GetQuestion, ReplyAnswer, TypeOK, submitting, scored
  <2>2. CopiesFit'
    BY <1>1, <1>2 DEF GetQuestion, ReplyAnswer, CopiesFit, NewIsNew, TypeOK, submitting, scored
  <2>3. AcceptedAnswerAccounted'
    BY <1>2 DEF GetQuestion, ReplyAnswer, AcceptedAnswerAccounted, TypeOK
  <2> QED BY <1>2, <2>1, <2>2, <2>3, SameTables DEF GetQuestion
<1>3. CASE UpdateAnswer(a)
  <2> DEFINE row == [New EXCEPT !.answer = a, !.status = "ANSWERED"]
  <2>1. row \in Row /\ row.status = "ANSWERED" /\ row.answer = a /\ row.scoredBy = None
    BY AnsweredRow
  <2>2. answerCopy[a] = New
    BY <1>3 DEF UpdateAnswer, CopiesFit
  <2>3. /\ questions' = [questions EXCEPT ![asked[a]] = row] \/ UNCHANGED questions
        /\ answerReply'[a] = "success" => questions' = [questions EXCEPT ![asked[a]] = row]
        /\ \A b \in Answer \ {a} : answerReply'[b] = answerReply[b]
        /\ answerReply' \in [Answer -> {"none", "not found", "already answered",
                                        "empty", "success", "failed"}]
        /\ answerPc' = [answerPc EXCEPT ![a] = "done"]
        /\ UNCHANGED <<interview, asked, answerCopy, submitting>>
    BY <1>3, <2>2 DEF UpdateAnswer, ReplyAnswer, Write, WriteFails, TypeOK
  <2> HIDE DEF row
  <2>4. TypeOK'
    BY <1>1, <2>1, <2>3 DEF TypeOK, submitting, scored
  <2>5. CopiesFit'
    BY <2>3 DEF CopiesFit, TypeOK, submitting, scored
  <2>6. NewIsNew'
    BY <1>1, <2>1, <2>3 DEF NewIsNew, TypeOK
  <2>7. CompletedIffResult' /\ ScoredAfterSubmit'
    BY <1>1, <2>1, <2>3 DEF CompletedIffResult, ScoredAfterSubmit, TypeOK
  <2>8. StatusMatchesRow'
    BY <1>1, <2>1, <2>3, NoneFacts DEF StatusMatchesRow, TypeOK
  <2>9. AcceptedAnswerAccounted'
    <3> SUFFICES ASSUME NEW b \in Answer, answerReply'[b] = "success"
                 PROVE  \/ questions'[asked[b]].answer = b
                        \/ \E c \in Answer \ {b} :
                             questions'[asked[b]].answer = c /\ asked[c] = asked[b]
                        \/ questions'[asked[b]].scoredBy # None
      BY <2>3 DEF AcceptedAnswerAccounted
    <3>1. asked[b] \in Question
      BY DEF TypeOK
    <3>2. CASE questions' = [questions EXCEPT ![asked[a]] = row] /\ asked[b] = asked[a]
      <4>1. questions'[asked[b]].answer = a
        BY <1>1, <2>1, <3>2 DEF TypeOK
      <4> QED BY <3>2, <4>1
    <3>3. CASE ~(questions' = [questions EXCEPT ![asked[a]] = row] /\ asked[b] = asked[a])
      <4>1. questions'[asked[b]] = questions[asked[b]]
        BY <1>1, <2>3, <3>1, <3>3 DEF TypeOK
      <4>2. answerReply[b] = "success"
        BY <2>3, <3>3
      <4> QED BY <4>1, <4>2 DEF AcceptedAnswerAccounted
    <3> QED BY <3>2, <3>3
  <2> QED BY <2>4, <2>5, <2>6, <2>7, <2>8, <2>9
<1> QED BY <1>2, <1>3 DEF AnswerStep

\* The handler SubmitInterview.
LEMMA HandlerInv ==
    ASSUME IInv, NEW s \in Submission,
           GetInterview(s) \/ GetAnswers(s) \/ SavePending(s) \/ PrepareOutro(s)
    PROVE  IInv'
<1> USE DEF IInv
<1>1. CASE GetInterview(s)
  <2>1. TypeOK'
    BY <1>1 DEF GetInterview, ReplySubmit, Goto, TypeOK, answering, scored
  <2>2. CopiesFit'
    <3>1. interview.status # "COMPLETED" => interview.result = None
      BY DEF CompletedIffResult
    <3>2. /\ submitPc'[s] = "done" \/ (submitPc'[s] = "answers" /\ interviewCopy'[s].result = None)
          /\ \A t \in Submission \ {s} : submitPc'[t] = submitPc[t] /\ interviewCopy'[t] = interviewCopy[t]
          /\ UNCHANGED <<questions, interview, answering, scored>>
      BY <1>1, <3>1 DEF GetInterview, ReplySubmit, Goto, TypeOK
    <3> QED BY <3>2 DEF CopiesFit, answering, scored
  <2> QED BY <1>1, <2>1, <2>2, SameTables, SameAnswers DEF GetInterview, answering
<1>2. CASE GetAnswers(s)
  <2>1. TypeOK'
    BY <1>2 DEF GetAnswers, Goto, TypeOK, Stored, answering
  <2>2. CopiesFit'
    BY <1>2 DEF GetAnswers, Goto, CopiesFit, TypeOK, answering
  <2> QED BY <1>2, <2>1, <2>2, SameTables, SameAnswers DEF GetAnswers, answering
<1>3. CASE SavePending(s)
  <2> DEFINE row == [interviewCopy[s] EXCEPT !.status = "PENDING"]
  <2>1. row \in InterviewRow /\ row.status = "PENDING" /\ row.result = None
    BY <1>3 DEF SavePending, CopiesFit, TypeOK, InterviewRow
  <2>2. /\ \/ interview' = row /\ submitPc' = [submitPc EXCEPT ![s] = "outro"]
           \/ interview' \in {interview, row} /\ submitPc' = [submitPc EXCEPT ![s] = "done"]
        /\ submitReply' \in {submitReply, [submitReply EXCEPT ![s] = "error"]}
        /\ UNCHANGED <<questions, answering, interviewCopy, scored>>
    BY <1>3 DEF SavePending, ReplySubmit, Goto
  <2> HIDE DEF row
  <2>3. TypeOK'
    BY <2>1, <2>2 DEF TypeOK, answering, scored
  <2>4. CopiesFit'
    BY <2>1, <2>2 DEF CopiesFit, TypeOK, answering, scored
  <2>5. CompletedIffResult' /\ ScoredAfterSubmit'
    BY <2>1, <2>2 DEF CompletedIffResult, ScoredAfterSubmit
  <2>6. NewIsNew' /\ StatusMatchesRow'
    BY <2>2 DEF NewIsNew, StatusMatchesRow
  <2> QED BY <2>2, <2>3, <2>4, <2>5, <2>6, SameAnswers DEF answering
<1>4. CASE PrepareOutro(s)
  <2>1. TypeOK'
    BY <1>4 DEF PrepareOutro, ReplySubmit, TypeOK, answering, scored
  <2>2. CopiesFit'
    BY <1>4 DEF PrepareOutro, ReplySubmit, CopiesFit, TypeOK, answering, scored
  <2> QED BY <1>4, <2>1, <2>2, SameTables, SameAnswers DEF PrepareOutro, answering
<1> QED BY <1>1, <1>2, <1>3, <1>4

\* The goroutine SubmitInterview leaves behind.
LEMMA GoroutineInv ==
    ASSUME IInv, NEW s \in Submission,
           Score(s) \/ FetchRow(s) \/ StoreScore(s) \/ Complete(s)
    PROVE  IInv'
<1> USE DEF IInv
<1>1. CASE Score(s)
  <2> PICK left \in SUBSET Question, next \in {"done", "fetch", "complete"} :
        /\ submitPc' = [submitPc EXCEPT ![s] = next]
        /\ ungraded' = [ungraded EXCEPT ![s] = left] \/ UNCHANGED ungraded
    <3>1. sent[s] \subseteq Question /\ {} \subseteq Question
      BY DEF TypeOK
    <3>2. CASE Goto(s, "done") /\ UNCHANGED ungraded
      BY <3>1, <3>2 DEF Goto
    <3>3. ASSUME NEW graded \in SUBSET sent[s], NextResult(s, graded)
          PROVE  \E left \in SUBSET Question, next \in {"done", "fetch", "complete"} :
                   /\ submitPc' = [submitPc EXCEPT ![s] = next]
                   /\ ungraded' = [ungraded EXCEPT ![s] = left] \/ UNCHANGED ungraded
      <4>1. graded \in SUBSET Question
        BY <3>1, <3>3
      <4>2. CASE graded = {}
        BY <3>3, <4>1, <4>2 DEF NextResult, Goto
      <4>3. CASE graded # {}
        BY <3>3, <4>1, <4>3 DEF NextResult, Goto
      <4> QED BY <4>2, <4>3
    <3> QED BY <1>1, <3>2, <3>3 DEF Score
  <2>1. TypeOK'
    BY <1>1 DEF Score, NextResult, Goto, TypeOK, answering
  <2>2. CopiesFit'
    BY <1>1 DEF Score, NextResult, Goto, CopiesFit, TypeOK, answering
  <2> QED BY <1>1, <2>1, <2>2, SameTables, SameAnswers DEF Score, answering
<1>2. CASE FetchRow(s)
  <2> PICK q \in ungraded[s] :
        \/ /\ scoreCopy' = [scoreCopy EXCEPT ![s] = questions[q]]
           /\ scoring' = [scoring EXCEPT ![s] = q]
           /\ Goto(s, "store")
           /\ UNCHANGED ungraded
        \/ /\ NextResult(s, ungraded[s] \ {q})
           /\ UNCHANGED <<scoreCopy, scoring>>
    BY <1>2 DEF FetchRow
  <2>1. ungraded[s] \subseteq Question /\ q \in Question
    BY DEF TypeOK
  <2>4. CASE Goto(s, "store") /\ scoring' = [scoring EXCEPT ![s] = q]
             /\ scoreCopy' = [scoreCopy EXCEPT ![s] = questions[q]] /\ UNCHANGED ungraded
    <3>1. TypeOK'
      BY <1>2, <2>1, <2>4 DEF FetchRow, Goto, TypeOK, answering
    <3>2. CopiesFit'
      BY <1>2, <2>1, <2>4 DEF FetchRow, Goto, CopiesFit, TypeOK, answering
    <3> QED BY <1>2, <3>1, <3>2, SameTables, SameAnswers DEF FetchRow, answering
  <2>5. CASE NextResult(s, ungraded[s] \ {q}) /\ UNCHANGED <<scoreCopy, scoring>>
    <3>1. PICK next \in {"fetch", "complete"} : submitPc' = [submitPc EXCEPT ![s] = next]
      BY <2>5 DEF NextResult, Goto
    <3>2. ungraded' = [ungraded EXCEPT ![s] = ungraded[s] \ {q}] /\ UNCHANGED submitReply
      BY <2>5 DEF NextResult, Goto
    <3>3. submitPc[s] = "fetch" /\ UNCHANGED <<questions, interview, answering, interviewCopy, sent>>
      BY <1>2 DEF FetchRow
    <3>4. TypeOK'
      BY <2>1, <2>5, <3>1, <3>2, <3>3 DEF TypeOK, answering
    <3>5. CopiesFit'
      BY <2>5, <3>1, <3>3 DEF CopiesFit, TypeOK, answering
    <3> QED BY <1>2, <3>4, <3>5, SameTables, SameAnswers DEF FetchRow, answering
  <2> QED BY <2>4, <2>5
<1>3. CASE StoreScore(s)
  <2>1. PICK verdict \in {"RATED", "FAILED"} :
          LET new == [scoreCopy[s] EXCEPT !.scoredBy = s, !.status = verdict]
          IN  Write(scoring[s], new) \/ WriteFails(scoring[s], new)
    BY <1>3 DEF StoreScore
  <2> DEFINE row == [scoreCopy[s] EXCEPT !.scoredBy = s, !.status = verdict]
  <2>2. row \in Row /\ row.status = verdict /\ row.scoredBy = s
    <3>1. scoreCopy[s] \in Row
      BY DEF TypeOK
    <3> QED BY <3>1 DEF Row
  <2>3. scoring[s] \in Question /\ interview.status # "IN_PROGRESS"
    BY <1>3 DEF StoreScore, CopiesFit
  <2>4. questions' = [questions EXCEPT ![scoring[s]] = row] \/ UNCHANGED questions
    BY <2>1 DEF Write, WriteFails
  <2> HIDE DEF row
  <2>5. /\ ungraded' = [ungraded EXCEPT ![s] = ungraded[s] \ {scoring[s]}]
        /\ \E next \in {"fetch", "complete"} : submitPc' = [submitPc EXCEPT ![s] = next]
        /\ UNCHANGED <<interview, answering, interviewCopy, sent, scoring, scoreCopy, submitReply>>
        /\ submitPc[s] = "store"
    BY <1>3 DEF StoreScore, NextResult, Goto
  <2>6. TypeOK'
    <3>1. questions' \in [Question -> Row]
      BY <2>2, <2>3, <2>4 DEF TypeOK
    <3>2. ungraded' \in [Submission -> SUBSET Question]
      BY <2>5 DEF TypeOK
    <3>3. submitPc' \in [Submission -> {"get", "answers", "pending", "outro",
                                        "score", "fetch", "store", "complete", "done"}]
      BY <2>5 DEF TypeOK
    <3> QED BY <2>5, <3>1, <3>2, <3>3 DEF TypeOK, answering
  <2>7. CopiesFit'
    BY <2>5 DEF CopiesFit, TypeOK, answering
  <2>8. NewIsNew' /\ StatusMatchesRow'
    BY <2>2, <2>3, <2>4, NoneFacts DEF NewIsNew, StatusMatchesRow, TypeOK
  <2>9. CompletedIffResult' /\ ScoredAfterSubmit'
    BY <2>3, <2>5 DEF CompletedIffResult, ScoredAfterSubmit
  <2>10. AcceptedAnswerAccounted'
    <3>1. \A q \in Question : questions'[q] = questions[q] \/ questions'[q].scoredBy # None
      BY <2>2, <2>3, <2>4, NoneFacts DEF TypeOK
    <3>2. \A a \in Answer : asked[a] \in Question
      BY DEF TypeOK
    <3>3. UNCHANGED <<asked, answerReply>>
      BY <2>5 DEF answering
    <3> QED BY <3>1, <3>2, <3>3 DEF AcceptedAnswerAccounted
  <2> QED BY <2>6, <2>7, <2>8, <2>9, <2>10
<1>4. CASE Complete(s)
  <2> DEFINE row == [status |-> "COMPLETED", result |-> s]
  <2>1. row \in InterviewRow /\ row.status = "COMPLETED" /\ row.result # None
    BY NoneFacts DEF InterviewRow
  <2>2. /\ interview' \in {interview, row}
        /\ submitPc' = [submitPc EXCEPT ![s] = "done"] /\ UNCHANGED submitReply
        /\ UNCHANGED <<questions, answering, interviewCopy, scored>>
    BY <1>4 DEF Complete, Goto
  <2> HIDE DEF row
  <2>3. TypeOK'
    BY <2>1, <2>2 DEF TypeOK, answering, scored
  <2>4. CopiesFit'
    BY <2>1, <2>2 DEF CopiesFit, TypeOK, answering, scored
  <2>5. CompletedIffResult' /\ ScoredAfterSubmit'
    BY <2>1, <2>2 DEF CompletedIffResult, ScoredAfterSubmit
  <2>6. NewIsNew' /\ StatusMatchesRow'
    BY <2>2 DEF NewIsNew, StatusMatchesRow
  <2> QED BY <2>2, <2>3, <2>4, <2>5, <2>6, SameAnswers DEF answering
<1> QED BY <1>1, <1>2, <1>3, <1>4

-----------------------------------------------------------------------------
(* Theorems.                                                               *)

\* The invariant holds whatever the order of the requests.
THEOREM Invariant == Spec => []IInv
<1>1. ASSUME IInv, Crash PROVE IInv'
  <2>1. TypeOK'
    BY <1>1 DEF IInv, Crash, TypeOK, scored
  <2>2. CopiesFit'
    BY <1>1 DEF IInv, Crash, CopiesFit, TypeOK, scored
  <2> QED BY <1>1, <2>1, <2>2, SameTables, SameAnswers DEF IInv, Crash
<1>2. ASSUME IInv, UNCHANGED vars PROVE IInv'
  BY <1>2, SameTables, SameAnswers DEF IInv, TypeOK, CopiesFit, vars, answering, submitting, scored
<1>3. IInv /\ [Next]_vars => IInv'
  BY <1>1, <1>2, ArrivesInv, AnswerInv, HandlerInv, GoroutineInv DEF Next, SubmitStep
<1> QED BY InitInv, <1>3, PTL DEF Spec

\* Rows, copies and requests keep their types.
THEOREM TypeCorrect == Spec => []TypeOK
<1>1. IInv => TypeOK
  BY DEF IInv
<1> QED BY Invariant, <1>1, PTL

\* The interview is COMPLETED exactly when it holds the feedback of a submission.
THEOREM FeedbackCorrect == Spec => []CompletedIffResult
<1>1. IInv => CompletedIffResult
  BY DEF IInv
<1> QED BY Invariant, <1>1, PTL

\* No question is scored before the interview is submitted.
THEOREM ScoringOrder == Spec => []ScoredAfterSubmit
<1>1. IInv => ScoredAfterSubmit
  BY DEF IInv
<1> QED BY Invariant, <1>1, PTL

\* The status of a question fits its row, whichever writer came last.
THEOREM StatusCorrect == Spec => []StatusMatchesRow
<1>1. IInv => StatusMatchesRow
  BY DEF IInv
<1> QED BY Invariant, <1>1, PTL

\* An answer that was accepted is in the table, or was replaced by another
\* answer or a score.
THEOREM AnswersAccounted == Spec => []AcceptedAnswerAccounted
<1>1. IInv => AcceptedAnswerAccounted
  BY DEF IInv
<1> QED BY Invariant, <1>1, PTL

-----------------------------------------------------------------------------
(* What a completed interview covers.                                      *)

\* A question that was answered or graded never becomes new again.
Closed(q) == questions[q].status \notin {"ABSENT", "NEW"}

\* What each submission has dealt with at each of its calls.
Covers ==
    /\ \A s \in Submission : \A q \in sent[s] : questions[q].status # "ABSENT"
    /\ \A s \in Submission : submitPc[s] \in {"fetch", "store"} =>
            \A q \in sent[s] \ ungraded[s] : Closed(q)
    /\ \A s \in Submission : submitPc[s] = "complete" => \A q \in sent[s] : Closed(q)
    /\ interview.result # None =>
            /\ submitPc[interview.result] = "done"
            /\ \A q \in sent[interview.result] : Closed(q)

\* No step opens a question again or takes it out of the table.
LEMMA ClosedStays ==
    ASSUME IInv, [Next]_vars, NEW q \in Question
    PROVE  /\ Closed(q) => Closed(q)'
           /\ questions[q].status # "ABSENT" => questions'[q].status # "ABSENT"
<1>1. TypeOK /\ CopiesFit
  BY DEF IInv
<1>2. CASE UNCHANGED questions
  BY <1>2 DEF Closed
<1>3. ASSUME NEW p \in Question, QuestionArrives(p) PROVE questions'[q] = questions[q] \/
                                  (questions[q] = Absent /\ questions'[q] = New)
  BY <1>1, <1>3 DEF QuestionArrives, TypeOK
<1>4. ASSUME NEW a \in Answer, AnswerStep(a)
      PROVE  questions'[q] = questions[q] \/ questions'[q].status = "ANSWERED"
  <2>1. CASE GetQuestion(a)
    BY <2>1 DEF GetQuestion
  <2>2. CASE UpdateAnswer(a)
    <3> DEFINE row == [answerCopy[a] EXCEPT !.answer = a, !.status = "ANSWERED"]
    <3>1. row.status = "ANSWERED"
      BY <1>1, <2>2, AnsweredRow DEF UpdateAnswer, CopiesFit
    <3>2. questions' = questions \/ questions' = [questions EXCEPT ![asked[a]] = row]
      BY <2>2 DEF UpdateAnswer, Write, WriteFails
    <3> HIDE DEF row
    <3> QED BY <1>1, <3>1, <3>2 DEF TypeOK
  <2> QED BY <1>4, <2>1, <2>2 DEF AnswerStep
<1>5. ASSUME NEW s \in Submission, SubmitStep(s)
      PROVE  questions'[q] = questions[q] \/ questions'[q].status \in {"RATED", "FAILED"}
  <2>1. CASE StoreScore(s)
    <3>1. PICK verdict \in {"RATED", "FAILED"} :
            LET row == [scoreCopy[s] EXCEPT !.scoredBy = s, !.status = verdict]
            IN  Write(scoring[s], row) \/ WriteFails(scoring[s], row)
      BY <2>1 DEF StoreScore
    <3> DEFINE row == [scoreCopy[s] EXCEPT !.scoredBy = s, !.status = verdict]
    <3>2. row.status = verdict
      BY <1>1 DEF TypeOK, Row
    <3>3. questions' = questions \/ questions' = [questions EXCEPT ![scoring[s]] = row]
      BY <3>1 DEF Write, WriteFails
    <3> HIDE DEF row
    <3> QED BY <1>1, <3>2, <3>3 DEF TypeOK
  <2>2. CASE ~StoreScore(s)
    BY <1>5, <2>2 DEF SubmitStep, GetInterview, GetAnswers, SavePending, PrepareOutro, Score,
       FetchRow, Complete
  <2> QED BY <2>1, <2>2
<1>6. CASE Crash \/ UNCHANGED vars
  BY <1>2, <1>6 DEF Crash, vars
<1> QED BY <1>3, <1>4, <1>5, <1>6, NewFacts DEF Next, Closed

\* Steps of everyone else, and those of a submission before it grades, leave
\* what was dealt with alone.
LEMMA CoversKept ==
    ASSUME IInv, Covers, [Next]_vars, UNCHANGED <<sent, ungraded>>,
           interview'.result \in {interview.result, None},
           \A s \in Submission :
               \/ submitPc'[s] = submitPc[s]
               \/ submitPc[s] # "done" /\ submitPc'[s] \notin {"fetch", "store", "complete"}
               \/ submitPc'[s] = "done"
    PROVE  Covers'
<1>1. \A s \in Submission : sent[s] \in SUBSET Question
  BY DEF IInv, TypeOK
<1>2. interview.result \in Submission \cup {None}
  BY DEF IInv, TypeOK, InterviewRow
<1>3. \A s \in Submission : \A q \in sent'[s] : questions'[q].status # "ABSENT"
  BY <1>1, ClosedStays DEF Covers
<1>4. ASSUME NEW s \in Submission
      PROVE  /\ submitPc'[s] \in {"fetch", "store"} => \A q \in sent'[s] \ ungraded'[s] : Closed(q)'
             /\ submitPc'[s] = "complete" => \A q \in sent'[s] : Closed(q)'
  BY <1>1, ClosedStays DEF Covers
<1>5. interview'.result # None =>
            /\ submitPc'[interview'.result] = "done"
            /\ \A q \in sent'[interview'.result] : Closed(q)'
  BY <1>1, <1>2, ClosedStays DEF Covers
<1> QED BY <1>3, <1>4, <1>5 DEF Covers

\* What a submission does when the database works and Darius grades everything.
LEMMA CoversSubmit ==
    ASSUME IInv, Covers, Faults \cap {"db", "darius"} = {}, NEW s \in Submission, SubmitStep(s)
    PROVE  Covers'
<1>1. TypeOK /\ CopiesFit /\ CompletedIffResult
  BY DEF IInv
<1>2. [Next]_vars /\ "db" \notin Faults /\ "darius" \notin Faults
  BY DEF Next
<1>3. sent[s] \in SUBSET Question /\ ungraded[s] \in SUBSET Question /\ s # None
  BY <1>1, NoneFacts DEF TypeOK
<1>4. \A r \in Submission \ {s} :
        submitPc'[r] = submitPc[r] /\ sent'[r] = sent[r] /\ ungraded'[r] = ungraded[r]
  BY <1>1 DEF SubmitStep, GetInterview, GetAnswers, SavePending, PrepareOutro, Score, FetchRow,
     StoreScore, Complete, NextResult, Goto, ReplySubmit, TypeOK, scored
<1>5. \A r \in Submission : sent[r] \in SUBSET Question
  BY <1>1 DEF TypeOK
<1>6. submitPc[s] # "done" /\ interview.result # s
  BY <1>3 DEF SubmitStep, GetInterview, GetAnswers, SavePending, PrepareOutro, Score, FetchRow,
     StoreScore, Complete, Covers
<1>7. interview.result \in Submission \cup {None}
  BY <1>1 DEF TypeOK, InterviewRow
<1>8. CASE GetInterview(s) \/ SavePending(s) \/ PrepareOutro(s)
  <2>1. UNCHANGED <<sent, ungraded>>
    BY <1>8 DEF GetInterview, SavePending, PrepareOutro, scored
  <2>2. submitPc'[s] \in {"answers", "outro", "score", "done"}
    BY <1>1, <1>8 DEF GetInterview, SavePending, PrepareOutro, Goto, ReplySubmit, TypeOK
  <2>3. CASE SavePending(s)
    <3> DEFINE row == [interviewCopy[s] EXCEPT !.status = "PENDING"]
    <3>1. row.result = None
      BY <1>1, <2>3 DEF SavePending, CopiesFit, TypeOK, InterviewRow
    <3>2. interview' = row
      BY <1>2, <2>3 DEF SavePending
    <3> HIDE DEF row
    <3> QED BY <1>2, <1>4, <1>6, <2>1, <2>2, <3>1, <3>2, CoversKept
  <2>4. CASE ~SavePending(s)
    <3>1. interview' = interview
      BY <1>8, <2>4 DEF GetInterview, PrepareOutro
    <3> QED BY <1>2, <1>4, <1>6, <2>1, <2>2, <3>1, CoversKept
  <2> QED BY <2>3, <2>4
<1>9. CASE ~(GetInterview(s) \/ SavePending(s) \/ PrepareOutro(s))
  <2>1. \A q \in Question :
          /\ Closed(q) => Closed(q)'
          /\ questions[q].status # "ABSENT" => questions'[q].status # "ABSENT"
    BY <1>2, ClosedStays
  <2>2. sent'[s] \subseteq {q \in Question : questions[q].status # "ABSENT"}
    BY <1>1, <1>3, <1>9 DEF SubmitStep, GetAnswers, Score, FetchRow, StoreScore, Complete, Covers,
       Stored, TypeOK, scored
  <2>3. \/ /\ submitPc'[s] \in {"fetch", "store"}
           /\ \A q \in sent'[s] \ ungraded'[s] : Closed(q)'
        \/ submitPc'[s] = "complete" /\ \A q \in sent'[s] : Closed(q)'
        \/ submitPc'[s] = "pending"
        \/ submitPc'[s] = "done" /\ \A q \in sent'[s] : Closed(q)'
    <3>1. CASE GetAnswers(s)
      BY <1>1, <3>1 DEF GetAnswers, Goto, TypeOK
    <3>2. CASE Score(s)
      <4>1. /\ sent' = sent /\ ungraded' = [ungraded EXCEPT ![s] = sent[s]]
            /\ submitPc' = [submitPc EXCEPT ![s] = IF sent[s] = {} THEN "complete" ELSE "fetch"]
        BY <1>2, <3>2 DEF Score, NextResult, Goto
      <4> QED BY <1>1, <4>1 DEF TypeOK
    <3>3. CASE FetchRow(s)
      BY <1>1, <1>2, <1>3, <2>1, <3>3 DEF FetchRow, Goto, TypeOK, Covers
    <3>4. CASE StoreScore(s)
      <4>1. /\ sent' = sent /\ scoring' = scoring
            /\ submitPc[s] = "store" /\ scoring[s] \in Question
            /\ ungraded' = [ungraded EXCEPT ![s] = ungraded[s] \ {scoring[s]}]
            /\ submitPc' = [submitPc EXCEPT ![s] =
                              IF ungraded[s] \ {scoring[s]} = {} THEN "complete" ELSE "fetch"]
        BY <1>1, <3>4 DEF StoreScore, NextResult, Goto, CopiesFit
      <4>2. Closed(scoring[s])'
        <5>1. PICK verdict \in {"RATED", "FAILED"} :
                Write(scoring[s], [scoreCopy[s] EXCEPT !.scoredBy = s, !.status = verdict])
          BY <1>2, <3>4 DEF StoreScore, WriteFails
        <5> DEFINE row == [scoreCopy[s] EXCEPT !.scoredBy = s, !.status = verdict]
        <5>2. row.status = verdict /\ questions' = [questions EXCEPT ![scoring[s]] = row]
          BY <1>1, <5>1 DEF TypeOK, Row, Write
        <5> HIDE DEF row
        <5> QED BY <1>1, <4>1, <5>2 DEF Closed, TypeOK
      <4>3. \A q \in sent'[s] \ ungraded'[s] : Closed(q)'
        BY <1>1, <1>3, <2>1, <4>1, <4>2 DEF Covers, TypeOK
      <4>4. CASE ungraded[s] \ {scoring[s]} = {}
        BY <1>1, <4>1, <4>3, <4>4 DEF TypeOK
      <4>5. CASE ungraded[s] \ {scoring[s]} # {}
        BY <1>1, <4>1, <4>3, <4>5 DEF TypeOK
      <4> QED BY <4>4, <4>5
    <3>5. CASE Complete(s)
      BY <1>1, <1>3, <2>1, <3>5 DEF Complete, Goto, TypeOK, Covers, scored
    <3> QED BY <1>9, <3>1, <3>2, <3>3, <3>4, <3>5 DEF SubmitStep
  <2>4. interview' = interview \/ (interview'.result = s /\ submitPc'[s] = "done")
    <3>1. CASE Complete(s)
      <4>1. interview' = [status |-> "COMPLETED", result |-> s]
        BY <1>2, <3>1 DEF Complete
      <4>2. submitPc'[s] = "done"
        BY <1>1, <3>1 DEF Complete, Goto, TypeOK
      <4> QED BY <4>1, <4>2
    <3>2. CASE ~Complete(s)
      BY <1>9, <3>2 DEF SubmitStep, GetAnswers, Score, FetchRow, StoreScore
    <3> QED BY <3>1, <3>2
  <2>5. \A r \in Submission : \A q \in sent'[r] : questions'[q].status # "ABSENT"
    BY <1>4, <1>5, <2>1, <2>2 DEF Covers
  <2>6. \A r \in Submission :
          /\ submitPc'[r] \in {"fetch", "store"} => \A q \in sent'[r] \ ungraded'[r] : Closed(q)'
          /\ submitPc'[r] = "complete" => \A q \in sent'[r] : Closed(q)'
    BY <1>4, <1>5, <2>1, <2>3 DEF Covers
  <2>7. interview'.result # None =>
            /\ submitPc'[interview'.result] = "done"
            /\ \A q \in sent'[interview'.result] : Closed(q)'
    BY <1>3, <1>4, <1>5, <1>6, <1>7, <2>1, <2>3, <2>4 DEF Covers
  <2> QED BY <2>5, <2>6, <2>7 DEF Covers
<1> QED BY <1>8, <1>9

LEMMA CoversStep ==
    ASSUME IInv, Covers, Faults \cap {"db", "darius"} = {}, [Next]_vars
    PROVE  Covers'
<1>1. ASSUME NEW q \in Question, QuestionArrives(q) PROVE Covers'
  <2>1. UNCHANGED <<interview, submitPc, sent, ungraded>>
    BY <1>1 DEF QuestionArrives, submitting, scored
  <2> QED BY <2>1, CoversKept
<1>2. ASSUME NEW a \in Answer, AnswerStep(a) PROVE Covers'
  <2>1. UNCHANGED <<interview, submitPc, sent, ungraded>>
    BY <1>2 DEF AnswerStep, GetQuestion, UpdateAnswer, submitting, scored
  <2> QED BY <2>1, CoversKept
<1>3. ASSUME NEW s \in Submission, SubmitStep(s) PROVE Covers'
  BY <1>3, CoversSubmit
<1>4. CASE Crash
  <2>1. UNCHANGED <<interview, sent, ungraded>>
    BY <1>4 DEF Crash, scored
  <2>2. \A s \in Submission : submitPc'[s] = submitPc[s] \/ submitPc'[s] = "done"
    BY <1>4 DEF Crash
  <2> QED BY <2>1, <2>2, CoversKept
<1>5. CASE UNCHANGED vars
  <2>1. UNCHANGED <<interview, submitPc, sent, ungraded>>
    BY <1>5 DEF vars, submitting, scored
  <2> QED BY <2>1, CoversKept
<1> QED BY <1>1, <1>2, <1>3, <1>4, <1>5 DEF Next

\* When the database works and Darius grades what it is sent, a completed
\* interview has no question left NEW of those its submission read, whatever
\* answers, submissions and restarts came in between.
THEOREM CoversCorrect ==
    ASSUME Faults \cap {"db", "darius"} = {}
    PROVE  Spec => []CompletedCovers
<1>1. Init => Covers
  BY NoneFacts DEF Init, Covers
<1>2. IInv /\ Covers /\ [Next]_vars => Covers'
  BY CoversStep
<1>3. IInv /\ Covers => CompletedCovers
  BY DEF IInv, Covers, CompletedCovers, CompletedIffResult, Closed
<1> QED BY Invariant, <1>1, <1>2, <1>3, PTL DEF Spec

-----------------------------------------------------------------------------
(* Why results become available, and stay: the safety part of              *)
(* ResultsAvailable.                                                       *)

\* A submission that has saved PENDING and is still to complete.
Processing(s) == submitPc[s] \in {"outro", "score", "fetch", "store", "complete"}

\* Without faults nobody is left waiting: an interview that is PENDING is being
\* processed, although a late submission may have thrown the results of an earlier
\* one away, and a client that was sent the outro finds it completed or processed.
NobodyForgotten ==
    /\ interview.status = "PENDING" => \E s \in Submission : Processing(s)
    /\ \A s \in Submission : submitReply[s] = "outro" =>
            interview.status = "COMPLETED" \/ \E t \in Submission : Processing(t)

\* An interview whose results nobody is about to overwrite with PENDING.
Final ==
    /\ interview.status = "COMPLETED"
    /\ \A s \in Submission : submitPc[s] \notin {"answers", "pending"}

\* What the proof needs: PENDING is being processed, and who was sent the outro
\* has submitted.
OutrosFit ==
    /\ interview.status = "PENDING" => \E s \in Submission : Processing(s)
    /\ \A s \in Submission : submitReply[s] = "outro" => interview.status # "IN_PROGRESS"

\* A step that leaves interview, submissions and their replies alone.
LEMMA OutrosKept ==
    ASSUME OutrosFit, UNCHANGED <<interview, submitPc, submitReply>>
    PROVE  OutrosFit'
  BY DEF OutrosFit, Processing

\* What one step does to the interview and the reply of its submission.
LEMMA OutrosSubmit ==
    ASSUME IInv, OutrosFit, Faults = {}, NEW s \in Submission, SubmitStep(s)
    PROVE  OutrosFit'
<1>1. TypeOK /\ CopiesFit
  BY DEF IInv
<1>2. \A r \in Submission \ {s} : submitPc'[r] = submitPc[r] /\ submitReply'[r] = submitReply[r]
  BY <1>1 DEF SubmitStep, GetInterview, GetAnswers, SavePending, PrepareOutro, Score, FetchRow,
     StoreScore, Complete, NextResult, Goto, ReplySubmit, TypeOK
<1>3. CASE GetInterview(s) \/ GetAnswers(s)
  <2>1. interview' = interview /\ ~Processing(s)
    BY <1>3 DEF GetInterview, GetAnswers, Processing
  <2>2. submitReply'[s] \in {submitReply[s], "error"}
    BY <1>1, <1>3 DEF GetInterview, GetAnswers, Goto, ReplySubmit, TypeOK
  <2> QED BY <1>2, <2>1, <2>2 DEF OutrosFit, Processing
<1>4. CASE SavePending(s)
  <2> DEFINE row == [interviewCopy[s] EXCEPT !.status = "PENDING"]
  <2>1. row.status = "PENDING"
    BY <1>1 DEF TypeOK, InterviewRow
  <2>2. interview' = row /\ submitPc' = [submitPc EXCEPT ![s] = "outro"] /\ UNCHANGED submitReply
    BY <1>4 DEF SavePending, Goto
  <2> HIDE DEF row
  <2>3. Processing(s)'
    BY <1>1, <2>2 DEF TypeOK, Processing
  <2> QED BY <2>1, <2>2, <2>3 DEF OutrosFit
<1>5. CASE PrepareOutro(s) \/ Score(s) \/ FetchRow(s) \/ StoreScore(s)
  <2>1. interview' = interview /\ interview.status # "IN_PROGRESS"
    BY <1>1, <1>5 DEF PrepareOutro, Score, FetchRow, StoreScore, CopiesFit
  <2>2. Processing(s)'
    BY <1>1, <1>5 DEF PrepareOutro, Score, FetchRow, StoreScore, NextResult, Goto, ReplySubmit,
       TypeOK, Processing
  <2> QED BY <2>1, <2>2 DEF OutrosFit
<1>6. CASE Complete(s)
  <2>1. interview'.status = "COMPLETED"
    BY <1>6 DEF Complete
  <2> QED BY <2>1 DEF OutrosFit
<1> QED BY <1>3, <1>4, <1>5, <1>6 DEF SubmitStep

LEMMA OutrosStep == ASSUME IInv, OutrosFit, Faults = {}, [Next]_vars PROVE OutrosFit'
<1>1. ASSUME NEW q \in Question, QuestionArrives(q) PROVE OutrosFit'
  BY <1>1, OutrosKept DEF QuestionArrives, submitting
<1>2. ASSUME NEW a \in Answer, AnswerStep(a) PROVE OutrosFit'
  BY <1>2, OutrosKept DEF AnswerStep, GetQuestion, UpdateAnswer, submitting
<1>3. CASE UNCHANGED vars
  BY <1>3, OutrosKept DEF vars, submitting
<1> QED BY <1>1, <1>2, <1>3, OutrosSubmit DEF Next, Crash

\* Without faults an interview that was submitted is processed until it is
\* completed, for any number of submissions at once.
THEOREM OutrosCorrect == ASSUME Faults = {} PROVE Spec => []NobodyForgotten
<1>1. Init => OutrosFit
  BY DEF Init, OutrosFit
<1>2. IInv /\ OutrosFit /\ [Next]_vars => OutrosFit'
  BY OutrosStep
<1>3. IInv /\ OutrosFit => NobodyForgotten
  BY DEF IInv, TypeOK, InterviewRow, OutrosFit, NobodyForgotten
<1> QED BY Invariant, <1>1, <1>2, <1>3, PTL DEF Spec

\* A submission that comes after the interview was completed is refused.
LEMMA FinalStep == ASSUME IInv, Final, [Next]_vars PROVE Final'
<1>1. TypeOK
  BY DEF IInv
<1>2. CASE UNCHANGED <<interview, submitPc>>
  BY <1>2 DEF Final
<1>3. ASSUME NEW s \in Submission, SubmitStep(s) PROVE Final'
  <2>1. submitPc[s] \notin {"answers", "pending"}
    BY DEF Final
  <2>2. interview' = interview \/ interview'.status = "COMPLETED"
    BY <1>3, <2>1 DEF SubmitStep, GetInterview, GetAnswers, SavePending, PrepareOutro, Score,
       FetchRow, StoreScore, Complete
  <2>3. submitPc'[s] \notin {"answers", "pending"}
    BY <1>1, <1>3, <2>1 DEF SubmitStep, GetInterview, GetAnswers, SavePending, PrepareOutro, Score,
       FetchRow, StoreScore, Complete, NextResult, Goto, ReplySubmit, TypeOK, Final
  <2>4. \A r \in Submission \ {s} : submitPc'[r] = submitPc[r]
    BY <1>1, <1>3 DEF SubmitStep, GetInterview, GetAnswers, SavePending, PrepareOutro, Score,
       FetchRow, StoreScore, Complete, NextResult, Goto, ReplySubmit, TypeOK
  <2> QED BY <2>2, <2>3, <2>4 DEF Final
<1>4. CASE Crash
  BY <1>4 DEF Crash, Final
<1>5. ASSUME NEW q \in Question, QuestionArrives(q) PROVE UNCHANGED <<interview, submitPc>>
  BY <1>5 DEF QuestionArrives, submitting
<1>6. ASSUME NEW a \in Answer, AnswerStep(a) PROVE UNCHANGED <<interview, submitPc>>
  BY <1>6 DEF AnswerStep, GetQuestion, UpdateAnswer, submitting
<1>7. UNCHANGED vars => UNCHANGED <<interview, submitPc>>
  BY DEF vars, submitting
<1> QED BY <1>2, <1>3, <1>4, <1>5, <1>6, <1>7 DEF Next

\* Whatever fails, a completed interview stays completed once no submission that
\* had read it before is still to save PENDING: CompletedFinal holds from there on.
THEOREM FinalCorrect == Spec => [][Final => Final']_vars
<1>1. IInv /\ [Next]_vars => [Final => Final']_vars
  BY FinalStep
<1> QED BY Invariant, <1>1, PTL DEF Spec
=============================================================================
