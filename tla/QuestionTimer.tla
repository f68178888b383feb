--------------------------- MODULE QuestionTimer ---------------------------
(***************************************************************************)
(* The timers of questions (internal/features/timer.go), their callers and *)
(* what a timeout does to the row of its question (helper.go).             *)
(*                                                                         *)
(* Three requests use the manager: one for a question starts its timer,    *)
(* an answer cancels it, the submission of the interview cancels all of    *)
(* them.  (The three calls are commented out in irelia.go; the manager is  *)
(* modelled as they use it.)  A timer is named by the request that started *)
(* it.  It expires at any time: only the order of events matters.          *)
(***************************************************************************)
EXTENDS Naturals

CONSTANTS
    Request,   \* requests about one interview
    Question,  \* its questions, the keys of the map
    Plans,     \* what the requests may be: functions from Request to Kind
    None

Kind == {"ask", "answer", "submit"}

ASSUME TimerAssumption ==
    /\ Plans \subseteq [Request -> Kind]
    /\ None \notin Request \cup Question

VARIABLES
    overlapping, \* whether the client makes requests at the same time
    late,        \* whether a cancelled timer may take longer than the 100 ms wait
    request,     \* how far each request has come
    kind,        \* what it is
    about,       \* its question
    victim,      \* the timer it has cancelled and waits for
    unvisited,   \* the questions cleanupInterviewTimers has yet to come to
    timers,      \* the map: the timer of each question, or None
    timer,       \* the goroutine of each timer
    cancelled,   \* the timers whose context is cancelled
    visited,     \* the questions shutdown has come to
    row,         \* the status of each question in the database
    submission,  \* the goroutine of handleTimeoutSubmission of each timer
    tooLate      \* observer: answers whose timer had fired before they cancelled it

modes    == <<overlapping, late>>
requests == <<request, kind, about, victim, unvisited, tooLate>>
manager  == <<timers, timer, cancelled, visited>>
rows     == <<row, submission>>
vars     == <<modes, requests, manager, rows>>

RequestState == {"new", "cancel", "wait", "store", "read", "write", "saved", "ended"}
TimerState   == {"none", "armed", "expired", "notify", "spawn", "delete", "done"}

Running(t) == timer[t] \notin {"none", "done"}
Busy(r)    == request[r] \notin {"new", "saved", "ended"}

Init ==
    /\ overlapping \in BOOLEAN
    /\ late \in BOOLEAN
    /\ request = [r \in Request |-> "new"]
    /\ kind \in Plans
    /\ about = [r \in Request |-> None]
    /\ victim = [r \in Request |-> None]
    /\ unvisited = [r \in Request |-> {}]
    /\ timers = [q \in Question |-> None]
    /\ timer = [r \in Request |-> "none"]
    /\ cancelled = {}
    /\ visited = {}
    /\ row = [q \in Question |-> "new"]
    /\ submission = [r \in Request |-> "none"]
    /\ tooLate = {}

-----------------------------------------------------------------------------
(* Requests.                                                               *)

Goto(r, next) == request' = [request EXCEPT ![r] = next]

\* What a request does once cancelTimer has returned.
AfterCancel(r) ==
    CASE kind[r] = "ask" -> "store"
      [] kind[r] = "answer" -> "read"
      [] kind[r] = "submit" -> IF unvisited[r] = {} THEN "ended" ELSE "cancel"

Begin(r) ==
    /\ request[r] = "new"
    /\ overlapping \/ ~ \E s \in Request : Busy(s)
    /\ \/ /\ kind[r] # "submit"
          /\ \E q \in Question : about' = [about EXCEPT ![r] = q]
          /\ UNCHANGED unvisited
       \/ /\ kind[r] = "submit"
          /\ unvisited' = [unvisited EXCEPT ![r] = Question]
          /\ UNCHANGED about
    /\ Goto(r, "cancel")
    /\ UNCHANGED <<modes, kind, victim, tooLate, manager, rows>>

\* Range of cleanupInterviewTimers comes to a question.
Visit(r) ==
    /\ request[r] = "cancel"
    /\ kind[r] = "submit"
    /\ about[r] = None
    /\ \E q \in unvisited[r] :
        /\ about' = [about EXCEPT ![r] = q]
        /\ unvisited' = [unvisited EXCEPT ![r] = @ \ {q}]
    /\ UNCHANGED <<modes, request, kind, victim, tooLate, manager, rows>>

\* A timer of the question that no cancellation can stop any more.
Fired(q) ==
    \E t \in Request :
        /\ about[t] = q
        /\ timer[t] \in {"notify", "spawn", "delete"} \/ submission[t] \in {"read", "write"}

NextVisit(r) == IF kind[r] = "submit" THEN [about EXCEPT ![r] = None] ELSE about

\* cancelTimer: LoadAndDelete, then CancelFunc.
Cancel(r) ==
    LET t == timers[about[r]]
    IN  /\ request[r] = "cancel"
        /\ about[r] # None
        /\ tooLate' = IF Fired(about[r]) THEN tooLate \cup {r} ELSE tooLate
        /\ \/ /\ t = None
              /\ Goto(r, AfterCancel(r))
              /\ about' = NextVisit(r)
              /\ UNCHANGED <<victim, manager>>
           \/ /\ t # None
              /\ timers' = [timers EXCEPT ![about[r]] = None]
              /\ cancelled' = cancelled \cup {t}
              /\ victim' = [victim EXCEPT ![r] = t]
              /\ Goto(r, "wait")
              /\ UNCHANGED <<about, timer, visited>>
        /\ UNCHANGED <<modes, kind, unvisited, rows>>

\* Mutant: cancelTimer returns without waiting.
WaitNever(r) ==
    /\ request[r] = "wait"
    /\ victim' = [victim EXCEPT ![r] = None]
    /\ about' = NextVisit(r)
    /\ Goto(r, AfterCancel(r))
    /\ UNCHANGED <<modes, kind, unvisited, tooLate, manager, rows>>

\* Its wait: for the goroutine to end, but no longer than 100 ms.
Wait(r) ==
    /\ request[r] = "wait"
    /\ timer[victim[r]] = "done" \/ late
    /\ victim' = [victim EXCEPT ![r] = None]
    /\ about' = NextVisit(r)
    /\ Goto(r, AfterCancel(r))
    /\ UNCHANGED <<modes, kind, unvisited, tooLate, manager, rows>>

\* The rest of startTimer.
Store(r) ==
    /\ request[r] = "store"
    /\ timers' = [timers EXCEPT ![about[r]] = r]
    /\ timer' = [timer EXCEPT ![r] = "armed"]
    /\ Goto(r, "ended")
    /\ UNCHANGED <<modes, kind, about, victim, unvisited, tooLate, cancelled, visited, rows>>

\* SubmitAnswer reads the question: an error, a question that is not new and an
\* empty answer end it.
ReadAnswer(r) ==
    /\ request[r] = "read"
    /\ \/ row[about[r]] = "new" /\ Goto(r, "write")
       \/ Goto(r, "ended")
    /\ UNCHANGED <<modes, kind, about, victim, unvisited, tooLate, manager, rows>>

\* It writes the row it has read, or fails to.
WriteAnswer(r) ==
    /\ request[r] = "write"
    /\ \/ /\ row' = [row EXCEPT ![about[r]] = "answered"]
          /\ Goto(r, "saved")
       \/ Goto(r, "ended") /\ UNCHANGED row
    /\ UNCHANGED <<modes, kind, about, victim, unvisited, tooLate, manager, submission>>

RequestStep(r) ==
    \/ Visit(r) \/ Cancel(r) \/ Wait(r) \/ Store(r) \/ ReadAnswer(r) \/ WriteAnswer(r)

-----------------------------------------------------------------------------
(* Timers.                                                                 *)

Enter(t, next) == timer' = [timer EXCEPT ![t] = next]

\* The select of runTimer takes the case of the timeout ...
Expire(t) ==
    /\ timer[t] = "armed"
    /\ Enter(t, "expired")
    /\ UNCHANGED <<modes, requests, timers, cancelled, visited, rows>>

\* ... or that of the context.
Stop(t) ==
    /\ timer[t] = "armed"
    /\ t \in cancelled
    /\ Enter(t, "done")
    /\ UNCHANGED <<modes, requests, timers, cancelled, visited, rows>>

\* Mutant: the timer does not look whether it is still there.
LookNever(t) ==
    /\ timer[t] = "expired"
    /\ Enter(t, "notify")
    /\ UNCHANGED <<modes, requests, timers, cancelled, visited, rows>>

\* An expired timer looks for the question, not for itself.
Look(t) ==
    /\ timer[t] = "expired"
    /\ Enter(t, IF timers[about[t]] = None THEN "done" ELSE "notify")
    /\ UNCHANGED <<modes, requests, timers, cancelled, visited, rows>>

\* sendTimeoutNotification has returned; EventStreams has what it does.
Notify(t) ==
    /\ timer[t] = "notify"
    /\ Enter(t, "spawn")
    /\ UNCHANGED <<modes, requests, timers, cancelled, visited, rows>>

\* Mutant: the timeout is announced, but not submitted.
SpawnNever(t) ==
    /\ timer[t] = "spawn"
    /\ Enter(t, "delete")
    /\ UNCHANGED <<modes, requests, timers, cancelled, visited, rows>>

\* handleQuestionTimeout starts handleTimeoutSubmission and returns.
Spawn(t) ==
    /\ timer[t] = "spawn"
    /\ Enter(t, "delete")
    /\ submission' = [submission EXCEPT ![t] = "read"]
    /\ UNCHANGED <<modes, requests, timers, cancelled, visited, row>>

\* Mutant: the entry of a timer that fired is left to the next request.
DeleteNever(t) ==
    /\ timer[t] = "delete"
    /\ Enter(t, "done")
    /\ UNCHANGED <<modes, requests, timers, cancelled, visited, rows>>

\* runTimer deletes what the map has for the question.
Delete(t) ==
    /\ timer[t] = "delete"
    /\ timers' = [timers EXCEPT ![about[t]] = None]
    /\ Enter(t, "done")
    /\ UNCHANGED <<modes, requests, cancelled, visited, rows>>

\* shutdown comes to a question: its timer is cancelled, its entry stays.
Shutdown(q) ==
    /\ q \notin visited
    /\ visited' = visited \cup {q}
    /\ cancelled' = cancelled \cup ({timers[q]} \ {None})
    /\ UNCHANGED <<modes, requests, timers, timer, rows>>

\* handleTimeoutSubmission reads the question; only a new one is written.
ReadTimeout(t) ==
    /\ submission[t] = "read"
    /\ \/ row[about[t]] = "new" /\ submission' = [submission EXCEPT ![t] = "write"]
       \/ row[about[t]] # "new" /\ submission' = [submission EXCEPT ![t] = "done"]
       \/ submission' = [submission EXCEPT ![t] = "failed"]
    /\ UNCHANGED <<modes, requests, manager, row>>

WriteTimeout(t) ==
    /\ submission[t] = "write"
    /\ \/ /\ row' = [row EXCEPT ![about[t]] = "skipped"]
          /\ submission' = [submission EXCEPT ![t] = "done"]
       \/ submission' = [submission EXCEPT ![t] = "failed"] /\ UNCHANGED row
    /\ UNCHANGED <<modes, requests, manager>>

TimerStep(t) ==
    \/ Expire(t) \/ Stop(t) \/ Look(t) \/ Notify(t) \/ Spawn(t) \/ Delete(t)
    \/ ReadTimeout(t) \/ WriteTimeout(t)

-----------------------------------------------------------------------------
Next ==
    \/ \E r \in Request : Begin(r) \/ RequestStep(r) \/ TimerStep(r)
    \/ \E q \in Question : Shutdown(q)

Spec == Init /\ [][Next]_vars

\* A request that has begun goes on, time passes, goroutines are scheduled.  No
\* request is forced to come.
Fairness ==
    \A r \in Request : WF_vars(RequestStep(r)) /\ WF_vars(TimerStep(r))

FairSpec == Spec /\ Fairness

-----------------------------------------------------------------------------
(* Properties.                                                             *)

\* Every variable has its type.
TypeOK ==
    /\ overlapping \in BOOLEAN /\ late \in BOOLEAN
    /\ request \in [Request -> RequestState]
    /\ kind \in Plans
    /\ about \in [Request -> Question \cup {None}]
    /\ victim \in [Request -> Request \cup {None}]
    /\ unvisited \in [Request -> SUBSET Question]
    /\ timers \in [Question -> Request \cup {None}]
    /\ timer \in [Request -> TimerState]
    /\ cancelled \in SUBSET Request
    /\ visited \in SUBSET Question
    /\ row \in [Question -> {"new", "answered", "skipped"}]
    /\ submission \in [Request -> {"none", "read", "write", "done", "failed"}]
    /\ tooLate \in SUBSET Request

\* Whatever overlaps, the map never keeps a timer whose goroutine has ended,
\* unless shutdown cancelled it: there would be no timeout for that question, and
\* getRemainingTime would count down to nothing.
EntryRuns ==
    \A q \in Question :
        timers[q] # None /\ q \notin visited =>
            timer[timers[q]] \notin {"none", "done"} /\ about[timers[q]] = q

\* A client that waits for its answers, and goroutines that end within the 100 ms
\* of cancelTimer, never have two timers for a question: the one that fires is
\* the one that was started last.
OneTimer ==
    ~overlapping /\ ~late =>
        \A t, u \in Request : Running(t) /\ Running(u) /\ about[t] = about[u] => t = u

\* Nor does a client that waits for its answers lose one to a timeout that was
\* cancelled in time, however late the goroutine notices: an answer that was
\* accepted is overwritten with SKIPPED only if a timer had fired before the answer
\* came to cancel it.
CancelProtects ==
    ~overlapping =>
        \A r \in Request :
            request[r] = "saved" /\ row[about[r]] = "skipped" => r \in tooLate

\* A question whose timer was started is closed, or a timer of it was cancelled
\* (by an answer, say), or the database failed: a timer that finds its entry gone
\* and keeps silent leaves the question to another one that has fired.
TimedOut ==
    \A t \in Request, q \in Question :
        timer[t] = "armed" /\ about[t] = q ~>
            \/ row[q] # "new"
            \/ \E u \in Request :
                about[u] = q /\ (u \in cancelled \/ submission[u] = "failed")
=============================================================================
