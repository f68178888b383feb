---------------------------- MODULE InterviewFlow ----------------------------
(***************************************************************************)
(* Interviews from the first question to the last                          *)
(* (internal/features/irelia.go): StartInterview and GetNextQuestion,      *)
(* together with the worker pool and the preparation of questions that     *)
(* they feed.                                                              *)
(*                                                                         *)
(* Requests of any clients run side by side.  One starts an interview; once*)
(* its name is known, requests ask for its questions in any order, several *)
(* at a time and as often as they like: the code refuses only an index     *)
(* beyond the last question.  A client that is told "loading" polls again, *)
(* or gives up.  A handler reads the question, reads the preparation flag, *)
(* restarts the pool if it is empty and offers a job, in separate steps.   *)
(* Pool and preparation appear here as far as the handlers can tell:       *)
(* QuestionWorkerPool has the counters and timers of a worker, and         *)
(* QuestionPreparation every call of a run.                                *)
(***************************************************************************)
EXTENDS Integers, Sequences, FiniteSets

CONSTANTS
    Interview,
    Request,         \* the requests that may run at the same time
    Worker,          \* the goroutines of the pool
    FirstIndex,      \* the smallest index that clients ask for
    TotalQuestions,  \* the same for every interview
    MaxBatch,        \* the most texts Darius returns at once
    QueueCapacity,   \* worker.size * worker.max_tasks_per_worker
    MaxAsks,         \* how many times a client begins to ask for a question
    MaxFaults,       \* how many calls fail, restarts included
    NoJob

ASSUME FlowAssumption ==
    /\ FirstIndex \in Int /\ FirstIndex <= 1
    /\ TotalQuestions \in Nat \ {0}
    /\ MaxBatch \in Nat \ {0}
    /\ QueueCapacity \in Nat \ {0}
    /\ MaxAsks \in Nat
    /\ MaxFaults \in Nat
    /\ NoJob \notin Interview \X Int

VARIABLES
    interview,  \* "open" once a client knows the name of the interview
    handler,    \* where each request is; "away" between two polls, "idle" without one
    asking,     \* the question it is about
    reply,      \* what it will answer: the name of the interview, or a question
    asked,      \* observer: the questions that were asked for, and question 1
    asks,       \* how many times a client began to ask for one
    stored,     \* rows of the table questions, per interview
    unsaved,    \* observer: texts that the loop of a run passed over
    preparing,  \* preparationStatus: the slots that are flagged
    jobQueue,   \* the channel of the pool
    worker,     \* the phase of each goroutine; "off" when it has left
    task,       \* its job
    todo,       \* the indices of the texts it has yet to store
    faults      \* how many faults there were

requests == <<handler, asking, reply>>
clients  == <<interview, asked, asks>>
rows     == <<stored, unsaved>>
workers  == <<worker, task, todo>>
vars     == <<requests, clients, rows, preparing, jobQueue, workers, faults>>

Question == FirstIndex .. TotalQuestions

\* StartInterview asks for index 2 whatever the total is.
JobIndex == Question \cup {2}
Slot     == Interview \X JobIndex

HandlerState == {"idle", "intro", "away", "flag", "ensure", "offer"}
Phase == {"off", "idle", "claim", "exists", "generate", "store", "release"}

Fault == faults < MaxFaults /\ faults' = faults + 1

-----------------------------------------------------------------------------
Init ==
    /\ interview = [c \in Interview |-> "new"]
    /\ handler = [r \in Request |-> "idle"]
    /\ asking = [r \in Request |-> NoJob]
    /\ reply = [r \in Request |-> "loading"]
    /\ asked = [c \in Interview |-> {1}]
    /\ asks = 0
    /\ stored = [c \in Interview |-> {}]
    /\ unsaved = [c \in Interview |-> {}]
    /\ preparing = {}
    /\ jobQueue = <<>>
    /\ worker = [g \in Worker |-> "idle"]
    /\ task = [g \in Worker |-> NoJob]
    /\ todo = [g \in Worker |-> {}]
    /\ faults = 0

-----------------------------------------------------------------------------
(* Requests.                                                               *)

Goto(r, next) == handler' = [handler EXCEPT ![r] = next]

\* The answer, or an error, after which the client does not ask again.
Return(r) ==
    /\ Goto(r, "idle")
    /\ asking' = [asking EXCEPT ![r] = NoJob]
    /\ reply' = [reply EXCEPT ![r] = "loading"]

\* StartInterview up to the row of the interview.
CreateInterview(r, c) ==
    /\ handler[r] = "idle"
    /\ interview[c] = "new"
    /\ interview' = [interview EXCEPT ![c] = "started"]
    /\ \/ /\ Goto(r, "intro")
          /\ asking' = [asking EXCEPT ![r] = <<c, 1>>]
          /\ reply' = [reply EXCEPT ![r] = "id"]
          /\ UNCHANGED faults
       \/ Fault /\ UNCHANGED requests
    /\ UNCHANGED <<asked, asks, rows, preparing, jobQueue, workers>>

\* StartInterview prepares question 1 itself.  If the look-up fails the client
\* gets an error; if lip sync or insert fail it does not, and the text is lost.
PrepareIntro(r) ==
    LET c == asking[r][1]
    IN  /\ handler[r] = "intro"
        /\ \/ /\ stored' = [stored EXCEPT ![c] = @ \cup {1}]
              /\ Goto(r, "ensure")
              /\ UNCHANGED <<asking, reply, unsaved, faults>>
           \/ /\ Fault
              /\ unsaved' = [unsaved EXCEPT ![c] = @ \cup {1}]
              /\ Goto(r, "ensure")
              /\ UNCHANGED <<asking, reply, stored>>
           \/ Fault /\ Return(r) /\ UNCHANGED rows
        /\ UNCHANGED <<clients, preparing, jobQueue, workers>>

\* A client asks for a question of an interview it knows of.
Ask(r, c, i) ==
    /\ handler[r] = "idle"
    /\ interview[c] = "open"
    /\ asks < MaxAsks
    /\ asks' = asks + 1
    /\ Goto(r, "away")
    /\ asking' = [asking EXCEPT ![r] = <<c, i>>]
    /\ UNCHANGED <<reply, interview, asked, rows, preparing, jobQueue, workers, faults>>

\* ... and polls for it no longer.
Abandon(r) ==
    /\ handler[r] = "away"
    /\ Return(r)
    /\ UNCHANGED <<clients, rows, preparing, jobQueue, workers, faults>>

\* GetNextQuestion reads the question.  An error of that read is taken for a
\* missing question; an error of the read of the interview ends the request.
Lookup(r) ==
    LET c == asking[r][1]
        i == asking[r][2]
    IN  /\ handler[r] = "away"
        /\ \/ /\ i \in stored[c]
              /\ \/ i = TotalQuestions /\ Return(r)
                 \/ /\ i < TotalQuestions
                    /\ reply' = [reply EXCEPT ![r] = "question"]
                    /\ Goto(r, "ensure")
                    /\ UNCHANGED asking
              /\ UNCHANGED faults
           \/ /\ \/ i \notin stored[c] /\ UNCHANGED faults
                 \/ Fault
              /\ Goto(r, "flag")
              /\ UNCHANGED <<asking, reply>>
           \/ Fault /\ UNCHANGED requests
        /\ asked' = [asked EXCEPT ![c] = @ \cup {i}]
        /\ UNCHANGED <<interview, asks, rows, preparing, jobQueue, workers>>

\* A job is offered only if the slot is not flagged; either way the answer will
\* be "loading".
ReadFlag(r) ==
    /\ handler[r] = "flag"
    /\ Goto(r, IF asking[r] \in preparing THEN "away" ELSE "ensure")
    /\ UNCHANGED <<asking, reply, clients, rows, preparing, jobQueue, workers, faults>>

\* Mutant: GetNextQuestion relies on the pool that StartInterview started.
EnsurePoolNever(r) ==
    /\ handler[r] = "ensure"
    /\ Goto(r, "offer")
    /\ UNCHANGED <<asking, reply, clients, rows, preparing, jobQueue, workers, faults>>

\* ensureQuestionWorkerPool.
EnsurePool(r) ==
    /\ handler[r] = "ensure"
    /\ worker' = IF \A g \in Worker : worker[g] = "off"
                 THEN [g \in Worker |-> "idle"] ELSE worker
    /\ Goto(r, "offer")
    /\ UNCHANGED <<asking, reply, clients, rows, preparing, jobQueue, task, todo, faults>>

\* Mutant: GetNextQuestion always prepares ahead.
JobAlwaysNext(r) == <<asking[r][1], asking[r][2] + 1>>

\* The job: for the question that is missing, or for the one after it if the answer
\* is a question or a new interview, which has its first.
Job(r) == <<asking[r][1], IF reply[r] = "loading" THEN asking[r][2] ELSE asking[r][2] + 1>>

\* EnqueueJob, which drops the job when the channel is full, then the answer to
\* the client.
Offer(r) ==
    /\ handler[r] = "offer"
    /\ \/ /\ Len(jobQueue) < QueueCapacity
          /\ jobQueue' = Append(jobQueue, Job(r))
       \/ Len(jobQueue) >= QueueCapacity /\ UNCHANGED jobQueue
    /\ IF reply[r] = "loading" THEN Goto(r, "away") /\ UNCHANGED <<asking, reply>> ELSE Return(r)
    /\ interview' = IF reply[r] = "id" THEN [interview EXCEPT ![asking[r][1]] = "open"] ELSE interview
    /\ UNCHANGED <<asked, asks, rows, preparing, workers, faults>>

Handle(r) == PrepareIntro(r) \/ Lookup(r) \/ ReadFlag(r) \/ EnsurePool(r) \/ Offer(r)

-----------------------------------------------------------------------------
(* Workers.                                                                *)

Enter(g, phase) == worker' = [worker EXCEPT ![g] = phase]

Finish(g) ==
    /\ Enter(g, "idle")
    /\ task' = [task EXCEPT ![g] = NoJob]

\* The receive case of the select in worker.
TakeJob(g) ==
    /\ worker[g] = "idle"
    /\ jobQueue # <<>>
    /\ task' = [task EXCEPT ![g] = Head(jobQueue)]
    /\ jobQueue' = Tail(jobQueue)
    /\ Enter(g, "claim")
    /\ UNCHANGED <<requests, clients, rows, preparing, todo, faults>>

\* The idle timer has fired, and the select has preferred it to a job, if any.
IdleExit(g) ==
    /\ worker[g] = "idle"
    /\ Enter(g, "off")
    /\ UNCHANGED <<requests, clients, rows, preparing, jobQueue, task, todo, faults>>

\* prepareQuestionSafe up to the unlock.
Claim(g) ==
    /\ worker[g] = "claim"
    /\ \/ /\ task[g] \in preparing
          /\ Finish(g)
          /\ UNCHANGED preparing
       \/ /\ task[g] \notin preparing
          /\ preparing' = preparing \cup {task[g]}
          /\ Enter(g, "exists")
          /\ UNCHANGED task
    /\ UNCHANGED <<requests, clients, rows, jobQueue, todo, faults>>

\* The first call of prepareQuestion.
CheckExists(g) ==
    /\ worker[g] = "exists"
    /\ \/ task[g][2] \in stored[task[g][1]] /\ Enter(g, "release") /\ UNCHANGED faults
       \/ task[g][2] \notin stored[task[g][1]] /\ Enter(g, "generate") /\ UNCHANGED faults
       \/ Fault /\ Enter(g, "release")
    /\ UNCHANGED <<requests, clients, rows, preparing, jobQueue, task, todo>>

\* Mutant: the texts are numbered from the index after the job's.
GenerateOffByOne(g) ==
    /\ worker[g] = "generate"
    /\ \/ \E n \in 1 .. MaxBatch :
            LET kept == {i \in task[g][2] + 1 .. task[g][2] + n : i <= TotalQuestions}
            IN  /\ todo' = [todo EXCEPT ![g] = kept]
                /\ Enter(g, IF kept = {} THEN "release" ELSE "store")
                /\ UNCHANGED faults
       \/ Fault /\ Enter(g, "release") /\ UNCHANGED todo
    /\ UNCHANGED <<requests, clients, rows, preparing, jobQueue, task>>

\* The reads for Darius and its answer; texts beyond the last question are cut.
Generate(g) ==
    /\ worker[g] = "generate"
    /\ \/ \E n \in 1 .. MaxBatch :
            LET kept == {i \in task[g][2] .. task[g][2] + n - 1 : i <= TotalQuestions}
            IN  /\ todo' = [todo EXCEPT ![g] = kept]
                /\ Enter(g, IF kept = {} THEN "release" ELSE "store")
                /\ UNCHANGED faults
       \/ Fault /\ Enter(g, "release") /\ UNCHANGED todo
    /\ UNCHANGED <<requests, clients, rows, preparing, jobQueue, task>>

\* One turn of the loop over the texts, in the order of their indices: lip sync
\* and insert, or a failure of either, after which the loop goes on.
Store(g) ==
    /\ worker[g] = "store"
    /\ \E i \in todo[g] :
        LET c == task[g][1]
        IN  /\ \A k \in todo[g] : i <= k
            /\ \/ /\ stored' = [stored EXCEPT ![c] = @ \cup {i}]
                  /\ UNCHANGED <<unsaved, faults>>
               \/ /\ Fault
                  /\ unsaved' = [unsaved EXCEPT ![c] = @ \cup {i}]
                  /\ UNCHANGED stored
            /\ todo' = [todo EXCEPT ![g] = @ \ {i}]
            /\ Enter(g, IF todo[g] = {i} THEN "release" ELSE "store")
    /\ UNCHANGED <<requests, clients, preparing, jobQueue, task>>

\* The deferred cleanup of prepareQuestionSafe.
Release(g) ==
    /\ worker[g] = "release"
    /\ preparing' = preparing \ {task[g]}
    /\ Finish(g)
    /\ UNCHANGED <<requests, clients, rows, jobQueue, todo, faults>>

Run(g) == Claim(g) \/ CheckExists(g) \/ Generate(g) \/ Store(g) \/ Release(g)

\* The process restarts: rows stay, requests fail, the pool is new.  An interview
\* whose name was not told cannot go on, and who asked for a question asks again.
Crash ==
    /\ Fault
    /\ handler' = [r \in Request |-> IF handler[r] = "idle" \/ reply[r] = "id" THEN "idle" ELSE "away"]
    /\ asking' = [r \in Request |-> IF reply[r] = "id" THEN NoJob ELSE asking[r]]
    /\ reply' = [r \in Request |-> "loading"]
    /\ preparing' = {}
    /\ jobQueue' = <<>>
    /\ worker' = [g \in Worker |-> "idle"]
    /\ task' = [g \in Worker |-> NoJob]
    /\ todo' = [g \in Worker |-> {}]
    /\ UNCHANGED <<clients, rows>>

-----------------------------------------------------------------------------
Next ==
    \/ \E r \in Request :
        \/ \E c \in Interview : CreateInterview(r, c) \/ \E i \in Question : Ask(r, c, i)
        \/ Abandon(r) \/ Handle(r)
    \/ \E g \in Worker : TakeJob(g) \/ IdleExit(g) \/ Run(g)
    \/ Crash

Spec == Init /\ [][Next]_vars

\* A client polls again unless it gives up; requests and runs are scheduled and come
\* to an end, as long as Darius answers; and the select of a worker, which picks
\* among ready cases at random, does not prefer the idle timer to a waiting job for
\* ever.  Nobody has to start an interview or to ask for a question.
Fairness ==
    /\ \A r \in Request : WF_vars(Handle(r))
    /\ \A g \in Worker : WF_vars(Run(g)) /\ SF_vars(TakeJob(g))

FairSpec == Spec /\ Fairness

-----------------------------------------------------------------------------
(* Properties.                                                             *)

\* Every variable has its type; no job, whoever offered it, is for an index that
\* is out of range, but for the one of StartInterview.
TypeOK ==
    /\ interview \in [Interview -> {"new", "started", "open"}]
    /\ handler \in [Request -> HandlerState]
    /\ asking \in [Request -> (Interview \X Question) \cup {NoJob}]
    /\ reply \in [Request -> {"id", "loading", "question"}]
    /\ asked \in [Interview -> SUBSET Question]
    /\ asks \in 0 .. MaxAsks
    /\ stored \in [Interview -> SUBSET Question]
    /\ unsaved \in [Interview -> SUBSET Question]
    /\ preparing \subseteq Slot
    /\ jobQueue \in Seq(Slot) /\ Len(jobQueue) <= QueueCapacity
    /\ worker \in [Worker -> Phase]
    /\ task \in [Worker -> Slot \cup {NoJob}]
    /\ todo \in [Worker -> SUBSET Question]
    /\ faults \in 0 .. MaxFaults

\* Whatever is dropped, skipped, repeated, overlapping or lost in a restart, a
\* question exists without its predecessor only if a client asked for it by its own
\* index, or a run passed over the text of the predecessor: no prefetch and no
\* batch leaves one out.  (Darius is asked for a question with the earlier ones as
\* its context.)
InOrder ==
    \A c \in Interview : \A i \in stored[c] \ asked[c] : i - 1 \in stored[c] \cup unsaved[c]

\* The flow keeps what QuestionFeed promises: a prefetch, a poll for a missing
\* question and a job that waited for long never run further ahead than one batch
\* after a question that was asked for.
Feed == INSTANCE QuestionFeed WITH Lookahead <- MaxBatch

FeedsQuestions == Feed!Spec

\* A client that keeps polling for a question is given it, whichever it is: after
\* finitely many requests of others, failures and restarts, no flag, full channel,
\* skipped or dropped job, or pool without workers keeps it on "loading" for ever.
EveryoneServed ==
    \A r \in Request : handler[r] = "away" ~> handler[r] = "idle"
=============================================================================
