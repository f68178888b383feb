------------------------- MODULE QuestionWorkerPool -------------------------
(***************************************************************************)
(* The pool of goroutines that prepares interview questions ahead of time  *)
(* (internal/features/worker.go), with the callers that feed it: request   *)
(* handlers, each of which calls ensureQuestionWorkerPool and then         *)
(* EnqueueJob for one job.                                                 *)
(*                                                                         *)
(* A caller is identified with the job it offers.  It looks at the counter *)
(* of active workers, possibly starts WorkerCount new goroutines, and      *)
(* offers the job to the bounded channel, three separate steps that        *)
(* interleave with the workers.  A goroutine is identified with the caller *)
(* that started it (Boot is the constructor New of the service) and its    *)
(* number in that caller's loop.                                           *)
(***************************************************************************)
EXTENDS Naturals, Sequences, FiniteSets

CONSTANTS
    Job,                \* the preparation jobs offered, one caller each
    WorkerCount,        \* worker.size of config.yaml
    MaxTasksPerWorker,  \* worker.max_tasks_per_worker of config.yaml
    Shutdown,           \* whether Stop is called (nothing in src/ calls it)
    Punctual,           \* whether idle timers only fire on idle workers without a waiting job
    Boot, NoJob         \* model values

ASSUME PoolAssumption ==
    /\ IsFiniteSet(Job)
    /\ WorkerCount \in Nat \ {0}
    /\ MaxTasksPerWorker \in Nat \ {0}
    /\ Shutdown \in BOOLEAN
    /\ Punctual \in BOOLEAN
    /\ Boot \notin Job
    /\ NoJob \notin Job

VARIABLES
    call,                \* how far each caller has come
    jobQueue,            \* the buffered channel of jobs
    worker,              \* the control state of each goroutine
    current,             \* the job each goroutine is preparing
    idleTimer,           \* the state of each goroutine's idle timer
    activeWorkers,       \* the atomic counter read by ensureQuestionWorkerPool
    wg,                  \* the counter of the wait group
    totalJobsEnqueued,
    totalJobsProcessed,
    totalJobsDropped,
    handled,             \* observer: jobs whose preparation has returned
    ctxDone,             \* the pool's context is cancelled
    queueClosed,         \* jobQueue is closed
    stop                 \* how far the call of Stop has come

callers == <<call, totalJobsEnqueued, totalJobsDropped>>
loops   == <<worker, current, idleTimer, activeWorkers, wg>>
ending  == <<ctxDone, queueClosed, stop>>
vars    == <<callers, loops, ending, jobQueue, totalJobsProcessed, handled>>

QueueCapacity == WorkerCount * MaxTasksPerWorker

Goroutine == (Job \cup {Boot}) \X (0 .. WorkerCount - 1)

CallState   == {"none", "restart", "ensured", "sent", "accepted", "dropped",
                "panicked"}
WorkerState == {"unborn", "spawned", "idle", "busy", "leaving", "left",
                "exited"}

\* Goroutines that activeWorkers counts, and those that wg counts.
Active   == {g \in Goroutine : worker[g] \in {"idle", "busy", "leaving"}}
Running  == {g \in Goroutine : worker[g] \notin {"unborn", "exited"}}
Busy     == {g \in Goroutine : worker[g] = "busy"}
InState(s) == {j \in Job : call[j] = s}
Queued   == {jobQueue[i] : i \in 1 .. Len(jobQueue)}

\* A send on the closed channel panics, and nothing recovers: the process ends.
Crashed == \E j \in Job : call[j] = "panicked"

-----------------------------------------------------------------------------
\* NewQuestionWorkerPool followed by Start, in the constructor of the service.
Init ==
    /\ call = [j \in Job |-> "none"]
    /\ jobQueue = <<>>
    /\ worker = [g \in Goroutine |-> IF g[1] = Boot THEN "spawned"
                                                    ELSE "unborn"]
    /\ current = [g \in Goroutine |-> NoJob]
    /\ idleTimer = [g \in Goroutine |-> "stopped"]
    /\ activeWorkers = 0
    /\ wg = WorkerCount
    /\ totalJobsEnqueued = 0
    /\ totalJobsProcessed = 0
    /\ totalJobsDropped = 0
    /\ handled = {}
    /\ ctxDone = FALSE
    /\ queueClosed = FALSE
    /\ stop = "idle"

-----------------------------------------------------------------------------
(* A caller: ensureQuestionWorkerPool, then EnqueueJob.                    *)

\* The atomic load of activeWorkers.
LoadActive(j) ==
    /\ call[j] = "none"
    /\ call' = [call EXCEPT ![j] = IF activeWorkers = 0 THEN "restart"
                                                        ELSE "ensured"]
    /\ UNCHANGED <<totalJobsEnqueued, totalJobsDropped, loops, ending,
                   jobQueue, totalJobsProcessed, handled>>

\* Mutant: wg.Add moved from Start into the goroutine's own bookkeeping.
SpawnWorkerUncounted(j) ==
    /\ call[j] = "restart"
    /\ \E i \in 0 .. WorkerCount - 1 :
        /\ worker[<<j, i>>] = "unborn"
        /\ \A k \in 0 .. i - 1 : worker[<<j, k>>] # "unborn"
        /\ worker' = [worker EXCEPT ![<<j, i>>] = "spawned"]
        /\ call' = [call EXCEPT ![j] = IF i = WorkerCount - 1
                                       THEN "ensured" ELSE "restart"]
    /\ UNCHANGED <<totalJobsEnqueued, totalJobsDropped, current, idleTimer, wg,
                   activeWorkers, ending, jobQueue, totalJobsProcessed,
                   handled>>

\* One turn of the loop of Start: the goroutine exists and is counted by wg,
\* but it has not yet run its first statement.
SpawnWorker(j) ==
    /\ call[j] = "restart"
    /\ \E i \in 0 .. WorkerCount - 1 :
        /\ worker[<<j, i>>] = "unborn"
        /\ \A k \in 0 .. i - 1 : worker[<<j, k>>] # "unborn"
        /\ worker' = [worker EXCEPT ![<<j, i>>] = "spawned"]
        /\ call' = [call EXCEPT ![j] = IF i = WorkerCount - 1
                                       THEN "ensured" ELSE "restart"]
    /\ wg' = wg + 1
    /\ UNCHANGED <<totalJobsEnqueued, totalJobsDropped, current, idleTimer,
                   activeWorkers, ending, jobQueue, totalJobsProcessed,
                   handled>>

\* Mutant: the job is sent but the caller is told that it was dropped.
EnqueueAnsweredNo(j) ==
    /\ call[j] = "ensured"
    /\ ~queueClosed
    /\ Len(jobQueue) < QueueCapacity
    /\ jobQueue' = Append(jobQueue, j)
    /\ call' = [call EXCEPT ![j] = "dropped"]
    /\ UNCHANGED <<totalJobsEnqueued, totalJobsDropped, loops, ending,
                   totalJobsProcessed, handled>>

\* The send case of the select in EnqueueJob.
Enqueue(j) ==
    /\ call[j] = "ensured"
    /\ ~queueClosed
    /\ Len(jobQueue) < QueueCapacity
    /\ jobQueue' = Append(jobQueue, j)
    /\ call' = [call EXCEPT ![j] = "sent"]
    /\ UNCHANGED <<totalJobsEnqueued, totalJobsDropped, loops, ending,
                   totalJobsProcessed, handled>>

\* The counter is incremented after the send, when the job may be done already.
CountEnqueued(j) ==
    /\ call[j] = "sent"
    /\ totalJobsEnqueued' = totalJobsEnqueued + 1
    /\ call' = [call EXCEPT ![j] = "accepted"]
    /\ UNCHANGED <<totalJobsDropped, loops, ending, jobQueue,
                   totalJobsProcessed, handled>>

\* Mutant: a dropped job is counted as enqueued too.
DropCountedTwice(j) ==
    /\ call[j] = "ensured"
    /\ ~queueClosed
    /\ Len(jobQueue) >= QueueCapacity
    /\ totalJobsDropped' = totalJobsDropped + 1
    /\ totalJobsEnqueued' = totalJobsEnqueued + 1
    /\ call' = [call EXCEPT ![j] = "dropped"]
    /\ UNCHANGED <<loops, ending, jobQueue, totalJobsProcessed, handled>>

\* The default case: the channel is full, and maxTaskWaitTime is not waited for
\* because a select with a default case never blocks.
Drop(j) ==
    /\ call[j] = "ensured"
    /\ ~queueClosed
    /\ Len(jobQueue) >= QueueCapacity
    /\ totalJobsDropped' = totalJobsDropped + 1
    /\ call' = [call EXCEPT ![j] = "dropped"]
    /\ UNCHANGED <<totalJobsEnqueued, loops, ending, jobQueue,
                   totalJobsProcessed, handled>>

PanicOnClosed(j) ==
    /\ call[j] = "ensured"
    /\ queueClosed
    /\ call' = [call EXCEPT ![j] = "panicked"]
    /\ UNCHANGED <<totalJobsEnqueued, totalJobsDropped, loops, ending,
                   jobQueue, totalJobsProcessed, handled>>

CallerStep(j) ==
    \/ LoadActive(j) \/ SpawnWorker(j) \/ Enqueue(j)
    \/ CountEnqueued(j) \/ Drop(j) \/ PanicOnClosed(j)

-----------------------------------------------------------------------------
(* A goroutine: the function worker.                                       *)

WorkerEnter(g) ==
    /\ worker[g] = "spawned"
    /\ worker' = [worker EXCEPT ![g] = "idle"]
    /\ idleTimer' = [idleTimer EXCEPT ![g] = "armed"]
    /\ activeWorkers' = activeWorkers + 1
    /\ UNCHANGED <<callers, current, wg, ending, jobQueue, totalJobsProcessed,
                   handled>>

\* Mutant: the head of the queue is read but not removed.
PeekJob(g) ==
    /\ worker[g] = "idle"
    /\ jobQueue # <<>>
    /\ worker' = [worker EXCEPT ![g] = "busy"]
    /\ current' = [current EXCEPT ![g] = Head(jobQueue)]
    /\ UNCHANGED <<callers, idleTimer, activeWorkers, wg, ending, jobQueue,
                   totalJobsProcessed, handled>>

\* The receive case of the select; a closed channel still delivers its buffer.
TakeJob(g) ==
    /\ worker[g] = "idle"
    /\ jobQueue # <<>>
    /\ worker' = [worker EXCEPT ![g] = "busy"]
    /\ current' = [current EXCEPT ![g] = Head(jobQueue)]
    /\ jobQueue' = Tail(jobQueue)
    /\ UNCHANGED <<callers, idleTimer, activeWorkers, wg, ending,
                   totalJobsProcessed, handled>>

\* Mutant: the idle timer is not reset after a job.
FinishJobTimerKept(g) ==
    /\ worker[g] = "busy"
    /\ worker' = [worker EXCEPT ![g] = "idle"]
    /\ current' = [current EXCEPT ![g] = NoJob]
    /\ totalJobsProcessed' = totalJobsProcessed + 1
    /\ handled' = handled \cup {current[g]}
    /\ UNCHANGED <<callers, idleTimer, activeWorkers, wg, ending, jobQueue>>

\* prepareQuestionSafe has returned; the idle timer is drained and armed again.
FinishJob(g) ==
    /\ worker[g] = "busy"
    /\ worker' = [worker EXCEPT ![g] = "idle"]
    /\ current' = [current EXCEPT ![g] = NoJob]
    /\ idleTimer' = [idleTimer EXCEPT ![g] = "armed"]
    /\ totalJobsProcessed' = totalJobsProcessed + 1
    /\ handled' = handled \cup {current[g]}
    /\ UNCHANGED <<callers, activeWorkers, wg, ending, jobQueue>>

\* The runtime fires the timer, also while the worker is preparing a question.
TimerFires(g) ==
    /\ worker[g] \in {"idle", "busy"}
    /\ idleTimer[g] = "armed"
    /\ Punctual => worker[g] = "idle" /\ jobQueue = <<>>
    /\ idleTimer' = [idleTimer EXCEPT ![g] = "fired"]
    /\ UNCHANGED <<callers, worker, current, activeWorkers, wg, ending,
                   jobQueue, totalJobsProcessed, handled>>

\* The function returns and its deferred idleTimer.Stop runs.
LeaveLoop(g) ==
    /\ worker[g] = "idle"
    /\ worker' = [worker EXCEPT ![g] = "leaving"]
    /\ idleTimer' = [idleTimer EXCEPT ![g] = "stopped"]
    /\ UNCHANGED <<callers, current, activeWorkers, wg, ending, jobQueue,
                   totalJobsProcessed, handled>>

\* A select with several ready cases picks any of them: a worker whose timer
\* has fired may leave although a job waits.
IdleExit(g)   == idleTimer[g] = "fired" /\ LeaveLoop(g)
ClosedExit(g) == queueClosed /\ jobQueue = <<>> /\ LeaveLoop(g)
CancelExit(g) == ctxDone /\ LeaveLoop(g)

\* Mutant: a return path without the deferred decrement.
DepartUncounted(g) ==
    /\ worker[g] = "leaving"
    /\ worker' = [worker EXCEPT ![g] = "left"]
    /\ UNCHANGED <<callers, current, idleTimer, activeWorkers, wg, ending,
                   jobQueue, totalJobsProcessed, handled>>

\* The deferred decrement of activeWorkers, then the deferred wg.Done.
Depart(g) ==
    /\ worker[g] = "leaving"
    /\ worker' = [worker EXCEPT ![g] = "left"]
    /\ activeWorkers' = activeWorkers - 1
    /\ UNCHANGED <<callers, current, idleTimer, wg, ending, jobQueue,
                   totalJobsProcessed, handled>>

\* Mutant: a return path without the deferred wg.Done.
WgDoneForgotten(g) ==
    /\ worker[g] = "left"
    /\ worker' = [worker EXCEPT ![g] = "exited"]
    /\ UNCHANGED <<callers, current, idleTimer, activeWorkers, wg, ending,
                   jobQueue, totalJobsProcessed, handled>>

WgDone(g) ==
    /\ worker[g] = "left"
    /\ worker' = [worker EXCEPT ![g] = "exited"]
    /\ wg' = wg - 1
    /\ UNCHANGED <<callers, current, idleTimer, activeWorkers, ending,
                   jobQueue, totalJobsProcessed, handled>>

WorkerStep(g) ==
    \/ WorkerEnter(g) \/ TakeJob(g) \/ IdleExit(g) \/ ClosedExit(g)
    \/ CancelExit(g) \/ Depart(g) \/ WgDone(g)

-----------------------------------------------------------------------------
(* Stop: cancel, close, wait.                                              *)

StopCancel ==
    /\ Shutdown
    /\ stop = "idle"
    /\ ctxDone' = TRUE
    /\ stop' = "cancelled"
    /\ UNCHANGED <<callers, loops, queueClosed, jobQueue, totalJobsProcessed,
                   handled>>

StopClose ==
    /\ stop = "cancelled"
    /\ queueClosed' = TRUE
    /\ stop' = "waiting"
    /\ UNCHANGED <<callers, loops, ctxDone, jobQueue, totalJobsProcessed,
                   handled>>

StopReturn ==
    /\ stop = "waiting"
    /\ wg = 0
    /\ stop' = "returned"
    /\ UNCHANGED <<callers, loops, ctxDone, queueClosed, jobQueue,
                   totalJobsProcessed, handled>>

-----------------------------------------------------------------------------
Next ==
    /\ ~Crashed
    /\ \/ \E j \in Job : CallerStep(j)
       \/ \E g \in Goroutine : WorkerStep(g) \/ FinishJob(g) \/ TimerFires(g)
       \/ StopCancel \/ StopClose \/ StopReturn

Spec == Init /\ [][Next]_vars

\* Goroutines are scheduled fairly.  FinishJob is fair when every preparation
\* returns, which holds only if Darius answers (see QuestionPreparation).
\* Nobody forces a request to arrive, a timer to fire or Stop to be called.
Fairness ==
    /\ \A j \in Job : WF_vars(CallerStep(j) /\ call[j] # "none")
    /\ \A g \in Goroutine : WF_vars(WorkerStep(g)) /\ WF_vars(FinishJob(g))
    /\ WF_vars(StopClose) /\ WF_vars(StopReturn)

FairSpec == Spec /\ Fairness

-----------------------------------------------------------------------------
(* Properties.                                                             *)

\* Every variable has its type, and the channel never exceeds its capacity
\* (the select of EnqueueJob).
TypeOK ==
    /\ call \in [Job -> CallState]
    /\ jobQueue \in Seq(Job) /\ Len(jobQueue) <= QueueCapacity
    /\ worker \in [Goroutine -> WorkerState]
    /\ current \in [Goroutine -> Job \cup {NoJob}]
    /\ idleTimer \in [Goroutine -> {"stopped", "armed", "fired"}]
    /\ activeWorkers \in Nat
    /\ wg \in Nat
    /\ totalJobsEnqueued \in Nat
    /\ totalJobsProcessed \in Nat
    /\ totalJobsDropped \in Nat
    /\ handled \subseteq Job
    /\ ctxDone \in BOOLEAN
    /\ queueClosed \in BOOLEAN
    /\ stop \in {"idle", "cancelled", "waiting", "returned"}

\* The counter ensureQuestionWorkerPool trusts is exactly the number of
\* goroutines between their first statement and their deferred decrement, and
\* the wait group counts every goroutine from before its birth to its end,
\* whatever the order of starts, exits and restarts.
CountersExact ==
    /\ activeWorkers = Cardinality(Active)
    /\ wg = Cardinality(Running)

\* No job is lost or duplicated by the hand-over between callers, channel and
\* workers: the jobs that were sent are those in the channel, in one position
\* each, those in the hands of one worker each, and those already prepared.
JobsConserved ==
    /\ \A i, k \in 1 .. Len(jobQueue) : jobQueue[i] = jobQueue[k] => i = k
    /\ \A g, h \in Busy : current[g] = current[h] => g = h
    /\ \A g \in Busy : current[g] \notin Queued \cup handled
    /\ Queued \cap handled = {}
    /\ InState("sent") \cup InState("accepted") =
         Queued \cup {current[g] : g \in Busy} \cup handled

\* The figures GetMetrics reports fit together: what was sent, counted yet or
\* not, is what was processed, is being processed or waits in the channel.
\* (totalJobsEnqueued alone may lag behind totalJobsProcessed.)
MetricsBalance ==
    totalJobsEnqueued + Cardinality(InState("sent")) =
        totalJobsProcessed + Cardinality(Busy) + Len(jobQueue)

\* The pool delivers jobs as JobDelivery promises: a job for which EnqueueJob
\* returns false is never run, and one that entered the channel is run at most
\* once, whether or not its caller has come back from the send.
Fate(j) ==
    IF j \in handled THEN "finished"
    ELSE IF \E g \in Busy : current[g] = j THEN "running"
    ELSE IF j \in Queued THEN "queued"
    ELSE "offered"

Answer(j) ==
    CASE call[j] = "accepted" -> "yes"
      [] call[j] = "dropped" -> "no"
      [] OTHER -> "pending"

fate   == [j \in Job |-> Fate(j)]
answer == [j \in Job |-> Answer(j)]

Delivery == INSTANCE JobDelivery

DeliversJobs == Delivery!Spec

\* Stop returns only when no goroutine of the pool is alive: none is still
\* preparing a question, and none was started but not yet running (wg.Add
\* comes before go in Start).
StopWaitsForWorkers ==
    [][stop = "waiting" /\ stop' = "returned" => Running = {}]_vars

\* A job in the channel is taken, or the counter reaches zero, so that the next
\* request will start the pool again: the pool is never empty while
\* ensureQuestionWorkerPool believes it is not.
ServedOrRestartable ==
    \A j \in Job : j \in Queued ~> (j \notin Queued \/ activeWorkers = 0 \/ Crashed)

\* A worker that has just been started, is busy, or whose idle timer is still
\* running.
WillServe(g) ==
    \/ worker[g] \in {"spawned", "busy"}
    \/ worker[g] = "idle" /\ idleTimer[g] = "armed"

\* If idle timers only fire on workers that have nothing to do, one such worker
\* is enough for every job in the channel to be prepared, unless Stop is called:
\* a restart rescues the jobs that earlier workers left behind, and the timer
\* reset after each job keeps the worker long enough.
BacklogServed ==
    Punctual => \A j \in Job :
        (j \in Queued /\ \E g \in Goroutine : WillServe(g)) ~> (j \in handled \/ ctxDone)

\* A call of Stop returns, unless a late EnqueueJob panics on the closed channel
\* and ends the process.
StopReturns == (stop = "cancelled") ~> (stop = "returned" \/ Crashed)
=============================================================================
