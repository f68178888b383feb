# Irelia in TLA+

Irelia is the interview service of a larger system: a candidate starts an interview, polls for one
question after the other, answers them, submits, and finds scores and feedback some minutes later.
The texts of the questions and the scores come from a language model service (Darius), speech and
lip sync data from another (Karma). Generating a question takes long, so questions are prepared ahead
of time by a pool of goroutines, and an interview is scored by a goroutine that outlives its request.

This directory holds the models of that program, the configurations that model-check them with TLC,
and proofs checked by TLAPS. All paths below are relative to the root of the repository.

## 1. Inventory

| Component | State it keeps | Operations | Interacts with |
|---|---|---|---|
| **Question worker pool** `internal/features/worker.go` | buffered channel `jobQueue`, atomic `activeWorkers` and three metrics, wait group, context, one idle timer per goroutine | `Start`, `worker`, `EnqueueJob`, `Stop`, `GetMetrics`; `ensureQuestionWorkerPool` (`helper.go`) | fed by the handlers, runs the preparation |
| **Question preparation** `internal/features/helper.go` | `preparationStatus` (interview → index → flag) behind an RWMutex; tables `questions`, `public_questions` | `prepareQuestionSafe`, `prepareQuestion`, `prepareContent`, `prepareLipSync`, `Question.Create`, `PublicQuestion.CreateBulk` | pool worker or `StartInterview` calls it; calls database, Darius, Karma |
| **Answering and scoring** `internal/features/irelia.go` | rows of `interviews` and `questions`, copies of them in each handler | `SubmitAnswer`, `SubmitInterview`, its scoring goroutine | database, Karma (outro), Darius (scores) |
| **Interview flow** `irelia.go` | none of its own; each client's progress | `StartInterview`, `GetNextQuestion` | reads `questions` and `preparationStatus`, feeds the pool |
| **Question timers** `timer.go`, `helper.go` | map from interview and index to a timer with context and done channel; one goroutine per timer | `startTimer`, `cancelTimer`, `runTimer`, `cleanupInterviewTimers`, `shutdown`, `handleQuestionTimeout`, `handleTimeoutSubmission` | writes rows of `questions`, notifies over SSE; its callers in `irelia.go` are commented out |
| **SSE notifications** `cmd/sse_server.go`, `utils/sse` | registry of one channel per user; a handler per connection | `SSETimeoutStream`, `SendToUser` | sent to by the timers; `startSSE` is commented out in `root.go` |
| **Favourites** `repo/interview.go` | rows of `interview_favorites` | `Favorite` (toggle) | database |
| **History, public questions** `repo/` | none | paged queries: a count and a page | database |
| **Lip sync cache** `helper.go`, `utils/redis` | keys in Redis, for an hour | get, generate, set | Redis, Karma |
| **Darius and Karma clients** `service/` | none | request/response; a retry loop for scoring by Karma | external services; the retry loop has no caller |
| **Server start and shutdown** `cmd/` | two signal channels, gRPC server, HTTP server, database client | `Execute`, `startGRPC`, `startGateway` | gateway forwards to the gRPC server; the process ends with the gateway |
| **Message queue consumer** `pkg/rabbit` | semaphore, connection | `Consume`, `processMessage` | no caller in the repository |
| **Transaction helper, token rotation, Redis client** `utils/tx`, `pkg/` | connection state | set-up, prefixing of keys | `WithTransaction` has no caller |
| **Logging, roles, headers, ids, demo** | none | stateless helpers, fixed files | every handler |

`PROJECT.json` lists the same components with their status, and every hazard at its source line.

What makes this program hard:

* **Concurrency without a lock around the decision.** `ensureQuestionWorkerPool` looks at a counter and
  starts workers, `EnqueueJob` sends afterwards; workers leave in between. The preparation flag is
  taken under a mutex, but the question is looked up and inserted outside it. A favourite is looked up
  and inserted without a unique index; a timer that expires looks for its key, not for itself.
* **Reads that are written back later.** Repository updates write all columns of a row from a copy the
  handler read earlier, and no handler uses a transaction.
* **Partial failure.** A preparation makes at least five calls and has a loop that continues after a
  failure; a submission makes eight. Errors of a count and of Redis are dropped.
* **Timeouts.** Idle timers race with jobs, question timers with answers; the deadline of a preparation
  reaches some of its calls; a cancelled timer is waited for, but no longer than 100 ms.
* **Restarts and exits.** Flags, channel and goroutines are lost; the rows stay. Two servers wait for
  signals of their own, and one of them decides when the process is gone.

What each component must guarantee, and thus the properties below: the pool neither loses nor repeats a job it
took in, its counters are true (the restart depends on one of them), and it does not fall asleep on a backlog
for good; the preparation flag is exact and exclusive, and success means that the question is stored or was
seen to fail; rows of question and interview stay consistent whichever writer is last, an accepted answer is
not lost without a trace, and a submitted interview gets its results; the flow leaves no question out and
prepares none far ahead, unless a client asks for it, and gives a client who keeps polling for a question that
question; a question has one timer, which times it out or is cancelled in time, and then leaves the answer
alone; a notification that counts as sent is read; a client that pages through a list misses nothing and sees
nothing twice, short of what changed the list meanwhile; a toggle inverts; the cache gives nobody foreign
audio and never makes a call fail; the process ends when told to, with the database open under every handler.

## 2. Modules

| Module | Models |
|---|---|
| `JobDelivery` | abstract: what the pool promises its callers about a job |
| `QuestionWorkerPool` | the pool with its callers; `DeliversJobs` says that it implements `JobDelivery` |
| `QuestionPreparation` | runs of `prepareQuestion`, with and without `prepareQuestionSafe` |
| `QuestionFeed` | abstract: what a candidate is promised about questions |
| `InterviewFlow` | overlapping requests of `StartInterview` and `GetNextQuestion`, with pool and preparation; `FeedsQuestions` says that it implements `QuestionFeed` |
| `InterviewScoring` | `SubmitAnswer`, `SubmitInterview` and the scoring goroutine on the rows of one interview |
| `QuestionTimer` | the timer manager, the requests that start and cancel timers, and timeouts against answers |
| `EventStreams` | the connections of one user and the notifications sent to it |
| `InterviewHistory` | paged lists read while rows arrive, leave and move, and favourites toggled by overlapping requests |
| `KarmaCalls` | `prepareLipSync` with its cache, and `Score` with its retries |
| `ServerShutdown` | the process: two servers, signals, requests, database client |
| `MC...` | one per module: symmetry sets, sets of faults, plans of requests and speeches for TLC |
| `..._proofs` | theorems about the module of the same name: `QuestionWorkerPool`, `QuestionPreparation`, `InterviewFlow`, `InterviewScoring`, `QuestionTimer`, `InterviewHistory`, `KarmaCalls` |
| `Server_proofs` | theorems about the two modules of the server itself, `ServerShutdown` and `EventStreams` (extended together, which is why the specification of the latter is called `StreamSpec`) |

Operators named as mutants in their comments are not part of any specification: each is a variant of
the definition after it, with the mistake its comment names, and is kept to show that the property
listed with it in `PROJECT.json` notices that mistake.

### QuestionWorkerPool

A caller (one per job) runs `LoadActive` (the atomic load), `SpawnWorker` for each turn of the loop of
`Start` if the counter was zero, then one of `Enqueue`, `Drop` and `PanicOnClosed` (the `select` of
`EnqueueJob`; it has a `default`, so `max_task_wait_time` is never waited for), and `CountEnqueued`,
which comes after the send. A goroutine runs `WorkerEnter`, then a `select` whose ready cases are taken
in any order: `TakeJob`, `IdleExit`, `ClosedExit`, `CancelExit`; `FinishJob` is the return of
`prepareQuestionSafe` with the counter and the timer reset; `Depart` and `WgDone` are the two deferred
calls. `TimerFires` is the runtime. `Stop` is three steps. A Go channel may hand a job directly to a
waiting receiver; that is the send followed at once by the receive. The job's own work is left to
`QuestionPreparation`.

`handled` is an observer (which jobs have returned); nothing reads it but properties.

### QuestionPreparation

A run is one execution of `prepareQuestion`: `Claim` (guarded runs, up to the unlock) or `CallDirectly`
(the call in `StartInterview`), `CheckExists`, `Gather` (two reads), `Generate` (Darius; cuts texts
beyond the last question), then per text `LipSync` and `Create`, then `Publish`, and `Release` (the
deferred cleanup). Each is one call to a service, so that runs interleave between any two calls.
`Expire` ends a context, `Crash` restarts the process. `Faults` says which of these an instance has; a
failed insert may nevertheless have reached the table. Generated texts are identified with their index.
The table of public questions keeps, for each text, the runs that inserted it: a text that is there twice is
two rows. `unsaved` is an observer: the texts that the loop of each run passed over (`PassOver`).

### InterviewFlow

This module composes what the two before it take apart. Each member of `Request` is a request in progress;
they are independent of each other and may be of one client or of several. `CreateInterview` and
`PrepareIntro` are `StartInterview`. Once the answer has told somebody the name of the interview, `Ask` begins
a request for any index, in any order, of questions asked for before or being asked for by the other request;
`Lookup` and `ReadFlag` are `GetNextQuestion`, and all of them end in `EnsurePool` and `Offer`, the job and
the answer. A client that is told "loading" (`away`) polls again, or gives up (`Abandon`). `asking` is the question
a request is about, `reply` what it will answer, `Job` what it offers.
A goroutine runs `TakeJob`, `Claim`, `CheckExists`, `Generate`, one `Store` per text, and `Release`, or
leaves (`IdleExit`). The interleavings that matter between the parts are kept: a flag that changes after
it was read, a job that repeats one already waiting, a worker that leaves between `EnsurePool` and
`Offer`, a full channel, two runs whose batches overlap, a question stored long before its predecessor. What is left
out is what no handler can see and another module has: counters, idle timers and the surplus goroutines of
two concurrent restarts (`QuestionWorkerPool`), the single calls of a run, its deadline, its result and a Darius
that hangs (`QuestionPreparation`). A failing call and a restart each use up one of `MaxFaults`; any step that
makes a call can fail.

`asked` (the questions that a `GetNextQuestion` has looked for, and the first, which comes with the interview)
and `unsaved` (texts that a run passed over because lip sync or insert failed) are observers.

### InterviewScoring

Each read or write of a row is a step, and the copy it leaves in the handler is a variable. Of a
question row the model keeps status, whose answer it holds and which submission scored it; of the
interview row status and the submission its feedback comes from. `QuestionArrives` stands for
`QuestionPreparation`: only its insert is visible here. `SubmitStep` covers the handler (`GetInterview`,
`GetAnswers`, `SavePending`, `PrepareOutro`) and the goroutine (`Score`, `FetchRow`, `StoreScore`,
`Complete`). The order in which Darius returns the results is arbitrary.

### QuestionTimer

A request is a question asked, an answer or a submission of the interview; `Begin` and the steps after
it are the calls that the comments in `irelia.go` hold. `Cancel` is `LoadAndDelete` with `CancelFunc`, `Wait` the
`select` after it, `Store` the rest of `startTimer`; a submission visits the questions in any order
(`Visit`), as `sync.Map.Range` does. `ReadAnswer` and `WriteAnswer` are the two calls of `SubmitAnswer`
that matter to the row. A timer is named by the request that started it: `Expire` and `Stop` are the two
cases of its `select` (either may be taken when both are ready), `Look` its look at the map, `Notify` and
`Spawn` `handleQuestionTimeout`, `Delete` its last act; `ReadTimeout` and `WriteTimeout` are the goroutine
of `handleTimeoutSubmission`. `Shutdown` comes to one question at a time, cancels and leaves the entry.

`overlapping` (may the client have several requests at once) and `late` (may a cancelled goroutine outlast
the 100 ms) are chosen in `Init`, so that one run covers all four kinds of behaviour and a property can
name the one it is about. `tooLate` is an observer: answers whose timer had fired before they came.

### EventStreams

One user. `Connect` is `SSETimeoutStream` up to its loop and replaces what is registered; `Disconnect` is
the end of the request's context, `Deliver` and `Leave` the two cases of the loop (a handler whose client
has gone may still take a few notifications), `LookUp` and `Push` the two halves of `SendToUser`. `Leave`
unregisters the user, not the channel: a client that has reconnected loses its registration when the old
handler returns. That is in the model, and is why the properties speak of registered channels.

### InterviewHistory

A list is a sequence in the order of its query, one of five kinds; `Places` says where a row comes that is new
or completed anew. What a query returns is given by numbers: `Listed` are its rows, `Rank` is the place of a row
among them, and `Query` the sequence in which each row stands at its rank. Four things happen to completed rows:
`Arrive` (an interview is completed, a question published), `Leave` (a submission with an old copy sets the
interview back to PENDING, the step of `scoring_regress`), `Rate` (a second submission completes it again, which
gives it a new `updated_at` and score, and thus another place) and `Swap` (rows with equal sort keys, whose order
SQL leaves open, change places from one query to the next). Public questions only arrive, and are sorted by
their unique ids.
`BeginReading`, `Count` and `Fetch` are a client that asks for one page after the other, each page with its
two queries. `BeginToggle`, `Exist`, `Delete` and `Create` are `Favorite`; each of its queries may fail.
`alone`, `began`, `disturbed` and `moved` are observers: `moved` has the rows that changed places while the
client read, `disturbed` says whether a row that stayed may have been pushed back (`repeat`: it may be shown twice)
or drawn forward or cut off (`skip`: it may be missed).

### KarmaCalls

`Begin` is a call of `prepareLipSync` or `Score`; `Get`, `Ask` and `Set` are one request to Redis, Karma and
Redis; `AfterAnswer` holds the retries of `submitToKarma`. `Expire` is the hour of the cache. A digest is
taken to be injective. An audio is identified with the speech it was made for; `Sound` is what Karma is
told of it.

### ServerShutdown

One action per blocking step of `startGRPC` and `startGateway`; a step that can end in `log.Fatal` has that
outcome. `Signal` is the Go runtime: it goes to every channel registered so far (each holds one), and ends
the process when there is none. `Exit` ends main, whatever the gRPC server is doing. Requests come over HTTP
(`Accept`, then `Handle` by the gRPC server, `Reply`, `Answer`) or directly; handlers may hang.

## 3. Runs

| Run | Configuration | Asks | Instance |
|---|---|---|---|
| `pool` | `MCQuestionWorkerPool` | `CountersExact`, `JobsConserved`, `MetricsBalance`, refinement `DeliversJobs`, `StopWaitsForWorkers`; `ServedOrRestartable`, `BacklogServed`, `StopReturns` | 2 callers, 1 worker per start, channel of 1, punctual timers, `Stop` may be called |
| `preparation_guard` | `MCPrepGuard` | `TypeOK`, `FlagExact`, `GuardExclusive`, `SuccessExplained`, `PublishedAgain`; `SlotReleased`, `RequestServed` | 2 runs, total 2, batches up to 2, every fault, a Darius that hangs included |
| `flow` | `MCInterviewFlow` | `InOrder`, refinement `FeedsQuestions`; `EveryoneServed` | 2 requests at once, 2 begun polls, 2 workers, 3 questions, batches of 1, channel of 1, 1 fault |
| `scoring_rows` | `MCScoringRows` | `CompletedIffResult`, `ScoredAfterSubmit`, `StatusMatchesRow`, `AcceptedAnswerAccounted` | 2 answers and 2 submissions on 1 question, all faults |
| `scoring_results` | `MCScoringResults` | `CompletedCovers`; `ResultsAvailable` | 2 questions, 1 answer, 2 submissions, no faults |
| `timers` | `MCQuestionTimer` | `EntryRuns`, `OneTimer`, `CancelProtects`; `TimedOut` | 3 requests about 1 question, in three mixtures |
| `streams` | `MCEventStreams` | `RegisteredIsRead`; `SentIsReceived` | 3 connections, 2 notifications, channels of 1 |
| `browsing` | `MCInterviewHistory` | `NothingSkipped`, `ShownOnce`, `LoneToggleInverts` | 3 rows, pages of 1, 3 toggles |
| `karma` | `MCKarmaCalls` | `OwnAudio`, `FailureExplained`, `MadeOnce` | 3 calls, 5 speeches |
| `shutdown` | `MCServerShutdown` | `HandlersHaveDatabase`; `SignalEnds` | 3 requests, 2 signals |
| `preparation_saved` | `MCPrepSaved` | `SuccessMeansSaved` (expected to fail) | 2 runs, Karma may fail |
| `scoring_regress` | `MCScoringRegress` | `CompletedFinal` (expected to fail) | 2 submissions, no faults |

Liveness properties stand after the semicolon. `TypeOK` is an invariant of `preparation_guard`, where it
includes that no index beyond the total is stored; for the other modules it is proved only (section 4).

Bounds, and why they suffice.

* `pool`: one caller per job, and a goroutine belongs to the caller that started it. Two callers, one worker
  per start and a channel of one place give: a full channel and a drop, two concurrent restarts (more
  goroutines than `worker.size`), a job stranded by an idle exit and rescued by a later restart, a caller
  that comes after the last worker left, and one that comes after `Stop`. The five safety properties are
  theorems for any number of callers.
* `preparation_guard`: two runs are one in progress and one skipped, two for different indices with
  overlapping batches, or a guarded run and the direct call; a total of two with batches of two contains
  the cut beyond the last question, and index 0 stands for every index below one. A run may come before,
  during or after the other one, or after a restart.
* `flow`: two requests are two polls for the same question, a poll and a prefetch, or two questions asked for
  out of order; three questions are the fewest with one that is neither the first nor within a batch of it, so
  that a look-ahead of two would be noticed. `MaxAsks = 2` lets clients begin to ask twice (and poll for each as
  often as they like), `FirstIndex = 1` leaves out the indices below one, which the code also accepts
  and the theorems include. `MaxFaults = 1` is a failing call or a restart anywhere. Batches of one keep
  the run small: overlapping batches are in `preparation_guard`, and of the flow `InOrder` and
  `FeedsQuestions` are theorems for any size.
* `scoring_rows`, `scoring_results`: two answers and two submissions are the smallest number for each race on a
  copy, and each race is about one row; the run about several rows has two questions.
* `timers`: the mixtures are two questions asked with an answer or with a submission, and one asked with two
  answers: a timer is replaced while the first one fires, cancelled twice, or answered twice. Keys of
  different questions do not meet anywhere in the code, so one question is enough.
* `streams`: with three connections the handler of the first can return while the second or the third is
  registered; two notifications and one place are a full channel.
* `browsing`: three rows and pages of one are three pages, with rows before, on and behind the page that is read,
  an empty list and a list that outgrows the page it was to end with. Three toggles are two that overlap, leaving
  two rows, and one on its own after them. `Undecided` is a state constraint: TLC does not look behind a state
  after which no property of this reader can be violated any more, because it has ended or its list was
  disturbed in both ways (the toggles go through all their steps in the states before the reader begins).
* `karma`: three calls are two that fill and use the cache and one that overlaps both, or the three tries of a
  score; the speeches differ in one part of the key each, except for the voice, which is used as the speed is.
* `shutdown`: three requests are one over each way and one more that comes later; two signals are one before
  and one after a server waits for them.

Symmetry is used in `browsing` and `scoring_rows`, which check safety only. `CHECK_DEADLOCK FALSE` appears
where the system may stop: a finite set of requests has been dealt with, or the process is gone.

### Fairness

Goroutines are scheduled, so every step a started caller, worker, run or handler can take is weakly fair, as
is `FinishJob` (a preparation returns) in the pool; that assumption holds when Darius answers, because its
call is the only one without a deadline (`helper.go:100`). `QuestionPreparation` has the fault `hang` for the
other case: with it, as in `preparation_guard`, nothing is assumed of `Generate`. No request, idle timer,
deadline, restart or call of `Stop` is ever forced, and no call is forced to succeed. `Punctual` says that an
idle timer fires on an idle worker with no job waiting only: an hour of idleness against microseconds, and it
leaves out a preparation that takes an hour. A timer that has fired before its worker became busy is still
there when the job ends. `BacklogServed` is stated for such timers; a timer that fired just before the job
came may still win the `select`, which is why it asks for a worker whose timer runs. `ServedOrRestartable`
does not depend on it.

In the flow a request for a missing question polls again unless its client gives up, runs end (Darius answers),
and `TakeJob` is strongly fair: Go's `select` picks
among its ready cases at random, so a worker does not prefer its idle timer to a waiting job again and
again for ever. Nobody has to start an interview or to ask for a question. Failures end (`MaxFaults`), but nothing
says when; and so do new questions (`MaxAsks`): clients that go on asking for others without end could starve
one that polls, as nothing in the code reserves it a place in the channel.

In `QuestionTimer` the steps of a request that has begun and of a timer are weakly fair: goroutines are
scheduled and the timeout of an armed timer comes. In `EventStreams` a handler and a sender go on; no connection
has to open or close. In `ServerShutdown` only the gateway's goroutine and its five seconds are fair;
handlers and the gRPC server may hang for ever, and `SignalEnds` holds all the same.

### What disagrees with the program's own words

Two runs expect a violation.

* `scoring_regress`: the program says "Interview already submitted" (`irelia.go:321`), but a second submission that
  read the row before the first one completed writes PENDING back and erases the feedback (`CompletedFinal`).
* `preparation_saved`: "Successfully prepared and saved questions" (`helper.go:340`) is logged, and no error
  returned, although the lip sync of the text failed and the loop went on without storing it
  (`helper.go:316`, likewise `:322` and `:327` for the insert); `StartInterview` then hands out an interview without
  its first question (`SuccessMeansSaved`). `SuccessExplained` says what success does mean.

Two more disagreements follow from the models, without a run of their own:

* "Add timeout context for the preparation" (`helper.go:229`): Darius is called with another context
  (`helper.go:100`); if it does not answer, worker and flag are kept for ever. `SlotReleased` and
  `RequestServed` name this as the one exception.
* "Question already answered" (`irelia.go:189`): two overlapping answers are both told "success", the later
  write wins. `AcceptedAnswerAccounted` says what is left of the promise.

Other behaviour that the properties had to be stated around, because that is what the code does:

* `ResultsAvailable` holds in a run without faults only: the outro says "You can check out the results in a
  few minutes" (`helper.go:614`), but when Darius fails the scoring goroutine returns (`irelia.go:381`), nothing
  tries again, and the interview stays PENDING.
* Runs for different questions with overlapping batches publish a text twice, as does a second run for a question
  whose first one failed to store it; `PublishedAgain` says that nothing else does.
* `GetNextQuestion` takes any index up to the total (`irelia.go:227`), also one below 1, and prepares it without
  its predecessors; `InOrder` and `QuestionFeed` are stated relative to what was asked for.
* A completed interview may leave the history or change its place in it while it is read, when it was submitted
  twice; the rows around it are then skipped or shown twice.
* After `Stop` a job still in the channel can be taken by a worker that a late caller starts, because the
  `select` prefers neither case.
* Count and page are two queries (`repo/interview.go:182` and `188`): a row that comes between them pushes
  another one beyond what the client was told is the last page. A count that fails is an empty history.
* The registration of a reconnected SSE client is removed by the handler of its old connection.
* `shutdown` of the timers cancels goroutines and leaves their entries.
* A signal that comes when only the gRPC server waits for one stops that server, and the gateway goes on
  serving. Direct gRPC requests are cut off when the gateway returns first, and goroutines of the pool and
  of scoring find the database closed.

## 4. Proofs

The theorems hold for every set of callers, runs, clients, questions, answers and submissions, every
number of workers, capacity, total and batch size, every set or number of faults, requests, timers, toggles,
calls, speeches and signals, from the assumption each module declares about its constants (the pool needs
finitely many callers, to count its goroutines). Where a theorem needs more it says so in its `ASSUME`.

* **Pool.** `IInv` is `TypeOK /\ CountersExact /\ InHand /\ JobsConserved`. `InHand` (a goroutine holds a
  job exactly while it is busy) is the strengthening: without it a `FinishJob` could put `NoJob` into
  `handled`. Steps of callers, goroutines and `Stop` are proved separately (`CallerInv`, `WorkerInv`,
  `StopInv`); `SameCounts` and `SameHands` dispose of the steps that leave the counted sets, or the hands
  and the channel, alone. From `IInv`: `CountersCorrect`, `NoJobLost`, and `StopWaits` (a step property:
  `wg = 0` means that the set of running goroutines is empty). `MetricsCorrect` adds the balance of the
  metrics, one cardinality argument per step. `PoolDeliversJobs` is the refinement: the fate of a job
  follows from where it is, and `JobsConserved` makes the places exclusive. `WordCorrect` uses it: an
  invariant of `JobDelivery`, proved there in a few lines, holds of the pool because it implements it. For
  `BacklogServed` two step properties are proved: `TurnCorrect` (no job overtakes another one in the
  channel, which needs the jobs in it to be different: `JobsConserved`) and `WatchCorrect` (while jobs wait,
  a worker that is to serve them stays one, if idle timers are punctual). What is left to TLC is that such
  a worker makes its steps.
* **Preparation.** `IInv` is `TypeOK /\ RunShape /\ FlagExact /\ GuardExclusive`. `RunShape` bounds the
  position in a batch and the batch in the interview, which is why no index beyond the total is stored
  (`KeptBounded` is the arithmetic of the cut in `prepareContent`), and says that only guarded runs reach the
  cleanup. `FlagExact` and `GuardExclusive` need each other: the cleanup may clear the flag because no other
  run holds the slot. These and the next three hold without any assumption on what fails. `SuccessCorrect`
  follows a run through its loop (`SavedInv`): of each text it has dealt with the question is stored or in
  `unsaved`. `PublishCorrect` rests on it: a guarded run that has found its question missing (`Checked`) is
  about to publish what no saving run for the same question has published (`PublishInv`), because
  `GuardExclusive` keeps every other one out of the slot; `BatchShape` is what ties the texts of a batch to
  its first. `DroppedCorrect` says what a skipped run may rely on: the run that holds the slot, as long as it
  works, and its question or its failure afterwards (`SkippedPursued`); `Pursued` lasts (`PursuedStep`), since
  questions are never deleted and outcomes final. `RunsEnd` is a variant: `Left` bounds the calls a run has
  yet to make and every step of the run lowers it, so that only a call that does not return can keep a slot.
  `BatchBounded`, from `RunShape`, makes the bound independent of how many texts Darius returns.
* **Flow.** `IInv` is `TypeOK /\ RequestsFit /\ JobsDue /\ InOrder`. A job is `Due` when its question was asked
  for, or its predecessor was asked for and is stored or was passed over. `RequestsFit` says that what a
  handler is about to offer is due, `JobsDue` the same of what waits or is run, and that every text of a batch
  follows a stored one, a passed-over one or another of the batch. Both survive however long a job waits
  because no step takes anything back (`StepsGrow`, `ReachedStays`, `DueStays`); that lemma replaces an argument
  per interleaving. Nothing is assumed of the indices clients ask for. `OrderCorrect` and the refinement
  `FlowFeeds` follow: a prefetch is for the successor of a question that was asked for, so that its batch ends
  `MaxBatch` after that one. `FeedCorrect` (no stored question further than that from one asked for)
  follows from `FlowFeeds` and an invariant of `QuestionFeed`. `FlagsCorrect` is the composed system's version
  of `FlagExact`: the flags are exactly the tasks of the workers past their claim, one worker each.
* **Scoring.** `IInv` adds `CopiesFit` (what the handlers' stale copies can still be relied upon for) and
  `NewIsNew` to the four invariants of `scoring_rows`: an answer is written into a copy that was `NEW`,
  PENDING is written from a copy without feedback, and whoever is past that write finds the interview
  submitted.
  `CoversCorrect` is for instances in which neither database nor Darius fails: `Closed` questions stay
  closed, and `Covers` follows a submission from the answers it read, over what it has yet to score, to the
  row it completes. `OutrosCorrect` is for instances without faults: a PENDING interview has a submission
  at work on it, also when a late one has erased the results of the first. `FinalCorrect` needs no such
  assumption: once nobody is between reading the row and writing PENDING, a completed interview stays completed;
  `scoring_regress` is the step that this condition excludes.
* **Timers.** `IInv` is `TypeOK /\ TimersFit /\ EntriesFit /\ EntryRuns`: only a request that has come to its
  end has a timer, and an entry names a timer of its own question that no request has cancelled. `EntryRuns`
  needs nothing of the client. `OneTimer` rests on `SoleInv`: with one request at a time every running timer
  is in the map or is being waited for. `CancelProtects` rests on `AnswersSafe` instead, which goes without the
  100 ms: while an answer that came in time is on its way its question has no entry, so that a timer that
  expires late finds nothing, and once it is saved no submission of a timeout has found the question new.
  `ForgottenCorrect` rests on `TimeoutInv`: a timer that finds no entry when it expires keeps silent, which
  is right because the entry went with a request that cancelled it or with another timer that fired.
* **Streams.** `StreamsFit` adds to `RegisteredIsRead` that a sender holds the channel of a connection that
  was made: a handler that leaves removes the registration whosever it is, and this is why a channel that
  is still registered is read. `SentCorrect` is the safety part of `SentIsReceived`: what was sent waits in
  its channel or was received, as long as the connection is open.
* **History.** `ReaderInv` relates the pages a client has to the ranks of rows: before the next page come as
  many rows as its offset; a row that was listed at the beginning, has not moved and was not shown yet is at or
  behind it unless `skip`, one that was shown is before it unless `repeat`. `Changes` says what every step
  that changes the list does to the ranks of the rows that stay: `Arrive`, `Leave`, `Rate`, `Swap` and the
  toggles each satisfy it, by `RanksGrow` and `RanksShrink` (one cardinality argument each), and `ListReader`
  concludes once for all of them. The query lemmas say that the result of
  the query holds every listed row once. `NothingSkipped` and `ShownOnce` are parts of the invariant.
* **Favourites.** `AloneFits`: what a toggle on its own has read is still true when it writes. Nothing is said
  about the number of rows that overlapping toggles leave, which is what makes the theorem worth having.
* **Karma.** `IInv` joins `CallsFit` (what a call has seen, at each place it can be at), `CacheFits` (audio is
  stored under the key of its own speech), `OwnAudio` and `FailureExplained`. `MadeOnce` needs `OnceInv`: of
  calls one at a time, what one has made is in Redis when the next looks.
* **Shutdown.** `DatabaseFits` ties the database to the phase of the gRPC server: open from before it serves
  until no request is in a handler. `SignalCorrect`: the gateway registers for signals when it already serves
  (`GatewayListens`), only its shutdown takes a signal out of its channel, and nothing that ends is undone.

Every safety property of the passing runs is a theorem; only model-checked are the liveness properties, which
need fairness and `ENABLED` and are out of the prover's reach. For most of them the theorems have the
part that is safety, that is, what must be true at every state or step for fairness to lead there:

| Liveness property (TLC) | What is proved of it (TLAPS) |
|---|---|
| `BacklogServed` | `TurnCorrect`, `WatchCorrect` |
| `ServedOrRestartable`, `StopReturns` | `CountersCorrect` (the restart and the wait depend on exact counters), `StopWaits` |
| `SlotReleased` | `RunsEnd`, and `FlagsCorrect` of the preparation |
| `RequestServed` | `DroppedCorrect` |
| `EveryoneServed` | `FlagsCorrect` of the flow, `OrderCorrect` |
| `ResultsAvailable` | `OutrosCorrect` |
| `TimedOut` | `ForgottenCorrect` |
| `SentIsReceived` | `SentCorrect` |
| `SignalEnds` | `SignalCorrect` |

The formulas of the right column that no run checks were checked by TLC on the same instances before they
were proved. The argument from them to the left column is TLC's alone.

## 5. Not modelled, and the plan

Within the modelled parts: contents, wording, logging, audio and languages; the RWMutex (its critical
sections are single steps); authentication; filters of lists other than favourites; heartbeats.

Whole parts, and why:

* **Generated code.** The ent client (`pkg/ent`) and the protobuf stubs (`api/*.pb.go`) are some 24,500 of the
  28,700 lines of Go. They contain no logic of this program; the models take them as a table with atomic
  reads and writes, and as a request with its answer. The rest is about 4,200 lines, and of those the models
  stand for the ones that hold state or decide something.
* **Message queue consumer** (`pkg/rabbit`). `Consume` and `Publish` have no caller: `grpc_server.go` and
  `irelia.go` have them commented out, and the broker is not part of the repository.
* **Transaction helper** (`utils/tx`). `WithTransaction` has no caller. (It drops the error of a commit, and
  logs to a nil logger.)
* **Token rotation** (`pkg/database`). `buildToken` returns an error in every case (`driver.go:156`).
* **Redis client** (`pkg/redis`). Connection set-up; the hook that prefixes keys is not installed by the
  client the program uses (`internal/utils/redis`).
* **Demo interviews, logging, extractor, role check, id generator.** Fixed files and stateless helpers.

What could come next:

1. `QuestionTimer` with `EventStreams`: a timeout, from timer to client. They meet in `Notify` only, which changes
   nothing in the timers; the composed state space was too large for the bounds above.
2. Pure operators against reference definitions: the window of `GetQaPair`, the overall score.
3. `Consumer`, should the program come to use the queue.
