------------------------ MODULE InterviewFlow_proofs ------------------------
(***************************************************************************)
(* Proofs about InterviewFlow, for any number of interviews, requests,     *)
(* workers, questions, places in the channel, texts in a batch, asks and   *)
(* faults, and whichever indices clients ask for.                          *)
(***************************************************************************)
EXTENDS InterviewFlow, TLAPS

\* Question i of c was asked for, or its predecessor is stored or was passed over.
Reached(c, i) == i \in asked[c] \/ i - 1 \in stored[c] \cup unsaved[c]

\* Question i of c is at most n after one that was asked for.
Near(c, i, n) == \E a \in asked[c] : a <= i /\ i <= a + n

\* A job is for a question that was asked for, or for the one after it, and then
\* that one has been dealt with.
Due(s) == Reached(s[1], s[2]) /\ Near(s[1], s[2], 1)

\* What a request knows, and that what it is about to offer is due.
RequestFits(r) ==
    /\ handler[r] # "idle" => asking[r] \in Interview \X Question
    /\ handler[r] \in {"idle", "away", "flag"} => reply[r] = "loading"
    /\ handler[r] = "intro" => reply[r] = "id"
    /\ reply[r] = "id" => asking[r][2] = 1
    /\ handler[r] = "flag" => asking[r][2] \in asked[asking[r][1]]
    /\ handler[r] \in {"ensure", "offer"} => Job(r) \in Slot /\ Due(Job(r))

RequestsFit ==
    /\ \A c \in Interview : 1 \in asked[c]
    /\ \A r \in Request : RequestFits(r)

\* Jobs that wait or are run are due, and so is every text of a batch once those
\* before it have been dealt with.
Working(g) == worker[g] \notin {"off", "idle"} => task[g] \in Slot /\ Due(task[g])

Storing(g) ==
    worker[g] = "store" =>
        \A k \in todo[g] :
            /\ task[g][2] <= k /\ k <= task[g][2] + MaxBatch - 1
            /\ Reached(task[g][1], k) \/ k - 1 \in todo[g]

Waiting == \A n \in 1 .. Len(jobQueue) : Due(jobQueue[n])

JobsDue == Waiting /\ \A g \in Worker : Working(g) /\ Storing(g)

\* The inductive invariant.
IInv == TypeOK /\ RequestsFit /\ JobsDue /\ InOrder

\* Nothing a step does takes back a row or a question asked for.
Growing ==
    \A c \in Interview :
        /\ stored[c] \subseteq stored'[c]
        /\ unsaved[c] \subseteq unsaved'[c]
        /\ asked[c] \subseteq asked'[c]

-----------------------------------------------------------------------------
(* Facts about the steps.                                                  *)

\* The indices are numbers, and question 1 exists.
LEMMA IndexFacts ==
    /\ 1 \in Question /\ 2 \in JobIndex
    /\ JobIndex \subseteq Int /\ Question \subseteq JobIndex
    /\ \A i \in Question : i < TotalQuestions => i + 1 \in Question
    /\ \A i \in Question : i <= TotalQuestions
  BY FlowAssumption DEF JobIndex, Question

\* A function that takes another value of its range, or another element into one
\* of its sets, keeps its type.
LEMMA Put ==
    ASSUME NEW A, NEW B, NEW f \in [A -> B], NEW a \in A, NEW b \in B
    PROVE  [f EXCEPT ![a] = b] \in [A -> B]
  OBVIOUS

LEMMA Add ==
    ASSUME NEW A, NEW B, NEW f \in [A -> SUBSET B], NEW a \in A, NEW b \in B
    PROVE  [f EXCEPT ![a] = @ \cup {b}] \in [A -> SUBSET B]
  OBVIOUS

LEMMA AddGrows ==
    ASSUME NEW A, NEW B, NEW f \in [A -> SUBSET B], NEW a, NEW b, NEW x \in A
    PROVE  f[x] \subseteq [f EXCEPT ![a] = @ \cup {b}][x]
  OBVIOUS

LEMMA FaultCounted == TypeOK /\ Fault => faults' \in 0 .. MaxFaults
  BY FlowAssumption DEF TypeOK, Fault

\* The steps that change none of the sets of questions.
LEMMA OthersKeep ==
    /\ \A r \in Request, c \in Interview : CreateInterview(r, c) => UNCHANGED <<rows, asked>>
    /\ \A r \in Request, c \in Interview, i \in Question : Ask(r, c, i) => UNCHANGED <<rows, asked>>
    /\ \A r \in Request : Abandon(r) \/ ReadFlag(r) \/ EnsurePool(r) \/ Offer(r) => UNCHANGED <<rows, asked>>
    /\ \A g \in Worker :
         TakeJob(g) \/ IdleExit(g) \/ (Run(g) /\ ~Store(g)) => UNCHANGED <<rows, asked>>
    /\ Crash \/ UNCHANGED vars => UNCHANGED <<rows, asked>>
<1>1. \A r \in Request, c \in Interview : CreateInterview(r, c) => UNCHANGED <<rows, asked>>
  BY DEF CreateInterview
<1>2. \A r \in Request, c \in Interview, i \in Question : Ask(r, c, i) => UNCHANGED <<rows, asked>>
  BY DEF Ask
<1>3. \A r \in Request : Abandon(r) \/ ReadFlag(r) \/ EnsurePool(r) \/ Offer(r) => UNCHANGED <<rows, asked>>
  BY DEF Abandon, ReadFlag, EnsurePool, Offer, clients
<1>4. \A g \in Worker :
        TakeJob(g) \/ IdleExit(g) \/ (Run(g) /\ ~Store(g)) => UNCHANGED <<rows, asked>>
  BY DEF TakeJob, IdleExit, Run, Claim, CheckExists, Generate, Release, clients
<1>5. Crash \/ UNCHANGED vars => UNCHANGED <<rows, asked>>
  BY DEF Crash, vars, clients
<1> QED BY <1>1, <1>2, <1>3, <1>4, <1>5

LEMMA StepsGrow == TypeOK /\ [Next]_vars => Growing
<1> SUFFICES ASSUME TypeOK, [Next]_vars PROVE Growing
  OBVIOUS
<1>1. /\ stored \in [Interview -> SUBSET Question] /\ unsaved \in [Interview -> SUBSET Question]
      /\ asked \in [Interview -> SUBSET Question]
  BY DEF TypeOK
<1>2. ASSUME NEW r \in Request, PrepareIntro(r) PROVE Growing
  <2>1. UNCHANGED asked
    BY <1>2 DEF PrepareIntro, clients
  <2>2. \/ stored' = [stored EXCEPT ![asking[r][1]] = @ \cup {1}] /\ UNCHANGED unsaved
        \/ unsaved' = [unsaved EXCEPT ![asking[r][1]] = @ \cup {1}] /\ UNCHANGED stored
        \/ UNCHANGED <<stored, unsaved>>
    BY <1>2 DEF PrepareIntro, rows
  <2> QED BY <1>1, <2>1, <2>2, AddGrows DEF Growing
<1>3. ASSUME NEW r \in Request, Lookup(r) PROVE Growing
  <2>1. UNCHANGED <<stored, unsaved>>
    BY <1>3 DEF Lookup, rows
  <2>2. asked' = [asked EXCEPT ![asking[r][1]] = @ \cup {asking[r][2]}]
    BY <1>3 DEF Lookup
  <2> QED BY <1>1, <2>1, <2>2, AddGrows DEF Growing
<1>4. ASSUME NEW g \in Worker, Store(g) PROVE Growing
  <2>1. UNCHANGED asked
    BY <1>4 DEF Store, clients
  <2>2. PICK i \in todo[g] :
           \/ stored' = [stored EXCEPT ![task[g][1]] = @ \cup {i}] /\ UNCHANGED unsaved
           \/ unsaved' = [unsaved EXCEPT ![task[g][1]] = @ \cup {i}] /\ UNCHANGED stored
    BY <1>4 DEF Store
  <2> QED BY <1>1, <2>1, <2>2, AddGrows DEF Growing
<1>5. CASE UNCHANGED <<rows, asked>>
  BY <1>5 DEF rows, Growing
<1> QED BY <1>2, <1>3, <1>4, <1>5, OthersKeep DEF Next, Handle, Run

\* A question that was reached, or a job that is due, stays so.
LEMMA ReachedStays ==
    ASSUME Growing, NEW c \in Interview, NEW i, Reached(c, i)
    PROVE  Reached(c, i)'
  BY DEF Growing, Reached

LEMMA DueStays ==
    ASSUME Growing, NEW s \in Slot, Due(s)
    PROVE  Due(s)'
<1>1. s[1] \in Interview
  BY DEF Slot
<1>2. Reached(s[1], s[2])'
  BY <1>1, ReachedStays DEF Due
<1>3. Near(s[1], s[2], 1)'
  BY <1>1 DEF Due, Near, Growing
<1> QED BY <1>2, <1>3 DEF Due

\* A question that was asked for is due itself, and so is the one after it once it
\* has been dealt with.
LEMMA AskedIsDue ==
    ASSUME TypeOK, NEW c \in Interview, NEW i \in asked[c]
    PROVE  /\ Due(<<c, i>>)
           /\ i \in stored[c] \cup unsaved[c] => Due(<<c, i + 1>>)
<1>1. i \in Int
  BY IndexFacts DEF TypeOK
<1>2. Near(c, i, 1) /\ Near(c, i + 1, 1)
  BY <1>1 DEF Near
<1>3. Reached(c, i) /\ (i \in stored[c] \cup unsaved[c] => Reached(c, i + 1))
  BY <1>1 DEF Reached
<1> QED BY <1>2, <1>3 DEF Due

-----------------------------------------------------------------------------
(* The invariant holds initially, and steps preserve it.                   *)

LEMMA InitInv == Init => IInv
<1> SUFFICES ASSUME Init PROVE IInv
  OBVIOUS
<1>1. jobQueue \in Seq(Slot) /\ Len(jobQueue) = 0
  BY DEF Init
<1>2. TypeOK
  BY <1>1, IndexFacts, FlowAssumption DEF Init, TypeOK, HandlerState, Phase
<1>3. RequestsFit
  BY DEF Init, RequestsFit, RequestFits
<1>4. JobsDue /\ InOrder
  BY <1>1 DEF Init, JobsDue, Waiting, Working, Storing, InOrder
<1> QED BY <1>2, <1>3, <1>4 DEF IInv

LEMMA TypeStep == IInv /\ [Next]_vars => TypeOK'
<1> SUFFICES ASSUME IInv, [Next]_vars PROVE TypeOK'
  OBVIOUS
<1>0. TypeOK /\ RequestsFit /\ JobsDue
  BY DEF IInv
<1>f. Fault => faults' \in 0 .. MaxFaults
  BY <1>0, FaultCounted
<1>r. /\ stored \in [Interview -> SUBSET Question] /\ unsaved \in [Interview -> SUBSET Question]
      /\ asked \in [Interview -> SUBSET Question]
  BY <1>0 DEF TypeOK
<1>w. worker \in [Worker -> Phase] /\ todo \in [Worker -> SUBSET Question] /\ faults \in 0 .. MaxFaults
  BY <1>0 DEF TypeOK
<1>h. /\ handler \in [Request -> HandlerState]
      /\ asking \in [Request -> (Interview \X Question) \cup {NoJob}]
      /\ reply \in [Request -> {"id", "loading", "question"}]
      /\ interview \in [Interview -> {"new", "started", "open"}]
  BY <1>0 DEF TypeOK
\* The three variables of the requests.
<1> DEFINE RequestsOK ==
      /\ handler' \in [Request -> HandlerState]
      /\ asking' \in [Request -> (Interview \X Question) \cup {NoJob}]
      /\ reply' \in [Request -> {"id", "loading", "question"}]
<1>e. ASSUME NEW r \in Request, Return(r) PROVE RequestsOK
  BY <1>h, <1>e DEF Return, Goto, HandlerState
<1>u. UNCHANGED requests => RequestsOK
  BY <1>h DEF requests
<1>1. ASSUME NEW r \in Request, NEW c \in Interview, CreateInterview(r, c) PROVE TypeOK'
  <2>1. RequestsOK
    BY <1>h, <1>u, <1>1, IndexFacts DEF CreateInterview, Goto, HandlerState
  <2>2. faults' \in 0 .. MaxFaults
    BY <1>f, <1>w, <1>1 DEF CreateInterview
  <2>3. interview' \in [Interview -> {"new", "started", "open"}]
    BY <1>h, <1>1 DEF CreateInterview
  <2> QED BY <1>0, <1>1, <2>1, <2>2, <2>3 DEF CreateInterview, rows, workers, TypeOK
<1>2. ASSUME NEW r \in Request, PrepareIntro(r) PROVE TypeOK'
  <2>1. asking[r][1] \in Interview
    BY <1>0, <1>2 DEF PrepareIntro, RequestsFit, RequestFits
  <2>2. \/ stored' = [stored EXCEPT ![asking[r][1]] = @ \cup {1}] /\ UNCHANGED unsaved
        \/ unsaved' = [unsaved EXCEPT ![asking[r][1]] = @ \cup {1}] /\ UNCHANGED stored
        \/ UNCHANGED <<stored, unsaved>>
    BY <1>2 DEF PrepareIntro, rows
  <2>3. stored' \in [Interview -> SUBSET Question] /\ unsaved' \in [Interview -> SUBSET Question]
    BY <1>r, <2>1, <2>2, Add, IndexFacts
  <2>4. faults' \in 0 .. MaxFaults
    BY <1>f, <1>w, <1>2 DEF PrepareIntro
  <2>5. RequestsOK
    BY <1>h, <1>e, <1>2 DEF PrepareIntro, Goto, HandlerState
  <2> QED BY <1>0, <1>2, <2>3, <2>4, <2>5 DEF PrepareIntro, clients, workers, TypeOK
<1>3. ASSUME NEW r \in Request, NEW c \in Interview, NEW i \in Question, Ask(r, c, i) PROVE TypeOK'
  <2>1. RequestsOK
    BY <1>h, <1>3 DEF Ask, Goto, HandlerState
  <2>2. asks' \in 0 .. MaxAsks
    BY <1>0, <1>3, FlowAssumption DEF Ask, TypeOK
  <2> QED BY <1>0, <1>3, <2>1, <2>2 DEF Ask, rows, workers, TypeOK
<1>4. ASSUME NEW r \in Request, Abandon(r) PROVE TypeOK'
  BY <1>0, <1>e, <1>4 DEF Abandon, clients, rows, workers, TypeOK
<1>5. ASSUME NEW r \in Request, Lookup(r) PROVE TypeOK'
  <2>1. asking[r] \in Interview \X Question
    BY <1>0, <1>5 DEF Lookup, RequestsFit, RequestFits
  <2>2. asked' \in [Interview -> SUBSET Question]
    <3>1. asked' = [asked EXCEPT ![asking[r][1]] = @ \cup {asking[r][2]}]
      BY <1>5 DEF Lookup
    <3>2. asking[r][1] \in Interview /\ asking[r][2] \in Question
      BY <2>1
    <3> QED BY <1>r, <3>1, <3>2, Add
  <2>3. RequestsOK
    BY <1>h, <1>e, <1>u, <1>5 DEF Lookup, Goto, HandlerState
  <2>4. faults' \in 0 .. MaxFaults
    BY <1>f, <1>w, <1>5 DEF Lookup
  <2> QED BY <1>0, <1>5, <2>2, <2>3, <2>4 DEF Lookup, rows, workers, TypeOK
<1>6. ASSUME NEW r \in Request, ReadFlag(r) \/ EnsurePool(r) PROVE TypeOK'
  BY <1>0, <1>6 DEF ReadFlag, EnsurePool, Goto, HandlerState, Phase, clients, rows, workers, TypeOK
<1>7. ASSUME NEW r \in Request, Offer(r) PROVE TypeOK'
  <2>1. handler[r] = "offer" /\ Job(r) \in Slot /\ asking[r][1] \in Interview
    BY <1>0, <1>7 DEF Offer, RequestsFit, RequestFits
  <2>2. jobQueue' \in Seq(Slot) /\ Len(jobQueue') <= QueueCapacity
    <3>1. jobQueue \in Seq(Slot) /\ Len(jobQueue) <= QueueCapacity
      BY <1>0 DEF TypeOK
    <3>2. QueueCapacity \in Nat /\ Len(jobQueue) \in Nat
      BY <3>1, FlowAssumption
    <3>3. Append(jobQueue, Job(r)) \in Seq(Slot) /\ Len(Append(jobQueue, Job(r))) = Len(jobQueue) + 1
      BY <2>1, <3>1
    <3> QED BY <1>7, <3>1, <3>2, <3>3 DEF Offer
  <2>3. RequestsOK
    BY <1>h, <1>e, <1>7 DEF Offer, Goto, HandlerState
  <2>4. interview' \in [Interview -> {"new", "started", "open"}]
    BY <1>h, <1>7, <2>1 DEF Offer
  <2> QED BY <1>0, <1>7, <2>2, <2>3, <2>4 DEF Offer, rows, workers, TypeOK
<1>8. ASSUME NEW g \in Worker, TakeJob(g) PROVE TypeOK'
  <2>1. Head(jobQueue) \in Slot /\ Tail(jobQueue) \in Seq(Slot) /\ Len(Tail(jobQueue)) <= QueueCapacity
    BY <1>0, <1>8, FlowAssumption DEF TakeJob, TypeOK
  <2> QED BY <1>0, <1>8, <2>1 DEF TakeJob, Enter, Phase, requests, clients, rows, TypeOK
<1>9. ASSUME NEW g \in Worker, IdleExit(g) \/ CheckExists(g) PROVE TypeOK'
  <2>1. faults' \in 0 .. MaxFaults
    BY <1>f, <1>w, <1>9 DEF IdleExit, CheckExists
  <2>2. \E p \in Phase : worker' = [worker EXCEPT ![g] = p]
    BY <1>9 DEF IdleExit, CheckExists, Enter, Phase
  <2>3. worker' \in [Worker -> Phase]
    BY <1>w, <2>2, Put
  <2> QED BY <1>0, <1>9, <2>1, <2>3 DEF IdleExit, CheckExists, requests, clients, rows, TypeOK
<1>10. ASSUME NEW g \in Worker, Claim(g) \/ Release(g) PROVE TypeOK'
  <2>1. task[g] \in Slot
    BY <1>0, <1>10 DEF JobsDue, Working, Claim, Release
  <2> QED BY <1>0, <1>10, <2>1 DEF Claim, Release, Finish, Enter, Phase, requests, clients, rows, TypeOK
<1>11. ASSUME NEW g \in Worker, Generate(g) PROVE TypeOK'
  <2>1. task[g] \in Slot
    BY <1>0, <1>11 DEF JobsDue, Working, Generate
  <2>2. \A n \in 1 .. MaxBatch :
          {i \in task[g][2] .. task[g][2] + n - 1 : i <= TotalQuestions} \in SUBSET Question
    <3>1. task[g][2] \in Int /\ task[g][2] >= FirstIndex
      BY <2>1, FlowAssumption DEF Slot, JobIndex, Question
    <3> QED BY <3>1, FlowAssumption DEF Question
  <2>3. UNCHANGED todo \/ \E S \in SUBSET Question : todo' = [todo EXCEPT ![g] = S]
    BY <1>11, <2>2 DEF Generate
  <2>4. todo' \in [Worker -> SUBSET Question]
    BY <1>w, <2>3, Put
  <2>5. \E p \in Phase : worker' = [worker EXCEPT ![g] = p]
    BY <1>11 DEF Generate, Enter, Phase
  <2>6. worker' \in [Worker -> Phase]
    BY <1>w, <2>5, Put
  <2>7. faults' \in 0 .. MaxFaults
    BY <1>f, <1>w, <1>11 DEF Generate
  <2> QED BY <1>0, <1>11, <2>4, <2>6, <2>7 DEF Generate, requests, clients, rows, TypeOK
<1>12. ASSUME NEW g \in Worker, Store(g) PROVE TypeOK'
  <2>1. PICK i \in todo[g] :
           /\ \/ /\ stored' = [stored EXCEPT ![task[g][1]] = @ \cup {i}]
                 /\ UNCHANGED <<unsaved, faults>>
              \/ /\ Fault
                 /\ unsaved' = [unsaved EXCEPT ![task[g][1]] = @ \cup {i}]
                 /\ UNCHANGED stored
           /\ todo' = [todo EXCEPT ![g] = @ \ {i}]
           /\ Enter(g, IF todo[g] = {i} THEN "release" ELSE "store")
    BY <1>12 DEF Store
  <2>2. i \in Question /\ task[g][1] \in Interview
    BY <1>w, <1>0, <1>12 DEF JobsDue, Working, Store, Slot
  <2>3. stored' \in [Interview -> SUBSET Question] /\ unsaved' \in [Interview -> SUBSET Question]
    <3> DEFINE c == task[g][1]
    <3>1. c \in Interview
      BY <2>2
    <3>2. /\ stored' = [stored EXCEPT ![c] = @ \cup {i}] \/ UNCHANGED stored
          /\ unsaved' = [unsaved EXCEPT ![c] = @ \cup {i}] \/ UNCHANGED unsaved
      BY <2>1
    <3> HIDE DEF c
    <3>3. /\ [stored EXCEPT ![c] = @ \cup {i}] \in [Interview -> SUBSET Question]
          /\ [unsaved EXCEPT ![c] = @ \cup {i}] \in [Interview -> SUBSET Question]
      BY <1>r, <2>2, <3>1, Add
    <3> QED BY <1>r, <3>2, <3>3
  <2>4. todo' \in [Worker -> SUBSET Question] /\ worker' \in [Worker -> Phase]
    BY <1>w, <2>1 DEF Enter, Phase
  <2>5. faults' \in 0 .. MaxFaults
    BY <1>f, <1>w, <2>1
  <2> QED BY <1>0, <1>12, <2>3, <2>4, <2>5 DEF Store, requests, clients, TypeOK
<1>13. CASE Crash
  <2>1. <<>> \in Seq(Slot) /\ Len(<<>>) <= QueueCapacity
    BY FlowAssumption
  <2>2. /\ worker' \in [Worker -> Phase]
        /\ task' \in [Worker -> Slot \cup {NoJob}]
        /\ todo' \in [Worker -> SUBSET Question]
    BY <1>13 DEF Crash, Phase
  <2>3. RequestsOK
    BY <1>h, <1>13 DEF Crash, HandlerState
  <2> QED BY <1>0, <1>f, <1>13, <2>1, <2>2, <2>3 DEF Crash, clients, rows, TypeOK
<1>14. CASE UNCHANGED vars
  BY <1>0, <1>14 DEF vars, requests, clients, rows, workers, TypeOK
<1> QED BY <1>1, <1>2, <1>3, <1>4, <1>5, <1>6, <1>7, <1>8, <1>9, <1>10, <1>11, <1>12, <1>13, <1>14
        DEF Next, Handle, Run

LEMMA RequestsStep == IInv /\ TypeOK' /\ Growing /\ [Next]_vars => RequestsFit'
<1> SUFFICES ASSUME IInv, TypeOK', Growing, [Next]_vars PROVE RequestsFit'
  OBVIOUS
<1>0. TypeOK /\ \A d \in Request : RequestFits(d)
  BY DEF IInv, RequestsFit
<1>t. /\ handler \in [Request -> HandlerState]
      /\ asking \in [Request -> (Interview \X Question) \cup {NoJob}]
      /\ reply \in [Request -> {"id", "loading", "question"}]
      /\ stored \in [Interview -> SUBSET Question] /\ unsaved \in [Interview -> SUBSET Question]
      /\ asked \in [Interview -> SUBSET Question]
  BY <1>0 DEF TypeOK
<1>a. \A c \in Interview : 1 \in asked'[c]
  BY DEF IInv, RequestsFit, Growing
<1>d. \A s \in Slot : Due(s) => Due(s)'
  BY DueStays
\* The job of a request, once it is the due job s, or the one it had.
<1>i. ASSUME NEW r \in Request, NEW s \in Slot, Due(s)', Job(r)' = s
      PROVE  Job(r)' \in Slot /\ Due(Job(r))'
  BY <1>i DEF Due, Reached, Near
<1>j. ASSUME NEW r \in Request, Job(r) \in Slot, Due(Job(r)), Job(r)' = Job(r)
      PROVE  Job(r)' \in Slot /\ Due(Job(r))'
  <2>1. PICK s \in Slot : Job(r) = s
    BY <1>j
  <2>2. Due(s)
    BY <1>j, <2>1 DEF Due, Reached, Near
  <2> QED BY <1>d, <1>i, <1>j, <2>1, <2>2
\* A request that does not move keeps what it knows.
<1>s. ASSUME NEW d \in Request,
             handler'[d] = handler[d], asking'[d] = asking[d], reply'[d] = reply[d]
      PROVE  RequestFits(d)'
  <2>1. Job(d)' = Job(d)
    BY <1>s DEF Job
  <2>2. handler[d] \in {"ensure", "offer"} => Job(d)' \in Slot /\ Due(Job(d))'
    <3>1. handler[d] \in {"ensure", "offer"} => Job(d) \in Slot /\ Due(Job(d))
      BY <1>0 DEF RequestFits
    <3> QED BY <1>j, <2>1, <3>1
  <2>3. handler[d] = "flag" => asking[d][2] \in asked'[asking[d][1]]
    BY <1>0 DEF RequestFits, Growing
  <2> QED BY <1>0, <1>s, <2>2, <2>3 DEF RequestFits
\* One that has ended knows nothing.
<1>e. ASSUME NEW d \in Request, Return(d) PROVE RequestFits(d)'
  BY <1>t, <1>e DEF Return, Goto, RequestFits
\* The others do not notice that r moves.
<1> DEFINE OthersRest(r) ==
      \A d \in Request \ {r} :
        handler'[d] = handler[d] /\ asking'[d] = asking[d] /\ reply'[d] = reply[d]
<1>o. ASSUME NEW r \in Request, OthersRest(r), RequestFits(r)' PROVE RequestsFit'
  BY <1>a, <1>s, <1>o DEF RequestsFit
<1>1. ASSUME NEW r \in Request, NEW c \in Interview, CreateInterview(r, c) PROVE RequestsFit'
  <2>1. CASE UNCHANGED requests
    BY <1>a, <1>s, <2>1 DEF requests, RequestsFit
  <2>2. CASE /\ Goto(r, "intro")
             /\ asking' = [asking EXCEPT ![r] = <<c, 1>>]
             /\ reply' = [reply EXCEPT ![r] = "id"]
    <3>1. OthersRest(r)
      BY <1>t, <2>2 DEF Goto
    <3>2. RequestFits(r)'
      BY <1>t, <2>2, IndexFacts DEF Goto, RequestFits
    <3> QED BY <1>o, <3>1, <3>2
  <2> QED BY <1>1, <2>1, <2>2 DEF CreateInterview
<1>2. ASSUME NEW r \in Request, PrepareIntro(r) PROVE RequestsFit'
  <2>i. handler[r] = "intro" /\ reply[r] = "id" /\ asking[r] \in Interview \X Question
        /\ asking[r][2] = 1
    BY <1>0, <1>2 DEF PrepareIntro, RequestFits
  <2>c. PICK c \in Interview : asking[r] = <<c, 1>>
    BY <2>i
  <2>0. handler[r] = "intro" /\ reply[r] = "id" /\ asking[r][1] = c
    BY <2>i, <2>c
  <2>1. CASE Return(r)
    BY <1>e, <1>o, <1>t, <2>1 DEF Return, Goto
  <2>2. CASE /\ Goto(r, "ensure") /\ UNCHANGED <<asking, reply>>
             /\ \/ stored' = [stored EXCEPT ![c] = @ \cup {1}]
                \/ unsaved' = [unsaved EXCEPT ![c] = @ \cup {1}]
    <3>1. OthersRest(r)
      BY <1>t, <2>2 DEF Goto
    <3>2. 1 \in stored'[c] \cup unsaved'[c]
      BY <1>t, <2>0, <2>2
    <3>3. Due(<<c, 2>>)'
      BY <1>a, <3>2 DEF Due, Reached, Near
    <3>4. Job(r)' = <<c, 2>> /\ <<c, 2>> \in Slot
      BY <2>0, <2>c, <2>2, IndexFacts DEF Job, Slot
    <3>5. Job(r)' \in Slot /\ Due(Job(r))'
      BY <1>i, <3>3, <3>4
    <3>6. handler'[r] = "ensure" /\ asking'[r] = asking[r] /\ reply'[r] = "id"
      BY <1>t, <2>0, <2>2 DEF Goto
    <3>7. RequestFits(r)'
      BY <2>i, <3>5, <3>6 DEF RequestFits
    <3> QED BY <1>o, <3>1, <3>7
  <2> QED BY <1>2, <2>0, <2>1, <2>2 DEF PrepareIntro
<1>3. ASSUME NEW r \in Request, NEW c \in Interview, NEW i \in Question, Ask(r, c, i) PROVE RequestsFit'
  <2>1. OthersRest(r)
    BY <1>t, <1>3 DEF Ask, Goto
  <2>2. reply[r] = "loading"
    BY <1>0, <1>3 DEF Ask, RequestFits
  <2>3. RequestFits(r)'
    BY <1>t, <1>3, <2>2 DEF Ask, Goto, RequestFits
  <2> QED BY <1>o, <2>1, <2>3
<1>4. ASSUME NEW r \in Request, Abandon(r) PROVE RequestsFit'
  BY <1>e, <1>o, <1>t, <1>4 DEF Abandon, Return, Goto
<1>5. ASSUME NEW r \in Request, Lookup(r) PROVE RequestsFit'
  <2>0. handler[r] = "away" /\ reply[r] = "loading" /\ asking[r] \in Interview \X Question
    BY <1>0, <1>5 DEF Lookup, RequestFits
  <2>c. PICK c \in Interview, i \in Question : asking[r] = <<c, i>>
    BY <2>0
  <2>d. asking[r][1] = c /\ asking[r][2] = i
    BY <2>c
  <2>a. i \in asked'[c] /\ UNCHANGED <<stored, unsaved>>
    BY <1>t, <1>5, <2>d DEF Lookup, rows
  <2>1. CASE UNCHANGED requests
    BY <1>a, <1>s, <2>1 DEF requests, RequestsFit
  <2>2. CASE Return(r)
    BY <1>e, <1>o, <1>t, <2>2 DEF Return, Goto
  <2>3. CASE /\ i \in stored[c] /\ i < TotalQuestions
             /\ reply' = [reply EXCEPT ![r] = "question"]
             /\ Goto(r, "ensure") /\ UNCHANGED asking
    <3>1. OthersRest(r)
      BY <1>t, <2>3 DEF Goto
    <3>2. i \in stored'[c] /\ i \in Int /\ i + 1 \in Question
      BY <2>a, <2>3, IndexFacts
    <3>3. Due(<<c, i + 1>>)'
      BY <2>a, <3>2 DEF Due, Reached, Near
    <3>4. handler'[r] = "ensure" /\ asking'[r] = asking[r] /\ reply'[r] = "question"
      BY <1>t, <2>3 DEF Goto
    <3>5. Job(r)' = <<c, i + 1>> /\ <<c, i + 1>> \in Slot
      BY <2>d, <3>2, <3>4, IndexFacts DEF Job, Slot
    <3>6. Job(r)' \in Slot /\ Due(Job(r))'
      BY <1>i, <3>3, <3>5
    <3>7. RequestFits(r)'
      BY <2>0, <3>4, <3>6 DEF RequestFits
    <3> QED BY <1>o, <3>1, <3>7
  <2>4. CASE Goto(r, "flag") /\ UNCHANGED <<asking, reply>>
    <3>1. OthersRest(r)
      BY <1>t, <2>4 DEF Goto
    <3>2. RequestFits(r)'
      BY <1>t, <2>0, <2>d, <2>a, <2>4 DEF Goto, RequestFits
    <3> QED BY <1>o, <3>1, <3>2
  <2> QED BY <1>5, <2>d, <2>1, <2>2, <2>3, <2>4 DEF Lookup
<1>6. ASSUME NEW r \in Request, ReadFlag(r) PROVE RequestsFit'
  <2>1. UNCHANGED <<asking, reply, asked, stored, unsaved>> /\ handler[r] = "flag"
    BY <1>6 DEF ReadFlag, clients, rows
  <2>2. /\ asking[r] \in Interview \X Question /\ reply[r] = "loading"
        /\ asking[r][2] \in asked[asking[r][1]]
    BY <1>0, <2>1 DEF RequestFits
  <2>3. PICK c \in Interview, i \in Question : asking[r] = <<c, i>>
    BY <2>2
  <2>4. i \in asked[c] /\ <<c, i>> \in Slot
    BY <2>2, <2>3, IndexFacts DEF Slot
  <2>5. Due(<<c, i>>)'
    BY <1>0, <1>d, <2>4, AskedIsDue
  <2>6. Job(r)' = <<c, i>>
    BY <2>1, <2>2, <2>3 DEF Job
  <2>7. Job(r)' \in Slot /\ Due(Job(r))'
    BY <1>i, <2>4, <2>5, <2>6
  <2>8. handler'[r] \in {"away", "ensure"} /\ asking'[r] = asking[r] /\ reply'[r] = "loading"
    BY <1>t, <1>6, <2>1, <2>2 DEF ReadFlag, Goto
  <2>9. RequestFits(r)'
    BY <2>2, <2>7, <2>8 DEF RequestFits
  <2>10. OthersRest(r)
    BY <1>t, <1>6, <2>1 DEF ReadFlag, Goto
  <2> QED BY <1>o, <2>9, <2>10
<1>7. ASSUME NEW r \in Request, EnsurePool(r) PROVE RequestsFit'
  <2>1. UNCHANGED <<asking, reply>> /\ handler[r] = "ensure" /\ handler'[r] = "offer"
    BY <1>t, <1>7 DEF EnsurePool, Goto
  <2>2. Job(r) \in Slot /\ Due(Job(r)) /\ asking[r] \in Interview \X Question
    BY <1>0, <2>1 DEF RequestFits
  <2>4. Job(r)' = Job(r)
    BY <2>1 DEF Job
  <2>5. Job(r)' \in Slot /\ Due(Job(r))'
    BY <1>j, <2>2, <2>4
  <2>6. RequestFits(r)'
    BY <1>0, <2>1, <2>2, <2>5 DEF RequestFits
  <2>7. OthersRest(r)
    BY <1>t, <1>7, <2>1 DEF EnsurePool, Goto
  <2> QED BY <1>o, <2>6, <2>7
<1>8. ASSUME NEW r \in Request, Offer(r) PROVE RequestsFit'
  <2>1. CASE Return(r)
    BY <1>e, <1>o, <1>t, <2>1 DEF Return, Goto
  <2>2. CASE reply[r] = "loading" /\ Goto(r, "away") /\ UNCHANGED <<asking, reply>>
    <3>1. handler[r] = "offer" /\ asking[r] \in Interview \X Question
      BY <1>0, <1>8 DEF Offer, RequestFits
    <3>2. RequestFits(r)'
      BY <1>t, <2>2, <3>1 DEF Goto, RequestFits
    <3>3. OthersRest(r)
      BY <1>t, <2>2 DEF Goto
    <3> QED BY <1>o, <3>2, <3>3
  <2> QED BY <1>8, <2>1, <2>2 DEF Offer
<1>9. CASE UNCHANGED requests
  BY <1>a, <1>s, <1>9 DEF requests, RequestsFit
<1>10. CASE Crash
  <2>1. ASSUME NEW d \in Request PROVE RequestFits(d)'
    <3>1. \/ handler'[d] = "idle"
          \/ handler'[d] = "away" /\ handler[d] # "idle" /\ reply[d] # "id"
      BY <1>10 DEF Crash
    <3>2. reply'[d] = "loading" /\ (reply[d] # "id" => asking'[d] = asking[d])
      BY <1>10 DEF Crash
    <3> QED BY <1>0, <3>1, <3>2 DEF RequestFits
  <2> QED BY <1>a, <2>1 DEF RequestsFit
<1>11. ASSUME NEW g \in Worker, TakeJob(g) \/ IdleExit(g) \/ Run(g) PROVE UNCHANGED requests
  BY <1>11 DEF TakeJob, IdleExit, Run, Claim, CheckExists, Generate, Store, Release
<1> QED BY <1>1, <1>2, <1>3, <1>4, <1>5, <1>6, <1>7, <1>8, <1>9, <1>10, <1>11
        DEF Next, Handle, vars

LEMMA JobsStep == IInv /\ TypeOK' /\ Growing /\ [Next]_vars => JobsDue'
<1> SUFFICES ASSUME IInv, TypeOK', Growing, [Next]_vars PROVE JobsDue'
  OBVIOUS
<1>0. Waiting /\ \A g \in Worker : Working(g) /\ Storing(g)
  BY DEF IInv, JobsDue
<1>t. /\ jobQueue \in Seq(Slot) /\ worker \in [Worker -> Phase]
      /\ task \in [Worker -> Slot \cup {NoJob}] /\ todo \in [Worker -> SUBSET Question]
      /\ stored \in [Interview -> SUBSET Question] /\ unsaved \in [Interview -> SUBSET Question]
  BY DEF IInv, TypeOK
<1>d. \A s \in Slot : Due(s) => Due(s)'
  BY DueStays
\* What does not change stays due, because nothing is taken back.
<1>w. ASSUME \A n \in 1 .. Len(jobQueue') : jobQueue'[n] \in Slot /\ \E s \in Slot : s = jobQueue'[n] /\ Due(s)
      PROVE  Waiting'
  BY <1>d, <1>w DEF Waiting, Due, Reached, Near
<1>q. jobQueue' = jobQueue => Waiting'
  BY <1>0, <1>t, <1>w DEF Waiting, Due, Reached, Near
<1>g. ASSUME NEW g \in Worker, NEW s \in Slot, task'[g] = s, Due(s)
      PROVE  Working(g)'
  BY <1>d, <1>g DEF Working, Due, Reached, Near
<1>k. ASSUME NEW g \in Worker, worker[g] \notin {"off", "idle"}
      PROVE  \E s \in Slot : task[g] = s /\ Due(s)
  BY <1>0, <1>k DEF Working, Due, Reached, Near
<1>s. ASSUME NEW g \in Worker, worker'[g] = worker[g], task'[g] = task[g], todo'[g] = todo[g]
      PROVE  Working(g)' /\ Storing(g)'
  <2>1. Working(g)'
    <3>1. CASE worker[g] \in {"off", "idle"}
      BY <1>s, <3>1 DEF Working
    <3> QED BY <1>g, <1>k, <1>s, <3>1
  <2>2. Storing(g)'
    <3> SUFFICES ASSUME worker[g] = "store", NEW k \in todo[g]
                 PROVE  /\ task[g][2] <= k /\ k <= task[g][2] + MaxBatch - 1
                        /\ \/ k \in asked'[task[g][1]] \/ k - 1 \in todo[g]
                           \/ k - 1 \in stored'[task[g][1]] \cup unsaved'[task[g][1]]
      BY <1>s DEF Storing, Reached
    <3>1. task[g][1] \in Interview
      BY <1>k DEF Slot
    <3>2. /\ task[g][2] <= k /\ k <= task[g][2] + MaxBatch - 1
          /\ \/ k \in asked[task[g][1]] \/ k - 1 \in todo[g]
             \/ k - 1 \in stored[task[g][1]] \cup unsaved[task[g][1]]
      BY <1>0 DEF Storing, Reached
    <3> QED BY <3>1, <3>2 DEF Growing
  <2> QED BY <2>1, <2>2
\* A worker whose batch is empty, or which is not at the texts.
<1>m. ASSUME NEW g \in Worker, worker'[g] # "store", task'[g] = task[g],
             worker[g] \notin {"off", "idle"}
      PROVE  Working(g)' /\ Storing(g)'
  BY <1>g, <1>k, <1>m DEF Storing
<1>f. ASSUME NEW g \in Worker, worker'[g] \in {"off", "idle"} PROVE Working(g)' /\ Storing(g)'
  BY <1>f DEF Working, Storing
<1>1. ASSUME UNCHANGED <<jobQueue, task, todo>>,
             UNCHANGED worker \/ worker' = [g \in Worker |-> "idle"]
      PROVE  JobsDue'
  BY <1>f, <1>q, <1>s, <1>1 DEF JobsDue
<1>2. ASSUME NEW r \in Request, PrepareIntro(r) \/ Lookup(r) \/ ReadFlag(r) \/ EnsurePool(r) \/ Abandon(r)
      PROVE  JobsDue'
  BY <1>1, <1>2 DEF PrepareIntro, Lookup, ReadFlag, EnsurePool, Abandon, workers
<1>3. ASSUME NEW r \in Request, NEW c \in Interview,
             CreateInterview(r, c) \/ \E i \in Question : Ask(r, c, i)
      PROVE  JobsDue'
  BY <1>1, <1>3 DEF CreateInterview, Ask, workers
<1>4. ASSUME NEW r \in Request, Offer(r) PROVE JobsDue'
  <2>1. UNCHANGED workers
    BY <1>4 DEF Offer
  <2>2. Job(r) \in Slot /\ Due(Job(r))
    BY <1>4 DEF IInv, RequestsFit, RequestFits, Offer
  <2>3. PICK s \in Slot : Job(r) = s /\ Due(s)
    BY <2>2 DEF Due, Reached, Near
  <2>4. Waiting'
    <3>1. CASE jobQueue' = Append(jobQueue, s)
      <4>1. \A n \in 1 .. Len(jobQueue') : jobQueue'[n] \in Slot /\ (jobQueue'[n] = s \/ n \in 1 .. Len(jobQueue))
        BY <1>t, <3>1
      <4>2. \A n \in 1 .. Len(jobQueue) : jobQueue'[n] = jobQueue[n]
        BY <1>t, <3>1
      <4>3. ASSUME NEW n \in 1 .. Len(jobQueue) PROVE \E u \in Slot : u = jobQueue[n] /\ Due(u)
        BY <1>0, <1>t DEF Waiting, Due, Reached, Near
      <4> QED BY <1>w, <2>3, <4>1, <4>2, <4>3
    <3> QED BY <1>4, <1>q, <2>3, <3>1 DEF Offer
  <2> QED BY <1>s, <2>1, <2>4 DEF workers, JobsDue
<1>5. ASSUME NEW g \in Worker, TakeJob(g) PROVE JobsDue'
  <2>1. jobQueue # <<>> /\ jobQueue' = Tail(jobQueue) /\ task' = [task EXCEPT ![g] = Head(jobQueue)]
        /\ worker' = [worker EXCEPT ![g] = "claim"] /\ UNCHANGED todo
    BY <1>5 DEF TakeJob, Enter
  <2>0. ASSUME NEW n \in 1 .. Len(jobQueue) PROVE \E u \in Slot : u = jobQueue[n] /\ Due(u)
    BY <1>0, <1>t DEF Waiting, Due, Reached, Near
  <2>2. Waiting'
    <3>1. \A n \in 1 .. Len(Tail(jobQueue)) :
            n + 1 \in 1 .. Len(jobQueue) /\ Tail(jobQueue)[n] = jobQueue[n + 1]
      BY <1>t, <2>1
    <3> QED BY <1>w, <2>0, <2>1, <3>1
  <2>3. \E s \in Slot : Head(jobQueue) = s /\ Due(s)
    <3>1. 1 \in 1 .. Len(jobQueue) /\ Head(jobQueue) = jobQueue[1]
      BY <1>t, <2>1
    <3> QED BY <2>0, <3>1
  <2>4. Working(g)' /\ Storing(g)'
    <3>1. task'[g] = Head(jobQueue) /\ worker'[g] = "claim"
      BY <1>t, <2>1
    <3>2. Working(g)'
      BY <1>g, <2>3, <3>1
    <3> QED BY <3>1, <3>2 DEF Storing
  <2>5. \A h \in Worker \ {g} : Working(h)' /\ Storing(h)'
    BY <1>s, <1>t, <2>1
  <2> QED BY <2>2, <2>4, <2>5 DEF JobsDue
<1>6. ASSUME NEW g \in Worker, IdleExit(g) \/ Claim(g) \/ CheckExists(g) \/ Release(g) PROVE JobsDue'
  <2>1. UNCHANGED <<jobQueue, todo>>
    BY <1>6 DEF IdleExit, Claim, CheckExists, Release
  <2>2. \/ worker'[g] \in {"off", "idle"}
        \/ worker'[g] # "store" /\ task'[g] = task[g] /\ worker[g] \notin {"off", "idle"}
    BY <1>t, <1>6 DEF IdleExit, Claim, CheckExists, Release, Finish, Enter
  <2>3. Working(g)' /\ Storing(g)'
    BY <1>f, <1>m, <2>2
  <2>4. \A h \in Worker \ {g} : worker'[h] = worker[h] /\ task'[h] = task[h]
    BY <1>t, <1>6 DEF IdleExit, Claim, CheckExists, Release, Finish, Enter
  <2> QED BY <1>q, <1>s, <2>1, <2>3, <2>4 DEF JobsDue
<1>7. ASSUME NEW g \in Worker, Generate(g) PROVE JobsDue'
  <2>1. UNCHANGED <<jobQueue, task, stored, unsaved, asked>> /\ worker[g] = "generate"
    BY <1>7 DEF Generate, clients, rows
  <2>k. PICK s \in Slot : task[g] = s /\ Due(s)
    BY <1>k, <2>1
  <2>2. Working(g)' /\ task'[g] = s
    BY <1>g, <2>1, <2>k
  <2>3. Storing(g)'
    <3>1. CASE worker'[g] # "store"
      BY <3>1 DEF Storing
    <3>2. CASE worker'[g] = "store"
      <4>1. PICK n \in 1 .. MaxBatch :
               todo' = [todo EXCEPT ![g] = {i \in s[2] .. s[2] + n - 1 : i <= TotalQuestions}]
        BY <1>t, <1>7, <2>k, <3>2 DEF Generate, Enter
      <4>2. s[2] \in Int /\ Reached(s[1], s[2])
        BY <2>k, IndexFacts DEF Slot, Due
      <4>3. \A k \in todo'[g] : k \in s[2] .. s[2] + n - 1 /\ k <= TotalQuestions
        BY <1>t, <4>1
      <4>4. \A k \in todo'[g] : k = s[2] \/ k - 1 \in todo'[g]
        BY <1>t, <4>1, <4>2, FlowAssumption
      <4>5. \A k \in todo'[g] : s[2] <= k /\ k <= s[2] + MaxBatch - 1
        BY <4>2, <4>3, FlowAssumption
      <4> QED BY <2>1, <2>2, <4>2, <4>4, <4>5 DEF Reached, Storing
    <3> QED BY <3>1, <3>2
  <2>4. \A h \in Worker \ {g} : worker'[h] = worker[h] /\ todo'[h] = todo[h]
    BY <1>t, <1>7 DEF Generate, Enter
  <2> QED BY <1>q, <1>s, <2>1, <2>2, <2>3, <2>4 DEF JobsDue
<1>8. ASSUME NEW g \in Worker, Store(g) PROVE JobsDue'
  <2>1. UNCHANGED <<jobQueue, task>> /\ worker[g] = "store"
    BY <1>8 DEF Store
  <2>k. PICK s \in Slot : task[g] = s /\ Due(s)
    BY <1>k, <2>1
  <2>2. Working(g)' /\ task'[g] = s /\ s[1] \in Interview
    BY <1>g, <2>1, <2>k DEF Slot
  <2>3. PICK i \in todo[g] :
          /\ todo' = [todo EXCEPT ![g] = @ \ {i}]
          /\ \/ stored' = [stored EXCEPT ![s[1]] = @ \cup {i}]
             \/ unsaved' = [unsaved EXCEPT ![s[1]] = @ \cup {i}]
    BY <1>8, <2>k DEF Store
  <2>4. i \in stored'[s[1]] \cup unsaved'[s[1]]
    BY <1>t, <2>2, <2>3
  <2>5. Storing(g)'
    <3> SUFFICES ASSUME NEW k \in todo'[g]
                 PROVE  /\ s[2] <= k /\ k <= s[2] + MaxBatch - 1
                        /\ Reached(s[1], k)' \/ k - 1 \in todo'[g]
      BY <2>2 DEF Storing, Reached
    <3>1. k \in todo[g]
      BY <1>t, <2>3
    <3>2. /\ s[2] <= k /\ k <= s[2] + MaxBatch - 1
          /\ Reached(s[1], k) \/ k - 1 \in todo[g]
      BY <1>0, <2>1, <2>k, <3>1 DEF Storing, Reached
    <3>3. CASE Reached(s[1], k)
      BY <2>2, <3>2, <3>3, ReachedStays
    <3>4. CASE k - 1 \in todo[g]
      <4>1. k - 1 = i \/ k - 1 \in todo'[g]
        BY <1>t, <2>3, <3>4
      <4> QED BY <2>4, <3>2, <4>1 DEF Reached
    <3> QED BY <3>2, <3>3, <3>4
  <2>6. \A h \in Worker \ {g} : worker'[h] = worker[h] /\ todo'[h] = todo[h]
    BY <1>t, <1>8 DEF Store, Enter
  <2> QED BY <1>q, <1>s, <2>1, <2>2, <2>5, <2>6 DEF JobsDue
<1>9. CASE Crash
  <2>1. Len(jobQueue') = 0 /\ \A g \in Worker : worker'[g] = "idle"
    BY <1>9 DEF Crash
  <2> QED BY <1>f, <2>1 DEF JobsDue, Waiting
<1>10. CASE UNCHANGED vars
  BY <1>1, <1>10 DEF vars, workers
<1> QED BY <1>2, <1>3, <1>4, <1>5, <1>6, <1>7, <1>8, <1>9, <1>10 DEF Next, Handle, Run

\* The only steps that add a row add one that was reached.
LEMMA OrderStep == IInv /\ Growing /\ [Next]_vars => InOrder'
<1> SUFFICES ASSUME IInv, Growing, [Next]_vars PROVE InOrder'
  OBVIOUS
<1>0. /\ TypeOK /\ JobsDue /\ InOrder
      /\ stored \in [Interview -> SUBSET Question]
  BY DEF IInv, TypeOK
<1>1. ASSUME UNCHANGED stored PROVE InOrder'
  BY <1>0, <1>1 DEF InOrder, Growing
<1>2. ASSUME NEW c \in Interview, NEW i \in Question, Reached(c, i),
             stored' = [stored EXCEPT ![c] = @ \cup {i}]
      PROVE  InOrder'
  <2>1. i \in asked'[c] \/ i - 1 \in stored'[c] \cup unsaved'[c]
    BY <1>2 DEF Reached, Growing
  <2> QED BY <1>0, <1>2, <2>1 DEF InOrder, Growing
<1>3. ASSUME NEW r \in Request, PrepareIntro(r) PROVE InOrder'
  <2>1. asking[r] \in Interview \X Question /\ \A c \in Interview : 1 \in asked[c]
    BY <1>3 DEF IInv, RequestsFit, RequestFits, PrepareIntro
  <2>2. PICK c \in Interview : asking[r][1] = c
    BY <2>1
  <2>3. UNCHANGED stored \/ stored' = [stored EXCEPT ![c] = @ \cup {1}]
    BY <1>3, <2>2 DEF PrepareIntro, rows
  <2> QED BY <1>1, <1>2, <2>1, <2>3, IndexFacts DEF Reached
<1>4. ASSUME NEW g \in Worker, Store(g) PROVE InOrder'
  <2>1. task[g] \in Slot /\ todo[g] \subseteq Question
    BY <1>0, <1>4 DEF JobsDue, Working, Store, TypeOK
  <2>c. PICK c \in Interview : task[g][1] = c
    BY <2>1 DEF Slot
  <2>2. PICK i \in todo[g] :
          /\ \A k \in todo[g] : i <= k
          /\ UNCHANGED stored \/ stored' = [stored EXCEPT ![c] = @ \cup {i}]
    BY <1>4, <2>c DEF Store
  <2>3. i \in Int
    BY <2>1, IndexFacts
  <2>4. Reached(c, i)
    <3>1. i - 1 \notin todo[g]
      BY <2>2, <2>3
    <3> QED BY <1>0, <1>4, <2>c, <3>1 DEF JobsDue, Storing, Store, Reached
  <2> QED BY <1>1, <1>2, <2>1, <2>2, <2>4
<1>5. UNCHANGED <<rows, asked>> => InOrder'
  BY <1>1 DEF rows
<1>6. ASSUME NEW r \in Request,
             \/ \E c \in Interview : CreateInterview(r, c) \/ \E i \in Question : Ask(r, c, i)
             \/ Abandon(r) \/ (Handle(r) /\ ~PrepareIntro(r) /\ ~Lookup(r))
      PROVE  InOrder'
  BY <1>5, <1>6, OthersKeep DEF Handle
<1>7. ASSUME NEW r \in Request, Lookup(r) PROVE InOrder'
  BY <1>1, <1>7 DEF Lookup, rows
<1>8. ASSUME NEW g \in Worker, TakeJob(g) \/ IdleExit(g) \/ (Run(g) /\ ~Store(g)) PROVE InOrder'
  BY <1>5, <1>8, OthersKeep
<1>9. CASE Crash \/ UNCHANGED vars
  BY <1>5, <1>9, OthersKeep
<1> QED BY <1>3, <1>4, <1>6, <1>7, <1>8, <1>9 DEF Next, Handle

LEMMA StepInv == IInv /\ [Next]_vars => IInv'
<1> SUFFICES ASSUME IInv, [Next]_vars PROVE IInv'
  OBVIOUS
<1>1. TypeOK' /\ Growing
  BY TypeStep, StepsGrow DEF IInv
<1> QED BY <1>1, RequestsStep, JobsStep, OrderStep DEF IInv

-----------------------------------------------------------------------------
(* Theorems.                                                               *)

\* The inductive invariant holds of every behaviour of the flow.
THEOREM Invariant == Spec => []IInv
<1> QED BY InitInv, StepInv, PTL DEF Spec

\* Requests, rows, channel and workers always have their types: the channel is
\* never over its capacity, and no job or row is out of range.
THEOREM TypeCorrect == Spec => []TypeOK
<1>1. IInv => TypeOK
  BY DEF IInv
<1> QED BY Invariant, <1>1, PTL

\* However many requests ask for whatever questions, and whatever is dropped,
\* repeated, skipped or lost, a question exists without its predecessor only if a
\* client asked for it by its own index or a run passed over the predecessor's text.
THEOREM OrderCorrect == Spec => []InOrder
<1>1. IInv => InOrder
  BY DEF IInv
<1> QED BY Invariant, <1>1, PTL

-----------------------------------------------------------------------------
\* The flow implements QuestionFeed: whichever questions clients ask for, one that
\* is prepared was asked for, or is at most a batch after one that was.
THEOREM FlowFeeds == Spec => FeedsQuestions
<1>1. Init => Feed!Init
  BY DEF Init, Feed!Init
<1>2. IInv /\ [Next]_vars => [Feed!Next]_<<stored, asked>>
  <2> SUFFICES ASSUME IInv, [Next]_vars PROVE [Feed!Next]_<<stored, asked>>
    OBVIOUS
  <2>0. /\ TypeOK /\ JobsDue
        /\ stored \in [Interview -> SUBSET Question] /\ asked \in [Interview -> SUBSET Question]
    BY DEF IInv, TypeOK
  <2>1. ASSUME NEW c \in Interview, NEW i \in Question, Near(c, i, MaxBatch),
               stored' = [stored EXCEPT ![c] = @ \cup {i}], UNCHANGED asked
        PROVE  [Feed!Next]_<<stored, asked>>
    <3>1. CASE i \in stored[c]
      BY <2>0, <2>1, <3>1
    <3>2. CASE i \notin stored[c]
      BY <2>1, <3>2 DEF Feed!Next, Feed!Prepare, Near, Question
    <3> QED BY <3>1, <3>2
  <2>3. ASSUME NEW r \in Request, PrepareIntro(r) PROVE [Feed!Next]_<<stored, asked>>
    <3>1. UNCHANGED asked
      BY <2>3 DEF PrepareIntro, clients
    <3>2. asking[r] \in Interview \X Question /\ \A c \in Interview : 1 \in asked[c]
      BY <2>3 DEF IInv, RequestsFit, RequestFits, PrepareIntro
    <3>3. PICK c \in Interview : asking[r][1] = c
      BY <3>2
    <3>4. UNCHANGED stored \/ stored' = [stored EXCEPT ![c] = @ \cup {1}]
      BY <2>3, <3>3 DEF PrepareIntro, rows
    <3>5. Near(c, 1, MaxBatch)
      BY <3>2, FlowAssumption DEF Near
    <3> QED BY <2>1, <3>1, <3>4, <3>5, IndexFacts
  <2>4. ASSUME NEW r \in Request, Lookup(r) PROVE [Feed!Next]_<<stored, asked>>
    <3>1. asking[r] \in Interview \X Question /\ UNCHANGED stored
      BY <2>4 DEF IInv, RequestsFit, RequestFits, Lookup, rows
    <3>2. PICK c \in Interview, i \in Question : asking[r][1] = c /\ asking[r][2] = i
      BY <3>1
    <3>3. asked' = [asked EXCEPT ![c] = @ \cup {i}]
      BY <2>4, <3>2 DEF Lookup
    <3> QED BY <3>1, <3>3 DEF Feed!Next, Feed!Ask, Question
  <2>6. ASSUME NEW g \in Worker, Store(g) PROVE [Feed!Next]_<<stored, asked>>
    <3>1. task[g] \in Slot /\ Working(g) /\ Storing(g) /\ todo[g] \subseteq Question /\ worker[g] = "store"
      BY <2>0, <2>6 DEF JobsDue, Working, Store, TypeOK
    <3>2. PICK c \in Interview, j \in JobIndex : task[g] = <<c, j>>
      BY <3>1 DEF Slot
    <3>3. UNCHANGED asked
      BY <2>6 DEF Store, clients
    <3>4. PICK i \in todo[g] : UNCHANGED stored \/ stored' = [stored EXCEPT ![c] = @ \cup {i}]
      BY <2>6, <3>2 DEF Store
    <3>5. i \in Question /\ i \in Int /\ j <= i /\ i <= j + MaxBatch - 1
      <4>1. task[g][2] = j
        BY <3>2
      <4> QED BY <3>1, <4>1, IndexFacts DEF Storing
    <3>6. PICK a \in asked[c] : a <= j /\ j <= a + 1
      BY <3>1, <3>2 DEF Working, Due, Near
    <3>7. a \in Int /\ j \in Int /\ MaxBatch \in Nat \ {0}
      <4>1. asked[c] \subseteq Question
        BY <2>0
      <4> QED BY <3>6, <4>1, IndexFacts, FlowAssumption
    <3>8. a <= i /\ i <= a + MaxBatch
      BY <3>5, <3>6, <3>7
    <3>9. Near(c, i, MaxBatch)
      BY <3>6, <3>8 DEF Near
    <3> QED BY <2>1, <3>3, <3>4, <3>5, <3>9
  <2>7. CASE UNCHANGED <<rows, asked>>
    BY <2>7 DEF rows
  <2> QED BY <2>3, <2>4, <2>6, <2>7, OthersKeep DEF Next, Handle, Run
<1> QED BY Invariant, <1>1, <1>2, PTL DEF Spec, FeedsQuestions, Feed!Spec

\* What QuestionFeed promises, as a state: no question is stored that was not asked
\* for, unless it is among the Lookahead ones after one that was.
WithinReach == \A c \in Interview : \A i \in stored[c] : Near(c, i, MaxBatch)

FeedInv ==
    /\ asked \in [Interview -> SUBSET Question]
    /\ stored \in [Interview -> SUBSET Question]
    /\ WithinReach

\* It follows from the abstract specification alone ...
LEMMA FeedKeeps == Feed!Spec => []FeedInv
<1>1. Feed!Init => FeedInv
  BY IndexFacts DEF Feed!Init, FeedInv, WithinReach
<1>2. FeedInv /\ [Feed!Next]_<<stored, asked>> => FeedInv'
  <2> SUFFICES ASSUME FeedInv, [Feed!Next]_<<stored, asked>> PROVE FeedInv'
    OBVIOUS
  <2>1. /\ stored \in [Interview -> SUBSET Question] /\ asked \in [Interview -> SUBSET Question]
        /\ WithinReach
    BY DEF FeedInv
  <2>2. ASSUME NEW c \in Interview, Feed!Ask(c) PROVE FeedInv'
    <3>1. PICK i \in Question : asked' = [asked EXCEPT ![c] = @ \cup {i}] /\ UNCHANGED stored
      BY <2>2 DEF Feed!Ask, Question
    <3>2. asked' \in [Interview -> SUBSET Question]
      BY <2>1, <3>1, Add
    <3>3. \A d \in Interview : asked[d] \subseteq asked'[d]
      BY <2>1, <3>1, AddGrows
    <3> QED BY <2>1, <3>1, <3>2, <3>3 DEF FeedInv, WithinReach, Near
  <2>3. ASSUME NEW c \in Interview, Feed!Prepare(c) PROVE FeedInv'
    <3>1. PICK i \in Question :
            /\ Near(c, i, MaxBatch)
            /\ stored' = [stored EXCEPT ![c] = @ \cup {i}]
            /\ UNCHANGED asked
      BY <2>3 DEF Feed!Prepare, Question, Near
    <3>2. stored' \in [Interview -> SUBSET Question]
      BY <2>1, <3>1, Add
    <3> QED BY <2>1, <3>1, <3>2 DEF FeedInv, WithinReach, Near
  <2>4. CASE UNCHANGED <<stored, asked>>
    BY <2>4 DEF FeedInv, WithinReach, Near
  <2> QED BY <2>2, <2>3, <2>4 DEF Feed!Next
<1> QED BY <1>1, <1>2, PTL DEF Feed!Spec

\* ... and so the flow keeps it, through failures and restarts: however long a job
\* waited, nothing is prepared further than a batch after what clients asked for.
THEOREM FeedCorrect == Spec => []WithinReach
<1>1. FeedInv => WithinReach
  BY DEF FeedInv
<1> QED BY FlowFeeds, FeedKeeps, <1>1, PTL DEF FeedsQuestions

-----------------------------------------------------------------------------
(* Why "loading" ends: the safety part of EveryoneServed.                  *)

\* The workers that are past the claim of their slot.
Holding == {g \in Worker : worker[g] \in {"exists", "generate", "store", "release"}}

\* A flag for which GetNextQuestion offers no job is held by one worker that is at
\* work on that question, and will give it back: no failure, dropped job or restart
\* leaves a flag behind, and no two workers prepare the same question.
FlagsHeld ==
    /\ preparing = {task[g] : g \in Holding}
    /\ \A g, h \in Holding : task[g] = task[h] => g = h

\* Requests see no more of the flags than that.
LEMMA RequestFlags ==
    ASSUME FlagsHeld, NEW r \in Request,
           \/ \E c \in Interview : CreateInterview(r, c) \/ \E i \in Question : Ask(r, c, i)
           \/ Abandon(r) \/ Handle(r)
    PROVE  FlagsHeld'
<1>1. CASE EnsurePool(r)
  <2>1. UNCHANGED <<preparing, task>>
    BY <1>1 DEF EnsurePool
  <2>2. Holding' = Holding
    BY <1>1 DEF EnsurePool, Holding
  <2> QED BY <2>1, <2>2 DEF FlagsHeld
<1>2. CASE ~EnsurePool(r)
  <2>1. UNCHANGED <<preparing, worker, task>>
    BY <1>2 DEF Handle, CreateInterview, Ask, Abandon, PrepareIntro, Lookup, ReadFlag, Offer, workers
  <2> QED BY <2>1 DEF FlagsHeld, Holding
<1> QED BY <1>1, <1>2

\* A worker sets the flag with its claim, and clears it with its cleanup.
LEMMA WorkerFlags ==
    ASSUME TypeOK, FlagsHeld, NEW g \in Worker, TakeJob(g) \/ IdleExit(g) \/ Run(g)
    PROVE  FlagsHeld'
<1>1. ASSUME UNCHANGED <<preparing, task>>, worker[g] \in {"exists", "generate", "store"},
             NEW phase \in {"generate", "store", "release"}, Enter(g, phase)
      PROVE  FlagsHeld'
  <2>1. Holding' = Holding
    BY <1>1 DEF Enter, Holding, TypeOK
  <2> QED BY <1>1, <2>1 DEF FlagsHeld
<1>2. CASE TakeJob(g) \/ IdleExit(g)
  <2>1. Holding' = Holding /\ g \notin Holding /\ UNCHANGED preparing
    BY <1>2 DEF TakeJob, IdleExit, Enter, Holding, TypeOK
  <2>2. \A h \in Holding : task'[h] = task[h]
    BY <1>2, <2>1 DEF TakeJob, IdleExit, Holding, TypeOK
  <2> QED BY <2>1, <2>2 DEF FlagsHeld
<1>3. CASE Claim(g)
  <2>1. worker[g] = "claim" /\ g \notin Holding
    BY <1>3 DEF Claim, Holding
  <2>2. CASE Finish(g) /\ UNCHANGED preparing
    <3>1. Holding' = Holding /\ \A h \in Holding : task'[h] = task[h]
      BY <2>1, <2>2 DEF Finish, Enter, Holding, TypeOK
    <3> QED BY <2>2, <3>1 DEF FlagsHeld
  <2>3. CASE /\ task[g] \notin preparing /\ preparing' = preparing \cup {task[g]}
             /\ Enter(g, "exists") /\ UNCHANGED task
    <3>1. Holding' = Holding \cup {g}
      BY <2>1, <2>3 DEF Enter, Holding, TypeOK
    <3>2. \A h \in Holding : task[h] # task[g]
      BY <2>3 DEF FlagsHeld
    <3> QED BY <2>3, <3>1, <3>2 DEF FlagsHeld
  <2> QED BY <1>3, <2>2, <2>3 DEF Claim
<1>4. CASE CheckExists(g)
  BY <1>1, <1>4 DEF CheckExists
<1>5. CASE Generate(g)
  <2>1. PICK phase \in {"store", "release"} : Enter(g, phase)
    BY <1>5 DEF Generate
  <2> QED BY <1>1, <1>5, <2>1 DEF Generate
<1>6. CASE Store(g)
  <2>1. PICK phase \in {"store", "release"} : Enter(g, phase)
    BY <1>6 DEF Store
  <2> QED BY <1>1, <1>6, <2>1 DEF Store
<1>7. CASE Release(g)
  <2>1. Holding' = Holding \ {g} /\ g \in Holding /\ \A h \in Holding' : task'[h] = task[h]
    BY <1>7 DEF Release, Finish, Enter, Holding, TypeOK
  <2>2. preparing' = preparing \ {task[g]}
    BY <1>7 DEF Release
  <2> QED BY <2>1, <2>2 DEF FlagsHeld
<1> QED BY <1>2, <1>3, <1>4, <1>5, <1>6, <1>7 DEF Run

LEMMA FlagsStep == IInv /\ FlagsHeld /\ [Next]_vars => FlagsHeld'
<1> SUFFICES ASSUME IInv, FlagsHeld, [Next]_vars PROVE FlagsHeld'
  OBVIOUS
<1>1. CASE Crash
  BY <1>1 DEF Crash, FlagsHeld, Holding
<1>2. CASE UNCHANGED vars
  BY <1>2 DEF vars, workers, FlagsHeld, Holding
<1> QED BY <1>1, <1>2, RequestFlags, WorkerFlags DEF Next, IInv

\* Flags and workers agree, for any number of requests, workers, questions and
\* faults: the composition keeps what QuestionPreparation proves of single runs.
THEOREM FlagsCorrect == Spec => []FlagsHeld
<1>1. Init => FlagsHeld
  BY DEF Init, FlagsHeld, Holding
<1> QED BY Invariant, <1>1, FlagsStep, PTL DEF Spec
=============================================================================
