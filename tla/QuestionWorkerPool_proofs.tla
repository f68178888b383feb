---------------------- MODULE QuestionWorkerPool_proofs ----------------------
(***************************************************************************)
(* Proofs about QuestionWorkerPool, for every set of callers, number of    *)
(* workers and capacity of the channel, with or without a call of Stop.    *)
(***************************************************************************)
EXTENDS QuestionWorkerPool, FiniteSetTheorems, SequenceTheorems, TLAPS

\* A goroutine has a job in hand exactly while it is busy.
InHand == \A g \in Goroutine : worker[g] = "busy" <=> current[g] # NoJob

\* The inductive invariant.
IInv == TypeOK /\ CountersExact /\ InHand /\ JobsConserved

-----------------------------------------------------------------------------
(* Sets and sequences.                                                     *)

\* There are finitely many goroutines, and the constructor starts WorkerCount.
LEMMA GoroutineFinite ==
    /\ IsFiniteSet(Goroutine)
    /\ IsFiniteSet({Boot} \X (0 .. WorkerCount - 1))
    /\ Cardinality({Boot} \X (0 .. WorkerCount - 1)) = WorkerCount
<1>1. WorkerCount \in Nat \ {0} /\ IsFiniteSet(Job)
  BY PoolAssumption
<1>2. /\ IsFiniteSet(0 .. WorkerCount - 1)
      /\ Cardinality(0 .. WorkerCount - 1) = WorkerCount
  <2>1. 0 \in Int /\ WorkerCount - 1 \in Int /\ ~(0 > WorkerCount - 1)
    BY <1>1
  <2>2. WorkerCount - 1 - 0 + 1 = WorkerCount
    BY <1>1
  <2> QED BY <2>1, <2>2, FS_Interval
<1>3. IsFiniteSet(Job \cup {Boot})
  BY <1>1, FS_AddElement
<1>4. IsFiniteSet({Boot}) /\ Cardinality({Boot}) = 1
  BY FS_Singleton
<1>5. IsFiniteSet(Goroutine)
  BY <1>2, <1>3, FS_Product DEF Goroutine
<1>6. /\ IsFiniteSet({Boot} \X (0 .. WorkerCount - 1))
      /\ Cardinality({Boot} \X (0 .. WorkerCount - 1)) = 1 * WorkerCount
  BY <1>2, <1>4, FS_Product
<1>7. 1 * WorkerCount = WorkerCount
  BY <1>1
<1> QED BY <1>5, <1>6, <1>7

\* The capacity of the channel is positive.
LEMMA CapacityType == QueueCapacity \in Nat \ {0}
  BY PoolAssumption DEF QueueCapacity

\* Sets of goroutines are finite.
LEMMA CountingSets ==
    ASSUME NEW S \in SUBSET Goroutine
    PROVE  IsFiniteSet(S) /\ Cardinality(S) \in Nat
  BY GoroutineFinite, FS_Subset, FS_CardinalityType

\* Sending appends one element to the content of the channel.
LEMMA ContentAppend ==
    ASSUME NEW q \in Seq(Job), NEW j \in Job
    PROVE  {Append(q, j)[i] : i \in 1 .. Len(Append(q, j))} = {q[i] : i \in 1 .. Len(q)} \cup {j}
<1> DEFINE r == Append(q, j)
<1>1. /\ Len(r) = Len(q) + 1 /\ Len(q) \in Nat
      /\ \A i \in 1 .. Len(q) : r[i] = q[i]
      /\ r[Len(q) + 1] = j
  BY AppendProperties, LenProperties
<1>2. 1 .. Len(r) = (1 .. Len(q)) \cup {Len(q) + 1}
  BY <1>1
<1> HIDE DEF r
<1>3. {r[i] : i \in 1 .. Len(r)} = {q[i] : i \in 1 .. Len(q)} \cup {j}
  BY <1>1, <1>2
<1> QED BY <1>3 DEF r

\* Receiving removes the head from the content of a channel without duplicates.
LEMMA ContentTail ==
    ASSUME NEW q \in Seq(Job), q # <<>>,
           \A i, k \in 1 .. Len(q) : q[i] = q[k] => i = k
    PROVE  /\ Head(q) \in {q[i] : i \in 1 .. Len(q)}
           /\ {Tail(q)[i] : i \in 1 .. Len(Tail(q))} = {q[i] : i \in 1 .. Len(q)} \ {Head(q)}
           /\ \A i, k \in 1 .. Len(Tail(q)) : Tail(q)[i] = Tail(q)[k] => i = k
<1> DEFINE t == Tail(q)
<1>1. /\ Head(q) = q[1] /\ Len(q) \in Nat /\ Len(q) > 0
      /\ Len(t) = Len(q) - 1
      /\ \A i \in 1 .. Len(t) : t[i] = q[i + 1]
  BY HeadTailProperties, LenProperties, EmptySeq
<1> HIDE DEF t
<1>2. ASSUME NEW x \in {q[i] : i \in 1 .. Len(q)} \ {Head(q)}
      PROVE  x \in {t[i] : i \in 1 .. Len(t)}
  <2>1. PICK i \in 1 .. Len(q) : x = q[i]
    BY <1>2
  <2>2. i # 1
    BY <1>1, <1>2, <2>1
  <2>3. i - 1 \in 1 .. Len(t) /\ t[i - 1] = q[i - 1 + 1] /\ i - 1 + 1 = i
    BY <1>1, <2>1, <2>2
  <2> QED BY <2>1, <2>3
<1>3. ASSUME NEW x \in {t[i] : i \in 1 .. Len(t)}
      PROVE  x \in {q[i] : i \in 1 .. Len(q)} \ {Head(q)}
  <2>1. PICK i \in 1 .. Len(t) : x = t[i]
    BY <1>3
  <2>2. i + 1 \in 1 .. Len(q) /\ x = q[i + 1] /\ i + 1 # 1 /\ 1 \in 1 .. Len(q)
    BY <1>1, <2>1
  <2>3. q[i + 1] # q[1]
    BY <2>2
  <2> QED BY <1>1, <2>2, <2>3
<1>4. \A i, k \in 1 .. Len(t) : t[i] = t[k] => i = k
  <2> SUFFICES ASSUME NEW i \in 1 .. Len(t), NEW k \in 1 .. Len(t), t[i] = t[k]
               PROVE  i = k
    OBVIOUS
  <2>1. i + 1 \in 1 .. Len(q) /\ k + 1 \in 1 .. Len(q) /\ q[i + 1] = q[k + 1]
    BY <1>1
  <2>2. i + 1 = k + 1
    BY <2>1
  <2> QED BY <2>2
<1>5. Head(q) \in {q[i] : i \in 1 .. Len(q)}
  BY <1>1
<1>6. {t[i] : i \in 1 .. Len(t)} = {q[i] : i \in 1 .. Len(q)} \ {Head(q)}
  BY <1>2, <1>3
<1> QED BY <1>4, <1>5, <1>6 DEF t

-----------------------------------------------------------------------------
(* The invariant holds initially.                                          *)

LEMMA InitInv == Init => IInv
<1> SUFFICES ASSUME Init PROVE IInv
  OBVIOUS
<1>1. WorkerCount \in Nat \ {0} /\ QueueCapacity \in Nat \ {0} /\ Boot \notin Job
  BY PoolAssumption, CapacityType
<1>2. TypeOK
  <2>1. jobQueue \in Seq(Job) /\ Len(jobQueue) = 0
    BY EmptySeq DEF Init
  <2>2. worker \in [Goroutine -> WorkerState]
    BY DEF Init, WorkerState
  <2>3. call \in [Job -> CallState]
    BY DEF Init, CallState
  <2>4. /\ current \in [Goroutine -> Job \cup {NoJob}]
        /\ idleTimer \in [Goroutine -> {"stopped", "armed", "fired"}]
    BY DEF Init
  <2>5. /\ activeWorkers \in Nat /\ wg \in Nat /\ totalJobsEnqueued \in Nat
        /\ totalJobsProcessed \in Nat /\ totalJobsDropped \in Nat
        /\ handled \subseteq Job /\ ctxDone \in BOOLEAN /\ queueClosed \in BOOLEAN
        /\ stop \in {"idle", "cancelled", "waiting", "returned"}
    BY <1>1 DEF Init
  <2>6. Len(jobQueue) <= QueueCapacity
    BY <1>1, <2>1
  <2> QED BY <2>1, <2>2, <2>3, <2>4, <2>5, <2>6 DEF TypeOK
<1>3. CountersExact
  <2>1. Active = {}
    BY DEF Init, Active
  <2>2. Running = {Boot} \X (0 .. WorkerCount - 1)
    BY <1>1 DEF Init, Running, Goroutine
  <2> QED BY <2>1, <2>2, GoroutineFinite, FS_EmptySet DEF Init, CountersExact
<1>4. InHand
  BY DEF Init, InHand
<1>5. JobsConserved
  <2>1. Queued = {} /\ Busy = {} /\ handled = {} /\ 1 .. Len(jobQueue) = {}
    BY EmptySeq DEF Init, Queued, Busy
  <2>2. InState("sent") = {} /\ InState("accepted") = {}
    BY DEF Init, InState
  <2> QED BY <2>1, <2>2 DEF JobsConserved
<1> QED BY <1>2, <1>3, <1>4, <1>5 DEF IInv

-----------------------------------------------------------------------------
(* Steps preserve the invariant.  The counters and the hand-over of jobs are *)
(* looked at through the sets that a step leaves alone.                      *)

\* A step that changes neither the sets nor the counters keeps the counts.
LEMMA SameCounts ==
    ASSUME CountersExact, Active' = Active, Running' = Running,
           UNCHANGED <<activeWorkers, wg>>
    PROVE  CountersExact'
  BY DEF CountersExact

\* A step that leaves channel, hands and prepared jobs alone, and every job that
\* was sent a sent job, conserves the jobs.
LEMMA SameHands ==
    ASSUME JobsConserved, UNCHANGED <<jobQueue, current, handled>>, Busy' = Busy,
           (InState("sent") \cup InState("accepted"))' = InState("sent") \cup InState("accepted")
    PROVE  JobsConserved'
<1>1. Queued' = Queued
  BY DEF Queued
<1> QED BY <1>1 DEF JobsConserved

\* The steps of a caller.
LEMMA CallerInv ==
    ASSUME IInv, NEW j \in Job, CallerStep(j)
    PROVE  IInv'
<1> USE DEF IInv
<1>1. CASE LoadActive(j)
  <2>1. TypeOK'
    BY <1>1 DEF TypeOK, LoadActive, loops, ending, CallState
  <2>2. CountersExact'
    BY <1>1, SameCounts DEF LoadActive, loops, Active, Running
  <2>3. InHand'
    BY <1>1 DEF InHand, LoadActive, loops
  <2>4. JobsConserved'
    <3>1. (InState("sent") \cup InState("accepted"))' = InState("sent") \cup InState("accepted")
      BY <1>1 DEF LoadActive, InState, TypeOK
    <3> QED BY <1>1, <3>1, SameHands DEF LoadActive, loops, Busy
  <2> QED BY <2>1, <2>2, <2>3, <2>4
<1>2. CASE SpawnWorker(j)
  <2>1. PICK i \in 0 .. WorkerCount - 1 :
          /\ worker[<<j, i>>] = "unborn"
          /\ worker' = [worker EXCEPT ![<<j, i>>] = "spawned"]
          /\ call' = [call EXCEPT ![j] = IF i = WorkerCount - 1 THEN "ensured" ELSE "restart"]
    BY <1>2 DEF SpawnWorker
  <2> DEFINE g == <<j, i>>
  <2>2. g \in Goroutine
    BY DEF Goroutine
  <2> HIDE DEF g
  <2>3. worker[g] = "unborn" /\ worker' = [worker EXCEPT ![g] = "spawned"]
    BY <2>1 DEF g
  <2>4. TypeOK'
    BY <1>2, <2>1, <2>2, <2>3 DEF TypeOK, SpawnWorker, ending, CallState, WorkerState
  <2>5. CountersExact'
    <3>1. Active' = Active
      BY <2>2, <2>3 DEF Active, TypeOK
    <3>2. Running' = Running \cup {g} /\ g \notin Running
      BY <2>2, <2>3 DEF Running, TypeOK
    <3>3. Cardinality(Running') = Cardinality(Running) + 1
      BY <3>2, CountingSets, FS_AddElement DEF Running
    <3> QED BY <1>2, <3>1, <3>3 DEF CountersExact, SpawnWorker
  <2>6. InHand'
    BY <1>2, <2>2, <2>3 DEF InHand, SpawnWorker, TypeOK
  <2>7. JobsConserved'
    <3>1. (InState("sent") \cup InState("accepted"))' = InState("sent") \cup InState("accepted")
      BY <1>2, <2>1 DEF SpawnWorker, InState, TypeOK
    <3>2. Busy' = Busy
      BY <2>2, <2>3 DEF Busy, TypeOK
    <3> QED BY <1>2, <3>1, <3>2, SameHands DEF SpawnWorker
  <2> QED BY <2>4, <2>5, <2>6, <2>7
<1>3. CASE Enqueue(j)
  <2>1. jobQueue' \in Seq(Job) /\ Len(jobQueue') = Len(jobQueue) + 1 /\ Len(jobQueue) \in Nat
    BY <1>3, AppendProperties, LenProperties DEF Enqueue, TypeOK
  <2>2. TypeOK'
    <3>1. Len(jobQueue') <= QueueCapacity
      BY <1>3, <2>1, CapacityType DEF Enqueue
    <3> QED BY <1>3, <2>1, <3>1 DEF TypeOK, Enqueue, loops, ending, CallState
  <2>3. CountersExact'
    BY <1>3, SameCounts DEF Enqueue, loops, Active, Running
  <2>4. InHand'
    BY <1>3 DEF InHand, Enqueue, loops
  <2>5. JobsConserved'
    <3>1. Queued' = Queued \cup {j}
      BY <1>3, ContentAppend DEF Enqueue, Queued, TypeOK
    <3>2. j \notin InState("sent") \cup InState("accepted")
      BY <1>3 DEF Enqueue, InState
    <3>3. (InState("sent") \cup InState("accepted"))' = InState("sent") \cup InState("accepted") \cup {j}
      BY <1>3 DEF Enqueue, InState, TypeOK
    <3>4. Busy' = Busy /\ UNCHANGED <<current, handled>>
      BY <1>3 DEF Enqueue, loops, Busy
    <3>5. j \notin Queued \cup handled /\ \A g \in Busy : current[g] # j
      BY <3>2 DEF JobsConserved
    <3>6. \A i, k \in 1 .. Len(jobQueue') : jobQueue'[i] = jobQueue'[k] => i = k
      <4>1. /\ \A i \in 1 .. Len(jobQueue) : jobQueue'[i] = jobQueue[i]
            /\ jobQueue'[Len(jobQueue) + 1] = j
        BY <1>3, AppendProperties DEF Enqueue, TypeOK
      <4>2. \A i \in 1 .. Len(jobQueue) : jobQueue[i] # j
        BY <3>5 DEF Queued
      <4>3. \A i \in 1 .. Len(jobQueue') : i \in 1 .. Len(jobQueue) \/ i = Len(jobQueue) + 1
        BY <2>1
      <4> QED BY <4>1, <4>2, <4>3 DEF JobsConserved
    <3> QED BY <3>1, <3>3, <3>4, <3>5, <3>6 DEF JobsConserved
  <2> QED BY <2>2, <2>3, <2>4, <2>5
<1>4. CASE CountEnqueued(j)
  <2>1. TypeOK'
    BY <1>4 DEF TypeOK, CountEnqueued, loops, ending, CallState
  <2>2. CountersExact'
    BY <1>4, SameCounts DEF CountEnqueued, loops, Active, Running
  <2>3. InHand'
    BY <1>4 DEF InHand, CountEnqueued, loops
  <2>4. JobsConserved'
    <3>1. (InState("sent") \cup InState("accepted"))' = InState("sent") \cup InState("accepted")
      BY <1>4 DEF CountEnqueued, InState, TypeOK
    <3> QED BY <1>4, <3>1, SameHands DEF CountEnqueued, loops, Busy
  <2> QED BY <2>1, <2>2, <2>3, <2>4
<1>5. CASE Drop(j)
  <2>1. TypeOK'
    BY <1>5 DEF TypeOK, Drop, loops, ending, CallState
  <2>2. CountersExact'
    BY <1>5, SameCounts DEF Drop, loops, Active, Running
  <2>3. InHand'
    BY <1>5 DEF InHand, Drop, loops
  <2>4. JobsConserved'
    <3>1. (InState("sent") \cup InState("accepted"))' = InState("sent") \cup InState("accepted")
      BY <1>5 DEF Drop, InState, TypeOK
    <3> QED BY <1>5, <3>1, SameHands DEF Drop, loops, Busy
  <2> QED BY <2>1, <2>2, <2>3, <2>4
<1>6. CASE PanicOnClosed(j)
  <2>1. TypeOK'
    BY <1>6 DEF TypeOK, PanicOnClosed, loops, ending, CallState
  <2>2. CountersExact'
    BY <1>6, SameCounts DEF PanicOnClosed, loops, Active, Running
  <2>3. InHand'
    BY <1>6 DEF InHand, PanicOnClosed, loops
  <2>4. JobsConserved'
    <3>1. (InState("sent") \cup InState("accepted"))' = InState("sent") \cup InState("accepted")
      BY <1>6 DEF PanicOnClosed, InState, TypeOK
    <3> QED BY <1>6, <3>1, SameHands DEF PanicOnClosed, loops, Busy
  <2> QED BY <2>1, <2>2, <2>3, <2>4
<1> QED BY <1>1, <1>2, <1>3, <1>4, <1>5, <1>6 DEF CallerStep

\* The steps of a goroutine.
LEMMA WorkerInv ==
    ASSUME IInv, NEW g \in Goroutine, WorkerStep(g) \/ FinishJob(g) \/ TimerFires(g)
    PROVE  IInv'
<1> USE DEF IInv
<1>1. CASE WorkerEnter(g)
  <2>1. TypeOK'
    BY <1>1 DEF TypeOK, WorkerEnter, callers, ending, WorkerState
  <2>2. CountersExact'
    <3>1. Active' = Active \cup {g} /\ g \notin Active
      BY <1>1 DEF WorkerEnter, Active, TypeOK
    <3>2. Running' = Running
      BY <1>1 DEF WorkerEnter, Running, TypeOK
    <3>3. Cardinality(Active') = Cardinality(Active) + 1
      BY <3>1, CountingSets, FS_AddElement DEF Active
    <3> QED BY <1>1, <3>2, <3>3 DEF CountersExact, WorkerEnter
  <2>3. InHand'
    BY <1>1 DEF InHand, WorkerEnter, TypeOK
  <2>4. JobsConserved'
    <3>1. Busy' = Busy
      BY <1>1 DEF WorkerEnter, Busy, TypeOK
    <3> QED BY <1>1, <3>1, SameHands DEF WorkerEnter, callers, InState
  <2> QED BY <2>1, <2>2, <2>3, <2>4
<1>2. CASE TakeJob(g)
  <2> DEFINE h == Head(jobQueue)
  <2>1. /\ h \in Queued
        /\ Queued' = Queued \ {h}
        /\ \A i, k \in 1 .. Len(jobQueue') : jobQueue'[i] = jobQueue'[k] => i = k
    <3>1. /\ jobQueue \in Seq(Job) /\ jobQueue # <<>> /\ jobQueue' = Tail(jobQueue)
          /\ \A i, k \in 1 .. Len(jobQueue) : jobQueue[i] = jobQueue[k] => i = k
      BY <1>2 DEF TakeJob, TypeOK, JobsConserved
    <3>2. /\ h \in {jobQueue[i] : i \in 1 .. Len(jobQueue)}
          /\ {Tail(jobQueue)[i] : i \in 1 .. Len(Tail(jobQueue))} =
               {jobQueue[i] : i \in 1 .. Len(jobQueue)} \ {h}
          /\ \A i, k \in 1 .. Len(Tail(jobQueue)) :
               Tail(jobQueue)[i] = Tail(jobQueue)[k] => i = k
      BY <3>1, ContentTail
    <3> QED BY <3>1, <3>2 DEF Queued
  <2>2. /\ jobQueue' \in Seq(Job) /\ Len(jobQueue') = Len(jobQueue) - 1
        /\ Len(jobQueue) \in Nat /\ h \in Job
    BY <1>2, HeadTailProperties, LenProperties DEF TakeJob, TypeOK
  <2> HIDE DEF h
  <2>3. /\ worker[g] = "idle" /\ worker' = [worker EXCEPT ![g] = "busy"]
        /\ current' = [current EXCEPT ![g] = h]
        /\ UNCHANGED <<callers, idleTimer, activeWorkers, wg, ending, totalJobsProcessed, handled>>
    BY <1>2 DEF TakeJob, h
  <2>4. TypeOK'
    <3>1. Len(jobQueue') <= QueueCapacity
      BY <2>2, CapacityType DEF TypeOK
    <3> QED BY <2>2, <2>3, <3>1 DEF TypeOK, callers, ending, WorkerState
  <2>5. CountersExact'
    <3>1. Active' = Active /\ Running' = Running
      BY <2>3 DEF Active, Running, TypeOK
    <3> QED BY <2>3, <3>1, SameCounts
  <2>6. InHand'
    BY <2>2, <2>3, PoolAssumption DEF InHand, TypeOK
  <2>7. JobsConserved'
    <3>1. Busy' = Busy \cup {g} /\ g \notin Busy
      BY <2>3 DEF Busy, TypeOK
    <3>2. current'[g] = h /\ \A k \in Busy : current'[k] = current[k]
      BY <2>3, <3>1 DEF TypeOK, Busy
    <3>3. {current'[k] : k \in Busy'} = {current[k] : k \in Busy} \cup {h}
      BY <3>1, <3>2
    <3>4. (InState("sent") \cup InState("accepted"))' = InState("sent") \cup InState("accepted")
      BY <2>3 DEF callers, InState
    <3>5. h \notin handled /\ \A k \in Busy : current[k] # h
      BY <2>1 DEF JobsConserved
    <3> QED BY <2>1, <2>3, <3>1, <3>2, <3>3, <3>4, <3>5 DEF JobsConserved
  <2> QED BY <2>4, <2>5, <2>6, <2>7
<1>3. CASE IdleExit(g)
  <2>1. TypeOK'
    BY <1>3 DEF TypeOK, IdleExit, LeaveLoop, callers, ending, WorkerState
  <2>2. CountersExact'
    <3>1. Active' = Active /\ Running' = Running
      BY <1>3 DEF IdleExit, LeaveLoop, Active, Running, TypeOK
    <3> QED BY <1>3, <3>1, SameCounts DEF IdleExit, LeaveLoop
  <2>3. InHand'
    BY <1>3 DEF InHand, IdleExit, LeaveLoop, TypeOK
  <2>4. JobsConserved'
    <3>1. Busy' = Busy
      BY <1>3 DEF IdleExit, LeaveLoop, Busy, TypeOK
    <3> QED BY <1>3, <3>1, SameHands DEF IdleExit, LeaveLoop, callers, InState
  <2> QED BY <2>1, <2>2, <2>3, <2>4
<1>4. CASE ClosedExit(g)
  <2>1. TypeOK'
    BY <1>4 DEF TypeOK, ClosedExit, LeaveLoop, callers, ending, WorkerState
  <2>2. CountersExact'
    <3>1. Active' = Active /\ Running' = Running
      BY <1>4 DEF ClosedExit, LeaveLoop, Active, Running, TypeOK
    <3> QED BY <1>4, <3>1, SameCounts DEF ClosedExit, LeaveLoop
  <2>3. InHand'
    BY <1>4 DEF InHand, ClosedExit, LeaveLoop, TypeOK
  <2>4. JobsConserved'
    <3>1. Busy' = Busy
      BY <1>4 DEF ClosedExit, LeaveLoop, Busy, TypeOK
    <3> QED BY <1>4, <3>1, SameHands DEF ClosedExit, LeaveLoop, callers, InState
  <2> QED BY <2>1, <2>2, <2>3, <2>4
<1>5. CASE CancelExit(g)
  <2>1. TypeOK'
    BY <1>5 DEF TypeOK, CancelExit, LeaveLoop, callers, ending, WorkerState
  <2>2. CountersExact'
    <3>1. Active' = Active /\ Running' = Running
      BY <1>5 DEF CancelExit, LeaveLoop, Active, Running, TypeOK
    <3> QED BY <1>5, <3>1, SameCounts DEF CancelExit, LeaveLoop
  <2>3. InHand'
    BY <1>5 DEF InHand, CancelExit, LeaveLoop, TypeOK
  <2>4. JobsConserved'
    <3>1. Busy' = Busy
      BY <1>5 DEF CancelExit, LeaveLoop, Busy, TypeOK
    <3> QED BY <1>5, <3>1, SameHands DEF CancelExit, LeaveLoop, callers, InState
  <2> QED BY <2>1, <2>2, <2>3, <2>4
<1>6. CASE Depart(g)
  <2>1. CountersExact' /\ activeWorkers' \in Nat
    <3>1. Active' = Active \ {g} /\ g \in Active
      BY <1>6 DEF Depart, Active, TypeOK
    <3>2. Running' = Running
      BY <1>6 DEF Depart, Running, TypeOK
    <3>3. Cardinality(Active') = Cardinality(Active) - 1 /\ Cardinality(Active') \in Nat
      BY <3>1, CountingSets, FS_RemoveElement DEF Active
    <3> QED BY <1>6, <3>2, <3>3 DEF CountersExact, Depart
  <2>2. TypeOK'
    BY <1>6, <2>1 DEF TypeOK, Depart, callers, ending, WorkerState
  <2>3. InHand'
    BY <1>6 DEF InHand, Depart, TypeOK
  <2>4. JobsConserved'
    <3>1. Busy' = Busy
      BY <1>6 DEF Depart, Busy, TypeOK
    <3> QED BY <1>6, <3>1, SameHands DEF Depart, callers, InState
  <2> QED BY <2>1, <2>2, <2>3, <2>4
<1>7. CASE WgDone(g)
  <2>1. CountersExact' /\ wg' \in Nat
    <3>1. Running' = Running \ {g} /\ g \in Running
      BY <1>7 DEF WgDone, Running, TypeOK
    <3>2. Active' = Active
      BY <1>7 DEF WgDone, Active, TypeOK
    <3>3. Cardinality(Running') = Cardinality(Running) - 1 /\ Cardinality(Running') \in Nat
      BY <3>1, CountingSets, FS_RemoveElement DEF Running
    <3> QED BY <1>7, <3>2, <3>3 DEF CountersExact, WgDone
  <2>2. TypeOK'
    BY <1>7, <2>1 DEF TypeOK, WgDone, callers, ending, WorkerState
  <2>3. InHand'
    BY <1>7 DEF InHand, WgDone, TypeOK
  <2>4. JobsConserved'
    <3>1. Busy' = Busy
      BY <1>7 DEF WgDone, Busy, TypeOK
    <3> QED BY <1>7, <3>1, SameHands DEF WgDone, callers, InState
  <2> QED BY <2>1, <2>2, <2>3, <2>4
<1>8. CASE FinishJob(g)
  <2>1. current[g] \in Job
    BY <1>8 DEF FinishJob, InHand, TypeOK
  <2>2. TypeOK'
    BY <1>8, <2>1 DEF TypeOK, FinishJob, callers, ending, WorkerState
  <2>3. CountersExact'
    <3>1. Active' = Active /\ Running' = Running
      BY <1>8 DEF FinishJob, Active, Running, TypeOK
    <3> QED BY <1>8, <3>1, SameCounts DEF FinishJob
  <2>4. InHand'
    BY <1>8 DEF InHand, FinishJob, TypeOK
  <2>5. JobsConserved'
    <3>1. Busy' = Busy \ {g} /\ g \in Busy
      BY <1>8 DEF FinishJob, Busy, TypeOK
    <3>2. \A k \in Busy' : k \in Busy /\ k # g /\ current'[k] = current[k]
      BY <1>8, <3>1 DEF FinishJob, TypeOK, Busy
    <3>3. \A k \in Busy' : current[k] # current[g]
      BY <3>1, <3>2 DEF JobsConserved
    <3>4. Queued' = Queued /\ handled' = handled \cup {current[g]} /\ jobQueue' = jobQueue
      BY <1>8 DEF FinishJob, Queued
    <3>5. {current[k] : k \in Busy} = {current'[k] : k \in Busy'} \cup {current[g]}
      BY <3>1, <3>2
    <3>6. (InState("sent") \cup InState("accepted"))' = InState("sent") \cup InState("accepted")
      BY <1>8 DEF FinishJob, callers, InState
    <3>7. current[g] \notin Queued
      BY <3>1 DEF JobsConserved
    <3> QED BY <3>1, <3>2, <3>3, <3>4, <3>5, <3>6, <3>7 DEF JobsConserved
  <2> QED BY <2>2, <2>3, <2>4, <2>5
<1>9. CASE TimerFires(g)
  <2>1. TypeOK'
    BY <1>9 DEF TypeOK, TimerFires, callers, ending
  <2>2. CountersExact'
    BY <1>9, SameCounts DEF TimerFires, Active, Running
  <2>3. InHand'
    BY <1>9 DEF InHand, TimerFires
  <2>4. JobsConserved'
    BY <1>9, SameHands DEF TimerFires, callers, InState, Busy
  <2> QED BY <2>1, <2>2, <2>3, <2>4
<1> QED BY <1>1, <1>2, <1>3, <1>4, <1>5, <1>6, <1>7, <1>8, <1>9 DEF WorkerStep

\* The steps of Stop, and stuttering.
LEMMA StopInv ==
    ASSUME IInv, StopCancel \/ StopClose \/ StopReturn \/ UNCHANGED vars
    PROVE  IInv'
<1> USE DEF IInv
<1>1. UNCHANGED <<callers, loops, jobQueue, totalJobsProcessed, handled>>
  BY DEF StopCancel, StopClose, StopReturn, vars
<1>2. TypeOK'
  BY <1>1 DEF TypeOK, callers, loops, ending, vars, StopCancel, StopClose, StopReturn
<1>3. CountersExact'
  BY <1>1, SameCounts DEF loops, Active, Running
<1>4. InHand'
  BY <1>1 DEF InHand, loops
<1>5. JobsConserved'
  BY <1>1, SameHands DEF callers, loops, InState, Busy
<1> QED BY <1>2, <1>3, <1>4, <1>5

-----------------------------------------------------------------------------
(* The theorems.                                                           *)

\* The inductive invariant holds in every state of the pool.
THEOREM Invariant == Spec => []IInv
<1>1. IInv /\ [Next]_vars => IInv'
  BY CallerInv, WorkerInv, StopInv DEF Next
<1> QED BY InitInv, <1>1, PTL DEF Spec

\* The variables keep their types, and the channel its capacity.
THEOREM TypeCorrect == Spec => []TypeOK
<1>1. IInv => TypeOK
  BY DEF IInv
<1> QED BY Invariant, <1>1, PTL

\* The counter that ensureQuestionWorkerPool reads and the wait group are exact,
\* whatever restarts and exits overlap.
THEOREM CountersCorrect == Spec => []CountersExact
<1>1. IInv => CountersExact
  BY DEF IInv
<1> QED BY Invariant, <1>1, PTL

\* No job is lost or duplicated between callers, channel and workers.
THEOREM NoJobLost == Spec => []JobsConserved
<1>1. IInv => JobsConserved
  BY DEF IInv
<1> QED BY Invariant, <1>1, PTL

\* When Stop returns, no goroutine of the pool is alive: the wait group has
\* counted all of them, including those of a restart during Stop.
THEOREM StopWaits == Spec => StopWaitsForWorkers
<1>1. IInv /\ [Next]_vars => [stop = "waiting" /\ stop' = "returned" => Running = {}]_vars
  <2> SUFFICES ASSUME IInv, Next, stop = "waiting", stop' = "returned"
               PROVE  Running = {}
    OBVIOUS
  <2>1. wg = 0
    <3>1. CASE StopReturn
      BY <3>1 DEF StopReturn
    <3>2. CASE \E j \in Job : CallerStep(j)
      BY <3>2 DEF CallerStep, LoadActive, SpawnWorker, Enqueue, CountEnqueued, Drop,
                  PanicOnClosed, ending
    <3>3. CASE \E g \in Goroutine : WorkerStep(g) \/ FinishJob(g) \/ TimerFires(g)
      BY <3>3 DEF WorkerStep, WorkerEnter, TakeJob, IdleExit, ClosedExit, CancelExit,
                  LeaveLoop, Depart, WgDone, FinishJob, TimerFires, ending
    <3> QED BY <3>1, <3>2, <3>3 DEF Next, StopCancel, StopClose
  <2>2. Cardinality(Running) = 0 /\ IsFiniteSet(Running)
    BY <2>1, CountingSets DEF IInv, CountersExact, Running
  <2> QED BY <2>2, FS_EmptySet
<1> QED BY Invariant, <1>1, PTL DEF Spec, StopWaitsForWorkers

-----------------------------------------------------------------------------
(* The figures of GetMetrics.                                              *)

\* A step that changes none of the three sets and counters keeps the balance.
LEMMA SameMetrics ==
    ASSUME MetricsBalance, InState("sent")' = InState("sent"), Busy' = Busy,
           UNCHANGED <<totalJobsEnqueued, totalJobsProcessed, jobQueue>>
    PROVE  MetricsBalance'
  BY DEF MetricsBalance

LEMMA MetricsStep ==
    ASSUME IInv, MetricsBalance, [Next]_vars
    PROVE  MetricsBalance'
<1> USE DEF IInv
<1>1. /\ IsFiniteSet(InState("sent")) /\ Cardinality(InState("sent")) \in Nat
      /\ Cardinality(Busy) \in Nat /\ IsFiniteSet(Busy)
      /\ Len(jobQueue) \in Nat /\ totalJobsEnqueued \in Nat /\ totalJobsProcessed \in Nat
  <2>1. IsFiniteSet(InState("sent"))
    BY PoolAssumption, FS_Subset DEF InState
  <2> QED BY <2>1, CountingSets, FS_CardinalityType, LenProperties DEF Busy, TypeOK
<1>2. ASSUME NEW j \in Job, CallerStep(j) PROVE MetricsBalance'
  <2>1. CASE Enqueue(j)
    <3>1. InState("sent")' = InState("sent") \cup {j} /\ j \notin InState("sent")
      BY <2>1 DEF Enqueue, InState, TypeOK
    <3>2. Cardinality(InState("sent")') = Cardinality(InState("sent")) + 1
      BY <1>1, <3>1, FS_AddElement
    <3>3. Len(jobQueue') = Len(jobQueue) + 1
      BY <2>1, AppendProperties DEF Enqueue, TypeOK
    <3>4. Busy' = Busy /\ UNCHANGED <<totalJobsEnqueued, totalJobsProcessed>>
      BY <2>1 DEF Enqueue, Busy, loops
    <3> QED BY <1>1, <3>2, <3>3, <3>4 DEF MetricsBalance
  <2>2. CASE CountEnqueued(j)
    <3>1. InState("sent")' = InState("sent") \ {j} /\ j \in InState("sent")
      BY <2>2 DEF CountEnqueued, InState, TypeOK
    <3>2. Cardinality(InState("sent")') = Cardinality(InState("sent")) - 1
      BY <1>1, <3>1, FS_RemoveElement
    <3>3. /\ Busy' = Busy /\ UNCHANGED <<totalJobsProcessed, jobQueue>>
          /\ totalJobsEnqueued' = totalJobsEnqueued + 1
      BY <2>2 DEF CountEnqueued, Busy, loops
    <3> QED BY <1>1, <3>2, <3>3 DEF MetricsBalance
  <2>3. CASE LoadActive(j) \/ Drop(j) \/ PanicOnClosed(j)
    <3>1. InState("sent")' = InState("sent")
      BY <2>3 DEF LoadActive, Drop, PanicOnClosed, InState, TypeOK
    <3> QED BY <2>3, <3>1, SameMetrics DEF LoadActive, Drop, PanicOnClosed, Busy, loops
  <2>4. CASE SpawnWorker(j)
    <3>1. InState("sent")' = InState("sent")
      BY <2>4 DEF SpawnWorker, InState, TypeOK
    <3>2. Busy' = Busy
      BY <2>4 DEF SpawnWorker, Busy, TypeOK
    <3> QED BY <2>4, <3>1, <3>2, SameMetrics DEF SpawnWorker
  <2> QED BY <1>2, <2>1, <2>2, <2>3, <2>4 DEF CallerStep
<1>3. ASSUME NEW g \in Goroutine, WorkerStep(g) \/ FinishJob(g) \/ TimerFires(g)
      PROVE  MetricsBalance'
  <2>1. CASE TakeJob(g)
    <3>1. Busy' = Busy \cup {g} /\ g \notin Busy
      BY <2>1 DEF TakeJob, Busy, TypeOK
    <3>2. Cardinality(Busy') = Cardinality(Busy) + 1
      BY <1>1, <3>1, FS_AddElement
    <3>3. Len(jobQueue') = Len(jobQueue) - 1
      BY <2>1, HeadTailProperties DEF TakeJob, TypeOK
    <3>4. InState("sent")' = InState("sent") /\ UNCHANGED <<totalJobsEnqueued, totalJobsProcessed>>
      BY <2>1 DEF TakeJob, InState, callers
    <3> QED BY <1>1, <3>2, <3>3, <3>4 DEF MetricsBalance
  <2>2. CASE FinishJob(g)
    <3>1. Busy' = Busy \ {g} /\ g \in Busy
      BY <2>2 DEF FinishJob, Busy, TypeOK
    <3>2. Cardinality(Busy') = Cardinality(Busy) - 1
      BY <1>1, <3>1, FS_RemoveElement
    <3>3. /\ InState("sent")' = InState("sent") /\ UNCHANGED <<totalJobsEnqueued, jobQueue>>
          /\ totalJobsProcessed' = totalJobsProcessed + 1
      BY <2>2 DEF FinishJob, InState, callers
    <3> QED BY <1>1, <3>2, <3>3 DEF MetricsBalance
  <2>3. CASE WorkerEnter(g) \/ Depart(g) \/ WgDone(g) \/ TimerFires(g)
    <3>1. Busy' = Busy
      BY <2>3 DEF WorkerEnter, Depart, WgDone, TimerFires, Busy, TypeOK
    <3> QED BY <2>3, <3>1, SameMetrics DEF WorkerEnter, Depart, WgDone, TimerFires, InState, callers
  <2>4. CASE IdleExit(g) \/ ClosedExit(g) \/ CancelExit(g)
    <3>1. LeaveLoop(g)
      BY <2>4 DEF IdleExit, ClosedExit, CancelExit
    <3>2. Busy' = Busy
      BY <3>1 DEF LeaveLoop, Busy, TypeOK
    <3> QED BY <3>1, <3>2, SameMetrics DEF LeaveLoop, InState, callers
  <2> QED BY <1>3, <2>1, <2>2, <2>3, <2>4 DEF WorkerStep
<1>4. CASE StopCancel \/ StopClose \/ StopReturn \/ UNCHANGED vars
  BY <1>4, SameMetrics DEF StopCancel, StopClose, StopReturn, vars, callers, loops, InState, Busy
<1> QED BY <1>2, <1>3, <1>4 DEF Next

\* What was sent is processed, being processed or waiting, whatever the counters
\* are caught in the middle of.
THEOREM MetricsCorrect == Spec => []MetricsBalance
<1>1. Init => MetricsBalance
  <2> SUFFICES ASSUME Init PROVE MetricsBalance
    OBVIOUS
  <2>1. InState("sent") = {} /\ Busy = {} /\ Len(jobQueue) = 0
    BY EmptySeq DEF Init, InState, Busy
  <2>2. Cardinality({}) = 0
    BY FS_EmptySet
  <2>3. totalJobsEnqueued = 0 /\ totalJobsProcessed = 0
    BY DEF Init
  <2> QED BY <2>1, <2>2, <2>3 DEF MetricsBalance
<1>2. IInv /\ MetricsBalance /\ [Next]_vars => MetricsBalance'
  BY MetricsStep
<1> QED BY Invariant, <1>1, <1>2, PTL DEF Spec

-----------------------------------------------------------------------------
(* The pool implements JobDelivery.                                        *)

\* The fate of a job depends on the channel, the hands and the prepared jobs.
LEMMA SameFate ==
    ASSUME UNCHANGED <<jobQueue, current, handled>>, Busy' = Busy
    PROVE  \A j \in Job : Fate(j)' = Fate(j)
  BY DEF Fate, Queued

\* A caller changes at most its own answer.
LEMMA CallerRefines ==
    ASSUME IInv, NEW j \in Job, CallerStep(j)
    PROVE  [Delivery!Next]_<<fate, answer>>
<1> USE DEF IInv, fate, answer
<1>1. \A k \in Job : k # j => Answer(k)' = Answer(k)
  BY DEF CallerStep, LoadActive, SpawnWorker, Enqueue, CountEnqueued, Drop, PanicOnClosed,
         Answer, TypeOK
<1>2. CASE LoadActive(j) \/ SpawnWorker(j) \/ PanicOnClosed(j)
  <2>1. Answer(j)' = Answer(j)
    BY <1>2 DEF LoadActive, SpawnWorker, PanicOnClosed, Answer, TypeOK
  <2>2. Busy' = Busy /\ UNCHANGED <<jobQueue, current, handled>>
    BY <1>2 DEF LoadActive, SpawnWorker, PanicOnClosed, Busy, TypeOK, loops
  <2>3. fate' = fate /\ answer' = answer
    BY <1>1, <2>1, <2>2, SameFate
  <2> QED BY <2>3
<1>3. CASE Enqueue(j)
  <2>1. Answer(j)' = "pending" /\ Answer(j) = "pending"
    BY <1>3 DEF Enqueue, Answer, TypeOK
  <2>2. j \notin Queued \cup handled /\ \A g \in Busy : current[g] # j
    BY <1>3 DEF Enqueue, InState, JobsConserved
  <2>3. Queued' = Queued \cup {j} /\ Busy' = Busy /\ UNCHANGED <<current, handled>>
    BY <1>3, ContentAppend DEF Enqueue, Queued, TypeOK, Busy, loops
  <2>4. Fate(j) = "offered" /\ Fate(j)' = "queued"
    BY <2>2, <2>3 DEF Fate
  <2>5. \A k \in Job : k # j => Fate(k)' = Fate(k)
    BY <2>3 DEF Fate
  <2>6. fate' = [fate EXCEPT ![j] = "queued"] /\ answer' = answer
    BY <1>1, <2>1, <2>4, <2>5
  <2>7. Delivery!Accept(j)
    BY <2>1, <2>4, <2>6 DEF Delivery!Accept, Delivery!Becomes
  <2> QED BY <2>7 DEF Delivery!Next
<1>4. CASE CountEnqueued(j)
  <2>1. Answer(j)' = "yes" /\ Answer(j) = "pending"
    BY <1>4 DEF CountEnqueued, Answer, TypeOK
  <2>2. Busy' = Busy /\ UNCHANGED <<jobQueue, current, handled>>
    BY <1>4 DEF CountEnqueued, Busy, loops
  <2>3. fate' = fate /\ answer' = [answer EXCEPT ![j] = "yes"]
    BY <1>1, <2>1, <2>2, SameFate
  <2>4. Fate(j) # "offered"
    <3>1. j \in Queued \cup {current[g] : g \in Busy} \cup handled
      BY <1>4 DEF CountEnqueued, InState, JobsConserved
    <3> QED BY <3>1 DEF Fate
  <2>5. Delivery!Confirm(j)
    BY <2>1, <2>3, <2>4 DEF Delivery!Confirm, Delivery!Told
  <2> QED BY <2>5 DEF Delivery!Next
<1>5. CASE Drop(j)
  <2>1. Answer(j)' = "no" /\ Answer(j) = "pending"
    BY <1>5 DEF Drop, Answer, TypeOK
  <2>2. Busy' = Busy /\ UNCHANGED <<jobQueue, current, handled>>
    BY <1>5 DEF Drop, Busy, loops
  <2>3. fate' = fate /\ answer' = [answer EXCEPT ![j] = "no"]
    BY <1>1, <2>1, <2>2, SameFate
  <2>4. Fate(j) = "offered"
    <3>1. j \notin Queued \cup {current[g] : g \in Busy} \cup handled
      BY <1>5 DEF Drop, InState, JobsConserved
    <3> QED BY <3>1 DEF Fate
  <2>5. Delivery!Refuse(j)
    BY <2>1, <2>3, <2>4 DEF Delivery!Refuse, Delivery!Told
  <2> QED BY <2>5 DEF Delivery!Next
<1> QED BY <1>2, <1>3, <1>4, <1>5 DEF CallerStep

\* A goroutine begins or ends the job at its hand, and nothing else.
LEMMA WorkerRefines ==
    ASSUME IInv, NEW g \in Goroutine, WorkerStep(g) \/ FinishJob(g) \/ TimerFires(g)
    PROVE  [Delivery!Next]_<<fate, answer>>
<1> USE DEF IInv, fate, answer
<1>1. answer' = answer
  BY DEF WorkerStep, WorkerEnter, TakeJob, IdleExit, ClosedExit, CancelExit, LeaveLoop,
         Depart, WgDone, FinishJob, TimerFires, callers, Answer
<1>2. CASE TakeJob(g)
  <2>1. /\ jobQueue \in Seq(Job) /\ jobQueue # <<>> /\ jobQueue' = Tail(jobQueue)
        /\ \A i, k \in 1 .. Len(jobQueue) : jobQueue[i] = jobQueue[k] => i = k
    BY <1>2 DEF TakeJob, TypeOK, JobsConserved
  <2> PICK h \in Job : h = Head(jobQueue)
    BY <2>1, HeadTailProperties
  <2>2. h \in Queued /\ Queued' = Queued \ {h} /\ h \in Job
    <3>1. /\ Head(jobQueue) \in {jobQueue[i] : i \in 1 .. Len(jobQueue)}
          /\ {Tail(jobQueue)[i] : i \in 1 .. Len(Tail(jobQueue))} =
               {jobQueue[i] : i \in 1 .. Len(jobQueue)} \ {Head(jobQueue)}
      BY <2>1, ContentTail
    <3> QED BY <2>1, <3>1 DEF Queued
  <2>3. Busy' = Busy \cup {g} /\ g \notin Busy /\ current' = [current EXCEPT ![g] = h]
        /\ handled' = handled
    BY <1>2 DEF TakeJob, Busy, TypeOK
  <2>4. current'[g] = h /\ \A k \in Busy : current'[k] = current[k]
    BY <2>3 DEF TypeOK, Busy
  <2>5. h \notin handled /\ \A k \in Busy : current[k] # h
    BY <2>2 DEF JobsConserved
  <2>6. Fate(h) = "queued" /\ Fate(h)' = "running"
    BY <2>2, <2>3, <2>4, <2>5 DEF Fate
  <2>7. \A k \in Job : k # h => Fate(k)' = Fate(k)
    BY <2>2, <2>3, <2>4 DEF Fate
  <2>8. fate' = [fate EXCEPT ![h] = "running"]
    BY <2>2, <2>6, <2>7
  <2>9. Delivery!Begin(h)
    BY <1>1, <2>2, <2>6, <2>8 DEF Delivery!Begin, Delivery!Becomes
  <2> QED BY <2>2, <2>9 DEF Delivery!Next
<1>3. CASE FinishJob(g)
  <2>1. PICK h \in Job : h = current[g]
    BY <1>3 DEF FinishJob, InHand, TypeOK
  <2>2. /\ Busy' = Busy \ {g} /\ g \in Busy
        /\ handled' = handled \cup {h}
        /\ \A k \in Busy' : current'[k] = current[k]
    BY <1>3, <2>1 DEF FinishJob, Busy, TypeOK
  <2>3. Queued' = Queued /\ h \notin handled
    BY <1>3, <2>1, <2>2 DEF FinishJob, Queued, JobsConserved
  <2>4. Fate(h) = "running" /\ Fate(h)' = "finished"
    BY <2>1, <2>2, <2>3 DEF Fate
  <2>5. \A k \in Job : k # h => Fate(k)' = Fate(k)
    BY <2>1, <2>2, <2>3 DEF Fate
  <2>6. fate' = [fate EXCEPT ![h] = "finished"]
    BY <2>1, <2>4, <2>5
  <2>7. Delivery!End(h)
    BY <1>1, <2>1, <2>4, <2>6 DEF Delivery!End, Delivery!Becomes
  <2> QED BY <2>1, <2>7 DEF Delivery!Next
<1>4. CASE ~TakeJob(g) /\ ~FinishJob(g)
  <2>1. UNCHANGED <<jobQueue, current, handled>> /\ Busy' = Busy
    BY <1>4 DEF WorkerStep, WorkerEnter, IdleExit, ClosedExit, CancelExit, LeaveLoop,
                Depart, WgDone, TimerFires, Busy, TypeOK
  <2>2. fate' = fate
    BY <2>1, SameFate
  <2> QED BY <1>1, <2>2
<1> QED BY <1>2, <1>3, <1>4

\* A job whose caller was told "no" is never run, and every other job that was
\* sent is run at most once.
THEOREM PoolDeliversJobs == Spec => DeliversJobs
<1>1. Init => Delivery!Init
  <2> SUFFICES ASSUME Init PROVE Delivery!Init
    OBVIOUS
  <2>1. Queued = {} /\ Busy = {} /\ handled = {}
    BY EmptySeq DEF Init, Queued, Busy
  <2>2. \A j \in Job : Fate(j) = "offered" /\ Answer(j) = "pending"
    BY <2>1 DEF Init, Fate, Answer
  <2> QED BY <2>2 DEF Delivery!Init, fate, answer
<1>2. IInv /\ [Next]_vars => [Delivery!Next]_<<fate, answer>>
  <2> SUFFICES ASSUME IInv, [Next]_vars
               PROVE  [Delivery!Next]_<<fate, answer>>
    OBVIOUS
  <2>1. CASE StopCancel \/ StopClose \/ StopReturn \/ UNCHANGED vars
    <3>1. UNCHANGED <<callers, loops, jobQueue, handled>>
      BY <2>1 DEF StopCancel, StopClose, StopReturn, vars
    <3>2. \A k \in Job : Fate(k)' = Fate(k) /\ Answer(k)' = Answer(k)
      BY <3>1, SameFate DEF callers, loops, Answer, Busy
    <3> QED BY <3>2 DEF fate, answer
  <2> QED BY <2>1, CallerRefines, WorkerRefines DEF Next
<1> QED BY Invariant, <1>1, <1>2, PTL DEF Spec, DeliversJobs, Delivery!Spec

\* What JobDelivery promises, as a state: a caller that was told "no" has a job that
\* was never taken in, one that was told "yes" one that was.
KeepsItsWord ==
    \A j \in Job : /\ answer[j] = "no" => fate[j] = "offered"
                   /\ answer[j] = "yes" => fate[j] # "offered"

\* It follows from the abstract specification alone ...
LEMMA DeliveryKeeps == Delivery!Spec => [](Delivery!TypeOK /\ KeepsItsWord)
<1> DEFINE Inv == Delivery!TypeOK /\ KeepsItsWord
<1>1. Delivery!Init => Inv
  BY DEF Delivery!Init, Delivery!TypeOK, KeepsItsWord
<1>2. Inv /\ [Delivery!Next]_<<fate, answer>> => Inv'
  <2> SUFFICES ASSUME Delivery!TypeOK, KeepsItsWord, [Delivery!Next]_<<fate, answer>> PROVE Inv'
    OBVIOUS
  <2>1. ASSUME NEW j \in Job, NEW from, NEW to \in {"queued", "running", "finished"},
               Delivery!Becomes(j, from, to), answer[j] # "no"
        PROVE  Inv'
    BY <2>1 DEF Delivery!Becomes, Delivery!TypeOK, KeepsItsWord
  <2>2. ASSUME NEW j \in Job, NEW r \in {"yes", "no"}, Delivery!Told(j, r),
               r = "no" <=> fate[j] = "offered"
        PROVE  Inv'
    BY <2>2 DEF Delivery!Told, Delivery!TypeOK, KeepsItsWord
  <2>3. ASSUME NEW j \in Job, Delivery!Accept(j) \/ Delivery!Begin(j) \/ Delivery!End(j)
        PROVE  Inv'
    BY <2>1, <2>3 DEF Delivery!Accept, Delivery!Begin, Delivery!End, Delivery!Becomes, KeepsItsWord
  <2>4. ASSUME NEW j \in Job, Delivery!Confirm(j) \/ Delivery!Refuse(j) PROVE Inv'
    BY <2>2, <2>4 DEF Delivery!Confirm, Delivery!Refuse
  <2>5. CASE UNCHANGED <<fate, answer>>
    BY <2>5 DEF Delivery!TypeOK, KeepsItsWord
  <2> QED BY <2>3, <2>4, <2>5 DEF Delivery!Next
<1> QED BY <1>1, <1>2, PTL DEF Delivery!Spec

\* ... and so the pool keeps it.
THEOREM WordCorrect == Spec => []KeepsItsWord
BY PoolDeliversJobs, DeliveryKeeps, PTL DEF DeliversJobs

-----------------------------------------------------------------------------
(* Why a backlog is worked off: the safety part of BacklogServed.          *)

\* Jobs leave the channel in the order in which they came: none is passed over.
JobsInTurn ==
    [][\A i, k \in 1 .. Len(jobQueue) :
          i < k /\ jobQueue[k] \notin Queued' => jobQueue[i] \notin Queued']_vars

\* While jobs wait, a worker that is to serve them goes on doing so, if idle timers
\* fire on idle workers only: none gives up before the channel is empty or Stop is
\* called.
WatchKept ==
    [][Punctual /\ jobQueue # <<>> =>
          \A g \in Goroutine : WillServe(g) => WillServe(g)' \/ ctxDone]_vars

\* The channel is closed after the context was cancelled.
CancelFits == (stop # "idle" => ctxDone) /\ (queueClosed => ctxDone)

LEMMA CancelStep == ASSUME CancelFits, [Next]_vars PROVE CancelFits'
<1>1. CASE StopCancel \/ StopClose \/ StopReturn
  BY <1>1 DEF StopCancel, StopClose, StopReturn, CancelFits
<1>2. ASSUME NEW j \in Job, CallerStep(j) PROVE UNCHANGED ending
  BY <1>2 DEF CallerStep, LoadActive, SpawnWorker, Enqueue, CountEnqueued, Drop, PanicOnClosed
<1>3. ASSUME NEW g \in Goroutine, WorkerStep(g) \/ FinishJob(g) \/ TimerFires(g)
      PROVE  UNCHANGED ending
  BY <1>3 DEF WorkerStep, WorkerEnter, TakeJob, IdleExit, ClosedExit, CancelExit, LeaveLoop,
     Depart, WgDone, FinishJob, TimerFires
<1>4. UNCHANGED ending => CancelFits'
  BY DEF ending, CancelFits
<1> QED BY <1>1, <1>2, <1>3, <1>4 DEF Next, vars

\* Only a worker takes something out of the channel, and that is its head.
LEMMA QueueStep ==
    ASSUME IInv, [Next]_vars
    PROVE  \/ Queued \subseteq Queued'
           \/ jobQueue # <<>> /\ Queued' = Queued \ {Head(jobQueue)}
<1>1. TypeOK /\ JobsConserved
  BY DEF IInv
<1>2. ASSUME NEW j \in Job, CallerStep(j) PROVE Queued \subseteq Queued'
  <2>1. UNCHANGED jobQueue \/ jobQueue' = Append(jobQueue, j)
    BY <1>2 DEF CallerStep, LoadActive, SpawnWorker, Enqueue, CountEnqueued, Drop, PanicOnClosed
  <2>2. CASE jobQueue' = Append(jobQueue, j)
    BY <1>1, <2>2, ContentAppend DEF Queued, TypeOK
  <2> QED BY <2>1, <2>2 DEF Queued
<1>3. ASSUME NEW g \in Goroutine, TakeJob(g)
      PROVE  jobQueue # <<>> /\ Queued' = Queued \ {Head(jobQueue)}
  <2>1. /\ jobQueue \in Seq(Job) /\ jobQueue # <<>> /\ jobQueue' = Tail(jobQueue)
        /\ \A i, k \in 1 .. Len(jobQueue) : jobQueue[i] = jobQueue[k] => i = k
    BY <1>1, <1>3 DEF TakeJob, TypeOK, JobsConserved
  <2>2. {Tail(jobQueue)[i] : i \in 1 .. Len(Tail(jobQueue))} =
          {jobQueue[i] : i \in 1 .. Len(jobQueue)} \ {Head(jobQueue)}
    BY <2>1, ContentTail
  <2> QED BY <2>1, <2>2 DEF Queued
<1>4. ASSUME NEW g \in Goroutine, WorkerStep(g) \/ FinishJob(g) \/ TimerFires(g), ~TakeJob(g)
      PROVE  UNCHANGED jobQueue
  BY <1>4 DEF WorkerStep, WorkerEnter, IdleExit, ClosedExit, CancelExit, LeaveLoop,
     Depart, WgDone, FinishJob, TimerFires
<1>5. StopCancel \/ StopClose \/ StopReturn \/ UNCHANGED vars => UNCHANGED jobQueue
  BY DEF StopCancel, StopClose, StopReturn, vars
<1>6. UNCHANGED jobQueue => Queued \subseteq Queued'
  BY DEF Queued
<1> QED BY <1>2, <1>3, <1>4, <1>5, <1>6 DEF Next

\* No job is overtaken in the channel, whoever sends and takes.
THEOREM TurnCorrect == Spec => JobsInTurn
<1>1. IInv /\ [Next]_vars =>
        [\A i, k \in 1 .. Len(jobQueue) :
            i < k /\ jobQueue[k] \notin Queued' => jobQueue[i] \notin Queued']_vars
  <2> SUFFICES ASSUME IInv, [Next]_vars,
                      NEW i \in 1 .. Len(jobQueue), NEW k \in 1 .. Len(jobQueue),
                      i < k, jobQueue[k] \notin Queued'
               PROVE  FALSE
    OBVIOUS
  <2>1. jobQueue[k] \in Queued
    BY DEF Queued
  <2>2. jobQueue # <<>> /\ jobQueue[k] = Head(jobQueue)
    BY <2>1, QueueStep
  <2>3. Head(jobQueue) = jobQueue[1] /\ Len(jobQueue) \in Nat /\ 1 \in 1 .. Len(jobQueue)
    BY <2>2, HeadTailProperties, LenProperties DEF IInv, TypeOK
  <2>4. k = 1
    BY <2>2, <2>3 DEF IInv, JobsConserved
  <2> QED BY <2>3, <2>4
<1> QED BY Invariant, <1>1, PTL DEF Spec, JobsInTurn

\* No worker is lost to its idle timer while there is work.
THEOREM WatchCorrect == Spec => WatchKept
<1>1. Init => CancelFits
  BY DEF Init, CancelFits
<1>2. CancelFits /\ [Next]_vars => CancelFits'
  BY CancelStep
<1>3. IInv /\ CancelFits /\ [Next]_vars =>
        [Punctual /\ jobQueue # <<>> =>
            \A g \in Goroutine : WillServe(g) => WillServe(g)' \/ ctxDone]_vars
  <2> SUFFICES ASSUME TypeOK, CancelFits, [Next]_vars, Punctual, jobQueue # <<>>, ~ctxDone,
                      NEW g \in Goroutine, WillServe(g)
               PROVE  WillServe(g)'
    BY DEF IInv
  <2>1. ~queueClosed /\ worker[g] \in {"spawned", "busy", "idle"}
        /\ (worker[g] = "idle" => idleTimer[g] = "armed")
    BY DEF CancelFits, WillServe
  <2>2. ASSUME NEW j \in Job, CallerStep(j) PROVE WillServe(g)'
    <3>1. CASE SpawnWorker(j)
      <4>1. UNCHANGED idleTimer /\ worker'[g] \in {worker[g], "spawned"}
        BY <3>1 DEF SpawnWorker, TypeOK
      <4> QED BY <2>1, <4>1 DEF WillServe
    <3>2. CASE ~SpawnWorker(j)
      BY <2>1, <2>2, <3>2 DEF CallerStep, LoadActive, Enqueue, CountEnqueued, Drop, PanicOnClosed,
         loops, WillServe
    <3> QED BY <3>1, <3>2
  <2>3. ASSUME NEW h \in Goroutine, WorkerStep(h) \/ FinishJob(h) \/ TimerFires(h)
        PROVE  WillServe(g)'
    <3>1. CASE h # g
      BY <2>1, <2>3, <3>1 DEF WorkerStep, WorkerEnter, TakeJob, IdleExit, ClosedExit, CancelExit,
         LeaveLoop, Depart, WgDone, FinishJob, TimerFires, TypeOK, WillServe
    <3>2. CASE h = g
      BY <2>1, <2>3, <3>2 DEF WorkerStep, WorkerEnter, TakeJob, IdleExit, ClosedExit, CancelExit,
         LeaveLoop, Depart, WgDone, FinishJob, TimerFires, TypeOK, WillServe
    <3> QED BY <3>1, <3>2
  <2>4. StopCancel \/ StopClose \/ StopReturn \/ UNCHANGED vars => UNCHANGED loops
    BY DEF StopCancel, StopClose, StopReturn, vars
  <2>5. UNCHANGED loops => WillServe(g)'
    BY <2>1 DEF loops, WillServe
  <2> QED BY <2>2, <2>3, <2>4, <2>5 DEF Next
<1> QED BY Invariant, <1>1, <1>2, <1>3, PTL DEF Spec, WatchKept
=============================================================================
