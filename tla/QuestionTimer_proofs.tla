------------------------ MODULE QuestionTimer_proofs ------------------------
(***************************************************************************)
(* Proofs about QuestionTimer, for every set of requests, questions and    *)
(* plans of the client.                                                    *)
(***************************************************************************)
EXTENDS QuestionTimer, TLAPS

\* A request starts its timer last, and only a request for a question does.
TimersFit ==
    /\ \A r \in Request : timer[r] # "none" \/ r \in cancelled => request[r] = "ended"
    /\ \A r \in Request : timer[r] # "none" => kind[r] = "ask" /\ about[r] # None
    /\ \A r \in Request :
        request[r] \in {"wait", "store", "read", "write", "saved"} => about[r] # None
    /\ \A r \in Request : request[r] = "store" => kind[r] = "ask"
    /\ \A r \in Request : request[r] \in {"read", "write", "saved"} => kind[r] = "answer"

\* What the map has for a question is a timer of that question, and was not
\* cancelled by a request.
EntriesFit ==
    \A q \in Question :
        timers[q] # None =>
            /\ timer[timers[q]] # "none"
            /\ about[timers[q]] = q
            /\ q \notin visited => timers[q] \notin cancelled

\* The inductive invariant.
IInv == TypeOK /\ TimersFit /\ EntriesFit /\ EntryRuns

\* With one request at a time and goroutines that end within the wait of cancelTimer,
\* a timer that runs is the one in the map or the one that is waited for.
AtMostOneBusy == \A r, s \in Request : Busy(r) /\ Busy(s) => r = s

Claimed(t) == timers[about[t]] = t \/ \E r \in Request : request[r] = "wait" /\ victim[r] = t

RunningClaimed == \A t \in Request : Running(t) => Claimed(t)

WaitsFit ==
    /\ \A r \in Request : request[r] = "wait" =>
            victim[r] # None /\ about[victim[r]] = about[r]
    /\ \A r \in Request : request[r] \in {"wait", "store"} => timers[about[r]] = None

SoleInv == ~overlapping /\ ~late => AtMostOneBusy /\ RunningClaimed /\ WaitsFit

-----------------------------------------------------------------------------
LEMMA InitInv == ASSUME Init PROVE IInv /\ SoleInv
<1>1. TypeOK
  BY TimerAssumption DEF Init, TypeOK, RequestState, TimerState
<1>2. TimersFit /\ EntriesFit /\ EntryRuns
  BY DEF Init, TimersFit, EntriesFit, EntryRuns
<1>3. SoleInv
  BY DEF Init, SoleInv, AtMostOneBusy, RunningClaimed, WaitsFit, Running, Busy
<1> QED BY <1>1, <1>2, <1>3 DEF IInv

\* What a request is is fixed by the plan of the client.
LEMMA KindTyped == TypeOK => kind \in [Request -> Kind]
  BY TimerAssumption DEF TypeOK

\* Where a request goes after cancelTimer.
LEMMA AfterCancelTyped ==
    ASSUME TypeOK, NEW r \in Request
    PROVE  /\ AfterCancel(r) \in {"store", "read", "ended", "cancel"}
           /\ AfterCancel(r) = "store" => kind[r] = "ask"
           /\ AfterCancel(r) = "read" => kind[r] = "answer"
           /\ kind[r] = "submit" => AfterCancel(r) \in {"ended", "cancel"}
<1>1. kind[r] \in Kind
  BY KindTyped
<1>2. CASE kind[r] = "ask"
  BY <1>2 DEF AfterCancel
<1>3. CASE kind[r] = "answer"
  BY <1>3 DEF AfterCancel
<1>4. CASE kind[r] = "submit"
  BY <1>4 DEF AfterCancel
<1> QED BY <1>1, <1>2, <1>3, <1>4 DEF Kind

LEMMA NextVisitTyped ==
    ASSUME TypeOK, NEW r \in Request
    PROVE  /\ NextVisit(r) \in [Request -> Question \cup {None}]
           /\ \A s \in Request : s # r \/ kind[r] # "submit" => NextVisit(r)[s] = about[s]
  BY DEF TypeOK, NextVisit

-----------------------------------------------------------------------------
(* Types.                                                                  *)

LEMMA RequestType ==
    ASSUME TypeOK, NEW r \in Request, Begin(r) \/ RequestStep(r) PROVE TypeOK'
<1>1. CASE Begin(r)
  BY <1>1 DEF Begin, TypeOK, Goto, RequestState, modes, manager, rows
<1>2. CASE Visit(r)
  BY <1>2 DEF Visit, TypeOK, modes, manager, rows
<1>3. CASE Cancel(r)
  <2>1. about[r] \in Question /\ timers[about[r]] \in Request \cup {None}
    BY <1>3 DEF Cancel, TypeOK
  <2>2. AfterCancel(r) \in RequestState /\ NextVisit(r) \in [Request -> Question \cup {None}]
    BY AfterCancelTyped, NextVisitTyped DEF RequestState
  <2>3. /\ request' \in [Request -> RequestState]
        /\ about' \in [Request -> Question \cup {None}]
        /\ victim' \in [Request -> Request \cup {None}]
    BY <1>3, <2>1, <2>2 DEF Cancel, TypeOK, Goto, RequestState
  <2>4. timers' \in [Question -> Request \cup {None}] /\ cancelled' \in SUBSET Request
    BY <1>3, <2>1 DEF Cancel, TypeOK, manager
  <2>5. timer' = timer /\ visited' = visited
    BY <1>3 DEF Cancel, manager
  <2> QED BY <1>3, <2>3, <2>4, <2>5 DEF Cancel, TypeOK, modes, rows
<1>4. CASE Wait(r)
  <2>1. AfterCancel(r) \in RequestState /\ NextVisit(r) \in [Request -> Question \cup {None}]
    BY AfterCancelTyped, NextVisitTyped DEF RequestState
  <2> QED BY <1>4, <2>1 DEF Wait, TypeOK, Goto, modes, manager, rows
<1>5. CASE Store(r)
  BY <1>5 DEF Store, TypeOK, Goto, RequestState, TimerState, modes, rows
<1>6. CASE ReadAnswer(r)
  BY <1>6 DEF ReadAnswer, TypeOK, Goto, RequestState, modes, manager, rows
<1>7. CASE WriteAnswer(r)
  BY <1>7 DEF WriteAnswer, TypeOK, Goto, RequestState, modes, manager
<1> QED BY <1>1, <1>2, <1>3, <1>4, <1>5, <1>6, <1>7 DEF RequestStep

LEMMA TimerType ==
    ASSUME TypeOK, NEW t \in Request, TimerStep(t) PROVE TypeOK'
<1>1. CASE Expire(t)
  BY <1>1 DEF Expire, TypeOK, Enter, TimerState, modes, requests, rows
<1>2. CASE Stop(t)
  BY <1>2 DEF Stop, TypeOK, Enter, TimerState, modes, requests, rows
<1>3. CASE Look(t)
  BY <1>3 DEF Look, TypeOK, Enter, TimerState, modes, requests, rows
<1>4. CASE Notify(t)
  BY <1>4 DEF Notify, TypeOK, Enter, TimerState, modes, requests, rows
<1>5. CASE Spawn(t)
  BY <1>5 DEF Spawn, TypeOK, Enter, TimerState, modes, requests
<1>6. CASE Delete(t)
  BY <1>6 DEF Delete, TypeOK, Enter, TimerState, modes, requests, rows
<1>7. CASE ReadTimeout(t)
  BY <1>7 DEF ReadTimeout, TypeOK, modes, requests, manager
<1>8. CASE WriteTimeout(t)
  BY <1>8 DEF WriteTimeout, TypeOK, modes, requests, manager
<1> QED BY <1>1, <1>2, <1>3, <1>4, <1>5, <1>6, <1>7, <1>8 DEF TimerStep

LEMMA ShutdownType ==
    ASSUME TypeOK, NEW q \in Question, Shutdown(q) PROVE TypeOK'
  BY DEF Shutdown, TypeOK, modes, requests, rows

-----------------------------------------------------------------------------
(* The map.                                                                *)

LEMMA RequestFits ==
    ASSUME IInv, NEW r \in Request, Begin(r) \/ RequestStep(r)
    PROVE  TimersFit' /\ EntriesFit' /\ EntryRuns'
<1>1. TypeOK /\ TimersFit /\ EntriesFit /\ EntryRuns
  BY DEF IInv
<1>2. CASE Begin(r)
  <2>1. /\ request[r] = "new" /\ UNCHANGED <<timers, timer, cancelled, visited, kind>>
        /\ request' = [request EXCEPT ![r] = "cancel"]
        /\ \A s \in Request \ {r} : about'[s] = about[s]
    BY <1>1, <1>2 DEF Begin, Goto, manager, TypeOK
  <2>2. timer[r] = "none" /\ r \notin cancelled
    BY <1>1, <2>1 DEF TimersFit
  <2>3. TimersFit'
    BY <1>1, <2>1, <2>2 DEF TimersFit, TypeOK
  <2>4. \A q \in Question : timers[q] # r
    BY <1>1, <2>2, TimerAssumption DEF EntriesFit, TypeOK
  <2>5. EntriesFit' /\ EntryRuns'
    BY <1>1, <2>1, <2>4 DEF EntriesFit, EntryRuns, TypeOK
  <2> QED BY <2>3, <2>5
<1>3. CASE Visit(r)
  <2>1. /\ request[r] = "cancel" /\ UNCHANGED <<timers, timer, cancelled, visited, kind, request>>
        /\ \A s \in Request \ {r} : about'[s] = about[s]
    BY <1>1, <1>3 DEF Visit, manager, TypeOK
  <2>2. timer[r] = "none"
    BY <1>1, <2>1 DEF TimersFit
  <2>3. TimersFit'
    BY <1>1, <2>1, <2>2 DEF TimersFit, TypeOK
  <2>4. \A q \in Question : timers[q] # r
    BY <1>1, <2>2, TimerAssumption DEF EntriesFit, TypeOK
  <2>5. EntriesFit' /\ EntryRuns'
    BY <1>1, <2>1, <2>4 DEF EntriesFit, EntryRuns, TypeOK
  <2> QED BY <2>3, <2>5
<1>4. CASE Cancel(r)
  <2>1. request[r] = "cancel" /\ timer[r] = "none" /\ about[r] \in Question
    BY <1>1, <1>4 DEF Cancel, TimersFit, TypeOK
  <2>2. CASE timers[about[r]] = None
    <3>1. /\ UNCHANGED <<timers, timer, cancelled, visited, kind>>
          /\ request' = [request EXCEPT ![r] = AfterCancel(r)] /\ about' = NextVisit(r)
      BY <1>4, <2>2 DEF Cancel, Goto, manager
    <3>2. TimersFit'
      BY <1>1, <2>1, <3>1, AfterCancelTyped, NextVisitTyped, TimerAssumption DEF TimersFit, TypeOK
    <3>3. \A q \in Question : timers[q] # r
      BY <1>1, <2>1, TimerAssumption DEF EntriesFit, TypeOK
    <3>4. \A s \in Request \ {r} : about'[s] = about[s]
      BY <1>1, <3>1, NextVisitTyped
    <3>5. EntriesFit' /\ EntryRuns'
      BY <1>1, <3>1, <3>3, <3>4 DEF EntriesFit, EntryRuns, TypeOK
    <3> QED BY <3>2, <3>5
  <2>3. CASE timers[about[r]] # None
    <3> DEFINE t == timers[about[r]]
    <3>1. /\ UNCHANGED <<timer, visited, kind, about>>
          /\ timers' = [timers EXCEPT ![about[r]] = None]
          /\ cancelled' = cancelled \cup {t}
          /\ request' = [request EXCEPT ![r] = "wait"]
      BY <1>4, <2>3 DEF Cancel, Goto
    <3>2. t \in Request /\ timer[t] # "none" /\ about[t] = about[r]
      BY <1>1, <2>1, <2>3 DEF EntriesFit, TypeOK
    <3>3. request[t] = "ended" /\ t # r
      BY <1>1, <2>1, <3>2 DEF TimersFit
    <3>4. TimersFit'
      BY <1>1, <2>1, <3>1, <3>3, TimerAssumption DEF TimersFit, TypeOK
    <3>5. \A q \in Question : q # about[r] => timers[q] # t
      BY <1>1, <3>2, TimerAssumption DEF EntriesFit, TypeOK
    <3>6. EntriesFit' /\ EntryRuns'
      BY <1>1, <2>1, <3>1, <3>5 DEF EntriesFit, EntryRuns, TypeOK
    <3> QED BY <3>4, <3>6
  <2> QED BY <2>2, <2>3
<1>5. CASE Wait(r)
  <2>1. /\ request[r] = "wait" /\ UNCHANGED <<timers, timer, cancelled, visited, kind>>
        /\ request' = [request EXCEPT ![r] = AfterCancel(r)] /\ about' = NextVisit(r)
    BY <1>5 DEF Wait, Goto, manager
  <2>2. timer[r] = "none"
    BY <1>1, <2>1 DEF TimersFit
  <2>3. TimersFit'
    BY <1>1, <2>1, <2>2, AfterCancelTyped, NextVisitTyped DEF TimersFit, TypeOK
  <2>4. \A q \in Question : timers[q] # r
    BY <1>1, <2>2, TimerAssumption DEF EntriesFit, TypeOK
  <2>5. \A s \in Request \ {r} : about'[s] = about[s]
    BY <1>1, <2>1, NextVisitTyped
  <2>6. EntriesFit' /\ EntryRuns'
    BY <1>1, <2>1, <2>4, <2>5 DEF EntriesFit, EntryRuns, TypeOK
  <2> QED BY <2>3, <2>6
<1>6. CASE Store(r)
  <2>1. /\ request[r] = "store" /\ UNCHANGED <<about, cancelled, visited, kind>>
        /\ timers' = [timers EXCEPT ![about[r]] = r] /\ timer' = [timer EXCEPT ![r] = "armed"]
        /\ request' = [request EXCEPT ![r] = "ended"]
    BY <1>6 DEF Store, Goto
  <2>2. /\ r \notin cancelled /\ timer[r] = "none" /\ kind[r] = "ask"
        /\ about[r] \in Question
    BY <1>1, <2>1 DEF TimersFit, TypeOK
  <2>3. TimersFit'
    BY <1>1, <2>1, <2>2, TimerAssumption DEF TimersFit, TypeOK
  <2>4. EntriesFit' /\ EntryRuns'
    BY <1>1, <2>1, <2>2 DEF EntriesFit, EntryRuns, TypeOK
  <2> QED BY <2>3, <2>4
<1>7. CASE ReadAnswer(r) \/ WriteAnswer(r)
  <2>1. /\ request[r] \in {"read", "write"} /\ UNCHANGED <<timers, timer, cancelled, visited, kind, about>>
        /\ \E next \in {"write", "saved", "ended"} : request' = [request EXCEPT ![r] = next]
    BY <1>7 DEF ReadAnswer, WriteAnswer, Goto, manager
  <2>2. TimersFit'
    BY <1>1, <2>1 DEF TimersFit, TypeOK
  <2>3. EntriesFit' /\ EntryRuns'
    BY <1>1, <2>1 DEF EntriesFit, EntryRuns, TypeOK
  <2> QED BY <2>2, <2>3
<1> QED BY <1>2, <1>3, <1>4, <1>5, <1>6, <1>7 DEF RequestStep

\* A goroutine ends with no entry left that names it.
LEMMA TimerFits ==
    ASSUME IInv, NEW t \in Request, TimerStep(t)
    PROVE  TimersFit' /\ EntriesFit' /\ EntryRuns'
<1>1. TypeOK /\ TimersFit /\ EntriesFit /\ EntryRuns
  BY DEF IInv
<1>2. UNCHANGED <<requests, cancelled, visited>>
  BY DEF TimerStep, Expire, Stop, Look, Notify, Spawn, Delete, ReadTimeout, WriteTimeout, manager
<1>3. \/ timer' = timer
      \/ timer[t] # "none" /\ \E next \in TimerState \ {"none"} : timer' = [timer EXCEPT ![t] = next]
  BY DEF TimerStep, Expire, Stop, Look, Notify, Spawn, Delete, ReadTimeout, WriteTimeout, manager,
         Enter, TimerState
<1>4. TimersFit'
  BY <1>1, <1>2, <1>3 DEF TimersFit, TypeOK, requests
<1>5. CASE Delete(t)
  <2>1. timer[t] # "none" /\ about[t] \in Question
    BY <1>1, <1>5 DEF Delete, TimersFit, TypeOK
  <2>2. timers' = [timers EXCEPT ![about[t]] = None] /\ timer' = [timer EXCEPT ![t] = "done"]
    BY <1>5 DEF Delete, Enter
  <2>3. \A q \in Question : timers'[q] # None => timers'[q] = timers[q] /\ timers[q] # t
    BY <1>1, <2>1, <2>2, TimerAssumption DEF EntriesFit, TypeOK
  <2>4. EntriesFit' /\ EntryRuns'
    BY <1>1, <1>2, <1>3, <2>2, <2>3 DEF EntriesFit, EntryRuns, TypeOK, requests
  <2> QED BY <1>4, <2>4
<1>6. CASE ~Delete(t)
  <2>1. timers' = timers
    BY <1>6 DEF TimerStep, Expire, Stop, Look, Notify, Spawn, ReadTimeout, WriteTimeout, manager
  <2>2. EntriesFit'
    BY <1>1, <1>2, <1>3, <2>1 DEF EntriesFit, TypeOK, requests
  <2>3. CASE timer' = timer \/ timer'[t] \notin {"none", "done"}
    <3>1. \A q \in Question : timers[q] # None => timers[q] \in Request
      BY <1>1 DEF TypeOK
    <3>2. \A s \in Request : timer'[s] = timer[s] \/ timer'[s] \notin {"none", "done"}
      BY <1>1, <1>3, <2>3 DEF TypeOK
    <3>3. timers' = timers /\ visited' = visited /\ about' = about
      BY <1>2, <2>1 DEF requests
    <3>4. EntryRuns'
      BY <1>1, <3>1, <3>2, <3>3 DEF EntryRuns
    <3> QED BY <1>4, <2>2, <3>4
  <2>4. CASE timer'[t] = "done" /\ timer' # timer
    <3>1. \/ t \in cancelled
          \/ timers[about[t]] = None
      BY <1>1, <1>6, <2>4 DEF TimerStep, Expire, Stop, Look, Notify, Spawn, ReadTimeout,
           WriteTimeout, manager, Enter, TypeOK
    <3>2. \A q \in Question : q \notin visited => timers[q] # t
      BY <1>1, <3>1, TimerAssumption DEF EntriesFit, TypeOK
    <3> QED BY <1>1, <1>2, <1>3, <1>4, <2>1, <2>2, <3>2 DEF EntryRuns, TypeOK, requests
  <2> QED BY <1>1, <1>3, <1>4, <2>2, <2>3, <2>4 DEF TypeOK, TimerState
<1> QED BY <1>5, <1>6

LEMMA ShutdownFits ==
    ASSUME IInv, NEW q \in Question, Shutdown(q)
    PROVE  TimersFit' /\ EntriesFit' /\ EntryRuns'
<1>1. TypeOK /\ TimersFit /\ EntriesFit /\ EntryRuns
  BY DEF IInv
<1>2. /\ UNCHANGED <<requests, timers, timer>> /\ visited' = visited \cup {q}
      /\ cancelled' = cancelled \cup ({timers[q]} \ {None})
  BY DEF Shutdown
<1>3. timers[q] # None => request[timers[q]] = "ended"
  BY <1>1 DEF EntriesFit, TimersFit, TypeOK
<1>4. TimersFit'
  BY <1>1, <1>2, <1>3 DEF TimersFit, TypeOK, requests
<1>5. \A p \in Question : p # q /\ timers[p] # None => timers[p] # timers[q]
  BY <1>1 DEF EntriesFit, TypeOK
<1>6. EntriesFit' /\ EntryRuns'
  BY <1>1, <1>2, <1>5 DEF EntriesFit, EntryRuns, TypeOK, requests
<1> QED BY <1>4, <1>6

LEMMA StepInv == ASSUME IInv, [Next]_vars PROVE IInv'
<1>1. TypeOK
  BY DEF IInv
<1>2. ASSUME NEW r \in Request, Begin(r) \/ RequestStep(r) PROVE IInv'
  BY <1>1, <1>2, RequestType, RequestFits DEF IInv
<1>3. ASSUME NEW t \in Request, TimerStep(t) PROVE IInv'
  BY <1>1, <1>3, TimerType, TimerFits DEF IInv
<1>4. ASSUME NEW q \in Question, Shutdown(q) PROVE IInv'
  BY <1>1, <1>4, ShutdownType, ShutdownFits DEF IInv
<1>5. CASE UNCHANGED vars
  BY <1>5 DEF IInv, TypeOK, TimersFit, EntriesFit, EntryRuns, vars, modes, requests, manager, rows
<1> QED BY <1>2, <1>3, <1>4, <1>5 DEF Next

-----------------------------------------------------------------------------
(* One timer.                                                              *)

LEMMA SoleIsOne == ASSUME IInv, SoleInv PROVE OneTimer
<1> SUFFICES ASSUME ~overlapping, ~late, NEW t \in Request, NEW u \in Request,
                    Running(t), Running(u), about[t] = about[u]
             PROVE  t = u
  BY DEF OneTimer
<1>1. Claimed(t) /\ Claimed(u) /\ AtMostOneBusy /\ WaitsFit
  BY DEF SoleInv, RunningClaimed
<1>2. t # None /\ u # None
  BY TimerAssumption
<1>3. CASE timers[about[t]] = t
  BY <1>1, <1>2, <1>3 DEF Claimed, WaitsFit
<1>4. CASE timers[about[u]] = u
  BY <1>1, <1>2, <1>4 DEF Claimed, WaitsFit
<1>5. CASE timers[about[t]] # t /\ timers[about[u]] # u
  BY <1>1, <1>5 DEF Claimed, AtMostOneBusy, Busy
<1> QED BY <1>3, <1>4, <1>5

LEMMA SoleRequest ==
    ASSUME IInv, SoleInv, ~overlapping, ~late, NEW r \in Request, Begin(r) \/ RequestStep(r)
    PROVE  AtMostOneBusy' /\ RunningClaimed' /\ WaitsFit'
<1>1. TypeOK /\ TimersFit /\ EntriesFit
  BY DEF IInv
<1>2. AtMostOneBusy /\ RunningClaimed /\ WaitsFit
  BY DEF SoleInv
<1>3. \A s \in Request \ {r} : ~Busy(s)
  BY <1>2 DEF AtMostOneBusy, Busy, RequestStep, Begin, Visit, Cancel, Wait, Store, ReadAnswer,
              WriteAnswer
<1>4. \A s \in Request \ {r} : request'[s] = request[s] /\ about'[s] = about[s]
  BY <1>1, NextVisitTyped DEF RequestStep, Begin, Visit, Cancel, Wait, Store, ReadAnswer, WriteAnswer,
     Goto, TypeOK
<1>5. AtMostOneBusy'
  BY <1>3, <1>4 DEF AtMostOneBusy, Busy
<1>6. \A s \in Request \ {r} : request'[s] \notin {"wait", "store"}
  BY <1>3, <1>4 DEF Busy
<1>7. timer[r] = "none" /\ request[r] # "ended"
  BY <1>1 DEF RequestStep, Begin, Visit, Cancel, Wait, Store, ReadAnswer, WriteAnswer, TimersFit
<1>8. \A t \in Request : Running(t) => t # r /\ t # None /\ about'[t] = about[t]
  BY <1>4, <1>7, TimerAssumption DEF Running
<1>9. \A t \in Request :
        Running(t) => timers[about[t]] = t \/ (request[r] = "wait" /\ victim[r] = t)
  <2>1. \A s \in Request : request[s] = "wait" => s = r
    BY <1>3 DEF Busy
  <2> QED BY <1>2, <2>1 DEF RunningClaimed, Claimed
<1>10. CASE Begin(r) \/ Visit(r) \/ ReadAnswer(r) \/ WriteAnswer(r)
  <2>1. /\ UNCHANGED <<timers, timer>> /\ request[r] # "wait"
        /\ request'[r] \notin {"wait", "store"}
    BY <1>1, <1>10 DEF Begin, Visit, ReadAnswer, WriteAnswer, Goto, manager, TypeOK
  <2>2. WaitsFit'
    BY <1>6, <2>1 DEF WaitsFit
  <2>3. RunningClaimed'
    BY <1>8, <1>9, <2>1 DEF RunningClaimed, Claimed, Running
  <2> QED BY <1>5, <2>2, <2>3
<1>11. CASE Cancel(r)
  <2>1. request[r] = "cancel" /\ about[r] \in Question
    BY <1>1, <1>11 DEF Cancel, TypeOK
  <2>2. CASE timers[about[r]] = None
    <3>1. /\ UNCHANGED <<timers, timer>> /\ about' = NextVisit(r)
          /\ request' = [request EXCEPT ![r] = AfterCancel(r)]
      BY <1>11, <2>2 DEF Cancel, Goto, manager
    <3>2. request'[r] = AfterCancel(r)
      BY <1>1, <3>1 DEF TypeOK
    <3>3. request'[r] = "store" => about'[r] = about[r]
      BY <1>1, <3>1, <3>2, AfterCancelTyped, NextVisitTyped
    <3>4. WaitsFit'
      BY <1>1, <1>6, <2>2, <3>1, <3>2, <3>3, AfterCancelTyped DEF WaitsFit
    <3>5. RunningClaimed'
      BY <1>8, <1>9, <2>1, <3>1 DEF RunningClaimed, Claimed, Running
    <3> QED BY <1>5, <3>4, <3>5
  <2>3. CASE timers[about[r]] # None
    <3> DEFINE v == timers[about[r]]
    <3>1. /\ UNCHANGED <<timer, about>> /\ timers' = [timers EXCEPT ![about[r]] = None]
          /\ victim' = [victim EXCEPT ![r] = v] /\ request' = [request EXCEPT ![r] = "wait"]
      BY <1>11, <2>3 DEF Cancel, Goto
    <3>2. request'[r] = "wait" /\ victim'[r] = v /\ timers'[about[r]] = None
      BY <1>1, <2>1, <3>1 DEF TypeOK
    <3>3. v # None /\ about[v] = about[r]
      BY <1>1, <2>1, <2>3 DEF EntriesFit
    <3>4. WaitsFit'
      BY <1>6, <3>1, <3>2, <3>3 DEF WaitsFit
    <3>5. ASSUME NEW t \in Request, Running(t)' PROVE Claimed(t)'
      <4>1. Running(t) /\ timers[about[t]] = t
        BY <1>9, <2>1, <3>1, <3>5 DEF Running
      <4>2. CASE t = v
        BY <3>2, <4>2 DEF Claimed
      <4>3. CASE t # v
        <5>1. about[t] # about[r]
          BY <4>1, <4>3
        <5>2. timers'[about[t]] = timers[about[t]]
          BY <1>1, <3>1, <5>1 DEF TypeOK
        <5> QED BY <3>1, <4>1, <5>2 DEF Claimed
      <4> QED BY <4>2, <4>3
    <3> QED BY <1>5, <3>4, <3>5 DEF RunningClaimed
  <2> QED BY <2>2, <2>3
<1>12. CASE Wait(r)
  <2>1. /\ UNCHANGED <<timers, timer>> /\ about' = NextVisit(r)
        /\ request[r] = "wait" /\ timer[victim[r]] = "done"
        /\ request' = [request EXCEPT ![r] = AfterCancel(r)]
    BY <1>12 DEF Wait, Goto, manager
  <2>2. request'[r] = AfterCancel(r)
    BY <1>1, <2>1 DEF TypeOK
  <2>3. request'[r] = "store" => about'[r] = about[r]
    BY <1>1, <2>1, <2>2, AfterCancelTyped, NextVisitTyped
  <2>4. timers[about[r]] = None
    BY <1>2, <2>1 DEF WaitsFit
  <2>5. WaitsFit'
    BY <1>1, <1>6, <2>1, <2>2, <2>3, <2>4, AfterCancelTyped DEF WaitsFit
  <2>6. RunningClaimed'
    BY <1>8, <1>9, <2>1 DEF RunningClaimed, Claimed, Running
  <2> QED BY <1>5, <2>5, <2>6
<1>13. CASE Store(r)
  <2>1. /\ request[r] = "store" /\ UNCHANGED about
        /\ timers' = [timers EXCEPT ![about[r]] = r] /\ timer' = [timer EXCEPT ![r] = "armed"]
        /\ request' = [request EXCEPT ![r] = "ended"]
    BY <1>13 DEF Store, Goto
  <2>2. about[r] \in Question /\ timers[about[r]] = None
    BY <1>1, <1>2, <2>1 DEF TimersFit, TypeOK, WaitsFit
  <2>3. WaitsFit'
    BY <1>1, <1>6, <2>1 DEF WaitsFit, TypeOK
  <2>4. ASSUME NEW t \in Request, Running(t)' PROVE Claimed(t)'
    <3>1. CASE t = r
      BY <1>1, <2>1, <2>2, <3>1 DEF Claimed, TypeOK
    <3>2. CASE t # r
      <4>1. Running(t)
        BY <1>1, <2>1, <2>4, <3>2 DEF Running, TypeOK
      <4>2. timers[about[t]] = t /\ about[t] # about[r]
        BY <1>8, <1>9, <2>1, <2>2, <4>1
      <4>3. timers'[about[t]] = timers[about[t]]
        BY <1>1, <2>1, <4>2 DEF TypeOK
      <4> QED BY <2>1, <4>2, <4>3 DEF Claimed
    <3> QED BY <3>1, <3>2
  <2> QED BY <1>5, <2>3, <2>4 DEF RunningClaimed
<1> QED BY <1>10, <1>11, <1>12, <1>13 DEF RequestStep

LEMMA SoleTimer ==
    ASSUME IInv, SoleInv, ~overlapping, ~late, NEW t \in Request, TimerStep(t)
    PROVE  AtMostOneBusy' /\ RunningClaimed' /\ WaitsFit'
<1>1. TypeOK /\ TimersFit
  BY DEF IInv
<1>2. AtMostOneBusy /\ RunningClaimed /\ WaitsFit
  BY DEF SoleInv
<1>3. UNCHANGED <<request, about, victim>>
  BY DEF TimerStep, Expire, Stop, Look, Notify, Spawn, Delete, ReadTimeout, WriteTimeout, requests
<1>4. AtMostOneBusy'
  BY <1>2, <1>3 DEF AtMostOneBusy, Busy
<1>5. \A u \in Request : Running(u)' => Running(u)
  BY <1>1 DEF TimerStep, Expire, Stop, Look, Notify, Spawn, Delete, ReadTimeout, WriteTimeout,
     manager, Enter, Running, TypeOK
<1>6. CASE Delete(t)
  <2>1. /\ Running(t) /\ timers' = [timers EXCEPT ![about[t]] = None]
        /\ timer' = [timer EXCEPT ![t] = "done"] /\ about[t] \in Question
    BY <1>1, <1>6 DEF Delete, Enter, Running, TimersFit, TypeOK
  <2>2. WaitsFit'
    BY <1>1, <1>2, <1>3, <2>1 DEF WaitsFit, TypeOK
  <2>3. ASSUME NEW u \in Request, Running(u)' PROVE Claimed(u)'
    <3>1. u # t /\ Running(u)
      BY <1>1, <1>5, <2>1, <2>3 DEF Running, TypeOK
    <3>2. about[u] # about[t]
      BY <2>1, <3>1, SoleIsOne DEF OneTimer
    <3>3. timers'[about[u]] = timers[about[u]]
      BY <1>1, <2>1, <3>2 DEF TypeOK
    <3> QED BY <1>2, <1>3, <3>1, <3>3 DEF RunningClaimed, Claimed
  <2> QED BY <1>4, <2>2, <2>3 DEF RunningClaimed
<1>7. CASE ~Delete(t)
  <2>1. timers' = timers
    BY <1>7 DEF TimerStep, Expire, Stop, Look, Notify, Spawn, ReadTimeout, WriteTimeout, manager
  <2> QED BY <1>2, <1>3, <1>4, <1>5, <2>1 DEF RunningClaimed, Claimed, WaitsFit
<1> QED BY <1>6, <1>7

LEMMA StepSole == ASSUME IInv, SoleInv, [Next]_vars PROVE SoleInv'
<1>1. UNCHANGED modes
  BY DEF Next, RequestStep, TimerStep, Begin, Visit, Cancel, Wait, Store, ReadAnswer, WriteAnswer,
     Expire, Stop, Look, Notify, Spawn, Delete, ReadTimeout, WriteTimeout, Shutdown, vars
<1> SUFFICES ASSUME ~overlapping, ~late
             PROVE  AtMostOneBusy' /\ RunningClaimed' /\ WaitsFit'
  BY <1>1 DEF SoleInv, modes
<1>2. ASSUME NEW r \in Request, Begin(r) \/ RequestStep(r)
      PROVE  AtMostOneBusy' /\ RunningClaimed' /\ WaitsFit'
  BY <1>2, SoleRequest
<1>3. ASSUME NEW t \in Request, TimerStep(t)
      PROVE  AtMostOneBusy' /\ RunningClaimed' /\ WaitsFit'
  BY <1>3, SoleTimer
<1>4. CASE UNCHANGED vars \/ \E q \in Question : Shutdown(q)
  <2>1. UNCHANGED <<requests, timers, timer>>
    BY <1>4 DEF Shutdown, vars, manager
  <2> QED BY <2>1 DEF SoleInv, AtMostOneBusy, Busy, RunningClaimed, Claimed, Running, WaitsFit,
                      requests
<1> QED BY <1>2, <1>3, <1>4 DEF Next

-----------------------------------------------------------------------------
(* Answers.                                                                *)

\* A timer that has not come to its submission has none.
SubmissionsFit ==
    \A t \in Request : submission[t] # "none" => timer[t] \in {"delete", "done"}

\* While an answer that came in time is on its way, no timer of its question can
\* submit a timeout; once it is saved, none finds the question new.
Safe(r) ==
    /\ kind[r] = "answer" /\ request[r] \in {"wait", "read", "write"} =>
        ~Fired(about[r]) /\ timers[about[r]] = None
    /\ request[r] = "saved" =>
        /\ row[about[r]] = "answered"
        /\ \A t \in Request : about[t] = about[r] => submission[t] # "write"

AnswersSafe == ~overlapping => AtMostOneBusy /\ \A r \in Request \ tooLate : Safe(r)

LEMMA StepSubmissions == ASSUME IInv, SubmissionsFit, [Next]_vars PROVE SubmissionsFit'
<1>1. TypeOK /\ TimersFit
  BY DEF IInv
<1>2. ASSUME NEW r \in Request, Begin(r) \/ RequestStep(r) PROVE SubmissionsFit'
  <2>1. submission' = submission
    BY <1>2 DEF RequestStep, Begin, Visit, Cancel, Wait, Store, ReadAnswer, WriteAnswer, rows
  <2>2. CASE timer' = timer
    BY <2>1, <2>2 DEF SubmissionsFit
  <2>3. CASE timer' # timer
    <3>1. request[r] = "store" /\ timer' = [timer EXCEPT ![r] = "armed"]
      BY <1>2, <2>3 DEF RequestStep, Begin, Visit, Cancel, Wait, Store, ReadAnswer, WriteAnswer,
         manager
    <3>2. submission[r] = "none"
      BY <1>1, <3>1 DEF TimersFit, SubmissionsFit
    <3> QED BY <1>1, <2>1, <3>1, <3>2 DEF SubmissionsFit, TypeOK
  <2> QED BY <2>2, <2>3
<1>3. ASSUME NEW t \in Request, TimerStep(t) PROVE SubmissionsFit'
  BY <1>1, <1>3 DEF TimerStep, Expire, Stop, Look, Notify, Spawn, Delete, ReadTimeout, WriteTimeout,
     Enter, SubmissionsFit, TypeOK, rows, manager
<1>4. CASE UNCHANGED vars \/ \E q \in Question : Shutdown(q)
  BY <1>4 DEF Shutdown, vars, manager, rows, SubmissionsFit
<1> QED BY <1>2, <1>3, <1>4 DEF Next

LEMMA SafeRequest ==
    ASSUME IInv, SubmissionsFit, AnswersSafe, ~overlapping,
           NEW s \in Request, Begin(s) \/ RequestStep(s)
    PROVE  AtMostOneBusy' /\ \A r \in Request \ tooLate' : Safe(r)'
<1>1. TypeOK /\ TimersFit /\ AtMostOneBusy
  BY DEF IInv, AnswersSafe
<1>2. \A r \in Request \ {s} : ~Busy(r)
  BY <1>1 DEF AtMostOneBusy, Busy, RequestStep, Begin, Visit, Cancel, Wait, Store, ReadAnswer,
              WriteAnswer
<1>3. \A r \in Request \ {s} : request'[r] = request[r] /\ about'[r] = about[r]
  BY <1>1, NextVisitTyped DEF RequestStep, Begin, Visit, Cancel, Wait, Store, ReadAnswer, WriteAnswer,
     Goto, TypeOK
<1>4. AtMostOneBusy'
  BY <1>2, <1>3 DEF AtMostOneBusy, Busy
<1>5. UNCHANGED <<kind, submission>> /\ tooLate \subseteq tooLate'
  BY DEF RequestStep, Begin, Visit, Cancel, Wait, Store, ReadAnswer, WriteAnswer, rows
<1>6. submission[s] = "none"
  BY <1>1 DEF TimersFit, SubmissionsFit, RequestStep, Begin, Visit, Cancel, Wait, Store, ReadAnswer,
              WriteAnswer
<1>7. row' = row \/ (WriteAnswer(s) /\ row' = [row EXCEPT ![about[s]] = "answered"])
  BY DEF RequestStep, Begin, Visit, Cancel, Wait, Store, ReadAnswer, WriteAnswer, rows
<1>8. ASSUME NEW r \in Request \ tooLate', r # s PROVE Safe(r)'
  <2>1. Safe(r) /\ request'[r] \notin {"wait", "read", "write"}
    BY <1>2, <1>3, <1>5, <1>8 DEF AnswersSafe, Busy
  <2>2. ASSUME request[r] = "saved" PROVE row'[about[r]] = "answered"
    <3>1. row[about[r]] = "answered" /\ about[r] \in Question
      BY <1>1, <2>1, <2>2 DEF Safe, TimersFit, TypeOK
    <3> QED BY <1>1, <1>7, <3>1 DEF TypeOK
  <2>3. ASSUME request[r] = "saved", NEW t \in Request, about'[t] = about[r]
        PROVE  submission[t] # "write"
    BY <1>3, <1>6, <2>1, <2>3 DEF Safe
  <2> QED BY <1>3, <1>5, <1>8, <2>1, <2>2, <2>3 DEF Safe
<1>9. ASSUME s \notin tooLate' PROVE Safe(s)'
  <2>1. Safe(s)
    BY <1>5, <1>9 DEF AnswersSafe
  <2>2. CASE Begin(s) \/ Visit(s)
    BY <1>1, <2>2 DEF Begin, Visit, Goto, Safe, TypeOK
  <2>3. CASE Cancel(s)
    <3>1. ~Fired(about[s]) /\ timer' = timer /\ about[s] \in Question
      BY <1>1, <1>9, <2>3 DEF Cancel, TypeOK, manager
    <3>2. request'[s] \in {"wait", AfterCancel(s)} /\ timers'[about[s]] = None
      BY <1>1, <2>3, <3>1 DEF Cancel, Goto, TypeOK, manager
    <3>3. kind[s] = "answer" => about' = about
      BY <2>3 DEF Cancel, NextVisit
    <3>4. request'[s] # "saved"
      BY <1>1, <3>2, AfterCancelTyped
    <3>5. kind[s] = "answer" => ~Fired(about[s])'
      BY <1>5, <3>1, <3>3 DEF Fired
    <3> QED BY <1>5, <3>2, <3>3, <3>4, <3>5 DEF Safe
  <2>4. CASE Wait(s)
    <3>1. request[s] = "wait" /\ UNCHANGED <<timers, timer>> /\ request'[s] = AfterCancel(s)
      BY <1>1, <2>4 DEF Wait, Goto, TypeOK, manager
    <3>2. kind[s] = "answer" => about' = about
      BY <2>4 DEF Wait, NextVisit
    <3>3. request'[s] # "saved"
      BY <1>1, <3>1, AfterCancelTyped
    <3>4. kind[s] = "answer" => ~Fired(about[s])' /\ timers'[about'[s]] = None
      BY <1>5, <2>1, <3>1, <3>2 DEF Safe, Fired
    <3> QED BY <1>5, <3>3, <3>4 DEF Safe
  <2>5. CASE Store(s)
    BY <1>1, <2>5 DEF Store, Goto, Safe, TypeOK
  <2>6. CASE ReadAnswer(s)
    <3>1. /\ request[s] = "read" /\ UNCHANGED <<timers, timer, about>>
          /\ request'[s] \in {"write", "ended"}
      BY <1>1, <2>6 DEF ReadAnswer, Goto, TypeOK, manager
    <3> QED BY <1>5, <2>1, <3>1 DEF Safe, Fired
  <2>7. CASE WriteAnswer(s)
    <3>1. /\ request[s] = "write" /\ UNCHANGED <<timers, timer, about>>
          /\ request'[s] = "ended" \/ (request'[s] = "saved" /\ row' = [row EXCEPT ![about[s]] = "answered"])
      BY <1>1, <2>7 DEF WriteAnswer, Goto, TypeOK, manager
    <3>2. about[s] \in Question /\ kind[s] = "answer"
      BY <1>1, <3>1 DEF TimersFit, TypeOK
    <3>3. \A t \in Request : about[t] = about[s] => submission[t] # "write"
      BY <2>1, <3>1, <3>2 DEF Safe, Fired
    <3>4. request'[s] = "saved" => row'[about[s]] = "answered"
      BY <1>1, <3>1, <3>2 DEF TypeOK
    <3> QED BY <1>5, <3>1, <3>3, <3>4 DEF Safe
  <2> QED BY <2>2, <2>3, <2>4, <2>5, <2>6, <2>7 DEF RequestStep
<1> QED BY <1>4, <1>8, <1>9

LEMMA SafeTimer ==
    ASSUME IInv, AnswersSafe, ~overlapping, NEW t \in Request, TimerStep(t)
    PROVE  AtMostOneBusy' /\ \A r \in Request \ tooLate' : Safe(r)'
<1>1. TypeOK /\ AtMostOneBusy
  BY DEF IInv, AnswersSafe
<1>2. UNCHANGED requests
  BY DEF TimerStep, Expire, Stop, Look, Notify, Spawn, Delete, ReadTimeout, WriteTimeout
<1>3. AtMostOneBusy'
  BY <1>1, <1>2 DEF AtMostOneBusy, Busy, requests
<1>4. ASSUME NEW r \in Request \ tooLate' PROVE Safe(r)'
  <2>1. Safe(r) /\ UNCHANGED <<request, kind, about>>
    BY <1>2, <1>4 DEF AnswersSafe, requests
  <2>2. /\ \A u \in Request \ {t} : timer'[u] = timer[u] /\ submission'[u] = submission[u]
        /\ \A q \in Question : q # about[t] => row'[q] = row[q]
        /\ timers' = timers \/ timers' = [timers EXCEPT ![about[t]] = None]
    BY <1>1 DEF TimerStep, Expire, Stop, Look, Notify, Spawn, Delete, ReadTimeout, WriteTimeout,
       Enter, TypeOK, rows, manager
  <2>3. ASSUME kind[r] = "answer", request[r] \in {"wait", "read", "write"}
        PROVE  ~Fired(about[r])' /\ timers'[about[r]] = None
    <3>1. ~Fired(about[r]) /\ timers[about[r]] = None /\ about[r] \in Question
      BY <2>1, <2>3 DEF Safe, IInv, TimersFit, TypeOK
    <3>2. timers'[about[r]] = None
      BY <1>1, <2>2, <3>1 DEF TypeOK
    <3>3. ASSUME about[t] = about[r]
          PROVE  /\ timer'[t] \notin {"notify", "spawn", "delete"}
                 /\ submission'[t] \notin {"read", "write"}
      BY <1>1, <3>1, <3>3 DEF Fired, TimerStep, Expire, Stop, Look, Notify, Spawn, Delete,
         ReadTimeout, WriteTimeout, Enter, TypeOK, rows, manager
    <3> QED BY <2>1, <2>2, <3>1, <3>2, <3>3 DEF Fired
  <2>4. ASSUME request[r] = "saved"
        PROVE  /\ row'[about[r]] = "answered"
               /\ \A u \in Request : about[u] = about[r] => submission'[u] # "write"
    <3>1. /\ row[about[r]] = "answered" /\ about[r] \in Question
          /\ \A u \in Request : about[u] = about[r] => submission[u] # "write"
      BY <2>1, <2>4 DEF Safe, IInv, TimersFit, TypeOK
    <3>2. CASE about[t] # about[r]
      BY <2>2, <3>1, <3>2
    <3>3. CASE about[t] = about[r]
      <4>1. row' = row /\ submission'[t] # "write"
        BY <1>1, <3>1, <3>3 DEF TimerStep, Expire, Stop, Look, Notify, Spawn, Delete, ReadTimeout,
           WriteTimeout, TypeOK, rows, manager
      <4> QED BY <2>2, <3>1, <4>1
    <3> QED BY <3>2, <3>3
  <2> QED BY <2>1, <2>3, <2>4 DEF Safe
<1> QED BY <1>3, <1>4

LEMMA StepSafe == ASSUME IInv, SubmissionsFit, AnswersSafe, [Next]_vars PROVE AnswersSafe'
<1>1. UNCHANGED modes
  BY DEF Next, RequestStep, TimerStep, Begin, Visit, Cancel, Wait, Store, ReadAnswer, WriteAnswer,
     Expire, Stop, Look, Notify, Spawn, Delete, ReadTimeout, WriteTimeout, Shutdown, vars
<1> SUFFICES ASSUME ~overlapping
             PROVE  AtMostOneBusy' /\ \A r \in Request \ tooLate' : Safe(r)'
  BY <1>1 DEF AnswersSafe, modes
<1>2. CASE \E r \in Request : Begin(r) \/ RequestStep(r)
  BY <1>2, SafeRequest
<1>3. CASE \E t \in Request : TimerStep(t)
  BY <1>3, SafeTimer
<1>4. CASE UNCHANGED vars \/ \E q \in Question : Shutdown(q)
  <2>1. UNCHANGED <<requests, timers, timer, row, submission>>
    BY <1>4 DEF Shutdown, vars, manager, rows
  <2> QED BY <2>1 DEF AnswersSafe, AtMostOneBusy, Busy, Safe, Fired, requests
<1> QED BY <1>2, <1>3, <1>4 DEF Next

-----------------------------------------------------------------------------
(* Timeouts.                                                               *)

\* Nothing more has to happen to a question ...
Settled(q) ==
    \/ row[q] # "new"
    \/ \E u \in Request : about[u] = q /\ (u \in cancelled \/ submission[u] = "failed")

\* ... or a timeout of it is being submitted, or is still to come.
Submits(q)  == \E u \in Request : about[u] = q /\ submission[u] \in {"read", "write"}
WillFire(q) == \E u \in Request : about[u] = q /\ timer[u] \in {"armed", "expired", "notify", "spawn"}

\* A question whose timer was started is never forgotten: the safety part of TimedOut.
NeverForgotten ==
    \A t \in Request : timer[t] # "none" =>
        Settled(about[t]) \/ Submits(about[t]) \/ WillFire(about[t])

\* A timer comes to its end after its submission was started, and that does its work.
OutcomesFit ==
    \A t \in Request :
        /\ timer[t] = "delete" => submission[t] # "none"
        /\ submission[t] = "done" => row[about[t]] # "new"

\* Where a timer that expires finds no entry and keeps silent, another one has fired.
GapsFit ==
    \A t \in Request : timer[t] # "none" /\ timers[about[t]] = None =>
        Settled(about[t]) \/ Submits(about[t])

TimeoutInv == OutcomesFit /\ GapsFit /\ NeverForgotten

\* A timer stays one of its question.
LEMMA AboutStays ==
    ASSUME IInv, [Next]_vars, NEW u \in Request, timer[u] # "none" \/ u \in cancelled
    PROVE  about'[u] = about[u]
<1>1. TypeOK /\ request[u] = "ended"
  BY DEF IInv, TimersFit
<1>2. ASSUME NEW r \in Request, Begin(r) \/ RequestStep(r)
      PROVE  about'[u] = about[u]
  <2>1. r # u
    BY <1>1, <1>2 DEF Begin, RequestStep, Visit, Cancel, Wait, Store, ReadAnswer, WriteAnswer
  <2>2. NextVisit(r)[u] = about[u]
    BY <1>1, <2>1, NextVisitTyped
  <2> QED BY <1>1, <1>2, <2>1, <2>2 DEF Begin, RequestStep, Visit, Cancel, Wait, Store, ReadAnswer,
             WriteAnswer, TypeOK
<1>3. CASE ~ \E r \in Request : Begin(r) \/ RequestStep(r)
  BY <1>3 DEF Next, TimerStep, Expire, Stop, Look, Notify, Spawn, Delete, ReadTimeout, WriteTimeout,
     Shutdown, requests, vars
<1> QED BY <1>2, <1>3

\* What is settled stays so.
LEMMA SettledStays ==
    ASSUME IInv, SubmissionsFit, [Next]_vars, NEW q \in Question, Settled(q)
    PROVE  Settled(q)'
<1>1. TypeOK
  BY DEF IInv
<1>2. row[q] # "new" => row'[q] # "new"
  BY <1>1 DEF Next, Begin, RequestStep, Visit, Cancel, Wait, Store, ReadAnswer, WriteAnswer,
     TimerStep, Expire, Stop, Look, Notify, Spawn, Delete, ReadTimeout, WriteTimeout, Shutdown,
     rows, vars, TypeOK
<1>3. cancelled \subseteq cancelled'
  BY DEF Next, Begin, RequestStep, Visit, Cancel, Wait, Store, ReadAnswer, WriteAnswer,
     TimerStep, Expire, Stop, Look, Notify, Spawn, Delete, ReadTimeout, WriteTimeout, Shutdown,
     manager, vars
<1>4. ASSUME NEW u \in Request, submission[u] = "failed"
      PROVE  submission'[u] = "failed" /\ timer[u] # "none"
  <2>1. timer[u] \in {"delete", "done"}
    BY <1>4 DEF SubmissionsFit
  <2> QED BY <1>1, <1>4, <2>1 DEF Next, Begin, RequestStep, Visit, Cancel, Wait, Store, ReadAnswer,
             WriteAnswer, TimerStep, Expire, Stop, Look, Notify, Spawn, Delete, ReadTimeout,
             WriteTimeout, Shutdown, rows, vars, TypeOK
<1>5. ASSUME NEW u \in Request, about[u] = q, u \in cancelled \/ submission[u] = "failed"
      PROVE  about'[u] = q /\ (u \in cancelled' \/ submission'[u] = "failed")
  BY <1>3, <1>4, <1>5, AboutStays
<1> QED BY <1>2, <1>5 DEF Settled

\* A step of requests, which starts no timer, or of shutdown: an entry that goes
\* is that of a timer which is cancelled.
LEMMA QuietTimeouts ==
    ASSUME IInv, SubmissionsFit, TimeoutInv, [Next]_vars, UNCHANGED <<timer, submission>>,
           \A q \in Question : timers'[q] = None => timers[q] = None \/ Settled(q)'
    PROVE  TimeoutInv'
<1>1. TypeOK /\ TimersFit /\ OutcomesFit /\ GapsFit /\ NeverForgotten
  BY DEF IInv, TimeoutInv
<1>2. \A u \in Request : timer[u] # "none" => about'[u] = about[u] /\ about[u] \in Question
  BY <1>1, AboutStays DEF TypeOK, TimersFit
<1>3. \A u \in Request : submission[u] # "none" => timer[u] # "none"
  BY DEF SubmissionsFit
<1>4. \A q \in Question : Submits(q) => Submits(q)'
  BY <1>2, <1>3 DEF Submits
<1>5. \A q \in Question : WillFire(q) => WillFire(q)'
  BY <1>2 DEF WillFire
<1>6. \A q \in Question : Settled(q) => Settled(q)'
  BY SettledStays
<1>7. \A q \in Question : row[q] # "new" => row'[q] # "new"
  BY <1>1 DEF Next, Begin, RequestStep, Visit, Cancel, Wait, Store, ReadAnswer, WriteAnswer,
     TimerStep, Expire, Stop, Look, Notify, Spawn, Delete, ReadTimeout, WriteTimeout, Shutdown,
     rows, vars, TypeOK
<1>8. OutcomesFit'
  BY <1>1, <1>2, <1>3, <1>7 DEF OutcomesFit
<1>9. ASSUME NEW t \in Request, timer'[t] # "none"
      PROVE  /\ timers'[about'[t]] = None => Settled(about[t])' \/ Submits(about[t])'
             /\ Settled(about[t])' \/ Submits(about[t])' \/ WillFire(about[t])'
  <2>1. timer[t] # "none" /\ about[t] \in Question /\ about'[t] = about[t]
    BY <1>2, <1>9
  <2> DEFINE q == about[t]
  <2>2. /\ timers[q] = None => Settled(q) \/ Submits(q)
        /\ Settled(q) \/ Submits(q) \/ WillFire(q)
    BY <1>1, <2>1 DEF GapsFit, NeverForgotten
  <2> QED BY <1>4, <1>5, <1>6, <2>1, <2>2
<1>10. QED
  BY <1>8, <1>9 DEF TimeoutInv, GapsFit, NeverForgotten

LEMMA StoreTimeouts ==
    ASSUME IInv, SubmissionsFit, TimeoutInv, NEW r \in Request, Store(r)
    PROVE  TimeoutInv'
<1>1. TypeOK /\ TimersFit /\ OutcomesFit /\ GapsFit /\ NeverForgotten
  BY DEF IInv, TimeoutInv
<1>2. /\ timers' = [timers EXCEPT ![about[r]] = r] /\ timer' = [timer EXCEPT ![r] = "armed"]
      /\ UNCHANGED <<about, cancelled, row, submission>>
  BY DEF Store, rows
<1>3. about[r] \in Question /\ r # None
  BY <1>1, TimerAssumption DEF Store, TimersFit, TypeOK
<1>4. timer[r] = "none" /\ submission[r] = "none"
  BY <1>1 DEF Store, TimersFit, SubmissionsFit
<1>5. /\ timer'[r] = "armed" /\ timers'[about[r]] = r
      /\ \A u \in Request \ {r} : timer'[u] = timer[u]
      /\ \A q \in Question \ {about[r]} : timers'[q] = timers[q]
  BY <1>1, <1>2, <1>3 DEF TypeOK
<1>6. \A q : /\ Settled(q) => Settled(q)'
             /\ Submits(q) => Submits(q)'
             /\ WillFire(q) => WillFire(q)'
  BY <1>2, <1>4, <1>5 DEF Settled, Submits, WillFire
<1>7. OutcomesFit'
  BY <1>1, <1>2, <1>5 DEF OutcomesFit
<1>8. ASSUME NEW t \in Request, timer'[t] # "none"
      PROVE  /\ timers'[about'[t]] = None => Settled(about[t])' \/ Submits(about[t])'
             /\ Settled(about[t])' \/ Submits(about[t])' \/ WillFire(about[t])'
  <2>1. CASE about[t] = about[r]
    <3>1. WillFire(about[t])'
      BY <1>2, <1>5, <2>1 DEF WillFire
    <3> QED BY <1>2, <1>3, <1>5, <2>1, <3>1
  <2>2. CASE about[t] # about[r]
    <3>1. t # r /\ timer[t] # "none" /\ about'[t] = about[t] /\ about[t] \in Question
      BY <1>1, <1>2, <1>5, <1>8, <2>2 DEF TimersFit, TypeOK
    <3>2. /\ timers[about[t]] = None => Settled(about[t]) \/ Submits(about[t])
          /\ Settled(about[t]) \/ Submits(about[t]) \/ WillFire(about[t])
      BY <1>1, <3>1 DEF GapsFit, NeverForgotten
    <3> QED BY <1>5, <1>6, <2>2, <3>1, <3>2
  <2> QED BY <2>1, <2>2
<1> QED BY <1>7, <1>8 DEF TimeoutInv, GapsFit, NeverForgotten

\* A step of one timer matters to its question only.
LEMMA OneTimeout ==
    ASSUME IInv, SubmissionsFit, TimeoutInv, NEW t \in Request, TimerStep(t),
           OutcomesFit',
           timers'[about[t]] = None => Settled(about[t])' \/ Submits(about[t])',
           Settled(about[t])' \/ Submits(about[t])' \/ WillFire(about[t])'
    PROVE  TimeoutInv'
<1>1. TypeOK /\ TimersFit /\ GapsFit /\ NeverForgotten
  BY DEF IInv, TimeoutInv
<1>2. timer[t] # "none" /\ about[t] \in Question /\ UNCHANGED <<about, cancelled>>
  BY <1>1 DEF TimerStep, Expire, Stop, Look, Notify, Spawn, Delete, ReadTimeout, WriteTimeout,
     SubmissionsFit, TimersFit, TypeOK, requests, manager
<1>3. /\ \A u \in Request \ {t} : timer'[u] = timer[u] /\ submission'[u] = submission[u]
      /\ \A q \in Question \ {about[t]} : timers'[q] = timers[q]
      /\ timer'[t] # "none"
  BY <1>1, <1>2 DEF TimerStep, Expire, Stop, Look, Notify, Spawn, Delete, ReadTimeout, WriteTimeout,
     Enter, TypeOK, rows, manager
<1>4. \A q \in Question : Settled(q) => Settled(q)'
  <2>1. Next
    BY DEF Next
  <2> QED BY <2>1, SettledStays
<1>5. \A q \in Question \ {about[t]} :
        (Submits(q) => Submits(q)') /\ (WillFire(q) => WillFire(q)')
  BY <1>2, <1>3 DEF Submits, WillFire
<1>6. ASSUME NEW v \in Request, timer'[v] # "none"
      PROVE  /\ timers'[about'[v]] = None => Settled(about[v])' \/ Submits(about[v])'
             /\ Settled(about[v])' \/ Submits(about[v])' \/ WillFire(about[v])'
  <2>1. CASE about[v] = about[t]
    BY <1>2, <2>1
  <2>2. CASE about[v] # about[t]
    <3>1. timer[v] # "none" /\ about'[v] = about[v] /\ about[v] \in Question
      BY <1>1, <1>2, <1>3, <1>6, <2>2 DEF TimersFit, TypeOK
    <3>2. /\ timers[about[v]] = None => Settled(about[v]) \/ Submits(about[v])
          /\ Settled(about[v]) \/ Submits(about[v]) \/ WillFire(about[v])
      BY <1>1, <3>1 DEF GapsFit, NeverForgotten
    <3> QED BY <1>3, <1>4, <1>5, <2>2, <3>1, <3>2
  <2> QED BY <2>1, <2>2
<1> QED BY <1>6 DEF TimeoutInv, GapsFit, NeverForgotten

LEMMA TimerTimeouts ==
    ASSUME IInv, SubmissionsFit, TimeoutInv, NEW t \in Request, TimerStep(t)
    PROVE  TimeoutInv'
<1> DEFINE q == about[t]
<1>1. TypeOK /\ TimersFit /\ OutcomesFit /\ GapsFit /\ NeverForgotten
  BY DEF IInv, TimeoutInv
<1>2. timer[t] # "none" /\ q \in Question /\ UNCHANGED <<about, cancelled>>
  BY <1>1 DEF TimerStep, Expire, Stop, Look, Notify, Spawn, Delete, ReadTimeout, WriteTimeout,
     SubmissionsFit, TimersFit, TypeOK, requests, manager
<1>3. Settled(q) => Settled(q)'
  <2>1. Next
    BY DEF Next
  <2>2. Settled(about[t]) => \E x \in Question : x = about[t] /\ Settled(x)'
    BY <1>2, <2>1, SettledStays
  <2> QED BY <1>2, <2>2
<1>4. /\ timers[q] = None => Settled(q) \/ Submits(q)
      /\ Settled(q) \/ Submits(q) \/ WillFire(q)
  BY <1>1, <1>2 DEF GapsFit, NeverForgotten
<1>5. CASE Expire(t) \/ Notify(t)
  <2>1. UNCHANGED <<timers, row, submission>>
    BY <1>5 DEF Expire, Notify, rows
  <2>2. timer'[t] \in {"expired", "spawn"} /\ \A u \in Request \ {t} : timer'[u] = timer[u]
    BY <1>1, <1>5 DEF Expire, Notify, Enter, TypeOK
  <2>3. OutcomesFit'
    BY <1>1, <1>2, <2>1, <2>2 DEF OutcomesFit
  <2>4. WillFire(q)' /\ (Submits(q) => Submits(q)')
    BY <1>2, <2>1, <2>2 DEF WillFire, Submits
  <2> QED BY <1>3, <1>4, <2>1, <2>3, <2>4, OneTimeout
<1>6. CASE Stop(t)
  <2>1. Settled(q)'
    BY <1>2, <1>6 DEF Stop, Settled
  <2>2. UNCHANGED <<timers, row, submission>>
    BY <1>6 DEF Stop, rows
  <2>3. timer'[t] = "done" /\ \A u \in Request \ {t} : timer'[u] = timer[u]
    BY <1>1, <1>6 DEF Stop, Enter, TypeOK
  <2>4. OutcomesFit'
    BY <1>1, <1>2, <2>2, <2>3 DEF OutcomesFit
  <2> QED BY <2>1, <2>4, OneTimeout
\* The entry is gone: this timer keeps silent.
<1>7. CASE Look(t)
  <2>1. UNCHANGED <<timers, row, submission>>
    BY <1>7 DEF Look, rows
  <2>2. /\ timer'[t] = IF timers[q] = None THEN "done" ELSE "notify"
        /\ \A u \in Request \ {t} : timer'[u] = timer[u]
    BY <1>1, <1>7 DEF Look, Enter, TypeOK
  <2>3. OutcomesFit'
    BY <1>1, <1>2, <2>1, <2>2 DEF OutcomesFit
  <2>4. Submits(q) => Submits(q)'
    BY <1>2, <2>1 DEF Submits
  <2>5. timers[q] # None => WillFire(q)'
    BY <1>2, <2>2 DEF WillFire
  <2> QED BY <1>3, <1>4, <2>1, <2>3, <2>4, <2>5, OneTimeout
<1>8. CASE Spawn(t)
  <2>1. UNCHANGED <<timers, row>>
    BY <1>8 DEF Spawn
  <2>2. /\ submission'[t] = "read" /\ timer'[t] = "delete"
        /\ \A u \in Request \ {t} : timer'[u] = timer[u] /\ submission'[u] = submission[u]
    BY <1>1, <1>8 DEF Spawn, Enter, TypeOK
  <2>3. OutcomesFit'
    BY <1>1, <1>2, <2>1, <2>2 DEF OutcomesFit
  <2>4. Submits(q)'
    BY <1>2, <2>2 DEF Submits
  <2> QED BY <2>3, <2>4, OneTimeout
<1>9. CASE Delete(t)
  <2>1. UNCHANGED <<row, submission>> /\ submission[t] \in {"read", "write", "done", "failed"}
    BY <1>1, <1>9 DEF Delete, rows, OutcomesFit, TypeOK
  <2>2. timer'[t] = "done" /\ \A u \in Request \ {t} : timer'[u] = timer[u]
    BY <1>1, <1>9 DEF Delete, Enter, TypeOK
  <2>3. OutcomesFit'
    BY <1>1, <1>2, <2>1, <2>2 DEF OutcomesFit
  <2>4. Settled(q)' \/ Submits(q)'
    BY <1>1, <1>2, <2>1 DEF OutcomesFit, Settled, Submits
  <2> QED BY <2>3, <2>4, OneTimeout
<1>10. CASE ReadTimeout(t) \/ WriteTimeout(t)
  <2>1. UNCHANGED <<timer, timers>> /\ \A x \in Question : row[x] # "new" => row'[x] # "new"
    BY <1>1, <1>2, <1>10 DEF ReadTimeout, WriteTimeout, manager, TypeOK
  <2>2. /\ \A u \in Request \ {t} : submission'[u] = submission[u]
        /\ submission'[t] \in {"write", "done", "failed"}
        /\ submission'[t] = "done" => row'[q] # "new"
    BY <1>1, <1>2, <1>10 DEF ReadTimeout, WriteTimeout, TypeOK
  <2>3. OutcomesFit'
    <3>1. \A u \in Request : submission[u] # "none" => about[u] \in Question
      BY <1>1 DEF SubmissionsFit, TimersFit, TypeOK
    <3> QED BY <1>1, <1>2, <2>1, <2>2, <3>1 DEF OutcomesFit
  <2>4. Settled(q)' \/ Submits(q)'
    BY <1>2, <2>2 DEF Settled, Submits
  <2> QED BY <2>3, <2>4, OneTimeout
<1> QED BY <1>5, <1>6, <1>7, <1>8, <1>9, <1>10 DEF TimerStep

LEMMA StepTimeouts == ASSUME IInv, SubmissionsFit, TimeoutInv, [Next]_vars PROVE TimeoutInv'
<1>1. ASSUME NEW r \in Request, Begin(r) \/ Visit(r) \/ Wait(r) \/ ReadAnswer(r) \/ WriteAnswer(r)
      PROVE  TimeoutInv'
  <2>1. UNCHANGED <<timer, submission, timers>>
    BY <1>1 DEF Begin, Visit, Wait, ReadAnswer, WriteAnswer, manager, rows
  <2> QED BY <2>1, QuietTimeouts
<1>2. ASSUME NEW r \in Request, Cancel(r)
      PROVE  TimeoutInv'
  <2>1. TypeOK /\ EntriesFit /\ TimersFit /\ UNCHANGED <<timer, submission>>
    BY <1>2 DEF IInv, Cancel, manager, rows
  <2>2. ASSUME NEW q \in Question, timers'[q] = None, timers[q] # None
        PROVE  Settled(q)'
    <3>1. about[r] = q /\ timers[q] \in cancelled'
      BY <1>2, <2>1, <2>2 DEF Cancel, manager, TypeOK
    <3>2. timers[q] \in Request /\ about[timers[q]] = q /\ timer[timers[q]] # "none"
      BY <2>1, <2>2 DEF EntriesFit, TypeOK
    <3>3. about'[timers[q]] = q
      BY <3>2, AboutStays
    <3> QED BY <3>1, <3>2, <3>3 DEF Settled
  <2> QED BY <2>1, <2>2, QuietTimeouts
<1>3. ASSUME NEW r \in Request, Store(r)
      PROVE  TimeoutInv'
  BY <1>3, StoreTimeouts
<1>4. ASSUME NEW t \in Request, TimerStep(t)
      PROVE  TimeoutInv'
  BY <1>4, TimerTimeouts
<1>5. CASE UNCHANGED vars \/ \E q \in Question : Shutdown(q)
  <2>1. UNCHANGED <<timer, submission, timers>>
    BY <1>5 DEF Shutdown, vars, manager, rows
  <2> QED BY <2>1, QuietTimeouts
<1> QED BY <1>1, <1>2, <1>3, <1>4, <1>5 DEF Next, RequestStep

LEMMA Invariance == Spec => [](IInv /\ SoleInv /\ SubmissionsFit /\ AnswersSafe /\ TimeoutInv)
<1>1. Init => IInv /\ SoleInv /\ SubmissionsFit /\ AnswersSafe
  BY InitInv DEF Init, SubmissionsFit, AnswersSafe, AtMostOneBusy, Busy, Safe
<1>2. Init => TimeoutInv
  BY DEF Init, TimeoutInv, OutcomesFit, GapsFit, NeverForgotten
<1>3. IInv /\ SoleInv /\ SubmissionsFit /\ AnswersSafe /\ TimeoutInv /\ [Next]_vars
        => IInv' /\ SoleInv' /\ SubmissionsFit' /\ AnswersSafe' /\ TimeoutInv'
  BY StepInv, StepSole, StepSubmissions, StepSafe, StepTimeouts
<1> QED BY <1>1, <1>2, <1>3, PTL DEF Spec

-----------------------------------------------------------------------------
\* Every variable keeps its type.
THEOREM TypeCorrect == Spec => []TypeOK
<1>1. IInv /\ SoleInv => TypeOK
  BY DEF IInv
<1> QED BY <1>1, Invariance, PTL

\* An entry of the map is a timer that still runs, until shutdown comes to it:
\* whatever requests, expiries and replacements overlap.
THEOREM EntriesCorrect == Spec => []EntryRuns
<1>1. IInv /\ SoleInv => EntryRuns
  BY DEF IInv
<1> QED BY <1>1, Invariance, PTL

\* With one request at a time and goroutines that end within the wait of
\* cancelTimer, a question never has two timers.
THEOREM OneTimerCorrect == Spec => []OneTimer
<1>1. IInv /\ SoleInv => OneTimer
  BY SoleIsOne
<1> QED BY <1>1, Invariance, PTL

\* A client that makes one request at a time loses no answer to a timeout that was
\* cancelled before it fired, however late goroutines are.
THEOREM CancelCorrect == Spec => []CancelProtects
<1>1. AnswersSafe => CancelProtects
  BY DEF AnswersSafe, Safe, CancelProtects
<1> QED BY <1>1, Invariance, PTL

\* No question whose timer was started is forgotten, whatever expiries, answers and
\* replacements overlap: it is closed, a timer of it was cancelled, the database
\* failed, or a timer or a submission of it is still under way.
THEOREM ForgottenCorrect == Spec => []NeverForgotten
<1>1. TimeoutInv => NeverForgotten
  BY DEF TimeoutInv
<1> QED BY <1>1, Invariance, PTL
=============================================================================
