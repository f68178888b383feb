--------------------- MODULE QuestionPreparation_proofs ---------------------
(***************************************************************************)
(* Proofs about QuestionPreparation, for every set of runs and interviews, *)
(* every total and batch size, and whatever fails.                         *)
(***************************************************************************)
EXTENDS QuestionPreparation, FiniteSetTheorems, TLAPS

\* The loop over the texts stays within the batch, the batch within the
\* interview; the only run without the guard is that for the introduction, and
\* it has nothing to clean up.
RunShape ==
    \A r \in Run :
        /\ pc[r] \in {"idle", "exists", "gather", "generate"} => pos[r] = 0
        /\ pc[r] \in {"lipsync", "create"} =>
             pos[r] < batch[r] /\ slot[r][2] + batch[r] <= TotalQuestions + 1
        /\ ~guarded[r] => slot[r][2] = 1
        /\ pc[r] = "release" => guarded[r]

\* The inductive invariant.
IInv == TypeOK /\ RunShape /\ FlagExact /\ GuardExclusive

-----------------------------------------------------------------------------
(* Constants.                                                              *)

\* Slots and indices are pairs and numbers.
LEMMA SlotFacts ==
    /\ TotalQuestions \in Nat /\ TotalQuestions >= 1
    /\ MaxBatch \in Nat
    /\ \A s \in JobSlot : s[1] \in Interview /\ s[2] \in JobIndex /\ s[2] \in Nat
    /\ \A s \in JobSlot : s = <<s[1], s[2]>>
    /\ \A s \in JobSlot : s \in Slot <=> s[2] <= TotalQuestions
<1>1. TotalQuestions \in Nat /\ TotalQuestions >= 1 /\ MaxBatch \in Nat
  BY PreparationAssumption
<1> QED BY <1>1 DEF JobSlot, Slot, JobIndex

\* The texts that prepareContent keeps end with the last question, and there are
\* some exactly when the slot is one of the interview.
LEMMA KeptBounded ==
    ASSUME NEW first \in Nat, NEW n \in 1 .. MaxBatch
    PROVE  LET kept == {i \in 0 .. n - 1 : first + i <= TotalQuestions}
           IN  /\ Cardinality(kept) \in Nat
               /\ kept # {} => /\ 0 < Cardinality(kept)
                               /\ first + Cardinality(kept) <= TotalQuestions + 1
               /\ kept = {} <=> first > TotalQuestions
<1> DEFINE kept == {i \in 0 .. n - 1 : first + i <= TotalQuestions}
<1>1. TotalQuestions \in Nat /\ n \in Nat /\ n >= 1
  BY SlotFacts
<1>2. kept = {} <=> first > TotalQuestions
  <2>1. ASSUME first <= TotalQuestions PROVE 0 \in kept
    BY <1>1, <2>1
  <2>2. ASSUME first > TotalQuestions PROVE kept = {}
    BY <1>1, <2>2
  <2> QED BY <1>1, <2>1, <2>2
<1>3. IsFiniteSet(kept) /\ Cardinality(kept) \in Nat
  <2>1. 0 \in Int /\ n - 1 \in Int /\ kept \in SUBSET (0 .. n - 1)
    BY <1>1
  <2>2. IsFiniteSet(0 .. n - 1)
    BY <2>1, FS_Interval
  <2>3. IsFiniteSet(kept)
    BY <2>1, <2>2, FS_Subset
  <2> QED BY <2>3, FS_CardinalityType
<1>4. ASSUME kept # {} PROVE first + Cardinality(kept) <= TotalQuestions + 1
  <2> DEFINE rest == TotalQuestions - first
  <2>1. rest \in Int /\ rest >= 0
    BY <1>1, <1>2, <1>4
  <2>2. kept \in SUBSET (0 .. rest)
    BY <1>1
  <2> HIDE DEF kept
  <2>3. 0 \in Int /\ ~(0 > rest)
    BY <2>1
  <2>4. IsFiniteSet(0 .. rest) /\ Cardinality(0 .. rest) = rest - 0 + 1
    BY <2>1, <2>3, FS_Interval
  <2>5. Cardinality(kept) <= rest - 0 + 1
    BY <2>2, <2>4, FS_Subset
  <2> QED BY <1>1, <1>3, <2>5
<1>5. ASSUME kept # {} PROVE 0 < Cardinality(kept)
  <2> HIDE DEF kept
  <2>1. Cardinality(kept) # 0
    BY <1>3, <1>5, FS_EmptySet
  <2> QED BY <1>3, <2>1
<1> QED BY <1>2, <1>3, <1>4, <1>5

-----------------------------------------------------------------------------
(* The invariant holds initially and is preserved.                         *)

LEMMA InitInv == Init => IInv
<1> SUFFICES ASSUME Init PROVE IInv
  OBVIOUS
<1>1. TypeOK
  BY DEF Init, TypeOK, Step, Outcome
<1>2. RunShape
  BY DEF Init, RunShape
<1>3. \A r \in Run : ~Working(r)
  BY DEF Init, Working
<1>4. FlagExact
  <2>1. \A iv \in Interview : preparing[iv] = {}
    BY DEF Init
  <2>2. tracked = {}
    BY DEF Init
  <2> QED BY <1>3, <2>1, <2>2 DEF FlagExact, Holds
<1>5. GuardExclusive
  BY <1>3 DEF GuardExclusive, Holds
<1> QED BY <1>1, <1>2, <1>4, <1>5 DEF IInv

\* A step that neither sets nor clears a flag, and neither starts nor ends a
\* run that holds its slot, keeps flags and holders in line.
LEMMA SameHolders ==
    ASSUME FlagExact, GuardExclusive, UNCHANGED guard,
           \A r \in Run, s \in JobSlot : Holds(r, s)' <=> Holds(r, s)
    PROVE  FlagExact' /\ GuardExclusive'
<1>1. \A iv \in Interview, i \in JobIndex : <<iv, i>> \in JobSlot
  BY DEF JobSlot
<1>2. FlagExact'
  BY <1>1 DEF FlagExact, guard
<1> QED BY <1>2 DEF GuardExclusive

\* A step of a working run within prepareQuestion, including its return.
LEMMA InnerStep ==
    ASSUME IInv, NEW r \in Run,
           pc[r] \notin {"idle", "release", "done"},
           UNCHANGED <<guard, job>>,
           NEW next \in Step \ {"idle"}, pc' = [pc EXCEPT ![r] = next],
           next = "done" => ~guarded[r]
    PROVE  FlagExact' /\ GuardExclusive'
<1> USE DEF IInv
<1>1. pc \in [Run -> Step]
  BY DEF TypeOK
<1>2. \A q \in Run, s \in JobSlot : Holds(q, s)' <=> Holds(q, s)
  BY <1>1 DEF Holds, Working, job
<1> QED BY <1>2, SameHolders

\* prepareQuestion returns, whatever its result.
LEMMA ReturnInv ==
    ASSUME IInv, NEW r \in Run, NEW result \in {"ok", "error"}, Return(r, result),
           pc[r] \notin {"idle", "release", "done"},
           UNCHANGED <<guard, questions, unsaved, job, batch, pos, expired>>,
           published' \in [Slot -> SUBSET Run]
    PROVE  IInv'
<1> USE DEF IInv
<1> DEFINE next == IF guarded[r] THEN "release" ELSE "done"
<1>1. pc' = [pc EXCEPT ![r] = next] /\ outcome' = [outcome EXCEPT ![r] = result]
  BY DEF Return
<1>2. next \in Step \ {"idle"} /\ (next = "done" => ~guarded[r])
  BY DEF Step
<1>3. TypeOK'
  BY <1>1, <1>2 DEF TypeOK, Outcome, guard, job
<1>4. RunShape'
  BY <1>1 DEF RunShape, TypeOK, job
<1> HIDE DEF next
<1>5. FlagExact' /\ GuardExclusive'
  BY <1>1, <1>2, InnerStep
<1> QED BY <1>3, <1>4, <1>5

\* prepareQuestionSafe takes a slot that nobody holds.
LEMMA ClaimInv ==
    ASSUME IInv, NEW r \in Run, Claim(r)
    PROVE  IInv'
<1> USE DEF IInv
<1>1. PICK iv \in Interview, i \in JobIndex : slot[r] = <<iv, i>>
  BY DEF TypeOK, JobSlot
<1>2. slot[r][1] = iv /\ slot[r][2] = i /\ <<iv, i>> \in JobSlot
  BY <1>1 DEF JobSlot
<1>3. /\ pc[r] = "idle" /\ guarded[r] /\ tracked' = tracked \cup {iv}
      /\ UNCHANGED <<tables, job, batch, pos, expired>>
  BY <1>2 DEF Claim
<1>4. CASE i \in preparing[iv]
  <2>1. /\ pc' = [pc EXCEPT ![r] = "done"] /\ outcome' = [outcome EXCEPT ![r] = "skipped"]
        /\ UNCHANGED preparing
    BY <1>2, <1>4 DEF Claim
  <2>2. TypeOK'
    BY <1>3, <2>1 DEF TypeOK, Step, Outcome, tables, job
  <2>3. RunShape'
    BY <1>3, <2>1 DEF RunShape, TypeOK, job
  <2>4. iv \in tracked
    BY <1>4 DEF FlagExact
  <2>5. \A q \in Run, s \in JobSlot : Holds(q, s)' <=> Holds(q, s)
    BY <1>3, <2>1 DEF Holds, Working, TypeOK, job
  <2> QED BY <1>3, <2>1, <2>2, <2>3, <2>4, <2>5, SameHolders DEF guard
<1>5. CASE i \notin preparing[iv]
  <2>1. /\ preparing' = [preparing EXCEPT ![iv] = preparing[iv] \cup {i}]
        /\ pc' = [pc EXCEPT ![r] = "exists"] /\ UNCHANGED outcome
    BY <1>2, <1>5 DEF Claim, Goto
  <2>2. TypeOK'
    <3>1. preparing' \in [Interview -> SUBSET JobIndex]
      BY <2>1 DEF TypeOK
    <3> QED BY <1>3, <2>1, <3>1 DEF TypeOK, Step, Outcome, tables, job
  <2>3. RunShape'
    BY <1>3, <2>1 DEF RunShape, TypeOK, job
  <2>4. \A q \in Run, s \in JobSlot : Holds(q, s)' <=> (Holds(q, s) \/ (q = r /\ s = <<iv, i>>))
    <3>1. slot' = slot /\ guarded' = guarded
      BY <1>3 DEF job
    <3>2. Working(r)' /\ ~Working(r)
      BY <1>3, <2>1 DEF Working, TypeOK
    <3>3. \A q \in Run \ {r} : Working(q)' <=> Working(q)
      BY <2>1 DEF Working, TypeOK
    <3> QED BY <1>1, <1>3, <3>1, <3>2, <3>3 DEF Holds
  <2>5. \A q \in Run : ~Holds(q, <<iv, i>>)
    BY <1>5 DEF FlagExact
  <2>6. GuardExclusive'
    BY <2>4, <2>5 DEF GuardExclusive
  <2>7. \A jv \in Interview, k \in JobIndex :
          k \in preparing'[jv] <=> (k \in preparing[jv] \/ (jv = iv /\ k = i))
    <3>1. preparing \in [Interview -> SUBSET JobIndex]
      BY DEF TypeOK
    <3>2. preparing'[iv] = preparing[iv] \cup {i} /\ \A jv \in Interview \ {iv} : preparing'[jv] = preparing[jv]
      BY <2>1, <3>1
    <3> QED BY <3>2
  <2>8. \A jv \in Interview, k \in JobIndex : k \in preparing'[jv] <=> \E q \in Run : Holds(q, <<jv, k>>)'
    <3> SUFFICES ASSUME NEW jv \in Interview, NEW k \in JobIndex
                 PROVE  k \in preparing'[jv] <=> \E q \in Run : Holds(q, <<jv, k>>)'
      OBVIOUS
    <3>1. <<jv, k>> \in JobSlot /\ (<<jv, k>> = <<iv, i>> <=> jv = iv /\ k = i)
      BY DEF JobSlot
    <3>2. k \in preparing[jv] <=> \E q \in Run : Holds(q, <<jv, k>>)
      BY DEF FlagExact
    <3>3. (\E q \in Run : Holds(q, <<jv, k>>)') <=>
            (\E q \in Run : Holds(q, <<jv, k>>)) \/ <<jv, k>> = <<iv, i>>
      BY <2>4, <3>1
    <3> QED BY <2>7, <3>1, <3>2, <3>3
  <2>9. tracked' = {jv \in Interview : preparing'[jv] # {}}
    <3>1. tracked = {jv \in Interview : preparing[jv] # {}}
      BY DEF FlagExact
    <3>2. preparing'[iv] # {} /\ \A jv \in Interview \ {iv} : preparing'[jv] = preparing[jv]
      BY <2>1 DEF TypeOK
    <3> QED BY <1>3, <3>1, <3>2
  <2>10. FlagExact'
    BY <2>8, <2>9 DEF FlagExact
  <2> QED BY <2>2, <2>3, <2>6, <2>10
<1> QED BY <1>4, <1>5

\* The cleanup clears the flag of the one run that holds it.
LEMMA ReleaseInv ==
    ASSUME IInv, NEW r \in Run, Release(r)
    PROVE  IInv'
<1> USE DEF IInv
<1>1. PICK iv \in Interview, i \in JobIndex : slot[r] = <<iv, i>>
  BY DEF TypeOK, JobSlot
<1>2. slot[r][1] = iv /\ slot[r][2] = i /\ <<iv, i>> \in JobSlot
  BY <1>1 DEF JobSlot
<1>3. /\ pc[r] = "release" /\ pc' = [pc EXCEPT ![r] = "done"]
      /\ preparing' = [preparing EXCEPT ![iv] = preparing[iv] \ {i}]
      /\ tracked' = IF preparing[iv] \ {i} = {} THEN tracked \ {iv} ELSE tracked
      /\ UNCHANGED <<tables, job, batch, pos, expired, outcome>>
  BY <1>2 DEF Release, Goto
<1>4. TypeOK'
  <2>1. preparing' \in [Interview -> SUBSET JobIndex]
    BY <1>3 DEF TypeOK
  <2>2. tracked' \subseteq Interview
    BY <1>3 DEF TypeOK
  <2> QED BY <1>3, <2>1, <2>2 DEF TypeOK, Step, Outcome, tables, job
<1>5. RunShape'
  BY <1>3 DEF RunShape, TypeOK, job
<1>6. \A q \in Run, s \in JobSlot : Holds(q, s)' <=> Holds(q, s) /\ q # r
  BY <1>3 DEF Holds, Working, TypeOK, job
<1>7. GuardExclusive'
  BY <1>6 DEF GuardExclusive
<1>8. \A jv \in Interview, k \in JobIndex : k \in preparing'[jv] <=> \E q \in Run : Holds(q, <<jv, k>>)'
  <2> SUFFICES ASSUME NEW jv \in Interview, NEW k \in JobIndex
               PROVE  k \in preparing'[jv] <=> \E q \in Run : Holds(q, <<jv, k>>)'
    OBVIOUS
  <2>1. <<jv, k>> \in JobSlot /\ (<<jv, k>> = <<iv, i>> <=> jv = iv /\ k = i)
    BY DEF JobSlot
  <2>2. k \in preparing[jv] <=> \E q \in Run : Holds(q, <<jv, k>>)
    BY DEF FlagExact
  <2>3. k \in preparing'[jv] <=> k \in preparing[jv] /\ ~(jv = iv /\ k = i)
    BY <1>3 DEF TypeOK
  <2>4. CASE <<jv, k>> = <<iv, i>>
    <3>1. guarded[r] => Holds(r, <<iv, i>>)
      BY <1>1, <1>3 DEF Holds, Working
    <3>2. guarded[r]
      BY <1>3 DEF RunShape
    <3> QED BY <1>6, <2>1, <2>3, <2>4, <3>1, <3>2 DEF GuardExclusive
  <2>5. CASE <<jv, k>> # <<iv, i>>
    <3>1. ~Holds(r, <<jv, k>>)
      BY <1>1, <2>5 DEF Holds
    <3> QED BY <1>6, <2>1, <2>2, <2>3, <2>5, <3>1
  <2> QED BY <2>4, <2>5
<1>9. tracked' = {jv \in Interview : preparing'[jv] # {}}
  <2>1. tracked = {jv \in Interview : preparing[jv] # {}}
    BY DEF FlagExact
  <2>2. preparing'[iv] = preparing[iv] \ {i} /\ \A jv \in Interview \ {iv} : preparing'[jv] = preparing[jv]
    BY <1>3 DEF TypeOK
  <2> QED BY <1>3, <2>1, <2>2
<1> QED BY <1>4, <1>5, <1>7, <1>8, <1>9 DEF FlagExact

\* The steps before the loop.
LEMMA PreludeInv ==
    ASSUME IInv, NEW r \in Run,
           CallDirectly(r) \/ CheckExists(r) \/ Gather(r) \/ Generate(r)
    PROVE  IInv'
<1> USE DEF IInv
<1>1. slot[r][2] \in Nat /\ TotalQuestions \in Nat /\ slot[r] \in JobSlot
  BY SlotFacts DEF TypeOK
<1>2. CASE CallDirectly(r)
  <2>1. TypeOK'
    BY <1>2 DEF CallDirectly, Goto, TypeOK, Step, guard, tables, job
  <2>2. RunShape'
    BY <1>2 DEF CallDirectly, Goto, RunShape, TypeOK, job
  <2>3. \A q \in Run, s \in JobSlot : Holds(q, s)' <=> Holds(q, s)
    BY <1>2 DEF CallDirectly, Goto, Holds, Working, TypeOK, job
  <2> QED BY <1>2, <2>1, <2>2, <2>3, SameHolders DEF CallDirectly
<1>3. CASE CheckExists(r)
  <2>1. CASE Return(r, "error") /\ UNCHANGED batch
    BY <1>3, <2>1, ReturnInv DEF CheckExists, tables, TypeOK
  <2>2. CASE Return(r, "ok") /\ UNCHANGED batch
    BY <1>3, <2>2, ReturnInv DEF CheckExists, tables, TypeOK
  <2>3. CASE /\ Goto(r, IF guarded[r] THEN "gather" ELSE "lipsync")
             /\ batch' = [batch EXCEPT ![r] = IF guarded[r] THEN 0 ELSE 1]
    <3>1. TypeOK'
      BY <1>3, <2>3 DEF CheckExists, Goto, TypeOK, Step, guard, tables, job
    <3>2. RunShape'
      BY <1>1, <1>3, <2>3, SlotFacts DEF CheckExists, Goto, RunShape, TypeOK, job
    <3> QED BY <1>3, <2>3, <3>1, <3>2, InnerStep DEF CheckExists, Goto, Step
  <2> QED BY <1>3, <2>1, <2>2, <2>3 DEF CheckExists
<1>4. CASE Gather(r)
  <2>1. CASE Return(r, "error")
    BY <1>4, <2>1, ReturnInv DEF Gather, tables, TypeOK
  <2>2. CASE Goto(r, "generate")
    <3>1. TypeOK'
      BY <1>4, <2>2 DEF Gather, Goto, TypeOK, Step, guard, tables, job
    <3>2. RunShape'
      BY <1>4, <2>2 DEF Gather, Goto, RunShape, TypeOK, job
    <3> QED BY <1>4, <2>2, <3>1, <3>2, InnerStep DEF Gather, Goto, Step
  <2> QED BY <1>4, <2>1, <2>2 DEF Gather
<1>5. CASE Generate(r)
  <2>1. CASE Return(r, "error") /\ UNCHANGED batch
    BY <1>5, <2>1, ReturnInv DEF Generate, tables, TypeOK
  <2>2. ASSUME NEW n \in 1 .. MaxBatch,
               LET kept == {i \in 0 .. n - 1 : slot[r][2] + i <= TotalQuestions}
               IN  /\ batch' = [batch EXCEPT ![r] = Cardinality(kept)]
                   /\ Goto(r, IF kept = {} THEN "publish" ELSE "lipsync")
        PROVE  IInv'
    <3> DEFINE kept == {i \in 0 .. n - 1 : slot[r][2] + i <= TotalQuestions}
    <3>1. /\ batch' = [batch EXCEPT ![r] = Cardinality(kept)]
          /\ Goto(r, IF kept = {} THEN "publish" ELSE "lipsync")
      BY <2>2
    <3>2. /\ Cardinality(kept) \in Nat
          /\ kept # {} => /\ 0 < Cardinality(kept)
                          /\ slot[r][2] + Cardinality(kept) <= TotalQuestions + 1
      BY <1>1, KeptBounded
    <3> HIDE DEF kept
    <3>3. TypeOK'
      BY <1>5, <3>1, <3>2 DEF Generate, Goto, TypeOK, Step, guard, tables, job
    <3>4. RunShape'
      BY <1>5, <3>1, <3>2 DEF Generate, Goto, RunShape, TypeOK, job
    <3> QED BY <1>5, <3>1, <3>3, <3>4, InnerStep DEF Generate, Goto, Step
  <2> QED BY <1>5, <2>1, <2>2 DEF Generate
<1> QED BY <1>2, <1>3, <1>4, <1>5

\* The steps of the loop and the publication.
LEMMA LoopInv ==
    ASSUME IInv, NEW r \in Run, LipSync(r) \/ Create(r) \/ Publish(r)
    PROVE  IInv'
<1> USE DEF IInv
<1>1. slot[r][2] \in Nat /\ TotalQuestions \in Nat /\ slot[r] \in JobSlot
      /\ pos[r] \in Nat /\ batch[r] \in Nat
  BY SlotFacts DEF TypeOK
<1>2. ASSUME NextText(r), pc[r] \in {"lipsync", "create"},
             UNCHANGED <<guard, published, job, batch, expired>>, questions' \subseteq Slot,
             unsaved' = unsaved \/ PassOver(r)
      PROVE  IInv'
  <2>1. pos' = [pos EXCEPT ![r] = pos[r] + 1] /\ UNCHANGED outcome
        /\ pc' = [pc EXCEPT ![r] = IF pos[r] + 1 < batch[r] THEN "lipsync" ELSE "publish"]
    BY <1>2 DEF NextText, Goto
  <2>2. Current(r) \in Slot
    <3>1. slot[r][2] + pos[r] \in 0 .. TotalQuestions
      BY <1>1, <1>2 DEF RunShape
    <3>2. slot[r][1] \in Interview
      BY <1>1, SlotFacts
    <3> QED BY <3>1, <3>2 DEF Current, Slot
  <2>3. unsaved' \in [Run -> SUBSET Slot]
    BY <1>2, <2>2 DEF PassOver, TypeOK
  <2>4. TypeOK'
    <3>1. pc' \in [Run -> Step] /\ pos' \in [Run -> Nat]
      BY <1>1, <2>1 DEF TypeOK, Step
    <3>2. UNCHANGED <<preparing, tracked, published, slot, guarded, batch, expired, outcome>>
      BY <1>2, <2>1 DEF guard, job
    <3> QED BY <1>2, <2>3, <3>1, <3>2 DEF TypeOK
  <2>5. RunShape'
    BY <1>1, <1>2, <2>1 DEF RunShape, TypeOK, job
  <2> QED BY <1>2, <2>1, <2>4, <2>5, InnerStep DEF Step
<1>3. CASE LipSync(r)
  <2>1. CASE NextText(r)
    BY <1>2, <1>3, <2>1 DEF LipSync, TypeOK
  <2>2. CASE Goto(r, "create") /\ UNCHANGED <<pos, unsaved>>
    <3>1. TypeOK'
      BY <1>3, <2>2 DEF LipSync, Goto, TypeOK, Step, guard, job
    <3>2. RunShape'
      BY <1>3, <2>2 DEF LipSync, Goto, RunShape, TypeOK, job
    <3> QED BY <1>3, <2>2, <3>1, <3>2, InnerStep DEF LipSync, Goto, Step
  <2> QED BY <1>3, <2>1, <2>2 DEF LipSync
<1>4. CASE Create(r)
  <2>1. Current(r) \in Slot
    <3>1. slot[r][2] + pos[r] \in 0 .. TotalQuestions
      BY <1>1, <1>4 DEF Create, RunShape
    <3>2. slot[r][1] \in Interview
      BY <1>1, SlotFacts
    <3> QED BY <3>1, <3>2 DEF Current, Slot
  <2>2. questions' \subseteq Slot
    BY <1>4, <2>1 DEF Create, TypeOK
  <2> QED BY <1>2, <1>4, <2>2 DEF Create
<1>5. CASE Publish(r)
  <2>1. PICK result \in {"ok", "error"} : Return(r, result)
    BY <1>5 DEF Publish
  <2>2. published' \in [Slot -> SUBSET Run]
    BY <1>5 DEF Publish, InsertPublic, TypeOK
  <2> QED BY <1>5, <2>1, <2>2, ReturnInv DEF Publish, TypeOK
<1> QED BY <1>3, <1>4, <1>5

\* The deadline and a restart of the process.
LEMMA FaultInv ==
    ASSUME IInv, (\E r \in Run : Expire(r)) \/ Crash
    PROVE  IInv'
<1> USE DEF IInv
<1>1. ASSUME NEW r \in Run, Expire(r) PROVE IInv'
  <2>1. TypeOK'
    BY <1>1 DEF Expire, TypeOK, guard, tables, job
  <2>2. RunShape'
    BY <1>1 DEF Expire, RunShape, job
  <2>3. \A q \in Run, s \in JobSlot : Holds(q, s)' <=> Holds(q, s)
    BY <1>1 DEF Expire, Holds, Working, job
  <2> QED BY <1>1, <2>1, <2>2, <2>3, SameHolders DEF Expire
<1>2. CASE Crash
  <2>1. TypeOK'
    BY <1>2 DEF Crash, TypeOK, Step, Outcome, tables, job
  <2>2. RunShape'
    BY <1>2 DEF Crash, RunShape, TypeOK, Working, job
  <2>3. \A q \in Run : ~Working(q)'
    BY <1>2 DEF Crash, Working, TypeOK
  <2>4. \A iv \in Interview : preparing'[iv] = {}
    BY <1>2 DEF Crash
  <2>5. FlagExact'
    BY <1>2, <2>3, <2>4 DEF FlagExact, Holds, Crash
  <2> QED BY <2>1, <2>2, <2>3, <2>5 DEF GuardExclusive, Holds
<1> QED BY <1>1, <1>2

-----------------------------------------------------------------------------
(* Theorems.                                                               *)

\* The flags, the runs and the table stay as the invariant says.
THEOREM Invariant == Spec => []IInv
<1>1. IInv /\ UNCHANGED vars => IInv'
  <2> SUFFICES ASSUME IInv, UNCHANGED vars PROVE IInv'
    OBVIOUS
  <2>1. \A q \in Run, s \in JobSlot : Holds(q, s)' <=> Holds(q, s)
    BY DEF vars, job, Holds, Working
  <2>2. FlagExact' /\ GuardExclusive'
    BY <2>1, SameHolders DEF IInv, vars, guard
  <2> QED BY <2>2 DEF IInv, TypeOK, RunShape, vars, guard, tables, job
<1>2. IInv /\ [Next]_vars => IInv'
  BY <1>1, ClaimInv, ReleaseInv, PreludeInv, LoopInv, FaultInv DEF Next, RunStep
<1> QED BY InitInv, <1>2, PTL DEF Spec

\* Every variable keeps its type, and no question beyond the total is stored.
THEOREM TypeCorrect == Spec => []TypeOK
<1>1. IInv => TypeOK
  BY DEF IInv
<1> QED BY Invariant, <1>1, PTL

\* preparationStatus is exact whatever fails, also across a restart.
THEOREM FlagsCorrect == Spec => []FlagExact
<1>1. IInv => FlagExact
  BY DEF IInv
<1> QED BY Invariant, <1>1, PTL

\* prepareQuestionSafe lets one run per interview and index proceed.
THEOREM GuardCorrect == Spec => []GuardExclusive
<1>1. IInv => GuardExclusive
  BY DEF IInv
<1> QED BY Invariant, <1>1, PTL

-----------------------------------------------------------------------------
(* What success means, whatever fails.                                     *)

\* A step of one run changes nothing of the others, and no step takes a stored
\* question back or forgets that a text was passed over.
LEMMA OneRun ==
    ASSUME TypeOK, NEW r \in Run, RunStep(r) \/ Generate(r)
    PROVE  /\ \A q \in Run \ {r} : UNCHANGED <<pc[q], outcome[q], pos[q], batch[q]>>
           /\ UNCHANGED job
           /\ questions \subseteq questions'
           /\ \A q \in Run : unsaved[q] \subseteq unsaved'[q]
<1>1. CASE Claim(r) \/ CallDirectly(r) \/ CheckExists(r) \/ Gather(r) \/ Generate(r)
  BY <1>1 DEF Claim, CallDirectly, CheckExists, Gather, Generate, Return, Goto, TypeOK, tables
<1>2. CASE LipSync(r) \/ Create(r)
  BY <1>2 DEF LipSync, Create, PassOver, NextText, Goto, TypeOK
<1>3. CASE Publish(r) \/ Release(r)
  BY <1>3 DEF Publish, Release, Return, Goto, TypeOK, tables
<1> QED BY <1>1, <1>2, <1>3 DEF RunStep

\* The question a run is for is stored, or the run failed to save it.
DealtWith(r) == slot[r] \in questions \cup unsaved[r]

\* Behind the first turn of the loop, and wherever there is no loop to go through.
Past(r) ==
    \/ outcome[r] = "ok"
    \/ pc[r] = "publish"
    \/ pc[r] \in {"lipsync", "create"} /\ pos[r] > 0

SavedInv == \A r \in Run : Past(r) /\ slot[r] \in Slot => DealtWith(r)

LEMMA SavedStep ==
    ASSUME IInv, SavedInv, [Next]_vars
    PROVE  SavedInv'
<1> USE DEF IInv
<1>1. ASSUME NEW r \in Run, RunStep(r) \/ Generate(r) PROVE SavedInv'
  <2>1. /\ slot[r] \in JobSlot /\ slot[r][2] \in Nat /\ slot[r] = <<slot[r][1], slot[r][2]>>
        /\ slot[r] \in Slot <=> slot[r][2] <= TotalQuestions
        /\ pos[r] \in Nat
    BY SlotFacts DEF TypeOK
  <2>2. SUFFICES ASSUME slot[r] \in Slot, Past(r)', ~DealtWith(r) PROVE DealtWith(r)'
    <3>1. /\ \A q \in Run : DealtWith(q) => DealtWith(q)'
          /\ \A q \in Run \ {r} : Past(q)' => Past(q)
      BY <1>1, OneRun DEF DealtWith, Past, job
    <3>2. slot' = slot
      BY <1>1, OneRun DEF job
    <3> QED BY <2>2, <3>1, <3>2 DEF SavedInv
  <2>3. ~Past(r)
    BY <2>2 DEF SavedInv
  <2>4. CASE Claim(r) \/ CallDirectly(r) \/ Gather(r) \/ Release(r)
    BY <2>2, <2>3, <2>4 DEF Claim, CallDirectly, Gather, Release, Goto, Return, Past, TypeOK
  <2>5. CASE CheckExists(r)
    <3>1. pos[r] = 0 /\ pos' = pos
      BY <2>5 DEF CheckExists, RunShape
    <3>2. \/ slot[r] \in questions
          \/ outcome'[r] = "error" /\ pc'[r] \in {"release", "done"}
          \/ outcome'[r] = outcome[r] /\ pc'[r] \in {"gather", "lipsync"}
      BY <2>5 DEF CheckExists, Goto, Return, TypeOK
    <3> QED BY <2>2, <2>3, <3>1, <3>2 DEF Past, DealtWith
  <2>6. CASE Generate(r)
    <3>1. pos[r] = 0 /\ pos' = pos
      BY <2>6 DEF Generate, RunShape
    <3>2. CASE Return(r, "error")
      BY <2>2, <3>2 DEF Return, Past, TypeOK
    <3>3. ASSUME NEW n \in 1 .. MaxBatch,
                 LET kept == {i \in 0 .. n - 1 : slot[r][2] + i <= TotalQuestions}
                 IN  Goto(r, IF kept = {} THEN "publish" ELSE "lipsync")
          PROVE  FALSE
      <4> DEFINE kept == {i \in 0 .. n - 1 : slot[r][2] + i <= TotalQuestions}
      <4>1. Goto(r, IF kept = {} THEN "publish" ELSE "lipsync")
        BY <3>3
      <4>2. kept # {}
        <5>1. kept = {} <=> slot[r][2] > TotalQuestions
          BY <2>1, KeptBounded
        <5> QED BY <2>1, <2>2, <5>1, SlotFacts
      <4> HIDE DEF kept
      <4>3. outcome' = outcome /\ pc'[r] = "lipsync"
        BY <4>1, <4>2 DEF Goto, TypeOK
      <4> QED BY <2>2, <2>3, <3>1, <4>3 DEF Past
    <3> QED BY <2>6, <3>2, <3>3 DEF Generate
  <2>7. CASE LipSync(r)
    <3>1. pc[r] = "lipsync" /\ pos[r] = 0 /\ Current(r) = slot[r]
      BY <2>1, <2>3, <2>7 DEF LipSync, Past, Current
    <3>2. CASE PassOver(r)
      BY <3>1, <3>2, <2>7 DEF PassOver, DealtWith, TypeOK, LipSync, job
    <3>3. CASE Goto(r, "create") /\ UNCHANGED <<pos, unsaved>>
      BY <2>2, <2>3, <3>1, <3>3 DEF Goto, Past, TypeOK
    <3> QED BY <2>7, <3>2, <3>3 DEF LipSync
  <2>8. CASE Create(r)
    <3>1. pc[r] = "create" /\ pos[r] = 0 /\ Current(r) = slot[r]
      BY <2>1, <2>3, <2>8 DEF Create, Past, Current
    <3> QED BY <3>1, <2>8 DEF Create, PassOver, DealtWith, TypeOK, job
  <2>9. CASE Publish(r)
    BY <2>3, <2>9 DEF Publish, Past
  <2> QED BY <1>1, <2>4, <2>5, <2>6, <2>7, <2>8, <2>9 DEF RunStep
<1>2. ASSUME NEW r \in Run, Expire(r) PROVE SavedInv'
  BY <1>2 DEF Expire, SavedInv, Past, DealtWith, tables, job
<1>3. CASE Crash
  BY <1>3 DEF Crash, SavedInv, Past, DealtWith, Working, TypeOK, tables, job
<1>4. CASE UNCHANGED vars
  BY <1>4 DEF vars, SavedInv, Past, DealtWith, tables, job
<1> QED BY <1>1, <1>2, <1>3, <1>4 DEF Next

\* prepareQuestion reports success only for a question that is stored or that this
\* run was told it could not save.
THEOREM SuccessCorrect == Spec => []SuccessExplained
<1>1. Init => SavedInv
  BY DEF Init, SavedInv, Past
<1>2. IInv /\ SavedInv /\ [Next]_vars => SavedInv'
  BY SavedStep
<1>3. SavedInv => SuccessExplained
  BY DEF SavedInv, Past, DealtWith, SuccessExplained
<1> QED BY Invariant, <1>1, <1>2, <1>3, PTL DEF Spec

-----------------------------------------------------------------------------
(* What becomes public.                                                    *)

\* A run that has found its question missing.
Checked(r) == guarded[r] /\ pc[r] \in {"gather", "generate", "lipsync", "create", "publish"}

\* The batch ends with the interview; that of StartInterview is one introduction.
BatchShape ==
    \A r \in Run :
        /\ pc[r] = "publish" => batch[r] = 0 \/ slot[r][2] + batch[r] <= TotalQuestions + 1
        /\ ~guarded[r] => batch[r] \in {0, 1} /\ pc[r] \notin {"gather", "generate"}

\* A run that has published is over and has dealt with its question; a later run
\* that found it missing all the same knows that the first failed to save it.
PublishInv ==
    /\ BatchShape
    /\ \A s \in Slot : \A r \in published[s] :
         guarded[r] /\ slot[r] \in Slot /\ DealtWith(r) /\ pc[r] \in {"release", "done"}
    /\ \A s \in Slot : \A r \in published[s], q \in Run :
         q # r /\ slot[q] = slot[r] /\ Checked(q) => slot[r] \in unsaved[r]
    /\ PublishedAgain

LEMMA BatchStep ==
    ASSUME IInv, BatchShape, [Next]_vars
    PROVE  BatchShape'
<1>1. TypeOK /\ RunShape
  BY DEF IInv
<1>2. ASSUME NEW r \in Run, RunStep(r) \/ Generate(r) PROVE BatchShape'
  <2>1. /\ \A q \in Run \ {r} : UNCHANGED <<pc[q], batch[q]>>
        /\ slot' = slot /\ guarded' = guarded
    BY <1>1, <1>2, OneRun DEF job
  <2>2. slot[r][2] \in Nat /\ TotalQuestions \in Nat
    BY <1>1, SlotFacts DEF TypeOK
  <2>3. SUFFICES /\ pc'[r] = "publish" => batch'[r] = 0 \/ slot[r][2] + batch'[r] <= TotalQuestions + 1
                 /\ ~guarded[r] => batch'[r] \in {0, 1} /\ pc'[r] \notin {"gather", "generate"}
    BY <2>1 DEF BatchShape
  <2>4. CASE Claim(r) \/ CallDirectly(r) \/ Gather(r) \/ Publish(r) \/ Release(r)
    BY <1>1, <2>4 DEF Claim, CallDirectly, Gather, Publish, Release, Goto, Return, TypeOK, BatchShape
  <2>5. CASE CheckExists(r)
    BY <1>1, <2>5 DEF CheckExists, Goto, Return, TypeOK, BatchShape
  <2>6. CASE Generate(r)
    <3>1. guarded[r]
      BY <2>6 DEF Generate, BatchShape
    <3>2. CASE Return(r, "error")
      BY <1>1, <3>1, <3>2 DEF Return, TypeOK
    <3>3. ASSUME NEW n \in 1 .. MaxBatch,
                 LET kept == {i \in 0 .. n - 1 : slot[r][2] + i <= TotalQuestions}
                 IN  /\ batch' = [batch EXCEPT ![r] = Cardinality(kept)]
                     /\ Goto(r, IF kept = {} THEN "publish" ELSE "lipsync")
          PROVE  pc'[r] = "publish" => batch'[r] = 0
      <4> DEFINE kept == {i \in 0 .. n - 1 : slot[r][2] + i <= TotalQuestions}
      <4>1. /\ batch' = [batch EXCEPT ![r] = Cardinality(kept)]
            /\ Goto(r, IF kept = {} THEN "publish" ELSE "lipsync")
        BY <3>3
      <4> HIDE DEF kept
      <4> QED BY <1>1, <4>1, FS_EmptySet DEF Goto, TypeOK
    <3> QED BY <2>6, <3>1, <3>2, <3>3 DEF Generate
  <2>7. CASE LipSync(r) \/ Create(r)
    BY <1>1, <2>2, <2>7 DEF LipSync, Create, NextText, Goto, TypeOK, RunShape, BatchShape
  <2> QED BY <1>2, <2>4, <2>5, <2>6, <2>7 DEF RunStep
<1>3. ASSUME NEW r \in Run, Expire(r) PROVE BatchShape'
  BY <1>3 DEF Expire, BatchShape, job
<1>4. CASE Crash
  BY <1>1, <1>4 DEF Crash, BatchShape, Working, TypeOK, job
<1>5. CASE UNCHANGED vars
  BY <1>5 DEF vars, BatchShape, job
<1> QED BY <1>2, <1>3, <1>4, <1>5 DEF Next

\* A run that publishes something came through the guard, for a question of the
\* interview.
LEMMA Publisher ==
    ASSUME IInv, BatchShape, NEW r \in Run, pc[r] = "publish", ToPublish(r) # {}
    PROVE  Checked(r) /\ slot[r] \in Slot
<1>1. /\ slot[r] \in JobSlot /\ slot[r][2] \in Nat /\ batch[r] \in Nat /\ TotalQuestions \in Nat
      /\ (slot[r] \in Slot <=> slot[r][2] <= TotalQuestions)
      /\ ~guarded[r] => slot[r][2] = 1
  BY SlotFacts DEF IInv, TypeOK, RunShape
<1>2. PICK i \in 0 .. batch[r] - 1 : slot[r][2] + i > 1
  BY DEF ToPublish
<1> QED BY <1>1, <1>2 DEF BatchShape, Checked

LEMMA PublishStep ==
    ASSUME IInv, SavedInv, PublishInv, [Next]_vars
    PROVE  PublishInv'
<1>1. TypeOK /\ RunShape /\ PublishedAgain /\ BatchShape'
  BY BatchStep DEF IInv, PublishInv
<1>2. ASSUME NEW r \in Run, RunStep(r) \/ Generate(r) PROVE PublishInv'
  <2>1. /\ slot' = slot /\ guarded' = guarded /\ questions \subseteq questions'
        /\ \A q \in Run : unsaved[q] \subseteq unsaved'[q]
        /\ \A q \in Run \ {r} : pc'[q] = pc[q]
    BY <1>1, <1>2, OneRun DEF job
  <2>2. \A q \in Run : DealtWith(q) => DealtWith(q)'
    BY <2>1 DEF DealtWith
  <2>3. pc[r] # "done" /\ (pc[r] = "release" => pc'[r] = "done")
    BY <1>1, <1>2 DEF RunStep, Claim, CallDirectly, CheckExists, Gather, Generate, LipSync,
       Create, Publish, Release, Goto, TypeOK
  <2>4. CASE published' = published
    <3>1. \A s \in Slot : \A p \in published[s] :
            guarded[p] /\ slot[p] \in Slot /\ DealtWith(p)' /\ pc'[p] \in {"release", "done"}
      BY <1>1, <2>1, <2>2, <2>3 DEF PublishInv, TypeOK
    <3>2. Checked(r)' /\ ~Checked(r) => slot[r] \notin questions
      BY <1>1, <1>2, <2>1 DEF RunStep, Claim, CallDirectly, CheckExists, Gather, Generate, LipSync,
         Create, NextText, Publish, Release, Goto, Return, TypeOK, Checked
    <3>3. ASSUME NEW s \in Slot, NEW p \in published[s], NEW q \in Run,
                 q # p, slot[q] = slot[p], Checked(q)'
          PROVE  slot[p] \in unsaved'[p]
      <4>1. p \in Run
        BY <1>1 DEF TypeOK
      <4>2. CASE Checked(q)
        BY <2>1, <3>3, <4>1, <4>2 DEF PublishInv
      <4>3. CASE ~Checked(q)
        <5>1. q = r
          BY <2>1, <3>3, <4>3 DEF Checked
        <5>2. DealtWith(p)
          BY <3>3 DEF PublishInv
        <5> QED BY <2>1, <3>2, <3>3, <4>1, <4>3, <5>1, <5>2 DEF DealtWith
      <4> QED BY <4>2, <4>3
    <3>4. PublishedAgain'
      BY <1>1, <2>1, <2>4 DEF PublishedAgain, TypeOK
    <3> QED BY <1>1, <2>1, <2>4, <3>1, <3>3, <3>4 DEF PublishInv
  <2>5. CASE published' # published
    <3>1. Publish(r) /\ ToPublish(r) # {} /\ InsertPublic(r) /\ pc[r] = "publish"
          /\ UNCHANGED <<questions, unsaved>>
      BY <1>2, <2>5 DEF RunStep, Claim, CallDirectly, CheckExists, Gather, Generate, LipSync,
         Create, Publish, Release, tables
    <3>2. Checked(r) /\ slot[r] \in Slot
      BY <3>1, Publisher DEF PublishInv
    <3>3. DealtWith(r)
      BY <3>1, <3>2 DEF SavedInv, Past
    <3>4. pc'[r] \in {"release", "done"} /\ guarded[r]
      BY <1>1, <3>1, <3>2 DEF Publish, Return, TypeOK, Checked
    <3>5. \A s \in Slot : published'[s] = published[s] \/ published'[s] = published[s] \cup {r}
      BY <3>1 DEF InsertPublic
    <3>6. \A s \in Slot : published[s] \subseteq Run /\ r \notin published[s]
      BY <1>1, <3>1 DEF TypeOK, PublishInv
    <3>7. \A q \in Run : Checked(q)' => q # r /\ Checked(q)
      BY <2>1, <3>4 DEF Checked
    <3>8. \A q \in Run \ {r} : Checked(q) => slot[q] # slot[r]
      BY <1>1, <3>2 DEF IInv, GuardExclusive, Holds, Working, Checked, TypeOK
    <3>9. \A s \in Slot : \A p \in published'[s] :
            guarded'[p] /\ slot'[p] \in Slot /\ DealtWith(p)' /\ pc'[p] \in {"release", "done"}
      <4>1. \A s \in Slot : \A p \in published[s] : p # r /\ pc'[p] = pc[p]
        BY <2>1, <3>6
      <4> QED BY <2>1, <2>2, <3>2, <3>3, <3>4, <3>5, <3>6, <4>1 DEF PublishInv
    <3>10. \A s \in Slot : \A p \in published'[s], q \in Run :
             q # p /\ slot[q] = slot[p] /\ Checked(q)' => slot[p] \in unsaved[p]
      BY <3>5, <3>7, <3>8 DEF PublishInv
    <3>11. PublishedAgain'
      <4>1. \A s \in Slot : \A p \in published[s] : slot[p] = slot[r] => slot[p] \in unsaved[p]
        BY <3>2, <3>6, <1>2 DEF PublishInv
      <4> QED BY <1>1, <2>1, <3>1, <3>5, <4>1 DEF PublishedAgain
    <3> QED BY <1>1, <2>1, <3>1, <3>9, <3>10, <3>11 DEF PublishInv
  <2> QED BY <2>4, <2>5
<1>3. ASSUME NEW r \in Run, Expire(r) PROVE PublishInv'
  BY <1>1, <1>3 DEF Expire, PublishInv, PublishedAgain, DealtWith, Checked, tables, job
<1>4. CASE Crash
  <2>1. /\ UNCHANGED <<tables, job>>
        /\ \A r \in Run : pc'[r] \in {pc[r], "done"}
    BY <1>1, <1>4 DEF Crash, TypeOK
  <2>2. \A s \in Slot : published[s] \subseteq Run
    BY <1>1 DEF TypeOK
  <2> QED BY <1>1, <2>1, <2>2 DEF PublishInv, PublishedAgain, DealtWith, Checked, tables, job
<1>5. CASE UNCHANGED vars
  BY <1>1, <1>5 DEF vars, PublishInv, PublishedAgain, DealtWith, Checked, tables, job
<1> QED BY <1>2, <1>3, <1>4, <1>5 DEF Next

\* However large the batches, whatever fails, and across restarts: of two runs for
\* one question that both publish a text, one failed to save its question.
THEOREM PublishCorrect == Spec => []PublishedAgain
<1>1. Init => SavedInv /\ PublishInv
  BY DEF Init, SavedInv, Past, PublishInv, BatchShape, PublishedAgain, Checked
<1>2. IInv /\ SavedInv /\ PublishInv /\ [Next]_vars => SavedInv' /\ PublishInv'
  BY SavedStep, PublishStep
<1>3. PublishInv => PublishedAgain
  BY DEF PublishInv
<1> QED BY Invariant, <1>1, <1>2, <1>3, PTL DEF Spec

-----------------------------------------------------------------------------
(* Why every request leads to its question: the safety part of             *)
(* RequestServed.                                                          *)

\* A run that was given up, with its process, with an error, or without saving
\* its question.
Failed(q) == outcome[q] \in {"error", "lost"} \/ slot[q] \in unsaved[q]

\* A question that is stored, in work, or was given up by a run that failed.
Pursued(s) ==
    \/ s \in questions
    \/ \E q \in Run : slot[q] = s /\ (Working(q) \/ Failed(q))

\* No run ends without its question, unless it failed or leaves it to another run
\* that is still at it, or has failed itself.
NobodyDropped ==
    \A r \in Run : pc[r] # "idle" /\ slot[r] \in Slot => Pursued(slot[r])

\* A run has an outcome when it has ended, and none before.
EndsFit ==
    \A r \in Run :
        /\ pc[r] = "release" => outcome[r] \in {"ok", "error"}
        /\ pc[r] = "done" => outcome[r] \in {"ok", "error", "skipped", "lost"}
        /\ pc[r] \notin {"release", "done"} => outcome[r] = "none"

SkippedPursued ==
    \A r \in Run : outcome[r] = "skipped" /\ slot[r] \in Slot => Pursued(slot[r])

\* Where a step leaves its run: still at work, or ended with what it returned.
LEMMA RunEnds ==
    ASSUME IInv, EndsFit, NEW r \in Run, RunStep(r) \/ Generate(r)
    PROVE  \/ pc'[r] \notin {"idle", "release", "done"} /\ outcome'[r] = "none"
           \/ pc'[r] = "release" /\ outcome'[r] \in {"ok", "error"}
           \/ pc'[r] = "done" /\ outcome'[r] \in {"ok", "error"}
           \/ pc'[r] = "done" /\ outcome'[r] = "skipped" /\ Claim(r) /\ slot[r][2] \in preparing[slot[r][1]]
<1>1. TypeOK
  BY DEF IInv
<1>2. CASE Claim(r) \/ CallDirectly(r)
  BY <1>1, <1>2 DEF Claim, CallDirectly, Goto, TypeOK, EndsFit
<1>3. CASE CheckExists(r)
  BY <1>1, <1>3 DEF CheckExists, Goto, Return, TypeOK, EndsFit
<1>4. CASE Gather(r) \/ Generate(r)
  BY <1>1, <1>4 DEF Gather, Generate, Goto, Return, TypeOK, EndsFit
<1>5. CASE LipSync(r) \/ Create(r)
  BY <1>1, <1>5 DEF LipSync, Create, NextText, Goto, TypeOK, EndsFit
<1>6. CASE Publish(r) \/ Release(r)
  BY <1>1, <1>6 DEF Publish, Release, Goto, Return, TypeOK, EndsFit
<1> QED BY <1>2, <1>3, <1>4, <1>5, <1>6 DEF RunStep

LEMMA EndsStep == ASSUME IInv, EndsFit, [Next]_vars PROVE EndsFit'
<1>1. TypeOK
  BY DEF IInv
<1>2. ASSUME NEW r \in Run, RunStep(r) \/ Generate(r) PROVE EndsFit'
  BY <1>1, <1>2, OneRun, RunEnds DEF EndsFit
<1>3. ASSUME NEW r \in Run, Expire(r) PROVE EndsFit'
  BY <1>3 DEF Expire, EndsFit
<1>4. CASE Crash
  BY <1>1, <1>4 DEF Crash, EndsFit, Working, TypeOK
<1>5. CASE UNCHANGED vars
  BY <1>5 DEF vars, EndsFit
<1> QED BY <1>2, <1>3, <1>4, <1>5 DEF Next

\* What is pursued stays so: a run that ends without an error has saved its
\* question.
LEMMA PursuedStep ==
    ASSUME IInv, EndsFit, SavedInv', [Next]_vars, NEW s \in Slot, Pursued(s)
    PROVE  Pursued(s)'
<1>1. TypeOK
  BY DEF IInv
<1>2. ASSUME NEW r \in Run, RunStep(r) \/ Generate(r) PROVE Pursued(s)'
  <2>1. /\ \A q \in Run \ {r} : pc'[q] = pc[q] /\ outcome'[q] = outcome[q]
        /\ slot' = slot /\ questions \subseteq questions'
        /\ \A q \in Run : unsaved[q] \subseteq unsaved'[q]
    BY <1>1, <1>2, OneRun DEF job
  <2>2. CASE s \in questions
    BY <2>1, <2>2 DEF Pursued
  <2>3. CASE s \notin questions
    <3>1. PICK q \in Run : slot[q] = s /\ (Working(q) \/ Failed(q))
      BY <2>3 DEF Pursued
    <3>2. CASE q # r
      BY <2>1, <3>1, <3>2 DEF Pursued, Working, Failed
    <3>3. CASE q = r /\ slot[r] \in unsaved[r]
      BY <2>1, <3>1, <3>3 DEF Pursued, Failed
    <3>4. CASE q = r /\ slot[r] \notin unsaved[r]
      <4>1. pc[r] # "idle"
        BY <3>1, <3>4 DEF Working, EndsFit, Failed
      <4>2. \/ Working(r)'
            \/ outcome'[r] \in {"ok", "error"}
        BY <1>2, <4>1, RunEnds DEF Working, Claim
      <4>3. outcome'[r] = "ok" => s \in questions' \/ slot[r] \in unsaved'[r]
        BY <2>1, <3>1, <3>4 DEF SavedInv, Past, DealtWith
      <4> QED BY <2>1, <3>1, <3>4, <4>2, <4>3 DEF Pursued, Failed
    <3> QED BY <3>2, <3>3, <3>4
  <2> QED BY <2>2, <2>3
<1>3. ASSUME NEW r \in Run, Expire(r) PROVE Pursued(s)'
  BY <1>3 DEF Expire, Pursued, Failed, Working, tables, job
<1>4. CASE Crash
  BY <1>1, <1>4 DEF Crash, Pursued, Failed, Working, TypeOK, tables, job
<1>5. CASE UNCHANGED vars
  BY <1>5 DEF vars, Pursued, Failed, Working, tables, job
<1> QED BY <1>2, <1>3, <1>4, <1>5 DEF Next

\* The run that a skipped one leaves its question to is at work on it.
LEMMA SkippedStep ==
    ASSUME IInv, EndsFit, SkippedPursued, SavedInv', [Next]_vars
    PROVE  SkippedPursued'
<1>1. TypeOK
  BY DEF IInv
<1>2. slot' = slot /\ \A s \in Slot : Pursued(s) => Pursued(s)'
  <2>1. \A s \in Slot : Pursued(s) => Pursued(s)'
    BY PursuedStep
  <2>2. ASSUME NEW r \in Run, RunStep(r) \/ Generate(r) PROVE slot' = slot
    BY <1>1, <2>2, OneRun DEF job
  <2> QED BY <2>1, <2>2 DEF Next, Expire, Crash, vars, job
<1>3. SUFFICES ASSUME NEW q \in Run, outcome'[q] = "skipped", slot[q] \in Slot
               PROVE  Pursued(slot[q])'
  BY <1>2 DEF SkippedPursued
<1>4. CASE outcome[q] = "skipped"
  BY <1>2, <1>3, <1>4 DEF SkippedPursued
<1>5. CASE outcome[q] # "skipped"
  <2>1. PICK r \in Run : RunStep(r) \/ Generate(r)
    BY <1>1, <1>3, <1>5 DEF Next, Expire, Crash, vars, TypeOK
  <2>2. q = r
    BY <1>1, <1>3, <1>5, <2>1, OneRun
  <2>3. slot[q][2] \in preparing[slot[q][1]]
    BY <1>3, <2>1, <2>2, RunEnds
  <2>4. /\ slot[q] \in JobSlot /\ slot[q] = <<slot[q][1], slot[q][2]>>
        /\ slot[q][1] \in Interview /\ slot[q][2] \in JobIndex
    BY <1>1, SlotFacts DEF TypeOK
  <2>5. PICK h \in Run : Holds(h, <<slot[q][1], slot[q][2]>>)
    BY <2>3, <2>4 DEF IInv, FlagExact
  <2>6. Pursued(slot[q])
    BY <2>4, <2>5 DEF Holds, Pursued
  <2> QED BY <1>2, <1>3, <2>6
<1> QED BY <1>4, <1>5

\* No request is dropped, for any number of runs, of overlapping batches and of
\* restarts, and whatever fails: a run that ends leaves the question stored, in
\* work, or given up by a run that says so or was told that it could not be saved.
THEOREM DroppedCorrect == Spec => []NobodyDropped
<1>1. Init => SavedInv /\ EndsFit /\ SkippedPursued
  BY DEF Init, SavedInv, Past, EndsFit, SkippedPursued
<1>2. IInv /\ SavedInv /\ EndsFit /\ SkippedPursued /\ [Next]_vars
        => SavedInv' /\ EndsFit' /\ SkippedPursued'
  BY SavedStep, EndsStep, SkippedStep
<1>3. SavedInv /\ EndsFit /\ SkippedPursued => NobodyDropped
  BY DEF SavedInv, Past, DealtWith, EndsFit, SkippedPursued, NobodyDropped, Pursued, Failed, Working
<1> QED BY Invariant, <1>1, <1>2, <1>3, PTL DEF Spec

-----------------------------------------------------------------------------
(* Why a run ends: the safety part of SlotReleased.                        *)

\* A bound on the steps a run has yet to make.
Left(r) ==
    CASE pc[r] = "idle"     -> 2 * TotalQuestions + 9
      [] pc[r] = "exists"   -> 2 * TotalQuestions + 8
      [] pc[r] = "gather"   -> 2 * TotalQuestions + 7
      [] pc[r] = "generate" -> 2 * TotalQuestions + 6
      [] pc[r] = "lipsync"  -> 2 * (batch[r] - pos[r]) + 2
      [] pc[r] = "create"   -> 2 * (batch[r] - pos[r]) + 1
      [] pc[r] = "publish"  -> 2
      [] pc[r] = "release"  -> 1
      [] OTHER              -> 0

\* Whatever fails, a run makes no step that does not bring it nearer to its end,
\* where its slot is given back: there is no retry in prepareQuestion, and the loop
\* over the texts is as long as the interview at most.
RunsWindDown ==
    [][\A r \in Run : UNCHANGED <<pc[r], batch[r], pos[r]>> \/ Left(r)' < Left(r)]_vars

\* A batch has no more texts than the interview, and one for the slot 0.
LEMMA BatchBounded ==
    ASSUME TypeOK, RunShape, NEW r \in Run, pc[r] \in {"lipsync", "create"}
    PROVE  pos[r] + 1 <= batch[r] /\ batch[r] - pos[r] <= TotalQuestions + 1
<1>1. slot[r][2] \in Nat /\ batch[r] \in Nat /\ pos[r] \in Nat /\ TotalQuestions \in Nat
  BY SlotFacts DEF TypeOK
<1> QED BY <1>1 DEF RunShape

\* The bound is a natural number, and drops when there is nothing left to generate.
LEMMA LeftType ==
    TypeOK /\ RunShape => \A r \in Run :
        /\ Left(r) \in 0 .. 2 * TotalQuestions + 9
        /\ pc[r] \notin {"idle", "exists", "gather", "generate"} => Left(r) < 2 * TotalQuestions + 6
<1> SUFFICES ASSUME TypeOK, RunShape, NEW r \in Run
             PROVE  /\ Left(r) \in 0 .. 2 * TotalQuestions + 9
                    /\ pc[r] \notin {"idle", "exists", "gather", "generate"}
                         => Left(r) < 2 * TotalQuestions + 6
  OBVIOUS
<1>1. TotalQuestions \in Nat /\ batch[r] \in Nat /\ pos[r] \in Nat
  BY SlotFacts DEF TypeOK
<1>2. CASE pc[r] \in {"lipsync", "create"}
  BY <1>1, <1>2, BatchBounded DEF Left
<1>3. CASE pc[r] \notin {"lipsync", "create"}
  BY <1>1, <1>3 DEF Left, TypeOK, Step
<1> QED BY <1>2, <1>3

LEMMA LeftLater ==
    (TypeOK /\ RunShape => \A r \in Run :
        /\ Left(r) \in 0 .. 2 * TotalQuestions + 9
        /\ pc[r] \notin {"idle", "exists", "gather", "generate"} => Left(r) < 2 * TotalQuestions + 6)'
  BY LeftType, PTL

\* A run that returns has its cleanup left, or nothing.
LEMMA ReturnEnds ==
    ASSUME TypeOK, RunShape, NEW r \in Run, NEW result, Return(r, result),
           pc[r] \in {"exists", "gather", "generate", "publish"}
    PROVE  Left(r)' < Left(r)
<1>1. TotalQuestions \in Nat
  BY SlotFacts
<1>2. pc'[r] \in {"release", "done"}
  BY DEF Return, TypeOK
<1> QED BY <1>1, <1>2 DEF Left

LEMMA WindStep ==
    ASSUME IInv, IInv', NEW r \in Run, RunStep(r) \/ Generate(r)
    PROVE  Left(r)' < Left(r)
<1>1. /\ TypeOK /\ RunShape /\ TypeOK' /\ RunShape'
      /\ TotalQuestions \in Nat /\ batch[r] \in Nat /\ pos[r] \in Nat
  BY SlotFacts DEF IInv, TypeOK
<1>2. pc'[r] \notin {"idle", "exists", "gather", "generate"} => Left(r)' < 2 * TotalQuestions + 6
  BY <1>1, LeftLater
<1>3. CASE Claim(r) \/ CallDirectly(r)
  <2>1. pc[r] = "idle" /\ pc'[r] \in {"exists", "done"}
    BY <1>1, <1>3 DEF Claim, CallDirectly, Goto, TypeOK
  <2> QED BY <1>1, <2>1 DEF Left
<1>4. CASE CheckExists(r) \/ Gather(r) \/ Generate(r)
  <2>1. ASSUME NEW result, Return(r, result) PROVE Left(r)' < Left(r)
    BY <1>1, <1>4, <2>1, ReturnEnds DEF CheckExists, Gather, Generate
  <2>2. CASE CheckExists(r) /\ Goto(r, IF guarded[r] THEN "gather" ELSE "lipsync")
    <3>1. pc[r] = "exists" /\ pc'[r] \in {"gather", "lipsync"}
      BY <1>1, <2>2 DEF CheckExists, Goto, TypeOK
    <3>2. CASE pc'[r] = "gather"
      BY <1>1, <3>1, <3>2 DEF Left
    <3>3. CASE pc'[r] = "lipsync"
      <4>1. Left(r)' < 2 * TotalQuestions + 6 /\ Left(r) = 2 * TotalQuestions + 8 /\ Left(r)' \in Int
        BY <1>1, <1>2, <3>1, <3>3 DEF Left, TypeOK
      <4> QED BY <1>1, <4>1
    <3> QED BY <3>1, <3>2, <3>3
  <2>3. CASE Gather(r) /\ Goto(r, "generate")
    <3>1. pc[r] = "gather" /\ pc'[r] = "generate"
      BY <1>1, <2>3 DEF Gather, Goto, TypeOK
    <3> QED BY <1>1, <3>1 DEF Left
  <2>4. ASSUME NEW next \in {"publish", "lipsync"}, Generate(r), Goto(r, next)
        PROVE  Left(r)' < Left(r)
    <3>1. pc[r] = "generate" /\ pc'[r] = next
      BY <1>1, <2>4 DEF Generate, Goto, TypeOK
    <3> QED BY <1>1, <1>2, <3>1 DEF Left
  <2> QED BY <1>4, <2>1, <2>2, <2>3, <2>4 DEF CheckExists, Gather, Generate
<1>5. CASE LipSync(r) \/ Create(r)
  <2>1. /\ pc[r] \in {"lipsync", "create"} /\ UNCHANGED batch
        /\ \/ NextText(r)
           \/ pc[r] = "lipsync" /\ Goto(r, "create") /\ UNCHANGED pos
    BY <1>5 DEF LipSync, Create
  <2>2. pos[r] + 1 <= batch[r]
    BY <1>1, <2>1, BatchBounded
  <2>3. CASE NextText(r)
    <3>1. pos'[r] = pos[r] + 1 /\ pc'[r] \in {"lipsync", "publish"} /\ batch'[r] = batch[r]
      BY <1>1, <2>1, <2>3 DEF NextText, Goto, TypeOK
    <3> QED BY <1>1, <2>1, <2>2, <3>1 DEF Left
  <2>4. CASE pc[r] = "lipsync" /\ Goto(r, "create") /\ UNCHANGED pos
    <3>1. pc'[r] = "create" /\ pos'[r] = pos[r] /\ batch'[r] = batch[r]
      BY <1>1, <2>1, <2>4 DEF Goto, TypeOK
    <3> QED BY <1>1, <2>4, <3>1 DEF Left
  <2> QED BY <2>1, <2>3, <2>4
<1>6. CASE Publish(r)
  BY <1>1, <1>6, ReturnEnds DEF Publish
<1>7. CASE Release(r)
  <2>1. pc[r] = "release" /\ pc'[r] = "done"
    BY <1>1, <1>7 DEF Release, Goto, TypeOK
  <2> QED BY <2>1 DEF Left
<1> QED BY <1>3, <1>4, <1>5, <1>6, <1>7 DEF RunStep

\* A run makes at most 2 * TotalQuestions + 9 steps, whatever fails, expires or is
\* restarted; only the answer of Darius may keep it from making the next one.
THEOREM RunsEnd == Spec => [](\A r \in Run : Left(r) \in Nat) /\ RunsWindDown
<1>1. IInv => \A r \in Run : Left(r) \in Nat
  <2>1. TotalQuestions \in Nat
    BY SlotFacts
  <2> QED BY <2>1, LeftType DEF IInv
<1>2. IInv /\ IInv' /\ [Next]_vars =>
        [\A r \in Run : UNCHANGED <<pc[r], batch[r], pos[r]>> \/ Left(r)' < Left(r)]_vars
  <2> SUFFICES ASSUME IInv, IInv', Next, NEW q \in Run
               PROVE  UNCHANGED <<pc[q], batch[q], pos[q]>> \/ Left(q)' < Left(q)
    OBVIOUS
  <2>1. TypeOK
    BY DEF IInv
  <2>2. ASSUME NEW r \in Run, RunStep(r) \/ Generate(r)
        PROVE  UNCHANGED <<pc[q], batch[q], pos[q]>> \/ Left(q)' < Left(q)
    <3>1. CASE q = r
      BY <2>2, <3>1, WindStep
    <3>2. CASE q # r
      <4>1. pc'[q] = pc[q]
        BY <2>1, <2>2, <3>2, OneRun
      <4>2. CASE Claim(r) \/ CallDirectly(r) \/ Gather(r) \/ Publish(r) \/ Release(r)
        BY <4>1, <4>2 DEF Claim, CallDirectly, Gather, Publish, Release
      <4>3. CASE CheckExists(r) \/ Generate(r)
        BY <2>1, <3>2, <4>1, <4>3 DEF CheckExists, Generate, TypeOK
      <4>4. CASE LipSync(r) \/ Create(r)
        BY <2>1, <3>2, <4>1, <4>4 DEF LipSync, Create, NextText, TypeOK
      <4> QED BY <2>2, <4>2, <4>3, <4>4 DEF RunStep
    <3> QED BY <3>1, <3>2
  <2>3. ASSUME NEW r \in Run, Expire(r) PROVE UNCHANGED <<pc[q], batch[q], pos[q]>>
    BY <2>3 DEF Expire
  <2>4. CASE Crash
    <3>1. UNCHANGED <<batch, pos>> /\ (pc'[q] = pc[q] \/ (Working(q) /\ pc'[q] = "done"))
      BY <2>4 DEF Crash, Working
    <3>2. CASE Working(q) /\ pc'[q] = "done"
      <4>1. Left(q)' = 0
        BY <3>2 DEF Left
      <4>2. Left(q) > 0
        <5>1. TotalQuestions \in Nat /\ batch[q] \in Nat /\ pos[q] \in Nat
          BY <2>1, SlotFacts DEF TypeOK
        <5>2. CASE pc[q] \in {"lipsync", "create"}
          BY <2>1, <5>1, <5>2, BatchBounded DEF Left, IInv
        <5>3. CASE pc[q] \notin {"lipsync", "create"}
          BY <2>1, <3>2, <5>1, <5>3 DEF Left, Working, TypeOK, Step
        <5> QED BY <5>2, <5>3
      <4> QED BY <4>1, <4>2
    <3> QED BY <3>1, <3>2
  <2> QED BY <2>2, <2>3, <2>4 DEF Next
<1> QED BY Invariant, <1>1, <1>2, PTL DEF Spec, RunsWindDown
=============================================================================
