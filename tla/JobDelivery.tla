---------------------------- MODULE JobDelivery ----------------------------
(***************************************************************************)
(* What the question worker pool promises its callers, without queue,      *)
(* workers or timers: a preparation job that is taken in is run at most    *)
(* once, a caller that is told "no" can rely on its job never being run,   *)
(* and a caller is told "yes" only for a job that was taken in (which may  *)
(* be finished by the time the caller hears of it).  The promise is        *)
(* deliberately one-sided: nothing says that a job taken in is ever run.   *)
(***************************************************************************)
CONSTANT Job

VARIABLES fate,     \* what becomes of each job
          answer    \* what each caller has been told

TypeOK ==
    /\ fate \in [Job -> {"offered", "queued", "running", "finished"}]
    /\ answer \in [Job -> {"pending", "yes", "no"}]

Init ==
    /\ fate = [j \in Job |-> "offered"]
    /\ answer = [j \in Job |-> "pending"]

Becomes(j, from, to) ==
    /\ fate[j] = from
    /\ fate' = [fate EXCEPT ![j] = to]
    /\ UNCHANGED answer

Told(j, reply) ==
    /\ answer[j] = "pending"
    /\ answer' = [answer EXCEPT ![j] = reply]
    /\ UNCHANGED fate

Accept(j)  == answer[j] = "pending" /\ Becomes(j, "offered", "queued")
Begin(j)   == Becomes(j, "queued", "running")
End(j)     == Becomes(j, "running", "finished")
Confirm(j) == fate[j] # "offered" /\ Told(j, "yes")
Refuse(j)  == fate[j] = "offered" /\ Told(j, "no")

Next == \E j \in Job : Accept(j) \/ Begin(j) \/ End(j) \/ Confirm(j) \/ Refuse(j)

Spec == Init /\ [][Next]_<<fate, answer>>
=============================================================================
