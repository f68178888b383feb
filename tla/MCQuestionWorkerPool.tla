------------------------ MODULE MCQuestionWorkerPool ------------------------
(***************************************************************************)
(* Instances of QuestionWorkerPool for TLC.  The actors are finite in      *)
(* number, so no state constraint is needed; the run checks liveness, so   *)
(* there is no symmetry set.                                               *)
(***************************************************************************)
EXTENDS QuestionWorkerPool
=============================================================================
