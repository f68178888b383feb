----------------------- MODULE MCQuestionPreparation -----------------------
(***************************************************************************)
(* Instances of QuestionPreparation for TLC: the faults they have.         *)
(***************************************************************************)
EXTENDS QuestionPreparation

\* Everything may fail at any moment.
AnyFault == Fault

\* Karma fails now and then.
KarmaFault == {"karma"}
=============================================================================
