-------------------------- MODULE MCQuestionTimer --------------------------
(***************************************************************************)
(* Instances of QuestionTimer for TLC.                                     *)
(***************************************************************************)
EXTENDS QuestionTimer, TLC

CONSTANTS r1, r2, r3

Plan(a, b, c) == (r1 :> a) @@ (r2 :> b) @@ (r3 :> c)

\* Requests begin in any order, so these stand for their permutations.
TwoAsk == {Plan("ask", "ask", "answer"), Plan("ask", "ask", "submit"),
           Plan("ask", "answer", "answer")}
=============================================================================
