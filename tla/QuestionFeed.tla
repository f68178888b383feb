---------------------------- MODULE QuestionFeed ----------------------------
(***************************************************************************)
(* What the interview flow promises of its questions, without pool, flags  *)
(* or failures: clients ask for questions in any order, and questions are  *)
(* prepared in any order, but none that is not asked for or among the      *)
(* Lookahead ones after one that is; a stored question stays.              *)
(***************************************************************************)
EXTENDS Integers

CONSTANTS Interview, FirstIndex, TotalQuestions, Lookahead

VARIABLES stored,   \* the questions that exist, per interview
          asked     \* those that were asked for; every interview begins with the first

Init ==
    /\ stored = [c \in Interview |-> {}]
    /\ asked = [c \in Interview |-> {1}]

Ask(c) ==
    \E i \in FirstIndex .. TotalQuestions :
        /\ asked' = [asked EXCEPT ![c] = @ \cup {i}]
        /\ UNCHANGED stored

Prepare(c) ==
    \E i \in (FirstIndex .. TotalQuestions) \ stored[c] :
        /\ \E a \in asked[c] : a <= i /\ i <= a + Lookahead
        /\ stored' = [stored EXCEPT ![c] = @ \cup {i}]
        /\ UNCHANGED asked

Next == \E c \in Interview : Ask(c) \/ Prepare(c)

Spec == Init /\ [][Next]_<<stored, asked>>
=============================================================================
