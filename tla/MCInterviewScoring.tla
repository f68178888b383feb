------------------------- MODULE MCInterviewScoring -------------------------
(***************************************************************************)
(* Instances of InterviewScoring for TLC.                                  *)
(***************************************************************************)
EXTENDS InterviewScoring, TLC

\* Requests of a kind, and questions, are interchangeable: safety runs only.
ScoringSymmetry ==
    Permutations(Answer) \cup Permutations(Submission) \cup Permutations(Question)
=============================================================================
