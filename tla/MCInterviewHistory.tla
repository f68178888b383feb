------------------------ MODULE MCInterviewHistory ------------------------
(***************************************************************************)
(* Instances of InterviewHistory for TLC.                                  *)
(***************************************************************************)
EXTENDS InterviewHistory, TLC

\* No interview and no toggle differs from another, and every property is one of
\* safety.
HistorySymmetry == Permutations(Row) \cup Permutations(Toggle)

\* A state after which no property of this reader can be violated any more is not
\* explored further: it has ended, or its list has changed in both ways.  The
\* toggles go through all their steps beside a reader that has not begun.
Undecided == reader \in {"idle", "count", "fetch"} /\ Cardinality(disturbed) < 2
=============================================================================
