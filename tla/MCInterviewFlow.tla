--------------------------- MODULE MCInterviewFlow ---------------------------
(* Instances of InterviewFlow; without a symmetry set, because its run       *)
(* checks liveness.                                                          *)
EXTENDS InterviewFlow
=============================================================================
