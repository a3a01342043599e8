----------------------- MODULE MCInterviewScheduling -----------------------
(* Small instances of InterviewScheduling for TLC.                         *)
EXTENDS InterviewScheduling, TLC

\* Rows and workers are interchangeable: no definition tells two apart.
Symmetry == Permutations(Requests) \cup Permutations(Interviews) \cup Permutations(Workers)
=============================================================================
