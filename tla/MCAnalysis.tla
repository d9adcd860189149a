----------------------------- MODULE MCAnalysis -----------------------------
(* Model values for the TLC runs of Analysis. *)
EXTENDS Analysis, TLC

CONSTANTS r1, r2

TwoRuns == {r1, r2}
OneRun  == {r1}

\* The runs are interchangeable: Init and Next name none of them.
RunSymmetry == Permutations(Run)

NoToolFault == {"launch", "files"}
AllFaults   == FaultKind
NoFaults    == {}
OnlySilent  == {"silent"}
=============================================================================
