----------------------------- MODULE MCGuiPanel -----------------------------
(* Model values for the TLC runs of GuiPanel. *)
EXTENDS GuiPanel

CONSTANTS j1, j2

TwoJobs   == {j1, j2}
Clearable == {"clearable"}
NoFaults  == {}
=============================================================================
