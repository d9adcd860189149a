---------------------------- MODULE RunContract ----------------------------
(***************************************************************************)
(* What a stoppable analysis promises to the code that started it: a run   *)
(* is started, may be asked to stop at any time, commits to an answer at   *)
(* most once and only if no stop was requested by then, and ends as a      *)
(* success, a failure, or with the process it ran in.  Analysis implements *)
(* this; src/sta_lite/gui/server.py relies on nothing else.                *)
(***************************************************************************)
CONSTANTS
    Run,      \* the runs
    Overlap   \* TRUE: a run may start while another one is active

VARIABLES
    phase,    \* how far each run has come
    stop      \* the runs that were asked to stop

vars == <<phase, stop>>

Active(r) == phase[r] \in {"running", "committed"}

Init ==
    /\ phase = [r \in Run |-> "idle"]
    /\ stop = [r \in Run |-> FALSE]

Start(r) ==
    /\ phase[r] = "idle"
    /\ Overlap \/ \A q \in Run : ~Active(q)
    /\ phase' = [phase EXCEPT ![r] = "running"]
    /\ UNCHANGED stop

RequestStop(r) ==
    /\ phase[r] # "lost"
    /\ stop' = [stop EXCEPT ![r] = TRUE]
    /\ UNCHANGED phase

\* The point of no return: the last look at the stop flag.
Commit(r) ==
    /\ phase[r] = "running"
    /\ ~stop[r]
    /\ phase' = [phase EXCEPT ![r] = "committed"]
    /\ UNCHANGED stop

Succeed(r) ==
    /\ phase[r] = "committed"
    /\ phase' = [phase EXCEPT ![r] = "ok"]
    /\ UNCHANGED stop

Fail(r) ==
    /\ Active(r)
    /\ phase' = [phase EXCEPT ![r] = "failed"]
    /\ UNCHANGED stop

\* The process of all the active runs dies.
Lose ==
    /\ phase' = [r \in Run |-> IF Active(r) THEN "lost" ELSE phase[r]]
    /\ UNCHANGED stop

Next ==
    \/ \E r \in Run : Start(r) \/ RequestStop(r) \/ Commit(r) \/ Succeed(r) \/ Fail(r)
    \/ Lose

Spec == Init /\ [][Next]_vars

\* A run that was asked to stop does not go on for ever.
FairSpec == Spec /\ \A r \in Run : WF_vars(stop[r] /\ (Succeed(r) \/ Fail(r)))
=============================================================================
