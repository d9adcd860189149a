---------------------------- MODULE JobLifecycle ----------------------------
(***************************************************************************)
(* What a client of the job endpoints may rely on.  A job is created,      *)
(* runs, settles on one outcome for ever, and then announces that outcome  *)
(* once: "summary" with the outcome the summary carries, or "error" after  *)
(* a failure.                                                              *)
(***************************************************************************)
CONSTANTS
    Job,        \* the jobs
    Certain     \* the jobs whose workflow needs no stop request to end

VARIABLES
    state,      \* "absent", "queued", "running" or the outcome of each job
    announced   \* the terminal event of each job, or "none"

vars == <<state, announced>>

Outcome == {"success", "partial_success", "failure"}

Init ==
    /\ state = [j \in Job |-> "absent"]
    /\ announced = [j \in Job |-> "none"]

Move(j, from, to) ==
    /\ state[j] = from
    /\ state' = [state EXCEPT ![j] = to]
    /\ UNCHANGED announced

Create(j)  == Move(j, "absent", "queued")
Run(j)     == Move(j, "queued", "running")
Settle(j)  == \E o \in Outcome : Move(j, "running", o)

Announce(j) ==
    /\ state[j] \in Outcome
    /\ announced[j] = "none"
    /\ \E e \in IF state[j] = "failure" THEN {"summary", "error"} ELSE {"summary"} :
           announced' = [announced EXCEPT ![j] = e]
    /\ UNCHANGED state

Next == \E j \in Job : Create(j) \/ Run(j) \/ Settle(j) \/ Announce(j)

Spec == Init /\ [][Next]_vars

FairSpec ==
    /\ Spec
    /\ \A j \in Job :
        /\ WF_vars(Run(j))
        /\ WF_vars(j \in Certain /\ Settle(j))
        /\ WF_vars(Announce(j))
=============================================================================
