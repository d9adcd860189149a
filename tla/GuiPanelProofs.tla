---------------------------- MODULE GuiPanelProofs ----------------------------
(***************************************************************************)
(* Proofs about module GuiPanel, for any number of jobs, for every page    *)
(* and whatever is lost.                                                   *)
(***************************************************************************)
EXTENDS GuiPanel, TLAPS

USE DEF buttons, post, server, vars, ReleaseButtons, Close, HasStop, HasClear

\* A page that requests or listens to a run has its run button disabled, and
\* does not do both.  An answered request is the one that has a job.
BusyInv ==
    /\ request # "none" \/ source # NoJob => ~runBtn
    /\ request # "none" => source = NoJob
    /\ request = "answered" <=> reply # NoJob
    /\ HasStop => (stopBtn <=> ~runBtn)

\* The server announces what has settled.
AnnouncedInv == \A j \in Job : announced[j] # "none" => state[j] \in Server!Outcome

\* The job the page is about to listen to or listens to.
Followed(j) == (request = "answered" /\ reply = j) \/ source = j

\* A cleared page follows nothing, and cannot start anything: its run button is
\* still disabled.
Cleared == HasClear /\ ~runBtn /\ request = "none" /\ source = NoJob

\* Unless something was lost, the one live job is the one the page follows, or
\* the one the page was cleared of.
LiveInv ==
    ~lost => /\ \A i, j \in Job : Live(i) /\ Live(j) => i = j
             /\ \A j \in Job : Live(j) => Followed(j) \/ Cleared

IInv == TypeOK /\ BusyInv /\ AnnouncedInv /\ LiveInv

LEMMA InitIInv == Init => IInv
<1> SUFFICES ASSUME Init PROVE IInv
  OBVIOUS
<1> USE GuiPanelAssumption DEF Init, Server!Init
<1>1. TypeOK
  BY DEF TypeOK, JobOrNot
<1>2. BusyInv /\ AnnouncedInv /\ LiveInv
  BY DEF PageKind, BusyInv, AnnouncedInv, LiveInv, Live
<1>3. QED
  BY <1>1, <1>2 DEF IInv

-----------------------------------------------------------------------------
(* The server's steps. *)

LEMMA SettledIsNotLive == \A j \in Job : state[j] \in Server!Outcome => ~Live(j) /\ state[j] # "absent"
BY DEF Server!Outcome, Live

\* Creating a job makes one more live.
LEMMA ServerCreates ==
    ASSUME TypeOK, NEW j \in Job, Server!Create(j)
    PROVE  /\ state[j] = "absent" /\ state' = [state EXCEPT ![j] = "queued"] /\ UNCHANGED announced
           /\ state' \in [Job -> {"absent", "queued", "running"} \cup Server!Outcome]
           /\ \A i \in Job : Live(i)' <=> Live(i) \/ i = j
<1>1. state[j] = "absent" /\ state' = [state EXCEPT ![j] = "queued"] /\ UNCHANGED announced
  BY DEF Server!Create, Server!Move
<1>2. \A i \in Job \ {j} : state'[i] = state[i]
  BY <1>1 DEF TypeOK
<1>3. state'[j] = "queued"
  BY <1>1 DEF TypeOK
<1>4. QED
  BY <1>1, <1>2, <1>3 DEF TypeOK, Live

\* A step of a job makes none live, and announces none that is.
LEMMA ServerSteps ==
    ASSUME IInv, NEW j \in Job, Server!Run(j) \/ Server!Settle(j) \/ Server!Announce(j)
    PROVE  /\ state' \in [Job -> {"absent", "queued", "running"} \cup Server!Outcome]
           /\ announced' \in [Job -> {"none", "summary", "error"}]
           /\ \A i \in Job : Live(i)' => Live(i)
           /\ AnnouncedInv'
<1> USE DEF IInv, TypeOK, AnnouncedInv, Live
<1>1. CASE Server!Run(j)
  <2>1. /\ state[j] = "queued" /\ state' = [state EXCEPT ![j] = "running"] /\ UNCHANGED announced
    BY <1>1 DEF Server!Run, Server!Move
  <2>2. announced[j] = "none"
    BY <2>1, SettledIsNotLive
  <2>3. QED
    BY <2>1, <2>2
<1>2. CASE Server!Settle(j)
  <2>1. PICK o \in Server!Outcome : state[j] = "running" /\ state' = [state EXCEPT ![j] = o] /\ UNCHANGED announced
    BY <1>2 DEF Server!Settle, Server!Move
  <2>2. o \notin {"queued", "running"}
    BY DEF Server!Outcome
  <2>3. QED
    BY <2>1, <2>2
<1>3. CASE Server!Announce(j)
  <2>1. /\ state[j] \in Server!Outcome /\ UNCHANGED state
        /\ announced' \in [Job -> {"none", "summary", "error"}]
        /\ \A i \in Job \ {j} : announced'[i] = announced[i]
    BY <1>3 DEF Server!Announce
  <2>2. state[j] \notin {"queued", "running"}
    BY <2>1 DEF Server!Outcome
  <2>3. QED
    BY <2>1, <2>2
<1>4. QED
  BY <1>1, <1>2, <1>3

-----------------------------------------------------------------------------
(* The page's steps. *)

\* A step that leaves the server alone keeps what is known of its jobs.
LEMMA ServerKept ==
    UNCHANGED <<state, announced>> =>
        /\ \A j \in Job : Live(j)' = Live(j)
        /\ AnnouncedInv => AnnouncedInv'
BY DEF Live, AnnouncedInv

\* A page that can start a run follows no live job, unless something was lost.
LEMMA IdlePage == IInv /\ runBtn => (lost \/ \A j \in Job : ~Live(j))
BY GuiPanelAssumption DEF IInv, BusyInv, LiveInv, Followed, Cleared

LEMMA PageStep ==
    ASSUME IInv,
           ClickRun \/ RunAnswered \/ RunRefused \/ TerminalEvent \/ ConnectionLost
              \/ ClickStop \/ StopAnswered \/ ClickClear
    PROVE  IInv'
<1>1. TypeOK'
  BY DEF IInv, TypeOK, JobOrNot, ClickRun, RunAnswered, RunRefused, TerminalEvent, ConnectionLost, ClickStop,
         StopAnswered, ClickClear
<1>2. BusyInv'
  BY GuiPanelAssumption
     DEF IInv, TypeOK, BusyInv, JobOrNot, PageKind, ClickRun, RunAnswered, RunRefused, TerminalEvent,
         ConnectionLost, ClickStop, StopAnswered, ClickClear
<1>3. UNCHANGED <<state, announced>>
  BY DEF ClickRun, RunAnswered, RunRefused, TerminalEvent, ConnectionLost, ClickStop, StopAnswered, ClickClear
<1>4. /\ \A j \in Job : Live(j)' = Live(j)
      /\ AnnouncedInv'
  BY <1>3, ServerKept DEF IInv
<1>5. LiveInv'
  <2> USE DEF LiveInv
  <2>1. CASE ClickRun
    <3>1. lost \/ \A j \in Job : ~Live(j)
      BY <2>1, IdlePage DEF ClickRun
    <3>2. QED
      BY <1>4, <2>1, <3>1 DEF ClickRun
  <2>2. CASE RunAnswered
    <3>1. /\ lost' = lost /\ source' = reply /\ request = "answered" /\ source = NoJob
      BY <2>2 DEF RunAnswered, IInv, BusyInv
    <3>2. \A j \in Job : Followed(j) => Followed(j)'
      BY <3>1, GuiPanelAssumption DEF Followed
    <3>3. ~Cleared
      BY <3>1 DEF Cleared
    <3>4. QED
      BY <1>4, <3>1, <3>2, <3>3 DEF IInv
  <2>3. CASE RunRefused
    <3>1. lost' = lost /\ \A j \in Job : ~Followed(j) /\ ~Cleared
      BY <2>3, GuiPanelAssumption DEF RunRefused, Followed, Cleared, IInv, BusyInv
    <3>2. QED
      BY <1>4, <3>1 DEF IInv
  <2>4. CASE TerminalEvent
    <3>1. lost' = lost /\ source \in Job /\ announced[source] # "none" /\ request = "none"
      BY <2>4 DEF TerminalEvent, IInv, TypeOK, JobOrNot, BusyInv
    <3>2. ~Live(source) /\ ~Cleared /\ \A j \in Job : Followed(j) => j = source
      BY <3>1, SettledIsNotLive, GuiPanelAssumption DEF IInv, AnnouncedInv, Followed, Cleared
    <3>3. QED
      BY <1>4, <3>1, <3>2 DEF IInv
  <2>5. CASE ConnectionLost
    BY <2>5 DEF ConnectionLost
  <2>6. CASE ClickStop \/ StopAnswered
    <3>1. UNCHANGED <<page, lost, runBtn, request, reply, source>>
      BY <2>6 DEF ClickStop, StopAnswered
    <3>2. QED
      BY <1>4, <3>1 DEF IInv, Followed, Cleared
  <2>7. CASE ClickClear
    <3>1. lost' = lost /\ (source # NoJob => Cleared') /\ (Cleared => Cleared')
      BY <2>7 DEF ClickClear, IInv, BusyInv, Cleared
    <3>2. \A j \in Job : Followed(j) => Followed(j)' \/ Cleared'
      BY <2>7, <3>1, GuiPanelAssumption DEF ClickClear, Followed
    <3>3. QED
      BY <1>4, <3>1, <3>2 DEF IInv
  <2>8. QED
    BY <2>1, <2>2, <2>3, <2>4, <2>5, <2>6, <2>7
<1>6. QED
  BY <1>1, <1>2, <1>4, <1>5 DEF IInv

-----------------------------------------------------------------------------
(* The server's answers. *)

LEMMA ServeRunStep == ASSUME IInv, ServeRun PROVE IInv'
<1>0. /\ request = "sent" /\ UNCHANGED <<page, lost, runBtn, stopBtn, currentJobId, source, stopPost, stopAsked>>
      /\ source = NoJob /\ ~runBtn /\ reply = NoJob
  BY DEF ServeRun, IInv, BusyInv
<1>1. lost \/ \A j \in Job : ~Live(j)
  BY <1>0, GuiPanelAssumption DEF IInv, LiveInv, Followed, Cleared
<1>2. ASSUME NEW j \in Job, Server!Create(j), request' = "answered", reply' = j PROVE IInv'
  <2>1. /\ state' \in [Job -> {"absent", "queued", "running"} \cup Server!Outcome]
        /\ state[j] = "absent" /\ state' = [state EXCEPT ![j] = "queued"] /\ UNCHANGED announced
        /\ \A i \in Job : Live(i)' <=> Live(i) \/ i = j
    BY <1>2, ServerCreates DEF IInv
  <2>2. TypeOK'
    BY <1>0, <1>2, <2>1 DEF IInv, TypeOK, JobOrNot
  <2>3. BusyInv'
    BY <1>0, <1>2, GuiPanelAssumption DEF IInv, BusyInv
  <2>4. AnnouncedInv'
    <3>1. announced[j] = "none" /\ \A i \in Job \ {j} : state'[i] = state[i]
      BY <2>1, SettledIsNotLive DEF IInv, AnnouncedInv, TypeOK
    <3>2. QED
      BY <2>1, <3>1 DEF IInv, AnnouncedInv
  <2>5. LiveInv'
    BY <1>0, <1>1, <1>2, <2>1 DEF LiveInv, Followed
  <2>6. QED
    BY <2>2, <2>3, <2>4, <2>5 DEF IInv
<1>3. CASE request' = "refused" /\ UNCHANGED <<reply, state, announced>>
  <2>1. /\ \A j \in Job : Live(j)' = Live(j)
        /\ AnnouncedInv'
    BY <1>3, ServerKept DEF IInv
  <2>2. TypeOK'
    BY <1>0, <1>3 DEF IInv, TypeOK
  <2>3. BusyInv'
    BY <1>0, <1>3 DEF IInv, BusyInv
  <2>4. LiveInv'
    BY <1>0, <1>1, <2>1 DEF LiveInv
  <2>5. QED
    BY <2>1, <2>2, <2>3, <2>4 DEF IInv
<1>4. QED
  BY <1>2, <1>3 DEF ServeRun

LEMMA LosePostStep == ASSUME IInv, LosePost PROVE IInv'
<1>1. /\ request = "sent" /\ request' = "refused" /\ lost' = TRUE /\ source = NoJob /\ ~runBtn /\ reply = NoJob
      /\ UNCHANGED <<page, runBtn, stopBtn, reply, currentJobId, source, stopPost, stopAsked>>
  BY DEF LosePost, IInv, BusyInv
<1>2. /\ state' \in [Job -> {"absent", "queued", "running"} \cup Server!Outcome]
      /\ announced' \in [Job -> {"none", "summary", "error"}]
      /\ AnnouncedInv'
  <2>1. CASE UNCHANGED <<state, announced>>
    BY <2>1, ServerKept DEF IInv, TypeOK
  <2>2. ASSUME NEW j \in Job, Server!Create(j)
        PROVE  /\ state' \in [Job -> {"absent", "queued", "running"} \cup Server!Outcome]
               /\ announced' \in [Job -> {"none", "summary", "error"}]
               /\ AnnouncedInv'
    <3>1. /\ state' \in [Job -> {"absent", "queued", "running"} \cup Server!Outcome]
          /\ state[j] = "absent" /\ state' = [state EXCEPT ![j] = "queued"] /\ UNCHANGED announced
      BY <2>2, ServerCreates DEF IInv
    <3>2. announced[j] = "none" /\ \A i \in Job \ {j} : state'[i] = state[i]
      BY <3>1, SettledIsNotLive DEF IInv, AnnouncedInv, TypeOK
    <3>3. QED
      BY <3>1, <3>2 DEF IInv, AnnouncedInv, TypeOK
  <2>3. QED
    BY <2>1, <2>2 DEF LosePost
<1>3. TypeOK'
  BY <1>1, <1>2 DEF IInv, TypeOK
<1>4. BusyInv' /\ LiveInv'
  BY <1>1 DEF IInv, BusyInv, LiveInv
<1>5. QED
  BY <1>2, <1>3, <1>4 DEF IInv

LEMMA ServeStopStep == ASSUME IInv, ServeStop PROVE IInv'
<1>1. UNCHANGED <<page, runBtn, stopBtn, request, reply, currentJobId, source, stopPost, lost, state, announced>>
  BY DEF ServeStop
<1>2. TypeOK'
  BY <1>1 DEF ServeStop, IInv, TypeOK
<1>3. \A j \in Job : Live(j)' = Live(j) /\ Followed(j)' = Followed(j) /\ Cleared' = Cleared
  BY <1>1 DEF Live, Followed, Cleared
<1>4. BusyInv' /\ AnnouncedInv' /\ LiveInv'
  BY <1>1, <1>3 DEF IInv, BusyInv, AnnouncedInv, LiveInv
<1>5. QED
  BY <1>2, <1>4 DEF IInv

LEMMA JobStepStep == ASSUME IInv, NEW j \in Job, JobStep(j) PROVE IInv'
<1>1. UNCHANGED <<page, runBtn, stopBtn, request, reply, currentJobId, source, stopPost, lost, stopAsked>>
  BY DEF JobStep
<1>2. /\ state' \in [Job -> {"absent", "queued", "running"} \cup Server!Outcome]
      /\ announced' \in [Job -> {"none", "summary", "error"}]
      /\ \A i \in Job : Live(i)' => Live(i)
      /\ AnnouncedInv'
  BY ServerSteps DEF JobStep
<1>3. \A i \in Job : Followed(i)' = Followed(i) /\ Cleared' = Cleared
  BY <1>1 DEF Followed, Cleared
<1>4. TypeOK' /\ BusyInv' /\ LiveInv'
  BY <1>1, <1>2, <1>3 DEF IInv, TypeOK, BusyInv, LiveInv
<1>5. QED
  BY <1>2, <1>4 DEF IInv

LEMMA StepIInv == IInv /\ [Next]_vars => IInv'
<1> SUFFICES ASSUME IInv, [Next]_vars PROVE IInv'
  OBVIOUS
<1>1. CASE UNCHANGED vars
  BY <1>1 DEF IInv, TypeOK, BusyInv, AnnouncedInv, LiveInv, Live, Followed, Cleared
<1>2. CASE Next
  BY <1>2, PageStep, ServeRunStep, LosePostStep, ServeStopStep, JobStepStep DEF Next
<1>3. QED
  BY <1>1, <1>2

-----------------------------------------------------------------------------
(* Theorems. *)

\* What the buttons of a page say about its request, its stream and the jobs it
\* has started, after every handler.
THEOREM PanelInductive == Spec => []IInv
BY InitIInv, StepIInv, PTL DEF Spec

\* Every awaited answer and every job number the page keeps is of a type its
\* handlers expect, in whatever order they run.
THEOREM TypeCorrect == Spec => []TypeOK
<1>1. IInv => TypeOK
  BY DEF IInv
<1>2. QED
  BY <1>1, PanelInductive, PTL

\* startRun() disables the run button before its first await, and only the
\* handlers that end the run give it back: no interleaving of the clicks, the
\* answers and the events starts a second run next to a first.
THEOREM BusyPageIsLocked == Spec => []BusyPageCannotRun
<1>1. IInv => BusyPageCannotRun
  BY DEF IInv, BusyInv, BusyPageCannotRun
<1>2. QED
  BY <1>1, PanelInductive, PTL

\* On a network that loses nothing, one page never has two live jobs on the
\* server, not even after its panel was cleared under a running one.
THEOREM PageRunsOneJob == Spec => []OneJobAtATime
<1>1. IInv => OneJobAtATime
  BY DEF IInv, LiveInv, OneJobAtATime
<1>2. QED
  BY <1>1, PanelInductive, PTL

=============================================================================
