------------------------------ MODULE GuiPanel ------------------------------
(***************************************************************************)
(* One page of the browser front end, src/sta_lite/gui/static/app.js: its  *)
(* run, stop and clear buttons, the EventSource it listens to, and the     *)
(* fetches it awaits, during which every other handler may run.  The       *)
(* backend page has a stop button, the risk and review pages have a clear  *)
(* button, the lint page has neither.  The server is JobLifecycle, the     *)
(* abstraction that module JobManager implements.                          *)
(***************************************************************************)
CONSTANTS
    Job,       \* the jobs the page may create
    NoJob,     \* no job
    Pages,     \* the pages considered, a subset of PageKind
    Faults     \* the abnormal events that may happen, a subset of FaultKind

\* "clearable": the risk page or the review page.
PageKind == {"backend", "lint", "clearable"}

\* "post": a request to start a job fails in transit, before or after the
\*         server created the job.
\* "stream": the connection of an EventSource is lost.
FaultKind == {"post", "stream"}

ASSUME GuiPanelAssumption ==
    /\ NoJob \notin Job
    /\ Pages \subseteq PageKind
    /\ Faults \subseteq FaultKind

VARIABLES
    page,         \* which page this is; it never changes
    runBtn,       \* the run button is enabled
    stopBtn,      \* the stop button is enabled
    request,      \* the awaited POST of the run: "none", "sent", "refused", "answered"
    reply,        \* the job of an answered POST
    currentJobId, \* the job the stop button refers to
    source,       \* the job the open EventSource listens to
    stopPost,     \* the job of the awaited POST to /api/stop
    lost,         \* a request or a connection was lost
    state,        \* the server's jobs
    announced,    \* their terminal events
    stopAsked     \* the jobs the server was asked to stop

buttons == <<runBtn, stopBtn>>
post    == <<request, reply>>
server  == <<state, announced, stopAsked>>
vars    == <<page, buttons, post, currentJobId, source, stopPost, lost, server>>

HasStop  == page = "backend"
HasClear == page = "clearable"

Server == INSTANCE JobLifecycle WITH Certain <- {}

Live(j)  == state[j] \in {"queued", "running"}
JobOrNot == Job \cup {NoJob}

TypeOK ==
    /\ page \in Pages
    /\ runBtn \in BOOLEAN /\ stopBtn \in BOOLEAN
    /\ request \in {"none", "sent", "refused", "answered"}
    /\ {reply, currentJobId, source, stopPost} \subseteq JobOrNot
    /\ lost \in BOOLEAN
    /\ stopAsked \in [Job -> BOOLEAN]
    /\ state \in [Job -> {"absent", "queued", "running"} \cup Server!Outcome]
    /\ announced \in [Job -> {"none", "summary", "error"}]

Init ==
    /\ page \in Pages
    /\ runBtn = TRUE /\ stopBtn = FALSE
    /\ request = "none" /\ reply = NoJob
    /\ currentJobId = NoJob /\ source = NoJob
    /\ stopPost = NoJob /\ lost = FALSE
    /\ Server!Init
    /\ stopAsked = [j \in Job |-> FALSE]

\* Both ends of a run: the run button comes back, the stop button goes.
ReleaseButtons ==
    /\ runBtn' = TRUE
    /\ stopBtn' = FALSE

-----------------------------------------------------------------------------
(* The page. *)

\* Mutant of ClickRun: the run button stays enabled.
ClickRunAgain ==
    /\ runBtn
    /\ source' = NoJob
    /\ stopBtn' = HasStop
    /\ request' = "sent"
    /\ UNCHANGED <<page, lost, runBtn, reply, currentJobId, stopPost, server>>

\* startRun() up to the await of its fetch.  The old EventSource is closed
\* first, also when the input is then found to be invalid.
ClickRun ==
    /\ runBtn
    /\ source' = NoJob
    /\ \/ UNCHANGED <<buttons, request>>
       \/ runBtn' = FALSE /\ stopBtn' = HasStop /\ request' = "sent"
    /\ UNCHANGED <<page, lost, reply, currentJobId, stopPost, server>>

\* The rest of startRun(): the job is known and its events are listened to.
RunAnswered ==
    /\ request = "answered"
    /\ request' = "none" /\ reply' = NoJob
    /\ currentJobId' = IF HasStop THEN reply ELSE NoJob
    /\ source' = reply
    /\ UNCHANGED <<page, lost, buttons, stopPost, server>>

\* Mutant of RunRefused: the page keeps the request as one that failed.
RunRefusedKept ==
    /\ request = "refused"
    /\ request' = "failed"
    /\ ReleaseButtons
    /\ UNCHANGED <<page, lost, reply, currentJobId, source, stopPost, server>>

\* The catch clause of startRun().
RunRefused ==
    /\ request = "refused"
    /\ request' = "none"
    /\ ReleaseButtons
    /\ UNCHANGED <<page, lost, reply, currentJobId, source, stopPost, server>>

\* What ends a page's run: its EventSource is closed.
Close ==
    /\ source' = NoJob
    /\ UNCHANGED <<page, post, currentJobId, stopPost, server>>

\* Mutant of TerminalEvent: the buttons are left as they are.
TerminalEventOnly ==
    /\ source # NoJob
    /\ announced[source] # "none"
    /\ Close
    /\ UNCHANGED lost
    /\ UNCHANGED buttons

\* The "summary" and "error" handlers of connectEvents().
TerminalEvent ==
    /\ source # NoJob
    /\ announced[source] # "none"
    /\ Close
    /\ UNCHANGED lost
    /\ ReleaseButtons

\* The "error" handler when the event carries no data: no reconnection.
ConnectionLost ==
    /\ "stream" \in Faults
    /\ source # NoJob
    /\ Close
    /\ lost' = TRUE
    /\ ReleaseButtons

\* stopRun() up to the await; it returns at once if no job was ever started.
\* Bound: one such fetch at a time.
ClickStop ==
    /\ stopBtn
    /\ currentJobId # NoJob
    /\ stopPost = NoJob
    /\ stopPost' = currentJobId
    /\ UNCHANGED <<page, lost, buttons, post, currentJobId, source, server>>

\* The rest of stopRun(): the response is not looked at.
StopAnswered ==
    /\ stopPost # NoJob
    /\ stopAsked[stopPost]
    /\ stopPost' = NoJob
    /\ UNCHANGED <<page, lost, buttons, post, currentJobId, source, server>>

\* Mutant of ClickClear: the run button is released with the result.
ClickClearAll ==
    /\ HasClear
    /\ Close
    /\ UNCHANGED lost
    /\ ReleaseButtons

\* clearRiskPanel() and clearReviewPanel().
ClickClear ==
    /\ HasClear
    /\ Close
    /\ UNCHANGED lost
    /\ UNCHANGED buttons

-----------------------------------------------------------------------------
(* The server. *)

\* The POST is served: the job is created or the payload is refused.
ServeRun ==
    /\ request = "sent"
    /\ \/ \E j \in Job :
            /\ Server!Create(j)
            /\ request' = "answered" /\ reply' = j
       \/ /\ request' = "refused"
          /\ UNCHANGED <<reply, state, announced>>
    /\ UNCHANGED <<page, lost, buttons, currentJobId, source, stopPost, stopAsked>>

\* The POST fails in transit; the server may have created the job.
LosePost ==
    /\ "post" \in Faults
    /\ request = "sent"
    /\ request' = "refused"
    /\ lost' = TRUE
    /\ (\E j \in Job : Server!Create(j)) \/ UNCHANGED <<state, announced>>
    /\ UNCHANGED <<page, buttons, reply, currentJobId, source, stopPost, stopAsked>>

\* POST /api/stop is served.
ServeStop ==
    /\ stopPost # NoJob
    /\ stopAsked' = [stopAsked EXCEPT ![stopPost] = TRUE]
    /\ UNCHANGED <<page, lost, buttons, post, currentJobId, source, stopPost, state, announced>>

JobStep(j) ==
    /\ Server!Run(j) \/ Server!Settle(j) \/ Server!Announce(j)
    /\ UNCHANGED <<page, lost, buttons, post, currentJobId, source, stopPost, stopAsked>>

Next ==
    \/ ClickRun \/ RunAnswered \/ RunRefused \/ TerminalEvent \/ ConnectionLost
    \/ ClickStop \/ StopAnswered \/ ClickClear
    \/ ServeRun \/ LosePost \/ ServeStop
    \/ \E j \in Job : JobStep(j)

Spec == Init /\ [][Next]_vars

(***************************************************************************)
(* Handlers that are due do run and the server answers.  The user owes     *)
(* nothing.  A job ends by itself, except that a backend job may hang      *)
(* until it is asked to stop.                                              *)
(***************************************************************************)
Fairness ==
    /\ WF_vars(RunAnswered) /\ WF_vars(RunRefused) /\ WF_vars(TerminalEvent)
    /\ WF_vars(StopAnswered) /\ WF_vars(ServeRun) /\ WF_vars(ServeStop)
    /\ \A j \in Job : WF_vars((~HasStop \/ stopAsked[j] \/ state[j] # "running") /\ JobStep(j))

FairSpec == Spec /\ Fairness

-----------------------------------------------------------------------------
(* Properties. *)

\* While a run is being requested or listened to no other can be started; and
\* the stop button of the backend page is the opposite of its run button.
BusyPageCannotRun ==
    /\ request # "none" \/ source # NoJob => ~runBtn
    /\ HasStop => (stopBtn <=> ~runBtn)

\* Unless a request or a connection was lost, the page never has two of its
\* jobs live on the server: they share one output directory, which they must
\* not use at once (run AnalysisOverlap).
OneJobAtATime ==
    ~lost => \A i, j \in Job : Live(i) /\ Live(j) => i = j

\* A run that is listened to gives the run button back: on the page that can
\* stop its run, once the run was asked to stop.
RunButtonComesBack ==
    (source # NoJob /\ (HasStop => stopAsked[source])) ~> runBtn

\* The same of the pages without a clear button, whatever is lost.
UnclearedPageComesBack ==
    (source # NoJob /\ ~HasClear /\ (HasStop => stopAsked[source])) ~> runBtn

=============================================================================
