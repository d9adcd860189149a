----------------------------- MODULE JobManager -----------------------------
(***************************************************************************)
(* The job managers of src/sta_lite/gui/server.py.  JobManager (backend),  *)
(* LintJobManager, RiskJobManager and ReviewJobManager are the same state  *)
(* machine; only the first can stop a job and only the last takes the      *)
(* job's status from the summary.                                          *)
(*                                                                         *)
(* Every request is served by a thread of its own (ThreadingHTTPServer),   *)
(* every job runs in a worker thread.  They share the fields of the job,   *)
(* without a lock, and its event queue.  The workflow a worker calls is a  *)
(* run of RunContract; how the backend implements it is module Analysis.   *)
(***************************************************************************)
EXTENDS Naturals, Sequences

CONSTANTS
    Job,         \* the jobs that may be created
    Stoppable,   \* the jobs of the backend manager
    Reviewing,   \* the jobs of the review manager
    Stream,      \* the connections to the events endpoint, each to one job
    JobOf,       \* the job a connection asks for
    Observer,    \* the requests for a snapshot of a job, each of one job
    Target,      \* the job an observer asks for
    MaxLog,      \* bound: lines a workflow logs
    MaxStop,     \* bound: stop requests for a job
    Faults       \* the abnormal events that may happen, a subset of FaultKind

\* "disconnect": a client leaves before its stream ends.
\* "unreadable": looking for the summary of a failed job raises, as it does
\*               when the name of out_dir is too long or not accessible.
FaultKind == {"disconnect", "unreadable"}

ASSUME JobManagerAssumption ==
    /\ Stoppable \subseteq Job /\ Reviewing \subseteq Job
    /\ Stoppable \cap Reviewing = {}
    /\ JobOf \in [Stream -> Job]
    /\ Target \in [Observer -> Job]
    /\ MaxLog \in Nat /\ MaxStop \in Nat
    /\ Faults \subseteq FaultKind

VARIABLES
    pc,        \* the next step of each job's worker
    status,    \* GuiJob.status
    summary,   \* GuiJob.summary, by the status it carries
    error,     \* GuiJob.error is set
    finished,  \* GuiJob.finished_at is set
    events,    \* GuiJob.events: the types of the queued events
    phase,     \* the workflow of each job, as RunContract has it
    stop,      \* the stop flag of each job's ProcessController
    logs,      \* lines each workflow has logged
    stopper,   \* the stop requests of each job that have yet to put their note
    stops,     \* stop requests of each job so far
    stream,    \* each connection: its state and the event it is writing
    view       \* each observer: its next read and what it has read

fields   == <<status, summary, error, finished>>
workflow == <<phase, stop, logs>>
stopping == <<stopper, stops>>
vars     == <<pc, fields, events, workflow, stopping, stream, view>>

Terminal   == {"summary", "error"}
EventType  == {"status", "log", "note", "elapsed"} \cup Terminal
Outcome    == {"success", "partial_success", "failure"}
SummaryVal == {"none"} \cup Outcome
PcLabel    == {"uncreated", "start", "announce", "work",
               "okSummary", "okStatus", "okFinish", "okEvent",
               "errError", "errStatus", "errFinish", "errSummary", "errEvent",
               "done", "died"}

Workflow == INSTANCE RunContract WITH Run <- Job, Overlap <- TRUE

TypeOK ==
    /\ pc \in [Job -> PcLabel]
    /\ status \in [Job -> {"queued", "running"} \cup Outcome]
    /\ summary \in [Job -> SummaryVal]
    /\ error \in [Job -> BOOLEAN]
    /\ finished \in [Job -> BOOLEAN]
    /\ events \in [Job -> Seq(EventType \ {"elapsed"})]
    /\ phase \in [Job -> {"idle", "running", "committed", "ok", "failed"}]
    /\ stop \in [Job -> BOOLEAN]
    /\ logs \in [Job -> 0 .. MaxLog]
    /\ stopper \in [Job -> 0 .. MaxStop]
    /\ stops \in [Job -> 0 .. MaxStop]
    /\ stream \in [Stream -> [state : {"unopened", "open", "left", "ended"},
                              holds : EventType \cup {"none"}]]
    /\ view \in [Observer -> [next : {"status", "summary", "error", "done"},
                              status : {"queued", "running"} \cup Outcome,
                              summary : SummaryVal, error : BOOLEAN]]

Init ==
    /\ pc = [j \in Job |-> "uncreated"]
    /\ status = [j \in Job |-> "queued"]
    /\ summary = [j \in Job |-> "none"]
    /\ error = [j \in Job |-> FALSE]
    /\ finished = [j \in Job |-> FALSE]
    /\ events = [j \in Job |-> <<>>]
    /\ Workflow!Init
    /\ logs = [j \in Job |-> 0]
    /\ stopper = [j \in Job |-> 0]
    /\ stops = [j \in Job |-> 0]
    /\ stream = [c \in Stream |-> [state |-> "unopened", holds |-> "none"]]
    /\ view = [o \in Observer |-> [next |-> "status", status |-> "queued",
                                   summary |-> "none", error |-> FALSE]]

Created(j)  == pc[j] # "uncreated"
Goto(j, l)  == pc' = [pc EXCEPT ![j] = l]
Step(j, l, m) == pc[j] = l /\ Goto(j, m)
Put(j, e)   == events' = [events EXCEPT ![j] = Append(@, e)]

-----------------------------------------------------------------------------
(* The worker thread: _run_job. *)

\* create(): a valid payload registers a queued job and starts its thread.
Create(j) ==
    /\ Step(j, "uncreated", "start")
    /\ UNCHANGED <<fields, events, workflow, stopping, stream, view>>

SetRunning(j) ==
    /\ Step(j, "start", "announce")
    /\ status' = [status EXCEPT ![j] = "running"]
    /\ UNCHANGED <<summary, error, finished, events, workflow, stopping, stream, view>>

\* The status event; then the workflow is called.
Announce(j) ==
    /\ Step(j, "announce", "work")
    /\ Put(j, "status")
    /\ Workflow!Start(j)
    /\ UNCHANGED <<fields, logs, stopping, stream, view>>

\* Mutant of LogLine: a reader thread of the workflow's outlives it.
LogLineAnyTime(j) ==
    /\ Created(j) /\ phase[j] # "idle"
    /\ logs[j] < MaxLog
    /\ logs' = [logs EXCEPT ![j] = @ + 1]
    /\ Put(j, "log")
    /\ UNCHANGED <<pc, fields, phase, stop, stopping, stream, view>>

\* The workflow calls on_log.
LogLine(j) ==
    /\ pc[j] = "work" /\ Workflow!Active(j)
    /\ logs[j] < MaxLog
    /\ logs' = [logs EXCEPT ![j] = @ + 1]
    /\ Put(j, "log")
    /\ UNCHANGED <<pc, fields, phase, stop, stopping, stream, view>>

\* The workflow passes its last look at the stop flag, if it has one.
WorkflowCommits(j) ==
    /\ pc[j] = "work"
    /\ Workflow!Commit(j)
    /\ UNCHANGED <<pc, fields, events, logs, stopping, stream, view>>

WorkflowReturns(j) ==
    /\ Step(j, "work", "okSummary")
    /\ Workflow!Succeed(j)
    /\ UNCHANGED <<fields, events, logs, stopping, stream, view>>

\* UserError, or any other exception: the two handlers do the same steps.
WorkflowRaises(j) ==
    /\ Step(j, "work", "errError")
    /\ Workflow!Fail(j)
    /\ UNCHANGED <<fields, events, logs, stopping, stream, view>>

\* A review returns a summary whatever became of its two sub-workflows.
SetSummary(j) ==
    /\ Step(j, "okSummary", "okStatus")
    /\ \E s \in IF j \in Reviewing THEN Outcome ELSE {"success"} :
           summary' = [summary EXCEPT ![j] = s]
    /\ UNCHANGED <<status, error, finished, events, workflow, stopping, stream, view>>

\* Mutant of SetSuccess: a backend job takes over the summary's "OK", too.
SetSummaryStatus(j) ==
    /\ Step(j, "okStatus", "okFinish")
    /\ status' = [status EXCEPT ![j] = IF j \in Reviewing THEN summary[j] ELSE "OK"]
    /\ UNCHANGED <<summary, error, finished, events, workflow, stopping, stream, view>>

SetSuccess(j) ==
    /\ Step(j, "okStatus", "okFinish")
    /\ status' = [status EXCEPT ![j] = IF j \in Reviewing THEN summary[j] ELSE "success"]
    /\ UNCHANGED <<summary, error, finished, events, workflow, stopping, stream, view>>

SetFinished(j) ==
    /\ Step(j, "okFinish", "okEvent") \/ Step(j, "errFinish", "errSummary")
    /\ finished' = [finished EXCEPT ![j] = TRUE]
    /\ UNCHANGED <<status, summary, error, events, workflow, stopping, stream, view>>

PutSummary(j) ==
    /\ Step(j, "okEvent", "done")
    /\ Put(j, "summary")
    /\ UNCHANGED <<fields, workflow, stopping, stream, view>>

\* Mutant of SetError: the error is announced as soon as it is known.
SetErrorAndTell(j) ==
    /\ Step(j, "errError", "errStatus")
    /\ error' = [error EXCEPT ![j] = TRUE]
    /\ Put(j, "error")
    /\ UNCHANGED <<status, summary, finished, workflow, stopping, stream, view>>

SetError(j) ==
    /\ Step(j, "errError", "errStatus")
    /\ error' = [error EXCEPT ![j] = TRUE]
    /\ UNCHANGED <<status, summary, finished, events, workflow, stopping, stream, view>>

\* Mutants of SetFailure: a stop is not a failure; the status is forgotten.
SetFailureUnlessStopped(j) ==
    /\ Step(j, "errStatus", "errFinish")
    /\ status' = [status EXCEPT ![j] = IF stop[j] THEN "success" ELSE "failure"]
    /\ UNCHANGED <<summary, error, finished, events, workflow, stopping, stream, view>>

SetNoFailure(j) ==
    /\ Step(j, "errStatus", "errFinish")
    /\ UNCHANGED <<fields, events, workflow, stopping, stream, view>>

SetFailure(j) ==
    /\ Step(j, "errStatus", "errFinish")
    /\ status' = [status EXCEPT ![j] = "failure"]
    /\ UNCHANGED <<summary, error, finished, events, workflow, stopping, stream, view>>

\* _read_summary_if_exists: no file, or whatever an earlier job or this one
\* left in out_dir.
ReadSummary(j) ==
    /\ Step(j, "errSummary", "errEvent")
    /\ \E s \in {"none", "failure", "success"} \cup (IF j \in Reviewing THEN {"partial_success"} ELSE {}) :
           summary' = [summary EXCEPT ![j] = s]
    /\ UNCHANGED <<status, error, finished, events, workflow, stopping, stream, view>>

\* An OSError of the lookup leaves the exception handler and ends the thread.
ReadSummaryRaises(j) ==
    /\ "unreadable" \in Faults
    /\ Step(j, "errSummary", "died")
    /\ UNCHANGED <<fields, events, workflow, stopping, stream, view>>

PutError(j) ==
    /\ Step(j, "errEvent", "done")
    /\ Put(j, "error")
    /\ UNCHANGED <<fields, workflow, stopping, stream, view>>

\* The steps of the thread outside the workflow, and the workflow's own.
Bookkeeping(j) ==
    \/ SetRunning(j) \/ Announce(j) \/ SetSummary(j) \/ SetSuccess(j) \/ SetFinished(j)
    \/ PutSummary(j) \/ SetError(j) \/ SetFailure(j) \/ ReadSummary(j)
    \/ ReadSummaryRaises(j) \/ PutError(j)

WorkflowStep(j) ==
    LogLine(j) \/ WorkflowCommits(j) \/ WorkflowReturns(j) \/ WorkflowRaises(j)

-----------------------------------------------------------------------------
(* The request threads. *)

\* POST /api/stop: request_stop first, the note in the log afterwards.
StopJob(j) ==
    /\ j \in Stoppable /\ Created(j)
    /\ stops[j] < MaxStop
    /\ stops' = [stops EXCEPT ![j] = @ + 1]
    /\ stopper' = [stopper EXCEPT ![j] = @ + 1]
    /\ Workflow!RequestStop(j)
    /\ UNCHANGED <<pc, fields, events, logs, stream, view>>

PutStopNote(j) ==
    /\ stopper[j] > 0
    /\ stopper' = [stopper EXCEPT ![j] = @ - 1]
    /\ Put(j, "note")
    /\ UNCHANGED <<pc, fields, workflow, stops, stream, view>>

\* GET /api/events of an existing job.
Connect(c) ==
    /\ stream[c].state = "unopened" /\ Created(JobOf[c])
    /\ stream' = [stream EXCEPT ![c].state = "open"]
    /\ UNCHANGED <<pc, fields, events, workflow, stopping, view>>

\* events.get(timeout=1.0): the oldest event, or an elapsed event of its own.
\* The handler learns of a lost client only when it writes.
Take(c) ==
    LET j == JobOf[c] IN
    /\ stream[c].state \in {"open", "left"} /\ stream[c].holds = "none"
    /\ IF events[j] = <<>>
       THEN /\ stream' = [stream EXCEPT ![c].holds = "elapsed"]
            /\ UNCHANGED events
       ELSE /\ stream' = [stream EXCEPT ![c].holds = Head(events[j])]
            /\ events' = [events EXCEPT ![j] = Tail(@)]
    /\ UNCHANGED <<pc, fields, workflow, stopping, view>>

\* Mutant of Deliver: the stream goes on after an error.
DeliverPastError(c) ==
    /\ stream[c].state = "open" /\ stream[c].holds # "none"
    /\ stream' = [stream EXCEPT ![c] =
                    IF @.holds = "summary" THEN [@ EXCEPT !.state = "ended"]
                                           ELSE [@ EXCEPT !.holds = "none"]]
    /\ UNCHANGED <<pc, fields, events, workflow, stopping, view>>

\* _write_sse: a terminal event ends the handler.
Deliver(c) ==
    /\ stream[c].state = "open" /\ stream[c].holds # "none"
    /\ stream' = [stream EXCEPT ![c] =
                    IF @.holds \in Terminal THEN [@ EXCEPT !.state = "ended"]
                                            ELSE [@ EXCEPT !.holds = "none"]]
    /\ UNCHANGED <<pc, fields, events, workflow, stopping, view>>

\* The client of the connection goes away.
Leave(c) ==
    /\ "disconnect" \in Faults
    /\ stream[c].state = "open"
    /\ stream' = [stream EXCEPT ![c].state = "left"]
    /\ UNCHANGED <<pc, fields, events, workflow, stopping, view>>

\* Writing to a lost client: it may still be buffered by the kernel, a
\* terminal event or a broken pipe ends the handler.  The event is gone.
WriteToNobody(c) ==
    /\ stream[c].state = "left" /\ stream[c].holds # "none"
    /\ \E broken \in BOOLEAN :
           stream' = [stream EXCEPT ![c].holds = "none",
                                    ![c].state = IF broken \/ stream[c].holds \in Terminal
                                                 THEN "ended" ELSE "left"]
    /\ UNCHANGED <<pc, fields, events, workflow, stopping, view>>

\* Mutant of Look: the summary is read before the status.
LookSummaryFirst(o) ==
    LET j == Target[o] IN
    /\ Created(j)
    /\ \/ /\ view[o].next = "status"
          /\ view' = [view EXCEPT ![o].next = "summary", ![o].summary = summary[j]]
       \/ /\ view[o].next = "summary"
          /\ view' = [view EXCEPT ![o].next = "error", ![o].status = status[j]]
       \/ /\ view[o].next = "error"
          /\ view' = [view EXCEPT ![o].next = "done", ![o].error = error[j]]
    /\ UNCHANGED <<pc, fields, events, workflow, stopping, stream>>

\* GET /api/jobs/<id>: snapshot() reads status, summary and error in turn.
Look(o) ==
    LET j == Target[o] IN
    /\ Created(j)
    /\ \/ /\ view[o].next = "status"
          /\ view' = [view EXCEPT ![o].next = "summary", ![o].status = status[j]]
       \/ /\ view[o].next = "summary"
          /\ view' = [view EXCEPT ![o].next = "error", ![o].summary = summary[j]]
       \/ /\ view[o].next = "error"
          /\ view' = [view EXCEPT ![o].next = "done", ![o].error = error[j]]
    /\ UNCHANGED <<pc, fields, events, workflow, stopping, stream>>

Next ==
    \/ \E j \in Job : Create(j) \/ Bookkeeping(j) \/ WorkflowStep(j) \/ StopJob(j) \/ PutStopNote(j)
    \/ \E c \in Stream : Connect(c) \/ Take(c) \/ Deliver(c) \/ Leave(c) \/ WriteToNobody(c)
    \/ \E o \in Observer : Look(o)

Spec == Init /\ [][Next]_vars

(***************************************************************************)
(* Threads that can run do run, and a workflow that was asked to stop      *)
(* ends.  The others end too: lint, risk and review are loops over finite  *)
(* inputs; a backend tool that hangs and is never stopped is the one case  *)
(* in which a workflow does not, so nothing is assumed for it.             *)
(***************************************************************************)
Fairness ==
    /\ \A j \in Job :
        /\ WF_vars(Bookkeeping(j))
        /\ WF_vars(PutStopNote(j))
        /\ WF_vars((stop[j] \/ j \notin Stoppable) /\ (WorkflowReturns(j) \/ WorkflowRaises(j)))
        /\ WF_vars(j \notin Stoppable /\ WorkflowCommits(j))
    /\ \A c \in Stream : WF_vars(Take(c)) /\ WF_vars(Deliver(c)) /\ WF_vars(WriteToNobody(c))

FairSpec == Spec /\ Fairness

-----------------------------------------------------------------------------
(* Properties. *)

Holds(c)    == stream[c].holds
InQueue(j)  == {events[j][i] : i \in DOMAIN events[j]}
Taken(j)    == {Holds(c) : c \in {d \in Stream : JobOf[d] = j}}
Rivals(c)   == {d \in Stream \ {c} : JobOf[d] = JobOf[c] /\ stream[d].state # "unopened"}

\* A snapshot is read field by field while the worker writes the fields.  One
\* that shows a settled status always explains it: by the error, or by the
\* very summary the status was taken from, and never a success by an error.
SnapshotExplainsStatus ==
    \A o \in Observer :
        (view[o].next = "done" /\ view[o].status \in Outcome) =>
            IF view[o].error THEN view[o].status = "failure"
                             ELSE view[o].status = view[o].summary

\* Once a terminal event can be seen, in the queue or on its way to a client,
\* the fields a client fetches next are settled.
TerminalEventAfterFields ==
    \A j \in Job :
        /\ (InQueue(j) \cup Taken(j)) \cap Terminal # {} =>
               status[j] \in Outcome /\ finished[j]
        /\ "summary" \in InQueue(j) \cup Taken(j) => summary[j] = status[j]
        /\ "error" \in InQueue(j) \cup Taken(j) => error[j]

\* A stream stops reading at a terminal event.  All that can be left behind it
\* in the queue is the note of a stop request: no line of the workflow is lost.
OnlyNotesAfterTerminal ==
    \A j \in Job :
        Taken(j) \cap Terminal # {} => InQueue(j) \subseteq {"note"}

\* Asking a backend job to stop before its workflow has committed keeps the
\* job from ever being reported as a success.
StoppedJobNeverSucceeds ==
    \A j \in Job :
        [](stop[j] /\ phase[j] \in {"idle", "running"}
             => [](status[j] # "success" /\ "summary" \notin InQueue(j) \cup Taken(j)))

\* A stream that has the job's events to itself ends, unless its client leaves.
\* (For a backend job: if the job was asked to stop.)
SoleStreamEnds ==
    \A c \in Stream :
        (stream[c].state = "open" /\ (stop[JobOf[c]] \/ JobOf[c] \notin Stoppable))
            ~> (stream[c].state \in {"ended", "left"} \/ Rivals(c) # {})

\* "GUI must surface unexpected failures": a workflow that raised leads to an
\* error event that clients can see.
FailureSurfaces ==
    \A j \in Job :
        phase[j] = "failed" ~> "error" \in InQueue(j) \cup Taken(j)

\* The lifecycle a client relies on.
Lifecycle == INSTANCE JobLifecycle WITH
    Certain   <- Job \ Stoppable,
    state     <- [j \in Job |-> IF pc[j] = "uncreated" THEN "absent" ELSE status[j]],
    announced <- [j \in Job |-> IF pc[j] # "done" THEN "none"
                                ELSE IF error[j] THEN "error" ELSE "summary"]

\* A job settles once, announces it once and with the right event, and always
\* gets there.
ImplementsLifecycle == Lifecycle!FairSpec

=============================================================================
