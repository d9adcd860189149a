------------------------------ MODULE Analysis ------------------------------
(***************************************************************************)
(* The Yosys/OpenSTA backend analysis of src/sta_lite/core/runner.py:      *)
(* analyze(), run_streaming_command(), make_summary() and the              *)
(* ProcessController through which another thread stops a run.             *)
(*                                                                         *)
(* A set of runs analyses into ONE output directory, one after another or, *)
(* when Overlap is TRUE, at the same time (two jobs of the GUI with the    *)
(* same out_dir).  Each run is a worker thread with a program counter; the *)
(* tool it launches is a process of its own, and a stop request of a third *)
(* thread may come between any two steps.  A file's contents are           *)
(* abstracted to the run that wrote it, so that a stale or a foreign       *)
(* artifact can be told from the run's own.                                *)
(***************************************************************************)
EXTENDS Naturals, FiniteSets

CONSTANTS
    Run,      \* the analyses that use the output directory
    NoRun,    \* the writer of a file that does not exist
    Overlap,  \* TRUE: a run may start while another one is active
    Faults    \* the abnormal events that may happen, a subset of FaultKind

\* "launch": Popen raises although the executable was found.
\* "stream": reading or mirroring the tool's output raises.
\* "silent": a tool exits with code 0 without writing all of its outputs.
\* "files" : an operation of analyze() on a file of its own raises.
\* "crash" : the process that runs the workers dies; the tools survive it.
FaultKind == {"launch", "stream", "silent", "files", "crash"}

ASSUME AnalysisAssumption ==
    /\ NoRun \notin Run
    /\ Overlap \in BOOLEAN
    /\ Faults \subseteq FaultKind

Stage   == {"yosys", "sta"}
Reports == {"checks.rpt", "wns.rpt", "tns.rpt"}
Inputs  == {"synth.ys", "opensta.tcl", "constraints.sdc", "synth.v"}
File    == Reports \cup Inputs \cup {"opensta.log"}

Writer   == Run \cup {NoRun}
NoResult == [status |-> "none", numbers |-> [f \in Reports |-> NoRun]]
Result   == [status : {"none", "OK", "FAILED"}, numbers : [Reports -> Writer]]

VARIABLES
    pc,             \* the next step of each run's worker
    stage,          \* the tool the worker is at
    verdict,        \* why the worker ends: "none", "stopped", "failed" or "ok"
    result,         \* what make_summary returned
    stopRequested,  \* ProcessController._stop_requested
    attached,       \* ProcessController._process, by the stage it belongs to
    tool,           \* the state of each tool process
    termed,         \* the tools that were sent SIGTERM
    clean,          \* the tools that ended with exit code 0
    saw,            \* the writers of the inputs a run's tools have read
    disk,           \* who wrote each file of the output directory
    logError,       \* opensta.log holds an Error line
    summary         \* summary.json: its writer and its contents

worker     == <<pc, stage, verdict, result>>
controller == <<stopRequested, attached>>
processes  == <<tool, termed, clean, saw>>
files      == <<disk, logError, summary>>
vars       == <<worker, controller, processes, files>>

PcLabel == {"idle", "inputs", "script", "mirror", "launch", "attach", "stream",
            "detach", "stopcheck", "judge", "summarise", "save",
            "returned", "raised", "lost"}
Ended   == {"returned", "raised", "lost"}

Active(r) == pc[r] \notin {"idle"} \cup Ended

\* The script a stage's tool runs, the inputs it reads, the files it writes.
Script(s)  == IF s = "yosys" THEN "synth.ys" ELSE "opensta.tcl"
Reads(s)   == IF s = "yosys" THEN {"synth.ys"} ELSE Inputs \ {"synth.ys"}
Outputs(s) == IF s = "yosys" THEN {"synth.v"} ELSE Reports

Missing(F)  == \E f \in F : disk[f] = NoRun
Write(r, F) == disk' = [f \in File |-> IF f \in F THEN r ELSE disk[f]]
Goto(r, l)  == pc' = [pc EXCEPT ![r] = l]

TypeOK ==
    /\ pc \in [Run -> PcLabel]
    /\ stage \in [Run -> Stage]
    /\ verdict \in [Run -> {"none", "stopped", "failed", "ok"}]
    /\ result \in [Run -> Result]
    /\ stopRequested \in [Run -> BOOLEAN]
    /\ attached \in [Run -> Stage \cup {"none"}]
    /\ tool \in [Run -> [Stage -> {"none", "started", "loaded", "exited"}]]
    /\ termed \in [Run -> SUBSET Stage]
    /\ clean \in [Run -> SUBSET Stage]
    /\ saw \in [Run -> [Inputs -> Writer]]
    /\ disk \in [File -> Writer]
    /\ logError \in BOOLEAN
    /\ summary \in [run : Writer, content : Result]

Init ==
    /\ pc = [r \in Run |-> "idle"]
    /\ stage = [r \in Run |-> "yosys"]
    /\ verdict = [r \in Run |-> "none"]
    /\ result = [r \in Run |-> NoResult]
    /\ stopRequested = [r \in Run |-> FALSE]
    /\ attached = [r \in Run |-> "none"]
    /\ tool = [r \in Run |-> [s \in Stage |-> "none"]]
    /\ termed = [r \in Run |-> {}]
    /\ clean = [r \in Run |-> {}]
    /\ saw = [r \in Run |-> [f \in Inputs |-> NoRun]]
    /\ disk = [f \in File |-> NoRun]
    /\ logError = FALSE
    /\ summary = [run |-> NoRun, content |-> NoResult]

Alive(r, s) == tool[r][s] \in {"started", "loaded"}

-----------------------------------------------------------------------------
(* The worker: the thread that executes analyze(). *)

\* A caller (GUI thread, command line) enters analyze().
StartRun(r) ==
    /\ pc[r] = "idle"
    /\ Overlap \/ \A q \in Run : ~Active(q)
    /\ Goto(r, "inputs")
    /\ UNCHANGED <<stage, verdict, result, controller, processes, files>>

\* A missing executable, source, liberty or SDC file, or a missing or
\* non-positive clock period: UserError before out_dir is touched.
RejectInputs(r) ==
    /\ pc[r] = "inputs"
    /\ Goto(r, "raised")
    /\ UNCHANGED <<stage, verdict, result, controller, processes, files>>

\* out_dir is made, constraints.sdc is copied or generated.
WriteConstraints(r) ==
    /\ pc[r] = "inputs"
    /\ Write(r, {"constraints.sdc"})
    /\ Goto(r, "script")
    /\ UNCHANGED <<stage, verdict, result, controller, processes, logError, summary>>

\* synth.ys or opensta.tcl is written; only OpenSTA's output is mirrored.
WriteScript(r) ==
    /\ pc[r] = "script"
    /\ Write(r, {Script(stage[r])})
    /\ Goto(r, IF stage[r] = "sta" THEN "mirror" ELSE "launch")
    /\ UNCHANGED <<stage, verdict, result, controller, processes, logError, summary>>

\* mirror_log.open("w") truncates opensta.log.
OpenMirror(r) ==
    /\ pc[r] = "mirror"
    /\ Write(r, {"opensta.log"})
    /\ logError' = FALSE
    /\ Goto(r, "launch")
    /\ UNCHANGED <<stage, verdict, result, controller, processes, summary>>

\* subprocess.Popen: the tool runs, the controller does not know of it yet.
Launch(r) ==
    /\ pc[r] = "launch"
    /\ tool' = [tool EXCEPT ![r][stage[r]] = "started"]
    /\ Goto(r, "attach")
    /\ UNCHANGED <<stage, verdict, result, controller, termed, clean, saw, files>>

\* Popen raises: the finally clause swallows the unbound name, the log is
\* closed, and the exception leaves analyze() without a summary.
LaunchFails(r) ==
    /\ "launch" \in Faults
    /\ pc[r] = "launch"
    /\ Goto(r, "raised")
    /\ UNCHANGED <<stage, verdict, result, controller, processes, files>>

\* A read or a write of analyze() raises, and a write may have left a part of
\* the file: no tool runs, and the exception leaves analyze() as it is.
FileFails(r) ==
    /\ "files" \in Faults
    /\ pc[r] \in {"inputs", "script", "mirror", "judge", "summarise", "save"}
    /\ pc[r] = "judge" => stage[r] = "sta"
    /\ \E F \in SUBSET {"constraints.sdc", Script(stage[r])} :
          /\ "constraints.sdc" \in F => pc[r] = "inputs"
          /\ Script(stage[r]) \in F => pc[r] = "script"
          /\ Write(r, F)
    /\ summary' \in {summary} \cup IF pc[r] = "save" THEN {[run |-> r, content |-> NoResult]} ELSE {}
    /\ Goto(r, "raised")
    /\ UNCHANGED <<stage, verdict, result, controller, processes, logError>>

\* Mutant of Attach: a stop requested between Popen and attach is forgotten.
AttachUnchecked(r) ==
    /\ pc[r] = "attach"
    /\ attached' = [attached EXCEPT ![r] = stage[r]]
    /\ Goto(r, "stream")
    /\ UNCHANGED <<stage, verdict, result, stopRequested, processes, files>>

\* ProcessController.attach, under its lock.
Attach(r) ==
    /\ pc[r] = "attach"
    /\ attached' = [attached EXCEPT ![r] = stage[r]]
    /\ termed' = IF stopRequested[r] /\ Alive(r, stage[r])
                 THEN [termed EXCEPT ![r] = @ \cup {stage[r]}]
                 ELSE termed
    /\ Goto(r, "stream")
    /\ UNCHANGED <<stage, verdict, result, stopRequested, tool, clean, saw, files>>

\* An Error line of OpenSTA is mirrored into opensta.log.
MirrorErrorLine(r) ==
    /\ pc[r] = "stream"
    /\ stage[r] = "sta"
    /\ tool[r]["sta"] = "loaded"
    /\ logError' = TRUE
    /\ UNCHANGED <<worker, controller, processes, disk, summary>>

\* Mutant of StreamEnds: the end of the output is taken for the tool's end.
StreamEndsUnwaited(r) ==
    /\ pc[r] = "stream"
    /\ Goto(r, "detach")
    /\ UNCHANGED <<stage, verdict, result, controller, processes, files>>

\* End of the output, then process.wait() returns.
StreamEnds(r) ==
    /\ pc[r] = "stream"
    /\ ~Alive(r, stage[r])
    /\ Goto(r, "detach")
    /\ UNCHANGED <<stage, verdict, result, controller, processes, files>>

\* The loop over the output raises: the finally clause detaches the process,
\* which is neither terminated nor waited for.
StreamFails(r) ==
    /\ "stream" \in Faults
    /\ pc[r] = "stream"
    /\ attached' = [attached EXCEPT ![r] = "none"]
    /\ Goto(r, "raised")
    /\ UNCHANGED <<stage, verdict, result, stopRequested, processes, files>>

\* Mutant of Detach: the process stays attached.
DetachNothing(r) ==
    /\ pc[r] = "detach"
    /\ Goto(r, "stopcheck")
    /\ UNCHANGED <<stage, verdict, result, controller, processes, files>>

\* ProcessController.detach of the process that was waited for.
Detach(r) ==
    /\ pc[r] = "detach"
    /\ attached' = [attached EXCEPT ![r] = IF @ = stage[r] THEN "none" ELSE @]
    /\ Goto(r, "stopcheck")
    /\ UNCHANGED <<stage, verdict, result, stopRequested, processes, files>>

StopCheck(r, stopped) ==
    /\ pc[r] = "stopcheck"
    /\ IF stopped
       THEN /\ verdict' = [verdict EXCEPT ![r] = "stopped"]
            /\ Goto(r, "summarise")
       ELSE /\ Goto(r, "judge")
            /\ UNCHANGED verdict
    /\ UNCHANGED <<stage, result, controller, processes, files>>

\* Mutants of CheckStop: a tool that ended well hides the stop; the stop is
\* looked at after Yosys only.
CheckStopIfFailed(r)    == StopCheck(r, stopRequested[r] /\ stage[r] \notin clean[r])
CheckStopAfterYosys(r) == StopCheck(r, stopRequested[r] /\ stage[r] = "yosys")

\* The read of controller.stop_requested after each tool.
CheckStop(r) == StopCheck(r, stopRequested[r])

\* Yosys must exit with 0 and a netlist must be there.
JudgeYosys(r) ==
    /\ pc[r] = "judge"
    /\ stage[r] = "yosys"
    /\ IF "yosys" \notin clean[r] \/ Missing({"synth.v"})
       THEN /\ verdict' = [verdict EXCEPT ![r] = "failed"]
            /\ Goto(r, "summarise")
            /\ UNCHANGED stage
       ELSE /\ stage' = [stage EXCEPT ![r] = "sta"]
            /\ Goto(r, "script")
            /\ UNCHANGED verdict
    /\ UNCHANGED <<result, controller, processes, files>>

\* Mutant of JudgeSta: the exit code is not looked at.
JudgeStaByFiles(r) ==
    /\ pc[r] = "judge"
    /\ stage[r] = "sta"
    /\ verdict' = [verdict EXCEPT ![r] = IF logError \/ Missing(Reports) THEN "failed" ELSE "ok"]
    /\ Goto(r, "summarise")
    /\ UNCHANGED <<stage, result, controller, processes, files>>

\* OpenSTA must exit with 0, log no Error and leave all the reports.
JudgeSta(r) ==
    /\ pc[r] = "judge"
    /\ stage[r] = "sta"
    /\ verdict' = [verdict EXCEPT ![r] =
                     IF "sta" \notin clean[r] \/ logError \/ Missing(Reports)
                     THEN "failed" ELSE "ok"]
    /\ Goto(r, "summarise")
    /\ UNCHANGED <<stage, result, controller, processes, files>>

\* Mutant of Summarise: the numbers of missing reports have no entry.
SummariseFound(r) ==
    /\ pc[r] = "summarise"
    /\ result' = [result EXCEPT ![r] =
                    [status  |-> IF verdict[r] = "ok" THEN "OK" ELSE "FAILED",
                     numbers |-> [f \in {g \in Reports : disk[g] # NoRun} |-> disk[f]]]]
    /\ Goto(r, "save")
    /\ UNCHANGED <<stage, verdict, controller, processes, files>>

\* make_summary parses whatever reports lie in out_dir.
Summarise(r) ==
    /\ pc[r] = "summarise"
    /\ result' = [result EXCEPT ![r] =
                    [status  |-> IF verdict[r] = "ok" THEN "OK" ELSE "FAILED",
                     numbers |-> [f \in Reports |-> disk[f]]]]
    /\ Goto(r, "save")
    /\ UNCHANGED <<stage, verdict, controller, processes, files>>

\* write_json(summary.json), then return the summary or raise UserError.
SaveSummary(r) ==
    /\ pc[r] = "save"
    /\ summary' = [run |-> r, content |-> result[r]]
    /\ Goto(r, IF verdict[r] = "ok" THEN "returned" ELSE "raised")
    /\ UNCHANGED <<stage, verdict, result, controller, processes, disk, logError>>

WorkerStep(r) ==
    \/ RejectInputs(r) \/ WriteConstraints(r) \/ WriteScript(r) \/ OpenMirror(r)
    \/ Launch(r) \/ LaunchFails(r) \/ Attach(r) \/ StreamEnds(r) \/ StreamFails(r)
    \/ Detach(r) \/ CheckStop(r) \/ JudgeYosys(r) \/ JudgeSta(r) \/ Summarise(r)
    \/ SaveSummary(r) \/ FileFails(r)

-----------------------------------------------------------------------------
(* The other threads and processes. *)

\* Mutant of RequestStop: the flag is set, the attached tool is not signalled.
RequestStopQuietly(r) ==
    /\ pc[r] # "lost"
    /\ ~stopRequested[r]
    /\ stopRequested' = [stopRequested EXCEPT ![r] = TRUE]
    /\ UNCHANGED <<worker, attached, processes, files>>

\* ProcessController.request_stop, called by the stop handler of the GUI.  The
\* job and its controller exist before the worker enters analyze().
RequestStop(r) ==
    /\ pc[r] # "lost"
    /\ ~stopRequested[r]
    /\ stopRequested' = [stopRequested EXCEPT ![r] = TRUE]
    /\ termed' = IF attached[r] # "none" /\ Alive(r, attached[r])
                 THEN [termed EXCEPT ![r] = @ \cup {attached[r]}]
                 ELSE termed
    /\ UNCHANGED <<worker, attached, tool, clean, saw, files>>

\* A tool reads its script and the inputs the script names.
ToolLoads(r, s) ==
    /\ tool[r][s] = "started"
    /\ tool' = [tool EXCEPT ![r][s] = "loaded"]
    /\ saw' = [saw EXCEPT ![r] = [f \in Inputs |-> IF f \in Reads(s) THEN disk[f] ELSE @[f]]]
    /\ UNCHANGED <<worker, controller, termed, clean, files>>

\* A tool ends with exit code 0 or not.  A tool that fails may have written
\* any part of its outputs; one that succeeds has written all of them, unless
\* it is "silent" (a Tcl `exit` in the user's SDC ends OpenSTA this way).
ToolExits(r, s) ==
    /\ Alive(r, s)
    /\ tool' = [tool EXCEPT ![r][s] = "exited"]
    /\ \E F \in SUBSET Outputs(s), ok \in BOOLEAN :
          /\ ok \/ F # {} => tool[r][s] = "loaded"
          /\ ok => F = Outputs(s) \/ "silent" \in Faults
          /\ clean' = [clean EXCEPT ![r] = IF ok THEN @ \cup {s} ELSE @]
          /\ Write(r, F)
    /\ UNCHANGED <<worker, controller, termed, saw, logError, summary>>

\* The server or command-line process dies.  Its children are not killed with
\* it; its controllers and workers are gone.
Crash ==
    /\ "crash" \in Faults
    /\ \E r \in Run : Active(r)
    /\ pc' = [r \in Run |-> IF Active(r) THEN "lost" ELSE pc[r]]
    /\ attached' = [r \in Run |-> "none"]
    /\ UNCHANGED <<stage, verdict, result, stopRequested, processes, files>>

\* Every run has ended and no tool is left: nothing more can happen.
Finished ==
    /\ \A r \in Run : pc[r] \in Ended /\ \A s \in Stage : ~Alive(r, s)
    /\ UNCHANGED vars

Next ==
    \/ \E r \in Run : StartRun(r) \/ WorkerStep(r) \/ MirrorErrorLine(r) \/ RequestStop(r)
    \/ \E r \in Run, s \in Stage : ToolLoads(r, s) \/ ToolExits(r, s)
    \/ Crash
    \/ Finished

Spec == Init /\ [][Next]_vars

(***************************************************************************)
(* A worker thread that can run does run; that reading a tool's output     *)
(* raises is not owed.  A tool owes nothing, it may hang for ever, except  *)
(* that one that was sent SIGTERM ends: neither Yosys nor OpenSTA installs *)
(* a handler that ignores it.                                              *)
(***************************************************************************)
Fairness ==
    /\ \A r \in Run : WF_vars(pc[r] # "stream" /\ WorkerStep(r)) /\ WF_vars(StreamEnds(r))
    /\ \A r \in Run, s \in Stage : WF_vars(s \in termed[r] /\ ToolExits(r, s))

FairSpec == Spec /\ Fairness

-----------------------------------------------------------------------------
(* Properties. *)

\* A tool whose output is being read has been sent SIGTERM if a stop was ever
\* requested: no interleaving of request_stop with Popen, attach and detach
\* loses the request.
StopDelivered ==
    \A r \in Run :
        (pc[r] = "stream" /\ stopRequested[r] /\ Alive(r, stage[r]))
            => stage[r] \in termed[r]

\* The controller refers to a process exactly while its worker reads it, so
\* that a stop can never signal the process of an earlier stage.
ControllerTracksWorker ==
    \A r \in Run :
        /\ attached[r] # "none" => attached[r] = stage[r]
        /\ pc[r] \in {"stream", "detach"} <=> attached[r] # "none"

\* The run has not yet passed the last look at the stop flag.
BeforeLastCheck(r) ==
    /\ pc[r] \notin Ended
    /\ stage[r] = "yosys" \/ pc[r] \notin {"judge", "summarise", "save"}

\* A stop requested before the stop check that follows OpenSTA is honoured:
\* the run never returns a summary as a success.
StopPreventsSuccess ==
    \A r \in Run :
        [](stopRequested[r] /\ BeforeLastCheck(r) => [](pc[r] # "returned"))

\* A requested stop ends the run even if its tool would hang.
StopEndsRun ==
    \A r \in Run : (stopRequested[r] /\ Active(r)) ~> ~Active(r)

\* A run that ended leaves no tool process behind.
NoOrphan ==
    \A r \in Run, s \in Stage : pc[r] \in Ended => ~Alive(r, s)

\* Whatever earlier runs left in the directory, a run that succeeds computed
\* its numbers from its own scripts, constraints, netlist and reports.
SuccessIsOwn ==
    \A r \in Run : pc[r] = "returned" =>
        /\ \A f \in Reports : result[r].numbers[f] = r
        /\ \A f \in Inputs : saw[r][f] = r

\* A run whose OpenSTA did not write all the reports is not a success.
SuccessMeansReportsWritten ==
    \A r \in Run : pc[r] = "returned" => \A f \in Reports : result[r].numbers[f] = r

\* A constraints file of another run is never behind a successful result.
SuccessUsesOwnConstraints ==
    \A r \in Run : pc[r] = "returned" => saw[r]["constraints.sdc"] = r

-----------------------------------------------------------------------------
(* The contract this implements. *)

\* The last look at the stop flag let the run go on.
Committed(r) ==
    /\ stage[r] = "sta"
    /\ pc[r] \in {"judge", "summarise", "save"}
    /\ verdict[r] # "stopped"

Phase(r) ==
    IF Active(r) THEN IF Committed(r) THEN "committed" ELSE "running"
    ELSE IF pc[r] = "returned" THEN "ok"
    ELSE IF pc[r] = "raised" THEN "failed"
    ELSE pc[r]

Contract == INSTANCE RunContract WITH
                phase <- [r \in Run |-> Phase(r)],
                stop  <- stopRequested

\* analyze() under a ProcessController is a run of RunContract: in particular
\* it never succeeds once a stop was requested before its last stop check,
\* and a stop ends it.
ImplementsContract == Contract!FairSpec

=============================================================================
