--------------------------- MODULE AnalysisProofs ---------------------------
(***************************************************************************)
(* Proofs about module Analysis, for every set of runs.                    *)
(***************************************************************************)
EXTENDS Analysis, TLAPS

USE DEF worker, controller, processes, files, vars

-----------------------------------------------------------------------------
(* Type correctness. *)

\* Every variable keeps its type, for any set of runs and any faults.
THEOREM TypeCorrect == Spec => []TypeOK
<1>1. Init => TypeOK
  <2> SUFFICES ASSUME Init PROVE TypeOK
    OBVIOUS
  <2> USE DEF Init
  <2>1. NoResult \in Result
    <3>1. [f \in Reports |-> NoRun] \in [Reports -> Writer]
      BY DEF Writer
    <3>2. QED
      BY <3>1 DEF NoResult, Result
  <2>2. result \in [Run -> Result]
    BY <2>1
  <2>3. summary \in [run : Writer, content : Result]
    BY <2>1 DEF Writer
  <2>4. disk \in [File -> Writer] /\ saw \in [Run -> [Inputs -> Writer]]
    BY DEF Writer
  <2>5. /\ pc \in [Run -> PcLabel] /\ stage \in [Run -> Stage]
        /\ tool \in [Run -> [Stage -> {"none", "started", "loaded", "exited"}]]
    BY DEF PcLabel, Stage
  <2>6. QED
    BY <2>2, <2>3, <2>4, <2>5 DEF TypeOK
<1>2. TypeOK /\ [Next]_vars => TypeOK'
  <2> SUFFICES ASSUME TypeOK, [Next]_vars PROVE TypeOK'
    OBVIOUS
  <2> USE DEF TypeOK, PcLabel, Stage, Goto, Active, Ended
  <2>0. ASSUME NEW r \in Run, NEW F, Write(r, F) PROVE disk' \in [File -> Writer]
    BY <2>0 DEF Write, Writer
  <2>1. ASSUME NEW r \in Run, StartRun(r) PROVE TypeOK'
    BY <2>1 DEF StartRun
  <2>2. ASSUME NEW r \in Run, WorkerStep(r) PROVE TypeOK'
    <3>1. CASE RejectInputs(r) BY <3>1 DEF RejectInputs
    <3>2. CASE WriteConstraints(r) BY <3>2, <2>0 DEF WriteConstraints
    <3>3. CASE WriteScript(r) BY <3>3, <2>0 DEF WriteScript
    <3>4. CASE OpenMirror(r) BY <3>4, <2>0 DEF OpenMirror
    <3>5. CASE Launch(r) BY <3>5 DEF Launch
    <3>6. CASE LaunchFails(r) BY <3>6 DEF LaunchFails
    <3>6a. CASE FileFails(r)
      <4>1. disk' \in [File -> Writer]
        BY <3>6a, <2>0 DEF FileFails
      <4>2. NoResult \in Result
        BY DEF NoResult, Result, Writer
      <4>3. summary' \in [run : Writer, content : Result]
        BY <3>6a, <4>2 DEF FileFails, Writer
      <4>4. QED
        BY <3>6a, <4>1, <4>3 DEF FileFails
    <3>7. CASE Attach(r) BY <3>7 DEF Attach
    <3>8. CASE StreamEnds(r) BY <3>8 DEF StreamEnds
    <3>9. CASE StreamFails(r) BY <3>9 DEF StreamFails
    <3>10. CASE Detach(r) BY <3>10 DEF Detach
    <3>11. CASE CheckStop(r) BY <3>11 DEF CheckStop, StopCheck
    <3>12. CASE JudgeYosys(r) BY <3>12, ZenonT(60) DEF JudgeYosys
    <3>13. CASE JudgeSta(r) BY <3>13, ZenonT(60) DEF JudgeSta
    <3>14. CASE Summarise(r)
      <4>1. [f \in Reports |-> disk[f]] \in [Reports -> Writer]
        BY DEF Reports, File
      <4>2. result' \in [Run -> Result]
        BY <3>14, <4>1 DEF Summarise, Result
      <4>3. QED
        BY <3>14, <4>2 DEF Summarise
    <3>15. CASE SaveSummary(r)
      <4>1. summary' \in [run : Writer, content : Result]
        BY <3>15 DEF SaveSummary, Writer
      <4>2. QED
        BY <3>15, <4>1 DEF SaveSummary
    <3>16. QED
      BY <2>2, <3>1, <3>2, <3>3, <3>4, <3>5, <3>6, <3>7, <3>8, <3>9, <3>10,
         <3>11, <3>12, <3>13, <3>14, <3>15, <3>6a DEF WorkerStep
  <2>3. ASSUME NEW r \in Run, MirrorErrorLine(r) PROVE TypeOK'
    BY <2>3 DEF MirrorErrorLine
  <2>4. ASSUME NEW r \in Run, RequestStop(r) PROVE TypeOK'
    BY <2>4 DEF RequestStop
  <2>5. ASSUME NEW r \in Run, NEW s \in Stage, ToolLoads(r, s) PROVE TypeOK'
    <3>1. saw' \in [Run -> [Inputs -> Writer]]
      BY <2>5 DEF ToolLoads, Inputs, File
    <3>2. tool' \in [Run -> [Stage -> {"none", "started", "loaded", "exited"}]]
      BY <2>5 DEF ToolLoads
    <3>3. QED
      BY <2>5, <3>1, <3>2 DEF ToolLoads
  <2>6. ASSUME NEW r \in Run, NEW s \in Stage, ToolExits(r, s) PROVE TypeOK'
    <3>1. disk' \in [File -> Writer]
      BY <2>6, <2>0 DEF ToolExits
    <3>2. clean' \in [Run -> SUBSET Stage]
      <4>1. PICK ok \in BOOLEAN :
               clean' = [clean EXCEPT ![r] = IF ok THEN @ \cup {s} ELSE @]
        BY <2>6 DEF ToolExits
      <4>2. CASE ok BY <4>1, <4>2
      <4>3. CASE ~ok BY <4>1, <4>3
      <4>4. QED BY <4>2, <4>3
    <3>3. tool' \in [Run -> [Stage -> {"none", "started", "loaded", "exited"}]]
      BY <2>6 DEF ToolExits
    <3>4. QED
      BY <2>6, <3>1, <3>2, <3>3 DEF ToolExits
  <2>7. CASE Crash
    BY <2>7 DEF Crash
  <2>8. CASE Finished
    BY <2>8 DEF Finished
  <2>9. CASE UNCHANGED vars
    BY <2>9
  <2>10. QED
    BY <2>1, <2>2, <2>3, <2>4, <2>5, <2>6, <2>7, <2>8, <2>9 DEF Next
<1>3. QED
  BY <1>1, <1>2, PTL DEF Spec

-----------------------------------------------------------------------------
(* Stop requests. *)

\* The two invariants are inductive together: the request finds the process
\* because the controller tracks the worker.
StopInv == ControllerTracksWorker /\ StopDelivered

LEMMA StopInvStep == TypeOK /\ StopInv /\ [Next]_vars => StopInv'
<1> SUFFICES ASSUME TypeOK, StopInv, [Next]_vars PROVE StopInv'
  OBVIOUS
<1> USE DEF StopInv, ControllerTracksWorker, StopDelivered, TypeOK, Alive, Goto, Ended, Stage, PcLabel
<1>1. ASSUME NEW r \in Run, StartRun(r) PROVE StopInv'
  BY <1>1 DEF StartRun
<1>2. ASSUME NEW r \in Run, WorkerStep(r) PROVE StopInv'
  <2>1. CASE RejectInputs(r) BY <2>1 DEF RejectInputs
  <2>2. CASE WriteConstraints(r) BY <2>2 DEF WriteConstraints
  <2>3. CASE WriteScript(r) BY <2>3 DEF WriteScript
  <2>4. CASE OpenMirror(r) BY <2>4 DEF OpenMirror
  <2>5. CASE Launch(r) BY <2>5 DEF Launch
  <2>6. CASE LaunchFails(r) BY <2>6 DEF LaunchFails
  <2>6a. CASE FileFails(r) BY <2>6a DEF FileFails
  <2>7. CASE Attach(r)
    <3>1. /\ pc[r] = "attach" /\ pc' = [pc EXCEPT ![r] = "stream"]
          /\ attached' = [attached EXCEPT ![r] = stage[r]]
          /\ UNCHANGED <<stage, stopRequested, tool>>
          /\ (stopRequested[r] /\ Alive(r, stage[r])) => stage[r] \in termed'[r]
          /\ \A q \in Run \ {r} : termed'[q] = termed[q]
      BY <2>7 DEF Attach
    <3>2. ControllerTracksWorker'
      BY <3>1
    <3>3. StopDelivered'
      BY <3>1
    <3>4. QED BY <3>2, <3>3
  <2>8. CASE StreamEnds(r) BY <2>8 DEF StreamEnds
  <2>9. CASE StreamFails(r) BY <2>9 DEF StreamFails
  <2>10. CASE Detach(r) BY <2>10 DEF Detach
  <2>11. CASE CheckStop(r) BY <2>11 DEF CheckStop, StopCheck
  <2>12. CASE JudgeYosys(r)
    <3>1. attached[r] = "none" /\ UNCHANGED <<attached, stopRequested, tool, termed>>
      BY <2>12 DEF JudgeYosys
    <3>2. /\ pc[r] \notin {"stream", "detach"} /\ pc'[r] \notin {"stream", "detach"}
          /\ \A q \in Run \ {r} : pc'[q] = pc[q] /\ stage'[q] = stage[q]
      BY <2>12 DEF JudgeYosys
    <3>3. QED BY <3>1, <3>2
  <2>13. CASE JudgeSta(r) BY <2>13, ZenonT(60) DEF JudgeSta
  <2>14. CASE Summarise(r) BY <2>14 DEF Summarise
  <2>15. CASE SaveSummary(r) BY <2>15 DEF SaveSummary
  <2>16. QED
    BY <1>2, <2>1, <2>2, <2>3, <2>4, <2>5, <2>6, <2>7, <2>8,
       <2>9, <2>10, <2>11, <2>12, <2>13, <2>14, <2>15, <2>6a DEF WorkerStep
<1>3. ASSUME NEW r \in Run, MirrorErrorLine(r) PROVE StopInv'
  BY <1>3 DEF MirrorErrorLine
<1>4. ASSUME NEW r \in Run, RequestStop(r) PROVE StopInv'
  BY <1>4 DEF RequestStop
<1>5. ASSUME NEW r \in Run, NEW s \in Stage, ToolLoads(r, s) PROVE StopInv'
  BY <1>5 DEF ToolLoads
<1>6. ASSUME NEW r \in Run, NEW s \in Stage, ToolExits(r, s) PROVE StopInv'
  BY <1>6 DEF ToolExits
<1>7. CASE Crash
  BY <1>7 DEF Crash, Active
<1>8. CASE Finished
  BY <1>8 DEF Finished
<1>9. CASE UNCHANGED vars
  BY <1>9
<1>10. QED
  BY <1>1, <1>2, <1>3, <1>4, <1>5, <1>6, <1>7, <1>8, <1>9 DEF Next

\* No interleaving of stop requests with Popen, attach, detach and the death of
\* tools or of the server loses a request, and the controller never refers to
\* a process other than the one its worker reads.
THEOREM StopIsDelivered == Spec => [](StopDelivered /\ ControllerTracksWorker)
<1>1. Init => StopInv
  BY DEF Init, StopInv, ControllerTracksWorker, StopDelivered
<1>2. QED
  BY <1>1, StopInvStep, TypeCorrect, PTL DEF Spec, StopInv

\* The controller refers to a process exactly while its worker reads it: a stop
\* never signals the process of an earlier stage, nor of another run.
THEOREM ControllerIsTracked == Spec => []ControllerTracksWorker
  BY StopIsDelivered, PTL

\* What the verdict of a run says of how far the run has come.
VerdictInv ==
    \A r \in Run :
        /\ verdict[r] # "none" => pc[r] \in {"summarise", "save"} \cup Ended
        /\ verdict[r] = "ok" => stage[r] = "sta"
        /\ pc[r] = "returned" => verdict[r] = "ok"

LEMMA VerdictStep == TypeOK /\ VerdictInv /\ [Next]_vars => VerdictInv'
<1> SUFFICES ASSUME TypeOK, VerdictInv, [Next]_vars PROVE VerdictInv'
  OBVIOUS
<1> USE DEF VerdictInv, TypeOK, Goto, Ended, Stage, PcLabel
<1>1. ASSUME NEW r \in Run, StartRun(r) PROVE VerdictInv'
  BY <1>1 DEF StartRun
<1>2. ASSUME NEW r \in Run, WorkerStep(r) PROVE VerdictInv'
  <2>1. CASE RejectInputs(r) BY <2>1 DEF RejectInputs
  <2>2. CASE WriteConstraints(r) BY <2>2 DEF WriteConstraints
  <2>3. CASE WriteScript(r) BY <2>3 DEF WriteScript
  <2>4. CASE OpenMirror(r) BY <2>4 DEF OpenMirror
  <2>5. CASE Launch(r) BY <2>5 DEF Launch
  <2>6. CASE LaunchFails(r) BY <2>6 DEF LaunchFails
  <2>6a. CASE FileFails(r) BY <2>6a DEF FileFails
  <2>7. CASE Attach(r) BY <2>7 DEF Attach
  <2>8. CASE StreamEnds(r) BY <2>8 DEF StreamEnds
  <2>9. CASE StreamFails(r) BY <2>9 DEF StreamFails
  <2>10. CASE Detach(r) BY <2>10 DEF Detach
  <2>11. CASE CheckStop(r) BY <2>11 DEF CheckStop, StopCheck
  <2>12. CASE JudgeYosys(r) BY <2>12, ZenonT(60) DEF JudgeYosys
  <2>13. CASE JudgeSta(r) BY <2>13, ZenonT(60) DEF JudgeSta
  <2>14. CASE Summarise(r) BY <2>14 DEF Summarise
  <2>15. CASE SaveSummary(r) BY <2>15 DEF SaveSummary
  <2>16. QED
    BY <1>2, <2>1, <2>2, <2>3, <2>4, <2>5, <2>6, <2>7, <2>8,
       <2>9, <2>10, <2>11, <2>12, <2>13, <2>14, <2>15, <2>6a DEF WorkerStep
<1>3. ASSUME NEW r \in Run, MirrorErrorLine(r) PROVE VerdictInv'
  BY <1>3 DEF MirrorErrorLine
<1>4. ASSUME NEW r \in Run, RequestStop(r) PROVE VerdictInv'
  BY <1>4 DEF RequestStop
<1>5. ASSUME NEW r \in Run, NEW s \in Stage, ToolLoads(r, s) PROVE VerdictInv'
  BY <1>5 DEF ToolLoads
<1>6. ASSUME NEW r \in Run, NEW s \in Stage, ToolExits(r, s) PROVE VerdictInv'
  BY <1>6 DEF ToolExits
<1>7. CASE Crash
  BY <1>7 DEF Crash, Active
<1>8. CASE Finished
  BY <1>8 DEF Finished
<1>9. CASE UNCHANGED vars
  BY <1>9
<1>10. QED
  BY <1>1, <1>2, <1>3, <1>4, <1>5, <1>6, <1>7, <1>8, <1>9 DEF Next

LEMMA VerdictInvariant == Spec => []VerdictInv
<1>1. Init => VerdictInv
  BY DEF Init, VerdictInv
<1>2. QED
  BY <1>1, VerdictStep, TypeCorrect, PTL DEF Spec

\* The run cannot become a success any more.
Doomed(r) ==
    /\ stopRequested[r]
    /\ \/ BeforeLastCheck(r)
       \/ pc[r] \in {"summarise", "save"} /\ verdict[r] # "ok"
       \/ pc[r] \in {"raised", "lost"}

LEMMA DoomedStep ==
    ASSUME TypeOK, VerdictInv, [Next]_vars, NEW q \in Run, Doomed(q)
    PROVE  Doomed(q)'
<1> USE DEF Doomed, BeforeLastCheck, VerdictInv, TypeOK, Goto, Ended, Stage, PcLabel
<1>1. ASSUME NEW r \in Run, StartRun(r) PROVE Doomed(q)'
  BY <1>1 DEF StartRun
<1>2. ASSUME NEW r \in Run, WorkerStep(r) PROVE Doomed(q)'
  <2>1. CASE RejectInputs(r) BY <2>1 DEF RejectInputs
  <2>2. CASE WriteConstraints(r) BY <2>2 DEF WriteConstraints
  <2>3. CASE WriteScript(r) BY <2>3 DEF WriteScript
  <2>4. CASE OpenMirror(r) BY <2>4 DEF OpenMirror
  <2>5. CASE Launch(r) BY <2>5 DEF Launch
  <2>6. CASE LaunchFails(r) BY <2>6 DEF LaunchFails
  <2>6a. CASE FileFails(r) BY <2>6a DEF FileFails
  <2>7. CASE Attach(r) BY <2>7 DEF Attach
  <2>8. CASE StreamEnds(r) BY <2>8 DEF StreamEnds
  <2>9. CASE StreamFails(r) BY <2>9 DEF StreamFails
  <2>10. CASE Detach(r) BY <2>10 DEF Detach
  <2>11. CASE CheckStop(r) BY <2>11 DEF CheckStop, StopCheck
  <2>12. CASE JudgeYosys(r) BY <2>12, ZenonT(60) DEF JudgeYosys
  <2>13. CASE JudgeSta(r) BY <2>13, ZenonT(60) DEF JudgeSta
  <2>14. CASE Summarise(r) BY <2>14 DEF Summarise
  <2>15. CASE SaveSummary(r) BY <2>15 DEF SaveSummary
  <2>16. QED
    BY <1>2, <2>1, <2>2, <2>3, <2>4, <2>5, <2>6, <2>7, <2>8,
       <2>9, <2>10, <2>11, <2>12, <2>13, <2>14, <2>15, <2>6a DEF WorkerStep
<1>3. ASSUME NEW r \in Run, MirrorErrorLine(r) PROVE Doomed(q)'
  BY <1>3 DEF MirrorErrorLine
<1>4. ASSUME NEW r \in Run, RequestStop(r) PROVE Doomed(q)'
  BY <1>4 DEF RequestStop
<1>5. ASSUME NEW r \in Run, NEW s \in Stage, ToolLoads(r, s) PROVE Doomed(q)'
  BY <1>5 DEF ToolLoads
<1>6. ASSUME NEW r \in Run, NEW s \in Stage, ToolExits(r, s) PROVE Doomed(q)'
  BY <1>6 DEF ToolExits
<1>7. CASE Crash
  BY <1>7 DEF Crash, Active
<1>8. CASE Finished
  BY <1>8 DEF Finished
<1>9. CASE UNCHANGED vars
  BY <1>9
<1>10. QED
  BY <1>1, <1>2, <1>3, <1>4, <1>5, <1>6, <1>7, <1>8, <1>9 DEF Next

\* Once a stop was requested before the last look at the stop flag, the run
\* never returns a summary as a success.
THEOREM StoppedRunNeverSucceeds == Spec => StopPreventsSuccess
<1>1. ASSUME NEW r \in Run
      PROVE  Spec => [](stopRequested[r] /\ BeforeLastCheck(r) => [](pc[r] # "returned"))
  <2>1. stopRequested[r] /\ BeforeLastCheck(r) => Doomed(r)
    BY DEF Doomed
  <2>2. Doomed(r) => pc[r] # "returned"
    BY DEF Doomed, BeforeLastCheck, Ended
  <2>3. TypeOK /\ VerdictInv /\ [Next]_vars /\ Doomed(r) => Doomed(r)'
    BY DoomedStep
  <2>4. QED
    BY <2>1, <2>2, <2>3, TypeCorrect, VerdictInvariant, PTL DEF Spec
<1>2. QED
  BY <1>1 DEF StopPreventsSuccess

-----------------------------------------------------------------------------
(* Analysis implements RunContract: every step of a worker, of a tool or of *)
(* a stop request is a step of the contract or leaves its state alone.      *)

\* The abstract phases that Phase computes, and which of them are active.
LEMMA PhaseActive ==
    ASSUME NEW r \in Run
    PROVE  /\ Contract!Active(r) <=> Active(r)
           /\ [q \in Run |-> Phase(q)][r] = Phase(r)
BY DEF Phase, Active, Ended, Contract!Active

\* A step that moves one run only, from one phase to another.
LEMMA PhaseMoves ==
    ASSUME NEW r \in Run, NEW p, Phase(r)' = p,
           \A q \in Run \ {r} : Phase(q)' = Phase(q)
    PROVE  [q \in Run |-> Phase(q)]' = [[q \in Run |-> Phase(q)] EXCEPT ![r] = p]
OBVIOUS

\* A step that moves no run and requests no stop is invisible to the contract.
LEMMA PhaseKept ==
    ASSUME \A q \in Run : Phase(q)' = Phase(q), UNCHANGED stopRequested
    PROVE  UNCHANGED Contract!vars
BY DEF Contract!vars

\* A run's phase depends on its worker's state only.
LEMMA PhaseStable ==
    ASSUME NEW q \in Run, pc'[q] = pc[q], stage'[q] = stage[q], verdict'[q] = verdict[q]
    PROVE  Phase(q)' = Phase(q)
BY DEF Phase, Active, Committed

\* What a step of one run r does to the contract's state, by where it leaves r.
LEMMA OneRunSimulated ==
    ASSUME NEW r \in Run, UNCHANGED stopRequested,
           \A q \in Run \ {r} : Phase(q)' = Phase(q),
           \/ Phase(r)' = Phase(r)
           \/ Phase(r) = "running" /\ ~stopRequested[r] /\ Phase(r)' = "committed"
           \/ Phase(r) = "committed" /\ Phase(r)' = "ok"
           \/ Phase(r) \in {"running", "committed"} /\ Phase(r)' = "failed"
    PROVE  [Contract!Next]_Contract!vars
<1> DEFINE ph == [q \in Run |-> Phase(q)]
<1>1. CASE Phase(r)' = Phase(r)
  BY <1>1, PhaseKept
<1>2. CASE Phase(r) = "running" /\ ~stopRequested[r] /\ Phase(r)' = "committed"
  <2>1. ph' = [ph EXCEPT ![r] = "committed"]
    BY <1>2, PhaseMoves
  <2>2. Contract!Commit(r)
    BY <1>2, <2>1 DEF Contract!Commit
  <2>3. QED BY <2>2 DEF Contract!Next
<1>3. CASE Phase(r) = "committed" /\ Phase(r)' = "ok"
  <2>1. ph' = [ph EXCEPT ![r] = "ok"]
    BY <1>3, PhaseMoves
  <2>2. Contract!Succeed(r)
    BY <1>3, <2>1 DEF Contract!Succeed
  <2>3. QED BY <2>2 DEF Contract!Next
<1>4. CASE Phase(r) \in {"running", "committed"} /\ Phase(r)' = "failed"
  <2>1. ph' = [ph EXCEPT ![r] = "failed"]
    BY <1>4, PhaseMoves
  <2>2. Contract!Fail(r)
    BY <1>4, <2>1 DEF Contract!Fail, Contract!Active
  <2>3. QED BY <2>2 DEF Contract!Next
<1>5. QED
  BY <1>1, <1>2, <1>3, <1>4

\* The phases a step of a worker can take its run from and to.
PhaseStep(r) ==
    \/ Phase(r)' = Phase(r)
    \/ Phase(r) = "running" /\ ~stopRequested[r] /\ Phase(r)' = "committed"
    \/ Phase(r) = "committed" /\ Phase(r)' = "ok"
    \/ Phase(r) \in {"running", "committed"} /\ Phase(r)' = "failed"

LEMMA WorkerStaysAlone ==
    ASSUME TypeOK, NEW r \in Run, WorkerStep(r)
    PROVE  /\ UNCHANGED stopRequested
           /\ \A q \in Run \ {r} : pc'[q] = pc[q] /\ stage'[q] = stage[q] /\ verdict'[q] = verdict[q]
<1> USE DEF TypeOK, Goto
<1>1. CASE RejectInputs(r) BY <1>1 DEF RejectInputs
<1>2. CASE WriteConstraints(r) BY <1>2 DEF WriteConstraints
<1>3. CASE WriteScript(r) BY <1>3 DEF WriteScript
<1>4. CASE OpenMirror(r) BY <1>4 DEF OpenMirror
<1>5. CASE Launch(r) BY <1>5 DEF Launch
<1>6. CASE LaunchFails(r) BY <1>6 DEF LaunchFails
<1>6a. CASE FileFails(r) BY <1>6a DEF FileFails
<1>7. CASE Attach(r) BY <1>7 DEF Attach
<1>8. CASE StreamEnds(r) BY <1>8 DEF StreamEnds
<1>9. CASE StreamFails(r) BY <1>9 DEF StreamFails
<1>10. CASE Detach(r) BY <1>10 DEF Detach
<1>11. CASE CheckStop(r) BY <1>11 DEF CheckStop, StopCheck
<1>12. CASE JudgeYosys(r) BY <1>12 DEF JudgeYosys
<1>13. CASE JudgeSta(r) BY <1>13 DEF JudgeSta
<1>14. CASE Summarise(r) BY <1>14 DEF Summarise
<1>15. CASE SaveSummary(r) BY <1>15 DEF SaveSummary
<1>16. QED
  BY <1>1, <1>2, <1>3, <1>4, <1>5, <1>6, <1>7, <1>8,
     <1>9, <1>10, <1>11, <1>12, <1>13, <1>14, <1>15, <1>6a DEF WorkerStep

LEMMA WorkerPhaseStep ==
    ASSUME TypeOK, VerdictInv, NEW r \in Run, WorkerStep(r)
    PROVE  PhaseStep(r)
<1> USE DEF TypeOK, VerdictInv, Goto, PhaseStep, Phase, Active, Committed, Ended, PcLabel, Stage
<1>1. CASE RejectInputs(r) BY <1>1 DEF RejectInputs
<1>2. CASE WriteConstraints(r) BY <1>2 DEF WriteConstraints
<1>3. CASE WriteScript(r) BY <1>3 DEF WriteScript
<1>4. CASE OpenMirror(r) BY <1>4 DEF OpenMirror
<1>5. CASE Launch(r) BY <1>5 DEF Launch
<1>6. CASE LaunchFails(r) BY <1>6 DEF LaunchFails
<1>6a. CASE FileFails(r) BY <1>6a DEF FileFails
<1>7. CASE Attach(r) BY <1>7 DEF Attach
<1>8. CASE StreamEnds(r) BY <1>8 DEF StreamEnds
<1>9. CASE StreamFails(r) BY <1>9 DEF StreamFails
<1>10. CASE Detach(r) BY <1>10 DEF Detach
<1>11. CASE CheckStop(r) BY <1>11 DEF CheckStop, StopCheck
<1>12. CASE JudgeYosys(r) BY <1>12 DEF JudgeYosys
<1>13. CASE JudgeSta(r) BY <1>13 DEF JudgeSta
<1>14. CASE Summarise(r) BY <1>14 DEF Summarise
<1>15. CASE SaveSummary(r) BY <1>15 DEF SaveSummary
<1>16. QED
  BY <1>1, <1>2, <1>3, <1>4, <1>5, <1>6, <1>7, <1>8,
     <1>9, <1>10, <1>11, <1>12, <1>13, <1>14, <1>15, <1>6a DEF WorkerStep

LEMMA WorkerSimulated ==
    ASSUME TypeOK, VerdictInv, NEW r \in Run, WorkerStep(r)
    PROVE  [Contract!Next]_Contract!vars
<1>1. UNCHANGED stopRequested /\ \A q \in Run \ {r} : Phase(q)' = Phase(q)
  BY WorkerStaysAlone, PhaseStable
<1>2. QED
  BY <1>1, WorkerPhaseStep, OneRunSimulated DEF PhaseStep

LEMMA StepSimulated ==
    TypeOK /\ VerdictInv /\ [Next]_vars => [Contract!Next]_Contract!vars
<1> SUFFICES ASSUME TypeOK, VerdictInv, [Next]_vars PROVE [Contract!Next]_Contract!vars
  OBVIOUS
<1>1. ASSUME NEW r \in Run, StartRun(r) PROVE [Contract!Next]_Contract!vars
  <2> DEFINE ph == [q \in Run |-> Phase(q)]
  <2>1. Phase(r) = "idle" /\ Phase(r)' = "running" /\ UNCHANGED stopRequested
    BY <1>1 DEF StartRun, TypeOK, Goto, Phase, Active, Committed, Ended
  <2>2. \A q \in Run \ {r} : Phase(q)' = Phase(q)
    BY <1>1, PhaseStable DEF StartRun, TypeOK, Goto
  <2>3. ph' = [ph EXCEPT ![r] = "running"]
    BY <2>1, <2>2, PhaseMoves
  <2>4. Overlap \/ \A q \in Run : ~Contract!Active(q)
    BY <1>1, PhaseActive DEF StartRun
  <2>5. Contract!Start(r)
    BY <2>1, <2>3, <2>4 DEF Contract!Start
  <2>6. QED BY <2>5 DEF Contract!Next
<1>2. ASSUME NEW r \in Run, WorkerStep(r) PROVE [Contract!Next]_Contract!vars
  BY <1>2, WorkerSimulated
<1>3. ASSUME NEW r \in Run, RequestStop(r) PROVE [Contract!Next]_Contract!vars
  <2>1. \A q \in Run : Phase(q)' = Phase(q)
    BY <1>3, PhaseStable DEF RequestStop
  <2>2. [q \in Run |-> Phase(q)][r] # "lost"
    BY <1>3 DEF RequestStop, Phase, Active, Ended
  <2>3. stopRequested' = [stopRequested EXCEPT ![r] = TRUE]
    BY <1>3 DEF RequestStop
  <2>4. UNCHANGED [q \in Run |-> Phase(q)]
    BY <2>1
  <2>5. Contract!RequestStop(r)
    BY <2>2, <2>3, <2>4 DEF Contract!RequestStop
  <2>6. QED BY <2>5 DEF Contract!Next
<1>4. CASE Crash
  <2>1. \A q \in Run : Phase(q)' = IF Contract!Active(q) THEN "lost" ELSE Phase(q)
    BY <1>4, PhaseActive DEF Crash, Phase, Active, Committed, Ended, TypeOK
  <2>2. Contract!Lose
    BY <1>4, <2>1 DEF Crash, Contract!Lose
  <2>3. QED BY <2>2 DEF Contract!Next
<1>5. ASSUME UNCHANGED worker, UNCHANGED stopRequested PROVE [Contract!Next]_Contract!vars
  <2>1. \A q \in Run : Phase(q)' = Phase(q)
    BY <1>5, PhaseStable
  <2>2. QED BY <1>5, <2>1, PhaseKept
<1>6. ASSUME NEW r \in Run, MirrorErrorLine(r) PROVE [Contract!Next]_Contract!vars
  <2>1. UNCHANGED worker /\ UNCHANGED stopRequested
    BY <1>6 DEF MirrorErrorLine
  <2>2. QED BY <2>1, <1>5
<1>7. ASSUME NEW r \in Run, NEW s \in Stage, ToolLoads(r, s) \/ ToolExits(r, s)
      PROVE  [Contract!Next]_Contract!vars
  <2>1. UNCHANGED worker /\ UNCHANGED stopRequested
    BY <1>7 DEF ToolLoads, ToolExits
  <2>2. QED BY <2>1, <1>5
<1>8. CASE Finished \/ UNCHANGED vars
  <2>1. UNCHANGED worker /\ UNCHANGED stopRequested
    BY <1>8 DEF Finished
  <2>2. QED BY <2>1, <1>5
<1>9. QED
  BY <1>1, <1>2, <1>3, <1>4, <1>6, <1>7, <1>8 DEF Next

\* analyze() under its ProcessController implements the safety part of the
\* contract that the job managers are built on, for any number of runs.
THEOREM AnalysisImplementsContract == Spec => Contract!Spec
<1>1. Init => Contract!Init
  BY DEF Init, Contract!Init, Phase, Active, Ended
<1>2. QED
  BY <1>1, StepSimulated, TypeCorrect, VerdictInvariant, PTL DEF Spec, Contract!Spec

-----------------------------------------------------------------------------
(* Tools do not outlive their run. *)

\* The faults under which a tool can be left behind do not happen.
NoneLeft == Faults \cap {"stream", "crash"} = {}

\* A live tool is the one its worker is at, between Popen and wait.
Tracked ==
    \A r \in Run, s \in Stage :
        Alive(r, s) => stage[r] = s /\ pc[r] \in {"attach", "stream"}

LEMMA TrackedStep ==
    ASSUME TypeOK, NoneLeft, Tracked, [Next]_vars
    PROVE  Tracked'
<1> USE DEF NoneLeft, Tracked, TypeOK, Goto, Alive, Stage
<1>1. ASSUME NEW r \in Run, StartRun(r) PROVE Tracked'
  BY <1>1 DEF StartRun
<1>2. ASSUME NEW r \in Run, WorkerStep(r) PROVE Tracked'
  <2>1. CASE RejectInputs(r) BY <2>1 DEF RejectInputs
  <2>2. CASE WriteConstraints(r) BY <2>2 DEF WriteConstraints
  <2>3. CASE WriteScript(r) BY <2>3 DEF WriteScript
  <2>4. CASE OpenMirror(r) BY <2>4 DEF OpenMirror
  <2>5. CASE Launch(r) BY <2>5 DEF Launch
  <2>6. CASE LaunchFails(r) BY <2>6 DEF LaunchFails
  <2>6a. CASE FileFails(r) BY <2>6a DEF FileFails
  <2>7. CASE Attach(r) BY <2>7 DEF Attach
  <2>8. CASE StreamEnds(r) BY <2>8 DEF StreamEnds
  <2>9. CASE StreamFails(r) BY <2>9 DEF StreamFails
  <2>10. CASE Detach(r) BY <2>10 DEF Detach
  <2>11. CASE CheckStop(r) BY <2>11 DEF CheckStop, StopCheck
  <2>12. CASE JudgeYosys(r) BY <2>12, ZenonT(60) DEF JudgeYosys
  <2>13. CASE JudgeSta(r) BY <2>13, ZenonT(60) DEF JudgeSta
  <2>14. CASE Summarise(r) BY <2>14 DEF Summarise
  <2>15. CASE SaveSummary(r) BY <2>15 DEF SaveSummary
  <2>16. QED
    BY <1>2, <2>1, <2>2, <2>3, <2>4, <2>5, <2>6, <2>7, <2>8,
       <2>9, <2>10, <2>11, <2>12, <2>13, <2>14, <2>15, <2>6a DEF WorkerStep
<1>3. ASSUME NEW r \in Run, MirrorErrorLine(r) \/ RequestStop(r) PROVE Tracked'
  BY <1>3 DEF MirrorErrorLine, RequestStop
<1>4. ASSUME NEW r \in Run, NEW s \in Stage, ToolLoads(r, s) PROVE Tracked'
  BY <1>4 DEF ToolLoads
<1>5. ASSUME NEW r \in Run, NEW s \in Stage, ToolExits(r, s) PROVE Tracked'
  BY <1>5 DEF ToolExits
<1>6. CASE Crash
  BY <1>6 DEF Crash
<1>7. CASE Finished \/ UNCHANGED vars
  BY <1>7 DEF Finished
<1>8. QED
  BY <1>1, <1>2, <1>3, <1>4, <1>5, <1>6, <1>7 DEF Next

\* Without a stream error or a crash, no run leaves a tool process behind.
THEOREM NoToolOutlivesItsRun == ASSUME NoneLeft PROVE Spec => []NoOrphan
<1>1. Init => Tracked
  BY DEF Init, Tracked, Alive, Stage
<1>2. Tracked => NoOrphan
  BY DEF Tracked, NoOrphan, Ended
<1>3. TypeOK /\ Tracked /\ [Next]_vars => Tracked'
  BY TrackedStep
<1>4. QED
  BY <1>1, <1>2, <1>3, TypeCorrect, PTL DEF Spec

-----------------------------------------------------------------------------
(* Runs that do not overlap. *)

\* Nothing but Popen and operations on files fail, and the runs take turns.
TakeTurns == ~Overlap /\ Faults \subseteq {"launch", "files"}

OneActive == \A q, r \in Run : Active(q) /\ Active(r) => q = r

\* A tool is launched at most once, and none before its stage.
Fresh(r) ==
    /\ pc[r] \in {"idle", "inputs"} => stage[r] = "yosys"
    /\ stage[r] = "yosys" => tool[r]["sta"] = "none" /\ "sta" \notin clean[r]
    /\ pc[r] \in {"idle", "inputs", "script", "mirror", "launch"} =>
           tool[r][stage[r]] = "none" /\ stage[r] \notin clean[r]

\* The inputs an active run has written are still its own.
WroteOwn(r) ==
    Active(r) =>
        /\ pc[r] # "inputs" => disk["constraints.sdc"] = r
        /\ stage[r] = "sta" \/ pc[r] \notin {"inputs", "script"} => disk["synth.ys"] = r
        /\ stage[r] = "sta" /\ pc[r] # "script" => disk["opensta.tcl"] = r

\* A tool that has loaded its inputs, or ended well, read the run's own.
ReadOwn(r) ==
    /\ tool[r]["yosys"] = "loaded" \/ "yosys" \in clean[r] => saw[r]["synth.ys"] = r
    /\ tool[r]["sta"] = "loaded" \/ "sta" \in clean[r] =>
           \A f \in Inputs \ {"synth.ys"} : saw[r][f] = r

\* A tool that ended well has left the run's own outputs.
ProducedOwn(r) ==
    /\ Active(r) /\ stage[r] = "sta" => "yosys" \in clean[r]
    /\ Active(r) /\ "yosys" \in clean[r] => disk["synth.v"] = r
    /\ Active(r) /\ "sta" \in clean[r] => \A f \in Reports : disk[f] = r
    /\ verdict[r] = "ok" => {"yosys", "sta"} \subseteq clean[r]

ResultOwn(r) ==
    verdict[r] = "ok" /\ pc[r] \in {"save", "returned"} =>
        \A f \in Reports : result[r].numbers[f] = r

Own(r) ==
    Fresh(r) /\ WroteOwn(r) /\ ReadOwn(r) /\ ProducedOwn(r) /\ ResultOwn(r)

OwnInv == OneActive /\ \A r \in Run : Own(r)

LEMMA OneActiveStep ==
    ASSUME TypeOK, TakeTurns, OneActive, [Next]_vars
    PROVE  OneActive'
<1> USE DEF TakeTurns, OneActive, TypeOK, Goto, Active, Ended
<1>1. ASSUME NEW r \in Run, StartRun(r) PROVE OneActive'
  BY <1>1 DEF StartRun
<1>2. ASSUME NEW r \in Run, WorkerStep(r) PROVE OneActive'
  <2>1. CASE RejectInputs(r) BY <2>1 DEF RejectInputs
  <2>2. CASE WriteConstraints(r) BY <2>2 DEF WriteConstraints
  <2>3. CASE WriteScript(r) BY <2>3 DEF WriteScript
  <2>4. CASE OpenMirror(r) BY <2>4 DEF OpenMirror
  <2>5. CASE Launch(r) BY <2>5 DEF Launch
  <2>6. CASE LaunchFails(r) BY <2>6 DEF LaunchFails
  <2>6a. CASE FileFails(r) BY <2>6a DEF FileFails
  <2>7. CASE Attach(r) BY <2>7 DEF Attach
  <2>8. CASE StreamEnds(r) BY <2>8 DEF StreamEnds
  <2>9. CASE StreamFails(r) BY <2>9 DEF StreamFails
  <2>10. CASE Detach(r) BY <2>10 DEF Detach
  <2>11. CASE CheckStop(r) BY <2>11 DEF CheckStop, StopCheck
  <2>12. CASE JudgeYosys(r) BY <2>12, ZenonT(60) DEF JudgeYosys
  <2>13. CASE JudgeSta(r) BY <2>13, ZenonT(60) DEF JudgeSta
  <2>14. CASE Summarise(r) BY <2>14 DEF Summarise
  <2>15. CASE SaveSummary(r) BY <2>15 DEF SaveSummary
  <2>16. QED
    BY <1>2, <2>1, <2>2, <2>3, <2>4, <2>5, <2>6, <2>7, <2>8,
       <2>9, <2>10, <2>11, <2>12, <2>13, <2>14, <2>15, <2>6a DEF WorkerStep
<1>3. ASSUME NEW r \in Run, MirrorErrorLine(r) \/ RequestStop(r) PROVE OneActive'
  BY <1>3 DEF MirrorErrorLine, RequestStop
<1>4. ASSUME NEW r \in Run, NEW s \in Stage, ToolLoads(r, s) PROVE OneActive'
  BY <1>4 DEF ToolLoads
<1>5. ASSUME NEW r \in Run, NEW s \in Stage, ToolExits(r, s) PROVE OneActive'
  BY <1>5 DEF ToolExits
<1>6. CASE Crash
  BY <1>6 DEF Crash
<1>7. CASE Finished \/ UNCHANGED vars
  BY <1>7 DEF Finished
<1>8. QED
  BY <1>1, <1>2, <1>3, <1>4, <1>5, <1>6, <1>7 DEF Next

\* What another run's step leaves alone.
Kept(q) ==
    /\ pc'[q] = pc[q] /\ stage'[q] = stage[q] /\ verdict'[q] = verdict[q]
    /\ result'[q] = result[q] /\ tool'[q] = tool[q] /\ clean'[q] = clean[q]
    /\ saw'[q] = saw[q]

LEMMA KeptOwn == ASSUME NEW q \in Run, Own(q), ~Active(q), Kept(q) PROVE Own(q)'
BY DEF Own, Fresh, WroteOwn, ReadOwn, ProducedOwn, ResultOwn, Kept, Active

LEMMA WorkerKeepsOthers ==
    ASSUME TypeOK, NEW r \in Run, WorkerStep(r), NEW q \in Run, q # r
    PROVE  Active(r) /\ Kept(q)
<1> USE DEF TypeOK, Goto, Kept, Active, Ended
<1>1. CASE RejectInputs(r) BY <1>1 DEF RejectInputs
<1>2. CASE WriteConstraints(r) BY <1>2 DEF WriteConstraints
<1>3. CASE WriteScript(r) BY <1>3 DEF WriteScript
<1>4. CASE OpenMirror(r) BY <1>4 DEF OpenMirror
<1>5. CASE Launch(r) BY <1>5 DEF Launch
<1>6. CASE LaunchFails(r) BY <1>6 DEF LaunchFails
<1>6a. CASE FileFails(r) BY <1>6a DEF FileFails
<1>7. CASE Attach(r) BY <1>7 DEF Attach
<1>8. CASE StreamEnds(r) BY <1>8 DEF StreamEnds
<1>9. CASE StreamFails(r) BY <1>9 DEF StreamFails
<1>10. CASE Detach(r) BY <1>10 DEF Detach
<1>11. CASE CheckStop(r) BY <1>11 DEF CheckStop, StopCheck
<1>12. CASE JudgeYosys(r) BY <1>12 DEF JudgeYosys
<1>13. CASE JudgeSta(r) BY <1>13 DEF JudgeSta
<1>14. CASE Summarise(r) BY <1>14 DEF Summarise
<1>15. CASE SaveSummary(r) BY <1>15 DEF SaveSummary
<1>16. QED
  BY <1>1, <1>2, <1>3, <1>4, <1>5, <1>6, <1>7, <1>8,
     <1>9, <1>10, <1>11, <1>12, <1>13, <1>14, <1>15, <1>6a DEF WorkerStep

LEMMA WorkerFresh ==
    ASSUME TypeOK, TakeTurns, VerdictInv, NEW r \in Run, Own(r), Tracked, WorkerStep(r)
    PROVE  Fresh(r)'
<1> USE DEF TakeTurns, Own, Fresh, TypeOK, Goto, Stage, Tracked, Alive
<1>1. CASE RejectInputs(r) BY <1>1 DEF RejectInputs
<1>2. CASE WriteConstraints(r) BY <1>2 DEF WriteConstraints
<1>3. CASE WriteScript(r) BY <1>3 DEF WriteScript
<1>4. CASE OpenMirror(r) BY <1>4 DEF OpenMirror
<1>5. CASE Launch(r) BY <1>5 DEF Launch
<1>6. CASE LaunchFails(r) BY <1>6 DEF LaunchFails
<1>6a. CASE FileFails(r) BY <1>6a DEF FileFails
<1>7. CASE Attach(r) BY <1>7 DEF Attach
<1>8. CASE StreamEnds(r) BY <1>8 DEF StreamEnds
<1>9. CASE StreamFails(r) BY <1>9 DEF StreamFails
<1>10. CASE Detach(r) BY <1>10 DEF Detach
<1>11. CASE CheckStop(r) BY <1>11 DEF CheckStop, StopCheck
<1>12. CASE JudgeYosys(r) BY <1>12 DEF JudgeYosys
<1>13. CASE JudgeSta(r) BY <1>13 DEF JudgeSta
<1>14. CASE Summarise(r) BY <1>14 DEF Summarise
<1>15. CASE SaveSummary(r) BY <1>15 DEF SaveSummary
<1>16. QED
  BY <1>1, <1>2, <1>3, <1>4, <1>5, <1>6, <1>7, <1>8,
     <1>9, <1>10, <1>11, <1>12, <1>13, <1>14, <1>15, <1>6a DEF WorkerStep

LEMMA WorkerWroteOwn ==
    ASSUME TypeOK, TakeTurns, VerdictInv, NEW r \in Run, Own(r), Tracked, WorkerStep(r)
    PROVE  WroteOwn(r)'
<1> USE DEF TakeTurns, Own, WroteOwn, TypeOK, Goto, Stage, Fresh, Active, Ended, Write, Script, File, Inputs
<1>1. CASE RejectInputs(r) BY <1>1 DEF RejectInputs
<1>2. CASE WriteConstraints(r) BY <1>2 DEF WriteConstraints
<1>3. CASE WriteScript(r) BY <1>3 DEF WriteScript
<1>4. CASE OpenMirror(r) BY <1>4 DEF OpenMirror
<1>5. CASE Launch(r) BY <1>5 DEF Launch
<1>6. CASE LaunchFails(r) BY <1>6 DEF LaunchFails
<1>6a. CASE FileFails(r) BY <1>6a DEF FileFails
<1>7. CASE Attach(r) BY <1>7 DEF Attach
<1>8. CASE StreamEnds(r) BY <1>8 DEF StreamEnds
<1>9. CASE StreamFails(r) BY <1>9 DEF StreamFails
<1>10. CASE Detach(r) BY <1>10 DEF Detach
<1>11. CASE CheckStop(r) BY <1>11 DEF CheckStop, StopCheck
<1>12. CASE JudgeYosys(r) BY <1>12 DEF JudgeYosys
<1>13. CASE JudgeSta(r) BY <1>13 DEF JudgeSta
<1>14. CASE Summarise(r) BY <1>14 DEF Summarise
<1>15. CASE SaveSummary(r) BY <1>15 DEF SaveSummary
<1>16. QED
  BY <1>1, <1>2, <1>3, <1>4, <1>5, <1>6, <1>7, <1>8,
     <1>9, <1>10, <1>11, <1>12, <1>13, <1>14, <1>15, <1>6a DEF WorkerStep

LEMMA WorkerReadOwn ==
    ASSUME TypeOK, TakeTurns, VerdictInv, NEW r \in Run, Own(r), Tracked, WorkerStep(r)
    PROVE  ReadOwn(r)'
<1> USE DEF TakeTurns, Own, ReadOwn, TypeOK, Goto, Stage, Active
<1>1. CASE RejectInputs(r) BY <1>1 DEF RejectInputs
<1>2. CASE WriteConstraints(r) BY <1>2 DEF WriteConstraints
<1>3. CASE WriteScript(r) BY <1>3 DEF WriteScript
<1>4. CASE OpenMirror(r) BY <1>4 DEF OpenMirror
<1>5. CASE Launch(r) BY <1>5 DEF Launch
<1>6. CASE LaunchFails(r) BY <1>6 DEF LaunchFails
<1>6a. CASE FileFails(r) BY <1>6a DEF FileFails
<1>7. CASE Attach(r) BY <1>7 DEF Attach
<1>8. CASE StreamEnds(r) BY <1>8 DEF StreamEnds
<1>9. CASE StreamFails(r) BY <1>9 DEF StreamFails
<1>10. CASE Detach(r) BY <1>10 DEF Detach
<1>11. CASE CheckStop(r) BY <1>11 DEF CheckStop, StopCheck
<1>12. CASE JudgeYosys(r) BY <1>12 DEF JudgeYosys
<1>13. CASE JudgeSta(r) BY <1>13 DEF JudgeSta
<1>14. CASE Summarise(r) BY <1>14 DEF Summarise
<1>15. CASE SaveSummary(r) BY <1>15 DEF SaveSummary
<1>16. QED
  BY <1>1, <1>2, <1>3, <1>4, <1>5, <1>6, <1>7, <1>8,
     <1>9, <1>10, <1>11, <1>12, <1>13, <1>14, <1>15, <1>6a DEF WorkerStep

LEMMA WorkerProducedOwn ==
    ASSUME TypeOK, TakeTurns, VerdictInv, NEW r \in Run, Own(r), Tracked, WorkerStep(r)
    PROVE  ProducedOwn(r)'
<1> USE DEF TakeTurns, Own, ProducedOwn, TypeOK, Goto, Stage, Fresh, VerdictInv, Active, Ended, Write, Script, File, Inputs, Reports
<1>1. CASE RejectInputs(r) BY <1>1 DEF RejectInputs
<1>2. CASE WriteConstraints(r) BY <1>2 DEF WriteConstraints
<1>3. CASE WriteScript(r) BY <1>3 DEF WriteScript
<1>4. CASE OpenMirror(r) BY <1>4 DEF OpenMirror
<1>5. CASE Launch(r) BY <1>5 DEF Launch
<1>6. CASE LaunchFails(r) BY <1>6 DEF LaunchFails
<1>6a. CASE FileFails(r) BY <1>6a DEF FileFails
<1>7. CASE Attach(r) BY <1>7 DEF Attach
<1>8. CASE StreamEnds(r) BY <1>8 DEF StreamEnds
<1>9. CASE StreamFails(r) BY <1>9 DEF StreamFails
<1>10. CASE Detach(r) BY <1>10 DEF Detach
<1>11. CASE CheckStop(r) BY <1>11 DEF CheckStop, StopCheck
<1>12. CASE JudgeYosys(r) BY <1>12 DEF JudgeYosys
<1>13. CASE JudgeSta(r) BY <1>13 DEF JudgeSta
<1>14. CASE Summarise(r) BY <1>14 DEF Summarise
<1>15. CASE SaveSummary(r) BY <1>15 DEF SaveSummary
<1>16. QED
  BY <1>1, <1>2, <1>3, <1>4, <1>5, <1>6, <1>7, <1>8,
     <1>9, <1>10, <1>11, <1>12, <1>13, <1>14, <1>15, <1>6a DEF WorkerStep

LEMMA WorkerResultOwn ==
    ASSUME TypeOK, TakeTurns, VerdictInv, NEW r \in Run, Own(r), Tracked, WorkerStep(r)
    PROVE  ResultOwn(r)'
<1> USE DEF TakeTurns, Own, ResultOwn, TypeOK, Goto, Stage, ProducedOwn, VerdictInv, Active, Ended, File, Reports
<1>1. CASE RejectInputs(r) BY <1>1 DEF RejectInputs
<1>2. CASE WriteConstraints(r) BY <1>2 DEF WriteConstraints
<1>3. CASE WriteScript(r) BY <1>3 DEF WriteScript
<1>4. CASE OpenMirror(r) BY <1>4 DEF OpenMirror
<1>5. CASE Launch(r) BY <1>5 DEF Launch
<1>6. CASE LaunchFails(r) BY <1>6 DEF LaunchFails
<1>6a. CASE FileFails(r) BY <1>6a DEF FileFails
<1>7. CASE Attach(r) BY <1>7 DEF Attach
<1>8. CASE StreamEnds(r) BY <1>8 DEF StreamEnds
<1>9. CASE StreamFails(r) BY <1>9 DEF StreamFails
<1>10. CASE Detach(r) BY <1>10 DEF Detach
<1>11. CASE CheckStop(r) BY <1>11 DEF CheckStop, StopCheck
<1>12. CASE JudgeYosys(r) BY <1>12 DEF JudgeYosys
<1>13. CASE JudgeSta(r) BY <1>13 DEF JudgeSta
<1>14. CASE Summarise(r) BY <1>14 DEF Summarise
<1>15. CASE SaveSummary(r) BY <1>15 DEF SaveSummary
<1>16. QED
  BY <1>1, <1>2, <1>3, <1>4, <1>5, <1>6, <1>7, <1>8,
     <1>9, <1>10, <1>11, <1>12, <1>13, <1>14, <1>15, <1>6a DEF WorkerStep

LEMMA LoadsOwn ==
    ASSUME TypeOK, NEW r \in Run, Own(r), Tracked, NEW s \in Stage, ToolLoads(r, s)
    PROVE  Own(r)'
<1> USE DEF TypeOK, Stage
<1>1. stage[r] = s /\ pc[r] \in {"attach", "stream"}
  BY DEF ToolLoads, Tracked, Alive
<1>2. /\ UNCHANGED <<worker, clean, disk>>
      /\ tool' = [tool EXCEPT ![r][s] = "loaded"]
      /\ saw' = [saw EXCEPT ![r] = [f \in Inputs |-> IF f \in Reads(s) THEN disk[f] ELSE @[f]]]
  BY DEF ToolLoads
<1>3. (Fresh(r) /\ WroteOwn(r) /\ ProducedOwn(r) /\ ResultOwn(r))'
  BY <1>1, <1>2 DEF Own, Fresh, WroteOwn, ProducedOwn, ResultOwn, Active
<1>4. ReadOwn(r)'
  <2>1. \A f \in Reads(s) : disk[f] = r
    BY <1>1 DEF Own, WroteOwn, ProducedOwn, Active, Ended, Reads, Inputs
  <2>2. \A f \in Inputs : saw'[r][f] = IF f \in Reads(s) THEN r ELSE saw[r][f]
    BY <1>2, <2>1
  <2>3. \A t \in Stage : t # s => tool'[r][t] = tool[r][t]
    BY <1>2
  <2>4. CASE s = "yosys"
    BY <1>1, <1>2, <2>2, <2>3, <2>4 DEF Own, ReadOwn, Reads, Inputs
  <2>5. CASE s = "sta"
    BY <1>1, <1>2, <2>2, <2>3, <2>5 DEF Own, ReadOwn, Reads, Inputs
  <2>6. QED BY <2>4, <2>5
<1>5. QED BY <1>3, <1>4 DEF Own

LEMMA ExitsOwn ==
    ASSUME TypeOK, TakeTurns, NEW r \in Run, Own(r), Tracked, NEW s \in Stage, ToolExits(r, s)
    PROVE  Own(r)'
<1> USE DEF TypeOK, Stage
<1>1. stage[r] = s /\ pc[r] \in {"attach", "stream"}
  BY DEF ToolExits, Tracked
<1>2. UNCHANGED <<worker, saw>> /\ tool' = [tool EXCEPT ![r][s] = "exited"]
  BY DEF ToolExits
<1>3. PICK F \in SUBSET Outputs(s), ok \in BOOLEAN :
          /\ ok => tool[r][s] = "loaded" /\ F = Outputs(s)
          /\ clean' = [clean EXCEPT ![r] = IF ok THEN @ \cup {s} ELSE @]
          /\ Write(r, F)
  BY DEF ToolExits, TakeTurns
<1>4. \A f \in File : disk'[f] = IF f \in F THEN r ELSE disk[f]
  BY <1>3 DEF Write
<1>5. clean'[r] = IF ok THEN clean[r] \cup {s} ELSE clean[r]
  BY <1>3
<1>6. tool'[r][s] = "exited" /\ \A t \in Stage : t # s => tool'[r][t] = tool[r][t]
  BY <1>2
<1>7. Fresh(r)'
  BY <1>1, <1>2, <1>5, <1>6 DEF Own, Fresh
<1>8. WroteOwn(r)'
  BY <1>1, <1>2, <1>4 DEF Own, WroteOwn, Active, Ended, File, Inputs
<1>9. ReadOwn(r)'
  BY <1>2, <1>3, <1>5, <1>6 DEF Own, ReadOwn
<1>10. ProducedOwn(r)'
  <2>1. Active(r)' /\ Active(r)
    BY <1>1, <1>2 DEF Active, Ended
  <2>2. \A f \in Outputs(s) : ok => disk'[f] = r
    BY <1>3, <1>4 DEF Outputs, File, Inputs
  <2>3. "synth.v" \in File /\ Reports \subseteq File
    BY DEF File, Inputs
  <2>4. CASE s = "yosys"
    BY <1>1, <1>2, <1>4, <1>5, <2>1, <2>2, <2>3, <2>4 DEF Own, ProducedOwn, Fresh, Outputs
  <2>5. CASE s = "sta"
    BY <1>1, <1>2, <1>4, <1>5, <2>1, <2>2, <2>3, <2>5, ZenonT(60) DEF Own, ProducedOwn, Outputs
  <2>6. QED BY <2>4, <2>5
<1>11. ResultOwn(r)'
  BY <1>2 DEF Own, ResultOwn
<1>12. QED
  BY <1>7, <1>8, <1>9, <1>10, <1>11 DEF Own

\* The steps of a run and of its tools keep what is its own; those of an
\* active run find every other one inactive.
LEMMA OwnStep ==
    ASSUME TypeOK, TakeTurns, Tracked, VerdictInv, OwnInv, [Next]_vars
    PROVE  OwnInv'
<1>1. OneActive'
  BY OneActiveStep DEF OwnInv
<1>2. ASSUME NEW r \in Run, Active(r), Own(r)', NEW q \in Run, q # r => Kept(q)
      PROVE  Own(q)'
  <2>1. CASE q # r
    <3>1. Own(q) /\ ~Active(q)
      BY <1>2, <2>1 DEF OwnInv, OneActive
    <3>2. QED BY <1>2, <2>1, <3>1, KeptOwn
  <2>2. QED BY <1>2, <2>1
<1>3. ASSUME NEW q \in Run PROVE Own(q)'
  <2>1. ASSUME NEW r \in Run, StartRun(r) PROVE Own(q)'
    <3>1. UNCHANGED <<stage, verdict, result, tool, clean, saw, disk>>
      BY <2>1 DEF StartRun
    <3>2. pc'[q] = pc[q] \/ (pc[q] = "idle" /\ pc'[q] = "inputs")
      <4>1. pc[r] = "idle" /\ pc' = [pc EXCEPT ![r] = "inputs"] /\ pc \in [Run -> PcLabel]
        BY <2>1 DEF StartRun, Goto, TypeOK
      <4>2. QED BY <4>1
    <3>3. Own(q)
      BY DEF OwnInv
    <3>4. QED
      BY <3>1, <3>2, <3>3
      DEF Own, Fresh, WroteOwn, ReadOwn, ProducedOwn, ResultOwn, VerdictInv, Active, Ended, TypeOK, Stage
  <2>2. ASSUME NEW r \in Run, WorkerStep(r) PROVE Own(q)'
    <3>1. Own(r)
      BY DEF OwnInv
    <3>2. Own(r)'
      BY <2>2, <3>1, WorkerFresh, WorkerWroteOwn, WorkerReadOwn, WorkerProducedOwn, WorkerResultOwn
      DEF Own
    <3>3. Active(r)
      BY <2>2 DEF WorkerStep, RejectInputs, WriteConstraints, WriteScript, OpenMirror, Launch,
         LaunchFails, FileFails, Attach, StreamEnds, StreamFails, Detach, CheckStop, StopCheck, JudgeYosys, JudgeSta,
         Summarise, SaveSummary, Active, Ended
    <3>4. QED BY <1>2, <2>2, <3>2, <3>3, WorkerKeepsOthers
  <2>3. ASSUME UNCHANGED <<worker, tool, clean, saw, disk>> PROVE Own(q)'
    BY <2>3 DEF OwnInv, Own, Fresh, WroteOwn, ReadOwn, ProducedOwn, ResultOwn, Active
  <2>4. ASSUME NEW r \in Run, MirrorErrorLine(r) \/ RequestStop(r) PROVE Own(q)'
    BY <2>3, <2>4 DEF MirrorErrorLine, RequestStop
  <2>5. ASSUME NEW r \in Run, NEW s \in Stage, ToolLoads(r, s) \/ ToolExits(r, s) PROVE Own(q)'
    <3>1. Own(r)'
      BY <2>5, LoadsOwn, ExitsOwn DEF OwnInv
    <3>2. Active(r)
      BY <2>5 DEF ToolLoads, ToolExits, Tracked, Alive, Active, Ended
    <3>3. q # r => Kept(q)
      BY <2>5 DEF ToolLoads, ToolExits, Kept, TypeOK
    <3>4. QED BY <1>2, <3>1, <3>2, <3>3
  <2>6. ~Crash
    BY DEF Crash, TakeTurns
  <2>7. CASE Finished \/ UNCHANGED vars
    BY <2>3, <2>7 DEF Finished
  <2>8. QED
    BY <2>1, <2>2, <2>4, <2>5, <2>6, <2>7 DEF Next
<1>4. QED
  BY <1>1, <1>3 DEF OwnInv

\* Runs that take turns in one output directory: a run that succeeds computed
\* its numbers from its own scripts, constraints, netlist and reports, whatever
\* the earlier runs left there.
THEOREM SuccessIsItsOwn == ASSUME TakeTurns PROVE Spec => []SuccessIsOwn
<1>1. Init => OwnInv /\ Tracked
  <2>1. Init => Tracked
    BY DEF Init, Tracked, Alive, Stage
  <2>2. Init => OneActive
    BY DEF Init, OneActive, Active
  <2>3. ASSUME Init, NEW r \in Run PROVE Own(r)
    BY <2>3 DEF Init, Own, Fresh, WroteOwn, ReadOwn, ProducedOwn, ResultOwn, Active, Stage
  <2>4. QED BY <2>1, <2>2, <2>3 DEF OwnInv
<1>2. TypeOK /\ VerdictInv /\ OwnInv /\ Tracked /\ [Next]_vars => (OwnInv /\ Tracked)'
  BY OwnStep, TrackedStep DEF TakeTurns, NoneLeft
<1>3. VerdictInv /\ OwnInv => SuccessIsOwn
  BY DEF VerdictInv, OwnInv, Own, ResultOwn, ProducedOwn, ReadOwn, SuccessIsOwn, Inputs
<1>4. QED
  BY <1>1, <1>2, <1>3, TypeCorrect, VerdictInvariant, PTL DEF Spec

=============================================================================
