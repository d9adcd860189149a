---------------------------- MODULE ReviewFlowProofs ----------------------------
(***************************************************************************)
(* Theorems about ReviewFlow, for all texts, commands, edits and faults:   *)
(* what a review says is what its sub-flows found, and what a summary      *)
(* names was written by the run that it sums up.                           *)
(***************************************************************************)
EXTENDS ReviewFlow, FunctionTheorems, FiniteSetTheorems, TLAPS

LintWrites   == {"lint_summary.json", "tokens.json", "ast.json", "lint.log"}
RiskWrites   == {"risk_summary.json", "risk_report.md", "risk.log"}
ReviewWrites == {"review_summary.json", "review_report.md", "review.log"}
ReviewStages == {"review_make"} \cup ReviewWrites
Artifacts    == LintWrites \cup RiskWrites \cup ReviewWrites
Logs         == {"lint.log", "risk.log", "review.log"}

\* What each artifact of the command holds, if it was written in this run.
shown == [a \in Artifacts |-> IF OnDisk(a) THEN {Reports(a)} ELSE {}]

\* The results of the sub-flows.
GoodLint(r) ==
    /\ Succeeded(r) /\ r.level = LintLevel(r.findings) /\ IsFiniteSet(r.findings)
    /\ \A f \in r.findings : f.severity \in {"error", "warning", "info"} /\ f.category # "workflow"
GoodRisk(r) ==
    /\ Succeeded(r) /\ r.level = RiskLevel(r.findings) /\ IsFiniteSet(r.findings)
    /\ \A f \in r.findings : f.severity \in {"high", "medium", "low"} /\ f.category # "workflow"

LintOver ==
    /\ lint.status \in {"success", "user", "internal"}
    /\ Succeeded(lint) => GoodLint(lint) /\ shown["lint_summary.json"] = {lint} /\ shown["lint.log"] # {}
RiskOver ==
    /\ risk.status \in {"success", "user", "internal"}
    /\ Succeeded(risk) => /\ GoodRisk(risk) /\ shown["risk_summary.json"] = {risk}
                          /\ shown["risk_report.md"] = {risk} /\ shown["risk.log"] = {Of(read)}

NoLogs == \A a \in Logs : shown[a] = {}

-----------------------------------------------------------------------------
(* The inductive invariant: what each stage finds done. *)

StageInv ==
    /\ run \in Nat /\ edits \in Nat /\ faults \in Nat
    /\ stage \in LintStages \cup RiskStages \cup ReviewStages \cup {"idle"}
    /\ run > 0 => command \in Commands
    /\ stage # "idle" => run > 0 /\ command.define = "good"
    /\ stage \in LintStages => command.name # "risk"
    /\ stage \in RiskStages => command.name # "lint"
    /\ stage \in ReviewStages => Review
    /\ text \in DOMAIN Texts /\ read \in DOMAIN Texts /\ exit \in 0 .. 2
    /\ \A p \in DOMAIN disk : disk[p].run \in 1 .. run

LintInv ==
    /\ stage \in LintWrites => GoodLint(lint)
    /\ stage \in LintWrites \ {"lint_summary.json"} => shown["lint_summary.json"] = {lint}
    /\ stage \in RiskStages \cup ReviewStages /\ Review => LintOver

RiskInv ==
    /\ stage \in RiskWrites => GoodRisk(risk)
    /\ stage \in {"risk_report.md", "risk.log"} => shown["risk_summary.json"] = {risk}
    /\ stage = "risk.log" => shown["risk_report.md"] = {risk}
    /\ stage \in ReviewStages => RiskOver

SummaryInv ==
    /\ stage \in ReviewWrites => summary = Made
    /\ stage \in {"review_report.md", "review.log"} => shown["review_summary.json"] = {summary}
    /\ stage = "review.log" => shown["review_report.md"] = {summary}

\* Before the first log of a run can be written; and what its end says.
EndInv ==
    /\ stage = "lint_expand" => NoLogs
    /\ stage \in {"risk_expand", "risk_read"} /\ ~Review => NoLogs
    /\ stage = "idle" /\ run > 0 =>
         /\ exit = 2 => NoLogs
         /\ exit = 0 /\ command.name = "lint" => Succeeded(lint) /\ LintOver /\ LintExit(lint) = 0
         /\ exit = 0 /\ command.name = "risk" => Succeeded(risk) /\ RiskOver
         /\ exit = 0 /\ Review =>
              /\ LintOver /\ RiskOver /\ summary = Made
              /\ shown["review_summary.json"] = {summary} /\ shown["review_report.md"] = {summary}
              /\ shown["review.log"] # {}

\* What the sub-flows come to if nothing happens to the text and the files.
LintAlone == FindingsOf(lint) = Alone(text).lint /\ (Succeeded(lint) => lint.quoted = text)
RiskAlone == FindingsOf(risk) = Alone(text).risk /\ (Succeeded(risk) => risk.quoted = text)
AloneInv ==
    edits = 0 /\ faults = 0 =>
        /\ stage \in LintStages \ {"lint_expand"} => text # Absent
        /\ stage \in {"lint_rules"} \cup LintWrites => read = text
        /\ stage \in LintWrites => LintAlone
        /\ stage \in RiskStages \cup ReviewStages /\ Review => LintAlone
        /\ stage \in RiskStages \ {"risk_expand"} => text # Absent
        /\ stage \in {"risk_rules"} \cup RiskWrites => read = text /\ ~TopMissing(text)
        /\ stage \in RiskWrites \cup ReviewStages => RiskAlone
        /\ stage = "idle" /\ run > 0 /\ exit = 0 /\ Review => LintAlone /\ RiskAlone

FlowInv == StageInv /\ LintInv /\ RiskInv /\ SummaryInv /\ EndInv /\ AloneInv

-----------------------------------------------------------------------------
(* What a step leaves on the disk. *)

LEMMA PutShows ==
    ASSUME NEW a \in Artifacts, NEW c, Put(a, c), StageInv, run > 0, UNCHANGED <<command, run>>
    PROVE  /\ shown' = [shown EXCEPT ![a] = {c}]
           /\ \A p \in DOMAIN disk' : disk'[p].run \in 1 .. run'
<1>1. DOMAIN disk' = DOMAIN disk \cup {Path(a)}
  BY DEF Put, Written
<1>2. \A p \in DOMAIN disk' :
          disk'[p] = IF p = Path(a) THEN [run |-> run, content |-> c] ELSE disk[p]
  BY <1>1 DEF Put, Written
<1>3. \A b : Path(b)' = Path(b)
  BY DEF Path
<1>4. \A b : Path(b) = Path(a) <=> b = a
  BY DEF Path
<1>5. \A b \in Artifacts : shown'[b] = IF b = a THEN {c} ELSE shown[b]
  <2> SUFFICES ASSUME NEW b \in Artifacts
               PROVE  shown'[b] = IF b = a THEN {c} ELSE shown[b]
    OBVIOUS
  <2>1. shown[b] = IF Path(b) \in DOMAIN disk /\ disk[Path(b)].run = run THEN {disk[Path(b)].content} ELSE {}
    BY DEF shown, OnDisk, Reports
  <2>2. shown'[b] = IF Path(b) \in DOMAIN disk' /\ disk'[Path(b)].run = run THEN {disk'[Path(b)].content} ELSE {}
    BY <1>3 DEF shown, OnDisk, Reports
  <2>3. CASE b = a
    BY <2>2, <2>3, <1>1, <1>2
  <2>4. CASE b # a
    BY <2>1, <2>2, <2>4, <1>1, <1>2, <1>4
  <2> QED
    BY <2>3, <2>4
<1>6. shown' = [shown EXCEPT ![a] = {c}]
  BY <1>5 DEF shown
<1>7. \A p \in DOMAIN disk' : disk'[p].run \in 1 .. run'
  BY <1>1, <1>2 DEF StageInv
<1> QED
  BY <1>6, <1>7

LEMMA NothingShown ==
    ASSUME UNCHANGED <<disk, command, run>>
    PROVE  shown' = shown
BY DEF shown, OnDisk, Reports, Path

\* What a review finds depends on nothing but the two results.
LEMMA MadeStays ==
    ASSUME UNCHANGED <<lint, risk>>
    PROVE  Made' = Made
BY DEF Made, Failures, Levels, Items, Blocked, Item, CaseOf, Correlated, LintArtifacts, RiskArtifacts,
       Succeeded, FindingsOf, Errors, Finding

LEMMA LintStays ==
    ASSUME UNCHANGED <<lint, text, command>>
    PROVE  LintAlone' <=> LintAlone
BY DEF LintAlone, Alone, LintFindings, CustomRaises, Entries, CustomFindings, TopMissing, FindingsOf, Succeeded

LEMMA RiskStays ==
    ASSUME UNCHANGED <<risk, text, command>>
    PROVE  RiskAlone' <=> RiskAlone
BY DEF RiskAlone, Alone, TopMissing, FindingsOf, Succeeded

-----------------------------------------------------------------------------
(* The end of a sub-flow: the review goes on, the command alone returns. *)

LEMMA LintEnding ==
    ASSUME StageInv, stage \in LintStages,
           NEW r, LintEnds(r), UNCHANGED <<text, command, read, run, edits>>, faults' \in Nat,
           \A p \in DOMAIN disk' : disk'[p].run \in 1 .. run',
           LintOver',
           edits' = 0 /\ faults' = 0 => LintAlone',
           r.status = "user" => NoLogs'
    PROVE  FlowInv'
<1>1. /\ run' > 0 /\ command' \in Commands /\ command'.define = "good" /\ run' \in Nat
      /\ command'.name = "lint" \/ command'.name = "review"
      /\ edits' \in Nat /\ text' \in DOMAIN Texts /\ read' \in DOMAIN Texts
  BY FlowConstants DEF StageInv, LintStages
<1>2. lint' = r /\ (Review' <=> Review)
  BY DEF LintEnds, Review
<1>3. r.status \in {"success", "user", "internal"}
  BY <1>2 DEF LintOver
<1>4. CASE Review
  <2>1. stage' = "risk_expand" /\ exit' = exit
    BY <1>4 DEF LintEnds, Goes
  <2>2. StageInv'
    BY <1>1, <2>1, <1>4, <1>2 DEF StageInv, RiskStages, LintStages, ReviewStages, ReviewWrites, Review
  <2>3. LintInv'
    BY <2>1 DEF LintInv, LintWrites
  <2>4. RiskInv'
    BY <2>1 DEF RiskInv, RiskWrites, ReviewStages, ReviewWrites
  <2>5. SummaryInv'
    BY <2>1 DEF SummaryInv, ReviewWrites
  <2>6. EndInv'
    BY <2>1, <1>2, <1>4 DEF EndInv
  <2>7. AloneInv'
    BY <2>1, <1>2, <1>4 DEF AloneInv, LintStages, LintWrites, RiskWrites, ReviewStages, ReviewWrites
  <2> QED
    BY <2>2, <2>3, <2>4, <2>5, <2>6, <2>7 DEF FlowInv
<1>5. CASE ~Review
  <2>1. /\ stage' = "idle"
        /\ exit' = IF r.status = "success" THEN LintExit(r) ELSE ErrorExit(r)
    BY <1>5 DEF LintEnds, Ended
  <2>2. /\ exit' \in 0 .. 2
        /\ exit' = 2 => r.status = "user"
        /\ exit' = 0 => r.status = "success" /\ LintExit(r) = 0
    BY <2>1, <1>3 DEF LintExit, ErrorExit
  <2>3. LintExit(lint)' = LintExit(r)
    BY <1>2 DEF LintExit
  <2>4. StageInv'
    BY <1>1, <2>1, <2>2 DEF StageInv, RiskStages, LintStages, ReviewStages, ReviewWrites
  <2>5. LintInv'
    BY <2>1 DEF LintInv, LintWrites, RiskStages, ReviewStages, ReviewWrites
  <2>6. RiskInv'
    BY <2>1 DEF RiskInv, RiskWrites, ReviewStages, ReviewWrites
  <2>7. SummaryInv'
    BY <2>1 DEF SummaryInv, ReviewWrites
  <2>8. EndInv'
    <3>1. exit' = 2 => NoLogs'
      BY <2>2
    <3>2. exit' = 0 => Succeeded(lint)' /\ LintOver' /\ LintExit(lint)' = 0
      BY <2>2, <2>3, <1>2 DEF Succeeded
    <3>3. command'.name # "risk" /\ ~Review'
      BY <1>1, <1>2, <1>5
    <3> QED
      BY <2>1, <3>1, <3>2, <3>3 DEF EndInv
  <2>9. AloneInv'
    BY <2>1, <1>2, <1>5 DEF AloneInv, LintStages, LintWrites, RiskStages, RiskWrites, ReviewStages, ReviewWrites
  <2> QED
    BY <2>4, <2>5, <2>6, <2>7, <2>8, <2>9 DEF FlowInv
<1> QED
  BY <1>4, <1>5

LEMMA RiskEnding ==
    ASSUME StageInv, stage \in RiskStages,
           NEW r, RiskEnds(r), UNCHANGED <<text, command, run, edits>>, faults' \in Nat, read' \in DOMAIN Texts,
           \A p \in DOMAIN disk' : disk'[p].run \in 1 .. run',
           RiskOver',
           Review => LintOver',
           edits' = 0 /\ faults' = 0 => RiskAlone' /\ (Review => LintAlone'),
           r.status = "user" /\ ~Review => NoLogs'
    PROVE  FlowInv'
<1>1. /\ run' > 0 /\ command' \in Commands /\ command'.define = "good" /\ run' \in Nat
      /\ command'.name = "risk" \/ command'.name = "review"
      /\ edits' \in Nat /\ text' \in DOMAIN Texts
  BY FlowConstants DEF StageInv, RiskStages
<1>2. risk' = r /\ (Review' <=> Review)
  BY DEF RiskEnds, Review
<1>3. r.status \in {"success", "user", "internal"}
  BY <1>2 DEF RiskOver
<1>4. CASE Review
  <2>1. stage' = "review_make" /\ exit' = exit
    BY <1>4 DEF RiskEnds, Goes
  <2>2. StageInv'
    BY <1>1, <2>1, <1>4, <1>2 DEF StageInv, RiskStages, LintStages, ReviewStages, ReviewWrites, Review
  <2>3. LintInv'
    BY <2>1, <1>4 DEF LintInv, LintWrites
  <2>4. RiskInv'
    BY <2>1 DEF RiskInv, RiskWrites
  <2>5. SummaryInv'
    BY <2>1 DEF SummaryInv, ReviewWrites
  <2>6. EndInv'
    BY <2>1 DEF EndInv
  <2>7. AloneInv'
    BY <2>1, <1>4 DEF AloneInv, LintStages, LintWrites, RiskStages, RiskWrites
  <2> QED
    BY <2>2, <2>3, <2>4, <2>5, <2>6, <2>7 DEF FlowInv
<1>5. CASE ~Review
  <2>1. /\ stage' = "idle"
        /\ exit' = IF r.status = "success" THEN 0 ELSE ErrorExit(r)
    BY <1>5 DEF RiskEnds, Ended
  <2>2. /\ exit' \in 0 .. 2
        /\ exit' = 2 => r.status = "user"
        /\ exit' = 0 => r.status = "success"
    BY <2>1, <1>3 DEF ErrorExit
  <2>3. StageInv'
    BY <1>1, <2>1, <2>2 DEF StageInv, RiskStages, LintStages, ReviewStages, ReviewWrites
  <2>4. LintInv'
    BY <2>1 DEF LintInv, LintWrites, RiskStages, ReviewStages, ReviewWrites
  <2>5. RiskInv'
    BY <2>1 DEF RiskInv, RiskWrites, ReviewStages, ReviewWrites
  <2>6. SummaryInv'
    BY <2>1 DEF SummaryInv, ReviewWrites
  <2>7. EndInv'
    <3>1. exit' = 2 => NoLogs'
      BY <2>2, <1>5
    <3>2. exit' = 0 => Succeeded(risk)' /\ RiskOver'
      BY <2>2, <1>2 DEF Succeeded
    <3>3. command'.name # "lint" /\ ~Review'
      BY <1>1, <1>2, <1>5
    <3> QED
      BY <2>1, <3>1, <3>2, <3>3 DEF EndInv
  <2>8. AloneInv'
    BY <2>1, <1>2, <1>5 DEF AloneInv, LintStages, LintWrites, RiskStages, RiskWrites, ReviewStages, ReviewWrites
  <2> QED
    BY <2>3, <2>4, <2>5, <2>6, <2>7, <2>8 DEF FlowInv
<1> QED
  BY <1>4, <1>5

-----------------------------------------------------------------------------
(* The steps. *)

LEMMA InitFlowInv == ASSUME FlowInit PROVE FlowInv
<1>0. DOMAIN disk = {}
  BY DEF FlowInit
<1>1. StageInv
  BY <1>0, FlowConstants DEF FlowInit, StageInv, LintStages, RiskStages, ReviewStages, ReviewWrites
<1>2. LintInv /\ RiskInv /\ SummaryInv /\ EndInv /\ AloneInv
  BY DEF FlowInit, LintInv, RiskInv, SummaryInv, EndInv, AloneInv,
         LintStages, RiskStages, ReviewStages, LintWrites, RiskWrites, ReviewWrites
<1> QED
  BY <1>1, <1>2 DEF FlowInv

\* A command that starts, or a review without a directory.
LEMMA StartStep == ASSUME FlowInv, Start \/ ReviewRefused PROVE FlowInv'
<1>0. StageInv /\ run \in Nat
  BY DEF FlowInv, StageInv
<1>1. /\ command' \in Commands
      /\ run' = run + 1 /\ run' \in Nat /\ run' > 0
      /\ UNCHANGED <<text, disk, edits>> /\ read' = Absent
      /\ faults' \in Nat
  BY <1>0 DEF Start, ReviewRefused, Called, StageInv
<1>2. /\ command'.name \in {"lint", "risk", "review"}
      /\ command'.define \in {"good", "empty"}
  BY <1>1, FlowConstants
<1>3. NoLogs'
  <2>1. \A p \in DOMAIN disk' : disk'[p].run # run'
    BY <1>0, <1>1 DEF StageInv
  <2>2. \A a \in Artifacts : shown'[a] = {}
    BY <2>1 DEF shown, OnDisk
  <2> QED
    BY <2>2 DEF NoLogs, Logs, Artifacts, LintWrites, RiskWrites, ReviewWrites
<1>4. \A p \in DOMAIN disk' : disk'[p].run \in 1 .. run'
  BY <1>0, <1>1 DEF StageInv
<1>5. \/ command'.define = "empty" /\ stage' = "idle" /\ exit' = 2
      \/ command'.define = "good" /\ command'.name = "risk" /\ stage' = "risk_expand" /\ exit' = exit
      \/ command'.define = "good" /\ command'.name # "risk" /\ stage' = "lint_expand" /\ exit' = exit
      \/ stage' = "idle" /\ exit' = 1
  BY <1>2 DEF Start, ReviewRefused, Ended
<1>6. StageInv'
  BY <1>0, <1>1, <1>2, <1>4, <1>5, FlowConstants
  DEF StageInv, LintStages, RiskStages, ReviewStages, ReviewWrites
<1>7. Review' <=> command'.name = "review"
  BY DEF Review
<1>8. LintInv' /\ RiskInv' /\ SummaryInv'
  BY <1>5, <1>7 DEF LintInv, RiskInv, SummaryInv, LintWrites, RiskStages, RiskWrites, ReviewStages, ReviewWrites
<1>9. EndInv'
  BY <1>3, <1>5, <1>7 DEF EndInv
<1>10. AloneInv'
  BY <1>5, <1>7 DEF AloneInv, LintStages, LintWrites, RiskStages, RiskWrites, ReviewStages, ReviewWrites
<1> QED
  BY <1>6, <1>8, <1>9, <1>10 DEF FlowInv

\* Once the text was edited, nothing is said about it.
LEMMA EditStep == ASSUME FlowInv, Edit PROVE FlowInv'
<1>1. /\ UNCHANGED <<command, stage, read, lint, risk, summary, disk, exit, run, faults>>
      /\ text' \in DOMAIN Texts /\ edits' = edits + 1 /\ edits \in Nat
  BY DEF Edit, FlowInv, StageInv
<1>2. shown' = shown
  BY <1>1, NothingShown
<1>3. Made' = Made /\ (Review' <=> Review)
  BY <1>1, MadeStays DEF Review
<1>4. StageInv'
  BY <1>1, <1>3 DEF FlowInv, StageInv
<1>5. (LintOver' <=> LintOver) /\ (RiskOver' <=> RiskOver)
  BY <1>1, <1>2 DEF LintOver, RiskOver, GoodLint, GoodRisk, Succeeded, Of
<1>6. LintInv'
  BY <1>1, <1>2, <1>3, <1>5 DEF FlowInv, LintInv, GoodLint, Succeeded
<1>7. RiskInv'
  BY <1>1, <1>2, <1>5 DEF FlowInv, RiskInv, GoodRisk, Succeeded
<1>8. SummaryInv'
  BY <1>1, <1>2, <1>3 DEF FlowInv, SummaryInv
<1>9. EndInv'
  <2>1. (NoLogs' <=> NoLogs) /\ LintExit(lint)' = LintExit(lint) /\ (Succeeded(lint)' <=> Succeeded(lint))
        /\ (Succeeded(risk)' <=> Succeeded(risk))
    BY <1>1, <1>2 DEF NoLogs, LintExit, Succeeded
  <2> QED
    BY <1>1, <1>2, <1>3, <1>5, <2>1 DEF FlowInv, EndInv
<1>10. AloneInv'
  BY <1>1 DEF AloneInv, FlowInv, StageInv
<1> QED
  BY <1>4, <1>6, <1>7, <1>8, <1>9, <1>10 DEF FlowInv

-----------------------------------------------------------------------------
(* A sub-flow or the review goes on by one stage. *)

LEMMA LintGoing ==
    ASSUME StageInv, stage \in LintStages, NEW next \in LintStages \ {"lint_expand"},
           Goes(next), Stays, read' \in DOMAIN Texts,
           \A p \in DOMAIN disk' : disk'[p].run \in 1 .. run',
           LintInv', AloneInv'
    PROVE  FlowInv'
<1>1. stage' = next /\ exit' = exit /\ UNCHANGED <<text, command, run, edits, faults>>
  BY DEF Goes, Stays
<1>2. StageInv'
  BY <1>1 DEF StageInv, LintStages, RiskStages, ReviewStages, ReviewWrites
<1>3. RiskInv' /\ SummaryInv' /\ EndInv'
  BY <1>1 DEF RiskInv, SummaryInv, EndInv, LintStages, RiskWrites, ReviewStages, ReviewWrites
<1> QED
  BY <1>2, <1>3 DEF FlowInv

LEMMA RiskGoing ==
    ASSUME StageInv, stage \in RiskStages, NEW next \in RiskStages \ {"risk_expand"},
           Goes(next), Stays, read' \in DOMAIN Texts,
           \A p \in DOMAIN disk' : disk'[p].run \in 1 .. run',
           Review => LintOver',
           next = "risk_read" /\ ~Review => NoLogs',
           RiskInv', AloneInv'
    PROVE  FlowInv'
<1>1. stage' = next /\ exit' = exit /\ UNCHANGED <<text, command, run, edits, faults>> /\ (Review' <=> Review)
  BY DEF Goes, Stays, Review
<1>2. StageInv'
  BY <1>1 DEF StageInv, LintStages, RiskStages, ReviewStages, ReviewWrites
<1>3. LintInv'
  BY <1>1 DEF LintInv, LintWrites, RiskStages
<1>4. SummaryInv' /\ EndInv'
  BY <1>1 DEF SummaryInv, EndInv, RiskStages, ReviewWrites
<1> QED
  BY <1>2, <1>3, <1>4 DEF FlowInv

LEMMA ReviewGoing ==
    ASSUME StageInv, stage \in ReviewStages, NEW next \in ReviewWrites,
           Goes(next), Stays, UNCHANGED <<read, lint, risk>>,
           \A p \in DOMAIN disk' : disk'[p].run \in 1 .. run',
           LintOver', RiskOver', SummaryInv', AloneInv
    PROVE  FlowInv'
<1>1. stage' = next /\ exit' = exit /\ UNCHANGED <<text, command, run, edits, faults>> /\ (Review' <=> Review)
  BY DEF Goes, Stays, Review
<1>2. StageInv'
  BY <1>1 DEF StageInv, LintStages, RiskStages, ReviewStages, ReviewWrites
<1>3. LintInv' /\ RiskInv'
  BY <1>1 DEF LintInv, RiskInv, LintWrites, RiskWrites, ReviewWrites
<1>4. EndInv'
  BY <1>1 DEF EndInv, ReviewWrites
<1>5. (LintAlone' <=> LintAlone) /\ (RiskAlone' <=> RiskAlone)
  BY <1>1, LintStays, RiskStays
<1>6. Review
  BY DEF StageInv
<1>7. AloneInv'
  BY <1>1, <1>5, <1>6 DEF AloneInv, LintStages, LintWrites, RiskStages, RiskWrites, ReviewStages, ReviewWrites
<1> QED
  BY <1>2, <1>3, <1>4, <1>7 DEF FlowInv

-----------------------------------------------------------------------------
(* The steps of lint. *)

LEMMA LintExpandStep == ASSUME FlowInv, LintExpand PROVE FlowInv'
<1>1. /\ stage = "lint_expand" /\ stage \in LintStages /\ StageInv /\ NoLogs
      /\ UNCHANGED <<text, command, run, edits, faults, read, disk>> /\ Stays
      /\ faults' \in Nat /\ read' \in DOMAIN Texts
  BY DEF LintExpand, Stays, FlowInv, StageInv, EndInv, LintStages
<1>2. shown' = shown
  BY <1>1, NothingShown
<1>3. NoLogs'
  BY <1>1, <1>2 DEF NoLogs
<1>4. \A p \in DOMAIN disk' : disk'[p].run \in 1 .. run'
  BY <1>1 DEF StageInv
<1>5. CASE text = Absent
  <2>1. LintEnds(Failed("user"))
    BY <1>5 DEF LintExpand, LintFails
  <2>2. lint' = Failed("user") /\ Failed("user").status = "user"
    BY <2>1 DEF LintEnds, Failed
  <2>3. LintOver'
    BY <2>2 DEF LintOver, Succeeded
  <2>4. LintAlone'
    BY <2>2, <1>1, <1>5 DEF LintAlone, Alone, FindingsOf, Succeeded
  <2> QED
    BY <1>1, <1>3, <1>4, <2>1, <2>3, <2>4, LintEnding
<1>6. CASE text # Absent
  <2>1. Goes("lint_read") /\ stage' = "lint_read"
    BY <1>6 DEF LintExpand, Goes
  <2>2. LintInv'
    BY <2>1 DEF LintInv, LintWrites, RiskStages, ReviewStages, ReviewWrites
  <2>3. AloneInv'
    BY <2>1, <1>1, <1>6 DEF AloneInv, LintWrites, RiskStages, RiskWrites, ReviewStages, ReviewWrites
  <2>4. "lint_read" \in LintStages \ {"lint_expand"}
    BY DEF LintStages
  <2> QED
    BY <1>1, <1>4, <2>1, <2>2, <2>3, <2>4, LintGoing
<1> QED
  BY <1>5, <1>6

LEMMA LintReadStep == ASSUME FlowInv, LintRead PROVE FlowInv'
<1>1. /\ stage = "lint_read" /\ stage \in LintStages /\ StageInv
      /\ UNCHANGED <<text, command, run, edits, faults, disk>> /\ Stays
      /\ read' = text /\ read' \in DOMAIN Texts
      /\ Goes("lint_rules") /\ stage' = "lint_rules"
  BY DEF LintRead, Stays, Goes, FlowInv, StageInv, LintStages
<1>2. \A p \in DOMAIN disk' : disk'[p].run \in 1 .. run'
  BY <1>1 DEF StageInv
<1>3. LintInv'
  BY <1>1 DEF LintInv, LintWrites, RiskStages, ReviewStages, ReviewWrites
<1>4. AloneInv'
  BY <1>1 DEF FlowInv, AloneInv, LintStages, LintWrites, RiskStages, RiskWrites, ReviewStages, ReviewWrites
<1>5. "lint_rules" \in LintStages \ {"lint_expand"}
  BY DEF LintStages
<1> QED
  BY <1>1, <1>2, <1>3, <1>4, <1>5, LintGoing

LEMMA ThreeAreFinite == ASSUME NEW x, NEW y, NEW z PROVE IsFiniteSet({x, y, z})
<1>1. IsFiniteSet({x})
  BY FS_Singleton
<1>2. IsFiniteSet({x} \cup {y})
  BY <1>1, FS_AddElement
<1>3. IsFiniteSet(({x} \cup {y}) \cup {z})
  BY <1>2, FS_AddElement
<1>4. ({x} \cup {y}) \cup {z} = {x, y, z}
  OBVIOUS
<1> QED
  BY <1>3, <1>4

\* What the rules, the rules of a file and the command come to is a result.
LEMMA LintIsGood ==
    ASSUME command \in Commands, NEW t \in DOMAIN Texts, NEW q
    PROVE  GoodLint(LintResult(t, q))
<1> DEFINE C == CustomFindings(t)
           R == RulesFile(command.rules)
           M == IF TopMissing(t) THEN {Finding("SEM001_TOP_NOT_FOUND", "error", 1, "semantic")} ELSE {}
<1>1. /\ IsFiniteSet(Texts[t].lint)
      /\ \A f \in Texts[t].lint : f.severity \in {"error", "warning", "info"} /\ f.category # "workflow"
  BY FlowConstants
<1>2. /\ IsFiniteSet(R)
      /\ \A f \in R : f.severity \in {"error", "warning", "info"} /\ f.category # "workflow"
  <2>1. command.rules \in {"none", "good", "array", "missing", "syntax", "shape", "format"}
    BY FlowConstants
  <2>2. \/ R = {} \/ R = {Config("error")}
        \/ R = {Finding("CUSTOM_RULE_UNSUPPORTED", "warning", 1, "unsupported")}
    BY <2>1 DEF RulesFile
  <2>3. IsFiniteSet(R)
    BY <2>2, FS_EmptySet, FS_Singleton
  <2> QED
    BY <2>2, <2>3 DEF Config, Finding
<1>3. /\ IsFiniteSet(C)
      /\ \A f \in C : f.severity \in {"error", "warning", "info"} /\ f.category # "workflow"
  <2> DEFINE S == {Finding("CUSTOM", "error", 2, "custom_rule"), Config("error"),
                   Finding("CUSTOM_RULE_UNSUPPORTED", "warning", 1, "custom_rule")}
  <2>1. C \subseteq S
    BY DEF CustomFindings
  <2>2. IsFiniteSet(S)
    BY ThreeAreFinite
  <2>3. IsFiniteSet(C)
    BY <2>1, <2>2, FS_Subset
  <2>4. \A f \in S : f.severity \in {"error", "warning", "info"} /\ f.category # "workflow"
    BY DEF Config, Finding
  <2> QED
    BY <2>1, <2>3, <2>4
<1>4. /\ IsFiniteSet(M)
      /\ \A f \in M : f.severity \in {"error", "warning", "info"} /\ f.category # "workflow"
  <2>1. M = {} \/ M = {Finding("SEM001_TOP_NOT_FOUND", "error", 1, "semantic")}
    OBVIOUS
  <2>2. IsFiniteSet(M)
    BY <2>1, FS_EmptySet, FS_Singleton
  <2> QED
    BY <2>1, <2>2 DEF Finding
<1>5. LintFindings(t) = R \cup Texts[t].lint \cup C \cup M
  BY DEF LintFindings
<1> HIDE DEF C, R, M
<1>6. IsFiniteSet(LintFindings(t))
  <2>1. IsFiniteSet(R \cup Texts[t].lint)
    BY <1>1, <1>2, FS_Union
  <2>2. IsFiniteSet((R \cup Texts[t].lint) \cup C)
    BY <1>3, <2>1, FS_Union
  <2>3. IsFiniteSet(((R \cup Texts[t].lint) \cup C) \cup M)
    BY <1>4, <2>2, FS_Union
  <2> QED
    BY <1>5, <2>3
<1>7. \A f \in LintFindings(t) : f.severity \in {"error", "warning", "info"} /\ f.category # "workflow"
  BY <1>1, <1>2, <1>3, <1>4, <1>5
<1>8. /\ LintResult(t, q).status = "success"
      /\ LintResult(t, q).findings = LintFindings(t)
      /\ LintResult(t, q).level = LintLevel(LintFindings(t))
  BY DEF LintResult
<1> QED
  BY <1>6, <1>7, <1>8 DEF GoodLint, Succeeded

LEMMA RiskIsGood ==
    ASSUME NEW t \in DOMAIN Texts, NEW q
    PROVE  GoodRisk(RiskResult(t, q))
<1>1. /\ IsFiniteSet(Texts[t].risk)
      /\ \A f \in Texts[t].risk : f.severity \in {"high", "medium", "low"} /\ f.category # "workflow"
  BY FlowConstants
<1>2. /\ RiskResult(t, q).status = "success"
      /\ RiskResult(t, q).findings = Texts[t].risk
      /\ RiskResult(t, q).level = RiskLevel(Texts[t].risk)
  BY DEF RiskResult
<1> QED
  BY <1>1, <1>2 DEF GoodRisk, Succeeded

LEMMA LintJudgeStep == ASSUME FlowInv, LintJudge PROVE FlowInv'
<1>1. /\ stage = "lint_rules" /\ stage \in LintStages /\ StageInv
      /\ UNCHANGED <<text, command, run, edits, faults, read, disk>> /\ Stays
      /\ faults' \in Nat /\ read \in DOMAIN Texts /\ read' \in DOMAIN Texts /\ command \in Commands
      /\ edits = 0 /\ faults = 0 => read = text /\ text # Absent
  BY DEF LintJudge, Stays, FlowInv, StageInv, AloneInv, LintStages
<1>2. \A p \in DOMAIN disk' : disk'[p].run \in 1 .. run'
  BY <1>1 DEF StageInv
<1>3. CASE "lint" \in Texts[read].raises \/ CustomRaises
  <2>1. LintEnds(Failed("internal"))
    BY <1>3 DEF LintJudge, LintFails
  <2>2. lint' = Failed("internal") /\ Failed("internal").status = "internal"
    BY <2>1 DEF LintEnds, Failed
  <2>3. LintOver'
    BY <2>2 DEF LintOver, Succeeded
  <2>4. ASSUME edits' = 0 /\ faults' = 0 PROVE LintAlone'
    <3>1. Alone(text)'.lint = {}
      BY <1>1, <1>3, <2>4 DEF Alone, CustomRaises, Entries
    <3> QED
      BY <3>1, <2>2 DEF LintAlone, FindingsOf, Succeeded
  <2> QED
    BY <1>1, <1>2, <2>1, <2>2, <2>3, <2>4, LintEnding
<1>4. CASE ~("lint" \in Texts[read].raises \/ CustomRaises)
  <2>1. Goes("lint_summary.json") /\ stage' = "lint_summary.json" /\ lint' = LintResult(read, text)
    BY <1>4 DEF LintJudge, Goes
  <2>2. LintInv'
    <3>1. GoodLint(LintResult(read, text))
      BY <1>1, LintIsGood
    <3>2. GoodLint(lint)'
      BY <3>1, <2>1 DEF GoodLint, Succeeded, LintLevel, Errors, Warnings
    <3> QED
      BY <2>1, <3>2 DEF LintInv, LintWrites, RiskStages, ReviewStages, ReviewWrites
  <2>3. edits' = 0 /\ faults' = 0 => LintAlone'
    <3> SUFFICES ASSUME edits' = 0 /\ faults' = 0 PROVE LintAlone'
      OBVIOUS
    <3>1. /\ lint'.status = "success" /\ lint'.findings = LintFindings(read) /\ lint'.quoted = text
      BY <2>1 DEF LintResult
    <3>2. Alone(text)'.lint = LintFindings(text)'
      BY <1>1, <1>4 DEF Alone, CustomRaises, Entries
    <3>3. LintFindings(text)' = LintFindings(read)
      BY <1>1 DEF LintFindings, CustomFindings, Entries, TopMissing
    <3> QED
      BY <1>1, <3>1, <3>2, <3>3 DEF LintAlone, FindingsOf, Succeeded
  <2>4. AloneInv'
    BY <2>1, <1>1, <2>3 DEF AloneInv, LintStages, LintWrites, RiskStages, RiskWrites, ReviewStages, ReviewWrites
  <2>5. "lint_summary.json" \in LintStages \ {"lint_expand"}
    BY DEF LintStages
  <2> QED
    BY <1>1, <1>2, <2>1, <2>2, <2>4, <2>5, LintGoing
<1> QED
  BY <1>3, <1>4

\* An artifact of lint is written, and lint goes on.
LEMMA LintWriteStep ==
    ASSUME FlowInv, stage \in LintWrites, stage # "lint.log",
           NEW c, Put(stage, c), stage = "lint_summary.json" => c = lint,
           NEW next \in LintWrites \ {"lint_summary.json"}, Goes(next), Stays, UNCHANGED <<lint, risk, read>>
    PROVE  FlowInv'
<1>1. /\ stage \in LintStages /\ stage \in Artifacts /\ StageInv /\ run > 0
      /\ UNCHANGED <<text, command, run, edits, faults>> /\ read' \in DOMAIN Texts
      /\ stage' = next /\ next \in LintStages \ {"lint_expand"}
  BY DEF Stays, Goes, FlowInv, StageInv, LintStages, LintWrites, Artifacts
<1>2. /\ shown' = [shown EXCEPT ![stage] = {c}]
      /\ \A p \in DOMAIN disk' : disk'[p].run \in 1 .. run'
  BY <1>1, PutShows
<1>3. LintInv'
  <2>1. GoodLint(lint) /\ (stage # "lint_summary.json" => shown["lint_summary.json"] = {lint})
    BY DEF FlowInv, LintInv
  <2>2. GoodLint(lint)'
    BY <2>1 DEF GoodLint, Succeeded, LintLevel, Errors, Warnings
  <2>3. shown'["lint_summary.json"] = {lint}
    BY <1>2, <2>1 DEF shown, Artifacts, LintWrites
  <2>4. stage' \notin RiskStages \cup ReviewStages
    BY <1>1 DEF LintWrites, RiskStages, ReviewStages, ReviewWrites
  <2> QED
    BY <1>1, <2>2, <2>3, <2>4 DEF LintInv
<1>4. AloneInv'
  <2>1. LintAlone' <=> LintAlone
    BY <1>1, LintStays
  <2>2. stage' \notin RiskStages \cup ReviewStages \cup RiskWrites \cup {"idle", "risk_rules"}
    BY <1>1 DEF LintWrites, RiskStages, RiskWrites, ReviewStages, ReviewWrites
  <2>3. edits = 0 /\ faults = 0 => text # Absent /\ read = text /\ LintAlone
    BY DEF FlowInv, AloneInv, LintStages, LintWrites
  <2> QED
    BY <1>1, <2>1, <2>2, <2>3 DEF AloneInv
<1> QED
  BY <1>1, <1>2, <1>3, <1>4, LintGoing

LEMMA LintSummaryStep == ASSUME FlowInv, LintSummary PROVE FlowInv'
<1> DEFINE next == IF command.debug THEN "tokens.json" ELSE "lint.log"
<1>1. /\ stage = "lint_summary.json" /\ Put(stage, lint) /\ Goes(next) /\ Stays
      /\ UNCHANGED <<lint, risk, read>>
      /\ stage \in LintWrites /\ next \in LintWrites \ {"lint_summary.json"}
  BY DEF LintSummary, Write, LintWrites
<1> HIDE DEF next
<1> QED
  BY <1>1, LintWriteStep

LEMMA LintDebugStep == ASSUME FlowInv, LintDebug PROVE FlowInv'
<1>1. PICK next \in {"ast.json", "lint.log"} :
         /\ stage \in {"tokens.json", "ast.json"} /\ Put(stage, Of(read)) /\ Goes(next) /\ Stays
         /\ UNCHANGED <<lint, risk, read>>
  BY DEF LintDebug, Write
<1>2. /\ stage \in LintWrites /\ stage # "lint.log" /\ stage # "lint_summary.json"
      /\ next \in LintWrites \ {"lint_summary.json"}
  BY <1>1 DEF LintWrites
<1> QED
  BY <1>1, <1>2, LintWriteStep

LEMMA LintLogStep == ASSUME FlowInv, LintLog PROVE FlowInv'
<1>1. /\ stage = "lint.log" /\ Put(stage, Of(read)) /\ LintEnds(lint) /\ Stays
      /\ UNCHANGED <<risk, read, summary>> /\ lint' = lint
  BY DEF LintLog, Write, LintEnds
<1>2. /\ stage \in LintStages /\ stage \in Artifacts /\ StageInv /\ run > 0
      /\ UNCHANGED <<text, command, run, edits, faults>> /\ faults' \in Nat
      /\ GoodLint(lint) /\ shown["lint_summary.json"] = {lint}
  BY <1>1 DEF Stays, FlowInv, StageInv, LintInv, LintStages, LintWrites, Artifacts
<1>3. /\ shown' = [shown EXCEPT !["lint.log"] = {Of(read)}]
      /\ \A p \in DOMAIN disk' : disk'[p].run \in 1 .. run'
  BY <1>1, <1>2, PutShows
<1>4. lint.status = "success"
  BY <1>2 DEF GoodLint, Succeeded
<1>5. LintOver'
  <2>1. GoodLint(lint)'
    BY <1>1, <1>2 DEF GoodLint, Succeeded, LintLevel, Errors, Warnings
  <2>2. shown'["lint_summary.json"] = {lint} /\ shown'["lint.log"] = {Of(read)}
    BY <1>2, <1>3 DEF shown, Artifacts, LintWrites
  <2> QED
    BY <1>1, <1>4, <2>1, <2>2 DEF LintOver
<1>6. edits' = 0 /\ faults' = 0 => LintAlone'
  <2>1. LintAlone' <=> LintAlone
    BY <1>1, <1>2, LintStays
  <2>2. edits = 0 /\ faults = 0 => LintAlone
    BY <1>1 DEF FlowInv, AloneInv, LintWrites
  <2> QED
    BY <1>2, <2>1, <2>2
<1> QED
  BY <1>1, <1>2, <1>3, <1>4, <1>5, <1>6, LintEnding

-----------------------------------------------------------------------------
(* The steps of risk. *)

LEMMA LintOverStays ==
    ASSUME LintOver, lint' = lint,
           \A a \in LintWrites : shown'[a] = shown[a]
    PROVE  LintOver'
<1>1. GoodLint(lint) => GoodLint(lint)'
  BY DEF GoodLint, Succeeded, LintLevel, Errors, Warnings
<1>2. shown'["lint_summary.json"] = shown["lint_summary.json"] /\ shown'["lint.log"] = shown["lint.log"]
  BY DEF LintWrites
<1> QED
  BY <1>1, <1>2 DEF LintOver, Succeeded

LEMMA RiskOverStays ==
    ASSUME RiskOver, risk' = risk, read' = read,
           \A a \in RiskWrites : shown'[a] = shown[a]
    PROVE  RiskOver'
<1>1. GoodRisk(risk) => GoodRisk(risk)'
  BY DEF GoodRisk, Succeeded, RiskLevel
<1>2. /\ shown'["risk_summary.json"] = shown["risk_summary.json"]
      /\ shown'["risk_report.md"] = shown["risk_report.md"]
      /\ shown'["risk.log"] = shown["risk.log"]
  BY DEF RiskWrites
<1>3. Of(read)' = Of(read)
  BY DEF Of
<1> QED
  BY <1>1, <1>2, <1>3 DEF RiskOver, Succeeded

LEMMA RiskExpandStep == ASSUME FlowInv, RiskExpand PROVE FlowInv'
<1>1. /\ stage = "risk_expand" /\ stage \in RiskStages /\ StageInv
      /\ UNCHANGED <<text, command, run, edits, faults, read, disk, lint>> /\ Stays
      /\ faults' \in Nat /\ read' \in DOMAIN Texts
      /\ (~Review => NoLogs) /\ (Review => LintOver)
      /\ edits = 0 /\ faults = 0 => (Review => LintAlone)
  BY DEF RiskExpand, RiskFails, Stays, FlowInv, StageInv, EndInv, LintInv, AloneInv, RiskStages
<1>2. shown' = shown
  BY <1>1, NothingShown
<1>3. ~Review => NoLogs'
  BY <1>1, <1>2 DEF NoLogs
<1>4. \A p \in DOMAIN disk' : disk'[p].run \in 1 .. run'
  BY <1>1 DEF StageInv
<1>5. Review => LintOver'
  BY <1>1, <1>2, LintOverStays
<1>6. edits' = 0 /\ faults' = 0 => (Review => LintAlone')
  BY <1>1, LintStays
<1>7. CASE text = Absent
  <2>1. RiskEnds(Failed("user"))
    BY <1>7 DEF RiskExpand, RiskFails
  <2>2. risk' = Failed("user") /\ Failed("user").status = "user"
    BY <2>1 DEF RiskEnds, Failed
  <2>3. RiskOver'
    BY <2>2 DEF RiskOver, Succeeded
  <2>4. RiskAlone'
    BY <2>2, <1>1, <1>7 DEF RiskAlone, Alone, FindingsOf, Succeeded
  <2> QED
    BY <1>1, <1>3, <1>4, <1>5, <1>6, <2>1, <2>3, <2>4, RiskEnding
<1>8. CASE text # Absent
  <2>1. Goes("risk_read") /\ stage' = "risk_read"
    BY <1>8 DEF RiskExpand, Goes
  <2>2. RiskInv'
    BY <2>1 DEF RiskInv, RiskWrites, ReviewStages, ReviewWrites
  <2>3. AloneInv'
    <3>1. Review' <=> Review
      BY <1>1 DEF Review
    <3> QED
      BY <2>1, <1>1, <1>6, <1>8, <3>1
      DEF AloneInv, LintStages, LintWrites, RiskStages, RiskWrites, ReviewStages, ReviewWrites
  <2>4. "risk_read" \in RiskStages \ {"risk_expand"}
    BY DEF RiskStages
  <2> QED
    BY <1>1, <1>3, <1>4, <1>5, <2>1, <2>2, <2>3, <2>4, RiskGoing
<1> QED
  BY <1>7, <1>8

LEMMA RiskReadStep == ASSUME FlowInv, RiskRead PROVE FlowInv'
<1>1. /\ stage = "risk_read" /\ stage \in RiskStages /\ StageInv
      /\ UNCHANGED <<text, command, run, edits, faults, disk, lint>> /\ Stays
      /\ faults' \in Nat /\ read' = text /\ read' \in DOMAIN Texts
      /\ (~Review => NoLogs) /\ (Review => LintOver)
      /\ edits = 0 /\ faults = 0 => (Review => LintAlone) /\ text # Absent
  BY DEF RiskRead, RiskFails, Stays, FlowInv, StageInv, EndInv, LintInv, AloneInv, RiskStages
<1>2. shown' = shown
  BY <1>1, NothingShown
<1>3. ~Review => NoLogs'
  BY <1>1, <1>2 DEF NoLogs
<1>4. \A p \in DOMAIN disk' : disk'[p].run \in 1 .. run'
  BY <1>1 DEF StageInv
<1>5. Review => LintOver'
  BY <1>1, <1>2, LintOverStays
<1>6. edits' = 0 /\ faults' = 0 => (Review => LintAlone')
  BY <1>1, LintStays
<1>7. CASE TopMissing(text)
  <2>1. RiskEnds(Failed("user"))
    BY <1>7 DEF RiskRead, RiskFails
  <2>2. risk' = Failed("user") /\ Failed("user").status = "user"
    BY <2>1 DEF RiskEnds, Failed
  <2>3. RiskOver'
    BY <2>2 DEF RiskOver, Succeeded
  <2>4. RiskAlone'
    <3>1. TopMissing(text)'
      BY <1>1, <1>7 DEF TopMissing
    <3> QED
      BY <2>2, <3>1 DEF RiskAlone, Alone, FindingsOf, Succeeded
  <2> QED
    BY <1>1, <1>3, <1>4, <1>5, <1>6, <2>1, <2>3, <2>4, RiskEnding
<1>8. CASE ~TopMissing(text)
  <2>1. Goes("risk_rules") /\ stage' = "risk_rules"
    BY <1>8 DEF RiskRead, Goes
  <2>2. RiskInv'
    BY <2>1 DEF RiskInv, RiskWrites, ReviewStages, ReviewWrites
  <2>3. AloneInv'
    <3>1. (Review' <=> Review) /\ (TopMissing(text)' <=> TopMissing(text))
      BY <1>1 DEF Review, TopMissing
    <3> QED
      BY <2>1, <1>1, <1>6, <1>8, <3>1
      DEF AloneInv, LintStages, LintWrites, RiskStages, RiskWrites, ReviewStages, ReviewWrites
  <2>4. "risk_rules" \in RiskStages \ {"risk_expand"}
    BY DEF RiskStages
  <2> QED
    BY <1>1, <1>3, <1>4, <1>5, <2>1, <2>2, <2>3, <2>4, RiskGoing
<1> QED
  BY <1>7, <1>8

LEMMA RiskJudgeStep == ASSUME FlowInv, RiskJudge PROVE FlowInv'
<1>1. /\ stage = "risk_rules" /\ stage \in RiskStages /\ StageInv
      /\ UNCHANGED <<text, command, run, edits, faults, read, disk, lint>> /\ Stays
      /\ faults' \in Nat /\ read \in DOMAIN Texts /\ read' \in DOMAIN Texts
      /\ (Review => LintOver)
      /\ edits = 0 /\ faults = 0 => (Review => LintAlone) /\ text # Absent /\ read = text /\ ~TopMissing(text)
  BY DEF RiskJudge, RiskFails, Stays, FlowInv, StageInv, LintInv, AloneInv, RiskStages
<1>2. shown' = shown
  BY <1>1, NothingShown
<1>3. \A p \in DOMAIN disk' : disk'[p].run \in 1 .. run'
  BY <1>1 DEF StageInv
<1>4. Review => LintOver'
  BY <1>1, <1>2, LintOverStays
<1>5. edits' = 0 /\ faults' = 0 => (Review => LintAlone')
  BY <1>1, LintStays
<1>6. TopMissing(text)' <=> TopMissing(text)
  BY <1>1 DEF TopMissing
<1>7. CASE "risk" \in Texts[read].raises
  <2>1. RiskEnds(Failed("internal"))
    BY <1>7 DEF RiskJudge, RiskFails
  <2>2. risk' = Failed("internal") /\ Failed("internal").status = "internal"
    BY <2>1 DEF RiskEnds, Failed
  <2>3. RiskOver'
    BY <2>2 DEF RiskOver, Succeeded
  <2>4. edits' = 0 /\ faults' = 0 => RiskAlone'
    BY <2>2, <1>1, <1>7 DEF RiskAlone, Alone, FindingsOf, Succeeded
  <2> QED
    BY <1>1, <1>3, <1>4, <1>5, <2>1, <2>2, <2>3, <2>4, RiskEnding
<1>8. CASE "risk" \notin Texts[read].raises
  <2>1. Goes("risk_summary.json") /\ stage' = "risk_summary.json" /\ risk' = RiskResult(read, text)
    BY <1>8 DEF RiskJudge, Goes
  <2>2. RiskInv'
    <3>1. GoodRisk(RiskResult(read, text))
      BY <1>1, RiskIsGood
    <3>2. GoodRisk(risk)'
      BY <3>1, <2>1 DEF GoodRisk, Succeeded, RiskLevel
    <3> QED
      BY <2>1, <3>2 DEF RiskInv, RiskWrites, ReviewStages, ReviewWrites
  <2>3. edits' = 0 /\ faults' = 0 => RiskAlone'
    <3> SUFFICES ASSUME edits' = 0 /\ faults' = 0 PROVE RiskAlone'
      OBVIOUS
    <3>1. /\ risk'.status = "success" /\ risk'.findings = Texts[read].risk /\ risk'.quoted = text
      BY <2>1 DEF RiskResult
    <3>2. Alone(text)'.risk = Texts[text].risk
      BY <1>1, <1>6, <1>8 DEF Alone
    <3> QED
      BY <1>1, <3>1, <3>2 DEF RiskAlone, FindingsOf, Succeeded
  <2>4. AloneInv'
    <3>1. Review' <=> Review
      BY <1>1 DEF Review
    <3> QED
      BY <2>1, <2>3, <1>1, <1>5, <1>6, <3>1
      DEF AloneInv, LintStages, LintWrites, RiskStages, RiskWrites, ReviewStages, ReviewWrites
  <2>5. "risk_summary.json" \in RiskStages \ {"risk_expand"} /\ "risk_summary.json" # "risk_read"
    BY DEF RiskStages
  <2> QED
    BY <1>1, <1>3, <1>4, <2>1, <2>2, <2>4, <2>5, RiskGoing
<1> QED
  BY <1>7, <1>8

\* An artifact of risk is written.
LEMMA RiskWriteFrame ==
    ASSUME FlowInv, stage \in RiskWrites, NEW c, Put(stage, c), Stays, UNCHANGED <<lint, risk, read>>
    PROVE  /\ stage \in RiskStages /\ StageInv
           /\ UNCHANGED <<text, command, run, edits, faults>> /\ faults' \in Nat /\ read' \in DOMAIN Texts
           /\ shown' = [shown EXCEPT ![stage] = {c}]
           /\ \A p \in DOMAIN disk' : disk'[p].run \in 1 .. run'
           /\ GoodRisk(risk)'
           /\ Review => LintOver'
           /\ edits' = 0 /\ faults' = 0 =>
                /\ Review => LintAlone'
                /\ RiskAlone' /\ text' # Absent /\ read' = text' /\ ~TopMissing(text)'
<1>1. /\ stage \in RiskStages /\ stage \in Artifacts /\ StageInv /\ run > 0
      /\ UNCHANGED <<text, command, run, edits, faults>> /\ faults' \in Nat /\ read' \in DOMAIN Texts
      /\ GoodRisk(risk)
      /\ (Review => LintOver)
      /\ edits = 0 /\ faults = 0 =>
            (Review => LintAlone) /\ RiskAlone /\ text # Absent /\ read = text /\ ~TopMissing(text)
  BY DEF Stays, FlowInv, StageInv, LintInv, RiskInv, AloneInv, RiskStages, RiskWrites, Artifacts
<1>2. /\ shown' = [shown EXCEPT ![stage] = {c}]
      /\ \A p \in DOMAIN disk' : disk'[p].run \in 1 .. run'
  BY <1>1, PutShows
<1>3. GoodRisk(risk)'
  BY <1>1 DEF GoodRisk, Succeeded, RiskLevel
<1>4. \A a \in LintWrites : shown'[a] = shown[a]
  BY <1>2 DEF shown, Artifacts, LintWrites, RiskWrites
<1>5. Review => LintOver'
  BY <1>1, <1>4, LintOverStays
<1>6. TopMissing(text)' <=> TopMissing(text)
  BY <1>1 DEF TopMissing
<1>7. edits' = 0 /\ faults' = 0 =>
         (Review => LintAlone') /\ RiskAlone' /\ text' # Absent /\ read' = text' /\ ~TopMissing(text)'
  BY <1>1, <1>6, LintStays, RiskStays
<1> QED
  BY <1>1, <1>2, <1>3, <1>5, <1>7

LEMMA RiskWriteStep ==
    ASSUME FlowInv, stage \in RiskWrites, Put(stage, risk), UNCHANGED <<lint, risk, read>>, Stays,
           NEW next, Goes(next),
           \/ stage = "risk_summary.json" /\ next = "risk_report.md"
           \/ stage = "risk_report.md" /\ next = "risk.log"
    PROVE  FlowInv'
<1>1. /\ stage' = next /\ next \in RiskStages \ {"risk_expand"} /\ next # "risk_read"
      /\ (Review' <=> Review)
  BY DEF Goes, RiskStages, Stays, Review
<1>2. /\ stage \in RiskStages /\ StageInv
      /\ UNCHANGED <<text, command, run, edits, faults>> /\ faults' \in Nat /\ read' \in DOMAIN Texts
      /\ shown' = [shown EXCEPT ![stage] = {risk}]
      /\ \A p \in DOMAIN disk' : disk'[p].run \in 1 .. run'
      /\ GoodRisk(risk)'
      /\ Review => LintOver'
      /\ edits' = 0 /\ faults' = 0 =>
           /\ Review => LintAlone'
           /\ RiskAlone' /\ text' # Absent /\ read' = text' /\ ~TopMissing(text)'
  BY RiskWriteFrame
<1>3. RiskInv'
  <2>1. stage # "risk_summary.json" => shown["risk_summary.json"] = {risk}
    BY DEF FlowInv, RiskInv, RiskWrites
  <2>2. /\ shown'["risk_summary.json"] = {risk}
        /\ stage = "risk_report.md" => shown'["risk_report.md"] = {risk}
    BY <1>2, <2>1 DEF shown, Artifacts, RiskWrites
  <2> QED
    BY <1>1, <1>2, <2>2 DEF RiskInv, ReviewStages, ReviewWrites
<1>4. AloneInv'
  BY <1>1, <1>2 DEF AloneInv, LintStages, LintWrites, RiskWrites, ReviewStages, ReviewWrites
<1> QED
  BY <1>1, <1>2, <1>3, <1>4, RiskGoing

LEMMA RiskSummaryStep == ASSUME FlowInv, RiskSummary PROVE FlowInv'
<1>1. /\ stage = "risk_summary.json" /\ Put(stage, risk) /\ Goes("risk_report.md") /\ Stays
      /\ UNCHANGED <<lint, risk, read>> /\ stage \in RiskWrites
  BY DEF RiskSummary, Write, RiskWrites
<1> QED
  BY <1>1, RiskWriteStep

LEMMA RiskReportStep == ASSUME FlowInv, RiskReport PROVE FlowInv'
<1>1. /\ stage = "risk_report.md" /\ Put(stage, risk) /\ Goes("risk.log") /\ Stays
      /\ UNCHANGED <<lint, risk, read>> /\ stage \in RiskWrites
  BY DEF RiskReport, Write, RiskWrites
<1> QED
  BY <1>1, RiskWriteStep

LEMMA RiskLogStep == ASSUME FlowInv, RiskLog PROVE FlowInv'
<1>1. /\ stage = "risk.log" /\ Put(stage, Of(read)) /\ RiskEnds(risk) /\ Stays
      /\ UNCHANGED <<lint, read>> /\ risk' = risk /\ stage \in RiskWrites
  BY DEF RiskLog, Write, RiskEnds, RiskWrites
<1>2. /\ stage \in RiskStages /\ StageInv
      /\ UNCHANGED <<text, command, run, edits, faults>> /\ faults' \in Nat /\ read' \in DOMAIN Texts
      /\ shown' = [shown EXCEPT !["risk.log"] = {Of(read)}]
      /\ \A p \in DOMAIN disk' : disk'[p].run \in 1 .. run'
      /\ GoodRisk(risk)'
      /\ Review => LintOver'
      /\ edits' = 0 /\ faults' = 0 =>
           /\ Review => LintAlone'
           /\ RiskAlone' /\ text' # Absent /\ read' = text' /\ ~TopMissing(text)'
  BY <1>1, RiskWriteFrame
<1>3. risk.status = "success"
  BY <1>1, <1>2 DEF GoodRisk, Succeeded
<1>4. RiskOver'
  <2>1. shown["risk_summary.json"] = {risk} /\ shown["risk_report.md"] = {risk}
    BY <1>1 DEF FlowInv, RiskInv
  <2>2. /\ shown'["risk_summary.json"] = {risk} /\ shown'["risk_report.md"] = {risk}
        /\ shown'["risk.log"] = {Of(read)}
    BY <1>2, <2>1 DEF shown, Artifacts, RiskWrites
  <2>3. Of(read)' = Of(read)
    BY <1>1 DEF Of
  <2> QED
    BY <1>1, <1>2, <1>3, <2>2, <2>3 DEF RiskOver
<1> QED
  BY <1>1, <1>2, <1>3, <1>4, RiskEnding

-----------------------------------------------------------------------------
(* The steps of the review. *)

LEMMA ReviewMakeStep == ASSUME FlowInv, ReviewMake PROVE FlowInv'
<1>1. /\ stage = "review_make" /\ stage \in ReviewStages /\ StageInv
      /\ UNCHANGED <<text, command, run, edits, faults, read, lint, risk, disk>> /\ Stays
      /\ Goes("review_summary.json") /\ stage' = "review_summary.json" /\ summary' = Made
  BY DEF ReviewMake, Stays, Goes, FlowInv, ReviewStages
<1>2. LintOver /\ RiskOver /\ AloneInv
  BY <1>1 DEF FlowInv, StageInv, LintInv, RiskInv
<1>3. shown' = shown
  BY <1>1, NothingShown
<1>4. LintOver' /\ RiskOver'
  BY <1>1, <1>2, <1>3, LintOverStays, RiskOverStays
<1>5. \A p \in DOMAIN disk' : disk'[p].run \in 1 .. run'
  BY <1>1 DEF StageInv
<1>6. SummaryInv'
  <2>1. Made' = Made
    BY <1>1, MadeStays
  <2> QED
    BY <1>1, <2>1 DEF SummaryInv
<1>7. "review_summary.json" \in ReviewWrites
  BY DEF ReviewWrites
<1> QED
  BY <1>1, <1>2, <1>4, <1>5, <1>6, <1>7, ReviewGoing

\* An artifact of the review is written.
LEMMA ReviewWriteFrame ==
    ASSUME FlowInv, stage \in ReviewWrites, NEW c, Put(stage, c), Stays, UNCHANGED <<lint, risk, read, summary>>
    PROVE  /\ stage \in ReviewStages /\ StageInv /\ AloneInv /\ Review
           /\ UNCHANGED <<text, command, run, edits, faults>>
           /\ shown' = [shown EXCEPT ![stage] = {c}]
           /\ \A p \in DOMAIN disk' : disk'[p].run \in 1 .. run'
           /\ LintOver' /\ RiskOver' /\ summary' = Made'
<1>1. /\ stage \in ReviewStages /\ stage \in Artifacts /\ StageInv /\ AloneInv /\ Review /\ run > 0
      /\ UNCHANGED <<text, command, run, edits, faults>>
      /\ LintOver /\ RiskOver /\ summary = Made
  BY DEF Stays, FlowInv, StageInv, LintInv, RiskInv, SummaryInv, ReviewStages, ReviewWrites, Artifacts
<1>2. /\ shown' = [shown EXCEPT ![stage] = {c}]
      /\ \A p \in DOMAIN disk' : disk'[p].run \in 1 .. run'
  BY <1>1, PutShows
<1>3. \A a \in LintWrites \cup RiskWrites : shown'[a] = shown[a]
  BY <1>2 DEF shown, Artifacts, LintWrites, RiskWrites, ReviewWrites
<1>4. LintOver' /\ RiskOver'
  BY <1>1, <1>3, LintOverStays, RiskOverStays
<1>5. Made' = Made
  BY MadeStays
<1> QED
  BY <1>1, <1>2, <1>4, <1>5

LEMMA ReviewWriteStep ==
    ASSUME FlowInv, stage \in ReviewWrites, Put(stage, summary), Stays, UNCHANGED <<lint, risk, read, summary>>,
           NEW next, Goes(next),
           \/ stage = "review_summary.json" /\ next = "review_report.md"
           \/ stage = "review_report.md" /\ next = "review.log"
    PROVE  FlowInv'
<1>1. stage' = next /\ next \in ReviewWrites
  BY DEF Goes, ReviewWrites
<1>2. /\ stage \in ReviewStages /\ StageInv /\ AloneInv
      /\ shown' = [shown EXCEPT ![stage] = {summary}]
      /\ \A p \in DOMAIN disk' : disk'[p].run \in 1 .. run'
      /\ LintOver' /\ RiskOver' /\ summary' = Made'
  BY ReviewWriteFrame
<1>3. SummaryInv'
  <2>1. stage # "review_summary.json" => shown["review_summary.json"] = {summary}
    BY DEF FlowInv, SummaryInv, ReviewWrites
  <2>2. /\ shown'["review_summary.json"] = {summary}
        /\ stage = "review_report.md" => shown'["review_report.md"] = {summary}
    BY <1>2, <2>1 DEF shown, Artifacts, ReviewWrites
  <2> QED
    BY <1>1, <1>2, <2>2 DEF SummaryInv
<1> QED
  BY <1>1, <1>2, <1>3, ReviewGoing

LEMMA ReviewSummaryStep == ASSUME FlowInv, ReviewSummary PROVE FlowInv'
<1>1. /\ stage = "review_summary.json" /\ Put(stage, summary) /\ Goes("review_report.md") /\ Stays
      /\ UNCHANGED <<lint, risk, read, summary>> /\ stage \in ReviewWrites
  BY DEF ReviewSummary, Write, ReviewWrites
<1> QED
  BY <1>1, ReviewWriteStep

LEMMA ReviewReportStep == ASSUME FlowInv, ReviewReport PROVE FlowInv'
<1>1. /\ stage = "review_report.md" /\ Put(stage, summary) /\ Goes("review.log") /\ Stays
      /\ UNCHANGED <<lint, risk, read, summary>> /\ stage \in ReviewWrites
  BY DEF ReviewReport, Write, ReviewWrites
<1> QED
  BY <1>1, ReviewWriteStep

LEMMA ReviewLogStep == ASSUME FlowInv, ReviewLog PROVE FlowInv'
<1>1. /\ stage = "review.log" /\ Put(stage, Of(read)) /\ stage' = "idle" /\ exit' = 0 /\ Stays
      /\ UNCHANGED <<lint, risk, read, summary>> /\ stage \in ReviewWrites
  BY DEF ReviewLog, Write, Ended, ReviewWrites
<1>2. /\ StageInv /\ AloneInv /\ Review /\ stage \in ReviewStages
      /\ UNCHANGED <<text, command, run, edits, faults>>
      /\ shown' = [shown EXCEPT !["review.log"] = {Of(read)}]
      /\ \A p \in DOMAIN disk' : disk'[p].run \in 1 .. run'
      /\ LintOver' /\ RiskOver' /\ summary' = Made'
  BY <1>1, ReviewWriteFrame
<1>3. Review'
  BY <1>2 DEF Review
<1>4. StageInv'
  BY <1>1, <1>2 DEF StageInv, LintStages, RiskStages, ReviewStages, ReviewWrites
<1>5. LintInv' /\ RiskInv' /\ SummaryInv'
  BY <1>1 DEF LintInv, RiskInv, SummaryInv, LintWrites, RiskStages, RiskWrites, ReviewStages, ReviewWrites
<1>6. EndInv'
  <2>1. shown["review_summary.json"] = {summary} /\ shown["review_report.md"] = {summary}
    BY <1>1 DEF FlowInv, SummaryInv
  <2>2. /\ shown'["review_summary.json"] = {summary} /\ shown'["review_report.md"] = {summary}
        /\ shown'["review.log"] # {}
    BY <1>2, <2>1 DEF shown, Artifacts, ReviewWrites
  <2>3. command'.name = "review"
    BY <1>3 DEF Review
  <2> QED
    BY <1>1, <1>2, <2>2, <2>3 DEF EndInv
<1>7. AloneInv'
  <2>1. (LintAlone' <=> LintAlone) /\ (RiskAlone' <=> RiskAlone)
    BY <1>1, <1>2, LintStays, RiskStays
  <2> QED
    BY <1>1, <1>2, <2>1 DEF AloneInv, LintStages, LintWrites, RiskStages, RiskWrites, ReviewStages, ReviewWrites
<1> QED
  BY <1>4, <1>5, <1>6, <1>7 DEF FlowInv

\* A fault may have emptied the file of its stage, and no other one.
LEMMA FaultStep == ASSUME FlowInv, Fault PROVE FlowInv'
<1>1. /\ StageInv /\ stage # "idle" /\ stage # "review_make" /\ run > 0
      /\ UNCHANGED <<text, command, read, run, edits>> /\ Raises
      /\ faults' \in Nat /\ faults' # 0 /\ read' \in DOMAIN Texts
      /\ edits' \in Nat /\ run' \in Nat
  <2>1. /\ stage # "idle" /\ stage # "review_make" /\ UNCHANGED <<text, command, read, run, edits>>
        /\ Raises /\ faults' = faults + 1
    BY DEF Fault
  <2>2. StageInv
    BY DEF FlowInv
  <2> QED
    BY <2>1, <2>2 DEF StageInv
<1>2. /\ \A a \in Artifacts : a # stage => shown'[a] = shown[a]
      /\ \A p \in DOMAIN disk' : disk'[p].run \in 1 .. run'
  <2>1. CASE disk' = disk
    <3>1. shown' = shown
      BY <1>1, <2>1, NothingShown
    <3> QED
      BY <1>1, <2>1, <3>1 DEF StageInv
  <2>2. CASE disk' # disk
    <3>1. Put(stage, Failed("cut off")) /\ stage \in Artifacts
      BY <1>1, <2>2 DEF Fault, Put, StageInv, LintStages, RiskStages, ReviewStages,
                        Artifacts, LintWrites, RiskWrites, ReviewWrites
    <3>2. /\ shown' = [shown EXCEPT ![stage] = {Failed("cut off")}]
          /\ \A p \in DOMAIN disk' : disk'[p].run \in 1 .. run'
      BY <1>1, <3>1, PutShows
    <3> QED
      BY <3>1, <3>2 DEF shown
  <2> QED
    BY <2>1, <2>2
<1>3. CASE stage \in LintStages
  <2>1. LintEnds(Failed("internal"))
    BY <1>1, <1>3 DEF Raises, LintFails, LintStages, RiskStages
  <2>2. lint' = Failed("internal") /\ Failed("internal").status = "internal"
    BY <2>1 DEF LintEnds, Failed
  <2>3. LintOver'
    BY <2>2 DEF LintOver, Succeeded
  <2> QED
    BY <1>1, <1>2, <1>3, <2>1, <2>2, <2>3, LintEnding
<1>4. CASE stage \in RiskStages
  <2>1. RiskEnds(Failed("internal")) /\ lint' = lint
    BY <1>1, <1>4 DEF Raises, RiskFails, LintStages, RiskStages
  <2>2. risk' = Failed("internal") /\ Failed("internal").status = "internal"
    BY <2>1 DEF RiskEnds, Failed
  <2>3. RiskOver'
    BY <2>2 DEF RiskOver, Succeeded
  <2>4. \A a \in LintWrites : shown'[a] = shown[a]
    BY <1>2, <1>4 DEF LintWrites, RiskStages, Artifacts
  <2>5. Review => LintOver'
    BY <1>4, <2>1, <2>4, LintOverStays DEF FlowInv, LintInv
  <2> QED
    BY <1>1, <1>2, <1>4, <2>1, <2>2, <2>3, <2>5, RiskEnding
<1>5. CASE stage \in ReviewWrites
  <2>1. stage' = "idle" /\ exit' = 1
    BY <1>1, <1>5 DEF Raises, ReviewFails, Ended, LintStages, RiskStages, ReviewWrites
  <2>2. StageInv'
    BY <1>1, <1>2, <2>1 DEF StageInv, LintStages, RiskStages, ReviewStages, ReviewWrites
  <2>3. LintInv' /\ RiskInv' /\ SummaryInv'
    BY <2>1 DEF LintInv, RiskInv, SummaryInv, LintWrites, RiskStages, RiskWrites, ReviewStages, ReviewWrites
  <2>4. EndInv' /\ AloneInv'
    BY <1>1, <2>1 DEF EndInv, AloneInv
  <2> QED
    BY <2>2, <2>3, <2>4 DEF FlowInv
<1> QED
  BY <1>1, <1>3, <1>4, <1>5 DEF StageInv, ReviewStages

LEMMA StutterStep == ASSUME FlowInv, UNCHANGED flow PROVE FlowInv'
<1>1. UNCHANGED <<text, command, stage, read, lint, risk, summary, disk, exit, run, edits, faults>>
  BY DEF flow
<1>2. shown' = shown /\ Made' = Made /\ (Review' <=> Review) /\ (TopMissing(text)' <=> TopMissing(text))
  BY <1>1, NothingShown, MadeStays DEF Review, TopMissing
<1>3. (LintAlone' <=> LintAlone) /\ (RiskAlone' <=> RiskAlone)
  BY <1>1, LintStays, RiskStays
<1>4. (LintOver => LintOver') /\ (RiskOver => RiskOver')
  BY <1>1, <1>2, LintOverStays, RiskOverStays
<1>5. StageInv'
  BY <1>1, <1>2 DEF FlowInv, StageInv
<1>6. LintInv'
  BY <1>1, <1>2, <1>4 DEF FlowInv, LintInv, GoodLint, Succeeded
<1>7. RiskInv'
  BY <1>1, <1>2, <1>4 DEF FlowInv, RiskInv, GoodRisk, Succeeded
<1>8. SummaryInv'
  BY <1>1, <1>2 DEF FlowInv, SummaryInv
<1>9. EndInv'
  <2>1. (NoLogs' <=> NoLogs) /\ LintExit(lint)' = LintExit(lint) /\ (Succeeded(lint)' <=> Succeeded(lint))
        /\ (Succeeded(risk)' <=> Succeeded(risk))
    BY <1>1, <1>2 DEF NoLogs, LintExit, Succeeded
  <2> QED
    BY <1>1, <1>2, <1>4, <2>1 DEF FlowInv, EndInv
<1>10. AloneInv'
  BY <1>1, <1>2, <1>3 DEF FlowInv, AloneInv
<1> QED
  BY <1>5, <1>6, <1>7, <1>8, <1>9, <1>10 DEF FlowInv

LEMMA StepFlowInv == ASSUME FlowInv, [FlowNext]_flow PROVE FlowInv'
<1>1. CASE Start \/ ReviewRefused
  BY <1>1, StartStep
<1>2. CASE Edit
  BY <1>2, EditStep
<1>3. CASE LintExpand
  BY <1>3, LintExpandStep
<1>4. CASE LintRead
  BY <1>4, LintReadStep
<1>5. CASE LintJudge
  BY <1>5, LintJudgeStep
<1>6. CASE LintSummary
  BY <1>6, LintSummaryStep
<1>7. CASE LintDebug
  BY <1>7, LintDebugStep
<1>8. CASE LintLog
  BY <1>8, LintLogStep
<1>9. CASE RiskExpand
  BY <1>9, RiskExpandStep
<1>10. CASE RiskRead
  BY <1>10, RiskReadStep
<1>11. CASE RiskJudge
  BY <1>11, RiskJudgeStep
<1>12. CASE RiskSummary
  BY <1>12, RiskSummaryStep
<1>13. CASE RiskReport
  BY <1>13, RiskReportStep
<1>14. CASE RiskLog
  BY <1>14, RiskLogStep
<1>15. CASE ReviewMake
  BY <1>15, ReviewMakeStep
<1>16. CASE ReviewSummary
  BY <1>16, ReviewSummaryStep
<1>17. CASE ReviewReport
  BY <1>17, ReviewReportStep
<1>18. CASE ReviewLog
  BY <1>18, ReviewLogStep
<1>19. CASE Fault
  BY <1>19, FaultStep
<1>20. CASE UNCHANGED flow
  BY <1>20, StutterStep
<1> QED
  BY <1>1, <1>2, <1>3, <1>4, <1>5, <1>6, <1>7, <1>8, <1>9, <1>10, <1>11, <1>12, <1>13, <1>14,
     <1>15, <1>16, <1>17, <1>18, <1>19, <1>20 DEF FlowNext

\* Whatever the texts mean to the rules: what each stage of lint, risk and
\* review finds done is what the stages before it do.
THEOREM FlowInductive == FlowSpec => []FlowInv
<1>1. FlowInit => FlowInv
  BY InitFlowInv
<1>2. FlowInv /\ [FlowNext]_flow => FlowInv'
  BY StepFlowInv
<1> QED
  BY <1>1, <1>2, PTL DEF FlowSpec

\* The type invariant: a sub-flow runs in a command that has it, and the review
\* writes when both sub-flows have ended (run_review).
THEOREM FlowTypeCorrect == FlowSpec => []FlowTypeOK
<1>1. FlowInv => FlowTypeOK
  <2> SUFFICES ASSUME FlowInv PROVE FlowTypeOK
    OBVIOUS
  <2>1. stage \in ReviewStages => LintOver /\ RiskOver /\ Review
    BY DEF FlowInv, StageInv, LintInv, RiskInv
  <2>2. stage \in ReviewStages => lint # None /\ risk # None
    BY <2>1 DEF LintOver, RiskOver, None
  <2> QED
    BY <2>1, <2>2 DEF FlowInv, StageInv, FlowTypeOK, ReviewStages, ReviewWrites
<1> QED
  BY <1>1, FlowInductive, PTL

-----------------------------------------------------------------------------
(* What is on the disk when a command has returned. *)

LEMMA ShownOnDisk ==
    ASSUME NEW a \in Artifacts
    PROVE  /\ OnDisk(a) <=> shown[a] # {}
           /\ \A c : shown[a] = {c} => Reports(a) = c
BY DEF shown

\* A command that returns its summary has written what the summary names in
\* this run, however often the files failed and whatever was there before.
THEOREM ArtifactsAreCurrent == FlowSpec => []ArtifactsAreOfThisRun
<1>1. FlowInv => ArtifactsAreOfThisRun
  <2> SUFFICES ASSUME FlowInv, Returned, command.define = "good"
               PROVE  ArtifactsAreOfThisRun
    BY DEF ArtifactsAreOfThisRun
  <2>0. /\ EndInv /\ stage = "idle" /\ run > 0
        /\ LintWrites \cup RiskWrites \cup ReviewWrites = Artifacts
    BY DEF FlowInv, Returned, Artifacts
  <2>1. ASSUME Review, exit = 0 PROVE \A a \in Reports("review_summary.json").artifacts : OnDisk(a)
    <3>1. /\ LintOver /\ RiskOver /\ summary = Made
          /\ shown["review_summary.json"] = {summary} /\ shown["review_report.md"] = {summary}
          /\ shown["review.log"] # {}
      BY <2>0, <2>1 DEF EndInv
    <3>2. Reports("review_summary.json") = Made
      BY <3>1, ShownOnDisk DEF Artifacts, ReviewWrites
    <3>3. Made.artifacts = {"review.log", "review_summary.json", "review_report.md"} \cup LintArtifacts \cup RiskArtifacts
      BY DEF Made
    <3>4. \A a \in ReviewWrites : a \in Artifacts /\ OnDisk(a)
      BY <3>1, ShownOnDisk DEF Artifacts, ReviewWrites
    <3>5. \A a \in LintArtifacts : a \in Artifacts /\ OnDisk(a)
      BY <3>1, ShownOnDisk DEF Artifacts, LintWrites, LintArtifacts, LintOver
    <3>6. \A a \in RiskArtifacts : a \in Artifacts /\ OnDisk(a)
      BY <3>1, ShownOnDisk DEF Artifacts, RiskWrites, RiskArtifacts, RiskOver
    <3> QED
      BY <3>2, <3>3, <3>4, <3>5, <3>6 DEF ReviewWrites
  <2>2. ASSUME command.name = "risk", exit = 0,
               NEW a \in {"risk_summary.json", "risk_report.md", "risk.log"}
        PROVE  OnDisk(a) /\ Reports(a).status # "cut off"
    <3>1. /\ risk.status = "success" /\ a \in Artifacts
          /\ shown["risk_summary.json"] = {risk} /\ shown["risk_report.md"] = {risk}
          /\ shown["risk.log"] = {Of(read)}
      BY <2>0, <2>2 DEF EndInv, RiskOver, Succeeded, Artifacts, RiskWrites
    <3>2. OnDisk(a) /\ (Reports(a) = risk \/ Reports(a) = Of(read))
      BY <2>2, <3>1, ShownOnDisk
    <3>3. Of(read).status = "of"
      BY DEF Of
    <3>4. Reports(a).status \in {"success", "of"}
      BY <3>1, <3>2, <3>3
    <3> QED
      BY <3>2, <3>4
  <2>3. ASSUME command.name = "lint", exit = 0
        PROVE  /\ \A a \in {"lint_summary.json", "lint.log"} : OnDisk(a)
               /\ command.failOn = "error" => Errors(Reports("lint_summary.json").findings) = {}
               /\ command.failOn = "warning" => Warnings(Reports("lint_summary.json").findings) = {}
    <3>1. /\ LintExit(lint) = 0
          /\ shown["lint_summary.json"] = {lint} /\ shown["lint.log"] # {}
          /\ "lint_summary.json" \in Artifacts /\ "lint.log" \in Artifacts
      BY <2>0, <2>3 DEF EndInv, LintOver, Artifacts, LintWrites
    <3>2. OnDisk("lint_summary.json") /\ OnDisk("lint.log") /\ Reports("lint_summary.json") = lint
      BY <3>1, ShownOnDisk
    <3>3. /\ command.failOn = "error" => Errors(lint.findings) = {}
          /\ command.failOn = "warning" => Warnings(lint.findings) = {}
      BY <3>1 DEF LintExit
    <3> QED
      BY <3>2, <3>3
  <2>4. ASSUME exit = 2, NEW a \in Logs PROVE ~OnDisk(a)
    <3>1. shown[a] = {} /\ a \in Artifacts
      BY <2>0, <2>4 DEF EndInv, NoLogs, Logs, Artifacts, LintWrites, RiskWrites, ReviewWrites
    <3> QED
      BY <3>1, ShownOnDisk
  <2> QED
    BY <2>1, <2>2, <2>3, <2>4 DEF ArtifactsAreOfThisRun, Logs
<1> QED
  BY <1>1, FlowInductive, PTL

-----------------------------------------------------------------------------
(* What _make_summary makes of the two results. *)

\* The items of one sub-flow: its findings, or that it was blocked.
ItemsOf(source, rule, severity, r) ==
    {Item(source, f) : f \in FindingsOf(r)} \cup Blocked(source, rule, severity, r)

LEMMA ItemsApart ==
    Items = ItemsOf("lint", "LINT_WORKFLOW_BLOCKED", "error", lint)
            \cup ItemsOf("profiling", "RISK_WORKFLOW_BLOCKED", "high", risk)
BY DEF Items, ItemsOf

LEMMA OneForEach ==
    ASSUME NEW S, IsFiniteSet(S), NEW T, NEW g \in [S -> T],
           \A a, b \in S : g[a] = g[b] => a = b, \A t \in T : \E a \in S : g[a] = t
    PROVE  IsFiniteSet(T) /\ Cardinality(T) = Cardinality(S)
<1>1. g \in Bijection(S, T)
  BY Fun_IsBij
<1>2. ExistsBijection(S, T)
  BY <1>1 DEF ExistsBijection
<1> QED
  BY <1>2, FS_Bijection

\* An item of each finding.
LEMMA ItemsCounted ==
    ASSUME NEW source, NEW rule, NEW severity, NEW r, IsFiniteSet(FindingsOf(r))
    PROVE  /\ IsFiniteSet(ItemsOf(source, rule, severity, r))
           /\ Cardinality(ItemsOf(source, rule, severity, r))
                = Cardinality(FindingsOf(r)) + (IF Succeeded(r) THEN 0 ELSE 1)
<1> DEFINE S == FindingsOf(r)
           T == {Item(source, f) : f \in S}
           B == Blocked(source, rule, severity, r)
<1>1. CASE Succeeded(r)
  <2>1. B = {}
    BY <1>1 DEF Blocked
  <2> DEFINE g == [f \in S |-> Item(source, f)]
  <2>2. \A f, h \in S : g[f] = g[h] => f = h
    BY DEF Item
  <2>3. g \in [S -> T] /\ \A i \in T : \E f \in S : g[f] = i
    OBVIOUS
  <2>4. IsFiniteSet(T) /\ Cardinality(T) = Cardinality(S)
    BY <2>2, <2>3, OneForEach
  <2>5. ItemsOf(source, rule, severity, r) = T
    BY <2>1 DEF ItemsOf
  <2>6. Cardinality(S) \in Nat
    BY FS_CardinalityType
  <2> QED
    BY <1>1, <2>4, <2>5, <2>6
<1>2. CASE ~Succeeded(r)
  <2>1. S = {} /\ Cardinality(S) = 0
    BY <1>2, FS_EmptySet DEF FindingsOf
  <2> DEFINE x == Item(source, Finding(rule, severity, 1, "workflow"))
  <2>2. ItemsOf(source, rule, severity, r) = {x}
    BY <1>2, <2>1 DEF ItemsOf, Blocked
  <2> HIDE DEF x
  <2>3. /\ IsFiniteSet(ItemsOf(source, rule, severity, r))
        /\ Cardinality(ItemsOf(source, rule, severity, r)) = 1
    BY <2>2, FS_Singleton
  <2> QED
    BY <1>2, <2>1, <2>3
<1> QED
  BY <1>1, <1>2

LEMMA FailuresCounted ==
    Failures = (IF Succeeded(lint) THEN 0 ELSE 1) + (IF Succeeded(risk) THEN 0 ELSE 1)
<1> DEFINE l == <<"lint", lint>>
           k == <<"risk", risk>>
           F == {r \in {l, k} : ~Succeeded(r[2])}
<1>1. Failures = Cardinality(F)
  BY DEF Failures
<1>2. l[2] = lint /\ k[2] = risk /\ l # k
  OBVIOUS
<1> HIDE DEF l, k
<1>3. CASE Succeeded(lint) /\ Succeeded(risk)
  <2>1. F = {}
    BY <1>2, <1>3
  <2> QED
    BY <1>1, <1>3, <2>1, FS_EmptySet
<1>4. CASE Succeeded(lint) /\ ~Succeeded(risk)
  <2>1. F = {k}
    BY <1>2, <1>4
  <2>2. Cardinality({k}) = 1
    BY FS_Singleton
  <2> QED
    BY <1>1, <1>4, <2>1, <2>2
<1>5. CASE ~Succeeded(lint) /\ Succeeded(risk)
  <2>1. F = {l}
    BY <1>2, <1>5
  <2>2. Cardinality({l}) = 1
    BY FS_Singleton
  <2> QED
    BY <1>1, <1>5, <2>1, <2>2
<1>6. CASE ~Succeeded(lint) /\ ~Succeeded(risk)
  <2>1. F = {l} \cup {k}
    BY <1>2, <1>6
  <2>2. IsFiniteSet({l}) /\ Cardinality({l}) = 1
    BY FS_Singleton
  <2>3. Cardinality({l} \cup {k}) = 2
    BY <1>2, <2>2, FS_AddElement
  <2> QED
    BY <1>1, <1>6, <2>1, <2>3
<1> QED
  BY <1>3, <1>4, <1>5, <1>6

LEMMA ItemsKnown ==
    ASSUME LintOver, RiskOver
    PROVE  /\ IsFiniteSet(Items)
           /\ Cardinality(Items) = Cardinality(FindingsOf(lint)) + Cardinality(FindingsOf(risk)) + Failures
           /\ {i.finding : i \in {x \in Items : x.finding.category # "workflow"}}
                = FindingsOf(lint) \cup FindingsOf(risk)
<1> DEFINE L == ItemsOf("lint", "LINT_WORKFLOW_BLOCKED", "error", lint)
           R == ItemsOf("profiling", "RISK_WORKFLOW_BLOCKED", "high", risk)
<1>1. /\ IsFiniteSet(FindingsOf(lint)) /\ IsFiniteSet(FindingsOf(risk))
      /\ \A f \in FindingsOf(lint) \cup FindingsOf(risk) : f.category # "workflow"
  BY FS_EmptySet DEF LintOver, RiskOver, GoodLint, GoodRisk, FindingsOf
<1>2. /\ IsFiniteSet(L)
      /\ Cardinality(L) = Cardinality(FindingsOf(lint)) + (IF Succeeded(lint) THEN 0 ELSE 1)
  BY <1>1, ItemsCounted
<1>3. /\ IsFiniteSet(R)
      /\ Cardinality(R) = Cardinality(FindingsOf(risk)) + (IF Succeeded(risk) THEN 0 ELSE 1)
  BY <1>1, ItemsCounted
<1>4. Items = L \cup R
  BY ItemsApart
<1>5. (\A i \in L : i.source = "lint") /\ (\A i \in R : i.source = "profiling")
  BY DEF ItemsOf, Blocked, Item
<1>6. /\ \A i \in L : i.finding \in FindingsOf(lint) \/ i.finding.category = "workflow"
      /\ \A i \in R : i.finding \in FindingsOf(risk) \/ i.finding.category = "workflow"
      /\ \A f \in FindingsOf(lint) : Item("lint", f) \in L
      /\ \A f \in FindingsOf(risk) : Item("profiling", f) \in R
      /\ \A f : Item("lint", f).finding = f /\ Item("profiling", f).finding = f
  <2>1. \A source, f : Item(source, f).finding = f
    BY DEF Item
  <2>2. \A rule, severity : Finding(rule, severity, 1, "workflow").category = "workflow"
    BY DEF Finding
  <2>3. \A source, rule, severity, r : \A i \in Blocked(source, rule, severity, r) : i.finding.category = "workflow"
    BY <2>1, <2>2 DEF Blocked
  <2>4. \A source, rule, severity, r :
           /\ \A i \in ItemsOf(source, rule, severity, r) :
                i.finding \in FindingsOf(r) \/ i.finding.category = "workflow"
           /\ \A f \in FindingsOf(r) : Item(source, f) \in ItemsOf(source, rule, severity, r)
    BY <2>1, <2>3 DEF ItemsOf
  <2> QED
    BY <2>1, <2>4
<1> HIDE DEF L, R
<1>7. L \cap R = {}
  BY <1>5
<1>8. IsFiniteSet(L \cup R) /\ Cardinality(L \cup R) = Cardinality(L) + Cardinality(R)
  <2>1. /\ IsFiniteSet(L \cup R)
        /\ Cardinality(L \cup R) = Cardinality(L) + Cardinality(R) - Cardinality(L \cap R)
    BY <1>2, <1>3, FS_Union
  <2>2. Cardinality(L \cap R) = 0
    BY <1>7, FS_EmptySet
  <2>3. Cardinality(L) \in Nat /\ Cardinality(R) \in Nat
    BY <1>2, <1>3, FS_CardinalityType
  <2> QED
    BY <2>1, <2>2, <2>3
<1>9. Cardinality(Items) = Cardinality(FindingsOf(lint)) + Cardinality(FindingsOf(risk)) + Failures
  <2>1. Cardinality(FindingsOf(lint)) \in Nat /\ Cardinality(FindingsOf(risk)) \in Nat
    BY <1>1, FS_CardinalityType
  <2> QED
    BY <1>2, <1>3, <1>4, <1>8, <2>1, FailuresCounted
<1>10. {i.finding : i \in {x \in Items : x.finding.category # "workflow"}} = FindingsOf(lint) \cup FindingsOf(risk)
  <2>1. ASSUME NEW i \in Items, i.finding.category # "workflow"
        PROVE  i.finding \in FindingsOf(lint) \cup FindingsOf(risk)
    BY <1>4, <1>6, <2>1
  <2>2. ASSUME NEW f \in FindingsOf(lint) \cup FindingsOf(risk)
        PROVE  \E i \in {x \in Items : x.finding.category # "workflow"} : f = i.finding
    <3>1. CASE f \in FindingsOf(lint)
      BY <1>1, <1>4, <1>6, <3>1
    <3>2. CASE f \in FindingsOf(risk)
      BY <1>1, <1>4, <1>6, <3>2
    <3> QED
      BY <3>1, <3>2
  <2> QED
    BY <2>1, <2>2
<1> QED
  BY <1>4, <1>8, <1>9, <1>10

\* _correlate_items keeps each item, and one that overlaps does so with another.
LEMMA CorrelatedKnown ==
    ASSUME NEW S, IsFiniteSet(S)
    PROVE  /\ Cardinality(Correlated(S)) = Cardinality(S)
           /\ \A i \in S : \E c \in Correlated(S) : c.item = i
           /\ \A c \in Correlated(S) : c.item \in S
           /\ \A c \in Correlated(S) :
                c.overlap > 1 => \E o \in Correlated(S) \ {c} : o.item.key = c.item.key
<1> DEFINE group(i) == {j \in S : j.key = i.key}
           C(i) == [item |-> i, sources |-> {j.source : j \in group(i)}, overlap |-> Cardinality(group(i))]
           g == [i \in S |-> C(i)]
<1>1. Correlated(S) = {C(i) : i \in S}
  BY DEF Correlated
<1>2. \A i : C(i).item = i /\ C(i).overlap = Cardinality(group(i))
  OBVIOUS
<1> HIDE DEF C
<1>3. /\ g \in [S -> Correlated(S)]
      /\ \A t \in Correlated(S) : \E i \in S : g[i] = t
      /\ \A i, j \in S : g[i] = g[j] => i = j
  <2>1. \A i, j \in S : C(i) = C(j) => i = j
    BY <1>2
  <2> QED
    BY <1>1, <2>1
<1>4. Cardinality(Correlated(S)) = Cardinality(S)
  <2> HIDE DEF g
  <2> QED
    BY <1>3, OneForEach
<1>5. ASSUME NEW c \in Correlated(S), c.overlap > 1
      PROVE  \E o \in Correlated(S) \ {c} : o.item.key = c.item.key
  <2>1. PICK i \in S : c = C(i)
    BY <1>1
  <2>2. c.item = i /\ Cardinality(group(i)) > 1
    BY <1>2, <1>5, <2>1
  <2>3. group(i) # {i}
    <3>1. Cardinality({i}) = 1
      BY FS_Singleton
    <3> QED
      BY <2>2, <3>1
  <2>4. PICK j \in S : j.key = i.key /\ j # i
    BY <2>3
  <2>5. C(j) \in Correlated(S) /\ C(j).item = j /\ C(j) # c
    BY <1>1, <1>2, <2>2, <2>4
  <2> QED
    BY <2>2, <2>4, <2>5
<1> QED
  BY <1>1, <1>2, <1>4, <1>5

\* What a review puts together, from the results alone.
LEMMA MadeIsTrue ==
    ASSUME LintOver, RiskOver
    PROVE  LET kept == {r \in {lint, risk} : Succeeded(r)}
               all  == FindingsOf(lint) \cup FindingsOf(risk)
           IN  /\ Made.status = "success" <=> Succeeded(lint) /\ Succeeded(risk)
               /\ Made.status = "failure" <=> kept = {}
               /\ {c.item.finding : c \in {x \in Made.items : x.item.finding.category # "workflow"}} = all
               /\ Made.total = Cardinality(Made.items)
               /\ Made.level = "LOW" => Made.status = "success" /\ \A f \in all : f.severity \in {"info", "low"}
               /\ \A c \in Made.items : c.overlap > 1 => \E o \in Made.items \ {c} : o.item.key = c.item.key
<1> DEFINE kept == {r \in {lint, risk} : Succeeded(r)}
           all  == FindingsOf(lint) \cup FindingsOf(risk)
<1>1. /\ Made.status = <<"success", "partial_success", "failure">>[Failures + 1]
      /\ Made.total = Cardinality(FindingsOf(lint)) + Cardinality(FindingsOf(risk)) + Failures
      /\ Made.items = Correlated(Items)
      /\ Made.level = IF Errors(FindingsOf(lint)) # {} \/ Failures > 0 \/ "HIGH" \in Levels THEN "HIGH"
                      ELSE IF "MEDIUM" \in Levels THEN "MEDIUM" ELSE "LOW"
  BY DEF Made
<1>2. Failures = (IF Succeeded(lint) THEN 0 ELSE 1) + (IF Succeeded(risk) THEN 0 ELSE 1)
  BY FailuresCounted
<1>3. /\ IsFiniteSet(Items)
      /\ Cardinality(Items) = Cardinality(FindingsOf(lint)) + Cardinality(FindingsOf(risk)) + Failures
      /\ {i.finding : i \in {x \in Items : x.finding.category # "workflow"}} = all
  BY ItemsKnown
<1>4. /\ Cardinality(Correlated(Items)) = Cardinality(Items)
      /\ \A i \in Items : \E c \in Correlated(Items) : c.item = i
      /\ \A c \in Correlated(Items) : c.item \in Items
      /\ \A c \in Correlated(Items) : c.overlap > 1 => \E o \in Correlated(Items) \ {c} : o.item.key = c.item.key
  BY <1>3, CorrelatedKnown
<1>5. Made.status = "success" <=> Succeeded(lint) /\ Succeeded(risk)
  BY <1>1, <1>2
<1>6. Made.status = "failure" <=> kept = {}
  BY <1>1, <1>2
<1>7. {c.item.finding : c \in {x \in Made.items : x.item.finding.category # "workflow"}} = all
  <2>1. ASSUME NEW c \in Correlated(Items), c.item.finding.category # "workflow"
        PROVE  c.item.finding \in all
    BY <1>3, <1>4, <2>1
  <2>2. ASSUME NEW f \in all
        PROVE  \E c \in {x \in Correlated(Items) : x.item.finding.category # "workflow"} : f = c.item.finding
    <3>1. PICK i \in Items : i.finding = f /\ i.finding.category # "workflow"
      BY <1>3, <2>2
    <3>2. PICK c \in Correlated(Items) : c.item = i
      BY <1>4
    <3> QED
      BY <3>1, <3>2
  <2> HIDE DEF all
  <2> QED
    BY <1>1, <2>1, <2>2
<1>8. Made.total = Cardinality(Made.items)
  BY <1>1, <1>3, <1>4
<1>9. ASSUME Made.level = "LOW" PROVE Made.status = "success" /\ \A f \in all : f.severity \in {"info", "low"}
  <2>1. Errors(FindingsOf(lint)) = {} /\ ~(Failures > 0) /\ "HIGH" \notin Levels /\ "MEDIUM" \notin Levels
    BY <1>1, <1>9
  <2>2. Succeeded(lint) /\ Succeeded(risk)
    BY <1>2, <2>1
  <2>3. lint.level \in Levels /\ risk.level \in Levels
    BY <2>2 DEF Levels
  <2>4. /\ lint.level = LintLevel(lint.findings) /\ FindingsOf(lint) = lint.findings
        /\ \A f \in lint.findings : f.severity \in {"error", "warning", "info"}
        /\ risk.level = RiskLevel(risk.findings) /\ FindingsOf(risk) = risk.findings
        /\ \A f \in risk.findings : f.severity \in {"high", "medium", "low"}
    BY <2>2 DEF LintOver, RiskOver, GoodLint, GoodRisk, FindingsOf
  <2>5. Warnings(lint.findings) = {}
    BY <2>1, <2>3, <2>4 DEF LintLevel
  <2>6. \A f \in lint.findings : f.severity = "info"
    BY <2>1, <2>4, <2>5 DEF Errors, Warnings
  <2>7. \A f \in risk.findings : f.severity = "low"
    BY <2>1, <2>3, <2>4 DEF RiskLevel
  <2> QED
    BY <1>5, <2>2, <2>4, <2>6, <2>7
<1>10. \A c \in Made.items : c.overlap > 1 => \E o \in Made.items \ {c} : o.item.key = c.item.key
  BY <1>1, <1>4
<1> QED
  BY <1>5, <1>6, <1>7, <1>8, <1>9, <1>10

\* A review that returns says what its sub-flows found: each finding once,
\* with the status and the level that follow from them, as they have written
\* them; and if nothing happened meanwhile, what they report alone.
THEOREM ResultsAreKept == FlowSpec => []ReviewKeepsResults
<1>1. FlowInv => ReviewKeepsResults
  <2> SUFFICES ASSUME FlowInv, Returned, Review, exit = 0
               PROVE  ReviewKeepsResults
    BY DEF ReviewKeepsResults
  <2>1. /\ LintOver /\ RiskOver /\ summary = Made
        /\ shown["review_summary.json"] = {summary}
    BY DEF FlowInv, EndInv, Returned
  <2>2. Reports("review_summary.json") = Made /\ Made.lint = lint /\ Made.risk = risk
    <3>1. Reports("review_summary.json") = Made
      BY <2>1, ShownOnDisk DEF Artifacts, ReviewWrites
    <3> QED
      BY <3>1 DEF Made
  <2>3. Succeeded(lint) => lint = Reports("lint_summary.json")
    BY <2>1, ShownOnDisk DEF LintOver, Artifacts, LintWrites
  <2>4. Succeeded(risk) => risk = Reports("risk_summary.json") /\ risk = Reports("risk_report.md")
    BY <2>1, ShownOnDisk DEF RiskOver, Artifacts, RiskWrites
  <2>5. edits = 0 /\ faults = 0 =>
           /\ FindingsOf(lint) = Alone(text).lint
           /\ FindingsOf(risk) = Alone(text).risk
           /\ \A r \in {lint, risk} : Succeeded(r) => r.quoted = text
    BY DEF FlowInv, AloneInv, LintAlone, RiskAlone, Returned
  <2> DEFINE kept == {r \in {lint, risk} : Succeeded(r)}
             all  == FindingsOf(lint) \cup FindingsOf(risk)
  <2>6. /\ Made.status = "success" <=> Succeeded(lint) /\ Succeeded(risk)
        /\ Made.status = "failure" <=> kept = {}
        /\ {c.item.finding : c \in {x \in Made.items : x.item.finding.category # "workflow"}} = all
        /\ Made.total = Cardinality(Made.items)
        /\ Made.level = "LOW" => Made.status = "success" /\ \A f \in all : f.severity \in {"info", "low"}
        /\ \A c \in Made.items : c.overlap > 1 => \E o \in Made.items \ {c} : o.item.key = c.item.key
    BY <2>1, MadeIsTrue
  <2> QED
    BY <2>2, <2>3, <2>4, <2>5, <2>6 DEF ReviewKeepsResults
<1> QED
  BY <1>1, FlowInductive, PTL


-----------------------------------------------------------------------------
(* Commands end. *)

\* The order in which a command comes through its stages.
Place ==
    << "lint_expand", "lint_read", "lint_rules", "lint_summary.json", "tokens.json", "ast.json", "lint.log",
       "risk_expand", "risk_read", "risk_rules", "risk_summary.json", "risk_report.md", "risk.log",
       "review_make", "review_summary.json", "review_report.md", "review.log", "idle" >>
Before(s, t) == \E j, k \in 1 .. 18 : j < k /\ s = Place[j] /\ t = Place[k]

\* What comes next in the same sub-flow, and what comes after it.
LEMMA StageOrder ==
    /\ Before("lint_expand", "lint_read") /\ Before("lint_read", "lint_rules")
    /\ Before("lint_rules", "lint_summary.json") /\ Before("lint_summary.json", "tokens.json")
    /\ Before("lint_summary.json", "lint.log") /\ Before("tokens.json", "ast.json")
    /\ Before("ast.json", "lint.log")
    /\ Before("risk_expand", "risk_read") /\ Before("risk_read", "risk_rules")
    /\ Before("risk_rules", "risk_summary.json") /\ Before("risk_summary.json", "risk_report.md")
    /\ Before("risk_report.md", "risk.log")
    /\ Before("review_make", "review_summary.json") /\ Before("review_summary.json", "review_report.md")
    /\ Before("review_report.md", "review.log") /\ Before("review.log", "idle")
    /\ \A s \in LintStages : Before(s, "risk_expand") /\ Before(s, "idle")
    /\ \A s \in RiskStages : Before(s, "review_make") /\ Before(s, "idle")
    /\ \A s \in {"review_make", "review_summary.json", "review_report.md", "review.log"} : Before(s, "idle")
<1>1. /\ Place[1] = "lint_expand" /\ Place[2] = "lint_read" /\ Place[3] = "lint_rules"
      /\ Place[4] = "lint_summary.json" /\ Place[5] = "tokens.json" /\ Place[6] = "ast.json"
      /\ Place[7] = "lint.log" /\ Place[8] = "risk_expand" /\ Place[9] = "risk_read"
      /\ Place[10] = "risk_rules" /\ Place[11] = "risk_summary.json" /\ Place[12] = "risk_report.md"
      /\ Place[13] = "risk.log" /\ Place[14] = "review_make" /\ Place[15] = "review_summary.json"
      /\ Place[16] = "review_report.md" /\ Place[17] = "review.log" /\ Place[18] = "idle"
  BY DEF Place
<1>2. \A j, k \in 1 .. 18 : j < k => Before(Place[j], Place[k])
  BY DEF Before
<1>3. \A j \in 1 .. 17 : Before(Place[j], "idle")
  BY <1>1, <1>2
<1>4. \A j \in 1 .. 7 : Before(Place[j], "risk_expand")
  BY <1>1, <1>2
<1>5. \A j \in 8 .. 13 : Before(Place[j], "review_make")
  BY <1>1, <1>2
<1>6. \A j \in 1 .. 17 : Before(Place[j], Place[j + 1])
  BY <1>2
<1> QED
  BY <1>1, <1>2, <1>3, <1>4, <1>5, <1>6 DEF LintStages, RiskStages

\* A sub-flow ends with what comes after all its stages.
LEMMA SubFlowEnds ==
    ASSUME NEW r
    PROVE  /\ stage \in LintStages /\ LintEnds(r) => Before(stage, stage')
           /\ stage \in RiskStages /\ RiskEnds(r) => Before(stage, stage')
BY StageOrder DEF LintEnds, RiskEnds, Goes, Ended

LEMMA RaisesMovesOn ==
    ASSUME FlowTypeOK, stage # "idle", Raises
    PROVE  Before(stage, stage')
<1>1. CASE stage \in LintStages /\ LintFails("internal")
  BY <1>1, SubFlowEnds DEF LintFails
<1>2. CASE stage \in RiskStages /\ RiskFails("internal")
  BY <1>2, SubFlowEnds DEF RiskFails
<1>3. CASE stage \notin LintStages \cup RiskStages /\ ReviewFails
  BY <1>3, StageOrder DEF ReviewFails, Ended, FlowTypeOK
<1> QED
  BY <1>1, <1>2, <1>3 DEF Raises

LEMMA LintMovesOn ==
    ASSUME LintExpand \/ LintRead \/ LintJudge \/ LintSummary \/ LintDebug \/ LintLog
    PROVE  Before(stage, stage') /\ run' = run
<1>1. CASE LintExpand
  <2>1. stage = "lint_expand" /\ stage \in LintStages /\ run' = run
    BY <1>1 DEF LintExpand, LintStages, Stays
  <2>2. LintFails("user") \/ Goes("lint_read")
    BY <1>1 DEF LintExpand
  <2> QED
    BY <2>1, <2>2, StageOrder, SubFlowEnds DEF LintFails, Goes
<1>2. CASE LintRead
  BY <1>2, StageOrder DEF LintRead, Goes, Stays
<1>3. CASE LintJudge
  <2>1. stage = "lint_rules" /\ stage \in LintStages /\ run' = run
    BY <1>3 DEF LintJudge, LintStages, Stays
  <2>2. LintFails("internal") \/ Goes("lint_summary.json")
    BY <1>3 DEF LintJudge
  <2> QED
    BY <2>1, <2>2, StageOrder, SubFlowEnds DEF LintFails, Goes
<1>4. CASE LintSummary
  <2>1. /\ stage = "lint_summary.json" /\ run' = run
        /\ Goes(IF command.debug THEN "tokens.json" ELSE "lint.log")
    BY <1>4 DEF LintSummary, Write, Stays
  <2>2. stage' = "tokens.json" \/ stage' = "lint.log"
    BY <2>1 DEF Goes
  <2> QED
    BY <2>1, <2>2, StageOrder
<1>5. CASE LintDebug
  BY <1>5, StageOrder DEF LintDebug, Write, Goes, Stays
<1>6. CASE LintLog
  <2>1. stage = "lint.log" /\ LintEnds(lint) /\ run' = run /\ stage \in LintStages
    BY <1>6 DEF LintLog, Write, Stays, LintStages
  <2> QED
    BY <2>1, SubFlowEnds
<1> QED
  BY <1>1, <1>2, <1>3, <1>4, <1>5, <1>6

LEMMA RiskMovesOn ==
    ASSUME RiskExpand \/ RiskRead \/ RiskJudge \/ RiskSummary \/ RiskReport \/ RiskLog
    PROVE  Before(stage, stage') /\ run' = run
<1>1. CASE RiskExpand
  <2>1. stage = "risk_expand" /\ stage \in RiskStages /\ run' = run
    BY <1>1 DEF RiskExpand, RiskStages, Stays
  <2>2. RiskFails("user") \/ Goes("risk_read")
    BY <1>1 DEF RiskExpand
  <2> QED
    BY <2>1, <2>2, StageOrder, SubFlowEnds DEF RiskFails, Goes
<1>2. CASE RiskRead
  <2>1. stage = "risk_read" /\ stage \in RiskStages /\ run' = run
    BY <1>2 DEF RiskRead, RiskStages, Stays
  <2>2. RiskFails("user") \/ Goes("risk_rules")
    BY <1>2 DEF RiskRead
  <2> QED
    BY <2>1, <2>2, StageOrder, SubFlowEnds DEF RiskFails, Goes
<1>3. CASE RiskJudge
  <2>1. stage = "risk_rules" /\ stage \in RiskStages /\ run' = run
    BY <1>3 DEF RiskJudge, RiskStages, Stays
  <2>2. RiskFails("internal") \/ Goes("risk_summary.json")
    BY <1>3 DEF RiskJudge
  <2> QED
    BY <2>1, <2>2, StageOrder, SubFlowEnds DEF RiskFails, Goes
<1>4. CASE RiskSummary \/ RiskReport
  BY <1>4, StageOrder DEF RiskSummary, RiskReport, Write, Goes, Stays
<1>5. CASE RiskLog
  <2>1. stage = "risk.log" /\ RiskEnds(risk) /\ run' = run /\ stage \in RiskStages
    BY <1>5 DEF RiskLog, Write, Stays, RiskStages
  <2> QED
    BY <2>1, SubFlowEnds
<1> QED
  BY <1>1, <1>2, <1>3, <1>4, <1>5

LEMMA ReviewMovesOn ==
    ASSUME ReviewMake \/ ReviewSummary \/ ReviewReport \/ ReviewLog
    PROVE  Before(stage, stage') /\ run' = run
<1>1. CASE ReviewMake
  BY <1>1, StageOrder DEF ReviewMake, Goes, Stays
<1>2. CASE ReviewSummary \/ ReviewReport
  BY <1>2, StageOrder DEF ReviewSummary, ReviewReport, Write, Goes, Stays
<1>3. CASE ReviewLog
  BY <1>3, StageOrder DEF ReviewLog, Write, Ended, Stays
<1> QED
  BY <1>1, <1>2, <1>3

\* Every command comes to its end, whatever is edited and wherever a file
\* operation fails: each step of lint, risk or review goes on to a later one of
\* seventeen stages, and neither an edit nor a failure takes it back.
THEOREM CommandsEnd ==
    FlowSpec => [][\/ stage = "idle" /\ run' = run + 1
                   \/ edits' = edits + 1 /\ UNCHANGED <<stage, run>>
                   \/ Before(stage, stage') /\ run' = run]_flow
<1> DEFINE MovesOn == \/ stage = "idle" /\ run' = run + 1
                      \/ edits' = edits + 1 /\ UNCHANGED <<stage, run>>
                      \/ Before(stage, stage') /\ run' = run
<1>1. ASSUME FlowTypeOK, [FlowNext]_flow, flow' # flow PROVE MovesOn
  <2>1. CASE Start \/ ReviewRefused
    BY <2>1 DEF Start, ReviewRefused, Called
  <2>2. CASE Edit
    BY <2>2 DEF Edit
  <2>3. CASE Fault
    <3>1. stage # "idle" /\ Raises /\ run' = run
      BY <2>3, Zenon DEF Fault
    <3> QED
      BY <1>1, <3>1, RaisesMovesOn
  <2> QED
    BY <1>1, <2>1, <2>2, <2>3, LintMovesOn, RiskMovesOn, ReviewMovesOn DEF FlowNext
<1>2. FlowTypeOK /\ [FlowNext]_flow => [MovesOn]_flow
  BY <1>1
<1> QED
  BY <1>2, FlowTypeCorrect, PTL DEF FlowSpec

=============================================================================
