------------------------------ MODULE ReviewFlow ------------------------------
(***************************************************************************)
(* The commands lint, risk and review of src/sta_lite/cli.py: run_lint and *)
(* run_risk, each alone or one after the other in run_review, while the    *)
(* RTL may be edited and a file operation may fail.  Each reads the RTL by *)
(* itself and writes its artifacts one by one; what a text means to the    *)
(* rules is a constant.                                                    *)
(***************************************************************************)
EXTENDS Naturals, Sequences, FiniteSets

CONSTANTS
    Texts,         \* text -> [lint, risk: sets of findings, top, named: BOOLEAN, raises: sub-flows]
    Absent,        \* the text of a missing file
    Commands,      \* [name, top, rules, entries, debug, failOn, define, gold]
    RuleCases,     \* RULE_TO_CASE_IDS: rule -> the case that comes first
    SyntaxRules,   \* the rules that begin with LEX, PARSE, PP, SYN, SEM00 ...
    UnsupportedRules,  \* ... and with UNSUPPORTED
    MaxRun, MaxEdit, MaxFault

\* What the rules report has one of their severities, and no rule reports in the
\* name of the review.  The command line takes the names and the choices below.
ASSUME FlowConstants ==
    /\ Absent \in DOMAIN Texts
    /\ \A t \in DOMAIN Texts :
         /\ IsFiniteSet(Texts[t].lint) /\ IsFiniteSet(Texts[t].risk)
         /\ \A f \in Texts[t].lint : f.severity \in {"error", "warning", "info"}
         /\ \A f \in Texts[t].risk : f.severity \in {"high", "medium", "low"}
         /\ \A f \in Texts[t].lint \cup Texts[t].risk : f.category # "workflow"
    /\ \A c \in Commands :
         /\ c.name \in {"lint", "risk", "review"} /\ c.define \in {"good", "empty"}
         /\ c.rules \in {"none", "good", "array", "missing", "syntax", "shape", "format"}
         /\ IsFiniteSet(c.entries)

VARIABLES
    text,          \* the RTL file
    command,
    stage,         \* the next thing to do; "idle" if no command runs
    read,          \* the text that the running sub-flow has read
    lint, risk,    \* what the sub-flows have come to
    summary,       \* what run_review has put together
    disk,          \* the artifacts: [run, content]
    exit,          \* the exit code of the last command
    run, edits, faults

flow == <<text, command, stage, read, lint, risk, summary, disk, exit, run, edits, faults>>

Finding(rule, severity, line, category) ==
    [rule |-> rule, severity |-> severity, line |-> line, category |-> category]
None   == [status |-> "none"]
Failed(kind) == [status |-> kind]   \* "user": a UserError, "internal": any other exception
Of(t)  == [status |-> "of", text |-> t]
Review == command.name = "review"

-----------------------------------------------------------------------------
(* Custom rules. *)

Config(severity) == Finding("CUSTOM_RULE_CONFIG", severity, 1, "custom_rule")

\* load_custom_rule_config: a file that is missing, no JSON or without a list
\* of rules is an error, one of another format a warning; JSON that is no
\* object has no rules, and nothing is said of it.
RulesFile(rules) ==
    CASE rules \in {"missing", "syntax", "shape"} -> {Config("error")}
      [] rules = "format" -> {Finding("CUSTOM_RULE_UNSUPPORTED", "warning", 1, "unsupported")}
      [] rules \in {"none", "good", "array"} -> {}
Entries == IF command.rules = "good" THEN command.entries ELSE {}

\* run_custom_rules: an entry that is no object ends the lint run.
CustomFindings(t) ==
    {Finding("CUSTOM", "error", 2, "custom_rule") : e \in Entries \cap IF Texts[t].named THEN {"matches"} ELSE {}}
    \cup {Config("error") : e \in Entries \cap {"pattern"}}
    \cup {Finding("CUSTOM_RULE_UNSUPPORTED", "warning", 1, "custom_rule") : e \in Entries \cap {"kind"}}
CustomRaises == "text" \in Entries

-----------------------------------------------------------------------------
(* What the sub-flows find. *)

TopMissing(t) == command.top /\ ~Texts[t].top
LintFindings(t) ==
    RulesFile(command.rules) \cup Texts[t].lint \cup CustomFindings(t)
    \cup (IF TopMissing(t) THEN {Finding("SEM001_TOP_NOT_FOUND", "error", 1, "semantic")} ELSE {})

Errors(findings) ==
    {f \in findings : \/ f.severity = "error" \/ f.category = "unsupported" \/ f.rule \in UnsupportedRules}
Warnings(findings) == {f \in findings : f.severity = "warning"}
LintLevel(findings) ==
    IF Errors(findings) # {} THEN "HIGH" ELSE IF Warnings(findings) # {} THEN "MEDIUM" ELSE "LOW"
RiskLevel(findings) ==
    IF \E f \in findings : f.severity = "high" THEN "HIGH"
    ELSE IF \E f \in findings : f.severity = "medium" THEN "MEDIUM" ELSE "LOW"

\* compare_with_gold: what the gold reports confirm, by their keywords for a
\* category or by the name of a rule, and what they have besides.
Gold(findings) ==
    LET gold      == command.gold
        confirmed == {f.rule : f \in {x \in findings : x.category \in gold.categories \/ x.rule \in gold.rules}}
    IN  [confirmed   |-> confirmed,
         unconfirmed |-> {f.rule : f \in findings} \ confirmed,
         unpredicted |-> gold.categories \ {f.category : f \in findings}]

\* The excerpts are taken from the file once more.
LintResult(t, quoted) ==
    [status |-> "success", findings |-> LintFindings(t), level |-> LintLevel(LintFindings(t)), quoted |-> quoted]
RiskResult(t, quoted) ==
    [status |-> "success", findings |-> Texts[t].risk, level |-> RiskLevel(Texts[t].risk), quoted |-> quoted,
     gold |-> Gold(Texts[t].risk)]

-----------------------------------------------------------------------------
(* The ends of the commands. *)

Ended(code) == stage' = "idle" /\ exit' = code
Goes(next)  == stage' = next /\ UNCHANGED exit

\* cmd_lint; an exception that is no UserError ends Python with 1, too.
LintExit(r) ==
    LET over == IF command.failOn = "warning" THEN Errors(r.findings) \cup Warnings(r.findings)
                ELSE IF command.failOn = "error" THEN Errors(r.findings) ELSE {}
    IN  IF over = {} THEN 0 ELSE 1
ErrorExit(r) == IF r.status = "user" THEN 2 ELSE 1

\* Mutant of LintEnds: a failed lint run ends the review.
LintEndsReview(r) ==
    /\ lint' = r
    /\ IF Review /\ r.status = "success" THEN Goes("risk_expand")
       ELSE IF Review THEN Goes("review_make")
       ELSE Ended(IF r.status = "success" THEN LintExit(r) ELSE ErrorExit(r))

LintEnds(r) ==
    /\ lint' = r
    /\ IF Review THEN Goes("risk_expand")
       ELSE Ended(IF r.status = "success" THEN LintExit(r) ELSE ErrorExit(r))
RiskEnds(r) ==
    /\ risk' = r
    /\ IF Review THEN Goes("review_make")
       ELSE Ended(IF r.status = "success" THEN 0 ELSE ErrorExit(r))

LintFails(kind) == LintEnds(Failed(kind)) /\ UNCHANGED <<risk, summary>>
RiskFails(kind) == RiskEnds(Failed(kind)) /\ UNCHANGED <<lint, summary>>
ReviewFails     == Ended(1) /\ UNCHANGED <<lint, risk, summary>>

LintStages == {"lint_expand", "lint_read", "lint_rules", "lint_summary.json", "tokens.json", "ast.json", "lint.log"}
RiskStages == {"risk_expand", "risk_read", "risk_rules", "risk_summary.json", "risk_report.md", "risk.log"}

\* An exception in the running stage ends its sub-flow, or the review.
Raises ==
    \/ stage \in LintStages /\ LintFails("internal")
    \/ stage \in RiskStages /\ RiskFails("internal")
    \/ stage \notin LintStages \cup RiskStages /\ ReviewFails

-----------------------------------------------------------------------------
(* The steps. *)

Path(artifact) == <<command.name, artifact>>
Written(artifact, content) ==
    [p \in DOMAIN disk \cup {Path(artifact)} |->
        IF p = Path(artifact) THEN [run |-> run, content |-> content] ELSE disk[p]]
Put(artifact, content) == disk' = Written(artifact, content)

FlowInit ==
    /\ text \in DOMAIN Texts
    /\ command = None
    /\ stage = "idle"
    /\ read = Absent
    /\ lint = None /\ risk = None /\ summary = None
    /\ disk = <<>>
    /\ exit = 0
    /\ run = 0 /\ edits = 0 /\ faults = 0

\* main: a command starts; the same one again in the same directory.
Called ==
    /\ stage = "idle" /\ run < MaxRun
    /\ command' \in IF run = 0 THEN Commands ELSE {command}
    /\ run' = run + 1
    /\ read' = Absent /\ lint' = None /\ risk' = None /\ summary' = None
    /\ UNCHANGED <<text, disk, edits>>
Start ==
    /\ Called
    /\ IF command'.define = "empty" THEN Ended(2)
       ELSE stage' = (IF command'.name = "risk" THEN "risk_expand" ELSE "lint_expand") /\ UNCHANGED exit
    /\ UNCHANGED faults

\* run_review cannot make its directory: no sub-flow starts.
ReviewRefused ==
    /\ Called /\ command'.name = "review" /\ command'.define = "good"
    /\ faults < MaxFault /\ faults' = faults + 1
    /\ Ended(1)

\* The user saves the RTL, or moves it away.
Edit ==
    /\ edits < MaxEdit
    /\ \E t \in DOMAIN Texts \ {text} : text' = t
    /\ edits' = edits + 1
    /\ UNCHANGED <<command, stage, read, lint, risk, summary, disk, exit, run, faults>>

Stays == UNCHANGED <<text, command, run, edits, faults>>

\* expand_rtl_files
LintExpand ==
    /\ stage = "lint_expand"
    /\ IF text = Absent THEN LintFails("user") ELSE Goes("lint_read") /\ UNCHANGED <<lint, risk, summary>>
    /\ UNCHANGED <<read, disk>> /\ Stays
RiskExpand ==
    /\ stage = "risk_expand"
    /\ IF text = Absent THEN RiskFails("user") ELSE Goes("risk_read") /\ UNCHANGED <<lint, risk, summary>>
    /\ UNCHANGED <<read, disk>> /\ Stays

\* Preprocessor, Lexer and Parser; a file that is gone by now is a diagnostic.
LintRead ==
    /\ stage = "lint_read"
    /\ read' = text
    /\ Goes("lint_rules")
    /\ UNCHANGED <<lint, risk, summary, disk>> /\ Stays
RiskRead ==
    /\ stage = "risk_read"
    /\ read' = text
    /\ IF TopMissing(text) THEN RiskFails("user") ELSE Goes("risk_rules") /\ UNCHANGED <<lint, risk, summary>>
    /\ UNCHANGED disk /\ Stays

\* The rules, the excerpts and the summary.
LintJudge ==
    /\ stage = "lint_rules"
    /\ IF "lint" \in Texts[read].raises \/ CustomRaises THEN LintFails("internal")
       ELSE lint' = LintResult(read, text) /\ Goes("lint_summary.json") /\ UNCHANGED <<risk, summary>>
    /\ UNCHANGED <<read, disk>> /\ Stays
RiskJudge ==
    /\ stage = "risk_rules"
    /\ IF "risk" \in Texts[read].raises THEN RiskFails("internal")
       ELSE risk' = RiskResult(read, text) /\ Goes("risk_summary.json") /\ UNCHANGED <<lint, summary>>
    /\ UNCHANGED <<read, disk>> /\ Stays

\* The last artifact of a sub-flow is its log; then it returns.
Write(artifact, content) == stage = artifact /\ Put(artifact, content) /\ UNCHANGED <<read, summary>> /\ Stays
LintSummary ==
    /\ Write("lint_summary.json", lint)
    /\ Goes(IF command.debug THEN "tokens.json" ELSE "lint.log")
    /\ UNCHANGED <<lint, risk>>
LintDebug ==
    \/ Write("tokens.json", Of(read)) /\ Goes("ast.json") /\ UNCHANGED <<lint, risk>>
    \/ Write("ast.json", Of(read)) /\ Goes("lint.log") /\ UNCHANGED <<lint, risk>>
LintLog == Write("lint.log", Of(read)) /\ LintEnds(lint) /\ UNCHANGED risk
RiskSummary == Write("risk_summary.json", risk) /\ Goes("risk_report.md") /\ UNCHANGED <<lint, risk>>
RiskReport  == Write("risk_report.md", risk) /\ Goes("risk.log") /\ UNCHANGED <<lint, risk>>
RiskLog     == Write("risk.log", Of(read)) /\ RiskEnds(risk) /\ UNCHANGED lint

-----------------------------------------------------------------------------
(* _make_summary of the review. *)

Succeeded(r) == r.status = "success"
FindingsOf(r) == IF Succeeded(r) THEN r.findings ELSE {}

\* classify_diagnostic: the first case of the rule; a rule that is in no case
\* goes by its prefix, or stands for itself.
CaseOf(source, f) ==
    IF f.rule \in DOMAIN RuleCases THEN RuleCases[f.rule]
    ELSE IF source = "lint" /\ f.rule \in SyntaxRules THEN "P0_SYNTAX_GRAMMAR"
    ELSE IF source = "lint" /\ f.rule \in UnsupportedRules THEN "P0_SYNTHESIZABILITY"
    ELSE f.rule

Item(source, f) == [source |-> source, finding |-> f, key |-> <<CaseOf(source, f), f.line>>]
Blocked(source, rule, severity, r) ==
    IF Succeeded(r) THEN {} ELSE {Item(source, Finding(rule, severity, 1, "workflow"))}
Items ==
    {Item("lint", f) : f \in FindingsOf(lint)} \cup {Item("profiling", f) : f \in FindingsOf(risk)}
    \cup Blocked("lint", "LINT_WORKFLOW_BLOCKED", "error", lint)
    \cup Blocked("profiling", "RISK_WORKFLOW_BLOCKED", "high", risk)

\* _correlate_items: each item with the sources of its group and its size.
Correlated(items) ==
    LET group(i) == {j \in items : j.key = i.key} IN
    {[item |-> i, sources |-> {j.source : j \in group(i)}, overlap |-> Cardinality(group(i))] : i \in items}

Failures == Cardinality({r \in {<<"lint", lint>>, <<"risk", risk>>} : ~Succeeded(r[2])})
Levels   == {r.level : r \in {x \in {lint, risk} : Succeeded(x)}}

\* Mutant of LintArtifacts: the review names the files of lint in any case.
LintArtifactsAlways == {"lint.log", "lint_summary.json"}

LintArtifacts == IF Succeeded(lint) THEN {"lint.log", "lint_summary.json"} ELSE {}
RiskArtifacts == IF Succeeded(risk) THEN {"risk.log", "risk_summary.json", "risk_report.md"} ELSE {}

Made ==
    [status    |-> <<"success", "partial_success", "failure">>[Failures + 1],
     total     |-> Cardinality(FindingsOf(lint)) + Cardinality(FindingsOf(risk)) + Failures,
     level     |-> IF Errors(FindingsOf(lint)) # {} \/ Failures > 0 \/ "HIGH" \in Levels THEN "HIGH"
                   ELSE IF "MEDIUM" \in Levels THEN "MEDIUM" ELSE "LOW",
     items     |-> Correlated(Items),
     lint      |-> lint,
     risk      |-> risk,
     artifacts |-> {"review.log", "review_summary.json", "review_report.md"}
                   \cup LintArtifacts \cup RiskArtifacts]

ReviewMake ==
    /\ stage = "review_make"
    /\ summary' = Made
    /\ Goes("review_summary.json")
    /\ UNCHANGED <<read, lint, risk, disk>> /\ Stays

ReviewSummary == Write("review_summary.json", summary) /\ Goes("review_report.md") /\ UNCHANGED <<lint, risk>>
ReviewReport  == Write("review_report.md", summary) /\ Goes("review.log") /\ UNCHANGED <<lint, risk>>
ReviewLog     == Write("review.log", Of(read)) /\ Ended(0) /\ UNCHANGED <<lint, risk>>

\* An operation on a file fails in the running stage: a write may have emptied
\* the file before.
Fault ==
    /\ stage \notin {"idle", "review_make"} /\ faults < MaxFault
    /\ faults' = faults + 1
    /\ disk' \in {disk} \cup
         IF stage \in {"lint_expand", "lint_read", "lint_rules", "risk_expand", "risk_read", "risk_rules"} THEN {}
         ELSE {Written(stage, Failed("cut off"))}
    /\ Raises
    /\ UNCHANGED <<text, command, read, run, edits>>

AllRun == stage = "idle" /\ run = MaxRun

FlowNext ==
    \/ Start \/ ReviewRefused \/ Edit
    \/ LintExpand \/ LintRead \/ LintJudge \/ LintSummary \/ LintDebug \/ LintLog
    \/ RiskExpand \/ RiskRead \/ RiskJudge \/ RiskSummary \/ RiskReport \/ RiskLog
    \/ ReviewMake \/ ReviewSummary \/ ReviewReport \/ ReviewLog
    \/ Fault
    \/ AllRun /\ UNCHANGED flow

FlowSpec == FlowInit /\ [][FlowNext]_flow

-----------------------------------------------------------------------------
(* Properties. *)

Returned == stage = "idle" /\ run > 0

\* A sub-flow runs in a command that has it, and while the review writes, both
\* have ended.
FlowTypeOK ==
    /\ text \in DOMAIN Texts /\ read \in DOMAIN Texts
    /\ stage \in LintStages \cup RiskStages \cup
                 {"idle", "review_make", "review_summary.json", "review_report.md", "review.log"}
    /\ stage \in LintStages => command.name # "risk"
    /\ stage \in RiskStages => command.name # "lint"
    /\ stage \notin LintStages \cup RiskStages \cup {"idle"} => Review /\ lint # None /\ risk # None
    /\ \A p \in DOMAIN disk : disk[p].run \in 1 .. run
    /\ exit \in 0 .. 2

OnDisk(artifact)  == Path(artifact) \in DOMAIN disk /\ disk[Path(artifact)].run = run
Reports(artifact) == disk[Path(artifact)].content

\* What the sub-flow would report of the text, alone.
Alone(t) ==
    [lint |-> IF "lint" \in Texts[t].raises \/ CustomRaises \/ t = Absent THEN {} ELSE LintFindings(t),
     risk |-> IF "risk" \in Texts[t].raises \/ TopMissing(t) \/ t = Absent THEN {} ELSE Texts[t].risk]

\* A review that returns has the results of both sub-flows, or of the one that
\* did not fail, wherever the other one failed: as that sub-flow has written
\* them, each finding an item of its own, and with the status and the level
\* that follow from them.  If nothing was edited and no file operation failed,
\* they are what the two commands report alone (Rules.md, Combined RTL Review
\* Rules).
ReviewKeepsResults ==
    Returned /\ Review /\ command.define = "good" /\ exit = 0 =>
        LET s    == Reports("review_summary.json")
            kept == {r \in {s.lint, s.risk} : Succeeded(r)}
            all  == FindingsOf(s.lint) \cup FindingsOf(s.risk)
        IN  /\ Succeeded(s.lint) => s.lint = Reports("lint_summary.json")
            /\ Succeeded(s.risk) => s.risk = Reports("risk_summary.json") /\ s.risk = Reports("risk_report.md")
            /\ s.status = "success" <=> Succeeded(s.lint) /\ Succeeded(s.risk)
            /\ s.status = "failure" <=> kept = {}
            /\ {c.item.finding : c \in {x \in s.items : x.item.finding.category # "workflow"}} = all
            /\ s.total = Cardinality(s.items)
            /\ s.level = "LOW" => s.status = "success" /\ \A f \in all : f.severity \in {"info", "low"}
            /\ \A c \in s.items : c.overlap > 1 => \E o \in s.items \ {c} : o.item.key = c.item.key
            /\ edits = 0 /\ faults = 0 =>
                  /\ FindingsOf(s.lint) = Alone(text).lint
                  /\ FindingsOf(s.risk) = Alone(text).risk
                  /\ \A r \in kept : r.quoted = text

\* Whatever an earlier run has left in the directory: a command that returns
\* its summary has written every artifact that the summary names in this run,
\* and the exit code of lint says what is in it.
ArtifactsAreOfThisRun ==
    Returned /\ command.define = "good" =>
        /\ Review /\ exit = 0 => \A a \in Reports("review_summary.json").artifacts : OnDisk(a)
        /\ command.name = "risk" /\ exit = 0 =>
              \A a \in {"risk_summary.json", "risk_report.md", "risk.log"} : OnDisk(a) /\ Reports(a).status # "cut off"
        /\ command.name = "lint" /\ exit = 0 =>
              /\ \A a \in {"lint_summary.json", "lint.log"} : OnDisk(a)
              /\ command.failOn = "error" => Errors(Reports("lint_summary.json").findings) = {}
              /\ command.failOn = "warning" => Warnings(Reports("lint_summary.json").findings) = {}
        /\ exit = 2 => \A a \in {"lint.log", "risk.log", "review.log"} : ~OnDisk(a)

=============================================================================
