# A TLA+ verification of STA-lite

STA-lite checks RTL before and during static timing analysis: a lint, a
timing-risk profiler and a review workflow that work on the source text alone,
a backend analysis that drives Yosys and OpenSTA, and a local web GUI that runs
all of these as jobs. This directory holds TLA+ models of the parts of it whose
correctness depends on the order in which things happen, the TLC runs that check
them on small instances, and TLAPS proofs of what matters most for every
instance. All paths are relative to the repository, which is at `src/`.

## 1. Inventory

| component | state | operations | hard behaviour |
|---|---|---|---|
| **Backend analysis** `sta_lite/core/runner.py` | the worker's position in `analyze()`; `ProcessController._stop_requested` and `_process`; two tool processes; the files of `out_dir` | `require_inputs`, `render_templates`, `run_streaming_command` for Yosys and OpenSTA, `attach`/`detach`/`request_stop`, `make_summary` | a stop request from another thread between any two steps; tools that hang, fail or die; files of earlier and of other runs in the same directory; the death of the process |
| **Job managers** `sta_lite/gui/server.py` | per job: `status`, `summary`, `error`, `finished_at`, the queue `events`, the controller | `create`, `_run_job`, `stop`, `snapshot`, `_handle_events` for backend, lint, risk and review jobs | fields without a lock, read by request threads while the worker writes them; several streams on one destructive queue; clients that leave; an exception in the exception handler |
| **GUI pages** `sta_lite/gui/static/app.js` | buttons, `currentJobId`, one `EventSource` per page, awaited fetches | run, stop, clear, terminal events, connection errors | every handler may run while another awaits its fetch; lost requests and connections |
| **Preprocessor** `sta_lite/lint/preprocessor.py` | stack of files being read, conditional frames per file, macros, block comment flag | every directive, comments, macro use | nesting and recursion of files; state shared by all files |
| **Lint** `sta_lite/lint/` lexer, parser, symbol table, built-in rules, SDC checker, workflow | the tokens, the parser's index, syntax trees, diagnostics; files of `out_dir` | one parse function per construct, one function per rule, `run_lint` | the parser's recovery after an error; constructs told apart by their first tokens; rules that put facts about a net together over many places |
| **Custom lint rules** `sta_lite/lint/rule_engine.py` | entries of a rule file | `load_custom_rule_config`, `run_custom_rules` | rule files that are wrong in some way, one of which ends the run |
| **Risk analysis** `sta_lite/risk/` | features of a design, dependency graph, diagnostics | one function per rule; the loop rule searches a graph; `run_risk`, `compare_with_gold` | Tarjan's algorithm with an unordered neighbour set; rules that depend on the order of blocks; a rule that raises |
| **Review workflow** `sta_lite/review/`, with the **case registry** | two sub-summaries, items, correlation; artifacts of both sub-flows | `run_review`, `_make_summary`, `_correlate_items`, `classify_diagnostic` | one sub-flow fails and the other must survive; the RTL changes between the two; files of earlier runs |
| **Diff runner** `sta_lite/lint/diff_runner.py` | the corpus, the results so far, a matrix, eight output files | `load_cases`, `run_iverilog`, `run_sta_lite`, `compare`, `build_coverage_matrix` | cases or tools that fail half-way; duplicate cases; a verdict put together from many answers |
| **Command line** `sta_lite/cli.py` | exit codes | `lint`, `risk`, `review`, `lint-diff`, `gui` | codes that stand for several things |
| **Report parsers, desktop, shared records, scripts** | none, or files | text and process handling | none that depends on order |

How they interact. A page posts a run; the server's manager creates a job and a
thread that calls the workflow; the workflow calls back `on_log`, which queues
events; a request thread takes events from the queue and writes them to the
page's `EventSource`; a terminal event makes the page fetch the job. `POST
/api/stop` reaches the controller of a backend job, which the worker thread
consults and attaches each tool process to. The review workflow calls lint and
risk, each of which reads the RTL for itself through preprocessor, lexer and
parser; the diff runner starts a lint process per case. All jobs with the
same `out_dir` share its files.

What makes each component correct:

- *Analysis*: no stop request is lost; a run that was asked to stop in time is
  never a success; a stop ends a run even if its tool hangs; no tool outlives its
  run; a success is computed from the run's own files only.
- *Job managers*: a job settles once and announces it once; whoever sees the
  terminal event finds the fields settled; a snapshot is explained by what it
  shows; a sole stream ends; no line of a job's log is lost.
- *GUI pages*: one run at a time; whatever happens, the buttons come back.
- *Preprocessor*: what is put out is what the conditionals select; errors are
  reported for exactly the files that have them; include guards work.
- *Loop rule*: the components found are the strongly connected ones whatever the
  order of the neighbours; every loop is reported (that only loops are is not so, section 4).
- *Parser*: a legal text is read for what it is, whatever stands beside it; every
  turn of a loop takes a token; damage is reported and does not spread to the next
  module.
- *Lint and risk rules*: what they report of nets, ports, latches, widths, state
  machines and clock crossings is what Verilog says of the text, or the exception
  is one that the property names.
- *Review*: the failure of one sub-flow leaves the result of the other; what a
  summary names was written by its own run.
- *Diff runner*: exit code 0 and "supported" mean that the cases were seen and found.

The hazards, each at its line with the properties aimed at it, are listed in
`PROJECT.json`.

## 2. Modules

```
  GuiPanel ──uses──> JobLifecycle <──implements── JobManager ──uses──> RunContract
                                                                           ^
                             Analysis ──────────implements─────────────────┘

  Preprocessor   Tokens <- Parser <- Widths <- LintRules <- RiskRules <- Reading
        └────── FrontEnd ────┘                                             │
                    └──────────────── MCFrontEnd ──────────────────────────┘
  CombinationalLoop   ReviewFlow   DiffBatch
        └────────────── MCFlows ────────┘
```

The three layers of the running program are composed by abstraction. Each layer
is modelled in full detail against the *specification* of the layer below, and
the layer below is shown to implement that specification:

- **`RunContract`** is what a workflow promises to the job that runs it: a run goes
  from `idle` to `running`; it commits, if no stop has been requested; a committed
  run succeeds or fails, one that has not committed can only fail. With fairness: a
  run that was asked to stop ends.
- **`Analysis`** is `runner.py`. One action per step of the worker between which
  another thread can observe something: `WriteConstraints`, `WriteScript`,
  `OpenMirror`, `Launch`, `Attach`, `StreamEnds`, `Detach`, `CheckStop`,
  `JudgeYosys`, `JudgeSta`, `Summarise`, `SaveSummary`; `RequestStop` is the other
  thread, `ToolLoads` and `ToolExits` are the tools (external), `Crash` the death
  of the process. `LaunchFails`, `StreamFails` and `FileFails` are the exceptions
  that leave `analyze()`. A file is abstracted to *who wrote it* (`disk`), the inputs a
  tool has read to who had written them (`saw`): just enough to tell a stale or
  foreign file from the run's own. Its `ImplementsContract` is the refinement.
- **`JobLifecycle`** is what a client relies on: a job is created, runs, settles in
  one outcome, and then announces it with the matching event.
- **`JobManager`** is `_run_job` of the four managers (they differ in who can stop a
  job and where the status comes from: `Stoppable`, `Reviewing`), one action per
  field assignment and queue operation, since nothing is locked; `Connect`, `Take`,
  `Deliver`, `Leave`, `WriteToNobody` are the event streams; `Look` reads one field
  of a snapshot. It uses `RunContract` for the workflow.
- **`GuiPanel`** is one page of `app.js`: an action per handler, an awaited fetch
  split at the `await`. `page` says which of the pages it is. It uses
  `JobLifecycle` for the server.
- **`Preprocessor`** is `preprocessor.py`, with an action per kind of line and
  directive. The texts of the files are chosen while they are read (`text`), so one
  behaviour is one run over one set of files. A line is its directive, the argument
  and whether a comment begins after it.
- **`CombinationalLoop`** is the rule `RISK_COMBINATIONAL_LOOP`: `ContinuousEdges`
  and `BlockEdges` build the graph, `Root`, `Descend`, `LookBack`, `Leave` and
  `LeaveWithComponent` are `_tarjan_scc` with its recursion made a stack of
  activations, `Loops` is the rule's choice.
- **`Tokens`** has the keywords and operators and what the code computes of a
  sequence of tokens: groups, top-level splits, the checks of expressions, ranges
  and conditions. A token is its text; characters and number scanning are left to
  the lexer, which is not modelled.
- **`Parser`** is `parser.py`. Its state is the index and what is being read
  (`scope`, `module`); an action is one turn of one of the parser's loops: a top-level
  item or an item of a module, with everything the turn calls, `_collect_*`
  included. Diagnostics (`errors`) keep their rule and token.
- **`Widths`** is the estimate of `_expression_width` and the constants it needs,
  **`LintRules`** the built-in rules, the symbol table and the SDC rules, **`RiskRules`**
  the risk rules with their settings, as functions from a design to the set of
  reports. The names that the code recognises by regular expressions are constants
  (`ClockName`, `Called`, ...), and so are the thresholds.
- **`Corpus`** is a family of texts in which the meaning of each text is known from
  its description: two items of a module in either order, a source without one of
  its tokens, an instance with its ports connected in every way, a tree of
  conditionals, an assignment with an expression, a state machine, a pair of clock
  domains. **`Reading`** states that parser and rules find exactly that meaning.
- **`FrontEnd`** puts `Preprocessor` and `Parser` side by side, as the lint and the
  risk workflow do; `MCFrontEnd` gives it its files and texts.
- **`ReviewFlow`** is `run_lint`, `run_risk` and `run_review` as the commands call them:
  a stage per read or write of a file, `Edit` for a user who saves the RTL in
  between, `Fault` for a file operation that fails and may leave its file cut off,
  `ReviewRefused` for a review that cannot make its directory.
  What a text means to the rules is a constant, as are the entries of the custom
  rules.
- **`DiffBatch`** is the regression of lint: reference tool, lint process and
  comparison for one case after the other, and the files at the end.
- **`AnalysisProofs`, `JobManagerProofs`, `GuiPanelProofs`, `LoopProofs`,
  `PreprocessorProofs`, `ParserProofs`, `ReviewFlowProofs`, `DiffBatchProofs`** hold the
  theorems (section 5). `MC*` modules give the constants their values.

An operator introduced as a *mutant* of an action is that action with a plausible
mistake. None is part of a specification; each shows that the property it is listed
with in `PROJECT.json` would notice the mistake.

## 3. Runs

| run | instance | what it shows |
|---|---|---|
| `AnalysisSequential` | two runs in one directory, one after the other; failing launches and file operations | no lost stop, no process left behind, the controller refers to the process being read, a success is the run's own although the first run left its files |
| `AnalysisStop` | one run, all faults, fairness | a stop before the last check prevents success, ends the run, and the run implements `RunContract` |
| `AnalysisSilent` | two runs, one after the other; tools that exit with 0 without output | *violated*: old reports make such a run a success (`runner.py:394` only looks for files) |
| `AnalysisOverlap` | two runs at once | *violated*: one run succeeds on the other's constraints |
| `JobsBackend` | a backend job, two streams, two stops, all faults | nothing but stop notes is left behind a terminal event; a job stopped in time is never a success |
| `JobsReview` | a review job, two streams, a snapshot, fairness | snapshots and terminal events agree with the fields; `JobLifecycle` is implemented; a sole stream ends |
| `JobsUnreadable` | a review job whose old summary cannot be looked for | *violated*: the error event is never put (`server.py:118`) |
| `Panel` | all kinds of pages, two jobs, lost posts and connections | a busy page starts no run, jobs do not overlap unless something was lost, the buttons of pages without *clear* come back |
| `PanelClear` | the risk or review page | *violated*: *clear* during a run leaves the run button disabled |
| `FrontEnd` | an RTL file of two lines, one that is gone, and a header of three that is an RTL file too; and 4116 module texts as sequences of tokens | selection, errors and include guards are what the lines say; the parser reads the texts for what they are, advances, and contains damage; reports on nets, ports, latches, widths, machines and crossings are the true ones |
| `Flows` | all graphs of three signals, all of four without self-loops, small procedural blocks; eleven commands on five texts, each run twice, one edit, one fault; twenty corpora of up to two cases | components, the invariant of the search, no loop missed; a review keeps what its sub-flows found; artifacts are of the run that names them; the verdict of the regression is true |
| `OverrideRefused` | two legal texts of the repository's corpus that override a parameter | *violated*: the instance is refused token by token (`lint/parser.py:965`) |

**Bounds.** Two runs are enough for `Analysis`: a property relates a run to at most
one earlier or concurrent one, and the theorems of section 5 hold for any number.
`MaxLog` and `MaxStop` bound what a job can put into its queue: two log lines or
notes are enough for every order of a log line, a note and a terminal event. Two
streams are the smallest number that compete. Two jobs on a page are one run and
the next. The preprocessor's texts, two and three lines, are long enough for an
`ifdef` around an include of a guarded header, an include of the file that includes
it, a header read twice, a comment or a conditional that is left open at the end of
either file, and a stray `` `else ``; the header's guard needs its three lines. Four
signals without self-loops and three with them give all shapes a search can meet
first: cross, back and forward edges, a component inside the reach of another, two
roots. The corpus of `FrontEnd` combines every construct of the parser with every
other one, drops every token of every construct once, and enumerates trees of
conditionals, expressions and machines completely up to their size: a defect of the
rules needs two places that disagree, and the texts have two. Two runs of a command
are this run and the one whose artifacts are still there; one edit and one fault can
be anywhere, and a second of either meets a stage that the first one could have hit.
In the regression a case alone or two (of one category, of one id, with one that
ends the batch) meet every branch of the comparison, whose lists have no state
besides. The module texts are those of a `.v` file (`Suffix`), where the rule for unused
signals is on. `FrontEnd` and `Flows` run several searches that share no variable side by
side; a behaviour is one of them. `RunSymmetry` is used for invariants only.

**Deadlock** is checked where the specification has a last state it can name
(`Finished`, `Done`). Jobs and pages may simply have nothing left to do, as a
client may never come or a tool may hang: their runs say `CHECK_DEADLOCK FALSE`.

**Fairness.** A thread that can run does run (`WF` of the worker's steps, the
streams' and the page's handlers). Nothing that depends on goodwill is assumed: a
fault never has to happen, a user owes no click, a tool may hang for ever and an
unstopped backend job with it. A tool that was sent SIGTERM ends, because neither
tool ignores it and `terminate()` is all the code does. Lint, risk and review
workflows end because they loop over finite inputs: that they do, without any
fairness but that of a thread that runs, is what `ReadingAdvances`, `Terminates`,
`SearchEnds` and `CommandsEnd` of section 5 say of their parts.

## 4. What the violated runs say

1. *Stale reports* (`AnalysisSilent`). `analyze()` never removes the reports of an
   earlier run, and the completeness check asks only whether the files exist. An
   OpenSTA that exits with 0 without writing them, as a Tcl `exit` in the user's SDC
   makes it do, is reported as OK with the earlier run's numbers. `SuccessIsOwn`
   holds without such tools, which is the theorem `SuccessIsItsOwn`.
2. *Shared directory* (`AnalysisOverlap`). Nothing keeps two jobs out of one
   `out_dir`. A lost connection is enough for the page to start a second job beside
   the first, which is why `OneJobAtATime` excludes it.
3. *The unannounced failure* (`JobsUnreadable`). `_read_summary_if_exists` runs
   inside the exception handler before the error event is put; when it raises, the
   job's status is set but no stream ever ends.
4. *The dead run button* (`PanelClear`). `clearRiskPanel` closes the `EventSource`
   whose handlers are the only ones that enable the run button again.
5. *Refused overrides* (`OverrideRefused`). `_looks_like_instance` asks for a name
   after `#(`, so `child #(4) u(...)` and `child #(.WIDTH(4)) u(...)` are no instances:
   each of their tokens is a `SYNTAX001`, and the input and the output that `u` would
   connect are reported as unused and undriven. Both are cases of the repository that
   are expected to pass, "合法位置参数覆盖样例，用于确认 parser 不误报。"
   (`lint/diff_runner.py:1215`, `1227`).

Seen while modelling, and not the subject of a run: a failed run's summary has the
numbers of whatever reports exist (`runner.py:260`); a stream fault leaves the tool
running (`NoOrphan` is checked and proved without it); the answer to a stop request
may overwrite the message of the next run (`app.js:1003`); a comment that begins on
an include line swallows the included file and is reported there
(`NoCommentAtInclude` in `Preprocessor`); `_cycle_path` (`risk/builtin_rules.py:1282`)
may put out a path that the graph does not have; the search for loops recurses
once per signal; and it finds loops that are none, since a condition of a block is
taken for a source of all of its assignments (1216): `always @* begin if (a) b = 1;
else b = 0; if (b) c = 1; else c = 0; end` is reported as the loop `b -> b`, where
`Rules.md:297` asks for a real dependency graph (`RealLoopIsReported` says only that
no loop is missed).

*Parser* (`lint/parser.py`). Legal texts that are refused: an instance whose module
has parameter values (958), several instances in one declaration, `if` with a block
and an `else` outside of a block (1046), a procedural block of one assignment
(1024, the semicolon is dropped), `output b; reg b;` as a duplicate (592), a
`for` of a module without `generate`. Legal texts that are misread: `mem[i] <= d`
assigns `i`, `assign {w, v} = ...` assigns `v` only, the second assignment of
`assign w = a, v = b;` is lost (952), a comparison `<=` in a block is an assignment
(915). `"misread"` in `Corpus` marks them; `LegalTextIsRead` is about texts without
them and claims nothing of what becomes of them, `OverrideRefused` takes up the
first. A lost closing token or an `if` that has lost its semicolon may swallow the
next module (`Closing` in `Reading`); where a bracket, a block or a module is left
open, this is reported.

*Lint rules* (`lint/builtin_rules.py`). An input connected by name to nothing is not
reported (1171); the latch rule counts `if` and `else` and so passes over a `case`
whose default hides another, and complete conditionals that assign different
signals (603); `_expression_width` ignores precedence, adds the widths of a
product, knows no width for `~` (1288), and raises on `()` (1293); a net that has the name of a
module is never undeclared (428); two modules of one name are not reported.

*Risk rules* (`risk/builtin_rules.py`). A control that is used in connections of
instances only makes the whole risk run raise (324); states that are numbers have no
value and so all count as equal, `None == None` (1645): with a reset state all of them
pass for it (562) and traps are missed, without one every state that goes somewhere
unconditionally is reported as terminal, where `Rules.md:317` asks for terminal states
"when evidence is reliable" (`MachineReportsAreTrue` claims neither); only the first
block that reads a register is searched for synchroniser stages (923).

*Workflows*. Lint and risk of one review may have read two versions of the RTL
(`review/workflow.py:79`), and quote a third; a review exits with 0 if both of its
sub-flows failed (`cli.py:130`); an entry of the custom rules that is no object ends
the lint run (`rule_engine.py:112`). In the regression a case that need not be found
is never counted as found, so that nothing can be reported as extra, and a legal
case on which the reference fails counts as missed (`diff_runner.py:1684`); a
crash of the lint process counts as a detection (1733).

## 5. Proofs

Every theorem is about the `Spec` of its module and holds for every value of the
constants that satisfies the module's assumption: any number of runs, streams, names
or files, texts of any length, any bound. Where it needs more, the assumption is
named. Most properties are not inductive; what follows says what had to be added, and
each of these invariants was model-checked on the instances of section 3 before it
was proved.

**`Analysis`** (`AnalysisProofs`), for every choice of `Overlap` and `Faults`.

- **`TypeCorrect`**: `TypeOK` is inductive.
- **`StopIsDelivered`**: `StopDelivered` is not inductive: after `Detach` and the
  next `Launch` the controller might refer to the first tool. Together with
  `ControllerTracksWorker` it is (`StopInv`). The case that matters is `Attach`,
  which signals the tool if the flag is already up.
- **`StoppedRunNeverSucceeds`** (`StopPreventsSuccess`): once a stop is requested
  before the last check the run is `Doomed`, meaning that the flag is up and either
  the last check is still to come or its verdict is not `"ok"`. `Doomed` is stable
  under `VerdictInv`, which relates the verdict to the worker's position, and
  excludes `"returned"`.
- **`AnalysisImplementsContract`**: `Spec => Contract!Spec`, apart from fairness.
  A worker's step moves one run from one phase to another or none
  (`WorkerPhaseStep`); each such move is an action of `RunContract`
  (`OneRunSimulated`). Only `CheckStop` after OpenSTA commits, and it reads the flag.
- **`NoToolOutlivesItsRun`**: assumes `NoneLeft`, that neither
  a stream fault nor a crash happens; the code gives no such guarantee with them. The
  invariant `Tracked` says which tools can be alive at each position of the worker.
- **`SuccessIsItsOwn`**: assumes `TakeTurns`, that runs do not overlap and tools are
  not silent (runs `AnalysisOverlap` and `AnalysisSilent` show that both are needed)
  besides `NoneLeft`. The invariant follows the files through a run: the files
  written before the run reaches a step are its own while it is active (`WroteOwn`),
  hence what its tools have read (`ReadOwn`), what they produced if they ended well
  (`ProducedOwn`) and what the summary took (`ResultOwn`). It needs that at most one
  run is active (`OneActive`) and that no tool of another is alive to write
  (`Tracked`).
- **`ControllerIsTracked`** (`ControllerTracksWorker`): from the same invariant as
  `StopIsDelivered`.

**`JobManager`** (`JobManagerProofs`), any workflow that keeps `RunContract`.

- **`JobsInductive`**, **`TypeCorrect`**: `WorkerInv` ties status, error, finishing time
  and the phase of the workflow to the position of the worker thread, which is what
  the unlocked assignments of `_run_job` maintain one by one.
- **`EventsComeAfterFields`** (`TerminalEventAfterFields`) and **`NothingLostBehindTheEnd`**
  (`OnlyNotesAfterTerminal`): `EventInv` says that a queue holds nothing but notes
  behind a terminal event, and that such an event is there only if the worker is past
  putting it. A stream takes from the head, a stop note goes to the end, at any time.
- **`SnapshotsExplainStatus`**: `ViewInv` follows a snapshot from field to field. It
  rests on `SettledStays`, an action property: once the status says how the job
  ended, the fields that explain it change no more.
- **`StopIsFinal`** (`StoppedJobNeverSucceeds`).
- **`JobsFollowLifecycle`**: the safety part of the refinement of `JobLifecycle`.

**`GuiPanel`** (`GuiPanelProofs`).

- **`PanelInductive`**, **`TypeCorrect`**, **`BusyPageIsLocked`** (`BusyPageCannotRun`): a
  post that was answered, a connection and a held run button are tied together
  (`BusyInv`); clearing the panel closes the connection but enables nothing.
- **`PageRunsOneJob`** (`OneJobAtATime`): no job that still runs is without the page
  (`LiveInv`) unless a post or a connection was lost, and what the page has been told
  of a job's end has happened (`AnnouncedInv`).

**`CombinationalLoop`** (`LoopProofs`), any finite set of names, neighbours
taken in any order. `Reaches` quantifies over closed sets, so no induction over paths
is needed.

- **`SearchInductive`**, **`LoopTypeCorrect`**: the invariant of Tarjan's algorithm. Indices number the nodes
  in the order they were found (`Numbered`); a node is on the stack, in one component,
  or not found (`Partitioned`); a finished node has only found successors
  (`Explored`); each activation reaches what lies above it on the stack and each node
  reaches an activation (`Connected`); a low link is the index of a node that the
  owner reaches (`LowReached`) and as low as what the owner and the finished nodes
  above it point at (`LowBound`).
- **`StackHangsTogether`** (`StackIsConnected`), **`SearchIsCorrect`**
  (`ComponentsAreClasses`): when an activation leaves with `lowlink = index`, nothing
  above it points below, so what it pops is closed but for finished components
  (`ClosedSet`) and is one class. **`NoLoopIsMissed`** (`RealLoopIsReported`) and
  **`LoopsAreCycles`** follow for the reports.
- **`SearchEnds`**: the nodes that are not found, the edges that are not looked at and the
  activations that are not left are finitely many (`Work`), and every step makes them
  fewer, so the search ends on every graph.

**`Preprocessor`** (`PreprocessorProofs`), any files and texts, included in any way. Where
a comment begins on an include line the properties on errors and guards claim nothing
(`NoCommentAtInclude`, section 4), and neither do their invariants.

- **`PreprocessorInductive`**, **`LinesTypeCorrect`**: `LineStep` says what an arbitrary line
  does to the frames, to the stack of files and to the rest, and every directive is
  shown to be such a step once; the invariants are then proved about `LineStep`. A
  file that is being read is on the stack once and the text read so far is a prefix
  of its text (`ReadInv`).
- **`SelectionIsTrue`** (`ActiveIsSelected`): every frame, not only the innermost, has to
  agree with the branches that were seen (`SelectInv`).
- **`ConditionalErrors`** (`ConditionalErrorIsTrue`): the property compares with what the
  whole text says by its `Depth` after each line. `DepthInv` says that the number of
  frames is that depth. Its step needs that the depth after `n + 1` lines is the one
  after `n` lines moved by one line, for a function on `Nat`: this is proved with a
  least number, as a set of numbers without one is empty. **`CommentErrors`** is the
  same for open comments (`ReportInv`).
- **`GuardsWork`** (`GuardedOnce`): a guarded file that has been put out has its macro
  defined, from the second line of its first reading on and for ever (`GuardInv`).
- **`ReadingAdvances`** and **`IncludesAreBounded`**: a step takes the next RTL file, leaves
  a file or goes a line further, an include enters only a file that is not being
  read, and so the recursion is never deeper than there are files. Both together leave
  no endless reading; that last step is an argument, not a theorem, since it takes an
  order of as many components as there are files.

**`Parser`** (`ParserProofs`), any sequence of tokens that ends with `<eof>`, legal or not,
and any number tokens. `FrontEnd` checks the same of its 4116 texts.

- **`ParserInductive`**, **`ParserTypeCorrect`** (`ParserTypeOK`): besides the place in the text the
  invariant follows the modules (`GoodModule`): the order of the ports names each of
  them once, through the recursion of `AddAll` over the segments of a header or a
  declaration (`AddAllKeeps`), and outside of a module none is open.
- **`ItemsAdvance`** (`EveryItemAdvances`): each way of collecting tokens ends in the text
  and not before it began (`SemicolonAdvances`, `BalancedAdvances`, `UntilEndAdvances`,
  `CompoundAdvances`, ...), wherever brackets and blocks are open or closed, since all
  of them look for the first of a set of places (`FirstInRange`). What remains is
  that each turn takes at least one token: a declaration does because the keyword it
  begins with does not end a statement, an import or an instance because the token
  it has looked at is not `<eof>`.
- **`Terminates`**: hence `Left`, twice the tokens that are left and one for each loop
  that is not left, decreases with every turn, so no text keeps the parser for ever.
- **`ModuleEndsAreSeen`** (`EndsAreSeen`): while a module is read, no item runs over an
  `endmodule` unless something that began before is still open there (`Surrounds`: a
  bracket, a block, an unsupported construct with a keyword at its end, an `if` or
  `case` without a block, an `@`) or `SYNTAX001` is reported at the item. This is what
  of `DamageIsContained` can be said of every text. It needs what `Depths` computes:
  `DepthsFollow` shows that the recursion has the values its equations say,
  `FollowsAnew` that it starts anew where nothing is open, and hence
  `OpenedBefore`, that where it is not 0 a token before opens what is not closed
  since, and `ClosedBy`, that what makes it 0 is a closing token. Each way of collecting
  then `Passes` what it takes (`SemicolonPasses`, `GroupPasses`, `UntilEndPasses`,
  `CompoundPasses`, ...), and an item is a chain of these (`PassesJoin`).
- **`FrontEndTypeCorrect`** (`FrontEndTypeOK`), **`FrontEndIsCorrect`**: a behaviour of
  `FrontEnd` is one of `Preprocessor` and one of `Parser` (`FrontEndIsItsParts`), so what
  is proved of them holds of what the run checks.

**`ReviewFlow`** (`ReviewFlowProofs`), any texts, commands, edits and faults, under the
assumption `FlowConstants`: a rule reports one of the severities that the records accept
(`models/diagnostic.py:36`, `risk/models.py:28`), and none reports in the category of a
blocked workflow. `Flows` evaluates it for its constants.

- **`FlowInductive`**, **`FlowTypeCorrect`**: the invariant says what each stage finds done:
  what the sub-flows have come to (`LintInv`, `RiskInv`), which artifacts hold what, if
  they were written in this run (`shown`), that no log was written before the last
  error of the user (`EndInv`), and that without edits and faults it is what the text
  says (`AloneInv`). A stage writes one artifact and a fault can only empty the one of
  its stage (`PutShows`, `FaultStep`).
- **`ArtifactsAreCurrent`** (`ArtifactsAreOfThisRun`) and **`ResultsAreKept`**
  (`ReviewKeepsResults`): the second needs to count: there is one item for each finding
  of either sub-flow and one for each that failed (`ItemsCounted`, `FailuresCounted`),
  correlating them keeps their number, and an item that overlaps does so with another
  one (`CorrelatedKnown`).
- **`CommandsEnd`**: a step goes on to a later one of the stages of its command (`Before`);
  neither an edit nor a failure takes it back.

**`DiffBatch`** (`DiffBatchProofs`), any corpora, tools and required categories. The
assumption `BatchConstants` says that directories are finite and that the sort of
`load_cases` orders their cases.

- **`BatchInductive`**, **`BatchTypeCorrect`** (`BatchTypeOK`): the cases that are done and those
  that are left make up the corpus (`WorkInv`), each entry is what the comparison
  makes of some output of the two tools (`CaseInv`), and reports, matrix and exit code
  follow from the entries (`ReportInv`).
- **`VerdictIsTrue`** (`DiffVerdictIsTrue`): `JudgedVerdict` relates "missed", which
  `summarize` computes from two flags, to the diagnostics the case should have had, and
  `RowIsTrue` relates the numbers of a row: if nothing is missed and nothing is extra,
  the expected and the detected cases are the same set and 100 percent is the truth.
- **`BatchEnds`**: the steps that are left (`StepsLeft`) get fewer with each, whatever the
  tools print and wherever an exception leaves the batch.
- **`FlowsTypeCorrect`** (`FlowsTypeOK`), **`FlowsAreCorrect`**: the specification that
  `Flows` checks consists of behaviours of the three modules (`FlowsAreTheirParts`).

Only model-checked: the liveness properties (`StopEndsRun`, `SoleStreamEnds`,
`UnclearedPageComesBack`, the fairness part of the refinements),
which are beyond the proof system, and what `Reading` says of the texts of `Corpus`: these
properties compare what is read and reported with the meaning of the text, which the
recursive operators of `Corpus`, `Widths` and `RiskRules` compute, and the provers cannot
take those. Every other property of a passing run is a theorem for all values of the
constants. `EndsAreSeen` was checked on the texts of `FrontEnd` before it was proved;
`DamageIsContained` says more of these texts, as it knows what each of them means.

## 6. Not modelled

- *Lexer characters*: how characters become tokens, and whether a number or a string
  is well formed, is about single characters; `IsNumber` and `IsIdentifier` are
  predicates over the tokens that occur.
- *`RTL011`*, which compares the texts of timescales, and the patterns with which the
  SDC checker takes names out of a constraint; what it does with the names is modelled.
- *Evidence and wording*: messages, excerpts (apart from when they are read),
  `_cycle_path`, report rendering, colours and language.
- *Exceptions inside a rule*: rules are functions from a design to reports, and so
  cannot raise. Where the code does, as on `assign y = ();`, whose empty group has no
  first token (`lint/builtin_rules.py:1293`), they report nothing; that a rule raises,
  and what becomes of the command then, is in `ReviewFlow` (`raises`).
- *Names inside numbers*: `_rule_parameter_width` looks for a parameter's name as a part
  of the range's text (`lint/builtin_rules.py:150`), the model for a token; they
  differ for a range of which a based number contains the name, such as `h` in `8'h4`.
- *Tables*: the texts of `review/baseline.py`, `review/coverage.py` and of the case
  registry; the map from rules to cases is a constant.
- *Report parsers, tool detection, desktop shell, packaging and
  scripts*: no state that outlives a call, or calls to the operating system only.
- In `server.py` static files, form parsing and the choice of a port.

## 7. Plan

Done: every module of section 2, proofs of each safety property and each type
invariant of each state machine and of their compositions, that each of the
sequential parts ends, and that the parser sees the end of each module.

What could follow: a variant of the parser in which two texts are read together, to
state for every text that what follows an `endmodule` that was seen does not change
what was read before it; the lexer's characters; `Depths` of a group that was
collected, to prove that the checks of expressions find what is wrong in it.
