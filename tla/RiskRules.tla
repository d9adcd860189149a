------------------------------ MODULE RiskRules ------------------------------
(***************************************************************************)
(* The rules of src/sta_lite/risk/builtin_rules.py over the design that    *)
(* the parser has read, each a set of reports.  As in the code, what a     *)
(* name stands for is guessed from its spelling: Called[k] has the names   *)
(* that look like a k.  Severities and evidence are left out.              *)
(***************************************************************************)
EXTENDS LintRules

CONSTANTS
    Called,     \* [control, sync, meta, stage, state, next, literal, memory, slow -> sets of names]
    Alphabet,   \* the names in alphabetical order
    Settings    \* the thresholds: DEFAULT_SETTINGS, or those of the user

\* LONG_COMB_OPS, here with the negation
CostlyOperators == LongOperators \cup {"~"}
Cost(s) == HowMany(s, CostlyOperators)

EventClocks(b) == EventSignals(b) \ ResetName
EventResets(b) == EventSignals(b) \cap ResetName
Targets(b)     == {a.target : a \in ToSet(b.assigns)}
BlockReads(b)  == (Identifiers(b.body) \ Targets(b)) \cup UNION {Identifiers(a.expr) : a \in ToSet(b.assigns)}

Width(n, s)    == IF n \in DOMAIN s THEN The(SignalWidth(s[n])) ELSE 1
MaxWidth(t, s) == Max({1} \cup {Width(n, s) : n \in Identifiers(t) \cap DOMAIN s})
RECURSIVE Bits(_, _)
Bits(names, s) ==
    IF names = {} THEN 0 ELSE LET n == The(names) IN Width(n, s) + Bits(names \ {n}, s)

\* _assignments_in_tokens: any = or <=, those of comparisons included.
AssignmentsIn(s) ==
    LET at == SelectSeq([k \in DOMAIN s |-> k], LAMBDA k :
                  /\ s[k] \in {"=", "<="} /\ LastIdentifier(SubSeq(s, 1, k - 1)) > 0
                  /\ ~(s[k] = "=" /\ k > 1 /\ s[k - 1] \in {"<", ">", "!", "="}))
        rest(k) == SubSeq(s, k + 1, Len(s))
        end(k)  == LET d == Depths(rest(k), Open, Close) IN
                   FirstWith(1, Len(rest(k)), LAMBDA j : d[j] = 0 /\ rest(k)[j] = ";")
    IN  [i \in DOMAIN at |-> [target |-> s[LastIdentifier(SubSeq(s, 1, at[i] - 1))],
                              expr |-> SubSeq(rest(at[i]), 1, end(at[i]) - 1)]]
TargetsIn(s) == {a.target : a \in ToSet(AssignmentsIn(s))}

\* _first_statement_tokens
FirstStatement(s, k) ==
    LET rest == SubSeq(s, k, Len(s))
        d    == Depths(rest, Open, Close)
    IN  IF rest = <<>> THEN <<>>
        ELSE IF Head(rest) = "begin" THEN Group(rest, 1, "begin", "end").inner
        ELSE SubSeq(rest, 1, FirstWith(1, Len(rest), LAMBDA j : d[j] = 0 /\ rest[j] = ";") - 1)

\* The condition of the first if of a block and the statement under it.
FirstBranch(b) ==
    LET k == FirstWith(1, Len(b.body), LAMBDA j : b.body[j] = "if")
        g == Group(b.body, k + 1, "(", ")")
        branch == [condition |-> g.inner, body |-> FirstStatement(b.body, g.end + 1)]
    IN  IF k >= Len(b.body) \/ b.body[k + 1] # "(" \/ g.end > Len(b.body) THEN {}
        ELSE {x \in {branch} : x.body # <<>>}

-----------------------------------------------------------------------------
(* Resets, enables and clocks. *)

\* _reset_branch_info: the reset, whether it is an event and active low.
ResetBranch(b) ==
    {LET c == x.condition
         k == FirstWith(1, Len(c), LAMBDA j : c[j] \in ResetName)
     IN  [reset |-> <<c[k], c[k] \in EventSignals(b), k > 1 /\ c[k - 1] \in {"!", "~"}>>,
          targets |-> TargetsIn(x.body)] :
        x \in {y \in FirstBranch(b) : Has(y.condition, ResetName)}}

\* A group of registers is too large by their number or by their bits.
TooLarge(targets, s, number, bits) == Cardinality(targets) >= number \/ Bits(targets, s) >= bits
ExcessiveReset(m) ==
    LET branches == {x \in UNION {ResetBranch(b) : b \in {y \in Blocks(m) : Sequential(y)}} : x.targets # {}}
        targets(r) == UNION {x.targets : x \in {y \in branches : y.reset = r}}
    IN  Of("RISK_EXCESSIVE_RESET", m, {r[1] : r \in {q \in {x.reset : x \in branches} :
            TooLarge(targets(q), SymbolsOf(m), Settings.resets, Settings.resetBits)}})

\* An enable is the only name in the condition of the first if.
ClockEnable(m) ==
    LET branches == UNION {FirstBranch(b) : b \in {y \in Blocks(m) : Sequential(y)}}
        under(n) == UNION {TargetsIn(x.body) : x \in {y \in branches : Identifiers(y.condition) = {n}}}
        enables  == UNION {Identifiers(x.condition) : x \in branches} \ (ResetName \cup ClockName)
    IN  Of("RISK_HIGH_FANOUT_CLOCK_ENABLE", m, {n \in enables :
            under(n) # {} /\ TooLarge(under(n), SymbolsOf(m), Settings.enables, Settings.enableBits)})

\* _rule_async_reset_release_unsync: a reset is taken for synchronised if any
\* block under it assigns a name that looks like a synchroniser.
UnsyncRelease(d) ==
    LET blocks == {b \in UNION {Blocks(m) : m \in ModulesOf(d)} : Sequential(b)}
        synced == UNION {EventResets(b) : b \in {x \in blocks : Targets(x) \cap Called.sync # {}}}
    IN  {<<"RISK_ASYNC_RESET_RELEASE_UNSYNC", "", r>> : r \in UNION {EventResets(b) : b \in blocks} \ synced}

NewClocks(m) ==
    {a.target : a \in {x \in Assigns(m) : x.target \in ClockName /\
                           (Has(x.expr, GateOperators) \/ Identifiers(x.expr) \cap ClockName # {})}}
DerivedClock(m, d) ==
    LET k == CHOOSE j \in DOMAIN d : d[j] = m
        derived == UNION {NewClocks(d[j]) : j \in 1 .. k}
    IN  Of("RISK_GATED_OR_DERIVED_CLOCK", m, NewClocks(m) \cup
            UNION {IF Has(b.sensitivity, GateOperators) THEN {"gated"} ELSE EventClocks(b) \cap derived :
                       b \in {x \in Blocks(m) : Sequential(x)}})

AsyncControl(m) ==
    Of("RISK_ASYNC_DATA_CONTROL", m, UNION {EventSignals(b) \ (ClockName \cup ResetName) :
        b \in {x \in Blocks(m) : EventSignals(x) \cap ClockName # {}}})

\* Mutant of TwoStages: one register with the name of a stage is enough.
TwoStagesOne(b, n) ==
    \E first \in ToSet(b.assigns) :
        n \in Identifiers(first.expr) /\ first.target \in Called.sync \cup Called.meta \cup Called.stage

\* _has_two_stage_sync_capture
TwoStages(b, n) ==
    \E first \in ToSet(b.assigns), second \in ToSet(b.assigns) :
        /\ n \in Identifiers(first.expr) /\ first.target \in Called.sync \cup Called.meta \cup Called.stage
        /\ second.target # first.target /\ first.target \in Identifiers(second.expr)
        /\ second.target \in Called.sync \cup Called.stage

\* _rule_cdc_unsync_signal.  The stages are looked for in the first block that
\* reads the signal, whatever its clock.
Crossings(m) ==
    LET clocked == SelectSeq(m.always, LAMBDA b : EventClocks(b) # {})
        clocks(n, of(_)) == UNION {EventClocks(b) : b \in {x \in ToSet(clocked) : n \in of(x)}}
        reader(n) == FirstWith(1, Len(clocked), LAMBDA k : n \in BlockReads(clocked[k]))
    IN  Of("RISK_CDC_UNSYNC_SIGNAL", m,
            {n \in UNION {Targets(b) : b \in ToSet(clocked)} \ (Called.sync \cup ResetName) :
                /\ ~(clocks(n, BlockReads) \subseteq clocks(n, Targets))
                /\ ~TwoStages(clocked[reader(n)], n)})

-----------------------------------------------------------------------------
(* Logic. *)

LongPath(m) ==
    Of("RISK_LONG_COMB_PATH", m,
        {b.body : b \in {x \in Blocks(m) : Combinational(x) /\ Cost(x.body) >= Settings.path}}
        \cup {a.expr : a \in {x \in Assigns(m) : Cost(x.expr) >= Settings.path}})

LatchTiming(m) == Of("RISK_LATCH_TIMING", m, LatchTargets(m))

\* Where a control name is used: the blocks, the assignments, the instances.
Fanout(m, n) ==
    [blocks    |-> {k \in DOMAIN m.always : n \in Identifiers(m.always[k].sensitivity) \cup BlockReads(m.always[k])},
     assigns   |-> {k \in DOMAIN m.assigns : n \in Identifiers(m.assigns[k].expr)},
     instances |-> {k \in DOMAIN m.instances : n \in Identifiers(m.instances[k].connections)}]
WideControls(m) ==
    {n \in DOMAIN SymbolsOf(m) \cap Called.control :
        Cardinality(Fanout(m, n).blocks) + Cardinality(Fanout(m, n).assigns)
            + Cardinality(Fanout(m, n).instances) >= Settings.contexts}
HighFanout(m) == Of("RISK_HIGH_FANOUT_CONTROL", m, WideControls(m))

\* A control name without a block and an assignment: first_assignment[name]
\* raises KeyError, and the run ends without a report.
Raises(d) ==
    \E m \in ModulesOf(d) : \E n \in WideControls(m) :
        Fanout(m, n).blocks = {} /\ Fanout(m, n).assigns = {}

WideMux(m) ==
    LET times(b, t) == Cardinality({k \in DOMAIN b.assigns : b.assigns[k].target = t})
        branches(b) == Max({HowMany(b.body, Case \cup {"if", "?"})} \cup {times(b, t) : t \in Targets(b)})
    IN  Of("RISK_WIDE_MUX_PRIORITY_ENCODER", m,
            {b.body : b \in {x \in Blocks(m) : Combinational(x) /\ branches(x) >= Settings.branches}})

Arithmetic == {"*", "/", "%", "+", "-", ">", "<", ">=", "<=", "==", "!="}
\* A context of the module that is wide and has at least that many operators.
Chain(m, s, number) ==
    HowMany(s, Arithmetic) >= number /\ Has(s, {"*"}) /\ MaxWidth(s, SymbolsOf(m)) >= 8
ArithmeticChain(m) ==
    Of("RISK_ARITH_CHAIN_NO_PIPELINE", m,
        {a.expr : a \in {x \in Assigns(m) : Chain(m, x.expr, 5)}}
        \cup {b.body : b \in {x \in Blocks(m) : Combinational(x) /\ Chain(m, x.body, 6)}})
Multiplier(m) ==
    Of("RISK_DSP_INFERENCE", m,
        {s \in {a.expr : a \in Assigns(m)} \cup {b.body : b \in Blocks(m)} :
            Has(s, {"*"}) /\ MaxWidth(s, SymbolsOf(m)) >= 8})

MissingPipeline(m) ==
    LET complex(s) ==
            /\ Cost(s) >= Settings.pipeline /\ MaxWidth(s, SymbolsOf(m)) >= 8
            /\ \/ HowMany(s, Case \cup {"?", "if"}) >= 2
               \/ HowMany(s, {">", "<", ">=", "<=", "==", "!="}) >= 2
               \/ Has(s, {"*"})
               \/ Cost(s) >= Settings.pipeline + 2
    IN  Of("RISK_MISSING_PIPELINE", m,
            {s \in {a.expr : a \in Assigns(m)}
                   \cup {b.body : b \in {x \in Blocks(m) : Combinational(x)}} : complex(s)})

MemoryChain(m) ==
    Of("RISK_MEMORY_OR_DSP_CHAIN_NO_PIPELINE", m, {b.body : b \in {x \in Blocks(m) :
        Has(x.body, Called.memory) /\ HowMany(x.body, {"*", "+", "-", "[", "]", "?", "case"}) >= 7}})

\* _memory_declarations and the uses of an array with an index
Memories(m) ==
    LET s == m.body
        from(k)  == Max({0} \cup {j \in 1 .. k - 1 : s[j] = ";"})
        prefix(k) == SubSeq(s, from(k) + 1, k - 1)
        after(k) == Group(s, k + 1, "[", "]").end + 1
    IN  {s[k] : k \in {j \in 1 .. Len(s) - 1 :
            /\ s[j] \in DOMAIN m.declarations /\ s[j + 1] = "["
            /\ Has(prefix(j), {"reg", "logic", "wire"}) /\ ~Has(prefix(j), {"assign"})
            /\ after(j) <= Len(s) /\ s[after(j)] \in {";", ","}}}
Indexed(s, n) == \E k \in 1 .. Len(s) - 1 : s[k] = n /\ s[k + 1] = "["
RamInference(m) ==
    Of("RISK_RAM_INFERENCE", m, {n \in Memories(m) :
        \/ \E b \in Blocks(m) : Indexed(b.body, n)
        \/ \E a \in Assigns(m) : Indexed(a.expr, n)})

\* _combinational_dependency_graph: the edges from a target to what it needs.
ControlIdentifiers(s) ==
    UNION {Identifiers(Group(s, k + 1, "(", ")").inner) :
               k \in {j \in 1 .. Len(s) - 1 : s[j] \in Case \cup {"if"} /\ s[j + 1] = "("}}
Dependencies(m) ==
    LET signals == (DOMAIN m.ports \cup DOMAIN m.declarations) \ DOMAIN m.parameters
        edges(a, more) == {a.target} \X (Identifiers(a.expr) \cup more)
    IN  (signals \X signals) \cap
        (UNION {edges(a, {}) : a \in Assigns(m)} \cup
         UNION {UNION {edges(a, ControlIdentifiers(b.body)) : a \in ToSet(b.assigns)} :
                    b \in {x \in Blocks(m) : Combinational(x)}})
RECURSIVE ReachableFrom(_, _)
ReachableFrom(names, edges) ==
    LET more == names \cup {e[2] : e \in {x \in edges : x[1] \in names}} IN
    IF more = names THEN names ELSE ReachableFrom(more, edges)

\* The components that Tarjan's algorithm finds, each its set of signals.
Loops(m) ==
    LET edges == Dependencies(m)
        after(n) == ReachableFrom({e[2] : e \in {x \in edges : x[1] = n}}, edges)
        onLoop == {n \in {e[1] : e \in edges} : n \in after(n)}
    IN  Of("RISK_COMBINATIONAL_LOOP", m, {{k \in onLoop : k \in after(n) /\ n \in after(k)} : n \in onLoop})

-----------------------------------------------------------------------------
(* State machines.  A text, a state among them, is a sequence of tokens. *)

FirstName(names) == {n \in names : \A o \in names :
                        SelectInSeq(Alphabet, LAMBDA x : x = n) <= SelectInSeq(Alphabet, LAMBDA x : x = o)}

\* _next_state_signal: by the first assignment of the register with a candidate.
NextState(m, b, register) ==
    LET signals == DOMAIN m.ports \cup DOMAIN m.declarations
        names(a) == (Identifiers(a.expr) \cap signals) \ {register}
        from == SelectSeq(b.assigns, LAMBDA a : a.target = register /\ names(a) # {})
    IN  IF from = <<>> THEN {}
        ELSE LET n == names(Head(from)) IN
             FirstName(IF n \cap Called.next = {} THEN n ELSE n \cap Called.next)

\* _parse_simple_case_branches: every colon in no bracket, that of a ternary
\* too, begins a branch, whose label is the token before it.
CaseBranches(s) ==
    LET d  == Depths(s, Open, Close)
        at == SelectSeq([k \in DOMAIN s |-> k], LAMBDA k : s[k] = ":" /\ d[k] = 0)
        label(i) == s[Max({1, at[i] - 1})]
        end(i) == IF i = Len(at) THEN Len(s) ELSE Max({at[i], at[i + 1] - 2})
        last(n) == Max({i \in DOMAIN at : label(i) = n})
    IN  [n \in {label(i) : i \in DOMAIN at} |-> SubSeq(s, at[last(n)] + 1, end(last(n)))]

\* _case_info_for_state: the branches of the first case over the register.
StateCase(b, register) ==
    LET s == b.body
        selector(k) == Group(s, k + 1, "(", ")")
        rest(k) == SubSeq(s, selector(k).end + 1, Len(s))
        end(k)  == LET d == Depths(<<"case">> \o rest(k), Case, {"endcase"}) IN
                   FirstWith(1, Len(rest(k)), LAMBDA j : d[j + 1] = 0)
        k1 == FirstWith(1, Len(s), LAMBDA k :
                 /\ s[k] \in Case /\ k < Len(s)
                 /\ s[k + 1] = "(" /\ selector(k).end <= Len(s)
                 /\ Has(selector(k).inner, {register}) /\ end(k) <= Len(rest(k)))
    IN  IF k1 > Len(s) THEN {} ELSE {CaseBranches(SubSeq(rest(k1), 1, end(k1) - 1))}

\* _parameter_value_map: the texts of the parameters in the body.
ParameterTexts(m) ==
    LET s == m.body
        at == {k \in DOMAIN s : s[k] \in {"parameter", "localparam"}}
        statement(k) == SubSeq(s, k + 1, FirstWith(k + 1, Len(s), LAMBDA j : s[j] = ";") - 1)
        op(p)   == FirstWith(1, Len(p), LAMBDA j : p[j] \in {"=", "<="})
        name(p) == LastIdentifier(SubSeq(p, 1, op(p) - 1))
        parts == UNION {ToSet(SplitTop(statement(k), ",")) : k \in at}
        good  == {p \in parts : op(p) < Len(p) /\ name(p) > 0}
    IN  [n \in {p[name(p)] : p \in good} |->
            LET p == CHOOSE q \in good : q[name(q)] = n IN SubSeq(p, op(p) + 1, Len(p))]

\* _expr_state_key
StateKey(expr) ==
    LET named == SelectSeq(expr, IsIdentifier)
        other == SelectSeq(expr, LAMBDA t : t \notin {"(", ")"})
        best  == IF named # <<>> THEN named ELSE other
    IN  IF best = <<>> THEN <<>> ELSE <<Head(best)>>

\* _expr_matches_state.  Two texts without a value have the same value: none.
TextValue(t, texts) == IF Len(t) = 1 /\ t[1] \in DOMAIN texts THEN texts[t[1]] ELSE <<>>
Matches(e, state, texts) ==
    /\ e # <<>>
    /\ \/ e = state
       \/ TextValue(e, texts) = state
       \/ TextValue(state, texts) = e
       \/ TextValue(e, texts) = TextValue(state, texts)

\* The reset state of a register in its block, or <<>>.
ResetState(b, register, next) ==
    LET from == SelectSeq(b.assigns, LAMBDA a :
                    a.target = register /\ next \notin Identifiers(a.expr) /\ StateKey(a.expr) # <<>>)
    IN  IF from = <<>> \/ (EventResets(b) = {} /\ ~Has(b.body, ResetName)) THEN <<>>
        ELSE StateKey(Head(from).expr)

\* Mutant of UnsafeDefault: a default that assigns nothing is safe.
UnsafeDefaultFew(s, register, next, reset, texts) ==
    LET found == SelectSeq(AssignmentsIn(s), LAMBDA a : a.target \in {register, next}) IN
    /\ found # <<>>
    /\ \/ register \in Identifiers(Head(found).expr)
       \/ ~Matches(StateKey(Head(found).expr), reset, texts)

\* _default_recovery_status
UnsafeDefault(s, register, next, reset, texts) ==
    LET found == SelectSeq(AssignmentsIn(s), LAMBDA a : a.target \in {register, next}) IN
    IF found = <<>> THEN TRUE
    ELSE \/ register \in Identifiers(Head(found).expr)
         \/ ~Matches(StateKey(Head(found).expr), reset, texts)

MissingStates(m, register, next, handled, texts) ==
    LET assigns == {a \in BothAssigns(m) : a.target \in {register, next}}
        referenced == handled \cup UNION {Identifiers(a.expr) : a \in assigns}
    IN  {n \in DOMAIN m.parameters \cap (referenced \cup Called.literal) :
            n \notin handled /\ \A h \in handled : TextValue(<<n>>, texts) # <<h>>}

\* _obvious_terminal_states: the labels that lead only to themselves.
TerminalStates(branches, next, texts) ==
    {n \in DOMAIN branches \ {"default"} :
        LET found == SelectSeq(AssignmentsIn(branches[n]), LAMBDA a : a.target = next) IN
        /\ ~Has(branches[n], Case \cup {"if", "?"})
        /\ found # <<>>
        /\ \A k \in DOMAIN found : Matches(StateKey(found[k].expr), <<n>>, texts)}

\* What is reported of the machine of a register in a clocked block, whose
\* next state is computed in the block that has the case.
MachineReports(m, b, register, next, block, branches) ==
    LET texts   == ParameterTexts(m)
        handled == DOMAIN branches \ {"default"}
        reset   == ResetState(b, register, next)
        label   == IF TextValue(reset, texts) = <<>> THEN reset ELSE TextValue(reset, texts)
        issues  ==
            {i \in {"missing_reset"} : reset = <<>>}
            \cup {i \in {"missing_case_default"} : "default" \notin DOMAIN branches}
            \cup {i \in {"unsafe_default_recovery"} : "default" \in DOMAIN branches /\ reset # <<>>
                     /\ UnsafeDefault(branches["default"], register, next, reset, texts)}
            \cup {i \in {"incomplete_next_state_assignment"} : next \in RiskyTargets(block)}
            \cup {i \in {"declared_state_not_handled"} :
                     MissingStates(m, register, next, handled, texts) # {}}
        ends    == {n \in TerminalStates(branches, next, texts) :
                       reset # <<>> => ~Matches(<<n>>, label, texts)}
    IN  {<<register, i>> : i \in issues} \cup {<<register, "obvious_terminal_state", n>> : n \in ends}

\* _rule_fsm_robustness
Machines(m) ==
    LET transition(next, register) ==
            FirstWith(1, Len(m.always), LAMBDA k :
                /\ Combinational(m.always[k]) /\ next \in Targets(m.always[k])
                /\ StateCase(m.always[k], register) # {})
        of(b, register, next) ==
            LET k == transition(next, register) IN
            IF k > Len(m.always) THEN {}
            ELSE UNION {MachineReports(m, b, register, next, m.always[k], c) :
                            c \in StateCase(m.always[k], register)}
    IN  Of("RISK_FSM_ROBUSTNESS", m,
            UNION {UNION {UNION {of(b, r, n) : n \in NextState(m, b, r)} : r \in Targets(b) \cap Called.state} :
                       b \in {x \in Blocks(m) : Sequential(x)}})

-----------------------------------------------------------------------------
(* Constraints: sdc is {} or the one file that was read. *)

Multicycle(m, sdc) ==
    IF Has(m.body, Called.slow) /\ Has(m.body, {">=", "==", "<=", "case"}) /\ \A f \in sdc : ~f.multicycle
    THEN Of("RISK_MULTICYCLE_WITHOUT_CONSTRAINT", m, {""}) ELSE {}

MissingDelay(d, top, sdc) ==
    LET k == FirstWith(1, Len(d), LAMBDA j : top \in {"", d[j].name})
        way(n) == d[k].ports[n].direction
    IN  IF k > Len(d) THEN {}
        ELSE UNION {Of("RISK_IO_CONSTRAINT_MISSING", d[k],
                 {n \in DOMAIN d[k].ports \ (ClockName \cup ResetName) :
                     \/ way(n) = "input" /\ n \notin f.inputs
                     \/ way(n) = "output" /\ n \notin f.outputs}) : f \in sdc}

\* run_builtin_risk_rules, if it does not raise
RiskReports(d, top, sdc) ==
    UnsyncRelease(d) \cup MissingDelay(d, top, sdc) \cup
    UNION {UNION {ExcessiveReset(m), LongPath(m), LatchTiming(m), HighFanout(m), DerivedClock(m, d),
                  Loops(m), Machines(m), WideMux(m), ArithmeticChain(m), RamInference(m), Multiplier(m),
                  MissingPipeline(m), ClockEnable(m), AsyncControl(m), Crossings(m), Multicycle(m, sdc),
                  MemoryChain(m)} : m \in ModulesOf(d)}

=============================================================================
