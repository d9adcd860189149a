------------------------------ MODULE LintRules ------------------------------
(***************************************************************************)
(* The built-in rules of src/sta_lite/lint/builtin_rules.py, each a set of *)
(* reports over a parsed design.  A report is the rule, the module and the *)
(* thing it is about; wording, severity and place in the line are left out.*)
(***************************************************************************)
EXTENDS Parser, Widths

CONSTANTS
    ClockName, ResetName,   \* the names that match CLOCK_NAME_RE, RESET_NAME_RE
    Threshold               \* long_comb_operator_threshold

Of(rule, m, things) == {<<rule, m.name, x>> : x \in things}
ModulesOf(d) == ToSet(d)
Names(d)     == {m.name : m \in ModulesOf(d)}

\* Among modules of one name a lookup finds the last.
ModuleNamed(d, n) == d[LastWith(d, LAMBDA m : m.name = n)]

\* _module_symbols; what a ModuleContext has as declarations
SymbolsOf(m)  == m.parameters @@ m.declarations @@ m.ports
Declared(m) == DOMAIN SymbolsOf(m) \cup DOMAIN m.functions \cup DOMAIN m.tasks

Blocks(m)       == ToSet(m.always)
Assigns(m)      == ToSet(m.assigns)
BlockAssigns(m) == UNION {ToSet(b.assigns) : b \in Blocks(m)}
BothAssigns(m)  == Assigns(m) \cup BlockAssigns(m)
Sequential(b)   == b.kind = "always_ff" \/ Has(b.sensitivity, {"posedge", "negedge"})
Combinational(b) == b.kind \in {"always_comb", "always_latch"} \/ (b.kind = "always" /\ ~Sequential(b))

\* _event_pairs: the edges of a block, in order.
Events(b) ==
    LET s  == b.sensitivity
        at == SelectSeq([k \in 1 .. Len(s) - 1 |-> k],
                  LAMBDA k : s[k] \in {"posedge", "negedge"} /\ IsIdentifier(s[k + 1]))
    IN  [i \in DOMAIN at |-> [edge |-> s[at[i]], signal |-> s[at[i] + 1]]]
EventSignals(b) == {e.signal : e \in ToSet(Events(b))}

-----------------------------------------------------------------------------
(* The connections of an instance. *)

Connections(i) == SplitTop(i.connections, ",")
ByName(i)      == \E s \in ToSet(Connections(i)) : s # <<>> /\ Head(s) = "."
NamedPort(s)   == IF Len(s) >= 2 /\ s[1] = "." /\ IsIdentifier(s[2]) THEN {s[2]} ELSE {}

\* The expression of a named connection: its first group that is closed.
NamedExpression(s) ==
    LET k == FirstWith(1, Len(s), LAMBDA j : s[j] = "(" /\ Group(s, j, "(", ")").end <= Len(s)) IN
    IF k > Len(s) THEN <<>> ELSE Group(s, k, "(", ")").inner

\* What is connected: pairs of a port of the child and an expression.
Connected(i, child) ==
    LET parts == Connections(i)
        by(k) == IF k \in DOMAIN parts THEN parts[k] ELSE <<>>
    IN  IF ByName(i)
        THEN UNION {NamedPort(s) \X {NamedExpression(s)} : s \in ToSet(parts)}
        ELSE {<<child.order[k], by(k)>> : k \in DOMAIN child.order}

Children(m, d) == {i \in ToSet(m.instances) : i.type \in Names(d)}

\* _module_expression_identifier_tokens, as names
IgnoredIdentifiers == {"$bits", "$clog2", "$display", "$finish", "$signed", "$unsigned"}
Real(s) == Identifiers(s) \ IgnoredIdentifiers
ConnectionNames(i) ==
    {i.connections[k] : k \in {j \in DOMAIN i.connections :
        /\ IsIdentifier(i.connections[j]) /\ i.connections[j] \notin IgnoredIdentifiers
        /\ j = 1 \/ i.connections[j - 1] # "."}}
ExpressionNames(m) ==
    UNION {Real(a.expr) : a \in BothAssigns(m)}
    \cup UNION {Real(b.sensitivity) : b \in Blocks(m)}
    \cup UNION {Real(a.expr) : a \in UNION {ToSet(f.assigns) : f \in
                    {m.functions[n] : n \in DOMAIN m.functions} \cup {m.tasks[n] : n \in DOMAIN m.tasks}}}
    \cup UNION {ConnectionNames(i) : i \in ToSet(m.instances)}

\* _module_read_names and _module_written_names
ReadNames(m, d) ==
    ExpressionNames(ModuleNamed(d, m.name)) \cup
    (Declared(m) \cap UNION {Identifiers(b.body) : b \in Blocks(m)})

InstanceWrites(m, d) ==
    UNION {UNION {Identifiers(c[2]) \cap DOMAIN SymbolsOf(m) :
               c \in {x \in Connected(i, ModuleNamed(d, i.type)) :
                         /\ x[1] \in DOMAIN ModuleNamed(d, i.type).ports
                         /\ ModuleNamed(d, i.type).ports[x[1]].direction \in {"output", "inout"}}} :
        i \in Children(m, d)}
WrittenNames(m, d) ==
    {a.target : a \in BothAssigns(m) \cup UNION {ToSet(m.tasks[n].assigns) : n \in DOMAIN m.tasks}}
    \cup InstanceWrites(m, d)

-----------------------------------------------------------------------------
(* Names and connections. *)

PortRule(m) ==
    Of("SEM002", m, {n \in DOMAIN m.ports :
        /\ m.ports[n].direction = ""
        /\ n \in DOMAIN m.declarations => m.declarations[n].direction = ""})

ImplicitRule(m, d, nettypeNone) ==
    LET c == ModuleNamed(d, m.name) IN
    Of(IF nettypeNone THEN "SEM003" ELSE "RTL002", m, ExpressionNames(c) \ (Names(d) \cup Declared(c)))

TargetRule(m) ==
    Of("SEM004", m, {a.target : a \in {x \in BlockAssigns(m) :
        x.target \in DOMAIN SymbolsOf(m) /\ SymbolsOf(m)[x.target].type \notin {"reg", "logic"}}})

Primitives == {"and", "nand", "or", "nor", "xor", "xnor", "buf", "not", "bufif0", "bufif1", "notif0",
               "notif1", "pmos", "nmos", "cmos", "pullup", "pulldown"}
UnresolvedRule(m, d) == Of("SEM005", m, {i.type : i \in ToSet(m.instances)} \ (Names(d) \cup Primitives))

\* Mutant of UnconnectedPorts: an open input is looked for by position only.
UnconnectedPortsShort(i, child) ==
    LET open == IF ByName(i) THEN DOMAIN child.ports \ {c[1] : c \in Connected(i, child)}
                ELSE {c[1] : c \in {x \in Connected(i, child) : x[2] = <<>>}}
        way(n) == child.ports[n].direction
    IN  {<<"RTL012", n>> : n \in {p \in open : way(p) \in {"input", "inout"} /\ ~ByName(i)}}
        \cup {<<"RTL019", n>> : n \in {p \in open : way(p) = "output"}}

\* The ports of an instance without a connection.  An empty connection of an
\* input by name counts as one.
UnconnectedPorts(i, child) ==
    LET open == IF ByName(i) THEN DOMAIN child.ports \ {c[1] : c \in Connected(i, child)}
                ELSE {c[1] : c \in {x \in Connected(i, child) : x[2] = <<>>}}
        empty == {c[1] : c \in {x \in Connected(i, child) : x[2] = <<>>}} \cap DOMAIN child.ports
        way(n) == child.ports[n].direction
    IN  {<<"RTL012", n>> : n \in {p \in open : way(p) \in {"input", "inout"}}}
        \cup {<<"RTL019", n>> : n \in {p \in open : way(p) = "output"}}
        \cup {<<"RTL019", n>> : n \in {p \in empty : ByName(i) /\ way(p) \in {"output", "inout"}}}

\* _rule_instance_port_connections
InstanceRule(m, d) ==
    UNION {LET child == ModuleNamed(d, i.type)
               known == {c \in Connected(i, child) : c[1] \in DOMAIN child.ports}
               width(c) == SignalWidth(child.ports[c[1]]) \cup ExpressionWidth(c[2], SymbolsOf(m))
           IN  {<<"SEM006", m.name, c[1]>> : c \in Connected(i, child) \ known}
               \cup {<<r[1], m.name, <<i.name, r[2]>>>> : r \in UnconnectedPorts(i, child)}
               \cup {<<"RTL013", m.name, <<i.name, c[1]>>>> :
                        c \in {x \in known : Cardinality(width(x)) = 2}} :
        i \in Children(m, d)}

\* Mutant of DriverRule: every assignment of a block drives its target.
DriverRuleEvery(m) ==
    LET drivers(t) == Cardinality({k \in DOMAIN m.assigns : m.assigns[k].target = t})
                      + Cardinality(UNION {{k} \X {j \in DOMAIN m.always[k].assigns :
                            m.always[k].assigns[j].target = t} : k \in DOMAIN m.always})
    IN  Of("RTL008", m, {t \in {a.target : a \in BothAssigns(m)} : drivers(t) > 1})

\* _rule_multi_driver: a block drives a target once, however often it assigns it.
DriverRule(m) ==
    LET drivers(t) == Cardinality({k \in DOMAIN m.assigns : m.assigns[k].target = t})
                      + Cardinality({k \in DOMAIN m.always :
                            t \in {a.target : a \in ToSet(m.always[k].assigns)}})
    IN  Of("RTL008", m, {t \in {a.target : a \in BothAssigns(m)} : drivers(t) > 1})

\* _rule_unused_unconnected, which looks at modules in .v files only.
UnusedRule(m, d) ==
    LET s       == SymbolsOf(m)
        names   == {n \in DOMAIN s \ DOMAIN m.parameters : s[n].type # "genvar"}
        way(w)  == {n \in names : s[n].direction = w}
        reads   == ReadNames(m, d)
        writes  == WrittenNames(m, d)
    IN  IF Suffix # ".v" THEN {}
        ELSE Of("RTL017", m, way("input") \ reads)
             \cup Of("RTL018", m, way("output") \ writes)
             \cup Of("RTL015", m, way("") \ (reads \cup writes))
             \cup Of("RTL016", m, (way("") \cap writes) \ reads)

-----------------------------------------------------------------------------
(* Widths and signedness. *)

\* _select_range_diagnostics
SelectRule(m) ==
    LET s == SymbolsOf(m)
        outside(e) == {k \in 1 .. Len(e) - 3 :
            /\ e[k] \in DOMAIN s /\ e[k + 1] = "[" /\ Before(Depths(e, {"["}, {"]"}), k) = 0
            /\ IsNumber(e[k + 2]) /\ e[k + 3] = "]"
            /\ \E b \in SignalBounds(s[e[k]]), n \in Literal[e[k + 2]].value :
                   n < Lesser(b[1], b[2]) \/ n > Max({b[1], b[2]})}
    IN  Of("RTL014", m, UNION {{a.expr[k] : k \in outside(a.expr)} : a \in BothAssigns(m)})

\* _assignment_width_diagnostics: 0 and 1 fit everywhere, as does a sized 0.
WidthRule(m) ==
    LET target(a) == WidthOfName(a.target, SymbolsOf(m))
        actual(a) == ExpressionWidth(a.expr, SymbolsOf(m))
        fits(a)   == LET e == Bare(SelectSeq(a.expr, LAMBDA t : t # ",")) IN
                     /\ Len(e) = 1 /\ IsNumber(e[1])
                     /\ actual(a) = {1} /\ Literal[e[1]].value \in {{0}, {1}}
    IN  Of("RTL020", m, {a.target : a \in {x \in BothAssigns(m) :
            Cardinality(target(x) \cup actual(x)) = 2 /\ actual(x) # {} /\ target(x) # {} /\ ~fits(x)}})

\* _rule_parameter_width looks for a parameter's name anywhere in the text of the
\* range, which is a name of the range unless it lies inside of a based number.
ParameterWidthRule(m) ==
    LET s      == SymbolsOf(m)
        values == ParameterValues(m.parameters)
        odd(b) == b[1] < 0 \/ b[2] < 0 \/ Distance(b[1], b[2]) + 1 > 65536
    IN  Of("RTL027", m, {n \in DOMAIN s :
            /\ Has(s[n].range, DOMAIN values)
            /\ \E b \in EvaluateRange(s[n].range, values) : odd(b)})

\* _rule_signed_unsigned
SignRule(m) ==
    LET s        == SymbolsOf(m)
        signs(e) == {s[n].signed : n \in Identifiers(e) \cap DOMAIN s}
        cast(e)  == Has(e, {"$signed", "$unsigned"})
        compares == {"==", "!=", "===", "!==", "<", "<=", ">", ">="}
        mixed(a) == \/ Cardinality(signs(a.expr)) > 1
                    \/ a.target \in DOMAIN s /\ signs(a.expr) \notin {{}, {s[a.target].signed}}
        condition(b, k) ==
            /\ b.body[k] = "if" /\ k < Len(b.body) /\ b.body[k + 1] = "("
            /\ LET g == Group(b.body, k + 1, "(", ")") IN
               /\ g.end <= Len(b.body) /\ ~cast(g.inner)
               /\ Cardinality(signs(g.inner)) > 1 /\ Has(g.inner, compares)
    IN  Of("RTL023", m, {a.target : a \in {x \in BothAssigns(m) : ~cast(x.expr) /\ mixed(x)}})
        \cup Of("RTL023", m, {"if" : b \in {x \in Blocks(m) : \E k \in DOMAIN x.body : condition(x, k)}})

-----------------------------------------------------------------------------
(* Blocks. *)

\* _conditional_targets_without_default: the targets that are assigned after
\* the first if or case and not before it.
RiskyTargets(b) ==
    LET first  == FirstWith(1, Len(b.body), LAMBDA k : b.body[k] \in Case \cup {"if"})
        at(k)  == LastIdentifier(SubSeq(b.body, 1, k - 1))
        sites  == ToSet(AssignmentsAt(b.body))
        before == {b.body[at(k)] : k \in {j \in sites : at(j) < first}}
    IN  IF first > Len(b.body) THEN {}
        ELSE {b.body[at(k)] : k \in {j \in sites : at(j) >= first}} \ before

\* Mutant of LatchTargets: one else is enough for any number of ifs.
LatchTargetsFew(m) ==
    UNION {RiskyTargets(b) : b \in {x \in Blocks(m) :
        /\ Combinational(x)
        /\ \/ Has(x.body, {"if"}) /\ ~Has(x.body, {"else"})
           \/ Has(x.body, Case) /\ ~Has(x.body, {"default"})}}

LatchTargets(m) ==
    UNION {RiskyTargets(b) : b \in {x \in Blocks(m) :
        /\ Combinational(x)
        /\ \/ HowMany(x.body, {"if"}) > HowMany(x.body, {"else"})
           \/ Has(x.body, Case) /\ ~Has(x.body, {"default"})}}
LatchRule(m) == Of("RTL003", m, LatchTargets(m))
IncompleteCaseRule(m) ==
    Of("RTL021", m, UNION {{a.target : a \in ToSet(b.assigns)} : b \in {x \in Blocks(m) :
        /\ Combinational(x) /\ RiskyTargets(x) = {}
        /\ Has(x.body, Case) /\ ~Has(x.body, {"default"})}})

\* _case_wildcard_items: the wildcards of the case at b[k], not those of the
\* cases inside it.
Wildcards(b, k) ==
    LET g    == Group(b, k + 1, "(", ")")
        rest == SubSeq(b, g.end + 1, Len(b))
        d    == Depths(<<"case">> \o rest, Case, {"endcase"})
    IN  IF k = Len(b) \/ b[k + 1] # "(" \/ g.end > Len(b) THEN {}
        ELSE {rest[j] : j \in {i \in DOMAIN rest :
                 /\ d[i + 1] = 1 /\ \A h \in 1 .. i : d[h] > 0
                 /\ IsNumber(rest[i]) /\ Literal[rest[i]].wild}}
WildcardRule(m) ==
    Of("RTL022", m, UNION {UNION {{b.body[k]} : k \in {j \in DOMAIN b.body :
        \/ b.body[j] = "casex"
        \/ b.body[j] = "casez" /\ Wildcards(b.body, j) # {}}} : b \in Blocks(m)})

BlockingRule(m) ==
    Of("RTL006", m, UNION {{a.target : a \in {x \in ToSet(b.assigns) : x.op = "="}} :
                              b \in {x \in Blocks(m) : Sequential(x)}})
    \cup Of("RTL007", m, UNION {{a.target : a \in {x \in ToSet(b.assigns) : x.op = "<="}} :
                              b \in {x \in Blocks(m) : Combinational(x)}})

LongOperators == {"+", "-", "*", "/", "%", "&", "|", "^", "<<", ">>", "<<<", ">>>", "?", "&&", "||",
                  "==", "!=", ">", "<", ">=", "<="}
LongRule(m) ==
    Of("RTL005", m, {b.body : b \in {x \in Blocks(m) :
                         Combinational(x) /\ HowMany(x.body, LongOperators) >= Threshold}})
    \cup Of("RTL005", m, {a.expr : a \in {x \in Assigns(m) : HowMany(x.expr, LongOperators) >= Threshold}})

SynthesisRule(m) ==
    LET s == m.body IN
    Of("RTL025", m, {s[k] : k \in {j \in DOMAIN s :
        \/ s[j] \in {"initial", "$display", "$write", "$monitor", "$finish", "$stop", "$time", "$random"}
        \/ s[j] = "#" /\ j < Len(s) /\ IsNumber(s[j + 1])}})

GenerateRule(m) ==
    LET branches(g) == HowMany(g.body, {"for", "if", "case"}) IN
    Of("RTL026", m, {g.kind : g \in {x \in ToSet(m.generates) :
        \/ branches(x) > 1
        \/ branches(x) = 1 /\ Has(x.body, DOMAIN m.parameters)}})

-----------------------------------------------------------------------------
(* Clocks and resets. *)

\* _async_reset_event_signals: those that the first if of the block tests.
AsyncResets(b) ==
    LET k == FirstWith(1, Len(b.body), LAMBDA j : b.body[j] = "if")
        g == Group(b.body, k + 1, "(", ")")
    IN  IF k < Len(b.body) /\ b.body[k + 1] = "(" /\ g.end <= Len(b.body)
        THEN EventSignals(b) \cap Identifiers(g.inner) \cap ResetName ELSE {}
MultiClockRule(m) ==
    Of("RTL024", m, {b.sensitivity : b \in {x \in Blocks(m) :
        Cardinality(EventSignals(x) \ AsyncResets(x)) > 1}})

GateOperators == {"&", "|", "^", "?", "~"}
\* _rule_gated_clock: a derived clock is known in the modules that follow, too.
DerivedClocks(m) == {a.target : a \in {x \in Assigns(m) : x.target \in ClockName /\ Has(x.expr, GateOperators)}}
GatedClockRule(m, d) ==
    LET k == CHOOSE j \in DOMAIN d : d[j] = m
        derived == UNION {DerivedClocks(d[j]) : j \in 1 .. k}
        blocks == {b \in Blocks(m) : Sequential(b)}
    IN  Of("RTL004", m, {<<n>> : n \in DerivedClocks(m)})
        \cup Of("RTL004", m, {b.sensitivity : b \in {x \in blocks :
                 Has(x.sensitivity, GateOperators) \/ EventSignals(x) \cap derived # {}}})

\* _rule_async_reset_release: by the names alone, over all modules.
ReleaseRule(d) ==
    LET blocks == {b \in UNION {Blocks(m) : m \in ModulesOf(d)} : Sequential(b)}
        clocks(b) == SelectSeq(Events(b), LAMBDA e : e.edge = "posedge" /\ e.signal \in ClockName)
        under(r) == {Head(clocks(b)).signal : b \in {x \in blocks :
                        r \in EventSignals(x) /\ clocks(x) # <<>>}}
    IN  {<<"RTL009", "", r>> : r \in {x \in ResetName : Cardinality(under(x)) > 1}}

\* _rule_constraint_clock_mismatch, with the ports of the create_clock commands
ConstraintRule(d, top, constrained) ==
    LET k == FirstWith(1, Len(d), LAMBDA j : top \in {"", d[j].name})
        ports == DOMAIN d[k].ports
    IN  IF k > Len(d) THEN {}
        ELSE Of("RTL010", d[k], (constrained \ ports) \cup ((ports \cap ClockName) \ constrained))

NettypeRule(nettypeNone) == IF nettypeNone THEN {} ELSE {<<"RTL001", "", "">>}

\* run_builtin_rules
ModuleReports(m, d, nettypeNone) ==
    UNION {PortRule(m), ImplicitRule(m, d, nettypeNone), TargetRule(m), UnresolvedRule(m, d),
           InstanceRule(m, d), SelectRule(m), WidthRule(m), WildcardRule(m), SignRule(m),
           MultiClockRule(m), SynthesisRule(m), GenerateRule(m), ParameterWidthRule(m), LatchRule(m),
           IncompleteCaseRule(m), GatedClockRule(m, d), LongRule(m), BlockingRule(m), DriverRule(m),
           UnusedRule(m, d)}
LintReports(d, nettypeNone, top, constrained) ==
    NettypeRule(nettypeNone)
    \cup UNION {ModuleReports(m, d, nettypeNone) : m \in ModulesOf(d)}
    \cup ReleaseRule(d)
    \cup ConstraintRule(d, top, constrained)

=============================================================================
