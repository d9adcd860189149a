-------------------------------- MODULE Reading --------------------------------
(***************************************************************************)
(* The lint and risk workflows on texts whose meaning is known: the parser *)
(* of Parser reads a text of Corpus, and the rules of LintRules and        *)
(* RiskRules report on what it has read.  The properties compare both with *)
(* the meaning of the text in Verilog, and say where the code falls short. *)
(***************************************************************************)
EXTENDS RiskRules, Corpus

\* The kind of the text and its description in Corpus.  The properties are
\* about the step in which the parser returns what it has read.
Kind       == origin[1]
Text       == origin[2]
Read(kind) == Kind = kind /\ scope' = "returned"

-----------------------------------------------------------------------------
(* What the parser reads. *)

Sites(m)  == [k \in DOMAIN m.assigns |-> m.assigns[k].target]
             \o FlattenSeq([b \in DOMAIN m.always |->
                    [k \in DOMAIN m.always[b].assigns |-> m.always[b].assigns[k].target]])

\* The first module is what the header and the items w mean.
ReadAsWritten(w) ==
    LET h == Headers[w.header] i == Items[w.first] k == Items[w.second]
        m == design[1]
        sites == i.targets \o k.targets
    IN  /\ errors = {} /\ Len(design) = 2
        /\ DOMAIN m.ports = h.inputs \cup h.outputs
        /\ DOMAIN m.declarations = DOMAIN m.ports \cup i.declares \cup k.declares
        /\ DOMAIN m.parameters = h.parameters \cup i.parameters \cup k.parameters
        /\ {x.name : x \in ToSet(m.instances)} = i.instances \cup k.instances
        /\ \A n \in ToSet(Sites(m) \o sites) : HowMany(Sites(m), {n}) = HowMany(sites, {n})

Legal(w) ==
    "misread" \notin {Headers[w.header].sort, Items[w.first].sort, Items[w.second].sort}

\* The parser reads a legal module for what it is, whatever two items are in
\* it in whatever order.  Of the constructs that it misreads nothing is claimed.
LegalTextIsRead == [][Read("pair") /\ Legal(Text) => ReadAsWritten(Text)]_reading

Lost == Sources[Text.source][Text.lost]

\* The module after the damaged text is read as if nothing had happened.
Intact ==
    \E m \in ToSet(design) :
        m.name = "b" /\ m.order = <<"a", "y">> /\ m.body = SubSeq(Child, 11, 15)

\* The tokens whose loss lets the parser run on: closing ones, and the
\* semicolon before which it looks for an else.
Closing ==
    Close \cup {"end", "endcase", "endmodule", "endgenerate", "endfunction", "endtask", "endpackage",
                "endinterface", "endclass", "endspecify", "endproperty"}
BareIf(s) == Has(s, {"if"}) /\ ~Has(s, {"begin"})

\* A lost token damages no other module, unless it closes something or ends
\* an if without a block; and if the next module is damaged, or a bracket, a
\* block or a module lost its begin or end, there is a report.
DamageIsContained ==
    [][Read("loss") =>
            /\ Intact \/ Lost \in Closing \/ (Lost = ";" /\ BareIf(Sources[Text.source]))
            /\ (~Intact \/ Lost \in {"(", ")", "begin", "end", "endcase", "endgenerate", "endmodule"})
                  => errors # {}]_reading

-----------------------------------------------------------------------------
(* What the lint rules report. *)

\* An SDC file that constrains the clock and two of the ports.
Constraints == [multicycle |-> TRUE, inputs |-> {"a"}, outputs |-> {"y"}]

Lint(rules) == {r \in LintReports(design, TRUE, "", {"clk"}) : r[1] \in rules}
Found(rules) == {r[3] : r \in Lint(rules)}

\* What the header and the two items of w mean, together.
OfBoth(w, Facts(_)) == Facts(Items[w.first]) \cup Facts(Items[w.second])
Ports(w)  == Headers[w.header].inputs \cup Headers[w.header].outputs
Needed(i) == i.reads \cup i.drives
Driven(i) == i.drives \cup ToSet(i.targets)

\* What counts as used: what an instance drives or a block assigns, too.
Used(i) == Needed(i) \cup IF Has(i.text, Always) THEN ToSet(i.targets) ELSE {}

\* In a legal module the reports about its nets are the true ones: unused
\* inputs, outputs without a driver, signals that are unused or never read,
\* names without a declaration, and signals that two items assign.  Only the
\* name of a module never counts as undeclared.
NetReportsAreTrue ==
    [][Read("pair") /\ Legal(Text) =>
            LET h        == Headers[Text.header]
                found    == Lint({"RTL008", "RTL015", "RTL016", "RTL017", "RTL018", "SEM003"})
                about(rule) == {r[3] : r \in {x \in found : x[1] = rule /\ x[2] = "m"}}
                local    == OfBoth(Text, LAMBDA i : i.declares)
                used     == OfBoth(Text, Used)
                driven   == OfBoth(Text, Driven)
            IN  /\ about("RTL017") = h.inputs \ used
                /\ about("RTL018") = h.outputs \ driven
                /\ about("RTL015") = local \ (used \cup driven)
                /\ about("RTL016") = (local \cap driven) \ used
                /\ about("SEM003") = OfBoth(Text, Needed) \ (Ports(Text) \cup local \cup Names(design))
                /\ about("RTL008") = ToSet(Items[Text.first].targets) \cap ToSet(Items[Text.second].targets)]_reading

\* An instance that overrides a parameter with a value, by name or by position,
\* is read without a report, and its connections use and drive the ports of the
\* module around it.  _looks_like_instance asks for a name after the bracket,
\* so the code refuses both texts.
OverrideIsRead ==
    [][Read("override") =>
            /\ errors = {} /\ Lint({"RTL017", "RTL018"}) = {}
            /\ \E m \in ToSet(design) :
                   m.name = "top" /\ {x.name : x \in ToSet(m.instances)} = {"u"}]_reading

\* The ports of an instance that are left open are the ones reported, however
\* the others are connected.  Only an input that is connected by name to
\* nothing is passed over.
OpenPortsAreReported ==
    [][Read("ports") =>
            {r[2] : r \in Found({"RTL012", "RTL019"})}
                = OpenPorts(Text) \ {n \in {"a"} : Text.named /\ Text.ports[1] = "empty"}]_reading

\* A signal that some paths of a combinational block assign and others do not
\* is reported, however the statements are nested, except where the default of
\* one case hides another, or complete ifs assign different signals.
LatchIsReported ==
    [][Read("tree") =>
            \A n \in Latches(Text) :
                \/ n \in Found({"RTL003"})
                \/ Uses(Text, "case") /\ Uses(Text, "default")
                \/ ~Uses(Text, "case") /\ ~Uses(Text, "if")]_reading

\* The code splits these expressions at another operator than Verilog does,
\* or gives a product a width of its own ...
Misgrouped(s) ==
    \/ Head(s) = "&"
    \/ Has(s, {"*"})
    \/ \E pair \in {{"&", "=="}, {"&", "<<"}, {"+", "<<"}} : pair \subseteq ToSet(s)
\* ... and finds no width for these.
Widthless(s) == Has(s, {"~", "{"})

\* An assignment to four bits is reported exactly if its expression has not
\* four, apart from these expressions.
WidthReportIsTrue ==
    [][Read("width") =>
            LET wide     == VerilogWidth(Text) = 4
                reported == Found({"RTL020"}) # {}
            IN  /\ reported => ~wide \/ Misgrouped(Expression(Text))
                /\ ~reported => wide \/ Misgrouped(Expression(Text)) \/ Widthless(Expression(Text))]_reading

-----------------------------------------------------------------------------
(* What the risk rules report. *)

\* The reports about a state machine are the true ones: a missing reset or
\* default; a default that does not go to the reset state; a state without a
\* branch; and the traps, that is, the states that lead only to themselves, the
\* reset state apart.  States that are numbers have no value in the code, so any
\* two of them count as equal (_expr_matches_state): with a reset state they all
\* pass for it and traps are missed, without one every state that goes somewhere
\* unconditionally passes for a trap.
MachineReportsAreTrue ==
    [][Read("machine") =>
            LET found   == {r[3] : r \in Machines(design[1])}
                ends    == {r \in found : r[2] = "obvious_terminal_state"}
                traps   == {<<"state", "obvious_terminal_state", StateName(Text, k)>> :
                                k \in {j \in Traps(Text) : Text.deeds[j] # "nothing" /\ (Text.reset => j > 1)}}
                issues  == {i \in {"missing_reset"} : ~Text.reset}
                           \cup {i \in {"missing_case_default"} : Text.default = "none"}
                           \cup {i \in {"unsafe_default_recovery"} :
                                    Text.reset /\ Text.default \notin {"none", "home"}}
                           \cup {i \in {"declared_state_not_handled"} : Text.named /\ Text.handled = 2}
            IN  /\ found \ ends = {<<"state", i>> : i \in issues}
                /\ Text.named \/ ~Text.reset => traps \subseteq ends
                /\ Text.named \/ Text.reset => ends \subseteq traps]_reading

\* A register that another clock domain captures in fewer than two stages is
\* reported, and one that none does is not; but the rule looks for the stages
\* in the first block that reads the register, whatever its clock: two stages
\* there hide any other capture, and a block of the register's own clock there
\* hides the stages.
CrossingIsReported ==
    [][Read("crossing") =>
            LET unsafe == \E k \in DOMAIN Text : Text[k] \in {"one", "direct"}
                found  == \E r \in RiskReports(design, "m", {Constraints}) :
                              r[1] = "RISK_CDC_UNSYNC_SIGNAL" /\ r[3] = "q"
            IN  /\ unsafe => found \/ Head(Text) = "two"
                /\ found => unsafe \/ Head(Text) = "own"]_reading

=============================================================================
