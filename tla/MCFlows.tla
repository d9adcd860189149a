------------------------------- MODULE MCFlows -------------------------------
(* Three searches that share nothing, in one run: the loop search of the risk *)
(* rules, the commands lint, risk and review, and the regression of lint.  A  *)
(* behaviour is one of them, and the other two do nothing.                    *)
EXTENDS MCCombinationalLoop, ReviewFlow, DiffBatch

VARIABLE part

-----------------------------------------------------------------------------
(* The texts and the commands of a review. *)

F(rule, severity, line, category) ==
    [rule |-> rule, severity |-> severity, line |-> line, category |-> category]
Text(l, r, top, raises) == [lint |-> l, risk |-> r, top |-> top, named |-> top, raises |-> raises]
Latch(line) ==
    Text({F("RTL003_LATCH_RISK", "warning", line, "latch")},
         {F("RISK_LATCH_TIMING", "medium", line, "latch_timing")}, TRUE, {})

\* A latch, the same one further down, a text on which a risk rule raises, one
\* without the top module, and none.
SomeTexts ==
    [absent |-> Text({F("PP001_INCLUDE", "error", 1, "preprocess")}, {}, FALSE, {}),
     latch  |-> Latch(3),
     moved  |-> Latch(4),
     fanout |-> Text({}, {}, TRUE, {"risk"}),
     other  |-> Text({F("SYNTAX001", "error", 2, "syntax"), F("UNSUPPORTED_VERILOG", "warning", 5, "unsupported")},
                     {F("RISK_LONG_COMB_PATH", "high", 3, "timing_setup")}, FALSE, {})]
NoText == "absent"
SomeRuleCases ==
    [RTL003_LATCH_RISK   |-> "P0_LATCH_INFERENCE", RISK_LATCH_TIMING |-> "P0_LATCH_INFERENCE",
     RISK_LONG_COMB_PATH |-> "P0_LONG_COMBINATIONAL_PATH"]
SomeSyntaxRules == {"SYNTAX001", "PP001_INCLUDE", "SEM001_TOP_NOT_FOUND"}
SomeUnsupportedRules == {"UNSUPPORTED_VERILOG"}

Cmd(name, top, rules, entries_, failOn) ==
    [name |-> name, top |-> top, rules |-> rules, entries |-> entries_, debug |-> FALSE,
     failOn |-> failOn, define |-> "good", gold |-> [categories |-> {}, rules |-> {}]]
SomeCommands ==
    {[Cmd("lint", TRUE, "good", {"matches", "pattern"}, "error") EXCEPT !.debug = TRUE],
     Cmd("lint", FALSE, "none", {}, "warning"),
     Cmd("lint", TRUE, "missing", {}, "never"),
     Cmd("lint", TRUE, "format", {}, "error"),
     Cmd("lint", TRUE, "array", {"matches"}, "error"),
     [Cmd("lint", TRUE, "none", {}, "error") EXCEPT !.define = "empty"],
     [Cmd("risk", TRUE, "none", {}, "error") EXCEPT
         !.gold = [categories |-> {"latch_timing", "reset_timing"}, rules |-> {"RISK_LONG_COMB_PATH"}]],
     Cmd("risk", FALSE, "none", {}, "error"),
     Cmd("review", TRUE, "good", {"kind"}, "error"),
     Cmd("review", TRUE, "good", {"text"}, "error"),
     Cmd("review", FALSE, "none", {}, "error")}

-----------------------------------------------------------------------------
(* The corpora of a regression. *)

Case(id, language, kind, category, expected, old, should) ==
    [id |-> id, language |-> language, kind |-> kind, category |-> category,
     expected |-> expected, iverilog |-> old, should |-> should]
Cases ==
    [old_fail    |-> Case("c1", "", "", "syntax", "", "", TRUE),
     old_warning |-> Case("c2", "", "", "warning_like", "", "pass", TRUE),
     v_syntax    |-> Case("c3", "verilog", "error", "syntax", "fail", "", TRUE),
     v_legal     |-> Case("c4", "verilog", "error", "syntax", "pass", "", FALSE),
     v_latch     |-> Case("c5", "verilog", "warning", "latch_risk", "pass", "", TRUE),
     v_same      |-> Case("c5", "verilog", "warning", "own", "warning", "", TRUE),
     v_info      |-> Case("c6", "verilog", "info", "own", "pass", "", TRUE),
     sv_enum     |-> Case("c7", "systemverilog", "warning", "enum_usage", "warning", "", TRUE),
     sv_legal    |-> Case("c8", "systemverilog", "warning", "enum_usage", "pass", "", FALSE),
     sv_odd      |-> Case("c9", "systemverilog", "", "enum_usage", "", "fail", FALSE),
     no_json     |-> Case("no JSON", "verilog", "error", "zz", "fail", "", TRUE),
     no_id       |-> Case("", "verilog", "error", "zzz", "fail", "", TRUE)]
Order == <<"sv_odd", "sv_enum", "sv_legal", "old_fail", "v_syntax", "v_legal", "no_json", "no_id",
           "v_info", "v_latch", "v_same", "old_warning">>
Ranks == [x \in DOMAIN Cases |-> CHOOSE k \in DOMAIN Order : Order[k] = x]

\* Each case alone, and pairs: of one category, of one id, and with a case that
\* ends the batch.
Pairs == {{"v_syntax", "v_legal"}, {"v_latch", "v_same"}, {"old_fail", "v_syntax"}, {"sv_odd", "sv_legal"},
          {"v_latch", "no_json"}, {"v_syntax", "no_id"}, {"v_info", "old_warning"}}
SomeCorpora == {[x \in s |-> Cases[x]] : s \in {{}} \cup {{x} : x \in DOMAIN Cases} \cup Pairs}
SomeBuiltIn == [sv_enum |-> Cases.sv_enum]
SomeRequired == {<<"verilog", "error", "syntax">>, <<"verilog", "warning", "latch_risk">>,
                 <<"systemverilog", "warning", "enum_usage">>}
SomeOutcomes ==
    {{}} \cup {{[rule |-> "RTL001", severity |-> "warning"]} \cup s : s \in
        {{}, {[rule |-> "RTL003", severity |-> "warning"]}, {[rule |-> "RTL017", severity |-> "info"]},
         {[rule |-> "UNSUPPORTED", severity |-> "warning"]}, {[rule |-> "SYNTAX001", severity |-> "error"]}}}

-----------------------------------------------------------------------------
(* One of the three. *)

FlowsInit ==
    /\ part \in {"loop", "flow", "batch"}
    /\ IF part = "loop" THEN TRUE ELSE design = CHOOSE d \in Blocks : TRUE
    /\ text \in IF part = "flow" THEN DOMAIN Texts ELSE {Absent}
    /\ corpus \in IF part = "batch" THEN Corpora ELSE {<<>>}
    /\ fresh \in {FALSE, part = "batch"} /\ iverilog \in {FALSE, part = "batch"}
    /\ Init /\ FlowInit /\ BatchInit
Loop  == part = "loop" /\ Next /\ UNCHANGED <<part, flow, batch>>
Flow  == part = "flow" /\ FlowNext /\ UNCHANGED <<part, vars, batch>>
Batch == part = "batch" /\ BatchNext /\ UNCHANGED <<part, vars, flow>>
Flows == FlowsInit /\ [][Loop \/ Flow \/ Batch]_<<part, vars, flow, batch>>

\* All parts keep to their types.
FlowsTypeOK == TypeOK /\ FlowTypeOK /\ BatchTypeOK

=============================================================================
