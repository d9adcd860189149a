-------------------------------- MODULE Corpus --------------------------------
(***************************************************************************)
(* Verilog texts as sequences of tokens, each with what it means in        *)
(* Verilog: the reference that the properties of Reading compare the       *)
(* parser and the rules with.  Nothing here is taken from the code.        *)
(***************************************************************************)
EXTENDS Integers, SequencesExt

RECURSIVE Joined(_)
Joined(parts) == IF parts = <<>> THEN <<>> ELSE Head(parts) \o Joined(Tail(parts))

Eot == <<"<eof>">>
End == <<"endmodule">>

\* The module that follows, and that is instantiated.
Child == <<"module", "b", "(", "input", "a", ",", "output", "y", ")", ";",
           "assign", "y", "=", "a", ";", "endmodule">>

-----------------------------------------------------------------------------
(* Headers and items of a module m.  An item declares names, assigns its    *)
(* targets, drives names through the outputs of an instance, reads names.   *)
(* The texts of the sort "misread" are legal Verilog, too, but the code      *)
(* reads something else: what they mean is in no property of what is read.  *)

Neutral == [sort |-> "legal", declares |-> {}, parameters |-> {}, targets |-> <<>>, drives |-> {},
            reads |-> {}, instances |-> {}]
Item(text, facts) == [text |-> text] @@ facts @@ Neutral
Misread(text, facts) == [Item(text, facts) EXCEPT !.sort = "misread"]

Body(event, statements) == event \o <<"begin">> \o statements \o <<"end">>
Clocked == <<"always", "@", "(", "posedge", "clk", ")">>
Comb    == <<"always", "@", "(", "*", ")">>
GenerateFor == <<"for", "(", "i", "=", "0", ";", "i", "<", "4", ";", "i", "=", "i", "+", "1", ")",
                 "begin", ":", "g", "b", "u4", "(", "a", ",", "v", ")", ";",
                 "assign", "w", "=", "b", ";", "end">>

Items == <<
    Item(<<"assign", "y", "=", "a", ";">>, [targets |-> <<"y">>, reads |-> {"a"}]),
    Item(<<"assign", "w", "=", "q", "?", "b", ":", "(", "a", "<=", "b", ")", ";">>,
         [targets |-> <<"w">>, reads |-> {"q", "a", "b"}]),
    Item(<<"wire", "w", ",", "v", "=", "a", ";">>,
         [declares |-> {"w", "v"}, targets |-> <<"v">>, reads |-> {"a"}]),
    Item(<<"reg", "[", "3", ":", "0", "]", "q", ";">>, [declares |-> {"q"}]),
    Item(<<"t", "x", ";">>, [declares |-> {"x"}]),
    Item(<<"localparam", "D", "=", "4", ",", "E", "=", "D", "-", "1", ";">>,
         [parameters |-> {"D", "E"}]),
    Item(<<"import", "p", "::", "*", ";", ";">>, <<>>),
    Item(<<"typedef", "enum", "logic", "{", "A", ",", "B", "}", "t", ";">>, <<>>),
    Item(Body(Clocked, <<"q", "<=", "w", ";">>), [targets |-> <<"q">>, reads |-> {"clk", "w"}]),
    Item(Body(<<"always_ff", "@", "(", "posedge", "clk", "or", "negedge", "rst", ")">>,
              <<"if", "(", "!", "rst", ")", "q", "<=", "0", ";", "else", "q", "<=", "b", ";">>),
         [targets |-> <<"q", "q">>, reads |-> {"clk", "rst", "b"}]),
    Item(Body(Comb, <<"case", "(", "a", ")", "0", ":", "y", "=", "b", ";",
                      "default", ":", "y", "=", "w", ";", "endcase">>),
         [targets |-> <<"y", "y">>, reads |-> {"a", "b", "w"}]),
    Item(Comb \o <<"if", "(", "b", ")", "y", "=", "a", ";", "else", "y", "=", "v", ";">>,
         [targets |-> <<"y", "y">>, reads |-> {"a", "b", "v"}]),
    Item(<<"b", "u1", "(", "a", ",", "w", ")", ";">>,
         [drives |-> {"w"}, reads |-> {"a"}, instances |-> {"u1"}]),
    Item(<<"b", "u3", "(", ".", "y", "(", "w", ")", ",", ".", "a", "(", "b", ")", ")", ";">>,
         [drives |-> {"w"}, reads |-> {"b"}, instances |-> {"u3"}]),
    Item(<<"generate">> \o GenerateFor \o <<"endgenerate">>,
         [targets |-> <<"w">>, drives |-> {"v"}, reads |-> {"a", "b"}, instances |-> {"u4"}]),

    \* a parameter value that is not a name, or two instances in one statement
    Misread(<<"b", "#", "(", "4", ")", "u2", "(", "w", ",", "y", ")", ";">>,
         [drives |-> {"y"}, reads |-> {"w"}, instances |-> {"u2"}]),
    Misread(<<"b", "u5", "(", "a", ",", "w", ")", ",", "u6", "(", "b", ",", "v", ")", ";">>,
         [drives |-> {"w", "v"}, reads |-> {"a", "b"}, instances |-> {"u5", "u6"}]),
    \* a loop of instances without the keyword generate
    Misread(GenerateFor,
         [targets |-> <<"w">>, drives |-> {"v"}, reads |-> {"a", "b"}, instances |-> {"u4"}]),
    \* a block without begin, of one assignment or of an if with blocks in it
    Misread(Clocked \o <<"q", "<=", "w", ";">>, [targets |-> <<"q">>, reads |-> {"clk", "w"}]),
    Misread(Comb \o Body(<<"if", "(", "b", ")">>, <<"y", "=", "a", ";">>)
                 \o Body(<<"else">>, <<"y", "=", "v", ";">>),
         [targets |-> <<"y", "y">>, reads |-> {"a", "b", "v"}]),
    \* a comparison on the right, an index or a concatenation on the left, two
    \* assignments in one statement
    Misread(Body(Comb, <<"y", "=", "(", "a", "<=", "b", ")", ";">>),
         [targets |-> <<"y">>, reads |-> {"a", "b"}]),
    Misread(Body(Clocked, <<"q", "[", "a", "]", "<=", "w", ";">>),
         [targets |-> <<"q">>, reads |-> {"clk", "a", "w"}]),
    Misread(<<"assign", "{", "w", ",", "v", "}", "=", "a", ";">>,
         [targets |-> <<"w", "v">>, reads |-> {"a"}]),
    Misread(<<"assign", "w", "=", "a", ",", "v", "=", "b", ";">>,
         [targets |-> <<"w", "v">>, reads |-> {"a", "b"}])>>

Header(text, inputs, outputs, parameters) ==
    [text |-> text, inputs |-> inputs, outputs |-> outputs, parameters |-> parameters, sort |-> "legal"]
Headers == <<
    Header(<<"module", "m", "(", "input", "clk", ",", "rst", ",", "a", ",", "b", ",",
             "output", "reg", "y", ")", ";">>, {"clk", "rst", "a", "b"}, {"y"}, {}),
    Header(<<"module", "m", "#", "(", "parameter", "W", "=", "4", ")", "(", "input", "clk", ",",
             "input", "[", "W", "-", "1", ":", "0", "]", "a", ",", "output", "y", ")", ";">>,
           {"clk", "a"}, {"y"}, {"W"}),
    Header(<<"module", "m", "(", "clk", ",", "a", ",", "y", ")", ";",
             "input", "clk", ",", "a", ";", "output", "y", ";">>, {"clk", "a"}, {"y"}, {}),
    [Header(<<"module", "m", "(", "a", ",", "y", ")", ";", "input", "a", ";", "output", "y", ";",
              "reg", "y", ";">>, {"a"}, {"y"}, {}) EXCEPT !.sort = "misread"]>>

\* A module of two items that declare different names.
Compatible(i, k) ==
    /\ i.declares \cap k.declares = {} /\ i.parameters \cap k.parameters = {}
    /\ i.instances \cap k.instances = {}
Pairs ==
    {w \in [header : DOMAIN Headers, first : DOMAIN Items, second : DOMAIN Items] :
        /\ w.header = 1 \/ w.first \in {1, 4, 13}
        /\ Compatible(Items[w.first], Items[w.second])}
PairText(w) ==
    Headers[w.header].text \o Items[w.first].text \o Items[w.second].text \o End \o Child

\* The two texts with which the repository confirms that legal overrides of a
\* parameter, by name and by position, are read without a report: the cases
\* verilog_instantiation_{named,ordered}_param_override_valid.
Overrides == {"named", "ordered"}
OverrideText(w) ==
    <<"module", "child", "#", "(", "parameter", "WIDTH", "=", "1", ")", "(", "input",
      "[", "WIDTH", "-", "1", ":", "0", "]", "a", ",", "output", "y", ")", ";",
      "assign", "y", "=", "|", "a", ";", "endmodule",
      "module", "top", "(", "input", "[", "3", ":", "0", "]", "a", ",", "output", "y", ")", ";",
      "child", "#", "(">>
    \o (IF w = "named" THEN <<".", "WIDTH", "(", "4", ")">> ELSE <<"4">>)
    \o <<")", "u", "(", ".", "a", "(", "a", ")", ",", ".", "y", "(", "y", ")", ")", ";", "endmodule">>

-----------------------------------------------------------------------------
(* Texts that have lost one token, before the module that follows. *)

Sources ==
    [k \in DOMAIN Items |-> Headers[1].text \o Items[k].text \o End] \o <<
    <<"package", "p", ";", "typedef", "logic", "t", ";", "parameter", "W", "=", "4", ";",
      "wire", "z", ";", "import", "r", "::", "*", ";", "function", "f", ";", "endpackage", ":", "p">>,
    <<"interface", "bus", "(", "input", "c", ")", ";", "logic", "a", ";", "typedef", "logic", "t", ";",
      "modport", "mp", "(", "input", "a", ")", ";", "class", "k", ";", "endclass", "endinterface",
      "module", "m", "(", "input", "c", ")", ";", "bus", "i1", "(", "c", ")", ";",
      "bus", ".", "mp", "i2", "(", ")", ";", "endmodule">>,
    <<"import", "p", "::", "z", ";", "module", "m", ";", "function", "f", ";", "input", "x", ";",
      "f", "=", "x", ";", "endfunction", "task", "k", ";", "input", "x", ";", "y", "=", "x", ";",
      "endtask", "endmodule">>,
    <<"module", "m", ";", "initial", "begin", "q", "=", "0", ";", "end", "initial", "q", "=", "1", ";",
      "specify", "(", "a", "=>", "b", ")", "=", "4", ";", "endspecify",
      "property", "r", ";", "endproperty", "endmodule">>>>
Losses == UNION {{[source |-> k, lost |-> n] : n \in DOMAIN Sources[k]} : k \in DOMAIN Sources}
LossText(w) == RemoveAt(Sources[w.source], w.lost) \o Child

-----------------------------------------------------------------------------
(* Instances: every way of connecting the ports a, y and z of a module, by  *)
(* name or by position.  A connection is a name, empty or left out.         *)

Ways == {"name", "empty", "none"}
ByPort == {[named |-> TRUE, ports |-> <<p, q, r>>] : p \in Ways, q \in Ways, r \in Ways}
InOrder ==
    {[named |-> FALSE, ports |-> p] :
        p \in UNION {[1 .. n -> {"name", "empty"}] : n \in 1 .. 4}}
Connections3 == ByPort \cup InOrder

PortNames == <<"a", "y", "z">>
Wires == <<"v", "w", "x", "b">>
ConnectionText(c) ==
    LET one(k) == LET wire == IF c.ports[k] = "name" THEN <<Wires[k]>> ELSE <<>> IN
                  IF c.named THEN <<".", PortNames[k], "(">> \o wire \o <<")">> ELSE wire
        listed == SelectSeq([k \in DOMAIN c.ports |-> k], LAMBDA k : c.ports[k] # "none")
        parts  == [k \in DOMAIN listed |-> IF k = 1 THEN one(listed[k]) ELSE <<",">> \o one(listed[k])]
    IN  Headers[1].text \o <<"wire", "v", ",", "w", ",", "x", ";", "b", "u", "(">> \o Joined(parts)
        \o <<")", ";">> \o End
        \o <<"module", "b", "(", "input", "a", ",", "output", "y", ",", "inout", "z", ")", ";">> \o End

OpenPorts(c) == {PortNames[k] : k \in {j \in 1 .. 3 : j \notin DOMAIN c.ports \/ c.ports[j] # "name"}}

-----------------------------------------------------------------------------
(* Combinational blocks, as trees of statements over the signals q and y.   *)

Set(n)       == <<"set", n>>
IfThen(s)    == <<"if", s>>
IfElse(s, t) == <<"else", s, t>>
Cases(s)     == <<"case", s>>
CasesOr(s, t) == <<"default", s, t>>
Both(s, t)   == <<"both", s, t>>
Grown(trees) ==
    {IfThen(s) : s \in trees} \cup {IfElse(s, t) : s \in trees, t \in trees}
    \cup {Cases(s) : s \in trees} \cup {CasesOr(s, t) : s \in trees, t \in trees}
    \cup {Both(s, t) : s \in trees, t \in trees}

Leaves    == {Set("q"), Set("y")}
Flat      == {Set("q"), IfThen(Set("q")), Cases(Set("q")), IfElse(Set("q"), Set("q")),
              IfElse(Set("q"), Set("y")), CasesOr(Set("q"), Set("q"))}
Trees     == Grown(Leaves) \cup Grown(Flat)

RECURSIVE Statement(_)
Statement(s) ==
    LET b(k) == Body(<<>>, Statement(s[k])) IN
    CASE s[1] = "set"     -> <<s[2], "=", "a", ";">>
      [] s[1] = "if"      -> <<"if", "(", "b", ")">> \o b(2)
      [] s[1] = "else"    -> <<"if", "(", "b", ")">> \o b(2) \o <<"else">> \o b(3)
      [] s[1] = "case"    -> <<"case", "(", "b", ")", "0", ":">> \o b(2) \o <<"endcase">>
      [] s[1] = "default" -> <<"case", "(", "b", ")", "0", ":">> \o b(2)
                             \o <<"default", ":">> \o b(3) \o <<"endcase">>
      [] s[1] = "both"    -> Statement(s[2]) \o Statement(s[3])
TreeText(s) ==
    Headers[1].text \o <<"reg", "q", ";">> \o Body(Comb, Statement(s)) \o End

\* What is assigned on some path and on every path; a case has other values.
RECURSIVE Sometimes(_), Surely(_)
Sometimes(s) ==
    IF s[1] = "set" THEN {s[2]} ELSE UNION {Sometimes(s[k]) : k \in 2 .. Len(s)}
Surely(s) ==
    CASE s[1] = "set"               -> {s[2]}
      [] s[1] \in {"if", "case"}      -> {}
      [] s[1] \in {"else", "default"} -> Surely(s[2]) \cap Surely(s[3])
      [] s[1] = "both"              -> Surely(s[2]) \cup Surely(s[3])
Latches(s) == Sometimes(s) \ Surely(s)

\* Whether a statement of the kind is in the tree.
RECURSIVE Uses(_, _)
Uses(s, kind) == s[1] = kind \/ (s[1] # "set" /\ \E k \in 2 .. Len(s) : Uses(s[k], kind))

-----------------------------------------------------------------------------
(* State machines of two or three states.  What a state does: go to the     *)
(* first one, stay, go on to the next one, go on under a condition, nothing.*)

Deeds    == {"home", "stay", "on", "perhaps", "nothing"}
Defaults == {"none", "home", "stay", "nothing"}
MachineOf(handled, deeds, default, reset, named) ==
    [handled |-> handled, deeds |-> deeds, default |-> default, reset |-> reset, named |-> named]
MachineTexts ==
    {MachineOf(3, d, "home", r, n) : d \in [1 .. 3 -> Deeds], r \in BOOLEAN, n \in BOOLEAN}
    \cup {MachineOf(h, d \o <<"home">>, f, r, n) :
              h \in 2 .. 3, d \in [1 .. 2 -> Deeds], f \in Defaults, r \in BOOLEAN, n \in BOOLEAN}

StateName(w, k) == IF w.named THEN <<"IDLE", "RUN", "DONE">>[k] ELSE <<"0", "1", "2">>[k]
Reached(w, k, deed) ==
    CASE deed = "home" -> {1}
      [] deed = "on" -> {(k % 3) + 1}
      [] deed = "perhaps" -> {k, (k % 3) + 1}
      [] deed \in {"stay", "nothing"} -> {k}
DeedText(w, k, deed) ==
    LET go(j) == <<"next_state", "=", StateName(w, j), ";">> IN
    CASE deed = "home" -> go(1)
      [] deed = "stay" -> go(k)
      [] deed = "on" -> go((k % 3) + 1)
      [] deed = "perhaps" -> <<"if", "(", "a", ")">> \o go((k % 3) + 1)
      [] deed = "nothing" -> <<";">>
MachineText(w) ==
    Headers[1].text
    \o (IF w.named THEN <<"localparam", "IDLE", "=", "0", ",", "RUN", "=", "1", ",", "DONE", "=", "2", ";">>
        ELSE <<>>)
    \o <<"reg", "[", "1", ":", "0", "]", "state", ",", "next_state", ";">>
    \o Body(<<"always", "@", "(", "posedge", "clk", "or", "negedge", "rst", ")">>,
            IF w.reset THEN <<"if", "(", "!", "rst", ")", "state", "<=", StateName(w, 1), ";",
                              "else", "state", "<=", "next_state", ";">>
            ELSE <<"state", "<=", "next_state", ";">>)
    \o Body(Comb, <<"next_state", "=", "state", ";", "case", "(", "state", ")">>
                  \o FlattenSeq([k \in 1 .. w.handled |-> <<StateName(w, k), ":">> \o DeedText(w, k, w.deeds[k])])
                  \o (CASE w.default = "none" -> <<>>
                        [] w.default = "home" -> <<"default", ":">> \o DeedText(w, 1, "home")
                        [] w.default = "stay" -> <<"default", ":", "next_state", "=", "state", ";">>
                        [] w.default = "nothing" -> <<"default", ":", ";">>)
                  \o <<"endcase">>)
    \o End

\* The states that are never left.
Traps(w) == {k \in 1 .. w.handled : Reached(w, k, w.deeds[k]) = {k}}

-----------------------------------------------------------------------------
(* A register q of the clock clk and one to three blocks that read it: one  *)
(* of its own clock, or one of clk2 that takes it through two registers,    *)
(* through one, or directly.                                                *)

Readers   == {"own", "two", "one", "direct"}
Crossed   == UNION {[1 .. n -> Readers] : n \in 1 .. 3}

ReaderText(kind, k) ==
    LET at(clock) == <<"always", "@", "(", "posedge", clock, ")">> IN
    CASE kind = "own"    -> Body(at("clk"), <<<<"x1", "x2", "x3">>[k], "<=", "q", ";">>)
      [] kind = "direct" -> Body(at("clk2"), <<<<"x1", "x2", "x3">>[k], "<=", "q", ";">>)
      [] kind = "one"    -> Body(at("clk2"), <<<<"sync1", "sync2", "sync3">>[k], "<=", "q", ";">>)
      [] kind = "two"    -> Body(at("clk2"),
                                 <<<<"meta1", "meta2", "meta3">>[k], "<=", "q", ";",
                                   <<"sync1", "sync2", "sync3">>[k], "<=", <<"meta1", "meta2", "meta3">>[k], ";">>)
CrossingText(w) ==
    Headers[1].text \o <<"reg", "q", ";">> \o Body(Clocked, <<"q", "<=", "a", ";">>)
    \o FlattenSeq([k \in DOMAIN w |-> ReaderText(w[k], k)]) \o End

-----------------------------------------------------------------------------
(* Expressions without parentheses, assigned to a target of four bits.      *)

Operands  == {"a", "b", "2'b10"}
OperandWidth(t) == CASE t = "a" -> 4 [] t = "b" -> 1 [] t = "2'b10" -> 2
Binaries  == {"+", "&", "==", "<<"}
Unaries   == {<<>>, <<"&">>, <<"~">>}

ExpressionTexts ==
    {<<"binary", u, p, f, q, g, r>> : u \in Unaries, p \in Operands, f \in Binaries, q \in Operands,
                                      g \in Binaries, r \in {"a", "b"}}
    \cup {<<"ternary", u, p, q, r>> : u \in Unaries, p \in Operands, q \in Operands, r \in Operands}
    \cup {<<"concat", p, q>> : p \in Operands, q \in Operands}
    \cup {<<"product", p, q>> : p \in Operands, q \in Operands}
Expression(e) ==
    CASE e[1] = "binary"  -> e[2] \o Tail(Tail(e))
      [] e[1] = "ternary" -> e[2] \o <<e[3], "?", e[4], ":", e[5]>>
      [] e[1] = "concat"  -> <<"{", e[2], ",", e[3], "}">>
      [] e[1] = "product" -> <<e[2], "*", e[3]>>
ExpressionText(e) ==
    <<"module", "m", "(", "input", "[", "3", ":", "0", "]", "a", ",", "input", "b", ",",
      "output", "[", "3", ":", "0", "]", "y", ")", ";", "assign", "y", "=">> \o Expression(e) \o <<";">> \o End

\* The widths that Verilog gives them, by its precedence of operators.
Strength(op) == CASE op = "&" -> 1 [] op = "==" -> 2 [] op = "<<" -> 3 [] op = "+" -> 4
WidthOf(op, l, r) == CASE op \in {"+", "&", "*"} -> Max({l, r}) [] op = "==" -> 1 [] op = "<<" -> l
VerilogWidth(e) ==
    LET first == IF e[2] = <<"&">> THEN 1 ELSE OperandWidth(e[3]) IN
    CASE e[1] = "binary" ->
            LET q == OperandWidth(e[5]) r == OperandWidth(e[7]) IN
            IF Strength(e[4]) >= Strength(e[6]) THEN WidthOf(e[6], WidthOf(e[4], first, q), r)
            ELSE WidthOf(e[4], first, WidthOf(e[6], q, r))
      [] e[1] = "ternary" -> Max({OperandWidth(e[4]), OperandWidth(e[5])})
      [] e[1] = "concat"  -> OperandWidth(e[2]) + OperandWidth(e[3])
      [] e[1] = "product" -> WidthOf("*", OperandWidth(e[2]), OperandWidth(e[3]))

-----------------------------------------------------------------------------
(* All texts that are read together: the kind of each and its description.  *)

Written ==
    {<<"pair", w>> : w \in Pairs} \cup {<<"loss", w>> : w \in Losses}
    \cup {<<"ports", w>> : w \in Connections3} \cup {<<"tree", w>> : w \in Trees}
    \cup {<<"machine", w>> : w \in MachineTexts} \cup {<<"crossing", w>> : w \in Crossed}
    \cup {<<"width", w>> : w \in ExpressionTexts}
TextOf(kind, w) ==
    CASE kind = "pair"     -> PairText(w)
      [] kind = "override" -> OverrideText(w)
      [] kind = "loss"     -> LossText(w)
      [] kind = "ports"    -> ConnectionText(w)
      [] kind = "tree"     -> TreeText(w)
      [] kind = "machine"  -> MachineText(w)
      [] kind = "crossing" -> CrossingText(w)
      [] kind = "width"    -> ExpressionText(w)

=============================================================================
