-------------------------------- MODULE Tokens --------------------------------
(***************************************************************************)
(* The tokens of src/sta_lite/lint/lexer.py and the ways in which the      *)
(* parser and the rules cut sequences of them: brackets, lists, statement  *)
(* ends, expressions.  A token is its value; its kind follows from it.     *)
(***************************************************************************)
EXTENDS Integers, SequencesExt

CONSTANT Literal   \* the number tokens, each with its width (0: none) and value

Eof == "<eof>"

Directions == {"input", "output", "inout"}
DataTypes  == {"wire", "reg", "logic", "bit", "byte", "shortint", "int", "longint",
               "integer", "time", "genvar"}
DeclKeywords == Directions \cup DataTypes \cup {"signed", "unsigned"}
SystemVerilogOnly == {"program", "class", "union", "assert", "assume", "cover", "property",
                      "covergroup"}
UnsupportedKeywords == SystemVerilogOnly \cup
    {"for", "while", "repeat", "forever", "specify", "primitive"}

\* The constructs that end with a keyword of their own.
EndKeyword == [program |-> "endprogram", class |-> "endclass", specify |-> "endspecify",
               primitive |-> "endprimitive", property |-> "endproperty",
               covergroup |-> "endgroup"]

Always == {"always", "always_comb", "always_ff", "always_latch"}
Case   == {"case", "casez", "casex"}
Keywords ==
    DeclKeywords \cup UnsupportedKeywords \cup Always \cup Case
    \cup {EndKeyword[k] : k \in DOMAIN EndKeyword}
    \cup {"assign", "automatic", "begin", "default", "else", "end", "endcase", "endmodule",
          "endgenerate", "endinterface", "endpackage", "endtask", "endfunction", "enum",
          "function", "generate", "if", "import", "initial", "inside", "interface",
          "localparam", "modport", "module", "negedge", "or", "package", "packed",
          "parameter", "posedge", "priority", "real", "realtime", "shortreal", "string",
          "struct", "table", "task", "typedef", "unique", "void"}

AssignOps == {"=", "<=", "+=", "-=", "*=", "/=", "%=", "&=", "|=", "^="}
Operators == AssignOps \cup
    {"<<<", ">>>", "===", "!==", "<<", ">>", ">=", "==", "!=", "&&", "||", "->", "=>", "::",
     "++", "--", "+", "-", "*", "/", "%", "&", "|", "^", "~", "!", "<", ">", "?", ":"}

Open    == {"(", "[", "{"}
Close   == {")", "]", "}"}
Pair    == [c \in Close |-> CASE c = ")" -> "(" [] c = "]" -> "[" [] c = "}" -> "{"]
Punctuation == Open \cup Close \cup {";", ",", ".", "@", "#", "'"}

IsNumber(t)     == t \in DOMAIN Literal
IsIdentifier(t) == t \notin Keywords \cup Operators \cup Punctuation \cup DOMAIN Literal \cup {Eof}

Lesser(a, b) == IF a < b THEN a ELSE b

Identifiers(s) == {t \in ToSet(s) : IsIdentifier(t)}
Has(s, values) == \E k \in DOMAIN s : s[k] \in values
HowMany(s, values) == Cardinality({k \in DOMAIN s : s[k] \in values})

\* The first k in from .. to with P, else to + 1; the last one, else 0.
FirstIn(S, none) == IF S = {} THEN none ELSE CHOOSE k \in S : \A j \in S : k <= j
FirstWith(from, to, P(_)) == FirstIn({k \in from .. to : P(k)}, to + 1)
LastWith(s, P(_)) ==
    IF \E k \in DOMAIN s : P(s[k])
    THEN CHOOSE k \in DOMAIN s : P(s[k]) /\ \A j \in k + 1 .. Len(s) : ~P(s[j])
    ELSE 0

-----------------------------------------------------------------------------
(* Nesting. *)

\* How deep s is nested after each of its tokens; a closing token too many
\* counts for nothing.
Depths(s, opens, closes) ==
    LET step(n, t) == IF t \in opens THEN n + 1 ELSE IF t \in closes /\ n > 0 THEN n - 1 ELSE n
        d[k \in 0 .. Len(s)] == IF k = 0 THEN 0 ELSE step(d[k - 1], s[k])
    IN  [k \in DOMAIN s |-> d[k]]

Before(depths, k) == IF k = 1 THEN 0 ELSE depths[k - 1]

Unclosed(s, opens, closes) ==
    s # <<>> /\ Last(Depths(s, opens, closes)) > 0
StrayClose(s, opens, closes) ==
    LET d == Depths(s, opens, closes) IN \E k \in DOMAIN s : s[k] \in closes /\ Before(d, k) = 0

\* The group that s[k] opens: the tokens inside it and the place of its end,
\* which is Len(s) + 1 if it has none.
Group(s, k, open, close) ==
    LET rest == SubSeq(s, k, Len(s))
        d    == Depths(rest, {open}, {close})
        end  == FirstWith(1, Len(rest), LAMBDA j : d[j] = 0)
    IN  [inner |-> SubSeq(rest, 2, end - 1), end |-> k + end - 1]

\* The parts of s between the separators that are in no bracket.
SplitTop(s, separator) ==
    LET d    == Depths(s, Open, Close)
        ends == {k \in 1 .. Len(s) : d[k] = 0 /\ s[k] = separator} \cup {Len(s) + 1}
        end(i) == IF i = 0 THEN 0 ELSE CHOOSE k \in ends : Cardinality({j \in ends : j <= k}) = i
    IN  [i \in 1 .. Cardinality(ends) |-> SubSeq(s, end(i - 1) + 1, end(i) - 1)]

\* s without its brackets [ ].
WithoutRanges(s) ==
    LET d == Depths(s, {"["}, {"]"})
        kept == SelectSeq([k \in DOMAIN s |-> k], LAMBDA k : d[k] = 0 /\ s[k] # "]")
    IN  [k \in DOMAIN kept |-> s[kept[k]]]

\* The place of the assignment operator of s that is in no bracket, or 0.
AssignmentAt(s) ==
    LET d == Depths(s, Open, Close)
        k == FirstWith(1, Len(s), LAMBDA j : d[j] = 0 /\ s[j] \in AssignOps)
    IN  IF k > Len(s) THEN 0 ELSE k

\* The part of s that is before that operator; if it comes first, all of s.
BeforeAssignment(s) ==
    IF AssignmentAt(s) > 1 THEN SubSeq(s, 1, AssignmentAt(s) - 1) ELSE s

-----------------------------------------------------------------------------
(* What is reported about ranges and expressions. *)

BadClosers(s) ==
    LET d == Depths(s, Open, Close) IN
    \E k \in DOMAIN s :
        /\ s[k] \in Close
        /\ \/ Before(d, k) = 0
           \/ s[Max({j \in 1 .. k - 1 : s[j] \in Open /\ d[j] = d[k] + 1})] # Pair[s[k]]

BadBrackets(s) == BadClosers(s) \/ Unclosed(s, Open, Close)

\* A range or part select without its end, with a colon at an edge or two.
BadRanges(s) ==
    LET d == Depths(s, {"["}, {"]"}) IN
    \E k \in DOMAIN s :
        /\ s[k] = "[" /\ Before(d, k) = 0
        /\ LET g == Group(s, k, "[", "]") IN
           \/ g.end > Len(s)
           \/ HowMany(g.inner, {":"}) > 1
           \/ g.inner # <<>> /\ ":" \in {Head(g.inner), Last(g.inner)}

\* The checks that are made token by token ...
BadTokens(s) ==
    LET d == Depths(s, {"["}, {"]"})
        ternary == SelectSeq([k \in DOMAIN s |-> k], LAMBDA k : d[k] = 0 /\ s[k] \in {"?", ":"})
    IN  \/ BadClosers(s)
        \/ Has(s, {"@"})
        \/ \E k \in DOMAIN s : s[k] = "." /\ ~(/\ k > 1 /\ IsIdentifier(s[k - 1])
                                                /\ k < Len(s) /\ IsIdentifier(s[k + 1]))
        \/ StrayClose([k \in DOMAIN ternary |-> s[ternary[k]]], {"?"}, {":"})

\* ... and those made at the end.
BadEnd(s) ==
    \/ Unclosed(s, Open, Close)
    \/ HowMany(WithoutRanges(s), {"?"}) > HowMany(WithoutRanges(s), {":"})
    \/ BadRanges(s)

Syntax(bad) == IF bad THEN {"SYNTAX001"} ELSE {}

\* The rules an expression is reported under.  The checks end at an `inside`.
ExpressionRules(expr) ==
    LET s    == SelectSeq(expr, LAMBDA t : t # ",")
        stop == FirstWith(1, Len(s), LAMBDA k : s[k] = "inside")
        bad  == BadTokens(SubSeq(s, 1, stop - 1))
    IN  Syntax(s = <<>> \/ bad \/ Last(s) \in Operators \/ (stop > Len(s) /\ BadEnd(s)))
        \cup {r \in {"UNSUPPORTED_VERILOG"} : stop <= Len(s) /\ ~bad}

\* The condition of the control keyword at s[k].
BadCondition(s, k) ==
    \/ k = Len(s)
    \/ s[k + 1] # "("
    \/ LET g == Group(s, k + 1, "(", ")") IN g.end > Len(s) \/ g.inner = <<>>
BadConditions(s, controls) == \E k \in DOMAIN s : s[k] \in controls /\ BadCondition(s, k)

=============================================================================
