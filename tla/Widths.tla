-------------------------------- MODULE Widths --------------------------------
(***************************************************************************)
(* Widths and values of expressions, as src/sta_lite/lint/builtin_rules.py *)
(* estimates them from their tokens.  An estimate is a set: {n}, or {}     *)
(* where the code has None.                                                *)
(***************************************************************************)
EXTENDS Tokens, Bitwise

Distance(a, b) == IF a < b THEN b - a ELSE a - b
Known(sets)    == \A s \in ToSet(sets) : s # {}
The(s)         == CHOOSE n \in s : TRUE

\* _strip_outer_group
RECURSIVE Bare(_)
Bare(s) ==
    IF Len(s) >= 2 /\ s[1] = "(" /\ Group(s, 1, "(", ")").end = Len(s)
    THEN Bare(SubSeq(s, 2, Len(s) - 1)) ELSE s

\* The bounds of a signal, if both are plain numbers.
SignalBounds(x) ==
    LET plain(t) == IsNumber(t) /\ ~Literal[t].based IN
    IF Len(x.range) = 3 /\ plain(x.range[1]) /\ x.range[2] = ":" /\ plain(x.range[3])
    THEN {<<l, r>> : l \in Literal[x.range[1]].value, r \in Literal[x.range[3]].value}
    ELSE {}

\* A signal whose bounds are unknown counts as one bit.
SignalWidth(x) ==
    IF SignalBounds(x) = {} THEN {1} ELSE {Distance(b[1], b[2]) + 1 : b \in SignalBounds(x)}
WidthOfName(n, symbols) == IF n \in DOMAIN symbols THEN SignalWidth(symbols[n]) ELSE {}

\* _split_ternary: the places of the first ? and of the first : after it.
TernaryAt(s) ==
    LET d == Depths(s, Open, Close)
        at(v, from) == FirstWith(from, Len(s), LAMBDA k : s[k] = v /\ d[k] = 0)
    IN  {<<q, c>> \in {<<at("?", 1), at(":", at("?", 1))>>} : c <= Len(s)}

\* _split_binary_expression: the place of the last operator of the first
\* group that has one between the ends of s, in no bracket.
Precedence == <<{"||"}, {"&&"}, {"==", "!="}, {">", "<", ">=", "<="}, {"+", "-"},
                {"<<", ">>", "<<<", ">>>"}, {"&", "|", "^"}, {"*", "/", "%"}>>
RECURSIVE BinaryAt(_, _)
BinaryAt(s, groups) ==
    LET d  == Depths(Reverse(s), Close, Open)
        at == {k \in 2 .. Len(s) - 1 : s[k] \in Head(groups) /\ d[Len(s) + 1 - k] = 0}
    IN  IF groups = <<>> THEN {}
        ELSE IF at # {} THEN {Max(at)} ELSE BinaryAt(s, Tail(groups))

\* Mutant of BinaryWidth: a comparison is as wide as its operands.
BinaryWidthWide(op, l, r) ==
    IF op \in {"&&", "||"} THEN {1}
    ELSE IF op \in {"<<", ">>", "<<<", ">>>"} THEN {l}
    ELSE IF op = "*" THEN {l + r}
    ELSE {Max({l, r})}

BinaryWidth(op, l, r) ==
    IF op \in {"==", "!=", ">", "<", ">=", "<=", "&&", "||"} THEN {1}
    ELSE IF op \in {"<<", ">>", "<<<", ">>>"} THEN {l}
    ELSE IF op = "*" THEN {l + r}
    ELSE IF op \in {"+", "-", "&", "|", "^"} THEN {Max({l, r})}
    ELSE {}

\* A name, a number, a bit or a part select.
SimpleWidth(s, symbols) ==
    LET inner == SubSeq(s, 3, Len(s) - 1)
        colon == SelectInSeq(inner, LAMBDA t : t = ":")
        value(t) == IF Len(t) = 1 /\ IsNumber(t[1]) THEN Literal[t[1]].value ELSE {}
    IN  IF Len(s) = 1 THEN IF IsNumber(s[1]) THEN Literal[s[1]].width ELSE WidthOfName(s[1], symbols)
        ELSE IF ~(Len(s) >= 4 /\ IsIdentifier(s[1]) /\ s[2] = "[" /\ Group(s, 2, "[", "]").end = Len(s))
        THEN {}
        ELSE IF HowMany(inner, {":"}) = 1
        THEN {Distance(l, r) + 1 : l \in value(SubSeq(inner, 1, colon - 1)),
                                   r \in value(SubSeq(inner, colon + 1, Len(inner)))}
        ELSE {n \in {1} : Len(inner) = 1}

\* _expression_width.  The commas are gone before a concatenation is split.  An empty
\* group, on which the code raises, has no width here.
RECURSIVE ExpressionWidth(_, _)
ExpressionWidth(expr, symbols) ==
    LET s        == Bare(SelectSeq(expr, LAMBDA t : t # ","))
        width(a, b) == ExpressionWidth(SubSeq(s, a, b), symbols)
        concat   == IF s # <<>> /\ Head(s) = "{" /\ Last(s) = "}" THEN width(2, Len(s) - 1) ELSE {}
        ternary  == UNION {{Max({t, f}) : t \in width(a[1] + 1, a[2] - 1), f \in width(a[2] + 1, Len(s))} :
                               a \in TernaryAt(s)}
        binary   == BinaryAt(s, Precedence)
        operands == UNION {width(1, k - 1) \X width(k + 1, Len(s)) : k \in binary}
        result   == UNION {BinaryWidth(s[The(binary)], o[1], o[2]) : o \in operands}
    IN  IF s = <<>> THEN {}
        ELSE IF Head(s) \in {"&", "|", "^"} THEN {1}
        ELSE IF concat # {} THEN concat
        ELSE IF ternary # {} THEN ternary
        ELSE IF (binary # {} /\ operands = {}) \/ result # {} THEN result
        ELSE SimpleWidth(s, symbols)

-----------------------------------------------------------------------------
(* Constants. *)

\* _evaluate_const_text: Python's operators, from the weakest on.
Weakest == <<{"|"}, {"^"}, {"&"}, {"<<", ">>"}, {"+", "-"}, {"*", "/", "%"}>>

Apply(op, a, b) ==
    CASE op = "+" -> {a + b}
      [] op = "-" -> {a - b}
      [] op = "*" -> {a * b}
      [] op = "/" -> IF b = 0 THEN {} ELSE {IF b > 0 THEN a \div b ELSE (-a) \div (-b)}
      [] op = "%" -> IF b = 0 THEN {} ELSE {IF b > 0 THEN a % b ELSE -((-a) % (-b))}
      [] op = "<<" -> IF b < 0 THEN {} ELSE {a * 2 ^ b}
      [] op = ">>" -> IF b < 0 THEN {} ELSE {a \div 2 ^ b}
      [] op = "&" -> {a & b}
      [] op = "|" -> {a | b}
      [] op = "^" -> {a ^^ b}

RECURSIVE Evaluate(_, _)
Evaluate(expr, values) ==
    LET s  == Bare(expr)
        d  == Depths(s, {"("}, {")"})
        operand(k) == s[k] = ")" \/ IsNumber(s[k]) \/ IsIdentifier(s[k])
        at(ops) == {k \in 2 .. Len(s) - 1 : s[k] \in ops /\ d[k] = 0 /\ operand(k - 1)}
        weak == FirstWith(1, Len(Weakest), LAMBDA g : at(Weakest[g]) # {})
        k  == Max(at(Weakest[weak]))
    IN  IF s = <<>> THEN {}
        ELSE IF Len(s) = 1
        THEN IF IsNumber(s[1]) THEN Literal[s[1]].value
             ELSE IF s[1] \in DOMAIN values THEN {values[s[1]]} ELSE {}
        ELSE IF weak <= Len(Weakest)
        THEN UNION {Apply(s[k], a, b) : a \in Evaluate(SubSeq(s, 1, k - 1), values),
                                        b \in Evaluate(SubSeq(s, k + 1, Len(s)), values)}
        ELSE IF Head(s) \in {"+", "-", "~"}
        THEN {CASE Head(s) = "+" -> v [] Head(s) = "-" -> -v [] Head(s) = "~" -> -v - 1 :
                  v \in Evaluate(Tail(s), values)}
        ELSE {}

\* _parameter_values: passes over the parameters that have no value yet, until
\* one changes nothing.
RECURSIVE Resolve(_, _)
Resolve(parameters, values) ==
    LET new == {n \in DOMAIN parameters \ DOMAIN values : Evaluate(parameters[n].value, values) # {}} IN
    IF new = {} THEN values
    ELSE Resolve(parameters,
                 values @@ [n \in new |-> The(Evaluate(parameters[n].value, values))])
ParameterValues(parameters) == Resolve(parameters, <<>>)

\* _evaluate_range_text
EvaluateRange(range, values) ==
    LET c == SelectInSeq(range, LAMBDA t : t = ":") IN
    IF c = 0 THEN {}
    ELSE Evaluate(SubSeq(range, 1, c - 1), values) \X Evaluate(SubSeq(range, c + 1, Len(range)), values)

=============================================================================
