-------------------------------- MODULE Parser --------------------------------
(***************************************************************************)
(* The parser of src/sta_lite/lint/parser.py, which the lint and the risk  *)
(* workflow run over the tokens of all RTL files.  It is a recursive       *)
(* descent with one token of state, index; a step here is one turn of the  *)
(* loop in parse, _parse_module, _parse_package or _parse_interface, that  *)
(* is, one item.  A report is its rule and the place where its item began. *)
(***************************************************************************)
EXTENDS Tokens

CONSTANT Suffix   \* the suffix of the RTL file: ".v", ".sv" or another one

VARIABLES
    origin,       \* the RTL that is read
    tokens,       \* its tokens, with <eof> at the end
    index,
    scope,        \* the loop that is running: top, module, package, interface, or returned
    module,       \* the module being read
    design,       \* the modules read
    interfaces,   \* interface_names
    typedefs,     \* typedef_names
    errors        \* the diagnostics

source  == <<origin, tokens>>
reading == <<index, scope, module, design, interfaces, typedefs, errors>>
parsing == <<source, reading>>

-----------------------------------------------------------------------------
(* Looking ahead and collecting.  What is collected comes with the place *)
(* where the parser goes on and with whether an error was reported.      *)

Token(k) == tokens[Lesser(k, Len(tokens))]

\* The first place from k on with one of the values, or the end.
Find(k, values) == FirstWith(k, Len(tokens) - 1, LAMBDA j : tokens[j] \in values)
Rest(k)         == SubSeq(tokens, k, Len(tokens) - 1)
Collected(k, end, next, bad) == [tokens |-> SubSeq(tokens, k, end), next |-> next, bad |-> bad]
Nothing(k, bad) == [tokens |-> <<>>, next |-> k, bad |-> bad]

\* A match of value, or an error and a search for a place to go on.
Expect(k, value, stops) ==
    LET j == Find(k, stops) IN
    IF Token(k) = value THEN Nothing(k + 1, FALSE)
    ELSE Nothing(IF Token(j) = value THEN j + 1 ELSE j, TRUE)

\* Mutant of CollectUntilSemicolon: a statement runs over the end of its module.
CollectUntilSemicolonOn(k) ==
    LET s   == Rest(k)
        d   == Depths(s, Open, Close)
        end == FirstWith(1, Len(s), LAMBDA j : d[j] = 0 /\ s[j] \in {";", "end"})
        semicolon == end <= Len(s) /\ s[end] = ";"
    IN  Collected(k, k + end - 2, IF semicolon THEN k + end ELSE k + end - 1, ~semicolon)

CollectUntilSemicolon(k) ==
    LET s   == Rest(k)
        d   == Depths(s, Open, Close)
        end == FirstWith(1, Len(s), LAMBDA j : d[j] = 0 /\ s[j] \in {";", "end", "endmodule"})
        semicolon == end <= Len(s) /\ s[end] = ";"
    IN  Collected(k, k + end - 2, IF semicolon THEN k + end ELSE k + end - 1, ~semicolon)

\* The group that begins at k, without its brackets.
CollectBalanced(k, open, close) ==
    LET g == Group(Rest(k), 1, open, close)
        end == k + g.end - 1
    IN  IF end < Len(tokens) THEN Collected(k + 1, end - 1, end + 1, FALSE)
        ELSE Collected(k + 1, end - 1, end, TRUE)

Parenthesised(k) == IF Token(k) = "(" THEN CollectBalanced(k, "(", ")") ELSE Nothing(k, FALSE)

\* The body of a construct that began before k, up to its end keyword.
CollectUntilEnd(k, start, end) ==
    LET s == <<start>> \o Rest(k)
        d == Depths(s, {start}, {end})
        j == FirstWith(2, Len(s), LAMBDA i : d[i] = 0 \/ s[i] = "endmodule")
        closed == j <= Len(s) /\ d[j] = 0
    IN  Collected(k, k + j - 3, IF closed THEN k + j - 1 ELSE k + j - 2, ~closed)

\* Where an unsupported construct that begins at k ends.
SkipUnsupported(k) ==
    IF Token(k) \in DOMAIN EndKeyword
    THEN LET s == Rest(k)
             d == Depths(s, {Token(k)}, {EndKeyword[Token(k)]})
         IN  Lesser(Len(tokens), k + FirstWith(1, Len(s), LAMBDA j : d[j] = 0))
    ELSE Expect(k + 1, ";", {";", "endmodule"}).next

-----------------------------------------------------------------------------
(* Statements. *)

CollectBeginEnd(k) ==
    LET s == Rest(k)
        d == Depths(s, {"begin"}, {"end"})
        j == FirstWith(1, Len(s), LAMBDA i : d[i] = 0)
    IN  Collected(k, Lesser(k + j, Len(tokens)) - 1, Lesser(k + j, Len(tokens)), j > Len(s))

\* Mutant of CollectCompound: an `else after a semicolon is not looked for.
CollectCompoundShort(k) ==
    LET s == Rest(k)
        begins == Depths(s, {"begin"}, {"end"})
        cases  == Depths(s, Case, {"endcase"})
        j == FirstWith(1, Len(s), LAMBDA i :
                 begins[i] = 0 /\ cases[i] = 0 /\ s[i] \in {"end", "endcase", ";"})
    IN  Collected(k, Lesser(k + j, Len(tokens)) - 1, Lesser(k + j, Len(tokens)), j > Len(s))

\* An if or a case without a block around it: up to the first end, endcase or
\* semicolon outside of blocks and cases, a semicolon before an else excepted.
CollectCompound(k) ==
    LET s == Rest(k)
        begins == Depths(s, {"begin"}, {"end"})
        cases  == Depths(s, Case, {"endcase"})
        j == FirstWith(1, Len(s), LAMBDA i :
                 /\ begins[i] = 0 /\ cases[i] = 0
                 /\ s[i] \in {"end", "endcase"} \/ (s[i] = ";" /\ Token(k + i) # "else"))
    IN  Collected(k, Lesser(k + j, Len(tokens)) - 1, Lesser(k + j, Len(tokens)), j > Len(s))

CollectStatement(k) ==
    IF Token(k) = "begin" THEN CollectBeginEnd(k)
    ELSE IF Token(k) \in Case \cup {"if"} THEN CollectCompound(k)
    ELSE CollectUntilSemicolon(k)

LastIdentifier(s) == LastWith(s, IsIdentifier)
Assign(target, op, expr, context) ==
    [target |-> target, op |-> op, expr |-> expr, context |-> context]

\* The operator at s[k] compares: the operand before it follows the
\* parenthesis of an if or a case.
IsCondition(s, k) ==
    LET c == LastWith(SubSeq(s, 1, k - 1), LAMBDA t : IsIdentifier(t) \/ IsNumber(t)) IN
    /\ k > 2 /\ c > 1
    /\ s[c - 1] = "("
    /\ \E j \in Max({1, c - 4}) .. c - 1 : s[j] \in {"if", "case"}

\* The places of the assignments in s, the expression of the one at k, and
\* whether that ends with a semicolon.
AssignmentsAt(s) ==
    SelectSeq([k \in DOMAIN s |-> k], LAMBDA k :
        /\ s[k] \in AssignOps
        /\ ~(s[k] = "=" /\ k > 1 /\ s[k - 1] = "<")
        /\ ~(s[k] \in {"=", "<="} /\ IsCondition(s, k))
        /\ LastIdentifier(SubSeq(s, 1, k - 1)) > 0)
ExpressionEnd(s, k) ==
    LET rest == SubSeq(s, k + 1, Len(s))
        d    == Depths(rest, Open, Close)
    IN  k + FirstWith(1, Len(rest), LAMBDA j :
            d[j] = 0 /\ rest[j] \in {";", "end", "else", "endcase", "endmodule"})
ExpressionAt(s, k) == SubSeq(s, k + 1, ExpressionEnd(s, k) - 1)

\* _scan_procedural_assignments
Procedural(s, context) ==
    LET at == AssignmentsAt(s) IN
    [i \in DOMAIN at |->
        Assign(s[LastIdentifier(SubSeq(s, 1, at[i] - 1))], s[at[i]], ExpressionAt(s, at[i]), context)]
ProceduralRules(s) ==
    LET at == ToSet(AssignmentsAt(s))
        end(k) == ExpressionEnd(s, k)
    IN  Syntax(\/ \E k \in 2 .. Len(s) : s[k] = "=" /\ s[k - 1] = "<"
               \/ \E k \in at : end(k) > Len(s) \/ s[end(k)] # ";")
        \cup UNION {ExpressionRules(ExpressionAt(s, k)) : k \in at}

\* _validate_procedural_controls
BadControls(s) == BadConditions(s, Case \cup {"if"}) \/ Unclosed(s, Case, {"endcase"})

\* _validate_event_control
BadEvent(kind, s) ==
    LET edges == {k \in DOMAIN s : s[k] \in {"posedge", "negedge"}}
        named == {k \in edges : k < Len(s) /\ IsIdentifier(s[k + 1])}
    IN  named # edges \/ (kind = "always_ff" /\ named = {})

\* _parse_assignment_tokens: the assignment, if any, and what is reported.
Assignment(s, context) ==
    LET op     == AssignmentAt(s)
        target == IF op = 0 THEN 0 ELSE LastIdentifier(SubSeq(s, 1, op - 1))
        expr   == SubSeq(s, op + 1, Len(s))
    IN  IF target = 0 THEN [assigns |-> <<>>, rules |-> Syntax(s # <<>>)]
        ELSE [assigns |-> <<Assign(s[target], s[op], expr, context)>>, rules |-> ExpressionRules(expr)]

-----------------------------------------------------------------------------
(* Declarations. *)

\* The declared name: the last one before the assignment and in no range.
NameAt(s) ==
    LET d == Depths(s, {"["}, {"]"})
        t == BeforeAssignment(s)
    IN  Max({0} \cup {k \in DOMAIN t : d[k] = 0 /\ IsIdentifier(t[k])})

\* _signal_from_decl_segment; the name is "" if there is none.
Signal(s) ==
    LET name  == NameAt(s)
        range == FirstWith(1, Len(s), LAMBDA k : s[k] = "[")
        the(kinds) == LET k == LastWith(s, LAMBDA t : t \in kinds) IN IF k = 0 THEN "" ELSE s[k]
    IN  [name |-> IF name = 0 THEN "" ELSE s[name],
         direction |-> the(Directions), type |-> the(DataTypes),
         range |-> IF range > Len(s) THEN <<>> ELSE Group(s, range, "[", "]").inner,
         signed |-> Has(s, {"signed"}),
         value |-> IF AssignmentAt(s) = 0 THEN <<>> ELSE SubSeq(s, AssignmentAt(s) + 1, Len(s))]
BadSignal(s) == BadRanges(s) \/ HowMany(s, Directions) > 1 \/ HowMany(s, DataTypes) > 1

\* _prefix_before_decl_name
Prefix(s) == SubSeq(s, 1, NameAt(s) - 1)

\* The segments of a list, each with the keywords it shares with one before it.
Segments(s) ==
    LET parts == SplitTop(s, ",")
        own(k) == Has(parts[k], DeclKeywords)
        from(k) == Max({0} \cup {j \in 1 .. k : own(j)})
    IN  [k \in DOMAIN parts |->
            IF own(k) \/ from(k) = 0 \/ parts[k] = <<>> THEN parts[k]
            ELSE Prefix(parts[from(k)]) \o parts[k]]

Put(f, x) == [n \in DOMAIN f \cup {x.name} |-> IF n = x.name THEN x ELSE f[n]]

\* order has the names of the ports in the order in which they came.
PutPort(m, x) ==
    [m EXCEPT !.ports = Put(@, x),
              !.order = IF x.name \in DOMAIN m.ports THEN @ ELSE Append(@, x.name)]

\* One more port x of the header of r.module, from the segment s; a second of
\* its name is an error.
AddPort(r, s, x) ==
    [rules |-> r.rules \cup Syntax(BadSignal(s) \/ x.name \in DOMAIN r.module.ports),
     module |->
        IF x.name \in {""} \cup DOMAIN r.module.ports THEN r.module
        ELSE [PutPort(r.module, x) EXCEPT
                              !.declarations = IF x.direction = "" THEN @ ELSE @ @@ (x.name :> x)]]

\* One more declared signal, its port and its initial value.
AddDeclaration(r, s, x) ==
    LET init == IF AssignmentAt(s) = 0 THEN <<>> ELSE <<Assign(x.name, "=", x.value, "declaration")>>
    IN  IF x.name \in {""} \cup DOMAIN r.module.declarations
        THEN [rules |-> r.rules \cup Syntax(TRUE), module |-> r.module]
        ELSE [rules |-> r.rules \cup Syntax(BadSignal(s))
                        \cup UNION {ExpressionRules(a.expr) : a \in ToSet(init)},
              module |-> [(IF x.direction = "" THEN r.module ELSE PutPort(r.module, x)) EXCEPT
                              !.declarations = Put(@, x), !.assigns = @ \o init]]

AddParameter(r, s, x) ==
    [rules |-> r.rules \cup Syntax(BadSignal(s)),
     module |-> IF x.name = "" THEN r.module ELSE [r.module EXCEPT !.parameters = Put(@, x)]]

\* A segment with nothing in it adds nothing.
Add(r, s, kind) ==
    LET x == Signal(s) IN
    IF s = <<>> THEN r
    ELSE CASE kind = "port"        -> AddPort(r, s, x)
           [] kind = "declaration" -> AddDeclaration(r, s, x)
           [] kind = "parameter"   -> AddParameter(r, s, x)
AddAll(r, segments, kind) ==
    LET added[k \in 0 .. Len(segments)] ==
            IF k = 0 THEN r ELSE Add(added[k - 1], segments[k], kind)
    IN  added[Len(segments)]
AddTo(m, segments, kind) == AddAll([module |-> m, rules |-> {}], segments, kind)

-----------------------------------------------------------------------------
(* Instances and generate blocks. *)

Instance(type, name, connections) == [type |-> type, name |-> name, connections |-> connections]

\* Named and positional connections in one instance.
BadConnections(s) ==
    LET parts == SelectSeq(SplitTop(s, ","), LAMBDA p : p # <<>>)
        named == {k \in DOMAIN parts : Head(parts[k]) = "."}
    IN  named # {} /\ named # DOMAIN parts

\* _parse_instance_from_tokens: the instance at s[k], if there is one.
InstanceIn(s, k) ==
    LET at(j)  == IF j <= Len(s) THEN s[j] ELSE ";"
        values == Group(s, k + 2, "(", ")")
        name   == IF at(k + 1) # "#" THEN k + 1 ELSE IF at(k + 2) # "(" THEN k + 2 ELSE values.end + 1
        ports  == Group(s, name + 1, "(", ")")
    IN  IF IsIdentifier(at(name)) /\ at(name + 1) = "(" /\ ports.end <= Len(s)
        THEN [instances |-> <<Instance(s[k], s[name], ports.inner)>>,
              next |-> IF at(ports.end + 1) = ";" THEN ports.end + 2 ELSE ports.end + 1,
              rules |-> Syntax(BadConnections(ports.inner))]
        ELSE [instances |-> <<>>, next |-> k + 1, rules |-> {}]

\* The assignments and instances of a generate body, whatever is around them.
GenerateItems(s) ==
    LET rest(k)  == SubSeq(s, k + 1, Len(s))
        length(k) == LET d == Depths(rest(k), Open, Close) IN
                     FirstWith(1, Len(rest(k)), LAMBDA j : d[j] = 0 /\ rest(k)[j] = ";")
        from[k \in 1 .. Len(s) + 2] ==
            IF k > Len(s) THEN [assigns |-> <<>>, instances |-> <<>>, rules |-> {}]
            ELSE LET a == Assignment(SubSeq(rest(k), 1, length(k) - 1), "generate")
                     i == InstanceIn(s, k)
                 IN  CASE s[k] = "assign" ->
                            [from[Lesser(k + length(k), Len(s)) + 1] EXCEPT
                                !.assigns = a.assigns \o @, !.rules = @ \cup a.rules]
                       [] IsIdentifier(s[k]) ->
                            [from[i.next] EXCEPT
                                !.instances = i.instances \o @, !.rules = @ \cup i.rules]
                       [] OTHER -> from[k + 1]
    IN  from[1]

\* _validate_generate_tokens
BadGenerate(s) ==
    \/ BadBrackets(s)
    \/ Unclosed(s, {"begin"}, {"end"}) \/ StrayClose(s, {"begin"}, {"end"})
    \/ Unclosed(s, Case, {"endcase"}) \/ StrayClose(s, Case, {"endcase"})
    \/ BadConditions(s, Case \cup {"if", "for"})

\* _classify_generate_block
GenerateKind(s) ==
    IF Has(s, {"for"}) THEN "for" ELSE IF Has(s, Case) THEN "case"
    ELSE IF Has(s, {"if"}) THEN "if" ELSE "block"

-----------------------------------------------------------------------------
(* The loops. *)

Idle == [name |-> ""]   \* no module is being read

Begin ==
    /\ index = 1
    /\ scope = "top"
    /\ module = Idle
    /\ design = <<>>
    /\ interfaces = {}
    /\ typedefs = {}
    /\ errors = {}

AtEof == Token(index) = Eof
Reports(rules) == errors' = errors \cup (rules \X {index})
UnsupportedRule(t) ==
    IF t \in SystemVerilogOnly \/ Suffix = ".sv" THEN "UNSUPPORTED_SYSTEMVERILOG" ELSE "UNSUPPORTED_VERILOG"

\* An item that leaves the names of interfaces and types as they are.
ReadsItem(at, first) == ~AtEof /\ scope = at /\ Token(index) \in first /\ UNCHANGED <<source, scope>>
Becomes(next, m, rules) ==
    /\ index' = next
    /\ module' = m
    /\ Reports(rules)
    /\ UNCHANGED <<design, interfaces, typedefs>>
Skips(next, rules) == Becomes(next, module, rules)

\* parse: a module begins with its header.
NewModule(name, from) ==
    [name |-> name, from |-> from, body |-> <<>>,
     ports |-> <<>>, order |-> <<>>, declarations |-> <<>>, parameters |-> <<>>,
     assigns |-> <<>>, always |-> <<>>, instances |-> <<>>,
     generates |-> <<>>, functions |-> <<>>, tasks |-> <<>>]
OpenModule ==
    /\ scope = "top" /\ Token(index) = "module" /\ IsIdentifier(Token(index + 1))
    /\ scope' = "module"
    /\ UNCHANGED source
    /\ \E values \in {IF Token(index + 2) = "#" THEN Parenthesised(index + 3) ELSE Nothing(index + 2, FALSE)} :
       \E ports  \in {Parenthesised(values.next)} :
       \E end    \in {Expect(ports.next, ";", {";", "endmodule"})} :
       \E first  \in {AddTo(NewModule(Token(index + 1), end.next), SplitTop(values.tokens, ","), "parameter")} :
       \E second \in {AddAll(first, Segments(ports.tokens), "port")} :
          Becomes(end.next, second.module,
                  second.rules \cup Syntax(\/ Token(index + 2) = "#" /\ Token(index + 3) # "("
                                           \/ values.bad \/ ports.bad \/ end.bad))

\* A module without a name is skipped.
SkipModule ==
    /\ ReadsItem("top", {"module"})
    /\ ~IsIdentifier(Token(index + 1))
    /\ Skips(Expect(index + 1, "endmodule", {"endmodule"}).next, Syntax(TRUE))

\* _parse_module, at its end
CloseModule ==
    /\ scope = "module" /\ Token(index) \in {"endmodule", Eof}
    /\ design' = Append(design, [module EXCEPT !.body = SubSeq(tokens, module.from, index - 1)])
    /\ module' = Idle
    /\ scope' = "top"
    /\ index' = IF AtEof THEN index ELSE index + 1
    /\ Reports(Syntax(AtEof))
    /\ UNCHANGED <<source, interfaces, typedefs>>

-----------------------------------------------------------------------------
(* _parse_module_item *)

\* A declaration that runs into the next statement.
RunsOn(s) == s # <<>> /\ Has(Tail(s), Always \cup {"assign", "module", "endmodule"})

Declare ==
    /\ ReadsItem("module", Directions \cup DataTypes)
    /\ \E c \in {CollectUntilSemicolon(index)} :
       \E r \in {AddTo(module, Segments(c.tokens), "declaration")} :
          Becomes(c.next, r.module, r.rules \cup Syntax(c.bad \/ RunsOn(c.tokens)))

Parameters ==
    /\ ReadsItem("module", {"parameter", "localparam"})
    /\ \E c \in {CollectUntilSemicolon(index)} :
       \E parts \in {SplitTop(c.tokens, ",")} :
       \E r \in {AddTo(module, parts, "parameter")} :
          Becomes(c.next, r.module, r.rules \cup Syntax(c.bad) \cup
                  UNION {ExpressionRules(SubSeq(p, AssignmentAt(p) + 1, Len(p))) :
                             p \in {q \in ToSet(parts) : AssignmentAt(q) # 0}})

Generate ==
    /\ ReadsItem("module", {"generate"})
    /\ \E c \in {CollectUntilEnd(index + 1, "generate", "endgenerate")} :
       \E r \in {GenerateItems(c.tokens)} :
          Becomes(c.next,
                  [module EXCEPT !.generates = Append(@, [kind |-> GenerateKind(c.tokens), body |-> c.tokens,
                                                          assigns |-> r.assigns, instances |-> r.instances]),
                                 !.assigns = @ \o r.assigns,
                                 !.instances = @ \o r.instances],
                  r.rules \cup Syntax(c.bad \/ BadGenerate(c.tokens)))

\* _parse_function and _parse_task
Subroutine(kind, header, c, known) ==
    LET named  == SelectSeq(header.tokens, IsIdentifier)
        name   == IF kind = "function" THEN Last(named) ELSE Head(named)
        nested == Has(c.tokens, {"function", "task", "generate", "specify", "primitive"})
        bare   == \E k \in 1 .. Len(c.tokens) - 1 :
                      c.tokens[k] \in Directions /\ c.tokens[k + 1] = ";"
        new    == named # <<>> /\ name \notin DOMAIN known
        bad    == \/ header.bad \/ c.bad \/ bare \/ ~new
    IN  [next |-> c.next,
         rules |-> Syntax(bad) \cup {r \in {"UNSUPPORTED_VERILOG"} : nested}
                  \cup IF named = <<>> THEN {} ELSE ProceduralRules(c.tokens),
         known |-> IF new
                   THEN known @@ (name :> [body |-> c.tokens, assigns |-> Procedural(c.tokens, kind)])
                   ELSE known]

Function ==
    /\ ReadsItem("module", {"function"})
    /\ \E header \in {CollectUntilSemicolon(index + 1)} :
       \E c \in {CollectUntilEnd(header.next, "function", "endfunction")} :
       \E r \in {Subroutine("function", header, c, module.functions)} :
          Becomes(r.next, [module EXCEPT !.functions = r.known], r.rules)
Task ==
    /\ ReadsItem("module", {"task"})
    /\ \E header \in {CollectUntilSemicolon(index + 1)} :
       \E c \in {CollectUntilEnd(header.next, "task", "endtask")} :
       \E r \in {Subroutine("task", header, c, module.tasks)} :
          Becomes(r.next, [module EXCEPT !.tasks = r.known], r.rules)

ContinuousAssign ==
    /\ ReadsItem("module", {"assign"})
    /\ \E c \in {CollectUntilSemicolon(index + 1)} :
       \E a \in {Assignment(c.tokens, "continuous")} :
          Becomes(c.next, [module EXCEPT !.assigns = @ \o a.assigns], a.rules \cup Syntax(c.bad))

\* _parse_always
Event(k) ==
    IF Token(k) # "@" THEN Nothing(k, FALSE)
    ELSE IF Token(k + 1) = "(" THEN CollectBalanced(k + 1, "(", ")")
    ELSE IF Token(k + 1) = Eof THEN Nothing(k + 1, FALSE)
    ELSE Collected(k + 1, k + 1, k + 2, FALSE)
Block(kind, sensitivity, body) ==
    [kind |-> kind, sensitivity |-> sensitivity, body |-> body, assigns |-> Procedural(body, "always")]
AlwaysBlock ==
    /\ ReadsItem("module", Always)
    /\ \E event \in {Event(index + 1)} :
       \E body  \in {CollectStatement(event.next)} :
          Becomes(body.next,
                  [module EXCEPT !.always = Append(@, Block(Token(index), event.tokens, body.tokens))],
                  Syntax(\/ event.bad \/ BadEvent(Token(index), event.tokens)
                         \/ body.bad \/ BadControls(body.tokens))
                  \cup ProceduralRules(body.tokens)
                  \cup {UnsupportedRule(t) : t \in ToSet(body.tokens) \cap UnsupportedKeywords})

Initial ==
    LET body == CollectStatement(index + 1) IN
    /\ ReadsItem("module", {"initial"})
    /\ Skips(body.next, Syntax(body.bad) \cup {"UNSUPPORTED_VERILOG"})

\* What an identifier at the beginning of an item begins.
IsInterfaceInstance ==
    /\ Token(index) \in interfaces
    /\ IF Token(index + 1) = "." THEN IsIdentifier(Token(index + 2)) /\ IsIdentifier(Token(index + 3))
       ELSE IsIdentifier(Token(index + 1))
IsUserType ==
    /\ IsIdentifier(Token(index)) /\ IsIdentifier(Token(index + 1))
    /\ Token(index) \notin interfaces
    /\ Token(index) \in typedefs \/ Token(index + 2) \in {";", "[", "="}
IsInstance ==
    /\ IsIdentifier(Token(index))
    /\ IF Token(index + 1) = "#" THEN IsIdentifier(Token(index + 3))
       ELSE IsIdentifier(Token(index + 1)) /\ Token(index + 2) = "("

InterfaceInstance ==
    LET ports == Parenthesised(index + (IF Token(index + 1) = "." THEN 4 ELSE 2))
        end   == Expect(ports.next, ";", {";", "endmodule"})
    IN  /\ ReadsItem("module", {Token(index)}) /\ IsInterfaceInstance
        /\ Skips(end.next, Syntax(ports.bad \/ end.bad))

UserType ==
    /\ ReadsItem("module", {Token(index)}) /\ ~IsInterfaceInstance /\ IsUserType
    /\ \E c \in {CollectUntilSemicolon(index + 2)} :
       \E x \in {[name |-> Token(index + 1), direction |-> "", type |-> Token(index),
                  range |-> Signal(c.tokens).range, signed |-> FALSE, value |-> <<>>]} :
          Becomes(c.next, [module EXCEPT !.declarations = @ @@ (x.name :> x)],
                  Syntax(c.bad \/ BadRanges(c.tokens) \/ x.name \in DOMAIN module.declarations))

\* _parse_instance
ModuleInstance ==
    /\ ReadsItem("module", {Token(index)}) /\ ~IsInterfaceInstance /\ ~IsUserType /\ IsInstance
    /\ \E values \in {IF Token(index + 1) = "#" THEN Parenthesised(index + 2) ELSE Nothing(index + 1, FALSE)} :
       \E ports  \in {Parenthesised(values.next + 1)} :
       \E end    \in {Expect(ports.next, ";", {";", "endmodule"})} :
          IF IsIdentifier(Token(values.next))
          THEN Becomes(end.next, [module EXCEPT !.instances =
                           Append(@, Instance(Token(index), Token(values.next), ports.tokens))],
                       Syntax(\/ values.bad \/ ports.bad \/ end.bad
                              \/ Token(values.next + 1) # "(" \/ BadConnections(ports.tokens)))
          ELSE Skips(Expect(values.next, ";", {";"}).next, Syntax(TRUE))

\* Mutant of OtherItem: the token in error is not consumed.
OtherItemStuck ==
    /\ ReadsItem("module", {Token(index)} \ (Directions \cup DataTypes \cup Always \cup UnsupportedKeywords
           \cup {"endmodule", "typedef", "import", "parameter", "localparam", "generate", "function",
                 "task", "assign", "initial"}))
    /\ ~IsInterfaceInstance /\ ~IsUserType /\ ~IsInstance
    /\ Skips(IF Token(index) \in {";", ","} THEN index + 1 ELSE index, Syntax(Token(index) \notin {";", ","}))

\* Anything else: a separator, or an error at each token.
OtherItem ==
    /\ ReadsItem("module", {Token(index)} \ (Directions \cup DataTypes \cup Always \cup UnsupportedKeywords
           \cup {"endmodule", "typedef", "import", "parameter", "localparam", "generate", "function",
                 "task", "assign", "initial"}))
    /\ ~IsInterfaceInstance /\ ~IsUserType /\ ~IsInstance
    /\ Skips(index + 1, Syntax(Token(index) \notin {";", ","}))

-----------------------------------------------------------------------------
(* The top level, packages and interfaces. *)

SkipConstruct ==
    /\ ReadsItem(scope, UnsupportedKeywords)
    /\ Skips(SkipUnsupported(index), {UnsupportedRule(Token(index))})

Typedef ==
    LET c == CollectUntilSemicolon(index + 1)
        bad == \/ c.bad \/ BadBrackets(c.tokens) \/ RunsOn(<<"typedef">> \o c.tokens)
               \/ LastIdentifier(c.tokens) = 0
    IN  /\ ~AtEof /\ scope # "top" /\ Token(index) = "typedef"
        /\ typedefs' = typedefs \cup
               {c.tokens[k] : k \in {LastIdentifier(c.tokens)} \ {0}}
        /\ index' = c.next
        /\ Reports(Syntax(bad))
        /\ UNCHANGED <<source, scope, module, design, interfaces>>

Import ==
    LET named  == IsIdentifier(Token(index + 1))
        at     == IF Token(index + 2) = "::" THEN index + 3 ELSE index + 2
        symbol == Token(at) = "*" \/ IsIdentifier(Token(at))
        end    == Expect(IF symbol THEN at + 1 ELSE at, ";", {";", "module", "endmodule"})
    IN  /\ ReadsItem(scope, {"import"}) /\ scope # "interface"
        /\ IF named THEN Skips(end.next, Syntax(Token(index + 2) # "::" \/ ~symbol \/ end.bad))
           ELSE Skips(Expect(index + 1, ";", {";"}).next, Syntax(TRUE))

OtherAtTop ==
    /\ ReadsItem("top", {Token(index)} \ (UnsupportedKeywords \cup {"module", "package", "interface", "import"}))
    /\ Skips(index + 1, Syntax(TRUE))

EndOf == [package |-> "endpackage", interface |-> "endinterface"]

\* _parse_package and _parse_interface: their headers and ends.
OpenScope(kind) ==
    LET named == IsIdentifier(Token(index + 1))
        k     == IF named THEN index + 2 ELSE index + 1
        ports == IF kind = "interface" THEN Parenthesised(k) ELSE Nothing(k, FALSE)
        end   == Expect(ports.next, ";", {";", EndOf[kind]})
    IN  /\ scope = "top" /\ Token(index) = kind
        /\ scope' = kind
        /\ index' = end.next
        /\ interfaces' = interfaces \cup {n \in {Token(index + 1)} : named /\ kind = "interface"}
        /\ Reports(Syntax(~named \/ ports.bad \/ end.bad))
        /\ UNCHANGED <<source, module, design, typedefs>>

CloseScope(kind) ==
    LET label == IF IsIdentifier(Token(index + 2)) THEN index + 3 ELSE index + 2 IN
    /\ scope = kind /\ Token(index) \in {EndOf[kind], Eof}
    /\ scope' = "top"
    /\ UNCHANGED source
    /\ Skips(IF AtEof THEN index ELSE IF Token(index + 1) = ":" THEN label ELSE index + 1, Syntax(AtEof))

\* Declarations are skipped, in a package parameters, too.
SkipDeclaration(kind) ==
    LET c == CollectUntilSemicolon(index) IN
    /\ ReadsItem(kind, Directions \cup DataTypes \cup
                   {p \in {"parameter", "localparam"} : kind = "package"})
    /\ Skips(c.next, Syntax(c.bad))

Modport ==
    LET ports == Parenthesised(index + 2)
        end   == Expect(ports.next, ";", {";", "endinterface"})
    IN  /\ ReadsItem("interface", {"modport"})
        /\ IF IsIdentifier(Token(index + 1))
           THEN Skips(end.next, Syntax(Token(index + 2) # "(" \/ ports.bad \/ end.bad))
           ELSE Skips(Expect(index + 1, ";", {";"}).next, Syntax(TRUE))

\* Any other token is passed over in silence.
PassOver(kind) ==
    /\ ReadsItem(kind, {Token(index)} \ (Directions \cup DataTypes \cup UnsupportedKeywords
           \cup {"typedef", EndOf[kind]}
           \cup IF kind = "package" THEN {"import", "parameter", "localparam"} ELSE {"modport"}))
    /\ Skips(index + 1, {})

\* The end of parse.
Return ==
    /\ scope = "top" /\ AtEof
    /\ scope' = "returned"
    /\ UNCHANGED <<source, index, module, design, interfaces, typedefs, errors>>
Done == scope = "returned"

ParserNext ==
    \/ OpenModule \/ SkipModule \/ CloseModule
    \/ Declare \/ Parameters \/ Generate \/ Function \/ Task \/ ContinuousAssign \/ AlwaysBlock
    \/ Initial \/ InterfaceInstance \/ UserType \/ ModuleInstance \/ OtherItem
    \/ SkipConstruct \/ Typedef \/ Import \/ OtherAtTop \/ Modport
    \/ \E kind \in {"package", "interface"} :
          OpenScope(kind) \/ CloseScope(kind) \/ SkipDeclaration(kind) \/ PassOver(kind)
    \/ Return
    \/ Done /\ UNCHANGED parsing

\* A text ends with <eof>.
EndsWithEof == tokens \in Seq(Range(tokens)) /\ tokens # <<>> /\ Last(tokens) = Eof
ParserSpec  == EndsWithEof /\ Begin /\ [][ParserNext]_parsing

-----------------------------------------------------------------------------
(* Properties. *)

\* The ports of m are kept by name and in the order in which they came.
Ordered(m) ==
    /\ m.order \in Seq(DOMAIN m.ports)
    /\ ToSet(m.order) = DOMAIN m.ports
    /\ IsInjective(m.order)

\* The parser is in the text, and it reads a module exactly in a module.
ParserTypeOK ==
    /\ index \in DOMAIN tokens
    /\ scope \in {"top", "module", "returned"} \cup DOMAIN EndOf
    /\ scope = "module" <=> module # Idle
    /\ \A r \in errors : r[2] \in DOMAIN tokens
    /\ \A n \in interfaces \cup typedefs : IsIdentifier(n)
    /\ module # Idle => Ordered(module)
    /\ \A m \in ToSet(design) : Ordered(m)

\* Every turn of the parser's loops consumes a token, except that at the end of
\* the text it leaves what it is in: it comes to the end of a damaged text, too.
EveryItemAdvances ==
    [][\/ index' \in index + 1 .. Len(tokens)
       \/ AtEof /\ index' = index /\ scope' = IF scope = "top" THEN "returned" ELSE "top"]_reading

=============================================================================
