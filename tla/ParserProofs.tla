----------------------------- MODULE ParserProofs -----------------------------
(***************************************************************************)
(* Theorems about Parser, for every text and all literals: the parser      *)
(* keeps its place in the text and its bookkeeping in order, comes to the  *)
(* end of any text, damaged or not, and sees the end of each module or     *)
(* reports what hides it; and what the preprocessor and the parser promise *)
(* holds of their composition, FrontEnd.                                   *)
(***************************************************************************)
EXTENDS FrontEnd, PreprocessorProofs, SequenceTheorems, FiniteSetTheorems, TLAPS

-----------------------------------------------------------------------------
(* The first place of a set. *)

\* What is looked for in from .. to is found there or just after it.
LEMMA FirstInRange ==
    ASSUME NEW from \in Nat, NEW to \in Nat, from <= to + 1, NEW S \in SUBSET (from .. to)
    PROVE  /\ FirstIn(S, to + 1) \in from .. to + 1
           /\ FirstIn(S, to + 1) <= to => FirstIn(S, to + 1) \in S
<1>1. CASE S = {}
  BY <1>1 DEF FirstIn
<1>2. CASE S # {}
  <2>1. \E x \in S : \A y \in S : x <= y
    BY <1>2, LeastNat
  <2>2. FirstIn(S, to + 1) \in S
    BY <1>2, <2>1 DEF FirstIn
  <2>3. FirstIn(S, to + 1) \in from .. to
    BY <2>2
  <2>4. QED
    BY <2>2, <2>3
<1>3. QED
  BY <1>1, <1>2

-----------------------------------------------------------------------------
(* Places in the text. *)

Place == 1 .. Len(tokens)

\* A text: tokens with <eof> at the end.
TextOK ==
    /\ tokens \in Seq(Range(tokens))
    /\ Len(tokens) \in Nat \ {0}
    /\ tokens[Len(tokens)] = Eof

\* Only at the last place is <eof> found by itself.
LEMMA TokenIs ==
    ASSUME TextOK, NEW k \in Place
    PROVE  /\ Token(k) = tokens[k]
           /\ Token(k) # Eof => k + 1 \in Place
  BY DEF TextOK, Place, Token, Lesser

LEMMA RestIs ==
    ASSUME TextOK, NEW k \in Place
    PROVE  /\ Len(Rest(k)) = Len(tokens) - k
           /\ \A j \in 1 .. Len(tokens) - k : Rest(k)[j] = tokens[k + j - 1]
<1>1. k \in 1 .. Len(tokens) - 1 + 1 /\ Len(tokens) - 1 \in 0 .. Len(tokens)
  BY DEF TextOK, Place
<1>2. QED
  BY <1>1, SubSeqProperties DEF TextOK, Place, Rest

\* What is cut out of a text is a sequence of its tokens.
LEMMA PieceIs ==
    ASSUME TextOK, NEW a \in 1 .. Len(tokens) + 1, NEW b \in Int, b <= Len(tokens)
    PROVE  SubSeq(tokens, a, b) \in Seq(Range(tokens))
<1>1. CASE b < a
  BY <1>1, SubSeqEmpty DEF TextOK
<1>2. CASE b >= a
  <2>1. b \in a - 1 .. Len(tokens)
    BY <1>2 DEF TextOK
  <2>2. QED
    BY <2>1, SubSeqProperties DEF TextOK
<1>3. QED
  BY <1>1, <1>2 DEF TextOK

LEMMA FindIs ==
    ASSUME TextOK, NEW k \in Place, NEW values
    PROVE  /\ Find(k, values) \in k .. Len(tokens)
           /\ Find(k, values) < Len(tokens) => tokens[Find(k, values)] \in values
<1> DEFINE S == {j \in k .. Len(tokens) - 1 : tokens[j] \in values}
<1>1. Find(k, values) = FirstIn(S, Len(tokens) - 1 + 1)
  BY DEF Find, FirstWith
<1>2. S \in SUBSET (k .. Len(tokens) - 1) /\ k \in Nat /\ Len(tokens) - 1 \in Nat /\ k <= Len(tokens) - 1 + 1
  BY DEF TextOK, Place
<1>3. /\ FirstIn(S, Len(tokens) - 1 + 1) \in k .. Len(tokens) - 1 + 1
      /\ FirstIn(S, Len(tokens) - 1 + 1) <= Len(tokens) - 1 => FirstIn(S, Len(tokens) - 1 + 1) \in S
  BY <1>2, FirstInRange
<1>4. QED
  BY <1>1, <1>3 DEF TextOK, Place

\* After a match, or after a search, the parser is not further back than before.
LEMMA ExpectAdvances ==
    ASSUME TextOK, NEW k \in Place, NEW value, value # Eof, NEW stops
    PROVE  Expect(k, value, stops).next \in k .. Len(tokens)
<1>1. CASE Token(k) = value
  BY <1>1, TokenIs DEF Expect, Nothing, Place
<1>2. CASE Token(k) # value
  <2> DEFINE j == Find(k, stops)
  <2>1. j \in k .. Len(tokens) /\ j \in Place
    BY FindIs DEF Place, TextOK
  <2> HIDE DEF j
  <2>2. Token(j) = value => j + 1 \in Place
    BY <2>1, TokenIs
  <2>3. Expect(k, value, stops).next = IF Token(j) = value THEN j + 1 ELSE j
    BY <1>2 DEF Expect, Nothing, j
  <2>4. QED
    BY <2>1, <2>2, <2>3 DEF Place
<1>3. QED
  BY <1>1, <1>2

\* A statement that does not begin with its end is at least one token long.
LEMMA SemicolonAdvances ==
    ASSUME TextOK, NEW k \in Place
    PROVE  /\ CollectUntilSemicolon(k).next \in k .. Len(tokens)
           /\ k < Len(tokens) /\ tokens[k] \notin {"end", "endmodule"}
                 => CollectUntilSemicolon(k).next > k
           /\ CollectUntilSemicolon(k).tokens \in Seq(Range(tokens))
<1> DEFINE s == Rest(k)
           d == Depths(s, Open, Close)
           S == {j \in 1 .. Len(s) : d[j] = 0 /\ s[j] \in {";", "end", "endmodule"}}
           end == FirstIn(S, Len(s) + 1)
           semicolon == end <= Len(s) /\ s[end] = ";"
<1>1. /\ Len(s) \in Nat /\ Len(s) = Len(tokens) - k
      /\ Len(s) > 0 => s[1] = tokens[k]
  BY RestIs DEF TextOK, Place
<1>2. CollectUntilSemicolon(k).next = IF semicolon THEN k + end ELSE k + end - 1
  BY DEF CollectUntilSemicolon, FirstWith, Collected
<1> HIDE DEF s, d
<1>3. S \in SUBSET (1 .. Len(s))
  OBVIOUS
<1>4. end \in 1 .. Len(s) + 1 /\ (end <= Len(s) => end \in S)
  <2>1. 1 \in Nat /\ 1 <= Len(s) + 1
    BY <1>1
  <2> HIDE DEF S
  <2>2. QED
    BY <1>1, <1>3, <2>1, FirstInRange
<1>5. k \in Nat /\ Len(tokens) \in Nat /\ k <= Len(tokens)
  BY DEF TextOK, Place
<1>6. end <= Len(s) => s[end] \in {";", "end", "endmodule"}
  BY <1>4
<1>7. semicolon => end <= Len(s)
  OBVIOUS
<1> HIDE DEF end, semicolon, S
<1>8. CollectUntilSemicolon(k).next \in k .. Len(tokens)
  BY <1>1, <1>2, <1>4, <1>5, <1>7
<1>9. ASSUME k < Len(tokens), tokens[k] \notin {"end", "endmodule"}
      PROVE  CollectUntilSemicolon(k).next > k
  <2>1. CASE semicolon
    BY <2>1, <1>1, <1>2, <1>4, <1>5, <1>7
  <2>2. CASE ~semicolon
    <3>1. end # 1
      <4>1. SUFFICES ASSUME end = 1 PROVE FALSE
        OBVIOUS
      <4>2. s[1] = tokens[k] /\ end <= Len(s)
        BY <1>1, <1>5, <1>9, <4>1
      <4>3. QED
        BY <1>6, <1>9, <2>2, <4>1, <4>2 DEF semicolon
    <3>2. QED
      BY <2>2, <3>1, <1>1, <1>2, <1>4, <1>5
  <2>3. QED
    BY <2>1, <2>2
<1>10. CollectUntilSemicolon(k).tokens \in Seq(Range(tokens))
  <2>1. CollectUntilSemicolon(k).tokens = SubSeq(tokens, k, k + end - 2)
    BY DEF CollectUntilSemicolon, FirstWith, Collected, end, S, s, d
  <2>2. k \in 1 .. Len(tokens) + 1 /\ k + end - 2 \in Int /\ k + end - 2 <= Len(tokens)
    BY <1>1, <1>4, <1>5 DEF Place
  <2>3. QED
    BY <2>1, <2>2, PieceIs
<1>11. QED
  BY <1>8, <1>9, <1>10

\* A group, a block, a statement or a body ends in the text.
LEMMA BalancedAdvances ==
    ASSUME TextOK, NEW k \in Place, k < Len(tokens), NEW open, NEW close
    PROVE  /\ CollectBalanced(k, open, close).next \in k + 1 .. Len(tokens)
           /\ CollectBalanced(k, open, close).tokens \in Seq(Range(tokens))
<1> DEFINE s == Rest(k)
           t == SubSeq(s, 1, Len(s))
           d == Depths(t, {open}, {close})
           S == {j \in 1 .. Len(t) : d[j] = 0}
           end == FirstIn(S, Len(t) + 1)
<1>1. Len(s) \in Nat /\ Len(s) = Len(tokens) - k
  BY RestIs DEF TextOK, Place
<1>2. Len(t) = Len(s)
  <2>1. s \in Seq(Range(tokens))
    BY SubSeqProperties DEF TextOK, Place, Rest
  <2> HIDE DEF s
  <2>2. QED
    BY <1>1, <2>1, SubSeqProperties
<1>3. Group(s, 1, open, close).end = 1 + end - 1
  BY DEF Group, FirstWith
<1> HIDE DEF t, d
<1>4. S \in SUBSET (1 .. Len(t)) /\ 1 \in Nat /\ 1 <= Len(t) + 1
  BY <1>1, <1>2
<1>5. end \in 1 .. Len(t) + 1
  <2> HIDE DEF S
  <2>1. QED
    BY <1>1, <1>2, <1>4, FirstInRange
<1> HIDE DEF end
<1> DEFINE last == k + Group(s, 1, open, close).end - 1
<1>6. /\ CollectBalanced(k, open, close).next = IF last < Len(tokens) THEN last + 1 ELSE last
      /\ CollectBalanced(k, open, close).tokens = SubSeq(tokens, k + 1, last - 1)
  <2>1. CASE last < Len(tokens)
    BY <2>1 DEF CollectBalanced, Collected, s
  <2>2. CASE ~(last < Len(tokens))
    BY <2>2 DEF CollectBalanced, Collected, s
  <2>3. QED
    BY <2>1, <2>2
<1>7. k \in Nat /\ k > 0 /\ Len(tokens) \in Nat /\ last = k + (1 + end - 1) - 1
  BY <1>3 DEF TextOK, Place
<1> HIDE DEF last
<1>8. CollectBalanced(k, open, close).next \in k + 1 .. Len(tokens)
  BY <1>1, <1>2, <1>5, <1>6, <1>7
<1>9. CollectBalanced(k, open, close).tokens \in Seq(Range(tokens))
  <2>1. k + 1 \in 1 .. Len(tokens) + 1 /\ last - 1 \in Int /\ last - 1 <= Len(tokens)
    BY <1>1, <1>2, <1>5, <1>7
  <2>2. QED
    BY <1>6, <2>1, PieceIs
<1>10. QED
  BY <1>8, <1>9

LEMMA ParenthesisedAdvances ==
    ASSUME TextOK, NEW k \in Place
    PROVE  Parenthesised(k).next \in k .. Len(tokens)
<1>1. CASE Token(k) = "("
  <2>1. k < Len(tokens)
    BY <1>1, TokenIs DEF Place, TextOK, Eof
  <2>2. CollectBalanced(k, "(", ")").next \in k + 1 .. Len(tokens)
    BY <2>1, BalancedAdvances
  <2>3. QED
    BY <1>1, <2>2 DEF Parenthesised, Place
<1>2. CASE Token(k) # "("
  BY <1>2 DEF Parenthesised, Nothing, Place
<1>3. QED
  BY <1>1, <1>2

LEMMA UntilEndAdvances ==
    ASSUME TextOK, NEW k \in Place, NEW start, NEW end
    PROVE  CollectUntilEnd(k, start, end).next \in k .. Len(tokens)
<1> DEFINE s == <<start>> \o Rest(k)
           d == Depths(s, {start}, {end})
           S == {i \in 2 .. Len(s) : d[i] = 0 \/ s[i] = "endmodule"}
           j == FirstIn(S, Len(s) + 1)
           ends == j <= Len(s) /\ d[j] = 0
<1>1. Len(s) \in Nat /\ Len(s) = Len(tokens) - k + 1
  <2>1. Rest(k) \in Seq(Range(tokens)) /\ Len(Rest(k)) = Len(tokens) - k
    <3>1. k \in 1 .. Len(tokens) - 1 + 1 /\ Len(tokens) - 1 \in 0 .. Len(tokens)
      BY DEF TextOK, Place
    <3>2. QED
      BY <3>1, RestIs, SubSeqProperties DEF TextOK, Place, Rest
  <2>2. Rest(k) \in Seq(Range(tokens) \cup {start}) /\ <<start>> \in Seq(Range(tokens) \cup {start})
    BY <2>1
  <2>3. Len(s) = Len(<<start>>) + Len(Rest(k))
    BY <2>2, ConcatProperties
  <2>4. QED
    BY <2>1, <2>3 DEF TextOK, Place
<1>2. CollectUntilEnd(k, start, end).next = IF ends THEN k + j - 1 ELSE k + j - 2
  BY DEF CollectUntilEnd, FirstWith, Collected
<1> HIDE DEF d, s
<1>3. S \in SUBSET (2 .. Len(s))
  OBVIOUS
<1>4. j \in 2 .. Len(s) + 1
  <2>1. 2 \in Nat /\ 2 <= Len(s) + 1
    BY <1>1 DEF TextOK, Place
  <2> HIDE DEF S
  <2>2. QED
    BY <1>1, <1>3, <2>1, FirstInRange
<1>5. ends => j <= Len(s)
  OBVIOUS
<1> HIDE DEF S, j, ends
<1>6. QED
  BY <1>1, <1>2, <1>4, <1>5 DEF TextOK, Place

LEMMA BeginEndAdvances ==
    ASSUME TextOK, NEW k \in Place
    PROVE  CollectBeginEnd(k).next \in k .. Len(tokens)
<1> DEFINE s == Rest(k)
           d == Depths(s, {"begin"}, {"end"})
           S == {i \in 1 .. Len(s) : d[i] = 0}
           j == FirstIn(S, Len(s) + 1)
<1>1. Len(s) \in Nat /\ Len(s) = Len(tokens) - k
  BY RestIs DEF TextOK, Place
<1>2. CollectBeginEnd(k).next = Lesser(k + j, Len(tokens))
  BY DEF CollectBeginEnd, FirstWith, Collected
<1> HIDE DEF d, s
<1>3. j \in 1 .. Len(s) + 1
  <2>1. S \in SUBSET (1 .. Len(s)) /\ 1 \in Nat /\ 1 <= Len(s) + 1
    BY <1>1
  <2> HIDE DEF S
  <2>2. QED
    BY <1>1, <2>1, FirstInRange
<1> HIDE DEF S, j
<1>4. QED
  BY <1>1, <1>2, <1>3 DEF TextOK, Place, Lesser

LEMMA CompoundAdvances ==
    ASSUME TextOK, NEW k \in Place
    PROVE  CollectCompound(k).next \in k .. Len(tokens)
<1> DEFINE s == Rest(k)
           begins == Depths(s, {"begin"}, {"end"})
           cases  == Depths(s, Case, {"endcase"})
           S == {i \in 1 .. Len(s) :
                     /\ begins[i] = 0 /\ cases[i] = 0
                     /\ s[i] \in {"end", "endcase"} \/ (s[i] = ";" /\ Token(k + i) # "else")}
           j == FirstIn(S, Len(s) + 1)
<1>1. Len(s) \in Nat /\ Len(s) = Len(tokens) - k
  BY RestIs DEF TextOK, Place
<1>2. CollectCompound(k).next = Lesser(k + j, Len(tokens))
  BY DEF CollectCompound, FirstWith, Collected
<1> HIDE DEF begins, cases, s
<1>3. S \in SUBSET (1 .. Len(s))
  OBVIOUS
<1>4. j \in 1 .. Len(s) + 1
  <2>1. 1 \in Nat /\ 1 <= Len(s) + 1
    BY <1>1
  <2> HIDE DEF S
  <2>2. QED
    BY <1>1, <1>3, <2>1, FirstInRange
<1> HIDE DEF S, j
<1>5. QED
  BY <1>1, <1>2, <1>4 DEF TextOK, Place, Lesser

LEMMA StatementAdvances ==
    ASSUME TextOK, NEW k \in Place
    PROVE  CollectStatement(k).next \in k .. Len(tokens)
  BY BeginEndAdvances, CompoundAdvances, SemicolonAdvances DEF CollectStatement

\* An unsupported construct is at least its keyword.
LEMMA SkipAdvances ==
    ASSUME TextOK, NEW k \in Place, k < Len(tokens)
    PROVE  SkipUnsupported(k) \in k + 1 .. Len(tokens)
<1>1. CASE Token(k) \in DOMAIN EndKeyword
  <2> DEFINE s == Rest(k)
             d == Depths(s, {Token(k)}, {EndKeyword[Token(k)]})
             S == {j \in 1 .. Len(s) : d[j] = 0}
             j == FirstIn(S, Len(s) + 1)
  <2>1. Len(s) \in Nat /\ Len(s) = Len(tokens) - k
    BY RestIs DEF TextOK, Place
  <2>2. SkipUnsupported(k) = Lesser(Len(tokens), k + j)
    BY <1>1 DEF SkipUnsupported, FirstWith
  <2> HIDE DEF d, s
  <2>3. j \in 1 .. Len(s) + 1
    <3>1. S \in SUBSET (1 .. Len(s)) /\ 1 \in Nat /\ 1 <= Len(s) + 1
      BY <2>1
    <3> HIDE DEF S
    <3>2. QED
      BY <2>1, <3>1, FirstInRange
  <2> HIDE DEF S, j
  <2>4. QED
    BY <2>1, <2>2, <2>3 DEF TextOK, Place, Lesser
<1>2. CASE Token(k) \notin DOMAIN EndKeyword
  <2>1. k + 1 \in Place
    BY DEF TextOK, Place
  <2>2. Expect(k + 1, ";", {";", "endmodule"}).next \in k + 1 .. Len(tokens)
    BY <2>1, ExpectAdvances DEF Eof
  <2>3. QED
    BY <1>2, <2>2 DEF SkipUnsupported
<1>3. QED
  BY <1>1, <1>2

-----------------------------------------------------------------------------
(* Every item consumes a token. *)

Consumes == index' \in index + 1 .. Len(tokens)

LEMMA ItemBegins ==
    ASSUME TextOK, index \in Place, NEW at, NEW first, ReadsItem(at, first)
    PROVE  /\ index < Len(tokens) /\ index + 1 \in Place
           /\ tokens[index] \in first /\ Token(index) = tokens[index]
  BY TokenIs DEF TextOK, Place, ReadsItem, AtEof

\* A token that is an identifier is not the last one.
LEMMA IdentifierIs ==
    ASSUME TextOK, NEW k \in Place, IsIdentifier(Token(k))
    PROVE  k + 1 \in Place
  BY TokenIs DEF IsIdentifier

LEMMA HeaderConsumes ==
    ASSUME TextOK, index \in Place, OpenModule
    PROVE  Consumes
<1>1. index + 1 \in Place
  BY TokenIs DEF OpenModule, Eof
<1>2. index + 2 \in Place
  <2>1. (index + 1) + 1 \in Place
    BY <1>1, IdentifierIs DEF OpenModule
  <2>2. QED
    BY <2>1 DEF Place, TextOK
<1>3. PICK values \in {IF Token(index + 2) = "#" THEN Parenthesised(index + 3) ELSE Nothing(index + 2, FALSE)} :
         \E ports \in {Parenthesised(values.next)} :
         \E end   \in {Expect(ports.next, ";", {";", "endmodule"})} : index' = end.next
  BY Zenon DEF OpenModule, Becomes
<1>4. values.next \in index + 2 .. Len(tokens)
  <2>0. values = IF Token(index + 2) = "#" THEN Parenthesised(index + 3) ELSE Nothing(index + 2, FALSE)
    BY <1>3
  <2>1. CASE Token(index + 2) = "#"
    <3>1. index + 3 \in Place
      BY <1>2, <2>1, TokenIs DEF Eof, Place, TextOK
    <3>2. Parenthesised(index + 3).next \in index + 3 .. Len(tokens)
      BY <3>1, ParenthesisedAdvances
    <3>3. QED
      BY <2>1, <2>0, <3>2 DEF Place, TextOK
  <2>2. CASE Token(index + 2) # "#"
    BY <1>2, <2>2, <2>0 DEF Nothing, Place, TextOK
  <2>4. QED
    BY <2>1, <2>2
<1>5. values.next \in Place
  BY <1>4 DEF Place, TextOK
<1>6. Parenthesised(values.next).next \in index + 2 .. Len(tokens)
  BY <1>4, <1>5, ParenthesisedAdvances DEF Place, TextOK
<1>7. Parenthesised(values.next).next \in Place
  BY <1>6 DEF Place, TextOK
<1>8. Expect(Parenthesised(values.next).next, ";", {";", "endmodule"}).next
          \in Parenthesised(values.next).next .. Len(tokens)
  BY <1>7, ExpectAdvances DEF Eof
<1>9. index' = Expect(Parenthesised(values.next).next, ";", {";", "endmodule"}).next
  BY <1>3
<1>10. \A i \in index + 2 .. Len(tokens) : \A e \in i .. Len(tokens) : e \in index + 1 .. Len(tokens)
  BY DEF Place, TextOK
<1>11. QED
  BY <1>6, <1>8, <1>9, <1>10 DEF Consumes

\* A declaration or a parameter.
LEMMA DeclarationConsumes ==
    ASSUME TextOK, index \in Place, Declare \/ Parameters
    PROVE  Consumes
<1>1. index < Len(tokens) /\ tokens[index] \notin {"end", "endmodule"}
  <2>1. PICK first \in {Directions \cup DataTypes, {"parameter", "localparam"}} : ReadsItem("module", first)
    BY DEF Declare, Parameters
  <2>2. index < Len(tokens) /\ tokens[index] \in first
    BY <2>1, ItemBegins
  <2>3. QED
    BY <2>2 DEF Directions, DataTypes
<1>2. CollectUntilSemicolon(index).next \in index + 1 .. Len(tokens)
  BY <1>1, SemicolonAdvances DEF Place, TextOK
<1>3. index' = CollectUntilSemicolon(index).next
  BY Zenon DEF Declare, Parameters, Becomes
<1>4. QED
  BY <1>2, <1>3 DEF Consumes

LEMMA GenerateConsumes ==
    ASSUME TextOK, index \in Place, Generate
    PROVE  Consumes
<1>1. index + 1 \in Place
  BY ItemBegins DEF Generate
<1>2. CollectUntilEnd(index + 1, "generate", "endgenerate").next \in index + 1 .. Len(tokens)
  BY <1>1, UntilEndAdvances
<1>3. index' = CollectUntilEnd(index + 1, "generate", "endgenerate").next
  BY Zenon DEF Generate, Becomes
<1>4. QED
  BY <1>2, <1>3 DEF Consumes

LEMMA SubroutineConsumes ==
    ASSUME TextOK, index \in Place, Function \/ Task
    PROVE  Consumes
<1>1. index + 1 \in Place
  BY ItemBegins DEF Function, Task
<1>2. CollectUntilSemicolon(index + 1).next \in index + 1 .. Len(tokens)
  BY <1>1, SemicolonAdvances
<1>3. CollectUntilSemicolon(index + 1).next \in Place
  BY <1>2 DEF Place, TextOK
<1>4. \A start, end : CollectUntilEnd(CollectUntilSemicolon(index + 1).next, start, end).next
                          \in CollectUntilSemicolon(index + 1).next .. Len(tokens)
  BY <1>3, UntilEndAdvances
<1>5. \E start, end : index' = CollectUntilEnd(CollectUntilSemicolon(index + 1).next, start, end).next
  <2>1. \A kind, header, c, known : Subroutine(kind, header, c, known).next = c.next
    BY DEF Subroutine
  <2>2. CASE Function
    <3>1. \E header \in {CollectUntilSemicolon(index + 1)} :
          \E c \in {CollectUntilEnd(header.next, "function", "endfunction")} :
             index' = Subroutine("function", header, c, module.functions).next
      BY <2>2, Zenon DEF Function, Becomes
    <3>2. QED
      BY <2>1, <3>1, SMT
  <2>3. CASE Task
    <3>1. \E header \in {CollectUntilSemicolon(index + 1)} :
          \E c \in {CollectUntilEnd(header.next, "task", "endtask")} :
             index' = Subroutine("task", header, c, module.tasks).next
      BY <2>3, Zenon DEF Task, Becomes
    <3>2. QED
      BY <2>1, <3>1, SMT
  <2>4. QED
    BY <2>2, <2>3
<1>6. QED
  BY <1>2, <1>4, <1>5 DEF Consumes, Place, TextOK

LEMMA AssignConsumes ==
    ASSUME TextOK, index \in Place, ContinuousAssign
    PROVE  Consumes
<1>1. index + 1 \in Place
  BY ItemBegins DEF ContinuousAssign
<1>2. CollectUntilSemicolon(index + 1).next \in index + 1 .. Len(tokens)
  BY <1>1, SemicolonAdvances
<1>3. index' = CollectUntilSemicolon(index + 1).next
  BY Zenon DEF ContinuousAssign, Becomes
<1>4. QED
  BY <1>2, <1>3 DEF Consumes

LEMMA EventAdvances ==
    ASSUME TextOK, NEW k \in Place
    PROVE  Event(k).next \in k .. Len(tokens)
<1>1. CASE Token(k) # "@"
  BY <1>1 DEF Event, Nothing, Place
<1>2. CASE Token(k) = "@"
  <2>1. k + 1 \in Place
    BY <1>2, TokenIs DEF Eof
  <2>2. CASE Token(k + 1) = "("
    <3>1. k + 1 < Len(tokens)
      BY <2>1, <2>2, TokenIs DEF Eof, Place, TextOK
    <3>2. CollectBalanced(k + 1, "(", ")").next \in k + 1 + 1 .. Len(tokens)
      BY <2>1, <3>1, BalancedAdvances
    <3>3. QED
      BY <1>2, <2>2, <3>2 DEF Event, Place, TextOK
  <2>3. CASE Token(k + 1) = Eof
    BY <1>2, <2>1, <2>3 DEF Event, Nothing, Place, TextOK, Eof
  <2>4. CASE Token(k + 1) \notin {"(", Eof}
    <3>1. k + 1 + 1 \in Place
      BY <2>1, <2>4, TokenIs
    <3>2. Event(k).next = k + 2
      BY <1>2, <2>4 DEF Event, Collected
    <3>3. QED
      BY <3>1, <3>2 DEF Place, TextOK
  <2>5. QED
    BY <2>2, <2>3, <2>4
<1>3. QED
  BY <1>1, <1>2

LEMMA BlockConsumes ==
    ASSUME TextOK, index \in Place, AlwaysBlock \/ Initial
    PROVE  Consumes
<1>1. index + 1 \in Place
  BY ItemBegins DEF AlwaysBlock, Initial
<1>2. CASE AlwaysBlock
  <2>1. Event(index + 1).next \in index + 1 .. Len(tokens)
    BY <1>1, EventAdvances
  <2>2. Event(index + 1).next \in Place
    BY <2>1 DEF Place, TextOK
  <2>3. CollectStatement(Event(index + 1).next).next \in index + 1 .. Len(tokens)
    BY <2>1, <2>2, StatementAdvances DEF Place, TextOK
  <2>4. index' = CollectStatement(Event(index + 1).next).next
    BY <1>2, Zenon DEF AlwaysBlock, Becomes
  <2>5. QED
    BY <2>3, <2>4 DEF Consumes
<1>3. CASE Initial
  BY <1>1, <1>3, StatementAdvances DEF Initial, Skips, Becomes, Consumes
<1>4. QED
  BY <1>2, <1>3

LEMMA ExpectEnds ==
    ASSUME TextOK, NEW k \in Place, NEW value, value # Eof, NEW stops
    PROVE  Expect(k, value, stops).next \in Place /\ Expect(k, value, stops).next >= k
<1>1. Expect(k, value, stops).next \in k .. Len(tokens)
  BY ExpectAdvances
<1>2. QED
  BY <1>1 DEF Place, TextOK

LEMMA ParenthesisedEnds ==
    ASSUME TextOK, NEW k \in Place
    PROVE  Parenthesised(k).next \in Place /\ Parenthesised(k).next >= k
<1>1. Parenthesised(k).next \in k .. Len(tokens)
  BY ParenthesisedAdvances
<1>2. QED
  BY <1>1 DEF Place, TextOK

LEMMA ParenthesisedPiece ==
    ASSUME TextOK, NEW k \in Place
    PROVE  Parenthesised(k).tokens \in Seq(Range(tokens))
<1>1. CASE Token(k) = "("
  <2>1. k < Len(tokens)
    BY <1>1, TokenIs DEF Place, TextOK, Eof
  <2>2. CollectBalanced(k, "(", ")").tokens \in Seq(Range(tokens))
    BY <2>1, BalancedAdvances
  <2>3. QED
    BY <1>1, <2>2 DEF Parenthesised
<1>2. CASE Token(k) # "("
  BY <1>2 DEF Parenthesised, Nothing
<1>3. QED
  BY <1>1, <1>2

LEMMA InterfaceConsumes ==
    ASSUME TextOK, index \in Place, InterfaceInstance
    PROVE  Consumes
<1> DEFINE k == index + (IF Token(index + 1) = "." THEN 4 ELSE 2)
           p == Parenthesised(k)
           e == Expect(p.next, ";", {";", "endmodule"})
<1>1. index + 1 \in Place
  BY ItemBegins DEF InterfaceInstance
<1>2. k \in Place /\ k >= index + 2
  <2>1. CASE Token(index + 1) = "."
    <3>1. index + 2 \in Place
      BY <1>1, <2>1, TokenIs DEF Eof, Place, TextOK
    <3>2. IsIdentifier(Token(index + 2)) /\ IsIdentifier(Token(index + 3))
      BY <2>1 DEF InterfaceInstance, IsInterfaceInstance
    <3>3. (index + 2) + 1 \in Place
      BY <3>1, <3>2, IdentifierIs
    <3>4. index + 3 \in Place
      BY <3>3 DEF Place, TextOK
    <3>5. (index + 3) + 1 \in Place
      BY <3>2, <3>4, IdentifierIs
    <3>6. QED
      BY <2>1, <3>5 DEF Place, TextOK
  <2>2. CASE Token(index + 1) # "."
    <3>1. IsIdentifier(Token(index + 1))
      BY <2>2 DEF InterfaceInstance, IsInterfaceInstance
    <3>2. (index + 1) + 1 \in Place
      BY <1>1, <3>1, IdentifierIs
    <3>3. QED
      BY <2>2, <3>2 DEF Place, TextOK
  <2>3. QED
    BY <2>1, <2>2
<1>3. index' = e.next
  BY DEF InterfaceInstance, Skips, Becomes
<1> HIDE DEF k
<1>4. p.next \in Place /\ p.next >= k
  BY <1>2, ParenthesisedEnds
<1> HIDE DEF p
<1>5. e.next \in Place /\ e.next >= p.next
  BY <1>4, ExpectEnds DEF Eof
<1> HIDE DEF e
<1>6. QED
  BY <1>2, <1>3, <1>4, <1>5 DEF Consumes, Place, TextOK

LEMMA UserTypeConsumes ==
    ASSUME TextOK, index \in Place, UserType
    PROVE  Consumes
<1>1. index + 1 \in Place /\ IsIdentifier(Token(index + 1))
  BY ItemBegins DEF UserType, IsUserType
<1>2. (index + 1) + 1 \in Place
  BY <1>1, IdentifierIs
<1>3. index + 2 \in Place
  BY <1>2 DEF Place, TextOK
<1>4. CollectUntilSemicolon(index + 2).next \in index + 2 .. Len(tokens)
  BY <1>3, SemicolonAdvances
<1>5. index' = CollectUntilSemicolon(index + 2).next
  BY Zenon DEF UserType, Becomes
<1>6. QED
  BY <1>4, <1>5 DEF Consumes, Place, TextOK

LEMMA InstanceConsumes ==
    ASSUME TextOK, index \in Place, ModuleInstance
    PROVE  Consumes
<1> DEFINE v == IF Token(index + 1) = "#" THEN Parenthesised(index + 2) ELSE Nothing(index + 1, FALSE)
           p == Parenthesised(v.next + 1)
           e == Expect(p.next, ";", {";", "endmodule"})
           f == Expect(v.next, ";", {";"})
<1>1. index + 1 \in Place
  BY ItemBegins DEF ModuleInstance
<1>2. index' = IF IsIdentifier(Token(v.next)) THEN e.next ELSE f.next
  BY Zenon DEF ModuleInstance, Becomes, Skips
<1>3. v.next \in Place /\ v.next >= index + 1
  <2>1. CASE Token(index + 1) = "#"
    <3>1. index + 2 \in Place
      BY <1>1, <2>1, TokenIs DEF Eof, Place, TextOK
    <3>2. Parenthesised(index + 2).next \in Place /\ Parenthesised(index + 2).next >= index + 2
      BY <3>1, ParenthesisedEnds
    <3>3. QED
      BY <2>1, <3>2 DEF Place, TextOK
  <2>2. CASE Token(index + 1) # "#"
    BY <1>1, <2>2 DEF Nothing, Place, TextOK
  <2>3. QED
    BY <2>1, <2>2
<1> HIDE DEF v
<1>4. CASE IsIdentifier(Token(v.next))
  <2>1. v.next + 1 \in Place
    BY <1>3, <1>4, IdentifierIs
  <2>2. p.next \in Place /\ p.next >= v.next + 1
    BY <2>1, ParenthesisedEnds
  <2> HIDE DEF p
  <2>3. e.next \in Place /\ e.next >= p.next
    BY <2>2, ExpectEnds DEF Eof
  <2> HIDE DEF e, f
  <2>4. QED
    BY <1>2, <1>3, <1>4, <2>2, <2>3 DEF Consumes, Place, TextOK
<1>5. CASE ~IsIdentifier(Token(v.next))
  <2>1. f.next \in Place /\ f.next >= v.next
    BY <1>3, ExpectEnds DEF Eof
  <2> HIDE DEF p, e, f
  <2>2. QED
    BY <1>2, <1>3, <1>5, <2>1 DEF Consumes, Place, TextOK
<1>6. QED
  BY <1>4, <1>5

\* What is skipped: modules without a name, constructs that are not supported,
\* declarations of a package, and single tokens.
LEMMA SkippingConsumes ==
    ASSUME TextOK, index \in Place,
           \/ SkipModule \/ SkipConstruct \/ OtherItem \/ OtherAtTop
           \/ \E kind \in {"package", "interface"} : SkipDeclaration(kind) \/ PassOver(kind)
    PROVE  Consumes
<1>1. index < Len(tokens) /\ index + 1 \in Place
  BY ItemBegins DEF SkipModule, SkipConstruct, OtherItem, OtherAtTop, SkipDeclaration, PassOver
<1>2. CASE SkipModule
  <2>1. Expect(index + 1, "endmodule", {"endmodule"}).next \in index + 1 .. Len(tokens)
    BY <1>1, ExpectAdvances DEF Eof
  <2>2. QED
    BY <1>2, <2>1 DEF SkipModule, Skips, Becomes, Consumes
<1>3. CASE SkipConstruct
  BY <1>1, <1>3, SkipAdvances DEF SkipConstruct, Skips, Becomes, Consumes
<1>4. ASSUME index' = index + 1 PROVE Consumes
  BY <1>1, <1>4 DEF Consumes, Place, TextOK
<1>5. CASE OtherItem \/ OtherAtTop
  BY <1>4, <1>5 DEF OtherItem, OtherAtTop, Skips, Becomes
<1>6. ASSUME NEW kind \in {"package", "interface"}, SkipDeclaration(kind) PROVE Consumes
  <2>1. tokens[index] \in Directions \cup DataTypes \cup {"parameter", "localparam"}
    BY <1>6, ItemBegins DEF SkipDeclaration
  <2>2. tokens[index] \notin {"end", "endmodule"}
    BY <2>1 DEF Directions, DataTypes
  <2>3. CollectUntilSemicolon(index).next \in index + 1 .. Len(tokens)
    BY <1>1, <2>2, SemicolonAdvances DEF Place, TextOK
  <2>4. QED
    BY <1>6, <2>3 DEF SkipDeclaration, Skips, Becomes, Consumes
<1>7. ASSUME NEW kind \in {"package", "interface"}, PassOver(kind) PROVE Consumes
  BY <1>4, <1>7 DEF PassOver, Skips, Becomes
<1>8. QED
  BY <1>2, <1>3, <1>5, <1>6, <1>7

LEMMA TypedefConsumes ==
    ASSUME TextOK, index \in Place, Typedef
    PROVE  Consumes
<1>1. index + 1 \in Place
  BY TokenIs DEF Typedef, AtEof
<1>2. CollectUntilSemicolon(index + 1).next \in index + 1 .. Len(tokens)
  BY <1>1, SemicolonAdvances
<1>3. QED
  BY <1>2, Zenon DEF Typedef, Consumes

LEMMA ImportConsumes ==
    ASSUME TextOK, index \in Place, Import
    PROVE  Consumes
<1> DEFINE at == IF Token(index + 2) = "::" THEN index + 3 ELSE index + 2
           symbol == Token(at) = "*" \/ IsIdentifier(Token(at))
           after == IF symbol THEN at + 1 ELSE at
           e == Expect(after, ";", {";", "module", "endmodule"})
           f == Expect(index + 1, ";", {";"})
<1>1. index + 1 \in Place
  BY ItemBegins DEF Import
<1>2. index' = IF IsIdentifier(Token(index + 1)) THEN e.next ELSE f.next
  BY Zenon DEF Import, Skips, Becomes
<1>3. f.next \in Place /\ f.next >= index + 1
  BY <1>1, ExpectEnds DEF Eof
<1>4. ASSUME IsIdentifier(Token(index + 1)) PROVE e.next \in Place /\ e.next >= index + 1
  <2>1. (index + 1) + 1 \in Place
    BY <1>1, <1>4, IdentifierIs
  <2>2. index + 2 \in Place
    BY <2>1 DEF Place, TextOK
  <2>3. at \in Place /\ at >= index + 1
    BY <2>2, TokenIs DEF Eof, Place, TextOK
  <2> HIDE DEF at
  <2>4. symbol => at + 1 \in Place
    BY <2>3, TokenIs, IdentifierIs DEF Eof
  <2> HIDE DEF symbol
  <2>5. after \in Place /\ after >= index + 1
    BY <2>3, <2>4 DEF Place, TextOK
  <2> HIDE DEF after
  <2>6. e.next \in Place /\ e.next >= after
    BY <2>5, ExpectEnds DEF Eof
  <2> HIDE DEF e
  <2>7. QED
    BY <2>5, <2>6 DEF Place, TextOK
<1> HIDE DEF at, symbol, after, e, f
<1>5. QED
  BY <1>2, <1>3, <1>4 DEF Consumes, Place, TextOK

LEMMA ModportConsumes ==
    ASSUME TextOK, index \in Place, Modport
    PROVE  Consumes
<1> DEFINE p == Parenthesised(index + 2)
           e == Expect(p.next, ";", {";", "endinterface"})
           f == Expect(index + 1, ";", {";"})
<1>1. index + 1 \in Place
  BY ItemBegins DEF Modport
<1>2. index' = IF IsIdentifier(Token(index + 1)) THEN e.next ELSE f.next
  BY Zenon DEF Modport, Skips, Becomes
<1>3. f.next \in Place /\ f.next >= index + 1
  BY <1>1, ExpectEnds DEF Eof
<1>4. ASSUME IsIdentifier(Token(index + 1)) PROVE e.next \in Place /\ e.next >= index + 1
  <2>1. (index + 1) + 1 \in Place
    BY <1>1, <1>4, IdentifierIs
  <2>2. index + 2 \in Place
    BY <2>1 DEF Place, TextOK
  <2>3. p.next \in Place /\ p.next >= index + 2
    BY <2>2, ParenthesisedEnds
  <2> HIDE DEF p
  <2>4. e.next \in Place /\ e.next >= p.next
    BY <2>3, ExpectEnds DEF Eof
  <2> HIDE DEF e
  <2>5. QED
    BY <2>3, <2>4 DEF Place, TextOK
<1> HIDE DEF p, e, f
<1>5. QED
  BY <1>2, <1>3, <1>4 DEF Consumes, Place, TextOK

\* The header of a package or an interface.
LEMMA ScopeConsumes ==
    ASSUME TextOK, index \in Place, NEW kind \in {"package", "interface"}, OpenScope(kind)
    PROVE  Consumes
<1> DEFINE k == IF IsIdentifier(Token(index + 1)) THEN index + 2 ELSE index + 1
           p == IF kind = "interface" THEN Parenthesised(k) ELSE Nothing(k, FALSE)
           e == Expect(p.next, ";", {";", EndOf[kind]})
<1>1. index + 1 \in Place
  BY TokenIs DEF OpenScope, Eof
<1>2. index' = e.next
  BY Zenon DEF OpenScope
<1>3. k \in Place /\ k >= index + 1
  <2>1. IsIdentifier(Token(index + 1)) => (index + 1) + 1 \in Place
    BY <1>1, IdentifierIs
  <2>2. QED
    BY <1>1, <2>1 DEF Place, TextOK
<1> HIDE DEF k
<1>4. p.next \in Place /\ p.next >= k
  BY <1>3, ParenthesisedEnds DEF Nothing, Place
<1> HIDE DEF p
<1>5. e.next \in Place /\ e.next >= p.next
  BY <1>4, ExpectEnds DEF Eof
<1> HIDE DEF e
<1>6. QED
  BY <1>2, <1>3, <1>4, <1>5 DEF Consumes, Place, TextOK

-----------------------------------------------------------------------------
(* The ports of a module. *)

GoodModule(m) == {"ports", "order"} \subseteq DOMAIN m /\ Ordered(m)

LEMMA OthersKeep ==
    ASSUME NEW m, GoodModule(m), NEW n, DOMAIN n = DOMAIN m, n.ports = m.ports, n.order = m.order
    PROVE  GoodModule(n)
  BY DEF GoodModule, Ordered

\* A new name comes last in the order, an old one stays where it is.
LEMMA PutPortKeeps ==
    ASSUME NEW m, GoodModule(m), NEW x
    PROVE  GoodModule(PutPort(m, x))
<1> DEFINE n == PutPort(m, x)
           D == DOMAIN m.ports
           o == m.order
<1>1. /\ DOMAIN n = DOMAIN m
      /\ n.ports = Put(m.ports, x)
      /\ n.order = IF x.name \in D THEN o ELSE Append(o, x.name)
  BY DEF GoodModule, PutPort
<1>2. DOMAIN Put(m.ports, x) = D \cup {x.name}
  BY DEF Put
<1>3. o \in Seq(D) /\ ToSet(o) = D /\ IsInjective(o)
  BY DEF GoodModule, Ordered
<1> HIDE DEF n, D, o
<1>4. CASE x.name \in D
  <2>1. D \cup {x.name} = D
    BY <1>4
  <2>2. QED
    BY <1>1, <1>2, <1>3, <1>4, <2>1 DEF GoodModule, Ordered, n
<1>5. CASE x.name \notin D
  <2>1. o \in Seq(D \cup {x.name})
    BY <1>3
  <2>2. /\ n.order \in Seq(D \cup {x.name})
        /\ Len(n.order) = Len(o) + 1
        /\ \A i \in 1 .. Len(o) : n.order[i] = o[i]
        /\ n.order[Len(o) + 1] = x.name
    BY <1>1, <1>5, <2>1, AppendProperties
  <2>3. Len(o) \in Nat /\ DOMAIN o = 1 .. Len(o) /\ DOMAIN n.order = 1 .. Len(o) + 1
    BY <1>3, <2>2
  <2>4. \A i \in 1 .. Len(o) : o[i] \in D
    BY <1>3, <2>3
  <2>5. ToSet(n.order) = D \cup {x.name}
    <3>1. \A v \in D : \E i \in 1 .. Len(o) : o[i] = v
      BY <1>3, <2>3 DEF ToSet
    <3>2. \A v \in D \cup {x.name} : \E i \in 1 .. Len(o) + 1 : n.order[i] = v
      BY <2>2, <2>3, <3>1
    <3>3. \A i \in 1 .. Len(o) + 1 : n.order[i] \in D \cup {x.name}
      BY <2>2, <2>3
    <3>4. QED
      BY <2>3, <3>2, <3>3 DEF ToSet
  <2>6. IsInjective(n.order)
    <3>1. ASSUME NEW a \in 1 .. Len(o) + 1, NEW b \in 1 .. Len(o) + 1, n.order[a] = n.order[b]
          PROVE  a = b
      <4>1. CASE a \in 1 .. Len(o) /\ b \in 1 .. Len(o)
        BY <1>3, <2>2, <2>3, <3>1, <4>1 DEF IsInjective
      <4>2. CASE a = Len(o) + 1 \/ b = Len(o) + 1
        BY <1>5, <2>2, <2>3, <2>4, <3>1, <4>2
      <4>3. QED
        BY <2>3, <4>1, <4>2
    <3>2. QED
      BY <2>3, <3>1 DEF IsInjective
  <2>7. QED
    BY <1>1, <1>2, <2>2, <2>5, <2>6 DEF GoodModule, Ordered, n
<1>6. QED
  BY <1>4, <1>5

\* What is added to a module keeps its ports in order.
LEMMA AddKeeps ==
    ASSUME NEW r, GoodModule(r.module), NEW s, NEW kind \in {"port", "declaration", "parameter"}
    PROVE  GoodModule(Add(r, s, kind).module)
<1> DEFINE x == Signal(s)
           m == r.module
<1> HIDE DEF x
<1>1. CASE s = <<>>
  BY <1>1 DEF Add
<1>2. CASE s # <<>> /\ kind = "port"
  <2>1. Add(r, s, kind) = AddPort(r, s, x)
    BY <1>2 DEF Add, x
  <2>2. CASE x.name \in {""} \cup DOMAIN m.ports
    <3>1. AddPort(r, s, x).module = m
      BY <2>2 DEF AddPort
    <3>2. QED
      BY <2>1, <3>1
  <2>3. CASE x.name \notin {""} \cup DOMAIN m.ports
    <3> DEFINE n == AddPort(r, s, x).module
    <3>1. /\ DOMAIN n = DOMAIN PutPort(m, x)
          /\ n.ports = PutPort(m, x).ports
          /\ n.order = PutPort(m, x).order
      BY <2>3, PutPortKeeps DEF AddPort, GoodModule
    <3> HIDE DEF n
    <3>2. GoodModule(n)
      BY <3>1, PutPortKeeps, OthersKeep
    <3>3. QED
      BY <2>1, <3>2 DEF n
  <2>4. QED
    BY <2>2, <2>3
<1>3. CASE s # <<>> /\ kind = "declaration"
  <2>1. Add(r, s, kind) = AddDeclaration(r, s, x)
    BY <1>3 DEF Add, x
  <2> DEFINE n == AddDeclaration(r, s, x).module
             p == IF x.direction = "" THEN m ELSE PutPort(m, x)
  <2>2. GoodModule(p)
    BY PutPortKeeps
  <2>3. CASE x.name \in {""} \cup DOMAIN m.declarations
    <3>1. n = m
      BY <2>3 DEF AddDeclaration
    <3>2. QED
      BY <2>1, <3>1
  <2>4. CASE x.name \notin {""} \cup DOMAIN m.declarations
    <3>1. \E values, assigns : n = [p EXCEPT !.declarations = values, !.assigns = assigns]
      BY <2>4, Zenon DEF AddDeclaration
    <3> HIDE DEF n, p
    <3>2. DOMAIN n = DOMAIN p /\ n.ports = p.ports /\ n.order = p.order
      BY <2>2, <3>1 DEF GoodModule
    <3>3. GoodModule(n)
      BY <2>2, <3>2, OthersKeep
    <3>4. QED
      BY <2>1, <3>3 DEF n
  <2>5. QED
    BY <2>3, <2>4
<1>4. CASE s # <<>> /\ kind = "parameter"
  <2>1. Add(r, s, kind) = AddParameter(r, s, x)
    BY <1>4 DEF Add, x
  <2> DEFINE n == AddParameter(r, s, x).module
  <2>2. DOMAIN n = DOMAIN m /\ n.ports = m.ports /\ n.order = m.order
    BY DEF AddParameter, GoodModule
  <2> HIDE DEF n
  <2>3. GoodModule(n)
    BY <2>2, OthersKeep
  <2>4. QED
    BY <2>1, <2>3 DEF n
<1>5. QED
  BY <1>1, <1>2, <1>3, <1>4

\* f has the results after each of the first n segments.
Adds(f, n, r, segments, kind) ==
    /\ f = [k \in 0 .. n |-> f[k]]
    /\ f[0] = r
    /\ \A k \in 1 .. n : f[k] = Add(f[k - 1], segments[k], kind)

LEMMA SomeAdds ==
    ASSUME NEW r, NEW segments, NEW kind
    PROVE  \A n \in Nat : \E f : Adds(f, n, r, segments, kind)
<1> DEFINE T == {n \in Nat : \E f : Adds(f, n, r, segments, kind)}
<1>1. 0 \in T
  <2>1. Adds([k \in 0 .. 0 |-> r], 0, r, segments, kind)
    BY DEF Adds
  <2>2. QED
    BY <2>1
<1>2. ASSUME NEW n \in Nat, n \in T PROVE n + 1 \in T
  <2>1. PICK f : Adds(f, n, r, segments, kind)
    BY <1>2
  <2> DEFINE last == Add(f[n], segments[n + 1], kind)
             g == [k \in 0 .. n + 1 |-> IF k = n + 1 THEN last ELSE f[k]]
  <2> HIDE DEF last
  <2>2. (\A k \in 0 .. n : g[k] = f[k]) /\ g[n + 1] = last
    OBVIOUS
  <2>3. g = [k \in 0 .. n + 1 |-> g[k]]
    OBVIOUS
  <2> HIDE DEF g
  <2>4. ASSUME NEW k \in 1 .. n + 1 PROVE g[k] = Add(g[k - 1], segments[k], kind)
    <3>1. g[k - 1] = f[k - 1]
      BY <2>2
    <3>2. CASE k = n + 1
      BY <2>2, <3>1, <3>2 DEF last
    <3>3. CASE k # n + 1
      <4>1. k \in 1 .. n /\ k \in 0 .. n
        BY <3>3
      <4>2. f[k] = Add(f[k - 1], segments[k], kind)
        BY <2>1, <4>1 DEF Adds
      <4>3. QED
        BY <2>2, <3>1, <4>1, <4>2
    <3>4. QED
      BY <3>2, <3>3
  <2>5. g[0] = r
    BY <2>1, <2>2 DEF Adds
  <2>6. Adds(g, n + 1, r, segments, kind)
    BY <2>3, <2>4, <2>5 DEF Adds
  <2>7. QED
    BY <2>6
<1> HIDE DEF T
<1>3. Nat \subseteq T
  BY <1>1, <1>2, Induction
<1>4. QED
  BY <1>3 DEF T

\* The recursion of AddAll, and what it keeps.
LEMMA AddAllKeeps ==
    ASSUME NEW r, GoodModule(r.module), NEW segments, Len(segments) \in Nat,
           NEW kind \in {"port", "declaration", "parameter"}
    PROVE  GoodModule(AddAll(r, segments, kind).module)
<1> DEFINE n == Len(segments)
           Body(f) == [k \in 0 .. n |-> IF k = 0 THEN r ELSE Add(f[k - 1], segments[k], kind)]
           L == CHOOSE f : f = Body(f)
<1>1. AddAll(r, segments, kind) = L[n]
  BY DEF AddAll
<1> HIDE DEF n
<1>2. n \in Nat
  BY DEF n
<1>3. PICK f : Adds(f, n, r, segments, kind)
  BY <1>2, SomeAdds
<1>4. f = Body(f)
  <2>1. f = [k \in 0 .. n |-> f[k]]
    BY <1>3 DEF Adds
  <2>2. ASSUME NEW k \in 0 .. n
        PROVE  f[k] = IF k = 0 THEN r ELSE Add(f[k - 1], segments[k], kind)
    BY <1>3, <1>2 DEF Adds
  <2>3. QED
    BY <2>1, <2>2
<1>5. L = Body(L)
  BY <1>4
<1> HIDE DEF L
<1>6. L[0] = r
  BY <1>2, <1>5
<1>7. \A k \in 1 .. n : L[k] = Add(L[k - 1], segments[k], kind)
  BY <1>2, <1>5
<1> DEFINE T == {k \in Nat : k <= n => GoodModule(L[k].module)}
<1>8. 0 \in T
  BY <1>6
<1>9. ASSUME NEW k \in Nat, k \in T PROVE k + 1 \in T
  <2>1. SUFFICES ASSUME k + 1 <= n PROVE GoodModule(L[k + 1].module)
    OBVIOUS
  <2>2. GoodModule(L[k].module) /\ k + 1 \in 1 .. n /\ k + 1 - 1 = k
    BY <1>2, <1>9, <2>1
  <2>3. L[k + 1] = Add(L[k], segments[k + 1], kind)
    BY <1>7, <2>2
  <2>4. QED
    BY <2>2, <2>3, AddKeeps
<1> HIDE DEF T
<1>10. Nat \subseteq T
  BY <1>8, <1>9, Induction
<1>11. QED
  BY <1>1, <1>2, <1>10 DEF T

-----------------------------------------------------------------------------
(* The parts of a list. *)

LEMMA SplitIs ==
    ASSUME NEW X, NEW s \in Seq(X), NEW separator
    PROVE  Len(SplitTop(s, separator)) \in Nat /\ DOMAIN SplitTop(s, separator) = 1 .. Len(SplitTop(s, separator))
<1> DEFINE d == Depths(s, Open, Close)
           cuts == {k \in 1 .. Len(s) : d[k] = 0 /\ s[k] = separator}
           ends == cuts \cup {Len(s) + 1}
           end(i) == IF i = 0 THEN 0 ELSE CHOOSE k \in ends : Cardinality({j \in ends : j <= k}) = i
           part(i) == SubSeq(s, end(i - 1) + 1, end(i) - 1)
           n == Cardinality(ends)
<1>1. SplitTop(s, separator) = [i \in 1 .. n |-> part(i)]
  BY DEF SplitTop
<1>2. n \in Nat
  <2>1. cuts \subseteq 1 .. Len(s)
    OBVIOUS
  <2>2. IsFiniteSet(1 .. Len(s))
    BY FS_Interval
  <2> HIDE DEF cuts
  <2>3. IsFiniteSet(cuts)
    BY <2>1, <2>2, FS_Subset
  <2>4. IsFiniteSet(ends)
    BY <2>3, FS_AddElement
  <2> HIDE DEF ends
  <2>5. QED
    BY <2>4, FS_CardinalityType
<1> HIDE DEF n, part, ends, cuts, d
<1>3. Len([i \in 1 .. n |-> part(i)]) = n
  BY <1>2
<1>4. QED
  BY <1>1, <1>2, <1>3

LEMMA SegmentsIs ==
    ASSUME NEW X, NEW s \in Seq(X)
    PROVE  Len(Segments(s)) \in Nat
<1> DEFINE parts == SplitTop(s, ",")
           own(k) == Has(parts[k], DeclKeywords)
           from(k) == Max({0} \cup {j \in 1 .. k : own(j)})
           whole(k) == IF own(k) \/ from(k) = 0 \/ parts[k] = <<>> THEN parts[k]
                       ELSE Prefix(parts[from(k)]) \o parts[k]
<1>1. Segments(s) = [k \in DOMAIN parts |-> whole(k)]
  BY DEF Segments
<1> HIDE DEF parts, whole
<1>2. Len(parts) \in Nat /\ DOMAIN parts = 1 .. Len(parts)
  BY SplitIs DEF parts
<1>3. QED
  BY <1>1, <1>2

-----------------------------------------------------------------------------
(* The inductive invariant. *)

\* The parser is in the text, what it returns it returns at its end, and every
\* module has its ports in order, the one being read, too.
ParserInv ==
    /\ TextOK
    /\ index \in Place
    /\ scope \in {"top", "module", "package", "interface", "returned"}
    /\ scope = "returned" => AtEof
    /\ IF scope = "module" THEN GoodModule(module) ELSE module = Idle
    /\ design \in Seq(ToSet(design))
    /\ \A m \in ToSet(design) : GoodModule(m)
    /\ \A n \in interfaces \cup typedefs : IsIdentifier(n)
    /\ \A r \in errors : r[2] \in Place

LEMMA ErrorsArePlaced ==
    ASSUME index \in Place, \A r \in errors : r[2] \in Place, NEW rules, Reports(rules)
    PROVE  \A r \in errors' : r[2] \in Place
<1>1. \A r \in rules \X {index} : r[2] = index
  OBVIOUS
<1>2. QED
  BY <1>1 DEF Reports

\* What the items have in common.
Item ==
    /\ scope # "returned"
    /\ Consumes
    /\ \E rules : Reports(rules)
    /\ UNCHANGED <<source, design>>

LEMMA ItemKeeps ==
    ASSUME ParserInv, Item,
           scope' \in {"top", "module", "package", "interface"},
           IF scope' = "module" THEN GoodModule(module') ELSE module' = Idle,
           \A n \in interfaces' \cup typedefs' : IsIdentifier(n)
    PROVE  ParserInv'
<1>1. tokens' = tokens /\ design' = design
  BY DEF Item, source
<1>2. TextOK' /\ Place' = Place
  BY <1>1 DEF ParserInv, TextOK, Place
<1>3. index' \in Place'
  BY <1>2 DEF ParserInv, Item, Consumes, Place, TextOK
<1>4. \A r \in errors' : r[2] \in Place'
  BY <1>2, ErrorsArePlaced DEF ParserInv, Item
<1>5. QED
  BY <1>1, <1>2, <1>3, <1>4 DEF ParserInv

\* An item that skips, wherever it is.
LEMMA SkipKeeps ==
    ASSUME ParserInv, Consumes, NEW goesOn, NEW rules, Skips(goesOn, rules), scope # "returned",
           UNCHANGED <<source, scope>>
    PROVE  ParserInv'
<1>1. Item
  BY DEF Item, Skips, Becomes
<1>2. QED
  BY <1>1, ItemKeeps DEF ParserInv, Skips, Becomes

\* An item of a module.
LEMMA BecomesKeeps ==
    ASSUME ParserInv, Consumes, NEW goesOn, NEW m, GoodModule(m), NEW rules, Becomes(goesOn, m, rules),
           scope = "module", UNCHANGED <<source, scope>>
    PROVE  ParserInv'
<1>1. Item
  BY DEF Item, Becomes
<1>2. QED
  BY <1>1, ItemKeeps DEF ParserInv, Becomes

LEMMA ReadsIs ==
    ASSUME ParserInv, NEW at, NEW first, ReadsItem(at, first)
    PROVE  scope = at /\ scope # "returned" /\ UNCHANGED <<source, scope>>
  BY DEF ParserInv, ReadsItem

-----------------------------------------------------------------------------
(* Each item keeps the invariant. *)

LEMMA AddToKeeps ==
    ASSUME NEW m, GoodModule(m), NEW segments, Len(segments) \in Nat,
           NEW kind \in {"port", "declaration", "parameter"}
    PROVE  GoodModule(AddTo(m, segments, kind).module)
<1> DEFINE r == [module |-> m, rules |-> {}]
<1>1. GoodModule(r.module)
  OBVIOUS
<1> HIDE DEF r
<1>2. GoodModule(AddAll(r, segments, kind).module)
  BY <1>1, AddAllKeeps
<1>3. QED
  BY <1>2 DEF AddTo, r

LEMMA NewModuleGood ==
    ASSUME NEW name, NEW from
    PROVE  GoodModule(NewModule(name, from))
<1> DEFINE m == NewModule(name, from)
<1>1. {"ports", "order"} \subseteq DOMAIN m /\ m.ports = <<>> /\ m.order = <<>>
  BY DEF NewModule
<1> HIDE DEF m
<1>2. QED
  BY <1>1 DEF GoodModule, Ordered, ToSet, IsInjective, m

LEMMA HeaderKeeps ==
    ASSUME ParserInv, OpenModule
    PROVE  ParserInv'
<1>1. Consumes
  BY HeaderConsumes DEF ParserInv
<1> DEFINE v == IF Token(index + 2) = "#" THEN Parenthesised(index + 3) ELSE Nothing(index + 2, FALSE)
           p == Parenthesised(v.next)
           e == Expect(p.next, ";", {";", "endmodule"})
           first == AddTo(NewModule(Token(index + 1), e.next), SplitTop(v.tokens, ","), "parameter")
           second == AddAll(first, Segments(p.tokens), "port")
<1>2. index + 1 \in Place
  BY TokenIs DEF ParserInv, OpenModule, Eof
<1>3. index + 2 \in Place
  <2>1. (index + 1) + 1 \in Place
    BY <1>2, IdentifierIs DEF OpenModule, ParserInv
  <2>2. QED
    BY <2>1 DEF Place, ParserInv, TextOK
<1>4. v.next \in Place /\ v.tokens \in Seq(Range(tokens))
  <2>1. CASE Token(index + 2) = "#"
    <3>1. index + 3 \in Place
      BY <1>3, <2>1, TokenIs DEF Eof, Place, TextOK, ParserInv
    <3>2. QED
      BY <2>1, <3>1, ParenthesisedEnds, ParenthesisedPiece DEF ParserInv
  <2>2. CASE Token(index + 2) # "#"
    BY <1>3, <2>2 DEF Nothing
  <2>3. QED
    BY <2>1, <2>2
<1>5. \E rules : Becomes(e.next, second.module, rules)
  BY Zenon DEF OpenModule
<1>6. scope = "top" /\ scope' = "module" /\ UNCHANGED source
  BY DEF OpenModule
<1> HIDE DEF v
<1>7. p.tokens \in Seq(Range(tokens))
  BY <1>4, ParenthesisedPiece DEF ParserInv
<1> HIDE DEF p, e
<1>8. GoodModule(first.module)
  BY <1>4, SplitIs, NewModuleGood, AddToKeeps
<1> HIDE DEF first
<1>9. GoodModule(second.module)
  BY <1>7, <1>8, SegmentsIs, AddAllKeeps
<1> HIDE DEF second
<1>10. module' = second.module /\ UNCHANGED <<design, interfaces, typedefs>> /\ \E rules : Reports(rules)
  BY <1>5 DEF Becomes
<1>11. Item
  BY <1>1, <1>6, <1>10 DEF Item
<1>12. QED
  BY <1>6, <1>9, <1>10, <1>11, ItemKeeps DEF ParserInv

LEMMA DeclareKeeps ==
    ASSUME ParserInv, Declare
    PROVE  ParserInv'
<1> DEFINE c == CollectUntilSemicolon(index)
           m == AddTo(module, Segments(c.tokens), "declaration").module
<1>1. Consumes
  BY DeclarationConsumes DEF ParserInv
<1>2. scope = "module" /\ UNCHANGED <<source, scope>>
  BY DEF Declare, ReadsItem
<1>3. \E rules : Becomes(c.next, m, rules)
  BY Zenon DEF Declare
<1>4. c.tokens \in Seq(Range(tokens))
  BY SemicolonAdvances DEF ParserInv
<1> HIDE DEF c
<1>5. GoodModule(m)
  BY <1>2, <1>4, SegmentsIs, AddToKeeps DEF ParserInv
<1> HIDE DEF m
<1>6. QED
  BY <1>1, <1>2, <1>3, <1>5, BecomesKeeps

LEMMA ParametersKeeps ==
    ASSUME ParserInv, Parameters
    PROVE  ParserInv'
<1> DEFINE c == CollectUntilSemicolon(index)
           m == AddTo(module, SplitTop(c.tokens, ","), "parameter").module
<1>1. Consumes
  BY DeclarationConsumes DEF ParserInv
<1>2. scope = "module" /\ UNCHANGED <<source, scope>>
  BY DEF Parameters, ReadsItem
<1>3. \E rules : Becomes(c.next, m, rules)
  BY Zenon DEF Parameters
<1>4. c.tokens \in Seq(Range(tokens))
  BY SemicolonAdvances DEF ParserInv
<1> HIDE DEF c
<1>5. GoodModule(m)
  BY <1>2, <1>4, SplitIs, AddToKeeps DEF ParserInv
<1> HIDE DEF m
<1>6. QED
  BY <1>1, <1>2, <1>3, <1>5, BecomesKeeps

\* Items that change nothing of a module but one of its lists or names.
LEMMA ExceptKeeps ==
    ASSUME NEW m, GoodModule(m), NEW f, f \notin {"ports", "order"}, NEW v
    PROVE  GoodModule([m EXCEPT ![f] = v])
<1> DEFINE n == [m EXCEPT ![f] = v]
<1>1. DOMAIN n = DOMAIN m /\ n.ports = m.ports /\ n.order = m.order
  BY DEF GoodModule
<1> HIDE DEF n
<1>2. GoodModule(n)
  BY <1>1, OthersKeep
<1>3. QED
  BY <1>2 DEF n

LEMMA GenerateKeeps ==
    ASSUME ParserInv, Generate
    PROVE  ParserInv'
<1>1. Consumes
  BY GenerateConsumes DEF ParserInv
<1>2. scope = "module" /\ UNCHANGED <<source, scope>> /\ GoodModule(module)
  BY DEF Generate, ReadsItem, ParserInv
<1>3. PICK goesOn, generates, assigns, instances, rules :
         Becomes(goesOn, [module EXCEPT !.generates = generates, !.assigns = assigns, !.instances = instances], rules)
  BY Zenon DEF Generate
<1> DEFINE n == [module EXCEPT !.generates = generates, !.assigns = assigns, !.instances = instances]
<1>4. DOMAIN n = DOMAIN module /\ n.ports = module.ports /\ n.order = module.order
  BY <1>2 DEF GoodModule
<1> HIDE DEF n
<1>5. GoodModule(n)
  BY <1>2, <1>4, OthersKeep
<1>6. Becomes(goesOn, n, rules)
  BY <1>3 DEF n
<1>7. QED
  BY <1>1, <1>2, <1>5, <1>6, BecomesKeeps

LEMMA OneFieldKeeps ==
    ASSUME ParserInv, Function \/ Task \/ ContinuousAssign \/ AlwaysBlock \/ UserType
    PROVE  ParserInv'
<1>1. Consumes
  BY SubroutineConsumes, AssignConsumes, BlockConsumes, UserTypeConsumes DEF ParserInv
<1>2. scope = "module" /\ UNCHANGED <<source, scope>> /\ GoodModule(module)
  BY DEF Function, Task, ContinuousAssign, AlwaysBlock, UserType, ReadsItem, ParserInv
<1>3. \E goesOn, field, value, rules :
         /\ field \notin {"ports", "order"}
         /\ Becomes(goesOn, [module EXCEPT ![field] = value], rules)
  <2>1. CASE Function
    <3>1. \E goesOn, value, rules : Becomes(goesOn, [module EXCEPT !.functions = value], rules)
      BY <2>1, Zenon DEF Function
    <3>2. QED
      BY <3>1
  <2>2. CASE Task
    <3>1. \E goesOn, value, rules : Becomes(goesOn, [module EXCEPT !.tasks = value], rules)
      BY <2>2, Zenon DEF Task
    <3>2. QED
      BY <3>1
  <2>3. CASE ContinuousAssign
    <3>1. \E goesOn, value, rules : Becomes(goesOn, [module EXCEPT !.assigns = value], rules)
      BY <2>3, Zenon DEF ContinuousAssign
    <3>2. QED
      BY <3>1
  <2>4. CASE AlwaysBlock
    <3>1. \E goesOn, value, rules : Becomes(goesOn, [module EXCEPT !.always = value], rules)
      BY <2>4, Zenon DEF AlwaysBlock
    <3>2. QED
      BY <3>1
  <2>5. CASE UserType
    <3>1. \E goesOn, value, rules : Becomes(goesOn, [module EXCEPT !.declarations = value], rules)
      BY <2>5, Zenon DEF UserType
    <3>2. QED
      BY <3>1
  <2>6. QED
    BY <2>1, <2>2, <2>3, <2>4, <2>5
<1>4. QED
  BY <1>1, <1>2, <1>3, ExceptKeeps, BecomesKeeps

LEMMA InstanceKeeps ==
    ASSUME ParserInv, ModuleInstance
    PROVE  ParserInv'
<1>1. Consumes
  BY InstanceConsumes DEF ParserInv
<1>2. scope = "module" /\ scope # "returned" /\ UNCHANGED <<source, scope>> /\ GoodModule(module)
  BY DEF ModuleInstance, ReadsItem, ParserInv
<1>3. \/ \E goesOn, value, rules : Becomes(goesOn, [module EXCEPT !.instances = value], rules)
      \/ \E goesOn, rules : Skips(goesOn, rules)
  BY Zenon DEF ModuleInstance
<1>4. \A value : GoodModule([module EXCEPT !.instances = value])
  BY <1>2, ExceptKeeps
<1>5. QED
  BY <1>1, <1>2, <1>3, <1>4, BecomesKeeps, SkipKeeps

\* Everything that is skipped.
LEMMA SkippedKeeps ==
    ASSUME ParserInv,
           \/ SkipModule \/ Initial \/ InterfaceInstance \/ OtherItem \/ SkipConstruct
           \/ Import \/ OtherAtTop \/ Modport
           \/ \E kind \in {"package", "interface"} : SkipDeclaration(kind) \/ PassOver(kind)
    PROVE  ParserInv'
<1>1. Consumes
  BY SkippingConsumes, BlockConsumes, InterfaceConsumes, ImportConsumes, ModportConsumes DEF ParserInv
<1>2. \E at, first : ReadsItem(at, first)
  BY Zenon DEF SkipModule, Initial, InterfaceInstance, OtherItem, SkipConstruct, Import, OtherAtTop, Modport,
     SkipDeclaration, PassOver
<1>3. scope # "returned" /\ UNCHANGED <<source, scope>>
  BY <1>2, ReadsIs
<1>4. \E goesOn, rules : Skips(goesOn, rules)
  BY Zenon DEF SkipModule, Initial, InterfaceInstance, OtherItem, SkipConstruct, Import, OtherAtTop, Modport,
     SkipDeclaration, PassOver
<1>5. QED
  BY <1>1, <1>3, <1>4, SkipKeeps

\* The last identifier of a sequence that has one is one.
LEMMA LastIdentifierIs ==
    ASSUME NEW X, NEW s \in Seq(X), LastIdentifier(s) # 0
    PROVE  IsIdentifier(s[LastIdentifier(s)])
<1> DEFINE P(k) == IsIdentifier(s[k])
           T == {Len(s) - k : k \in {i \in 1 .. Len(s) : P(i)}}
<1>1. PICK i \in 1 .. Len(s) : P(i)
  BY DEF LastIdentifier, LastWith
<1>2. T \in SUBSET Nat /\ T # {}
  BY <1>1
<1>3. PICK x \in T : \A y \in T : x <= y
  BY <1>2, LeastNat
<1>4. PICK k \in 1 .. Len(s) : P(k) /\ x = Len(s) - k
  BY <1>3
<1>5. \A j \in k + 1 .. Len(s) : ~P(j)
  <2>1. ASSUME NEW j \in k + 1 .. Len(s), P(j) PROVE FALSE
    <3>1. j \in 1 .. Len(s)
      BY <1>4
    <3>2. Len(s) - j \in T
      BY <2>1, <3>1
    <3>3. x <= Len(s) - j
      BY <1>3, <3>2
    <3>4. QED
      BY <1>4, <2>1, <3>1, <3>3
  <2>2. QED
    BY <2>1
<1>6. QED
  BY <1>1, <1>4, <1>5 DEF LastIdentifier, LastWith

LEMMA TypedefKeeps ==
    ASSUME ParserInv, Typedef
    PROVE  ParserInv'
<1> DEFINE c == CollectUntilSemicolon(index + 1)
<1>1. Consumes
  BY TypedefConsumes DEF ParserInv
<1>2. index + 1 \in Place
  BY TokenIs DEF Typedef, AtEof, ParserInv
<1>3. c.tokens \in Seq(Range(tokens))
  BY <1>2, SemicolonAdvances DEF ParserInv
<1>4. typedefs' = typedefs \cup {c.tokens[k] : k \in {LastIdentifier(c.tokens)} \ {0}}
  BY DEF Typedef
<1>5. /\ ~AtEof /\ \E rules : Reports(rules)
      /\ UNCHANGED <<source, scope, module, design, interfaces>>
  BY Zenon DEF Typedef
<1> HIDE DEF c
<1>6. \A n \in typedefs' : IsIdentifier(n)
  BY <1>3, <1>4, LastIdentifierIs DEF ParserInv
<1>7. Item
  BY <1>1, <1>5 DEF Item, ParserInv
<1>8. QED
  BY <1>5, <1>6, <1>7, ItemKeeps DEF ParserInv

LEMMA ScopeKeeps ==
    ASSUME ParserInv, NEW kind \in {"package", "interface"}, OpenScope(kind)
    PROVE  ParserInv'
<1>1. Consumes
  BY ScopeConsumes DEF ParserInv
<1>2. /\ scope = "top" /\ scope' = kind /\ \E rules : Reports(rules)
      /\ interfaces' = interfaces \cup {n \in {Token(index + 1)} : IsIdentifier(Token(index + 1)) /\ kind = "interface"}
      /\ UNCHANGED <<source, module, design, typedefs>>
  BY Zenon DEF OpenScope
<1>3. \A n \in interfaces' : IsIdentifier(n)
  BY <1>2 DEF ParserInv
<1>4. Item
  BY <1>1, <1>2 DEF Item
<1>5. QED
  BY <1>2, <1>3, <1>4, ItemKeeps DEF ParserInv

\* At the end of a module, a package or an interface: the text may end, too.
Leaves ==
    /\ scope \in {"module", "package", "interface"} /\ scope' = "top"
    /\ index' \in Place
    /\ IF AtEof THEN index' = index ELSE Consumes

LEMMA CloseScopeLeaves ==
    ASSUME TextOK, index \in Place, NEW kind \in {"package", "interface"}, CloseScope(kind)
    PROVE  Leaves
<1>1. scope = kind /\ scope' = "top"
  BY DEF CloseScope
<1>2. index' = IF AtEof THEN index
               ELSE IF Token(index + 1) = ":"
                    THEN IF IsIdentifier(Token(index + 2)) THEN index + 3 ELSE index + 2
                    ELSE index + 1
  BY DEF CloseScope, Skips, Becomes
<1>3. CASE AtEof
  BY <1>1, <1>2, <1>3 DEF Leaves
<1>4. CASE ~AtEof
  <2>1. index + 1 \in Place
    BY <1>4, TokenIs DEF AtEof
  <2>2. Token(index + 1) = ":" => (index + 1) + 1 \in Place
    BY <2>1, TokenIs DEF Eof
  <2>3. Token(index + 1) = ":" => index + 2 \in Place
    BY <2>2 DEF Place, TextOK
  <2>4. Token(index + 1) = ":" /\ IsIdentifier(Token(index + 2)) => (index + 2) + 1 \in Place
    BY <2>3, IdentifierIs
  <2>5. index' \in Place /\ index' > index
    BY <1>2, <1>4, <2>1, <2>3, <2>4 DEF Place, TextOK
  <2>6. QED
    BY <1>1, <1>4, <2>5 DEF Leaves, Consumes, Place, TextOK
<1>5. QED
  BY <1>3, <1>4

LEMMA CloseModuleLeaves ==
    ASSUME TextOK, index \in Place, CloseModule
    PROVE  Leaves
<1>1. ~AtEof => index + 1 \in Place
  BY TokenIs DEF AtEof
<1>2. index' = IF AtEof THEN index ELSE index + 1
  BY DEF CloseModule
<1>3. QED
  BY <1>1, <1>2 DEF CloseModule, Leaves, Consumes, Place, TextOK

LEMMA LeavesKeeps ==
    ASSUME ParserInv, Leaves, UNCHANGED source, module' = Idle, NEW rules, Reports(rules),
           UNCHANGED <<interfaces, typedefs>>,
           design' \in Seq(ToSet(design')), \A m \in ToSet(design') : GoodModule(m)
    PROVE  ParserInv'
<1>1. tokens' = tokens
  BY DEF source
<1>2. TextOK' /\ Place' = Place
  BY <1>1 DEF ParserInv, TextOK, Place
<1>3. \A r \in errors' : r[2] \in Place'
  BY <1>2, ErrorsArePlaced DEF ParserInv
<1>4. scope' = "top" /\ index' \in Place'
  BY <1>2 DEF Leaves
<1>5. QED
  BY <1>2, <1>3, <1>4 DEF ParserInv

LEMMA CloseModuleKeeps ==
    ASSUME ParserInv, CloseModule
    PROVE  ParserInv'
<1>1. Leaves
  BY CloseModuleLeaves DEF ParserInv
<1> DEFINE n == [module EXCEPT !.body = SubSeq(tokens, module.from, index - 1)]
<1>2. GoodModule(module)
  BY DEF CloseModule, ParserInv
<1>3. GoodModule(n)
  BY <1>2, ExceptKeeps
<1>4. /\ design' = Append(design, n) /\ module' = Idle /\ \E rules : Reports(rules)
      /\ UNCHANGED source /\ UNCHANGED <<interfaces, typedefs>>
  BY Zenon DEF CloseModule
<1> HIDE DEF n
<1> DEFINE D == ToSet(design)
<1>5. design \in Seq(D \cup {n})
  BY DEF ParserInv
<1>6. /\ design' \in Seq(D \cup {n}) /\ Len(design') = Len(design) + 1
      /\ \A i \in 1 .. Len(design) : design'[i] = design[i]
      /\ design'[Len(design) + 1] = n
  BY <1>4, <1>5, AppendProperties
<1>7. Len(design) \in Nat /\ DOMAIN design = 1 .. Len(design) /\ DOMAIN design' = 1 .. Len(design) + 1
  BY <1>5, <1>6
<1>8. ToSet(design') = {design'[i] : i \in DOMAIN design'}
  BY DEF ToSet
<1>9. \A i \in DOMAIN design' : design'[i] \in ToSet(design')
  BY <1>8
<1>10. design' \in Seq(ToSet(design'))
  BY <1>6, <1>9
<1>11. \A m \in D : GoodModule(m)
  BY DEF ParserInv
<1>12. \A m \in ToSet(design') : GoodModule(m)
  BY <1>3, <1>6, <1>8, <1>11
<1>13. QED
  BY <1>1, <1>4, <1>10, <1>12, LeavesKeeps

LEMMA CloseScopeKeeps ==
    ASSUME ParserInv, NEW kind \in {"package", "interface"}, CloseScope(kind)
    PROVE  ParserInv'
<1>1. Leaves
  BY CloseScopeLeaves DEF ParserInv
<1>2. /\ module' = module /\ design' = design /\ (\E rules : Reports(rules))
      /\ UNCHANGED source /\ UNCHANGED <<interfaces, typedefs>> /\ scope = kind
  BY Zenon DEF CloseScope, Skips, Becomes
<1>3. module = Idle
  BY <1>2 DEF ParserInv
<1>4. design' \in Seq(ToSet(design')) /\ \A m \in ToSet(design') : GoodModule(m)
  BY <1>2 DEF ParserInv
<1>5. QED
  BY <1>1, <1>2, <1>3, <1>4, LeavesKeeps

LEMMA ReturnKeeps ==
    ASSUME ParserInv, Return \/ UNCHANGED parsing
    PROVE  ParserInv'
<1>1. UNCHANGED <<tokens, index, module, design, interfaces, typedefs, errors>>
  BY DEF Return, parsing, source, reading
<1>2. (scope' = "returned" /\ scope = "top" /\ AtEof) \/ scope' = scope
  BY DEF Return, parsing, source, reading
<1>3. TextOK' /\ Place' = Place /\ (AtEof' <=> AtEof)
  BY <1>1 DEF ParserInv, TextOK, Place, AtEof, Token
<1>4. QED
  BY <1>1, <1>2, <1>3 DEF ParserInv

LEMMA ParserStep ==
    ASSUME ParserInv, [ParserNext]_parsing
    PROVE  ParserInv'
<1>1. CASE OpenModule BY <1>1, HeaderKeeps
<1>2. CASE Declare BY <1>2, DeclareKeeps
<1>3. CASE Parameters BY <1>3, ParametersKeeps
<1>4. CASE Generate BY <1>4, GenerateKeeps
<1>5. CASE Function \/ Task \/ ContinuousAssign \/ AlwaysBlock \/ UserType
  BY <1>5, OneFieldKeeps
<1>6. CASE ModuleInstance BY <1>6, InstanceKeeps
<1>7. CASE \/ SkipModule \/ Initial \/ InterfaceInstance \/ OtherItem \/ SkipConstruct
           \/ Import \/ OtherAtTop \/ Modport
           \/ \E kind \in {"package", "interface"} : SkipDeclaration(kind) \/ PassOver(kind)
  BY <1>7, SkippedKeeps
<1>8. CASE Typedef BY <1>8, TypedefKeeps
<1>9. CASE CloseModule BY <1>9, CloseModuleKeeps
<1>10. ASSUME NEW kind \in {"package", "interface"}, OpenScope(kind) \/ CloseScope(kind) PROVE ParserInv'
  BY <1>10, ScopeKeeps, CloseScopeKeeps
<1>11. CASE Return \/ UNCHANGED parsing BY <1>11, ReturnKeeps
<1>12. QED
  BY <1>1, <1>2, <1>3, <1>4, <1>5, <1>6, <1>7, <1>8, <1>9, <1>10, <1>11, Zenon DEF ParserNext

-----------------------------------------------------------------------------
(* The theorems. *)

\* A text that ends with <eof>, before anything is read.
LEMMA BeginHolds ==
    ASSUME tokens \in Seq(Range(tokens)), tokens # <<>>, Last(tokens) = Eof, Begin
    PROVE  ParserInv
<1>1. TextOK
  BY DEF TextOK, Last
<1>2. index \in Place
  BY <1>1 DEF Begin, Place, TextOK
<1>3. scope = "top" /\ module = Idle /\ design = <<>> /\ interfaces = {} /\ typedefs = {} /\ errors = {}
  BY DEF Begin
<1>4. ToSet(design) = {} /\ design \in Seq(ToSet(design))
  BY <1>3 DEF ToSet
<1>5. QED
  BY <1>1, <1>2, <1>3, <1>4 DEF ParserInv

THEOREM ParserInductive == ParserSpec => []ParserInv
<1>1. tokens \in Seq(Range(tokens)) /\ tokens # <<>> /\ Last(tokens) = Eof /\ Begin => ParserInv
  BY BeginHolds
<1>2. ParserInv /\ [ParserNext]_parsing => ParserInv'
  BY ParserStep
<1>3. QED
  BY <1>1, <1>2, PTL DEF ParserSpec, EndsWithEof

\* The parser stays in its text, reads a module exactly between its header and
\* its end, places every error in the text, and keeps the ports of all modules by
\* name and in order, whatever the text.
THEOREM ParserTypeCorrect == ParserSpec => []ParserTypeOK
<1>1. ParserInv => ParserTypeOK
  <2> SUFFICES ASSUME ParserInv PROVE ParserTypeOK
    OBVIOUS
  <2>1. DOMAIN tokens = Place
    BY DEF ParserInv, TextOK, Place
  <2>2. scope \in {"top", "module", "returned"} \cup DOMAIN EndOf
    BY DEF ParserInv, EndOf
  <2>3. GoodModule(module) => module # Idle
    BY DEF GoodModule, Idle
  <2>4. (scope = "module" <=> module # Idle) /\ (module # Idle => Ordered(module))
    BY <2>3 DEF ParserInv, GoodModule
  <2>5. \A m \in ToSet(design) : Ordered(m)
    BY DEF ParserInv, GoodModule
  <2>6. QED
    BY <2>1, <2>2, <2>4, <2>5 DEF ParserInv, ParserTypeOK
<1>2. QED
  BY <1>1, ParserInductive, PTL

\* What a step does with the place in the text.
LEMMA StepAdvances ==
    ASSUME ParserInv, [ParserNext]_parsing, reading' # reading
    PROVE  \/ Consumes /\ scope # "returned"
           \/ AtEof /\ index' = index /\ scope = "top" /\ scope' = "returned"
           \/ AtEof /\ index' = index /\ scope \notin {"top", "returned"} /\ scope' = "top"
<1> USE DEF ParserInv
<1>1. CASE OpenModule BY <1>1, HeaderConsumes DEF OpenModule
<1>2. CASE \/ Declare \/ Parameters \/ Generate \/ Function \/ Task \/ ContinuousAssign \/ AlwaysBlock
           \/ Initial \/ InterfaceInstance \/ UserType \/ ModuleInstance \/ Import \/ Modport
  <2>1. Consumes
    BY <1>2, DeclarationConsumes, GenerateConsumes, SubroutineConsumes, AssignConsumes, BlockConsumes,
       InterfaceConsumes, UserTypeConsumes, InstanceConsumes, ImportConsumes, ModportConsumes
  <2>2. \E at, first : ReadsItem(at, first)
    BY <1>2, Zenon DEF Declare, Parameters, Generate, Function, Task, ContinuousAssign, AlwaysBlock, Initial,
       InterfaceInstance, UserType, ModuleInstance, Import, Modport
  <2>3. QED
    BY <2>1, <2>2, ReadsIs
<1>3. CASE \/ SkipModule \/ SkipConstruct \/ OtherItem \/ OtherAtTop
           \/ \E kind \in {"package", "interface"} : SkipDeclaration(kind) \/ PassOver(kind)
  <2>1. Consumes
    BY <1>3, SkippingConsumes
  <2>2. \E at, first : ReadsItem(at, first)
    BY <1>3, Zenon DEF SkipModule, SkipConstruct, OtherItem, OtherAtTop, SkipDeclaration, PassOver
  <2>3. QED
    BY <2>1, <2>2, ReadsIs
<1>4. CASE Typedef
  <2>1. Consumes
    BY <1>4, TypedefConsumes
  <2>2. scope # "returned"
    BY <1>4 DEF Typedef
  <2>3. QED
    BY <2>1, <2>2
<1>5. ASSUME NEW kind \in {"package", "interface"}, OpenScope(kind)
      PROVE  Consumes /\ scope # "returned"
  BY <1>5, ScopeConsumes DEF OpenScope
<1>6. ASSUME Leaves
      PROVE  \/ Consumes /\ scope # "returned"
             \/ AtEof /\ index' = index /\ scope \notin {"top", "returned"} /\ scope' = "top"
  BY <1>6 DEF Leaves
<1>7. CASE CloseModule \/ \E kind \in {"package", "interface"} : CloseScope(kind)
  BY <1>6, <1>7, CloseModuleLeaves, CloseScopeLeaves
<1>8. CASE Return
  BY <1>8 DEF Return
<1>9. CASE UNCHANGED parsing
  BY <1>9 DEF parsing
<1>10. QED
  BY <1>1, <1>2, <1>3, <1>4, <1>5, <1>7, <1>8, <1>9, Zenon DEF ParserNext

\* Every turn of the parser's loops consumes a token, except that at the end of
\* the text it leaves what it is in.
THEOREM ItemsAdvance == ParserSpec => EveryItemAdvances
<1>1. ParserInv /\ [ParserNext]_parsing =>
          [\/ index' \in index + 1 .. Len(tokens)
           \/ AtEof /\ index' = index /\ scope' = IF scope = "top" THEN "returned" ELSE "top"]_reading
  BY StepAdvances DEF Consumes
<1>2. QED
  BY <1>1, ParserInductive, PTL DEF ParserSpec, EndsWithEof, EveryItemAdvances

\* How much is left to do: two for a token, and one for each loop to leave.
Left == 2 * (Len(tokens) - index)
        + (IF scope = "returned" THEN 0 ELSE IF scope = "top" THEN 1 ELSE 2)

\* Every turn leaves less to do, and that is a natural number: the parser returns
\* from every text, after at most two turns for each of its tokens.
THEOREM Terminates == ParserSpec => [](Left \in Nat) /\ [][Left' < Left]_reading
<1>1. ParserInv => Left \in Nat
  BY DEF ParserInv, TextOK, Place, Left
<1>2. ASSUME ParserInv, [ParserNext]_parsing, reading' # reading
      PROVE  Left' < Left
  <2>1. tokens' = tokens
    BY <1>2, Zenon DEF ParserNext, OpenModule, SkipModule, CloseModule, Declare, Parameters, Generate, Function, Task,
       ContinuousAssign, AlwaysBlock, Initial, InterfaceInstance, UserType, ModuleInstance, OtherItem,
       SkipConstruct, Typedef, Import, OtherAtTop, Modport, OpenScope, CloseScope, SkipDeclaration,
       PassOver, Return, ReadsItem, source, parsing
  <2>2. Len(tokens) \in Nat /\ index \in 1 .. Len(tokens)
    BY <1>2 DEF ParserInv, TextOK, Place
  <2>3. QED
    BY <1>2, <2>1, <2>2, StepAdvances DEF Consumes, Left
<1>3. ParserInv /\ [ParserNext]_parsing => [Left' < Left]_reading
  BY <1>2
<1>4. QED
  BY <1>1, <1>3, ParserInductive, PTL DEF ParserSpec, EndsWithEof

-----------------------------------------------------------------------------
(* How deep a sequence is nested. *)

Ups(s, values) == {i \in 1 .. Len(s) : s[i] \in values}

\* The recursive definition of Depths has what it says.
LEMMA DepthsFollow ==
    ASSUME NEW X, NEW s \in Seq(X), NEW opens, NEW closes
    PROVE  \E g : /\ Follows(g, Len(s), Ups(s, opens), Ups(s, closes))
                  /\ \A k \in 1 .. Len(s) : Depths(s, opens, closes)[k] = g[k]
<1> DEFINE m == Len(s)
           up == Ups(s, opens)
           down == Ups(s, closes)
           step(n, t) == IF t \in opens THEN n + 1 ELSE IF t \in closes /\ n > 0 THEN n - 1 ELSE n
           Body(g) == [k \in 0 .. Len(s) |-> IF k = 0 THEN 0 ELSE step(g[k - 1], s[k])]
           L == CHOOSE g : g = Body(g)
<1>0. m \in Nat
  OBVIOUS
<1>1. PICK f : Follows(f, m, up, down)
  <2> HIDE DEF m, up, down
  <2>1. QED
    BY <1>0, SomeFollows
<1>2. \A g : \A i \in 1 .. m : step(g[i - 1], s[i]) = After(g, i, up, down)
  BY DEF After, Ups
<1>3. f = Body(f)
  <2>1. f = [i \in 0 .. m |-> f[i]]
    BY <1>1 DEF Follows
  <2>2. \A i \in 0 .. m : f[i] = Body(f)[i]
    BY <1>1, <1>2 DEF Follows
  <2>3. QED
    BY <2>1, <2>2
<1>4. L = Body(L)
  BY <1>3
<1>5. Depths(s, opens, closes) = [k \in DOMAIN s |-> L[k]]
  BY DEF Depths
<1> HIDE DEF L
<1>6. DOMAIN L = 0 .. m /\ L[0] = 0
  BY <1>4
<1>7. \A i \in 1 .. m : L[i] = After(L, i, up, down)
  <2>1. \A i \in 1 .. m : L[i] = Body(L)[i]
    BY <1>4
  <2>2. \A i \in 1 .. m : i \in 0 .. m /\ i # 0
    BY <1>0
  <2>3. \A i \in 1 .. m : Body(L)[i] = step(L[i - 1], s[i])
    BY <2>2
  <2>4. QED
    BY <1>2, <2>1, <2>3
<1> HIDE DEF up, down
<1> DEFINE T == {i \in Nat : i <= m => L[i] \in Nat}
<1>8. 0 \in T
  BY <1>6
<1>9. ASSUME NEW n \in Nat, n \in T PROVE n + 1 \in T
  <2>1. SUFFICES ASSUME n + 1 <= m PROVE L[n + 1] \in Nat
    OBVIOUS
  <2>2. L[n] \in Nat /\ n + 1 \in 1 .. m /\ n + 1 - 1 = n
    BY <1>9, <2>1
  <2>3. QED
    BY <1>7, <2>2 DEF After
<1> HIDE DEF T
<1>10. Nat \subseteq T
  BY <1>8, <1>9, Induction
<1>11. \A i \in 0 .. m : L[i] \in Nat
  BY <1>10 DEF T
<1>12. L \in [0 .. m -> Nat]
  <2>1. L = [i \in 0 .. m |-> L[i]]
    BY <1>4, <1>6
  <2>2. QED
    BY <1>11, <2>1
<1>13. Follows(L, m, up, down)
  BY <1>6, <1>7, <1>12 DEF Follows
<1>14. \A k \in 1 .. m : Depths(s, opens, closes)[k] = L[k]
  BY <1>5
<1>15. QED
  BY <1>13, <1>14 DEF up, down

\* What up2 is behind the first o places of up.
Behind(up2, up, o, n) == \A i \in 1 .. n : i \in up2 <=> o + i \in up

\* Behind a place where nothing is open the nesting starts anew.
LEMMA FollowsAnew ==
    ASSUME NEW m \in Nat, NEW n \in Nat, NEW o \in Nat,
           NEW g, NEW up, NEW down, NEW h, NEW up2, NEW down2,
           o + n <= m, Follows(g, m, up, down), Follows(h, n, up2, down2), g[o] = 0,
           Behind(up2, up, o, n), Behind(down2, down, o, n)
    PROVE  \A i \in 0 .. n : h[i] = g[o + i]
<1> DEFINE T == {i \in Nat : i <= n => h[i] = g[o + i]}
<1>1. 0 \in T
  BY DEF Follows
<1>2. ASSUME NEW i \in Nat, i \in T PROVE i + 1 \in T
  <2>1. SUFFICES ASSUME i + 1 <= n PROVE h[i + 1] = g[o + (i + 1)]
    OBVIOUS
  <2>2. /\ h[i] = g[o + i] /\ i + 1 \in 1 .. n /\ i + 1 - 1 = i
        /\ o + (i + 1) \in 1 .. m /\ o + (i + 1) - 1 = o + i
    BY <1>2, <2>1
  <2>3. h[i + 1] = After(h, i + 1, up2, down2) /\ g[o + (i + 1)] = After(g, o + (i + 1), up, down)
    BY <2>2 DEF Follows
  <2>4. (i + 1 \in up2 <=> o + (i + 1) \in up) /\ (i + 1 \in down2 <=> o + (i + 1) \in down)
    BY <2>2 DEF Behind
  <2>5. QED
    BY <2>2, <2>3, <2>4 DEF After
<1> HIDE DEF T
<1>3. Nat \subseteq T
  BY <1>1, <1>2, Induction
<1>4. QED
  BY <1>3 DEF T

\* s[i] opens what is still open at k, whatever is before s[i].
OpenSince(X, s, i, k, opens, closes) ==
    /\ s[i] \in opens
    /\ \A t \in Seq(X) :
          (Len(t) = Len(s) - i + 1 /\ \A j \in 1 .. Len(t) : t[j] = s[i + j - 1])
             => \A j \in 1 .. k - i + 1 : Depths(t, opens, closes)[j] > 0

\* Where something is open, a token before opens what is not closed since.
LEMMA OpenedBefore ==
    ASSUME NEW X, NEW s \in Seq(X), NEW opens, NEW closes,
           NEW k \in 1 .. Len(s), Depths(s, opens, closes)[k] # 0
    PROVE  \E i \in 1 .. k : OpenSince(X, s, i, k, opens, closes)
<1> DEFINE m == Len(s)
           up == Ups(s, opens)
           down == Ups(s, closes)
<1>1. PICK g : Follows(g, m, up, down) /\ \A n \in 1 .. m : Depths(s, opens, closes)[n] = g[n]
  BY DepthsFollow
<1>2. m \in Nat /\ k \in 1 .. m
  OBVIOUS
<1> DEFINE T == {k - i : i \in {n \in 0 .. k : g[n] = 0}}
<1>3. T \in SUBSET Nat /\ T # {}
  BY <1>1, <1>2 DEF Follows
<1>4. PICK x \in T : \A y \in T : x <= y
  BY <1>3, LeastNat
<1>5. PICK o \in 0 .. k : g[o] = 0 /\ x = k - o
  BY <1>4
<1>6. \A n \in o + 1 .. k : g[n] # 0
  <2>1. ASSUME NEW n \in o + 1 .. k, g[n] = 0 PROVE FALSE
    <3>1. n \in 0 .. k
      BY <1>5
    <3>2. k - n \in T
      BY <2>1, <3>1
    <3>3. x <= k - n
      BY <1>4, <3>2
    <3>4. QED
      BY <1>2, <1>5, <2>1, <3>1, <3>3
  <2>2. QED
    BY <2>1
<1> HIDE DEF T, up, down
<1>7. o # k
  BY <1>1, <1>2, <1>5
<1>8. o + 1 \in 1 .. k /\ o + 1 \in o + 1 .. k /\ o + 1 \in 1 .. m /\ o + 1 - 1 = o
  BY <1>2, <1>5, <1>7
<1>9. g[o + 1] # 0 /\ g[o + 1] = After(g, o + 1, up, down)
  BY <1>1, <1>6, <1>8 DEF Follows
<1>10. o + 1 \in up
  BY <1>5, <1>8, <1>9 DEF After
<1>11. s[o + 1] \in opens
  BY <1>8, <1>10 DEF up, Ups
<1>12. ASSUME NEW t \in Seq(X), Len(t) = m - (o + 1) + 1,
              \A j \in 1 .. Len(t) : t[j] = s[o + 1 + j - 1],
              NEW j \in 1 .. k - (o + 1) + 1
       PROVE  Depths(t, opens, closes)[j] > 0
  <2> DEFINE n == Len(t)
             up2 == Ups(t, opens)
             down2 == Ups(t, closes)
  <2>1. PICK h : Follows(h, n, up2, down2) /\ \A i \in 1 .. n : Depths(t, opens, closes)[i] = h[i]
    BY DepthsFollow
  <2>2. n \in Nat /\ o + n = m /\ j \in 1 .. n /\ o + j \in o + 1 .. k /\ o + j \in 0 .. m
    BY <1>2, <1>8, <1>12
  <2>3. ASSUME NEW i \in 1 .. n
        PROVE  (i \in up2 <=> o + i \in up) /\ (i \in down2 <=> o + i \in down)
    <3>1. t[i] = s[o + i] /\ o + i \in 1 .. m
      BY <1>2, <1>5, <1>12, <2>2
    <3>2. QED
      BY <3>1 DEF up, down, Ups
  <2> HIDE DEF n, up2, down2, m
  <2>4. o + n <= m /\ o \in Nat
    BY <1>2, <1>5, <2>2
  <2>5. \A i \in 0 .. n : h[i] = g[o + i]
    <3>1. Follows(g, m, up, down) /\ Follows(h, n, up2, down2) /\ g[o] = 0 /\ m \in Nat /\ n \in Nat
      BY <1>1, <1>2, <1>5, <2>1, <2>2
    <3>2. Behind(up2, up, o, n) /\ Behind(down2, down, o, n)
      BY <2>3 DEF Behind
    <3>3. QED
      BY <2>4, <3>1, <3>2, FollowsAnew
  <2>6. h[j] = g[o + j]
    BY <2>2, <2>5
  <2>7. g[o + j] # 0 /\ g[o + j] \in Nat
    BY <1>1, <1>6, <2>2 DEF Follows
  <2>8. QED
    BY <2>1, <2>2, <2>6, <2>7
<1>13. OpenSince(X, s, o + 1, k, opens, closes)
  BY <1>11, <1>12 DEF OpenSince
<1>14. QED
  BY <1>8, <1>13

\* The token after which nothing is open any more closes something.
LEMMA ClosedBy ==
    ASSUME NEW X, NEW s \in Seq(X), NEW opens, NEW closes, NEW k \in 1 .. Len(s),
           Depths(s, opens, closes)[k] = 0,
           k > 1 => Depths(s, opens, closes)[k - 1] # 0, k = 1 => s[1] \in opens
    PROVE  k > 1 /\ s[k] \in closes
<1> DEFINE m == Len(s)
           up == Ups(s, opens)
           down == Ups(s, closes)
<1>1. PICK g : Follows(g, m, up, down) /\ \A n \in 1 .. m : Depths(s, opens, closes)[n] = g[n]
  BY DepthsFollow
<1>2. g[k] = After(g, k, up, down) /\ g[k] = 0 /\ g[k - 1] \in Nat
  BY <1>1 DEF Follows
<1>3. k = 1 => k \in up
  BY DEF Ups
<1> HIDE DEF up, down
<1>4. k > 1
  BY <1>1, <1>2, <1>3 DEF After, Follows
<1>5. g[k - 1] # 0
  BY <1>1, <1>4
<1>6. k \in down
  BY <1>2, <1>5 DEF After
<1>7. QED
  BY <1>4, <1>6 DEF down, Ups

-----------------------------------------------------------------------------
(* No item runs over the end of its module unnoticed. *)

\* What the token at i opens is still open at k.
StillOpen(i, k, opens, closes) ==
    /\ tokens[i] \in opens
    /\ \A j \in 1 .. k - i + 1 : Depths(Rest(i), opens, closes)[j] > 0

\* The if or case at i is not over at k: since then every end outside of blocks
\* and cases was a semicolon before an else.
Unfinished(i, k) ==
    LET s      == Rest(i)
        begins == Depths(s, {"begin"}, {"end"})
        cases  == Depths(s, Case, {"endcase"})
    IN  /\ tokens[i] \in Case \cup {"if"}
        /\ \A j \in 1 .. k - i :
               begins[j] = 0 /\ cases[j] = 0 =>
                   s[j] \notin {"end", "endcase"} /\ (s[j] = ";" => Token(i + j) = "else")

\* What began at i includes the token at k: a bracket, a block, a construct with
\* a keyword of its own at the end, a conditional without a block, an event.
Surrounds(i, k) ==
    \/ StillOpen(i, k, Open, Close) \/ StillOpen(i, k, {"("}, {")"})
    \/ StillOpen(i, k, {"begin"}, {"end"})
    \/ \E word \in DOMAIN EndKeyword : StillOpen(i, k, {word}, {EndKeyword[word]})
    \/ Unfinished(i, k)
    \/ tokens[i] = "@" /\ k = i + 1

\* From a until before b there is no end of a module but within something else.
Passes(a, b) ==
    \A k \in a .. b - 1 : tokens[k] = "endmodule" => \E i \in a .. k - 1 : Surrounds(i, k)

LEMMA PassesJoin ==
    ASSUME NEW a \in Nat, NEW b \in Nat, NEW c \in Nat, a <= b, Passes(a, b), Passes(b, c)
    PROVE  Passes(a, c)
<1> SUFFICES ASSUME NEW k \in a .. c - 1, tokens[k] = "endmodule"
             PROVE  \E i \in a .. k - 1 : Surrounds(i, k)
  BY DEF Passes
<1>1. CASE k < b
  <2>1. k \in a .. b - 1
    BY <1>1
  <2>2. QED
    BY <2>1 DEF Passes
<1>2. CASE ~(k < b)
  <2>1. k \in b .. c - 1
    BY <1>2
  <2>2. PICK i \in b .. k - 1 : Surrounds(i, k)
    BY <2>1 DEF Passes
  <2>3. i \in a .. k - 1
    BY <2>1
  <2>4. QED
    BY <2>2, <2>3
<1>3. QED
  BY <1>1, <1>2

LEMMA PassesNothing ==
    ASSUME NEW a \in Nat PROVE Passes(a, a)
<1>1. a .. a - 1 = {}
  OBVIOUS
<1>2. QED
  BY <1>1 DEF Passes

LEMMA PassesToken ==
    ASSUME NEW a \in Nat, tokens[a] # "endmodule" PROVE Passes(a, a + 1)
<1>1. \A k \in a .. a + 1 - 1 : k = a
  OBVIOUS
<1>2. QED
  BY <1>1 DEF Passes

\* What is left of the text, and what is left behind it.
LEMMA RestsIs ==
    ASSUME TextOK, NEW k \in Place, NEW i \in 1 .. Len(tokens) - k
    PROVE  /\ Rest(k) \in Seq(Range(tokens)) /\ Rest(k + i - 1) \in Seq(Range(tokens))
           /\ Len(Rest(k)) = Len(tokens) - k /\ Len(Rest(k + i - 1)) = Len(Rest(k)) - i + 1
           /\ Rest(k)[i] = tokens[k + i - 1]
           /\ \A j \in 1 .. Len(Rest(k + i - 1)) : Rest(k + i - 1)[j] = Rest(k)[i + j - 1]
<1>1. \A n \in Place : Rest(n) \in Seq(Range(tokens))
  <2>1. ASSUME NEW n \in Place PROVE Rest(n) \in Seq(Range(tokens))
    <3>1. n \in 1 .. Len(tokens) + 1 /\ Len(tokens) - 1 \in Int /\ Len(tokens) - 1 <= Len(tokens)
      BY DEF TextOK, Place
    <3>2. QED
      BY <3>1, PieceIs DEF Rest
  <2>2. QED
    BY <2>1
<1>2. k + i - 1 \in Place /\ k \in Nat /\ i \in Nat /\ Len(tokens) \in Nat
  BY DEF TextOK, Place
<1>3. /\ Len(Rest(k)) = Len(tokens) - k
      /\ \A j \in 1 .. Len(tokens) - k : Rest(k)[j] = tokens[k + j - 1]
      /\ Len(Rest(k + i - 1)) = Len(tokens) - (k + i - 1)
      /\ \A j \in 1 .. Len(tokens) - (k + i - 1) : Rest(k + i - 1)[j] = tokens[k + i - 1 + j - 1]
  BY <1>2, RestIs
<1>4. ASSUME NEW j \in 1 .. Len(Rest(k + i - 1)) PROVE Rest(k + i - 1)[j] = Rest(k)[i + j - 1]
  <2>1. j \in 1 .. Len(tokens) - (k + i - 1) /\ i + j - 1 \in 1 .. Len(tokens) - k
    BY <1>2, <1>3, <1>4
  <2>2. k + i - 1 + j - 1 = k + (i + j - 1) - 1
    BY <1>2, <2>1
  <2>3. QED
    BY <1>3, <2>1, <2>2
<1>5. Len(Rest(k + i - 1)) = Len(Rest(k)) - i + 1
  BY <1>2, <1>3
<1>6. QED
  BY <1>1, <1>2, <1>3, <1>4, <1>5

\* Where the rest of the text is nested, something is still open.
LEMMA NestedIsOpen ==
    ASSUME TextOK, NEW k \in Place, NEW opens, NEW closes,
           NEW n \in 1 .. Len(tokens) - k, Depths(Rest(k), opens, closes)[n] # 0
    PROVE  \E i \in k .. k + n - 1 : StillOpen(i, k + n - 1, opens, closes)
<1> DEFINE s == Rest(k)
           X == Range(tokens)
<1>1. s \in Seq(X) /\ n \in 1 .. Len(s) /\ k \in Nat /\ Len(s) = Len(tokens) - k
  BY RestsIs DEF Place, TextOK
<1>2. Depths(s, opens, closes)[n] # 0
  OBVIOUS
<1> HIDE DEF s, X
<1>3. PICK i \in 1 .. n : OpenSince(X, s, i, n, opens, closes)
  BY <1>1, <1>2, OpenedBefore
<1>4. i \in 1 .. Len(tokens) - k
  BY <1>1
<1>5. /\ Rest(k + i - 1) \in Seq(X) /\ Len(Rest(k + i - 1)) = Len(s) - i + 1
      /\ s[i] = tokens[k + i - 1]
      /\ \A j \in 1 .. Len(Rest(k + i - 1)) : Rest(k + i - 1)[j] = s[i + j - 1]
  BY <1>4, RestsIs DEF s, X
<1>6. \A j \in 1 .. n - i + 1 : Depths(Rest(k + i - 1), opens, closes)[j] > 0
  BY <1>3, <1>5 DEF OpenSince
<1>7. k + i - 1 \in k .. k + n - 1 /\ k + n - 1 - (k + i - 1) + 1 = n - i + 1
  BY <1>1
<1>8. StillOpen(k + i - 1, k + n - 1, opens, closes)
  <2>1. tokens[k + i - 1] \in opens
    BY <1>3, <1>5 DEF OpenSince
  <2> DEFINE r == k + i - 1
             e == k + n - 1
  <2>2. e - r + 1 = n - i + 1
    BY <1>1
  <2>3. \A j \in 1 .. n - i + 1 : Depths(Rest(r), opens, closes)[j] > 0
    BY <1>6
  <2>4. tokens[r] \in opens
    BY <2>1
  <2> HIDE DEF r, e
  <2>5. StillOpen(r, e, opens, closes)
    BY <2>2, <2>3, <2>4 DEF StillOpen
  <2>6. QED
    BY <2>5 DEF r, e
<1>9. QED
  BY <1>7, <1>8

\* Nothing of a set is before its first place.
LEMMA NothingBefore ==
    ASSUME NEW from \in Nat, NEW to \in Nat, from <= to + 1, NEW S \in SUBSET (from .. to)
    PROVE  \A j \in S : FirstIn(S, to + 1) <= j
<1>1. SUFFICES ASSUME S # {} PROVE \A j \in S : FirstIn(S, to + 1) <= j
  OBVIOUS
<1>2. \E x \in S : \A y \in S : x <= y
  BY <1>1, LeastNat
<1>3. QED
  BY <1>1, <1>2 DEF FirstIn

LEMMA SemicolonPasses ==
    ASSUME TextOK, NEW k \in Place
    PROVE  Passes(k, CollectUntilSemicolon(k).next)
<1> DEFINE s == Rest(k)
           d == Depths(s, Open, Close)
           S == {j \in 1 .. Len(s) : d[j] = 0 /\ s[j] \in {";", "end", "endmodule"}}
           end == FirstIn(S, Len(s) + 1)
           semicolon == end <= Len(s) /\ s[end] = ";"
           next1 == CollectUntilSemicolon(k).next
<1>1. /\ Len(s) \in Nat /\ Len(s) = Len(tokens) - k /\ k \in Nat
      /\ \A j \in 1 .. Len(s) : s[j] = tokens[k + j - 1]
  BY RestIs DEF TextOK, Place
<1>2. next1 = IF semicolon THEN k + end ELSE k + end - 1
  BY DEF CollectUntilSemicolon, FirstWith, Collected
<1>3. \A n \in 1 .. Len(tokens) - k : d[n] # 0 =>
          \E i \in k .. k + n - 1 : StillOpen(i, k + n - 1, Open, Close)
  BY NestedIsOpen
<1> HIDE DEF s, d, next1
<1>4. end \in 1 .. Len(s) + 1 /\ \A j \in S : end <= j
  <2>1. S \in SUBSET (1 .. Len(s))
    OBVIOUS
  <2>2. 1 \in Nat /\ 1 <= Len(s) + 1
    BY <1>1
  <2> HIDE DEF S
  <2>3. QED
    BY <1>1, <2>1, <2>2, FirstInRange, NothingBefore
<1>s. semicolon => end <= Len(s) /\ s[end] = ";"
  OBVIOUS
<1>t. \A j \in 1 .. Len(s) : d[j] = 0 /\ s[j] = "endmodule" => j \in S
  OBVIOUS
<1> HIDE DEF end, semicolon, S
<1>5. SUFFICES ASSUME NEW m \in k .. next1 - 1, tokens[m] = "endmodule"
               PROVE  \E i \in k .. m - 1 : Surrounds(i, m)
  BY DEF Passes, next1
<1> DEFINE n == m - k + 1
<1>6. n \in 1 .. Len(s) /\ n <= end /\ m = k + n - 1 /\ (n = end => semicolon)
  <2>1. CASE semicolon
    <3>1. next1 = k + end
      BY <1>2, <2>1
    <3>2. end <= Len(s)
      BY <1>s, <2>1
    <3>3. end \in Nat /\ k \in Nat /\ Len(s) \in Nat
      BY <1>1, <1>4
    <3>4. QED
      BY <2>1, <3>1, <3>2, <3>3
  <2>2. CASE ~semicolon
    BY <1>1, <1>2, <1>4, <1>5, <2>2
  <2>3. QED
    BY <2>1, <2>2
<1> HIDE DEF n
<1>7. s[n] = "endmodule"
  BY <1>1, <1>5, <1>6
<1>8. n # end
  BY <1>6, <1>7, <1>s
<1>9. d[n] # 0
  BY <1>4, <1>6, <1>7, <1>8, <1>t
<1>10. PICK i \in k .. m : StillOpen(i, m, Open, Close)
  BY <1>1, <1>3, <1>6, <1>7, <1>9
<1>11. tokens[i] # "endmodule"
  BY <1>10 DEF StillOpen, Open
<1>12. i \in k .. m - 1
  BY <1>1, <1>5, <1>10, <1>11
<1>13. QED
  BY <1>10, <1>12 DEF Surrounds

\* A group from k to where nothing of it is open any more.
LEMMA GroupPasses ==
    ASSUME TextOK, NEW k \in Place, NEW opens, NEW closes, k < Len(tokens), tokens[k] \in opens,
           "endmodule" \notin opens \cup closes,
           NEW d, d = Depths(Rest(k), opens, closes),
           NEW j, j = FirstIn({i \in 1 .. Len(tokens) - k : d[i] = 0}, Len(tokens) - k + 1),
           NEW b \in Nat, b <= k + j, b <= Len(tokens)
    PROVE  \A m \in k .. b - 1 : tokens[m] = "endmodule" => m > k /\ StillOpen(k, m, opens, closes)
<1> DEFINE s == Rest(k)
           S == {i \in 1 .. Len(tokens) - k : d[i] = 0}
<1>1. /\ Len(s) \in Nat /\ Len(s) = Len(tokens) - k /\ k \in Nat /\ k + 1 - 1 = k
      /\ s \in Seq(Range(tokens))
      /\ \A i \in 1 .. Len(s) : s[i] = tokens[k + i - 1]
  <2>1. 1 \in 1 .. Len(tokens) - k
    BY DEF TextOK, Place
  <2>2. s \in Seq(Range(tokens))
    BY <2>1, RestsIs
  <2>3. Len(s) = Len(tokens) - k /\ \A i \in 1 .. Len(s) : s[i] = tokens[k + i - 1]
    BY RestIs
  <2>4. Len(s) \in Nat /\ k \in Nat /\ k + 1 - 1 = k
    BY <2>3 DEF TextOK, Place
  <2>5. QED
    BY <2>2, <2>3, <2>4
<1> HIDE DEF s
<1>r. d = Depths(s, opens, closes)
  BY DEF s
<1>2. j \in 1 .. Len(s) + 1 /\ \A i \in S : j <= i
  <2>1. S \in SUBSET (1 .. Len(s))
    BY <1>1
  <2>2. j = FirstIn(S, Len(s) + 1)
    BY <1>1
  <2>3. 1 \in Nat /\ 1 <= Len(s) + 1 /\ Len(s) \in Nat
    BY <1>1
  <2> HIDE DEF S
  <2>4. FirstIn(S, Len(s) + 1) \in 1 .. Len(s) + 1
    BY <2>1, <2>3, FirstInRange
  <2>5. \A i \in S : FirstIn(S, Len(s) + 1) <= i
    BY <2>1, <2>3, NothingBefore
  <2>6. QED
    BY <2>2, <2>4, <2>5
<1>3. ASSUME NEW i \in 1 .. Len(s), i < j PROVE d[i] # 0
  <2>1. d[i] = 0 => i \in S
    BY <1>1
  <2>2. j \in Nat /\ i \in Nat
    BY <1>1, <1>2
  <2> HIDE DEF S
  <2>3. \A x \in S : j <= x
    BY <1>2
  <2>4. ~(j <= i)
    BY <1>3, <2>2
  <2>5. QED
    BY <2>1, <2>3, <2>4
<1>4. \A i \in 1 .. Len(s) : i < j => d[i] > 0
  <2>1. PICK g : Follows(g, Len(s), Ups(s, opens), Ups(s, closes)) /\ \A i \in 1 .. Len(s) : d[i] = g[i]
    BY <1>1, <1>r, DepthsFollow
  <2>2. \A i \in 1 .. Len(s) : i \in 0 .. Len(s)
    BY <1>1
  <2>3. \A i \in 1 .. Len(s) : d[i] \in Nat
    BY <2>1, <2>2 DEF Follows
  <2>4. QED
    BY <1>3, <2>3
<1> SUFFICES ASSUME NEW m \in k .. b - 1, tokens[m] = "endmodule"
             PROVE  m > k /\ StillOpen(k, m, opens, closes)
  OBVIOUS
<1> DEFINE n == m - k + 1
<1>5. n \in 1 .. Len(s) /\ n <= j /\ m = k + n - 1
  BY <1>1, <1>2 DEF TextOK
<1> HIDE DEF n, S
<1>6. s[n] = "endmodule"
  BY <1>1, <1>5
<1>7. n # 1
  BY <1>1, <1>5, <1>6
<1>8. n # j
  <2>1. SUFFICES ASSUME n = j PROVE FALSE
    OBVIOUS
  <2>2. d[n] = 0
    <3>1. j <= Len(s)
      BY <1>5, <2>1
    <3>2. j \in S
      <4>1. S \in SUBSET (1 .. Len(s)) /\ 1 \in Nat /\ 1 <= Len(s) + 1 /\ j = FirstIn(S, Len(s) + 1)
        BY <1>1 DEF S
      <4>2. QED
        BY <1>1, <3>1, <4>1, FirstInRange
    <3>3. QED
      BY <2>1, <3>2 DEF S
  <2>3. n - 1 \in 1 .. Len(s) /\ n - 1 < j
    BY <1>5, <1>7, <2>1
  <2>4. d[n - 1] # 0
    BY <1>3, <2>3
  <2>5. s[n] \in closes
    BY <1>1, <1>5, <1>7, <1>r, <2>2, <2>4, ClosedBy
  <2>6. QED
    BY <1>6, <2>5
<1>9. \A i \in 1 .. m - k + 1 : i \in 1 .. Len(s) /\ i < j
  BY <1>1, <1>2, <1>5, <1>8
<1>10. \A i \in 1 .. m - k + 1 : Depths(Rest(k), opens, closes)[i] > 0
  BY <1>4, <1>9
<1>11. m > k
  BY <1>1, <1>5, <1>7
<1>12. QED
  BY <1>10, <1>11 DEF StillOpen

LEMMA BalancedPasses ==
    ASSUME TextOK, NEW k \in Place, k < Len(tokens), tokens[k] = "("
    PROVE  Passes(k, CollectBalanced(k, "(", ")").next)
<1> DEFINE s == Rest(k)
           t == SubSeq(s, 1, Len(s))
           d == Depths(s, {"("}, {")"})
           j == FirstIn({i \in 1 .. Len(tokens) - k : d[i] = 0}, Len(tokens) - k + 1)
           b == CollectBalanced(k, "(", ")").next
<1>1. Len(s) = Len(tokens) - k /\ k \in Nat /\ Len(tokens) \in Nat
  BY RestIs DEF TextOK, Place
<1>2. t = s
  <2>1. s \in Seq(Range(tokens))
    BY <1>1, RestsIs DEF TextOK, Place
  <2> HIDE DEF s
  <2>2. QED
    BY <2>1
<1>3. Group(s, 1, "(", ")").end = 1 + j - 1
  BY <1>1, <1>2 DEF Group, FirstWith
<1>4. b \in Nat /\ b <= Len(tokens)
  <2>1. b \in k + 1 .. Len(tokens)
    BY BalancedAdvances
  <2>2. QED
    BY <1>1, <2>1
<1> DEFINE last == k + Group(s, 1, "(", ")").end - 1
<1>5. b = IF last < Len(tokens) THEN last + 1 ELSE last
  <2>1. CASE last < Len(tokens)
    BY <2>1 DEF CollectBalanced, Collected, s
  <2>2. CASE ~(last < Len(tokens))
    BY <2>2 DEF CollectBalanced, Collected, s
  <2>3. QED
    BY <2>1, <2>2
<1>6. j \in 1 .. Len(tokens) - k + 1
  <2> DEFINE S == {i \in 1 .. Len(tokens) - k : d[i] = 0}
  <2>1. S \in SUBSET (1 .. Len(tokens) - k)
    OBVIOUS
  <2>2. 1 \in Nat /\ Len(tokens) - k \in Nat /\ 1 <= Len(tokens) - k + 1
    BY <1>1
  <2> HIDE DEF S
  <2>3. FirstIn(S, Len(tokens) - k + 1) \in 1 .. Len(tokens) - k + 1
    BY <2>1, <2>2, FirstInRange
  <2>4. QED
    BY <2>3 DEF S
<1>7. last = k + (1 + j - 1) - 1
  BY <1>3
<1> HIDE DEF last, b, j
<1>8. b <= k + j
  BY <1>1, <1>5, <1>6, <1>7
<1>9. \A m \in k .. b - 1 : tokens[m] = "endmodule" => m > k /\ StillOpen(k, m, {"("}, {")"})
  <2> DEFINE dd == Depths(Rest(k), {"("}, {")"})
  <2>1. j = FirstIn({i \in 1 .. Len(tokens) - k : dd[i] = 0}, Len(tokens) - k + 1)
    BY DEF j
  <2> HIDE DEF dd
  <2>2. dd = Depths(Rest(k), {"("}, {")"})
    BY DEF dd
  <2>3. tokens[k] \in {"("} /\ "endmodule" \notin {"("} \cup {")"}
    OBVIOUS
  <2>4. QED
    BY <1>4, <1>8, <2>1, <2>2, <2>3, GroupPasses
<1>10. QED
  <2>1. ASSUME NEW m \in k .. b - 1, tokens[m] = "endmodule" PROVE \E i \in k .. m - 1 : Surrounds(i, m)
    <3>1. k \in k .. m - 1
      BY <1>1, <1>9, <2>1
    <3>2. QED
      BY <1>9, <2>1, <3>1 DEF Surrounds
  <2>2. QED
    BY <2>1 DEF Passes, b

LEMMA ParenthesisedPasses ==
    ASSUME TextOK, NEW k \in Place
    PROVE  Passes(k, Parenthesised(k).next)
<1>1. CASE Token(k) = "("
  <2>1. k < Len(tokens) /\ tokens[k] = "("
    BY <1>1, TokenIs DEF Place, TextOK, Eof
  <2>2. QED
    BY <1>1, <2>1, BalancedPasses DEF Parenthesised
<1>2. CASE Token(k) # "("
  BY <1>2, PassesNothing DEF Parenthesised, Nothing, Place
<1>3. QED
  BY <1>1, <1>2

LEMMA BeginEndPasses ==
    ASSUME TextOK, NEW k \in Place, k < Len(tokens), tokens[k] = "begin"
    PROVE  Passes(k, CollectBeginEnd(k).next)
<1> DEFINE d == Depths(Rest(k), {"begin"}, {"end"})
           j == FirstIn({i \in 1 .. Len(tokens) - k : d[i] = 0}, Len(tokens) - k + 1)
           b == CollectBeginEnd(k).next
<1>1. Len(Rest(k)) = Len(tokens) - k /\ k \in Nat /\ Len(tokens) \in Nat
  BY RestIs DEF TextOK, Place
<1>2. b = Lesser(k + j, Len(tokens))
  BY <1>1 DEF CollectBeginEnd, FirstWith, Collected
<1>3. b \in Nat /\ b <= Len(tokens)
  <2>1. b \in k .. Len(tokens)
    BY BeginEndAdvances
  <2>2. QED
    BY <1>1, <2>1
<1>4. j \in Nat
  <2> DEFINE S == {i \in 1 .. Len(tokens) - k : d[i] = 0}
  <2>1. S \in SUBSET (1 .. Len(tokens) - k)
    OBVIOUS
  <2>2. 1 \in Nat /\ Len(tokens) - k \in Nat /\ 1 <= Len(tokens) - k + 1
    BY <1>1
  <2> HIDE DEF S
  <2>3. FirstIn(S, Len(tokens) - k + 1) \in 1 .. Len(tokens) - k + 1
    BY <2>1, <2>2, FirstInRange
  <2>4. QED
    BY <1>1, <2>3 DEF S
<1> HIDE DEF b, j
<1>5. b <= k + j
  BY <1>1, <1>2, <1>3, <1>4 DEF Lesser
<1>6. \A m \in k .. b - 1 : tokens[m] = "endmodule" => m > k /\ StillOpen(k, m, {"begin"}, {"end"})
  <2>1. j = FirstIn({i \in 1 .. Len(tokens) - k : d[i] = 0}, Len(tokens) - k + 1)
    BY DEF j
  <2> HIDE DEF d
  <2>2. d = Depths(Rest(k), {"begin"}, {"end"})
    BY DEF d
  <2>3. tokens[k] \in {"begin"} /\ "endmodule" \notin {"begin"} \cup {"end"}
    OBVIOUS
  <2>4. QED
    BY <1>3, <1>5, <2>1, <2>2, <2>3, GroupPasses
<1>7. QED
  <2>1. ASSUME NEW m \in k .. b - 1, tokens[m] = "endmodule" PROVE \E i \in k .. m - 1 : Surrounds(i, m)
    <3>1. k \in k .. m - 1
      BY <1>1, <1>6, <2>1
    <3>2. QED
      BY <1>6, <2>1, <3>1 DEF Surrounds
  <2>2. QED
    BY <2>1 DEF Passes, b

\* A match, or what is left out for it, holds no end of a module, if the search
\* stops there.
LEMMA ExpectPasses ==
    ASSUME TextOK, NEW k \in Place, NEW stops, "endmodule" \in stops
    PROVE  Passes(k, Expect(k, ";", stops).next)
<1> DEFINE S == {j \in k .. Len(tokens) - 1 : tokens[j] \in stops}
           j == Find(k, stops)
           b == Expect(k, ";", stops).next
<1>1. k \in Nat /\ Len(tokens) \in Nat /\ k <= Len(tokens)
  BY DEF TextOK, Place
<1>2. CASE Token(k) = ";"
  <2>1. tokens[k] # "endmodule" /\ b = k + 1
    BY <1>2, TokenIs DEF Expect, Nothing
  <2>2. QED
    BY <1>1, <2>1, PassesToken
<1>3. CASE Token(k) # ";"
  <2>1. b = IF Token(j) = ";" THEN j + 1 ELSE j
    BY <1>3 DEF Expect, Nothing
  <2>2. j \in k .. Len(tokens) /\ Token(j) = tokens[j]
    BY <1>1, FindIs, TokenIs DEF Place
  <2>3. \A m \in S : j <= m
    <3>1. S \in SUBSET (k .. Len(tokens) - 1) /\ Len(tokens) - 1 \in Nat /\ k <= Len(tokens) - 1 + 1
      BY <1>1 DEF TextOK
    <3>2. j = FirstIn(S, Len(tokens) - 1 + 1)
      BY DEF Find, FirstWith
    <3> HIDE DEF S, j
    <3>3. QED
      BY <1>1, <3>1, <3>2, NothingBefore
  <2>4. \A m \in k .. Len(tokens) - 1 : tokens[m] = "endmodule" => m \in S
    OBVIOUS
  <2> HIDE DEF S, j, b
  <2>5. SUFFICES ASSUME NEW m \in k .. b - 1, tokens[m] = "endmodule" PROVE FALSE
    BY DEF Passes, b
  <2>6. b \in {j, j + 1} /\ (b = j + 1 => tokens[j] = ";")
    <3>1. j \in Nat /\ j # j + 1
      BY <1>1, <2>2
    <3>2. QED
      BY <2>1, <2>2, <3>1
  <2>7. m \in Nat /\ m < j
    <3>1. m # j \/ b = j
      BY <2>5, <2>6
    <3>2. j \in Nat /\ m \in k .. b - 1
      BY <1>1, <2>2
    <3>3. CASE b = j
      BY <1>1, <3>2, <3>3
    <3>4. CASE b = j + 1 /\ m # j
      BY <1>1, <3>2, <3>4
    <3>5. QED
      BY <2>6, <3>1, <3>3, <3>4
  <2>8. m \in S
    BY <1>1, <2>2, <2>4, <2>5, <2>7
  <2>9. QED
    BY <2>2, <2>3, <2>7, <2>8
<1>4. QED
  BY <1>2, <1>3

\* A construct with a keyword of its own at the end stops before the end of the module.
LEMMA UntilEndPasses ==
    ASSUME TextOK, NEW k \in Place, NEW start, NEW end, end # "endmodule"
    PROVE  Passes(k, CollectUntilEnd(k, start, end).next)
<1> DEFINE X == Range(tokens) \cup {start}
           s == <<start>> \o Rest(k)
           d == Depths(s, {start}, {end})
           S == {i \in 2 .. Len(s) : d[i] = 0 \/ s[i] = "endmodule"}
           j == FirstIn(S, Len(s) + 1)
           ended == j <= Len(s) /\ d[j] = 0
           b == CollectUntilEnd(k, start, end).next
<1>1. /\ s \in Seq(X) /\ Len(s) = Len(tokens) - k + 1 /\ s[1] = start
      /\ \A i \in 2 .. Len(s) : s[i] = tokens[k + i - 2]
      /\ k \in Nat /\ Len(tokens) \in Nat /\ Len(s) \in Nat
  <2>1. k \in Nat /\ Len(tokens) \in Nat /\ k <= Len(tokens)
    BY DEF TextOK, Place
  <2>2. Rest(k) \in Seq(X)
    <3>1. k \in 1 .. Len(tokens) + 1 /\ Len(tokens) - 1 \in Int /\ Len(tokens) - 1 <= Len(tokens)
      BY <2>1 DEF Place
    <3>2. Rest(k) \in Seq(Range(tokens))
      BY <3>1, PieceIs DEF Rest
    <3>3. QED
      BY <3>2
  <2>3. Len(Rest(k)) = Len(tokens) - k /\ \A i \in 1 .. Len(tokens) - k : Rest(k)[i] = tokens[k + i - 1]
    BY RestIs
  <2>4. <<start>> \in Seq(X)
    OBVIOUS
  <2> HIDE DEF X
  <2>5. /\ s \in Seq(X) /\ Len(s) = 1 + Len(Rest(k)) /\ s[1] = start
        /\ \A i \in 2 .. Len(s) : s[i] = Rest(k)[i - 1]
    BY <2>2, <2>4, ConcatProperties
  <2>6. ASSUME NEW i \in 2 .. Len(s) PROVE s[i] = tokens[k + i - 2]
    <3>1. i - 1 \in 1 .. Len(tokens) - k /\ k + (i - 1) - 1 = k + i - 2
      BY <2>1, <2>3, <2>5
    <3>2. QED
      BY <2>3, <2>5, <3>1
  <2> HIDE DEF s
  <2>7. QED
    BY <2>1, <2>3, <2>5, <2>6
<1>2. b = IF ended THEN k + j - 1 ELSE k + j - 2
  BY DEF CollectUntilEnd, FirstWith, Collected
<1>r. d = Depths(s, {start}, {end})
  OBVIOUS
<1> HIDE DEF s, d, b, X
<1>3. S \in SUBSET (2 .. Len(s))
  OBVIOUS
<1>4. j \in 2 .. Len(s) + 1 /\ \A i \in S : j <= i
  <2>1. 2 \in Nat /\ 2 <= Len(s) + 1
    BY <1>1 DEF TextOK, Place
  <2> HIDE DEF S
  <2>2. QED
    BY <1>1, <1>3, <2>1, FirstInRange, NothingBefore
<1>5. \A i \in 2 .. Len(s) : d[i] = 0 \/ s[i] = "endmodule" => i \in S
  OBVIOUS
<1>6. ended => j <= Len(s) /\ d[j] = 0
  OBVIOUS
<1> HIDE DEF S, j, ended
<1>7. ended => s[j] = end
  <2>1. SUFFICES ASSUME ended PROVE s[j] = end
    OBVIOUS
  <2>2. j \in 1 .. Len(s) /\ d[j] = 0 /\ j > 1 /\ j - 1 \in 1 .. Len(s) /\ j - 1 < j /\ j \in Nat
    BY <1>1, <1>4, <1>6, <2>1
  <2>3. d[1] # 0
    <3>1. 1 \in 1 .. Len(s) /\ s[1] \in {start}
      BY <1>1, <2>2
    <3>2. QED
      BY <1>1, <1>r, <3>1, ClosedBy
  <2>4. d[j - 1] # 0
    <3>1. CASE j - 1 = 1
      BY <2>3, <3>1
    <3>2. CASE j - 1 # 1
      <4>1. j - 1 \in 2 .. Len(s)
        BY <1>1, <2>2, <3>2
      <4>2. j - 1 \notin S
        BY <1>4, <2>2
      <4>3. QED
        BY <1>5, <4>1, <4>2
    <3>3. QED
      BY <3>1, <3>2
  <2>5. s[j] \in {end}
    <3>1. j = 1 => s[1] \in {start}
      BY <2>2
    <3>2. QED
      BY <1>1, <1>r, <2>2, <2>4, <3>1, ClosedBy
  <2>6. QED
    BY <2>5
<1>8. SUFFICES ASSUME NEW m \in k .. b - 1, tokens[m] = "endmodule" PROVE FALSE
  BY DEF Passes, b
<1> DEFINE n == m - k + 2
<1>9. n \in 2 .. Len(s) /\ n <= j /\ (n = j => ended) /\ m = k + n - 2
  <2>1. CASE ended
    BY <1>1, <1>2, <1>4, <1>6, <1>8, <2>1
  <2>2. CASE ~ended
    BY <1>1, <1>2, <1>4, <1>8, <2>2
  <2>3. QED
    BY <2>1, <2>2
<1> HIDE DEF n
<1>10. s[n] = "endmodule"
  BY <1>1, <1>8, <1>9
<1>11. n # j
  BY <1>7, <1>9, <1>10
<1>12. n \in S
  BY <1>5, <1>9, <1>10
<1>13. QED
  BY <1>1, <1>4, <1>9, <1>11, <1>12

LEMMA CompoundPasses ==
    ASSUME TextOK, NEW k \in Place, k < Len(tokens), tokens[k] \in Case \cup {"if"}
    PROVE  Passes(k, CollectCompound(k).next)
<1> DEFINE s == Rest(k)
           begins == Depths(s, {"begin"}, {"end"})
           cases  == Depths(s, Case, {"endcase"})
           S == {i \in 1 .. Len(s) :
                     /\ begins[i] = 0 /\ cases[i] = 0
                     /\ s[i] \in {"end", "endcase"} \/ (s[i] = ";" /\ Token(k + i) # "else")}
           j == FirstIn(S, Len(s) + 1)
           b == CollectCompound(k).next
<1>1. /\ Len(s) \in Nat /\ Len(s) = Len(tokens) - k /\ k \in Nat /\ Len(tokens) \in Nat
      /\ \A i \in 1 .. Len(s) : s[i] = tokens[k + i - 1]
  <2>1. Len(s) = Len(tokens) - k /\ \A i \in 1 .. Len(s) : s[i] = tokens[k + i - 1]
    BY RestIs
  <2> HIDE DEF s
  <2>2. QED
    BY <2>1 DEF TextOK, Place
<1>2. b = Lesser(k + j, Len(tokens))
  BY DEF CollectCompound, FirstWith, Collected
<1>u. \A m \in Nat :
          (\A i \in 1 .. m - k : begins[i] = 0 /\ cases[i] = 0 =>
                s[i] \notin {"end", "endcase"} /\ (s[i] = ";" => Token(k + i) = "else"))
              => Unfinished(k, m)
  BY DEF Unfinished
<1> HIDE DEF begins, cases, s, b
<1>3. S \in SUBSET (1 .. Len(s)) /\ \A i \in S : s[i] \in {"end", "endcase", ";"}
  OBVIOUS
<1>4. j \in 1 .. Len(s) + 1 /\ (j <= Len(s) => j \in S) /\ \A i \in S : j <= i
  <2>1. 1 \in Nat /\ 1 <= Len(s) + 1
    BY <1>1
  <2> HIDE DEF S
  <2>2. QED
    BY <1>1, <1>3, <2>1, FirstInRange, NothingBefore
<1>5. \A i \in 1 .. Len(s) : i \notin S =>
          (begins[i] = 0 /\ cases[i] = 0 =>
                s[i] \notin {"end", "endcase"} /\ (s[i] = ";" => Token(k + i) = "else"))
  OBVIOUS
<1> HIDE DEF S, j
<1>6. SUFFICES ASSUME NEW m \in k .. b - 1, tokens[m] = "endmodule"
               PROVE  \E i \in k .. m - 1 : Surrounds(i, m)
  BY DEF Passes, b
<1> DEFINE n == m - k + 1
<1>7. n \in 1 .. Len(s) /\ n <= j /\ m = k + n - 1 /\ m \in Nat /\ n \in Nat
  BY <1>1, <1>2, <1>4, <1>6 DEF Lesser
<1>8. n - 1 = m - k
  BY <1>1, <1>7
<1> HIDE DEF n
<1>9. n # j
  <2>1. s[n] = "endmodule"
    BY <1>1, <1>6, <1>7
  <2>2. SUFFICES ASSUME n = j PROVE FALSE
    OBVIOUS
  <2>3. j \in S
    BY <1>1, <1>4, <1>7, <2>2
  <2>4. s[j] \in {"end", "endcase", ";"}
    BY <1>3, <2>3
  <2>5. QED
    BY <2>1, <2>2, <2>4
<1>10. m # k
  BY <1>6 DEF Case
<1>11. ASSUME NEW i \in 1 .. m - k PROVE i \in 1 .. Len(s) /\ i \notin S
  <2>1. i \in Nat /\ i < j /\ i \in 1 .. Len(s)
    BY <1>1, <1>4, <1>7, <1>8, <1>9
  <2>2. QED
    BY <1>4, <2>1
<1>12. Unfinished(k, m)
  BY <1>5, <1>7, <1>11, <1>u
<1>13. k \in k .. m - 1
  BY <1>1, <1>6, <1>7, <1>10
<1>14. QED
  BY <1>12, <1>13 DEF Surrounds

LEMMA StatementPasses ==
    ASSUME TextOK, NEW k \in Place
    PROVE  Passes(k, CollectStatement(k).next)
<1>1. Token(k) # Eof => k < Len(tokens)
  BY TokenIs DEF TextOK, Place
<1>2. Token(k) = tokens[k]
  BY TokenIs
<1>3. CASE Token(k) = "begin"
  BY <1>1, <1>2, <1>3, BeginEndPasses DEF CollectStatement, Eof
<1>4. CASE Token(k) # "begin" /\ Token(k) \in Case \cup {"if"}
  BY <1>1, <1>2, <1>4, CompoundPasses DEF CollectStatement, Eof, Case
<1>5. CASE Token(k) # "begin" /\ Token(k) \notin Case \cup {"if"}
  BY <1>5, SemicolonPasses DEF CollectStatement
<1>6. QED
  BY <1>3, <1>4, <1>5

\* An unsupported construct begins with its keyword.
LEMMA SkipPasses ==
    ASSUME TextOK, NEW k \in Place, k < Len(tokens), tokens[k] # "endmodule"
    PROVE  Passes(k, SkipUnsupported(k))
<1>1. k \in Nat /\ k + 1 \in Place /\ k + 1 \in Nat /\ Len(tokens) \in Nat /\ Token(k) = tokens[k]
  BY TokenIs DEF TextOK, Place
<1>2. CASE Token(k) \in DOMAIN EndKeyword
  <2> DEFINE opens == {Token(k)}
             closes == {EndKeyword[Token(k)]}
             d == Depths(Rest(k), opens, closes)
             j == FirstIn({i \in 1 .. Len(tokens) - k : d[i] = 0}, Len(tokens) - k + 1)
             b == SkipUnsupported(k)
  <2>1. Len(Rest(k)) = Len(tokens) - k
    BY RestIs
  <2>2. b = Lesser(Len(tokens), k + j)
    BY <1>2, <2>1 DEF SkipUnsupported, FirstWith
  <2>3. b \in Nat /\ b <= Len(tokens)
    <3>1. b \in k + 1 .. Len(tokens)
      BY SkipAdvances
    <3>2. QED
      BY <1>1, <3>1
  <2>4. j \in Nat
    <3> DEFINE S == {i \in 1 .. Len(tokens) - k : d[i] = 0}
    <3>1. S \in SUBSET (1 .. Len(tokens) - k)
      OBVIOUS
    <3>2. 1 \in Nat /\ Len(tokens) - k \in Nat /\ 1 <= Len(tokens) - k + 1
      BY <1>1
    <3> HIDE DEF S
    <3>3. FirstIn(S, Len(tokens) - k + 1) \in 1 .. Len(tokens) - k + 1
      BY <3>1, <3>2, FirstInRange
    <3>4. QED
      BY <1>1, <3>3 DEF S
  <2>5. tokens[k] \in opens /\ "endmodule" \notin opens \cup closes
    BY <1>1, <1>2 DEF EndKeyword
  <2>r. j = FirstIn({i \in 1 .. Len(tokens) - k : d[i] = 0}, Len(tokens) - k + 1)
    OBVIOUS
  <2>o. \A m : StillOpen(k, m, opens, closes) => Surrounds(k, m)
    BY <1>2 DEF Surrounds
  <2> HIDE DEF b, j, opens, closes
  <2>6. b <= k + j
    BY <1>1, <2>2, <2>3, <2>4 DEF Lesser
  <2>7. \A m \in k .. b - 1 : tokens[m] = "endmodule" => m > k /\ StillOpen(k, m, opens, closes)
    <3>1. d = Depths(Rest(k), opens, closes)
      OBVIOUS
    <3> HIDE DEF d
    <3>2. QED
      BY <2>3, <2>5, <2>6, <2>r, <3>1, GroupPasses
  <2>8. ASSUME NEW m \in k .. b - 1, tokens[m] = "endmodule" PROVE \E i \in k .. m - 1 : Surrounds(i, m)
    <3>1. k \in k .. m - 1
      BY <1>1, <2>7, <2>8
    <3>2. QED
      BY <2>7, <2>8, <2>o, <3>1
  <2>9. QED
    BY <2>8 DEF Passes, b
<1>3. CASE Token(k) \notin DOMAIN EndKeyword
  <2> DEFINE b == Expect(k + 1, ";", {";", "endmodule"}).next
  <2>1. SkipUnsupported(k) = b
    BY <1>3 DEF SkipUnsupported
  <2>2. Passes(k, k + 1) /\ Passes(k + 1, b)
    BY <1>1, ExpectPasses, PassesToken
  <2>3. b \in Nat
    <3>1. b \in k + 1 .. Len(tokens)
      BY <1>1, ExpectAdvances DEF Eof
    <3> HIDE DEF b
    <3>2. QED
      BY <1>1, <3>1
  <2> HIDE DEF b
  <2>4. k <= k + 1
    BY <1>1
  <2>5. Passes(k, b)
    BY <1>1, <2>2, <2>3, <2>4, PassesJoin
  <2>6. QED
    BY <2>1, <2>5
<1>4. QED
  BY <1>2, <1>3

\* The token after an @ belongs to it.
LEMMA EventPasses ==
    ASSUME TextOK, NEW k \in Place
    PROVE  Passes(k, Event(k).next)
<1>1. k \in Nat /\ k + 1 \in Nat /\ k <= k + 1
  BY DEF Place
<1>2. CASE Token(k) # "@"
  BY <1>1, <1>2, PassesNothing DEF Event, Nothing
<1>3. CASE Token(k) = "@"
  <2>1. k + 1 \in Place /\ tokens[k] = "@"
    BY <1>3, TokenIs DEF Eof
  <2>2. Passes(k, k + 1)
    BY <1>1, <2>1, PassesToken
  <2>3. CASE Token(k + 1) = "("
    <3> DEFINE b == CollectBalanced(k + 1, "(", ")").next
    <3>1. k + 1 < Len(tokens) /\ tokens[k + 1] = "("
      BY <2>1, <2>3, TokenIs DEF Eof, Place, TextOK
    <3>2. Event(k).next = b
      BY <1>3, <2>3 DEF Event
    <3>3. b \in k + 1 + 1 .. Len(tokens)
      BY <2>1, <3>1, BalancedAdvances
    <3>4. Passes(k + 1, b)
      BY <2>1, <3>1, BalancedPasses
    <3> HIDE DEF b
    <3>5. b \in Nat
      BY <1>1, <3>3 DEF TextOK
    <3>6. Passes(k, b)
      BY <1>1, <2>2, <3>4, <3>5, PassesJoin
    <3>7. QED
      BY <3>2, <3>6
  <2>4. CASE Token(k + 1) = Eof
    BY <1>3, <2>2, <2>4 DEF Event, Nothing, Eof
  <2>5. CASE Token(k + 1) \notin {"(", Eof}
    <3> DEFINE b == Event(k).next
    <3>1. b = k + 2
      BY <1>3, <2>5 DEF Event, Collected
    <3> HIDE DEF b
    <3>2. ASSUME NEW m \in k .. b - 1, tokens[m] = "endmodule" PROVE \E i \in k .. m - 1 : Surrounds(i, m)
      <4>1. m = k + 1
        BY <1>1, <2>1, <3>1, <3>2
      <4>2. k \in k .. m - 1
        BY <1>1, <4>1
      <4>3. QED
        BY <2>1, <4>1, <4>2 DEF Surrounds
    <3>3. QED
      BY <3>2 DEF Passes, b
  <2>6. QED
    BY <2>3, <2>4, <2>5
<1>4. QED
  BY <1>2, <1>3

\* A token that is no end of the module, and what is collected behind it.
LEMMA PassesOn ==
    ASSUME NEW a \in Nat, NEW b \in Nat, a + 1 <= b, tokens[a] # "endmodule", Passes(a + 1, b)
    PROVE  Passes(a, b)
<1>1. a + 1 \in Nat /\ a <= a + 1 /\ Passes(a, a + 1)
  BY PassesToken
<1>2. QED
  BY <1>1, PassesJoin

\* Collected pieces end in the text, and not before they begin.
LEMMA CollectedEnds ==
    ASSUME TextOK, NEW k \in Place
    PROVE  /\ CollectUntilSemicolon(k).next \in Place /\ CollectUntilSemicolon(k).next >= k
           /\ CollectStatement(k).next \in Place /\ CollectStatement(k).next >= k
           /\ Event(k).next \in Place /\ Event(k).next >= k
           /\ \A start, end : /\ CollectUntilEnd(k, start, end).next \in Place
                              /\ CollectUntilEnd(k, start, end).next >= k
<1>1. \A b \in k .. Len(tokens) : b \in Place /\ b >= k
  BY DEF TextOK, Place
<1>2. CollectUntilSemicolon(k).next \in k .. Len(tokens)
  BY SemicolonAdvances
<1>3. CollectStatement(k).next \in k .. Len(tokens) /\ Event(k).next \in k .. Len(tokens)
  BY StatementAdvances, EventAdvances
<1>4. \A start, end : CollectUntilEnd(k, start, end).next \in k .. Len(tokens)
  BY UntilEndAdvances
<1>5. QED
  BY <1>1, <1>2, <1>3, <1>4, Zenon

LEMMA IdentifierPasses ==
    ASSUME TextOK, NEW k \in Place, IsIdentifier(Token(k))
    PROVE  k + 1 \in Place /\ tokens[k] # "endmodule" /\ Passes(k, k + 1)
<1>1. tokens[k] # "endmodule"
  BY TokenIs DEF IsIdentifier, Keywords
<1>2. QED
  BY <1>1, IdentifierIs, PassesToken DEF Place

\* An optional list in parentheses and a semicolon behind it.
LEMMA ListPasses ==
    ASSUME TextOK, NEW k \in Place, NEW stops, "endmodule" \in stops
    PROVE  Passes(k, Expect(Parenthesised(k).next, ";", stops).next)
<1> DEFINE p == Parenthesised(k).next
           b == Expect(p, ";", stops).next
<1>1. p \in Place /\ p >= k /\ Passes(k, p)
  BY ParenthesisedEnds, ParenthesisedPasses
<1> HIDE DEF p
<1>2. b \in Place /\ b >= p /\ Passes(p, b)
  BY <1>1, ExpectEnds, ExpectPasses DEF Eof
<1> HIDE DEF b
<1>3. k \in Nat /\ p \in Nat /\ b \in Nat /\ k <= p
  BY <1>1, <1>2 DEF Place
<1>4. Passes(k, b)
  BY <1>1, <1>2, <1>3, PassesJoin
<1>5. QED
  BY <1>4 DEF p, b

\* The step runs over no end of a module.
StepPasses == Passes(index, index')

LEMMA DeclarationPasses ==
    ASSUME TextOK, index \in Place, Declare \/ Parameters
    PROVE  StepPasses
<1>1. index' = CollectUntilSemicolon(index).next
  BY Zenon DEF Declare, Parameters, Becomes
<1>2. QED
  BY <1>1, SemicolonPasses DEF StepPasses

\* An item that is its keyword and what is collected behind it.
LEMMA KeywordPasses ==
    ASSUME TextOK, index \in Place, NEW first, ReadsItem("module", first), "endmodule" \notin first,
           NEW b \in Place, b >= index + 1, Passes(index + 1, b), index' = b
    PROVE  StepPasses
<1>1. tokens[index] # "endmodule" /\ index \in Nat /\ b \in Nat /\ index + 1 <= b
  BY ItemBegins DEF Place
<1>2. QED
  BY <1>1, PassesOn DEF StepPasses

LEMMA GeneratePasses ==
    ASSUME TextOK, index \in Place, Generate
    PROVE  StepPasses
<1> DEFINE b == CollectUntilEnd(index + 1, "generate", "endgenerate").next
<1>1. ReadsItem("module", {"generate"}) /\ index + 1 \in Place
  BY ItemBegins DEF Generate
<1>2. index' = b
  BY Zenon DEF Generate, Becomes
<1>3. b \in Place /\ b >= index + 1 /\ Passes(index + 1, b)
  BY <1>1, CollectedEnds, UntilEndPasses
<1> HIDE DEF b
<1>4. QED
  BY <1>1, <1>2, <1>3, KeywordPasses

LEMMA SubroutinePasses ==
    ASSUME TextOK, index \in Place, Function \/ Task
    PROVE  StepPasses
<1> DEFINE h == CollectUntilSemicolon(index + 1).next
<1>1. PICK first \in {{"function"}, {"task"}} : ReadsItem("module", first)
  BY DEF Function, Task
<1>2. index + 1 \in Place
  BY <1>1, ItemBegins
<1>3. h \in Place /\ h >= index + 1 /\ Passes(index + 1, h)
  BY <1>2, CollectedEnds, SemicolonPasses
<1>4. PICK start, end : end # "endmodule" /\ index' = CollectUntilEnd(h, start, end).next
  <2>1. \A kind, header, c, known : Subroutine(kind, header, c, known).next = c.next
    BY DEF Subroutine
  <2>2. CASE Function
    <3>1. \E header \in {CollectUntilSemicolon(index + 1)} :
          \E c \in {CollectUntilEnd(header.next, "function", "endfunction")} :
             index' = Subroutine("function", header, c, module.functions).next
      BY <2>2, Zenon DEF Function, Becomes
    <3>2. index' = CollectUntilEnd(h, "function", "endfunction").next
      BY <2>1, <3>1, SMT
    <3>3. QED
      BY <3>2
  <2>3. CASE Task
    <3>1. \E header \in {CollectUntilSemicolon(index + 1)} :
          \E c \in {CollectUntilEnd(header.next, "task", "endtask")} :
             index' = Subroutine("task", header, c, module.tasks).next
      BY <2>3, Zenon DEF Task, Becomes
    <3>2. index' = CollectUntilEnd(h, "task", "endtask").next
      BY <2>1, <3>1, SMT
    <3>3. QED
      BY <3>2
  <2>4. QED
    BY <2>2, <2>3
<1> DEFINE b == CollectUntilEnd(h, start, end).next
<1> HIDE DEF h
<1>5. b \in Place /\ b >= h /\ Passes(h, b)
  BY <1>3, <1>4, CollectedEnds, UntilEndPasses
<1>6. index' = b
  BY <1>4
<1> HIDE DEF b
<1>7. index + 1 \in Nat /\ h \in Nat /\ b \in Nat /\ index + 1 <= h /\ b >= index + 1
  BY <1>2, <1>3, <1>5 DEF Place
<1>8. Passes(index + 1, b)
  BY <1>3, <1>5, <1>7, PassesJoin
<1>9. "endmodule" \notin first
  BY <1>1
<1>10. QED
  BY <1>1, <1>5, <1>6, <1>7, <1>8, <1>9, KeywordPasses

LEMMA AssignPasses ==
    ASSUME TextOK, index \in Place, ContinuousAssign
    PROVE  StepPasses
<1> DEFINE b == CollectUntilSemicolon(index + 1).next
<1>1. ReadsItem("module", {"assign"}) /\ index + 1 \in Place
  BY ItemBegins DEF ContinuousAssign
<1>2. index' = b
  BY Zenon DEF ContinuousAssign, Becomes
<1>3. b \in Place /\ b >= index + 1 /\ Passes(index + 1, b)
  BY <1>1, CollectedEnds, SemicolonPasses
<1> HIDE DEF b
<1>4. QED
  BY <1>1, <1>2, <1>3, KeywordPasses

LEMMA BlockPasses ==
    ASSUME TextOK, index \in Place, AlwaysBlock \/ Initial
    PROVE  StepPasses
<1>1. PICK first \in {Always, {"initial"}} : ReadsItem("module", first)
  BY DEF AlwaysBlock, Initial
<1>2. index + 1 \in Place /\ "endmodule" \notin first
  BY <1>1, ItemBegins DEF Always
<1> DEFINE e == Event(index + 1).next
           b == CollectStatement(e).next
           c == CollectStatement(index + 1).next
<1>3. CASE AlwaysBlock
  <2>1. index' = b
    BY <1>3, Zenon DEF AlwaysBlock, Becomes
  <2>2. e \in Place /\ e >= index + 1 /\ Passes(index + 1, e)
    BY <1>2, CollectedEnds, EventPasses
  <2> HIDE DEF e
  <2>3. b \in Place /\ b >= e /\ Passes(e, b)
    BY <2>2, CollectedEnds, StatementPasses
  <2> HIDE DEF b
  <2>4. index + 1 \in Nat /\ e \in Nat /\ b \in Nat /\ index + 1 <= e /\ b >= index + 1
    BY <1>2, <2>2, <2>3 DEF Place
  <2>5. Passes(index + 1, b)
    BY <2>2, <2>3, <2>4, PassesJoin
  <2>6. QED
    BY <1>1, <1>2, <2>1, <2>3, <2>4, <2>5, KeywordPasses
<1>4. CASE Initial
  <2>1. index' = c
    BY <1>4, Zenon DEF Initial, Skips, Becomes
  <2>2. c \in Place /\ c >= index + 1 /\ Passes(index + 1, c)
    BY <1>2, CollectedEnds, StatementPasses
  <2> HIDE DEF c
  <2>3. QED
    BY <1>1, <1>2, <2>1, <2>2, KeywordPasses
<1>5. QED
  BY <1>3, <1>4

LEMMA InterfacePasses ==
    ASSUME ParserInv, InterfaceInstance
    PROVE  StepPasses
<1> DEFINE k == index + (IF Token(index + 1) = "." THEN 4 ELSE 2)
           b == Expect(Parenthesised(k).next, ";", {";", "endmodule"}).next
<1>1. TextOK /\ index \in Place /\ Passes(index, index + 1) /\ index + 1 \in Place
  <2>1. IsIdentifier(Token(index))
    BY DEF ParserInv, InterfaceInstance, IsInterfaceInstance
  <2>2. QED
    BY <2>1, IdentifierPasses DEF ParserInv
<1>2. \A a \in Place : a \in Nat
  BY DEF Place
<1>3. k \in Place /\ k >= index /\ Passes(index, k)
  <2>1. CASE Token(index + 1) = "."
    <3>1. IsIdentifier(Token(index + 2)) /\ IsIdentifier(Token(index + 3))
      BY <2>1 DEF InterfaceInstance, IsInterfaceInstance
    <3>2. index + 2 \in Place
      BY <1>1, <2>1, TokenIs DEF Eof, Place, TextOK
    <3>3. Passes(index + 1, index + 1 + 1)
      <4>1. tokens[index + 1] # "endmodule"
        BY <1>1, <2>1, TokenIs
      <4>2. QED
        BY <1>1, <1>2, <4>1, PassesToken
    <3>4. index + 2 + 1 \in Place /\ Passes(index + 2, index + 2 + 1)
      BY <1>1, <3>1, <3>2, IdentifierPasses
    <3>5. index + 3 \in Place /\ index + 1 + 1 = index + 2 /\ index + 2 + 1 = index + 3 /\ index + 3 + 1 = index + 4
      BY <1>1, <1>2, <3>4
    <3>6. index + 4 \in Place /\ Passes(index + 3, index + 4)
      BY <1>1, <3>1, <3>5, IdentifierPasses
    <3>7. \A n \in {0, 1, 2, 3, 4} : index + n \in Nat
      BY <1>1, <1>2
    <3>8. index <= index + 1 /\ index <= index + 2 /\ index <= index + 3 /\ index <= index + 4
      BY <1>1, <1>2
    <3>9. Passes(index, index + 2)
      BY <1>1, <1>2, <3>2, <3>3, <3>5, <3>8, PassesJoin
    <3>10. Passes(index, index + 3)
      BY <1>1, <1>2, <3>2, <3>4, <3>5, <3>8, <3>9, PassesJoin
    <3>11. Passes(index, index + 4)
      BY <1>1, <1>2, <3>5, <3>6, <3>8, <3>10, PassesJoin
    <3>12. k = index + 4
      BY <2>1
    <3>13. QED
      BY <3>6, <3>8, <3>11, <3>12
  <2>2. CASE Token(index + 1) # "."
    <3>1. index + 1 + 1 \in Place /\ Passes(index + 1, index + 1 + 1)
      BY <1>1, <2>2, IdentifierPasses DEF InterfaceInstance, IsInterfaceInstance
    <3>2. k = index + 1 + 1 /\ index <= index + 1 /\ index <= index + 1 + 1
      BY <1>1, <1>2, <2>2
    <3>3. Passes(index, index + 1 + 1)
      BY <1>1, <1>2, <3>1, <3>2, PassesJoin
    <3>4. QED
      BY <3>1, <3>2, <3>3
  <2>3. QED
    BY <2>1, <2>2
<1>4. index' = b
  BY DEF InterfaceInstance, Skips, Becomes
<1> HIDE DEF k
<1>5. Passes(k, b)
  BY <1>1, <1>3, ListPasses
<1>6. b \in Place
  <2>1. Parenthesised(k).next \in Place
    BY <1>1, <1>3, ParenthesisedEnds
  <2>2. QED
    BY <1>1, <2>1, ExpectEnds DEF Eof
<1> HIDE DEF b
<1>7. Passes(index, b)
  BY <1>1, <1>2, <1>3, <1>5, <1>6, PassesJoin
<1>8. QED
  BY <1>4, <1>7 DEF StepPasses

LEMMA UserTypePasses ==
    ASSUME TextOK, index \in Place, UserType
    PROVE  StepPasses
<1> DEFINE b == CollectUntilSemicolon(index + 2).next
<1>1. IsIdentifier(Token(index)) /\ IsIdentifier(Token(index + 1))
  BY DEF UserType, IsUserType
<1>2. index + 1 \in Place /\ Passes(index, index + 1)
  BY <1>1, IdentifierPasses
<1>3. index + 1 + 1 \in Place /\ Passes(index + 1, index + 1 + 1)
  BY <1>1, <1>2, IdentifierPasses
<1>4. /\ index \in Nat /\ index + 1 \in Nat /\ index + 2 \in Nat /\ index + 1 + 1 = index + 2
      /\ index <= index + 1 /\ index <= index + 2
  BY DEF Place
<1>5. index + 2 \in Place /\ Passes(index, index + 2)
  BY <1>2, <1>3, <1>4, PassesJoin
<1>6. b \in Place /\ Passes(index + 2, b)
  BY <1>5, CollectedEnds, SemicolonPasses
<1>7. index' = b
  BY Zenon DEF UserType, Becomes
<1> HIDE DEF b
<1>8. Passes(index, b)
  BY <1>4, <1>5, <1>6, PassesJoin DEF Place
<1>9. QED
  BY <1>7, <1>8 DEF StepPasses

\* The item reports that something is missing or in excess.
StepReports == <<"SYNTAX001", index>> \in errors'

LEMMA ErrorReports ==
    ASSUME NEW place, NEW m, NEW rules, "SYNTAX001" \in rules, Becomes(place, m, rules)
    PROVE  StepReports
  BY DEF Becomes, Reports, StepReports

\* An instance without a name is reported, whatever it runs over.
LEMMA InstancePasses ==
    ASSUME TextOK, index \in Place, ModuleInstance
    PROVE  StepPasses \/ StepReports
<1> DEFINE v == IF Token(index + 1) = "#" THEN Parenthesised(index + 2) ELSE Nothing(index + 1, FALSE)
           b == Expect(Parenthesised(v.next + 1).next, ";", {";", "endmodule"}).next
<1>1. IsIdentifier(Token(index))
  BY DEF ModuleInstance, IsInstance
<1>2. index + 1 \in Place /\ Passes(index, index + 1)
  BY <1>1, IdentifierPasses
<1>3. \A a \in Place : a \in Nat
  BY DEF Place
<1>4. CASE IsIdentifier(Token(v.next))
  <2>1. index' = b
    BY <1>4, Zenon DEF ModuleInstance, Becomes
  <2>2. v.next \in Place /\ v.next >= index + 1 /\ Passes(index + 1, v.next)
    <3>1. CASE Token(index + 1) = "#"
      <4> DEFINE p == Parenthesised(index + 1 + 1).next
      <4>1. index + 1 + 1 \in Place /\ tokens[index + 1] # "endmodule"
        BY <1>2, <3>1, TokenIs DEF Eof
      <4>2. p \in Place /\ p >= index + 1 + 1 /\ Passes(index + 1 + 1, p)
        BY <4>1, ParenthesisedEnds, ParenthesisedPasses
      <4>3. v.next = p
        <5>1. index + 1 + 1 = index + 2
          BY DEF Place
        <5>2. QED
          BY <3>1, <5>1
      <4> HIDE DEF p, v
      <4>4. index + 1 \in Nat /\ p \in Nat /\ index + 1 + 1 <= p /\ p >= index + 1
        BY <1>2, <1>3, <4>2
      <4>5. Passes(index + 1, p)
        BY <4>1, <4>2, <4>4, PassesOn
      <4>6. QED
        BY <4>2, <4>3, <4>4, <4>5
    <3>2. CASE Token(index + 1) # "#"
      <4>1. v.next = index + 1
        BY <3>2 DEF Nothing
      <4> HIDE DEF v
      <4>2. index + 1 \in Nat /\ index + 1 >= index + 1 /\ Passes(index + 1, index + 1)
        BY <1>2, <1>3, PassesNothing
      <4>3. QED
        BY <1>2, <4>1, <4>2
    <3>3. QED
      BY <3>1, <3>2
  <2> HIDE DEF v
  <2>3. v.next + 1 \in Place /\ Passes(v.next, v.next + 1)
    BY <1>4, <2>2, IdentifierPasses
  <2>4. Passes(v.next + 1, b)
    BY <2>3, ListPasses
  <2>5. b \in Place
    <3>1. Parenthesised(v.next + 1).next \in Place
      BY <2>3, ParenthesisedEnds
    <3>2. QED
      BY <3>1, ExpectEnds DEF Eof
  <2> HIDE DEF b
  <2> DEFINE n == v.next
  <2>6. index \in Nat /\ n \in Nat /\ n + 1 \in Nat /\ index <= index + 1 /\ index <= n /\ index <= n + 1 /\ n >= index + 1
    BY <1>2, <1>3, <2>2, <2>3
  <2>7. Passes(index, n)
    BY <1>2, <1>3, <2>2, <2>6, PassesJoin
  <2>8. Passes(index, n + 1)
    BY <2>3, <2>6, <2>7, PassesJoin
  <2>9. Passes(index, b)
    BY <1>3, <2>4, <2>5, <2>6, <2>8, PassesJoin
  <2>10. QED
    BY <2>1, <2>9 DEF StepPasses
<1>5. CASE ~IsIdentifier(Token(v.next))
  <2>1. Skips(Expect(v.next, ";", {";"}).next, Syntax(TRUE))
    BY <1>5, Zenon DEF ModuleInstance
  <2>2. QED
    BY <2>1, ErrorReports DEF Skips, Syntax
<1>6. QED
  BY <1>4, <1>5

LEMMA ImportPasses ==
    ASSUME TextOK, index \in Place, Import
    PROVE  StepPasses \/ StepReports
<1> DEFINE at == IF Token(index + 2) = "::" THEN index + 3 ELSE index + 2
           symbol == Token(at) = "*" \/ IsIdentifier(Token(at))
           after == IF symbol THEN at + 1 ELSE at
           b == Expect(after, ";", {";", "module", "endmodule"}).next
<1>1. CASE ~IsIdentifier(Token(index + 1))
  <2>1. Skips(Expect(index + 1, ";", {";"}).next, Syntax(TRUE))
    BY <1>1, Zenon DEF Import
  <2>2. QED
    BY <2>1, ErrorReports DEF Skips, Syntax
<1>2. CASE IsIdentifier(Token(index + 1))
  <2>0. \A a \in Place : a \in Nat
    BY DEF Place
  <2>1. index + 1 \in Place /\ Passes(index, index + 1)
    <3>1. index + 1 \in Place /\ tokens[index] \in {"import"}
      BY ItemBegins DEF Import
    <3>2. QED
      BY <2>0, <3>1, PassesToken
  <2>2. index + 1 + 1 \in Place /\ Passes(index + 1, index + 1 + 1)
    BY <1>2, <2>1, IdentifierPasses
  <2>3. /\ index \in Nat /\ index + 1 \in Nat /\ index + 2 \in Nat /\ index + 1 + 1 = index + 2
        /\ index + 2 + 1 = index + 3 /\ index <= index + 1 /\ index <= index + 2 /\ index <= index + 3
    BY DEF Place
  <2>4. index + 2 \in Place /\ Passes(index, index + 2)
    BY <2>1, <2>2, <2>3, PassesJoin
  <2>5. at \in Place /\ index <= at /\ Passes(index, at)
    <3>1. CASE Token(index + 2) = "::"
      <4>1. tokens[index + 2] # "endmodule" /\ index + 2 + 1 \in Place
        BY <2>4, <3>1, TokenIs DEF Eof
      <4>2. Passes(index + 2, index + 3)
        BY <2>3, <4>1, PassesToken
      <4>3. index + 3 \in Place
        BY <2>3, <4>1
      <4>4. Passes(index, index + 3)
        BY <2>0, <2>3, <2>4, <4>2, <4>3, PassesJoin
      <4>5. QED
        BY <2>3, <3>1, <4>3, <4>4
    <3>2. CASE Token(index + 2) # "::"
      BY <2>3, <2>4, <3>2
    <3>3. QED
      BY <3>1, <3>2
  <2>i. index' = b
    BY <1>2, Zenon DEF Import, Skips, Becomes
  <2> HIDE DEF at
  <2>6. symbol => at + 1 \in Place /\ Passes(at, at + 1)
    <3>1. CASE Token(at) = "*"
      <4>1. tokens[at] # "endmodule" /\ at + 1 \in Place
        BY <2>5, <3>1, TokenIs DEF Eof
      <4>2. QED
        BY <2>0, <2>5, <4>1, PassesToken
    <3>2. CASE IsIdentifier(Token(at))
      BY <2>5, <3>2, IdentifierPasses
    <3>3. QED
      BY <3>1, <3>2
  <2>s. after = IF symbol THEN at + 1 ELSE at
    OBVIOUS
  <2> HIDE DEF symbol, after
  <2>7. after \in Place /\ index <= after /\ Passes(index, after)
    <3>1. CASE symbol
      <4>1. at + 1 \in Place /\ Passes(at, at + 1) /\ after = at + 1
        BY <2>6, <2>s, <3>1
      <4>2. at \in Nat /\ at + 1 \in Nat /\ index <= at + 1
        BY <2>0, <2>3, <2>5
      <4>3. Passes(index, at + 1)
        BY <2>3, <2>5, <4>1, <4>2, PassesJoin
      <4>4. QED
        BY <4>1, <4>2, <4>3
    <3>2. CASE ~symbol
      BY <2>5, <2>s, <3>2
    <3>3. QED
      BY <3>1, <3>2
  <2>8. b \in Place /\ Passes(after, b)
    BY <2>7, ExpectEnds, ExpectPasses DEF Eof
  <2> HIDE DEF b
  <2>9. Passes(index, b)
    BY <2>0, <2>3, <2>7, <2>8, PassesJoin
  <2>10. QED
    BY <2>9, <2>i DEF StepPasses
<1>3. QED
  BY <1>1, <1>2

\* An unsupported construct, a typedef, a single token.
LEMMA OthersPass ==
    ASSUME TextOK, index \in Place, SkipConstruct \/ Typedef \/ OtherItem
    PROVE  StepPasses
<1>1. index \in Nat /\ \A a \in Place : a \in Nat
  BY DEF Place
<1>2. CASE SkipConstruct
  <2>1. ReadsItem(scope, UnsupportedKeywords)
    BY <1>2 DEF SkipConstruct
  <2>2. index < Len(tokens) /\ tokens[index] \in UnsupportedKeywords
    BY <2>1, ItemBegins
  <2>3. tokens[index] # "endmodule"
    BY <2>2 DEF UnsupportedKeywords, SystemVerilogOnly
  <2>4. index' = SkipUnsupported(index)
    BY <1>2, Zenon DEF SkipConstruct, Skips, Becomes
  <2>5. QED
    BY <2>2, <2>3, <2>4, SkipPasses DEF StepPasses
<1>3. CASE Typedef
  <2> DEFINE b == CollectUntilSemicolon(index + 1).next
  <2>1. index + 1 \in Place /\ tokens[index] # "endmodule"
    BY <1>3, TokenIs DEF Typedef, AtEof
  <2>2. b \in Place /\ b >= index + 1 /\ Passes(index + 1, b)
    BY <2>1, CollectedEnds, SemicolonPasses
  <2>3. index' = b
    BY <1>3, Zenon DEF Typedef
  <2> HIDE DEF b
  <2>4. b \in Nat /\ index + 1 \in Nat /\ index + 1 <= b
    BY <1>1, <2>1, <2>2
  <2>5. QED
    BY <1>1, <2>1, <2>2, <2>3, <2>4, PassesOn DEF StepPasses
<1>4. CASE OtherItem
  <2>1. tokens[index] # "endmodule"
    <3>1. Token(index) # "endmodule"
      BY <1>4 DEF OtherItem, ReadsItem
    <3>2. QED
      BY <1>1, <3>1, TokenIs
  <2>2. index' = index + 1
    BY <1>4, Zenon DEF OtherItem, Skips, Becomes
  <2>3. QED
    BY <1>1, <2>1, <2>2, PassesToken DEF StepPasses
<1>5. QED
  BY <1>2, <1>3, <1>4

\* A step in a module ends it, runs over no end of a module but within something
\* else that is still open there, or reports an error at the item.
EndsAreSeen == scope = "module" => scope' = "top" \/ StepPasses \/ StepReports

LEMMA StepSeesEnds ==
    ASSUME ParserInv, [ParserNext]_parsing, reading' # reading
    PROVE  EndsAreSeen
<1> SUFFICES ASSUME scope = "module" PROVE scope' = "top" \/ StepPasses \/ StepReports
  BY DEF EndsAreSeen
<1>1. TextOK /\ index \in Place
  BY DEF ParserInv
<1>2. CASE CloseModule
  BY <1>2 DEF CloseModule
<1>3. CASE \/ Declare \/ Parameters \/ Generate \/ Function \/ Task \/ ContinuousAssign \/ AlwaysBlock \/ Initial
  BY <1>1, <1>3, DeclarationPasses, GeneratePasses, SubroutinePasses, AssignPasses, BlockPasses
<1>4. CASE InterfaceInstance \/ UserType \/ ModuleInstance \/ Import
  BY <1>1, <1>4, InterfacePasses, UserTypePasses, InstancePasses, ImportPasses
<1>5. CASE SkipConstruct \/ Typedef \/ OtherItem
  BY <1>1, <1>5, OthersPass
<1>6. CASE OpenModule \/ Return
  BY <1>6 DEF OpenModule, Return
<1>7. CASE SkipModule \/ OtherAtTop \/ Modport
  <2>1. \E at \in {"top", "interface"} : \E first : ReadsItem(at, first)
    BY <1>7, Zenon DEF SkipModule, OtherAtTop, Modport
  <2>2. QED
    BY <2>1 DEF ReadsItem
<1>8. ASSUME NEW kind \in {"package", "interface"},
             OpenScope(kind) \/ CloseScope(kind) \/ SkipDeclaration(kind) \/ PassOver(kind)
      PROVE  FALSE
  <2>1. scope \in {"top", kind}
    BY <1>8, Zenon DEF OpenScope, CloseScope, SkipDeclaration, PassOver, ReadsItem
  <2>2. QED
    BY <2>1
<1>9. CASE UNCHANGED parsing
  BY <1>9 DEF parsing
<1>10. QED
  BY <1>2, <1>3, <1>4, <1>5, <1>6, <1>7, <1>8, <1>9, Zenon DEF ParserNext

\* Damage is contained.  While a module is read no step runs over an endmodule
\* in silence: a missing semicolon, end or bracket swallows the end of the module
\* only where a bracket, a block or another construct that began before is still
\* open, or the parser reports SYNTAX001 at the item that runs on.
THEOREM ModuleEndsAreSeen == ParserSpec => [][EndsAreSeen]_reading
<1>1. ParserInv /\ [ParserNext]_parsing => [EndsAreSeen]_reading
  BY StepSeesEnds
<1>2. QED
  BY <1>1, ParserInductive, PTL DEF ParserSpec, EndsWithEof

-----------------------------------------------------------------------------
(* The preprocessor and the parser side by side. *)

\* A behaviour of the composition is one of each part: a step of one of them
\* leaves the other alone.
LEMMA FrontEndIsItsParts == FrontEndSpec => Spec /\ ParserSpec
<1>1. [FrontEndNext]_<<vars, parsing>> => [Next]_vars /\ [ParserNext]_parsing
  BY DEF FrontEndNext, Preprocess, Parse
<1> QED
  BY <1>1, PTL DEF FrontEndSpec, Spec, ParserSpec

\* The preprocessor and the parser keep to their types in one behaviour, too,
\* for any files and any tokens.
THEOREM FrontEndTypeCorrect == FrontEndSpec => []FrontEndTypeOK
<1>1. TypeOK /\ ParserTypeOK => FrontEndTypeOK
  BY DEF FrontEndTypeOK
<1> QED
  BY <1>1, FrontEndIsItsParts, LinesTypeCorrect, ParserTypeCorrect, PTL

\* What is proved of the parts holds of their composition, which the run checks.
THEOREM FrontEndIsCorrect ==
    FrontEndSpec => /\ [](ActiveIsSelected /\ ConditionalErrorIsTrue /\ CommentErrorIsTrue /\ GuardedOnce)
                    /\ EveryItemAdvances /\ [][EndsAreSeen]_reading
BY FrontEndIsItsParts, SelectionIsTrue, ConditionalErrors, CommentErrors, GuardsWork, ItemsAdvance,
   ModuleEndsAreSeen, PTL

=============================================================================
