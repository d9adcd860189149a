-------------------------- MODULE PreprocessorProofs --------------------------
(***************************************************************************)
(* Theorems about Preprocessor, for every set of files, lines and macros:  *)
(* what _current_active looks at is enough, errors are reported for        *)
(* exactly the files that have them, include guards work, no line is read  *)
(* twice in one visit of a file, and includes are never deeper than there  *)
(* are files.                                                              *)
(***************************************************************************)
EXTENDS Preprocessor, SequenceTheorems, FiniteSetTheorems, WellFoundedInduction, TLAPS

-----------------------------------------------------------------------------
(* Induction over the natural numbers, with a set for what is to be shown. *)

LEMMA LeastNat ==
    ASSUME NEW T \in SUBSET Nat, T # {}
    PROVE  \E x \in T : \A y \in T : x <= y
<1> DEFINE R == OpToRel(<, Nat)
<1>1. IsWellFoundedOn(R, Nat)
  BY NatLessThanWellFounded, Zenon
<1> HIDE DEF R
<1>2. PICK x \in T : \A y \in T : ~(<<y, x>> \in R)
  BY <1>1, WFMin
<1>3. \A y \in T : ~(y < x)
  BY <1>2 DEF R, OpToRel
<1>4. QED
  BY <1>3

LEMMA Induction ==
    ASSUME NEW T, 0 \in T, \A n \in Nat : n \in T => n + 1 \in T
    PROVE  Nat \subseteq T
<1>1. SUFFICES ASSUME Nat \ T # {} PROVE FALSE
  OBVIOUS
<1>2. PICK x \in Nat \ T : \A y \in Nat \ T : x <= y
  BY <1>1, LeastNat
<1>3. x - 1 \in Nat
  BY <1>2
<1>4. x - 1 \in T
  BY <1>2, <1>3
<1>5. x - 1 + 1 = x
  BY <1>2
<1>6. QED
  BY <1>2, <1>3, <1>4, <1>5

-----------------------------------------------------------------------------
(* How many conditionals are open. *)

\* One line more.
After(g, i, up, down) ==
    IF i \in up THEN g[i - 1] + 1
    ELSE IF i \in down /\ g[i - 1] > 0 THEN g[i - 1] - 1
    ELSE g[i - 1]

Follows(g, m, up, down) ==
    /\ g \in [0 .. m -> Nat]
    /\ g[0] = 0
    /\ \A i \in 1 .. m : g[i] = After(g, i, up, down)

LEMMA SomeFollows ==
    ASSUME NEW up, NEW down
    PROVE  \A m \in Nat : \E g : Follows(g, m, up, down)
<1> DEFINE T == {m \in Nat : \E g : Follows(g, m, up, down)}
<1>1. 0 \in T
  <2>1. Follows([i \in 0 .. 0 |-> 0], 0, up, down)
    BY DEF Follows
  <2>2. QED
    BY <2>1
<1>2. ASSUME NEW m \in Nat, m \in T PROVE m + 1 \in T
  <2>1. PICK g : Follows(g, m, up, down)
    BY <1>2
  <2> DEFINE h == [i \in 0 .. m + 1 |-> IF i = m + 1 THEN After(g, i, up, down) ELSE g[i]]
  <2>2. \A i \in 0 .. m : h[i] = g[i] /\ h[i] \in Nat
    BY <2>1 DEF Follows
  <2>3. h[m + 1] = After(g, m + 1, up, down) /\ DOMAIN h = 0 .. m + 1
    OBVIOUS
  <2>4. h = [i \in DOMAIN h |-> h[i]]
    OBVIOUS
  <2> HIDE DEF h
  <2>5. \A i \in 1 .. m + 1 : h[i - 1] = g[i - 1] /\ g[i - 1] \in Nat
    BY <2>2
  <2>6. \A i \in 1 .. m + 1 : After(h, i, up, down) = After(g, i, up, down)
    BY <2>5 DEF After
  <2>7. After(g, m + 1, up, down) \in Nat
    BY <2>5 DEF After
  <2>8. \A i \in 1 .. m : h[i] = After(g, i, up, down)
    BY <2>1, <2>2 DEF Follows
  <2>9. \A i \in 1 .. m + 1 : h[i] = After(h, i, up, down)
    BY <2>3, <2>6, <2>8
  <2>10. \A i \in 0 .. m + 1 : h[i] \in Nat
    BY <2>2, <2>3, <2>7
  <2>11. h \in [0 .. m + 1 -> Nat] /\ h[0] = 0
    BY <2>1, <2>2, <2>3, <2>4, <2>10 DEF Follows
  <2>12. Follows(h, m + 1, up, down)
    BY <2>9, <2>11 DEF Follows
  <2>13. QED
    BY <2>12
<1> HIDE DEF T
<1>3. Nat \subseteq T
  BY <1>1, <1>2, Induction
<1>4. QED
  BY <1>3 DEF T

\* The recursive definition of Levels has what it says.
LEMMA LevelsFollow ==
    ASSUME NEW m \in Nat, NEW up, NEW down
    PROVE  Follows(Levels(m, up, down), m, up, down)
<1> DEFINE Body(g) == [i \in 0 .. m |->
                IF i = 0 THEN 0
                ELSE IF i \in up THEN g[i - 1] + 1
                ELSE IF i \in down /\ g[i - 1] > 0 THEN g[i - 1] - 1
                ELSE g[i - 1]]
<1>1. PICK f : Follows(f, m, up, down)
  BY SomeFollows
<1>2. f = Body(f)
  <2>1. f = [i \in 0 .. m |-> f[i]]
    BY <1>1 DEF Follows
  <2>2. \A i \in 0 .. m : f[i] = Body(f)[i]
    BY <1>1 DEF Follows, After
  <2>3. QED
    BY <2>1, <2>2
<1>3. Levels(m, up, down) = CHOOSE g : g = Body(g)
  BY DEF Levels
<1> DEFINE L == Levels(m, up, down)
<1>4. L = Body(L)
  BY <1>2, <1>3
<1> HIDE DEF L
<1>5. DOMAIN L = 0 .. m /\ L[0] = 0
  BY <1>4
<1>6. \A i \in 1 .. m : L[i] = After(L, i, up, down)
  BY <1>4 DEF After
<1> DEFINE T == {i \in Nat : i <= m => L[i] \in Nat}
<1>7. 0 \in T
  BY <1>5
<1>8. ASSUME NEW n \in Nat, n \in T PROVE n + 1 \in T
  <2>1. SUFFICES ASSUME n + 1 <= m PROVE L[n + 1] \in Nat
    OBVIOUS
  <2>2. L[n] \in Nat /\ n + 1 \in 1 .. m /\ n + 1 - 1 = n
    BY <1>8, <2>1
  <2>3. QED
    BY <1>6, <2>2 DEF After
<1> HIDE DEF T
<1>9. Nat \subseteq T
  BY <1>7, <1>8, Induction
<1>10. \A i \in 0 .. m : L[i] \in Nat
  BY <1>9 DEF T
<1>11. L \in [0 .. m -> Nat]
  BY <1>4, <1>5, <1>10
<1>12. QED
  BY <1>5, <1>6, <1>11 DEF Follows, L

\* What comes later does not matter.
LEMMA LevelsAgree ==
    ASSUME NEW m \in Nat, NEW n \in Nat, NEW up, NEW down, NEW up2, NEW down2,
           m <= n, up2 \cap 1 .. m = up \cap 1 .. m, down2 \cap 1 .. m = down \cap 1 .. m
    PROVE  \A i \in 0 .. m : Levels(n, up2, down2)[i] = Levels(m, up, down)[i]
<1> DEFINE g == Levels(m, up, down)
           h == Levels(n, up2, down2)
<1>1. Follows(g, m, up, down) /\ Follows(h, n, up2, down2)
  BY LevelsFollow
<1> HIDE DEF g, h
<1> DEFINE T == {i \in Nat : i <= m => h[i] = g[i]}
<1>2. 0 \in T
  BY <1>1 DEF Follows
<1>3. ASSUME NEW i \in Nat, i \in T PROVE i + 1 \in T
  <2>1. SUFFICES ASSUME i + 1 <= m PROVE h[i + 1] = g[i + 1]
    OBVIOUS
  <2>2. h[i] = g[i] /\ i + 1 \in 1 .. m /\ i + 1 \in 1 .. n /\ i + 1 - 1 = i
    BY <1>3, <2>1
  <2>3. (i + 1 \in up2 <=> i + 1 \in up) /\ (i + 1 \in down2 <=> i + 1 \in down)
    BY <2>2
  <2>4. g[i + 1] = After(g, i + 1, up, down) /\ h[i + 1] = After(h, i + 1, up2, down2)
    BY <1>1, <2>2 DEF Follows
  <2>5. QED
    BY <2>2, <2>3, <2>4 DEF After
<1> HIDE DEF T
<1>4. Nat \subseteq T
  BY <1>2, <1>3, Induction
<1>5. QED
  BY <1>4 DEF T, g, h

-----------------------------------------------------------------------------
(* What the text of a file says, when it has one line more. *)

Text == Seq(AnyLine)
PrefixOf(t, u) == Len(t) <= Len(u) /\ \A i \in DOMAIN t : u[i] = t[i]

LEMMA PrefixDomain ==
    ASSUME NEW t \in Text, NEW u \in Text, PrefixOf(t, u)
    PROVE  /\ DOMAIN t = 1 .. Len(t) /\ DOMAIN u = 1 .. Len(u)
           /\ Len(t) \in Nat /\ Len(u) \in Nat /\ Len(t) <= Len(u)
           /\ \A i \in 1 .. Len(t) : u[i] = t[i]
  BY DEF Text, PrefixOf

LEMMA CommentPrefix ==
    ASSUME NEW t \in Text, NEW u \in Text, PrefixOf(t, u), NEW n \in 0 .. Len(t)
    PROVE  InComment(u, n) <=> InComment(t, n)
<1>1. Len(t) \in Nat /\ \A i \in 1 .. Len(t) : u[i] = t[i]
  BY PrefixDomain
<1>2. \A i \in 1 .. n : /\ u[i] = t[i] /\ i \in Int
                        /\ \A k \in i + 1 .. n : u[k] = t[k]
  BY <1>1
<1>3. QED
  BY <1>2 DEF InComment

\* A line that begins a comment, or one in a comment that does not end it.
LEMMA CommentStep ==
    ASSUME NEW t \in Text, NEW n \in Nat, n + 1 \in DOMAIN t,
           t[n + 1].directive = "close" => ~t[n + 1].opens
    PROVE  /\ ~InComment(t, 0)
           /\ InComment(t, n + 1) <=>
                  t[n + 1].opens \/ (InComment(t, n) /\ t[n + 1].directive # "close")
<1>1. ~InComment(t, 0)
  BY DEF InComment
<1>2. ASSUME t[n + 1].opens PROVE InComment(t, n + 1)
  BY <1>2 DEF InComment
<1>3. ASSUME InComment(t, n), t[n + 1].directive # "close" PROVE InComment(t, n + 1)
  <2>1. PICK i \in 1 .. n : t[i].opens /\ \A k \in i + 1 .. n : t[k].directive # "close"
    BY <1>3 DEF InComment
  <2>2. \A k \in i + 1 .. n + 1 : t[k].directive # "close"
    BY <1>3, <2>1
  <2>3. QED
    BY <2>1, <2>2 DEF InComment
<1>4. ASSUME InComment(t, n + 1), ~t[n + 1].opens
      PROVE  InComment(t, n) /\ t[n + 1].directive # "close"
  <2>1. PICK i \in 1 .. n + 1 : t[i].opens /\ \A k \in i + 1 .. n + 1 : t[k].directive # "close"
    BY <1>4 DEF InComment
  <2>2. i \in 1 .. n /\ n + 1 \in i + 1 .. n + 1 /\ \A k \in i + 1 .. n : k \in i + 1 .. n + 1
    BY <1>4, <2>1
  <2>3. QED
    BY <2>1, <2>2 DEF InComment
<1>5. QED
  BY <1>1, <1>2, <1>3, <1>4

LEMMA HavingIs ==
    ASSUME NEW t \in Text, NEW D
    PROVE  /\ Having(t, D) \subseteq 1 .. Len(t)
           /\ \A i \in 1 .. Len(t) :
                  i \in Having(t, D) <=> ~InComment(t, i - 1) /\ t[i].directive \in D
  BY DEF Text, Having, Code

LEMMA HavingPrefix ==
    ASSUME NEW t \in Text, NEW u \in Text, PrefixOf(t, u), NEW D
    PROVE  Having(u, D) \cap 1 .. Len(t) = Having(t, D)
<1>1. /\ Len(t) \in Nat /\ Len(u) \in Nat /\ Len(t) <= Len(u)
      /\ \A i \in 1 .. Len(t) : u[i] = t[i] /\ i \in 1 .. Len(u) /\ i - 1 \in 0 .. Len(t)
  BY PrefixDomain
<1>2. \A i \in 1 .. Len(t) : InComment(u, i - 1) <=> InComment(t, i - 1)
  BY <1>1, CommentPrefix
<1>3. \A i \in 1 .. Len(t) : i \in Having(u, D) <=> i \in Having(t, D)
  BY <1>1, <1>2, HavingIs
<1>4. QED
  BY <1>3, HavingIs

LEMMA DepthPrefix ==
    ASSUME NEW t \in Text, NEW u \in Text, PrefixOf(t, u), NEW n \in 0 .. Len(t)
    PROVE  Depth(u, n) = Depth(t, n)
<1>1. Len(t) \in Nat /\ Len(u) \in Nat /\ Len(t) <= Len(u)
  BY PrefixDomain
<1>2. ASSUME NEW D PROVE Having(u, D) \cap 1 .. Len(t) = Having(t, D) \cap 1 .. Len(t)
  BY HavingPrefix, HavingIs
<1>3. QED
  BY <1>1, <1>2, LevelsAgree DEF Depth

\* A line outside of comments with `ifdef or `ifndef, or with `endif if one is
\* open, changes the depth by one; any other leaves it.
LEMMA DepthStep ==
    ASSUME NEW t \in Text, NEW n \in Nat, n + 1 \in DOMAIN t
    PROVE  /\ Depth(t, 0) = 0 /\ Depth(t, n) \in Nat /\ Depth(t, n + 1) \in Nat
           /\ InComment(t, n) => Depth(t, n + 1) = Depth(t, n)
           /\ ~InComment(t, n) =>
                Depth(t, n + 1) =
                  IF t[n + 1].directive \in {"ifdef", "ifndef"} THEN Depth(t, n) + 1
                  ELSE IF t[n + 1].directive = "endif" /\ Depth(t, n) > 0 THEN Depth(t, n) - 1
                  ELSE Depth(t, n)
<1> DEFINE up == Having(t, {"ifdef", "ifndef"})
           down == Having(t, {"endif"})
           g == Levels(Len(t), up, down)
<1>1. Len(t) \in Nat /\ DOMAIN t = 1 .. Len(t)
  BY DEF Text
<1>2. Follows(g, Len(t), up, down)
  BY <1>1, LevelsFollow
<1>3. \A i : Depth(t, i) = g[i]
  BY DEF Depth
<1>4. n + 1 \in 1 .. Len(t) /\ n \in 0 .. Len(t) /\ n + 1 - 1 = n /\ n + 1 \in 0 .. Len(t) /\ 0 \in 0 .. Len(t)
  BY <1>1
<1>5. /\ n + 1 \in up <=> ~InComment(t, n) /\ t[n + 1].directive \in {"ifdef", "ifndef"}
      /\ n + 1 \in down <=> ~InComment(t, n) /\ t[n + 1].directive = "endif"
  BY <1>4, HavingIs
<1> HIDE DEF g, up, down
<1>6. g[0] = 0 /\ g[n] \in Nat /\ g[n + 1] \in Nat /\ g[n + 1] = After(g, n + 1, up, down)
  BY <1>2, <1>4 DEF Follows
<1>7. QED
  BY <1>3, <1>4, <1>5, <1>6 DEF After

\* An empty text has no conditionals.
LEMMA DepthZero ==
    ASSUME NEW t \in Text PROVE Depth(t, 0) = 0 /\ \A n \in 0 .. Len(t) : Depth(t, n) \in Nat
<1>1. Len(t) \in Nat
  BY DEF Text
<1>2. QED
  BY <1>1, LevelsFollow DEF Depth, Follows

\* The directives without a conditional of a text and of one with a line more.
LEMMA StrayStep ==
    ASSUME NEW t \in Text, NEW u \in Text, PrefixOf(t, u), Len(u) = Len(t) + 1
    PROVE  HasStray(u) <=>
               \/ HasStray(t)
               \/ /\ ~InComment(t, Len(t)) /\ Depth(t, Len(t)) = 0
                  /\ u[Len(u)].directive \in {"elsif", "else", "endif"}
<1> DEFINE D == {"elsif", "else", "endif"}
<1>1. /\ Len(t) \in Nat /\ Len(u) = Len(t) + 1 /\ DOMAIN t = 1 .. Len(t)
      /\ 1 .. Len(u) = 1 .. Len(t) \cup {Len(u)} /\ Len(u) \in 1 .. Len(u)
      /\ Len(t) \in 0 .. Len(t) /\ Len(u) - 1 = Len(t)
  BY PrefixDomain
<1>2. Having(u, D) \cap 1 .. Len(t) = Having(t, D)
  BY HavingPrefix
<1>3. Having(u, D) \subseteq 1 .. Len(u) /\ Having(t, D) \subseteq 1 .. Len(t)
  BY HavingIs
<1>4. Len(u) \in Having(u, D) <=> ~InComment(t, Len(t)) /\ u[Len(u)].directive \in D
  BY <1>1, HavingIs, CommentPrefix
<1>5. \A i \in 1 .. Len(u) : Depth(u, i - 1) = Depth(t, i - 1)
  BY <1>1, DepthPrefix
<1> HIDE DEF D
<1>6. HasStray(u) <=> \E i \in Having(u, D) : Depth(t, i - 1) = 0
  BY <1>3, <1>5 DEF HasStray, D
<1>7. HasStray(t) <=> \E i \in Having(t, D) : Depth(t, i - 1) = 0
  BY DEF HasStray, D
<1>8. QED
  BY <1>1, <1>2, <1>3, <1>4, <1>6, <1>7 DEF D

-----------------------------------------------------------------------------
(* What the actions for a line have in common. *)

Closers     == {"elsif", "else", "endif"}
Conditional == {"ifdef", "ifndef"} \cup Closers

NewFrame(l) == [parent |-> Active, active |-> Active /\ Holds(l), taken |-> Holds(l), seen |-> <<Holds(l)>>]
Turned(frame, c) ==
    [frame EXCEPT !.active = frame.parent /\ ~frame.taken /\ c,
                  !.taken  = frame.taken \/ c,
                  !.seen   = Append(@, c)]

\* The frames of the current file after line l.
FrameStep(l, frames) ==
    \/ /\ comment \/ l.directive \notin Conditional
       /\ frames = Frames
    \/ /\ ~comment /\ l.directive \in {"ifdef", "ifndef"}
       /\ frames = Append(Frames, NewFrame(l))
    \/ /\ ~comment /\ l.directive \in {"elsif", "else"} /\ Frames # <<>>
       /\ \E c \in BOOLEAN :
            frames = [Frames EXCEPT ![Len(Frames)] = Turned(Frames[Len(Frames)], c)]
    \/ /\ ~comment /\ l.directive = "endif" /\ Frames # <<>>
       /\ frames = SubSeq(Frames, 1, Len(Frames) - 1)
    \/ /\ ~comment /\ l.directive \in Closers /\ Frames = <<>>
       /\ frames = Frames

\* The files being read after line l.
CallStep(l, frames) ==
    \/ calls' = Advanced(frames)
    \/ /\ ~comment /\ l.directive = "include" /\ Active
       /\ \E f \in File \ {calls[i].file : i \in DOMAIN calls} :
            calls' = Append(Advanced(frames), Opened(f))

\* What line l does besides.
Effects(l) ==
    LET at == <<Current.file, Current.line + 1>> IN
    /\ comment' = IF comment THEN l.directive # "close" ELSE l.opens
    /\ \A f \in File :
         /\ <<"PP002", f>> \in diagnostics' <=>
                \/ <<"PP002", f>> \in diagnostics
                \/ f = Current.file /\ ~comment /\ l.directive \in Closers /\ Frames = <<>>
         /\ <<"PP004", f>> \in diagnostics' <=> <<"PP004", f>> \in diagnostics
    /\ \/ UNCHANGED output
       \/ /\ ~comment /\ Active /\ l.directive \in {"text", "use", "close"}
          /\ emitted' = emitted \cup {at}
          /\ repeated' = repeated \cup ({at} \cap emitted)
    /\ IF ~comment /\ Active /\ l.directive = "define" THEN defines' = defines \cup {l.arg}
       ELSE IF ~comment /\ Active /\ l.directive = "undef" THEN defines' = defines \ {l.arg}
       ELSE defines' = defines

LineStep(l) ==
    /\ calls # <<>>
    /\ Reads(l)
    /\ UNCHANGED <<closed, next>>
    /\ nettypeNone' \in BOOLEAN /\ timescale' \subseteq timescale \cup {Current.file}
    /\ diagnostics' \subseteq diagnostics \cup ({"PP001", "PP002", "PP003", "UNSUPPORTED"} \X File)
    /\ Effects(l)
    /\ \E frames \in Seq(Frame) : FrameStep(l, frames) /\ CallStep(l, frames)

LineAction(l) ==
    \/ Blank(l) \/ SkipCode(l) \/ EmitCode(l)
    \/ If(l) \/ Elsif(l) \/ Else(l) \/ Endif(l) \/ Stray(l)
    \/ Ignore(l) \/ Include(l) \/ RefuseInclude(l) \/ Define(l) \/ Note(l) \/ Unsupported(l)

LEMMA CurrentType ==
    ASSUME TypeOK, calls # <<>>
    PROVE  /\ Len(calls) \in Nat \ {0} /\ DOMAIN calls = 1 .. Len(calls) /\ Len(calls) \in DOMAIN calls
           /\ Current = calls[Len(calls)] /\ Current \in Call
           /\ Current.file \in File /\ Current.line \in Nat /\ Frames \in Seq(Frame)
<1>1. calls \in Seq(Call)
  BY DEF TypeOK
<1>2. Len(calls) \in Nat \ {0} /\ DOMAIN calls = 1 .. Len(calls) /\ calls[Len(calls)] \in Call
  BY <1>1
<1>3. Current = calls[Len(calls)]
  BY DEF Current, Last
<1>4. QED
  BY <1>2, <1>3 DEF Call, Frames

LEMMA FramesType ==
    ASSUME TypeOK, calls # <<>>
    PROVE  /\ Len(Frames) \in Nat /\ DOMAIN Frames = 1 .. Len(Frames)
           /\ Frames # <<>> <=> Len(Frames) > 0
           /\ Frames # <<>> => Frames[Len(Frames)] \in Frame /\ Last(Frames) = Frames[Len(Frames)]
           /\ \A i \in 1 .. Len(Frames) : Frames[i] \in Frame
           /\ Active \in BOOLEAN
<1> DEFINE s == Frames
<1>1. s \in Seq(Frame)
  BY CurrentType
<1>2. Last(s) = s[Len(s)] /\ (Active <=> IF s = <<>> THEN TRUE ELSE Last(s).active)
  BY DEF Last, Active
<1>3. Active = (IF s = <<>> THEN TRUE ELSE Last(s).active)
  BY DEF Active
<1> HIDE DEF s
<1>4. /\ Len(s) \in Nat /\ DOMAIN s = 1 .. Len(s)
      /\ s # <<>> <=> Len(s) > 0
      /\ \A i \in 1 .. Len(s) : s[i] \in Frame
  BY <1>1
<1>5. s # <<>> => s[Len(s)] \in Frame
  BY <1>4
<1>6. Active \in BOOLEAN
  BY <1>2, <1>3, <1>5 DEF Frame
<1>7. QED
  BY <1>2, <1>4, <1>5, <1>6 DEF s

LEMMA HoldsType == \A l : Holds(l) \in BOOLEAN
<1> TAKE l
<1>1. CASE l.directive = "ifndef"
  <2>1. Holds(l) = (l.arg \notin defines)
    BY <1>1, Zenon DEF Holds
  <2>2. QED
    BY <2>1
<1>2. CASE l.directive # "ifndef"
  <2>1. Holds(l) = (l.arg \in defines)
    BY <1>2, Zenon DEF Holds
  <2>2. QED
    BY <2>1
<1>3. QED
  BY <1>1, <1>2

LEMMA TurnedType ==
    ASSUME NEW frame \in Frame, NEW c \in BOOLEAN
    PROVE  /\ Turned(frame, c) \in Frame
           /\ Turned(frame, c).parent = frame.parent
           /\ Turned(frame, c).active = (frame.parent /\ ~frame.taken /\ c)
           /\ Turned(frame, c).taken = (frame.taken \/ c)
           /\ Turned(frame, c).seen = Append(frame.seen, c)
<1>1. Append(frame.seen, c) \in Seq(BOOLEAN)
  BY DEF Frame
<1>2. QED
  BY <1>1 DEF Turned, Frame

LEMMA NewFrameType ==
    ASSUME TypeOK, calls # <<>>, NEW l PROVE NewFrame(l) \in Frame
<1>1. Active \in BOOLEAN /\ Holds(l) \in BOOLEAN /\ <<Holds(l)>> \in Seq(BOOLEAN)
  BY FramesType, HoldsType
<1>2. QED
  BY <1>1 DEF NewFrame, Frame

\* What the frames of a file can become.
LEMMA FrameSeqs ==
    ASSUME NEW S, NEW s \in Seq(S), NEW x \in S
    PROVE  /\ Append(s, x) \in Seq(S) /\ Len(Append(s, x)) = Len(s) + 1
           /\ Append(s, x)[Len(s) + 1] = x /\ \A i \in 1 .. Len(s) : Append(s, x)[i] = s[i]
           /\ s # <<>> =>
                /\ [s EXCEPT ![Len(s)] = x] \in Seq(S) /\ Len([s EXCEPT ![Len(s)] = x]) = Len(s)
                /\ [s EXCEPT ![Len(s)] = x][Len(s)] = x
                /\ \A i \in 1 .. Len(s) - 1 : [s EXCEPT ![Len(s)] = x][i] = s[i]
           /\ s # <<>> =>
                /\ SubSeq(s, 1, Len(s) - 1) \in Seq(S) /\ Len(SubSeq(s, 1, Len(s) - 1)) = Len(s) - 1
                /\ \A i \in 1 .. Len(s) - 1 : SubSeq(s, 1, Len(s) - 1)[i] = s[i]
<1>1. Len(s) \in Nat /\ DOMAIN s = 1 .. Len(s) /\ s \in [1 .. Len(s) -> S]
  OBVIOUS
<1>2. /\ Append(s, x) \in Seq(S) /\ Len(Append(s, x)) = Len(s) + 1
      /\ Append(s, x)[Len(s) + 1] = x /\ \A i \in 1 .. Len(s) : Append(s, x)[i] = s[i]
  OBVIOUS
<1>3. ASSUME s # <<>>
      PROVE  /\ [s EXCEPT ![Len(s)] = x] \in Seq(S) /\ Len([s EXCEPT ![Len(s)] = x]) = Len(s)
             /\ [s EXCEPT ![Len(s)] = x][Len(s)] = x
             /\ \A i \in 1 .. Len(s) - 1 : [s EXCEPT ![Len(s)] = x][i] = s[i]
  <2> DEFINE u == [s EXCEPT ![Len(s)] = x]
  <2>1. Len(s) \in 1 .. Len(s)
    BY <1>1, <1>3
  <2> DEFINE n == Len(s)
  <2>2. n \in Nat /\ n \in 1 .. n /\ s \in [1 .. n -> S]
    BY <1>1, <2>1
  <2>3. u = [s EXCEPT ![n] = x]
    OBVIOUS
  <2> HIDE DEF n, u
  <2>4. \A i \in 1 .. n - 1 : i # n /\ i \in 1 .. n
    BY <2>2
  <2>5. u \in [1 .. n -> S] /\ u[n] = x /\ \A i \in 1 .. n - 1 : u[i] = s[i]
    BY <2>2, <2>3, <2>4
  <2>6. u \in Seq(S) /\ Len(u) = n
    BY <2>2, <2>5
  <2>7. QED
    BY <2>5, <2>6 DEF n, u
<1>4. ASSUME s # <<>>
      PROVE  /\ SubSeq(s, 1, Len(s) - 1) \in Seq(S) /\ Len(SubSeq(s, 1, Len(s) - 1)) = Len(s) - 1
             /\ \A i \in 1 .. Len(s) - 1 : SubSeq(s, 1, Len(s) - 1)[i] = s[i]
  BY <1>1, <1>4
<1>5. QED
  BY <1>2, <1>3, <1>4

LEMMA HandledLine ==
    ASSUME TypeOK, NEW l, NEW D, Handles(l, D)
    PROVE  /\ calls # <<>> /\ Reads(l) /\ UNCHANGED <<closed, next>>
           /\ ~comment /\ comment' = l.opens /\ l.directive \in D
<1>1. Reads(l) => calls # <<>>
  BY DEF Reads
<1>2. QED
  BY <1>1 DEF Handles

\* A line that leaves the frames as they are.
LEMMA PlainFrames ==
    ASSUME TypeOK, calls # <<>>, NEW l,
           comment \/ l.directive \notin Conditional, calls' = Advanced(Frames)
    PROVE  \E frames \in Seq(Frame) : FrameStep(l, frames) /\ CallStep(l, frames)
<1>1. Frames \in Seq(Frame)
  BY CurrentType
<1>2. FrameStep(l, Frames) /\ CallStep(l, Frames)
  BY DEF FrameStep, CallStep
<1>3. QED
  BY <1>1, <1>2

\* Every action for a line is a step of this form.
LEMMA LineActionSteps ==
    ASSUME TypeOK, NEW l \in AnyLine, LineAction(l)
    PROVE  LineStep(l)
<1> USE DEF TypeOK
<1>a. l.directive \in Directive /\ l.opens \in BOOLEAN
  BY DEF AnyLine
<1>1. CASE Blank(l)
  <2>1. /\ calls # <<>> /\ comment /\ Reads(l) /\ comment' = (l.directive # "close")
        /\ calls' = Advanced(Frames) /\ UNCHANGED <<closed, next, shared, diagnostics, output>>
    BY <1>1 DEF Blank, Reads
  <2>2. Effects(l)
    BY <2>1 DEF Effects, shared
  <2>3. QED
    BY <2>1, <2>2, PlainFrames DEF LineStep, shared
<1>2. CASE SkipCode(l)
  <2>1. Handles(l, {"text", "use", "close"})
    BY <1>2, Zenon DEF SkipCode
  <2>2. /\ ~Active /\ calls' = Advanced(Frames) /\ UNCHANGED <<shared, diagnostics, output>>
    BY <1>2, CurrentType, HandledLine DEF SkipCode
  <2>3. /\ calls # <<>> /\ Reads(l) /\ UNCHANGED <<closed, next>>
        /\ ~comment /\ comment' = l.opens /\ l.directive \in {"text", "use", "close"}
    BY <2>1, HandledLine
  <2>4. Effects(l)
    BY <2>2, <2>3 DEF Effects, shared, Others, Closers
  <2>5. l.directive \notin Conditional
    BY <2>3 DEF Conditional, Closers, Others
  <2>6. \E frames \in Seq(Frame) : FrameStep(l, frames) /\ CallStep(l, frames)
    BY <2>2, <2>3, <2>5, PlainFrames
  <2>7. QED
    BY <2>2, <2>3, <2>4, <2>6, CurrentType DEF LineStep, shared
<1>3. CASE EmitCode(l)
  <2>1. Handles(l, {"text", "use", "close"})
    BY <1>3, Zenon DEF EmitCode
  <2>2. /\ Active /\ calls' = Advanced(Frames) /\ UNCHANGED shared
        /\ emitted' = emitted \cup {<<Current.file, Current.line + 1>>}
        /\ repeated' = repeated \cup ({<<Current.file, Current.line + 1>>} \cap emitted)
        /\ diagnostics' \subseteq diagnostics \cup {<<"PP003", Current.file>>}
        /\ diagnostics \subseteq diagnostics'
    BY <1>3, CurrentType, HandledLine DEF EmitCode
  <2>3. /\ calls # <<>> /\ Reads(l) /\ UNCHANGED <<closed, next>>
        /\ ~comment /\ comment' = l.opens /\ l.directive \in {"text", "use", "close"}
    BY <2>1, HandledLine
  <2>4. Effects(l)
    BY <2>2, <2>3 DEF Effects, shared, Others, Closers
  <2>5. l.directive \notin Conditional
    BY <2>3 DEF Conditional, Closers, Others
  <2>6. \E frames \in Seq(Frame) : FrameStep(l, frames) /\ CallStep(l, frames)
    BY <2>2, <2>3, <2>5, PlainFrames
  <2>7. QED
    BY <2>2, <2>3, <2>4, <2>6, CurrentType DEF LineStep, shared
<1>4. CASE Ignore(l)
  <2>1. Handles(l, Others)
    BY <1>4, Zenon DEF Ignore
  <2>2. /\ ~Active /\ calls' = Advanced(Frames) /\ UNCHANGED <<shared, diagnostics, output>>
    BY <1>4, CurrentType, HandledLine DEF Ignore
  <2>3. /\ calls # <<>> /\ Reads(l) /\ UNCHANGED <<closed, next>>
        /\ ~comment /\ comment' = l.opens /\ l.directive \in Others
    BY <2>1, HandledLine
  <2>4. Effects(l)
    BY <2>2, <2>3 DEF Effects, shared, Others, Closers
  <2>5. l.directive \notin Conditional
    BY <2>3 DEF Conditional, Closers, Others
  <2>6. \E frames \in Seq(Frame) : FrameStep(l, frames) /\ CallStep(l, frames)
    BY <2>2, <2>3, <2>5, PlainFrames
  <2>7. QED
    BY <2>2, <2>3, <2>4, <2>6, CurrentType DEF LineStep, shared
<1>5. CASE RefuseInclude(l)
  <2>1. Handles(l, {"include"})
    BY <1>5, Zenon DEF RefuseInclude
  <2>2. /\ calls' = Advanced(Frames) /\ UNCHANGED <<shared, output>>
        /\ \E f \in File : diagnostics' = diagnostics \cup {<<"PP001", f>>}
    BY <1>5, CurrentType, HandledLine DEF RefuseInclude
  <2>3. /\ calls # <<>> /\ Reads(l) /\ UNCHANGED <<closed, next>>
        /\ ~comment /\ comment' = l.opens /\ l.directive \in {"include"}
    BY <2>1, HandledLine
  <2>4. Effects(l)
    BY <2>2, <2>3 DEF Effects, shared, Others, Closers
  <2>5. l.directive \notin Conditional
    BY <2>3 DEF Conditional, Closers, Others
  <2>6. \E frames \in Seq(Frame) : FrameStep(l, frames) /\ CallStep(l, frames)
    BY <2>2, <2>3, <2>5, PlainFrames
  <2>7. QED
    BY <2>2, <2>3, <2>4, <2>6, CurrentType DEF LineStep, shared
<1>6. CASE Define(l)
  <2>1. Handles(l, {"define", "undef"})
    BY <1>6, Zenon DEF Define
  <2>2. /\ Active /\ calls' = Advanced(Frames)
        /\ defines' = IF l.directive = "define" THEN defines \cup {l.arg} ELSE defines \ {l.arg}
        /\ UNCHANGED <<nettypeNone, timescale, diagnostics, output>>
    BY <1>6, CurrentType, HandledLine DEF Define
  <2>3. /\ calls # <<>> /\ Reads(l) /\ UNCHANGED <<closed, next>>
        /\ ~comment /\ comment' = l.opens /\ l.directive \in {"define", "undef"}
    BY <2>1, HandledLine
  <2>4. Effects(l)
    BY <2>2, <2>3 DEF Effects, shared, Others, Closers
  <2>5. l.directive \notin Conditional
    BY <2>3 DEF Conditional, Closers, Others
  <2>6. \E frames \in Seq(Frame) : FrameStep(l, frames) /\ CallStep(l, frames)
    BY <2>2, <2>3, <2>5, PlainFrames
  <2>7. QED
    BY <2>2, <2>3, <2>4, <2>6, CurrentType DEF LineStep, shared
<1>7. CASE Note(l)
  <2>1. Handles(l, {"nettype", "timescale"})
    BY <1>7, Zenon DEF Note
  <2>2. /\ calls' = Advanced(Frames)
        /\ nettypeNone' \in BOOLEAN /\ timescale' \subseteq timescale \cup {Current.file}
        /\ UNCHANGED <<defines, diagnostics, output>>
    BY <1>7, CurrentType, HandledLine DEF Note
  <2>3. /\ calls # <<>> /\ Reads(l) /\ UNCHANGED <<closed, next>>
        /\ ~comment /\ comment' = l.opens /\ l.directive \in {"nettype", "timescale"}
    BY <2>1, HandledLine
  <2>4. Effects(l)
    BY <2>2, <2>3 DEF Effects, shared, Others, Closers
  <2>5. l.directive \notin Conditional
    BY <2>3 DEF Conditional, Closers, Others
  <2>6. \E frames \in Seq(Frame) : FrameStep(l, frames) /\ CallStep(l, frames)
    BY <2>2, <2>3, <2>5, PlainFrames
  <2>7. QED
    BY <2>2, <2>3, <2>4, <2>6, CurrentType DEF LineStep, shared
<1>8. CASE Unsupported(l)
  <2>1. Handles(l, {"odd", "nameless"})
    BY <1>8, Zenon DEF Unsupported
  <2>2. /\ calls' = Advanced(Frames) /\ UNCHANGED <<shared, output>>
        /\ \E rule \in {"UNSUPPORTED", "PP003"} : diagnostics' = diagnostics \cup {<<rule, Current.file>>}
    BY <1>8, CurrentType, HandledLine DEF Unsupported, Report
  <2>3. /\ calls # <<>> /\ Reads(l) /\ UNCHANGED <<closed, next>>
        /\ ~comment /\ comment' = l.opens /\ l.directive \in {"odd", "nameless"}
    BY <2>1, HandledLine
  <2>4. Effects(l)
    BY <2>2, <2>3 DEF Effects, shared, Others, Closers
  <2>5. l.directive \notin Conditional
    BY <2>3 DEF Conditional, Closers, Others
  <2>6. \E frames \in Seq(Frame) : FrameStep(l, frames) /\ CallStep(l, frames)
    BY <2>2, <2>3, <2>5, PlainFrames
  <2>7. QED
    BY <2>2, <2>3, <2>4, <2>6, CurrentType DEF LineStep, shared
<1>9. CASE If(l)
  <2>1. Handles(l, {"ifdef", "ifndef"})
    BY <1>9, Zenon DEF If
  <2>2. /\ calls' = Advanced(Append(Frames, NewFrame(l)))
        /\ UNCHANGED <<shared, diagnostics, output>>
    BY <1>9, Zenon DEF If, NewFrame
  <2>3. /\ calls # <<>> /\ Reads(l) /\ UNCHANGED <<closed, next>>
        /\ ~comment /\ comment' = l.opens /\ l.directive \in {"ifdef", "ifndef"}
    BY <2>1, HandledLine
  <2>4. Effects(l)
    BY <2>2, <2>3, CurrentType DEF Effects, shared, Closers
  <2> DEFINE frames == Append(Frames, NewFrame(l))
  <2>5. frames \in Seq(Frame)
    BY <2>3, CurrentType, NewFrameType, FrameSeqs
  <2>6. FrameStep(l, frames)
    BY <2>2, <2>3, HoldsType DEF FrameStep, Closers
  <2>7. CallStep(l, frames)
    BY <2>2 DEF CallStep
  <2> HIDE DEF frames
  <2>8. QED
    BY <2>2, <2>3, <2>4, <2>5, <2>6, <2>7, CurrentType DEF LineStep, shared
<1>10. CASE Elsif(l)
  <2>1. Handles(l, {"elsif"})
    BY <1>10, Zenon DEF Elsif
  <2>2. /\ Frames # <<>> /\ calls' = Advanced([Frames EXCEPT ![Len(Frames)] = Turned(Frames[Len(Frames)], Holds(l))])
        /\ UNCHANGED <<shared, diagnostics, output>>
    BY <1>10 DEF Elsif, Branch, Turned, Last
  <2>3. /\ calls # <<>> /\ Reads(l) /\ UNCHANGED <<closed, next>>
        /\ ~comment /\ comment' = l.opens /\ l.directive \in {"elsif"}
    BY <2>1, HandledLine
  <2>4. Effects(l)
    BY <2>2, <2>3, CurrentType DEF Effects, shared, Closers
  <2> DEFINE frames == [Frames EXCEPT ![Len(Frames)] = Turned(Frames[Len(Frames)], Holds(l))]
  <2>5. frames \in Seq(Frame)
    <3>1. Frames \in Seq(Frame) /\ Frames[Len(Frames)] \in Frame
      BY <2>2, <2>3, CurrentType, FramesType
    <3>2. Turned(Frames[Len(Frames)], Holds(l)) \in Frame
      BY HoldsType, <3>1, TurnedType
    <3>3. QED
      BY <2>2, <3>1, <3>2, FrameSeqs
  <2>6. FrameStep(l, frames)
    <3>1. /\ ~comment /\ l.directive \in {"elsif", "else"} /\ Frames # <<>>
          /\ \E c \in BOOLEAN : frames = [Frames EXCEPT ![Len(Frames)] = Turned(Frames[Len(Frames)], c)]
      BY <2>2, <2>3, HoldsType
    <3>2. QED
      BY <3>1, Zenon DEF FrameStep
  <2>7. CallStep(l, frames)
    BY <2>2 DEF CallStep
  <2> HIDE DEF frames
  <2>8. QED
    BY <2>2, <2>3, <2>4, <2>5, <2>6, <2>7, CurrentType DEF LineStep, shared
<1>11. CASE Else(l)
  <2>1. Handles(l, {"else"})
    BY <1>11, Zenon DEF Else
  <2>2. /\ Frames # <<>> /\ calls' = Advanced([Frames EXCEPT ![Len(Frames)] = Turned(Frames[Len(Frames)], TRUE)])
        /\ UNCHANGED <<shared, diagnostics, output>>
    BY <1>11 DEF Else, Branch, Turned, Last
  <2>3. /\ calls # <<>> /\ Reads(l) /\ UNCHANGED <<closed, next>>
        /\ ~comment /\ comment' = l.opens /\ l.directive \in {"else"}
    BY <2>1, HandledLine
  <2>4. Effects(l)
    BY <2>2, <2>3, CurrentType DEF Effects, shared, Closers
  <2> DEFINE frames == [Frames EXCEPT ![Len(Frames)] = Turned(Frames[Len(Frames)], TRUE)]
  <2>5. frames \in Seq(Frame)
    <3>1. Frames \in Seq(Frame) /\ Frames[Len(Frames)] \in Frame
      BY <2>2, <2>3, CurrentType, FramesType
    <3>2. Turned(Frames[Len(Frames)], TRUE) \in Frame
      BY <3>1, TurnedType
    <3>3. QED
      BY <2>2, <3>1, <3>2, FrameSeqs
  <2>6. FrameStep(l, frames)
    <3>1. /\ ~comment /\ l.directive \in {"elsif", "else"} /\ Frames # <<>>
          /\ \E c \in BOOLEAN : frames = [Frames EXCEPT ![Len(Frames)] = Turned(Frames[Len(Frames)], c)]
      BY <2>2, <2>3, HoldsType
    <3>2. QED
      BY <3>1, Zenon DEF FrameStep
  <2>7. CallStep(l, frames)
    BY <2>2 DEF CallStep
  <2> HIDE DEF frames
  <2>8. QED
    BY <2>2, <2>3, <2>4, <2>5, <2>6, <2>7, CurrentType DEF LineStep, shared
<1>12. CASE Endif(l)
  <2>1. Handles(l, {"endif"})
    BY <1>12, Zenon DEF Endif
  <2>2. /\ Frames # <<>> /\ calls' = Advanced(SubSeq(Frames, 1, Len(Frames) - 1))
        /\ UNCHANGED <<shared, diagnostics, output>>
    BY <1>12 DEF Endif
  <2>3. /\ calls # <<>> /\ Reads(l) /\ UNCHANGED <<closed, next>>
        /\ ~comment /\ comment' = l.opens /\ l.directive \in {"endif"}
    BY <2>1, HandledLine
  <2>4. Effects(l)
    BY <2>2, <2>3, CurrentType DEF Effects, shared, Closers
  <2> DEFINE frames == SubSeq(Frames, 1, Len(Frames) - 1)
  <2>5. frames \in Seq(Frame)
    BY <2>2, <2>3, CurrentType, FramesType, FrameSeqs
  <2>6. FrameStep(l, frames)
    BY <2>2, <2>3, HoldsType DEF FrameStep, Closers
  <2>7. CallStep(l, frames)
    BY <2>2 DEF CallStep
  <2> HIDE DEF frames
  <2>8. QED
    BY <2>2, <2>3, <2>4, <2>5, <2>6, <2>7, CurrentType DEF LineStep, shared
<1>13. CASE Stray(l)
  <2>1. Handles(l, Closers)
    BY <1>13, Zenon DEF Stray, Closers
  <2>2. /\ Frames = <<>> /\ calls' = Advanced(Frames)
        /\ UNCHANGED <<shared, output>>
        /\ diagnostics' = diagnostics \cup {<<"PP002", Current.file>>}
    BY <1>13 DEF Stray, Closers, Report
  <2>3. /\ calls # <<>> /\ Reads(l) /\ UNCHANGED <<closed, next>>
        /\ ~comment /\ comment' = l.opens /\ l.directive \in Closers
    BY <2>1, HandledLine
  <2>4. Effects(l)
    BY <2>2, <2>3, CurrentType DEF Effects, shared, Closers
  <2> DEFINE frames == Frames
  <2>5. frames \in Seq(Frame)
    BY <2>3, CurrentType
  <2>6. FrameStep(l, frames)
    BY <2>2, <2>3, HoldsType DEF FrameStep, Closers
  <2>7. CallStep(l, frames)
    BY <2>2 DEF CallStep
  <2> HIDE DEF frames
  <2>8. QED
    BY <2>2, <2>3, <2>4, <2>5, <2>6, <2>7, CurrentType DEF LineStep, shared
<1>14. CASE Include(l)
  <2>1. Handles(l, {"include"})
    BY <1>14, Zenon DEF Include
  <2>2. /\ Active /\ l.arg \in File \ {calls[i].file : i \in DOMAIN calls}
        /\ calls' = Append(Advanced(Frames), Opened(l.arg))
        /\ UNCHANGED <<shared, diagnostics, output>>
    BY <1>14 DEF Include
  <2>3. /\ calls # <<>> /\ Reads(l) /\ UNCHANGED <<closed, next>>
        /\ ~comment /\ comment' = l.opens /\ l.directive \in {"include"}
    BY <2>1, HandledLine
  <2>4. Effects(l)
    BY <2>2, <2>3, CurrentType DEF Effects, shared, Closers
  <2>5. FrameStep(l, Frames) /\ CallStep(l, Frames)
    BY <2>2, <2>3 DEF FrameStep, CallStep, Conditional, Closers
  <2>6. QED
    BY <2>2, <2>3, <2>4, <2>5, CurrentType DEF LineStep, shared
<1>15. QED
  BY <1>1, <1>2, <1>3, <1>4, <1>5, <1>6, <1>7, <1>8, <1>9, <1>10, <1>11, <1>12, <1>13, <1>14 DEF LineAction

-----------------------------------------------------------------------------
(* The inductive invariant. *)

\* No file is read twice at a time; a file not read to its end yet has no lines
\* beyond the reader; nothing is put out beyond the lines a file has.
ReadInv ==
    /\ \A k, m \in DOMAIN calls : calls[k].file = calls[m].file => k = m
    /\ \A k \in DOMAIN calls :
         /\ calls[k].line <= Len(text[calls[k].file])
         /\ calls[k].file \notin closed => calls[k].line = Len(text[calls[k].file])
    /\ \A f \in File \ closed : text[f] = <<>> \/ \E k \in DOMAIN calls : calls[k].file = f
    /\ \A f \in File : \A i \in DOMAIN text[f] : text[f][i] \in Line[f]
    /\ \A e \in emitted : e[2] <= Len(text[e[1]])

\* What the fields of the frames say about the branches they stand for.
Chosen(frames) ==
    \A i \in DOMAIN frames :
        /\ frames[i].seen # <<>>
        /\ frames[i].taken <=> \E m \in DOMAIN frames[i].seen : frames[i].seen[m]
        /\ frames[i].parent <=> \A j \in 1 .. i - 1 : Selected(frames[j])
        /\ frames[i].active <=> \A j \in 1 .. i : Selected(frames[j])

AllSelected(frames) == \A i \in DOMAIN frames : Selected(frames[i])

SelectInv ==
    \A k \in DOMAIN calls :
        /\ Chosen(calls[k].conditions)
        /\ k < Len(calls) => AllSelected(calls[k].conditions)

\* The frames and the comment flag are what the lines read so far say.
DepthInv ==
    /\ comment => calls # <<>>
    /\ \A k \in DOMAIN calls :
         /\ Len(calls[k].conditions) = Depth(text[calls[k].file], calls[k].line)
         /\ (k = Len(calls) /\ comment) <=> InComment(text[calls[k].file], calls[k].line)

\* What has been reported of each file.
ReportInv ==
    \A f \in File :
        /\ <<"PP004", f>> \in diagnostics <=> f \in closed /\ InComment(text[f], Len(text[f]))
        /\ <<"PP002", f>> \in diagnostics <=>
               HasStray(text[f]) \/ (f \in closed /\ Depth(text[f], Len(text[f])) > 0)

\* t is the beginning of a text with the include guard g.
Begins(t, g) ==
    /\ t # <<>> => t[1].directive = "ifndef" /\ t[1].arg = g
    /\ Len(t) >= 2 => t[2].directive = "define" /\ t[2].arg = g
    /\ \A i \in 2 .. Len(t) :
         /\ ~t[i - 1].opens /\ Depth(t, i - 1) > 0
         /\ Depth(t, i) = 1 => t[i].directive \notin {"else", "elsif"}

Kept(g) ==
    \A h \in File : \A i \in DOMAIN text[h] :
        ~(text[h][i].directive = "undef" /\ text[h][i].arg = g)

\* While the outermost frame of a guarded file is open, it is still in its first
\* branch: selected only in the first reading, and else the macro is defined.
GuardOpen(call, g) ==
    call.conditions # <<>> =>
        /\ Len(call.conditions[1].seen) = 1
        /\ call.conditions[1].seen[1] /\ Len(text[call.file]) >= 2 => call.file \notin closed
        /\ ~call.conditions[1].seen[1] => g \in defines

GuardInv ==
    \A f \in File, g \in Macro \ Given :
        Kept(g) /\ Begins(text[f], g) =>
            /\ Len(text[f]) >= 2 => g \in defines
            /\ \A at \in repeated : at[1] # f
            /\ \A k \in DOMAIN calls : calls[k].file = f => GuardOpen(calls[k], g)

LinesInv ==
    /\ TypeOK /\ ReadInv /\ SelectInv
    /\ NoCommentAtInclude => DepthInv /\ ReportInv /\ GuardInv

-----------------------------------------------------------------------------
(* Where a line is read, and what is read next. *)

LEMMA LineRead ==
    ASSUME TypeOK, ReadInv, NEW l, Reads(l),
           NEW f, f = Current.file, NEW n, n = Current.line
    PROVE  /\ f \in File /\ n \in Nat /\ n + 1 \in DOMAIN text'[f] /\ text'[f][n + 1] = l
           /\ text' \in [File -> Text] /\ PrefixOf(text[f], text'[f])
           /\ \A h \in File \ {f} : text'[h] = text[h]
           /\ \/ text' = text /\ n < Len(text[f]) /\ f \in closed
              \/ f \notin closed /\ n = Len(text[f]) /\ Len(text'[f]) = n + 1
           /\ l \in Line[f] /\ l \in AnyLine
           /\ \A h \in File : \A i \in DOMAIN text'[h] : text'[h][i] \in Line[h]
<1>1. calls # <<>>
  BY DEF Reads
<1>2. /\ f \in File /\ n \in Nat /\ text \in [File -> Text] /\ text[f] \in Text
      /\ n <= Len(text[f]) /\ (f \notin closed => n = Len(text[f]))
  BY <1>1, CurrentType DEF TypeOK, ReadInv, Text
<1>3. Len(text[f]) \in Nat /\ DOMAIN text[f] = 1 .. Len(text[f])
  BY <1>2 DEF Text
<1>4. Line \in [File -> SUBSET AnyLine]
  BY PreprocessorAssumption
<1>5. CASE n < Len(text[f])
  <2>1. l = text[f][n + 1] /\ text' = text
    BY <1>5 DEF Reads
  <2>2. f \in closed
    BY <1>2, <1>5
  <2>3. n + 1 \in DOMAIN text[f]
    BY <1>2, <1>3, <1>5
  <2>4. \A h \in File : \A i \in DOMAIN text[h] : text[h][i] \in Line[h]
    BY DEF ReadInv
  <2>5. l \in Line[f]
    BY <1>2, <2>1, <2>3, <2>4
  <2>6. PrefixOf(text[f], text[f])
    BY <1>3 DEF PrefixOf
  <2>7. QED
    BY <1>2, <1>4, <1>5, <2>1, <2>2, <2>3, <2>4, <2>5, <2>6
<1>6. CASE ~(n < Len(text[f]))
  <2>1. l \in Line[f] /\ f \notin closed /\ text' = [text EXCEPT ![f] = Append(@, l)]
    BY <1>6 DEF Reads
  <2>2. n = Len(text[f]) /\ l \in AnyLine
    BY <1>2, <1>4, <2>1
  <2> DEFINE t == Append(text[f], l)
  <2>3. /\ t \in Text /\ Len(t) = n + 1 /\ t[n + 1] = l /\ DOMAIN t = 1 .. n + 1
        /\ \A i \in 1 .. n : t[i] = text[f][i]
    BY <1>2, <1>3, <2>2 DEF Text
  <2> HIDE DEF t
  <2>4. text' = [text EXCEPT ![f] = t]
    BY <2>1 DEF t
  <2>5. text'[f] = t /\ text' \in [File -> Text] /\ \A h \in File \ {f} : text'[h] = text[h]
    BY <1>2, <2>3, <2>4
  <2>6. PrefixOf(text[f], t)
    BY <1>2, <1>3, <2>2, <2>3 DEF PrefixOf
  <2>7. \A i \in DOMAIN text[f] : text[f][i] \in Line[f]
    BY <1>2 DEF ReadInv
  <2>8. \A i \in 1 .. n + 1 : t[i] \in Line[f]
    BY <1>2, <1>3, <2>1, <2>2, <2>3, <2>7
  <2>9. \A h \in File : \A i \in DOMAIN text'[h] : text'[h][i] \in Line[h]
    BY <2>3, <2>5, <2>8 DEF ReadInv
  <2>10. n + 1 \in DOMAIN t
    BY <1>2, <2>3
  <2>11. QED
    BY <1>2, <2>1, <2>2, <2>3, <2>5, <2>6, <2>9, <2>10
<1>7. QED
  BY <1>5, <1>6

LEMMA LineDone ==
    ASSUME NEW c \in Call, NEW frames \in Seq(Frame),
           NEW d, d = [file |-> c.file, line |-> c.line + 1, conditions |-> frames]
    PROVE  d \in Call /\ d.file = c.file /\ d.line = c.line + 1 /\ d.conditions = frames
  BY DEF Call

\* The file read now advances by a line, and another one may be opened.
LEMMA CallsMove ==
    ASSUME TypeOK, calls # <<>>, NEW l, NEW frames \in Seq(Frame), CallStep(l, frames),
           NEW K, K = Len(calls)
    PROVE  /\ calls' \in Seq(Call) /\ calls' # <<>> /\ K \in Nat \ {0}
           /\ \A k \in 1 .. K - 1 : calls'[k] = calls[k]
           /\ calls'[K].file = Current.file /\ calls'[K].line = Current.line + 1
           /\ calls'[K].conditions = frames
           /\ \/ Len(calls') = K
              \/ /\ Len(calls') = K + 1 /\ ~comment /\ l.directive = "include" /\ Active
                 /\ \E f \in File : /\ calls'[K + 1] = Opened(f)
                                    /\ \A k \in DOMAIN calls : calls[k].file # f
<1>1. /\ K \in Nat \ {0} /\ DOMAIN calls = 1 .. K /\ K \in DOMAIN calls /\ calls \in Seq(Call)
      /\ Current = calls[K] /\ Current \in Call
  BY CurrentType DEF TypeOK
<1> DEFINE new == [file |-> Current.file, line |-> Current.line + 1, conditions |-> frames]
           moved == Advanced(frames)
<1>2. /\ new \in Call /\ new.file = Current.file /\ new.line = Current.line + 1
      /\ new.conditions = frames
  BY <1>1, LineDone
<1>3. moved = [calls EXCEPT ![Len(calls)] = new]
  BY DEF Advanced
<1> HIDE DEF new
<1>4. /\ moved \in Seq(Call) /\ Len(moved) = K /\ moved[K] = new
      /\ \A k \in 1 .. K - 1 : moved[k] = calls[k]
  BY <1>1, <1>2, <1>3, FrameSeqs
<1> HIDE DEF moved
<1>5. CASE calls' = moved
  <2>1. calls' # <<>>
    BY <1>1, <1>4, <1>5
  <2>2. QED
    BY <1>1, <1>2, <1>4, <1>5, <2>1
<1>6. CASE /\ ~comment /\ l.directive = "include" /\ Active
           /\ \E f \in File \ {calls[i].file : i \in DOMAIN calls} : calls' = Append(moved, Opened(f))
  <2>1. PICK f \in File \ {calls[i].file : i \in DOMAIN calls} : calls' = Append(moved, Opened(f))
    BY <1>6
  <2>2. Opened(f) \in Call
    BY DEF Opened, Call
  <2>3. /\ calls' \in Seq(Call) /\ Len(calls') = K + 1 /\ calls'[K + 1] = Opened(f)
        /\ \A k \in 1 .. K : calls'[k] = moved[k]
    BY <1>4, <2>1, <2>2, FrameSeqs
  <2>4. calls' # <<>> /\ K \in 1 .. K /\ \A k \in 1 .. K - 1 : k \in 1 .. K
    BY <1>1, <2>3
  <2>5. QED
    BY <1>1, <1>2, <1>4, <1>6, <2>1, <2>3, <2>4
<1>7. QED
  BY <1>5, <1>6 DEF CallStep, moved

LEMMA FileOpens ==
    ASSUME TypeOK, OpenTop
    PROVE  /\ calls = <<>> /\ Top[next] \in File /\ next' \in 1 .. Len(Top) + 1
           /\ calls' \in Seq(Call) /\ Len(calls') = 1 /\ calls'[1] = Opened(Top[next])
           /\ UNCHANGED <<text, closed, comment, defines, nettypeNone, timescale, diagnostics, emitted, repeated>>
<1>1. Top \in Seq(File \cup {Nowhere}) /\ next \in 1 .. Len(Top) /\ Top[next] \in File
  BY PreprocessorAssumption DEF TypeOK, OpenTop
<1>2. Top[next] \in File /\ next + 1 \in 1 .. Len(Top) + 1
  BY <1>1
<1>3. Opened(Top[next]) \in Call
  BY <1>2 DEF Opened, Call
<1>4. QED
  BY <1>2, <1>3 DEF OpenTop, shared, output

LEMMA FileMissing ==
    ASSUME TypeOK, RefuseTop
    PROVE  /\ calls = <<>> /\ calls' = <<>> /\ next' = next + 1 /\ next' \in 1 .. Len(Top) + 1
           /\ diagnostics' = diagnostics \cup {<<"PP001", Nowhere>>}
           /\ UNCHANGED <<text, closed, calls, comment, defines, nettypeNone, timescale, emitted, repeated>>
<1>1. Top \in Seq(File \cup {Nowhere}) /\ next \in 1 .. Len(Top) /\ Top[next] \notin File
  BY PreprocessorAssumption DEF TypeOK, RefuseTop
<1>2. Top[next] = Nowhere /\ next + 1 \in 1 .. Len(Top) + 1
  BY <1>1
<1>3. QED
  BY <1>2 DEF RefuseTop, shared, output

LEMMA FileEnds ==
    ASSUME TypeOK, EndFile, NEW K, K = Len(calls)
    PROVE  /\ calls # <<>> /\ K \in Nat \ {0} /\ Current.line = Len(text[Current.file])
           /\ calls' \in Seq(Call) /\ Len(calls') = K - 1
           /\ \A k \in 1 .. K - 1 : calls'[k] = calls[k]
           /\ closed' = closed \cup {Current.file} /\ comment' = FALSE
           /\ UNCHANGED <<text, next, defines, nettypeNone, timescale, emitted, repeated>>
<1>1. calls # <<>> /\ calls' = SubSeq(calls, 1, Len(calls) - 1)
  BY DEF EndFile
<1>2. calls \in Seq(Call) /\ K \in Nat \ {0} /\ calls[K] \in Call
  BY <1>1, CurrentType DEF TypeOK
<1>3. calls' \in Seq(Call) /\ Len(calls') = K - 1 /\ \A k \in 1 .. K - 1 : calls'[k] = calls[k]
  BY <1>1, <1>2, FrameSeqs
<1>4. QED
  BY <1>1, <1>2, <1>3 DEF EndFile, shared, output

\* A step opens a file or does not find it, ends one, or reads a line.
LEMMA StepForms ==
    ASSUME TypeOK, [Next]_vars
    PROVE  OpenTop \/ RefuseTop \/ EndFile \/ (\E l \in AnyLine : LineStep(l)) \/ UNCHANGED vars
<1>1. ASSUME NEW l \in UNION {Line[f] : f \in File}, LineAction(l) PROVE LineStep(l) /\ l \in AnyLine
  <2>1. l \in AnyLine
    BY PreprocessorAssumption
  <2>2. QED
    BY <1>1, <2>1, LineActionSteps
<1>2. ASSUME Next PROVE \/ OpenTop \/ RefuseTop \/ EndFile \/ UNCHANGED vars
                        \/ \E l \in UNION {Line[f] : f \in File} : LineAction(l)
  BY <1>2 DEF Next, Finished, LineAction
<1>3. QED
  BY <1>1, <1>2

LEMMA TypeStep ==
    ASSUME TypeOK, ReadInv, [Next]_vars PROVE TypeOK'
<1>1. CASE OpenTop
  <2>1. comment' = comment
    BY <1>1 DEF OpenTop
  <2>2. QED
    BY <1>1, <2>1, FileOpens DEF TypeOK
<1>2. CASE EndFile
  <2> DEFINE f == Current.file
  <2>1. /\ calls # <<>> /\ calls' \in Seq(Call) /\ closed' = closed \cup {f} /\ comment' = FALSE
        /\ UNCHANGED <<text, next, defines, nettypeNone, timescale, emitted, repeated>>
    BY <1>2, FileEnds
  <2>2. f \in File
    BY <2>1, CurrentType
  <2>3. diagnostics' \subseteq diagnostics \cup {<<"PP002", f>>} \cup {<<"PP004", f>>}
    BY <1>2 DEF EndFile
  <2> HIDE DEF f
  <2>4. diagnostics' \subseteq {"PP001", "PP002", "PP003", "PP004", "UNSUPPORTED"} \X (File \cup {Nowhere})
    BY <2>2, <2>3 DEF TypeOK
  <2>5. QED
    BY <2>1, <2>2, <2>4 DEF TypeOK
<1>3. ASSUME NEW l \in AnyLine, LineStep(l) PROVE TypeOK'
  <2> DEFINE f == Current.file
             n == Current.line
  <2>1. /\ calls # <<>> /\ Reads(l) /\ Effects(l) /\ UNCHANGED <<closed, next>>
        /\ nettypeNone' \in BOOLEAN /\ timescale' \subseteq timescale \cup {f}
        /\ diagnostics' \subseteq diagnostics \cup ({"PP001", "PP002", "PP003", "UNSUPPORTED"} \X File)
        /\ \E frames \in Seq(Frame) : FrameStep(l, frames) /\ CallStep(l, frames)
    BY <1>3 DEF LineStep
  <2>2. f \in File /\ n \in Nat /\ text' \in [File -> Text] /\ l \in Line[f]
    BY <2>1, LineRead
  <2>3. calls' \in Seq(Call)
    BY <2>1, CallsMove
  <2>4. /\ \/ UNCHANGED <<emitted, repeated>>
           \/ /\ emitted' = emitted \cup {<<f, n + 1>>}
              /\ repeated' = repeated \cup ({<<f, n + 1>>} \cap emitted)
        /\ comment' \in BOOLEAN
        /\ defines' \subseteq defines \cup {x \in {l.arg} : l.directive = "define"}
    <3>1. l.opens \in BOOLEAN /\ comment \in BOOLEAN
      BY DEF AnyLine, TypeOK
    <3>2. comment' \in BOOLEAN
      BY <2>1, <3>1 DEF Effects
    <3>3. defines' \subseteq defines \cup {x \in {l.arg} : l.directive = "define"}
      BY <2>1 DEF Effects
    <3>4. \/ UNCHANGED <<emitted, repeated>>
          \/ /\ emitted' = emitted \cup {<<f, n + 1>>}
             /\ repeated' = repeated \cup ({<<f, n + 1>>} \cap emitted)
      BY <2>1 DEF Effects, output
    <3>5. QED
      BY <3>2, <3>3, <3>4
  <2> HIDE DEF f, n
  <2>5. l.directive = "define" => l.arg \in Macro
    BY <2>2, PreprocessorAssumption
  <2>6. defines' \subseteq Macro
    BY <2>4, <2>5 DEF TypeOK
  <2>7. emitted' \subseteq File \X (Nat \ {0}) /\ repeated' \subseteq emitted'
    BY <2>2, <2>4 DEF TypeOK
  <2>8. timescale' \subseteq File
    BY <2>1, <2>2 DEF TypeOK
  <2>9. diagnostics' \subseteq {"PP001", "PP002", "PP003", "PP004", "UNSUPPORTED"} \X (File \cup {Nowhere})
    BY <2>1 DEF TypeOK
  <2>10. closed' \subseteq File /\ next' \in 1 .. Len(Top) + 1
    BY <2>1 DEF TypeOK
  <2>11. QED
    BY <2>1, <2>2, <2>3, <2>4, <2>6, <2>7, <2>8, <2>9, <2>10 DEF TypeOK, Text
<1>4. CASE UNCHANGED vars
  BY <1>4 DEF vars, shared, output, TypeOK
<1>5. CASE RefuseTop
  BY <1>5, FileMissing DEF TypeOK
<1>6. QED
  BY <1>1, <1>2, <1>3, <1>4, <1>5, StepForms

LEMMA ReadStep ==
    ASSUME TypeOK, ReadInv, [Next]_vars PROVE ReadInv'
<1>t. text \in [File -> Text] /\ calls \in Seq(Call) /\ DOMAIN calls = 1 .. Len(calls) /\ Len(calls) \in Nat
  BY DEF TypeOK, Text
<1>1. CASE OpenTop
  <2>1. /\ calls = <<>> /\ calls' \in Seq(Call) /\ Len(calls') = 1 /\ calls'[1] = Opened(Top[next])
        /\ UNCHANGED <<text, closed, emitted>> /\ Top[next] \in File
    BY <1>1, FileOpens
  <2>2. DOMAIN calls' = {1} /\ DOMAIN calls = {}
    BY <2>1
  <2>3. calls'[1].file = Top[next] /\ calls'[1].line = 0
    BY <2>1 DEF Opened
  <2>4. \A f \in File \ closed : text[f] = <<>>
    BY <2>2 DEF ReadInv
  <2>5. Len(text[Top[next]]) \in Nat /\ (Top[next] \notin closed => Len(text[Top[next]]) = 0)
    BY <1>t, <2>1, <2>4 DEF Text
  <2>6. QED
    BY <2>1, <2>2, <2>3, <2>4, <2>5 DEF ReadInv
<1>2. CASE EndFile
  <2> DEFINE K == Len(calls)
  <2>1. /\ K \in Nat \ {0} /\ calls' \in Seq(Call) /\ Len(calls') = K - 1
        /\ \A k \in 1 .. K - 1 : calls'[k] = calls[k]
        /\ closed' = closed \cup {Current.file} /\ UNCHANGED <<text, emitted>>
        /\ Current = calls[K]
    BY <1>2, FileEnds, CurrentType
  <2> HIDE DEF K
  <2>2. DOMAIN calls' = 1 .. K - 1 /\ DOMAIN calls = 1 .. K
    BY <1>t, <2>1 DEF K
  <2>3. \A k, m \in DOMAIN calls' : calls'[k].file = calls'[m].file => k = m
    BY <2>1, <2>2 DEF ReadInv
  <2>4. \A k \in DOMAIN calls' :
          /\ calls'[k].line <= Len(text'[calls'[k].file])
          /\ calls'[k].file \notin closed' => calls'[k].line = Len(text'[calls'[k].file])
    BY <2>1, <2>2 DEF ReadInv
  <2>5. \A f \in File \ closed' : text'[f] = <<>> \/ \E k \in DOMAIN calls' : calls'[k].file = f
    <3>1. SUFFICES ASSUME NEW f \in File \ closed', text[f] # <<>>
                   PROVE  \E k \in DOMAIN calls' : calls'[k].file = f
      BY <2>1
    <3>2. PICK k \in DOMAIN calls : calls[k].file = f
      BY <2>1, <3>1 DEF ReadInv
    <3>3. k # K
      BY <2>1, <3>1, <3>2
    <3>4. k \in 1 .. K - 1
      BY <2>1, <2>2, <3>2, <3>3
    <3>5. QED
      BY <2>1, <2>2, <3>2, <3>4
  <2>6. QED
    BY <2>1, <2>3, <2>4, <2>5 DEF ReadInv
<1>3. ASSUME NEW l \in AnyLine, LineStep(l) PROVE ReadInv'
  <2> DEFINE f == Current.file
             n == Current.line
             K == Len(calls)
  <2>1. /\ calls # <<>> /\ Reads(l) /\ Effects(l) /\ closed' = closed
    BY <1>3 DEF LineStep
  <2>2. PICK frames \in Seq(Frame) : FrameStep(l, frames) /\ CallStep(l, frames)
    BY <1>3 DEF LineStep
  <2>3. /\ f \in File /\ n \in Nat /\ n + 1 \in DOMAIN text'[f]
        /\ text' \in [File -> Text] /\ PrefixOf(text[f], text'[f])
        /\ \A h \in File \ {f} : text'[h] = text[h]
        /\ \/ text' = text /\ n < Len(text[f]) /\ f \in closed
           \/ f \notin closed /\ n = Len(text[f]) /\ Len(text'[f]) = n + 1
        /\ \A h \in File : \A i \in DOMAIN text'[h] : text'[h][i] \in Line[h]
    BY <2>1, LineRead
  <2>4. /\ calls' \in Seq(Call) /\ K \in Nat \ {0}
        /\ \A k \in 1 .. K - 1 : calls'[k] = calls[k]
        /\ calls'[K].file = f /\ calls'[K].line = n + 1
        /\ \/ Len(calls') = K
           \/ /\ Len(calls') = K + 1
              /\ \E g \in File : /\ calls'[K + 1] = Opened(g)
                                 /\ \A k \in DOMAIN calls : calls[k].file # g
    BY <2>1, <2>2, CallsMove
  <2>5. calls[K].file = f /\ DOMAIN calls = 1 .. K /\ K \in DOMAIN calls
    BY <2>1, CurrentType
  <2>6. \/ emitted' = emitted \/ emitted' = emitted \cup {<<f, n + 1>>}
    BY <2>1 DEF Effects, output
  <2> HIDE DEF f, n, K
  <2>7. /\ Len(text[f]) \in Nat /\ Len(text'[f]) \in Nat /\ Len(text[f]) <= Len(text'[f])
        /\ n + 1 <= Len(text'[f])
    BY <1>t, <2>3 DEF Text, PrefixOf
  <2>8. \A h \in File : Len(text[h]) \in Nat /\ Len(text'[h]) \in Nat /\ Len(text[h]) <= Len(text'[h])
    <3>1. \A h \in File : text[h] \in Text /\ text'[h] \in Text
      BY <1>t, <2>3 DEF Text
    <3>2. \A h \in File : Len(text[h]) \in Nat /\ Len(text'[h]) \in Nat
      BY <3>1 DEF Text
    <3>3. \A h \in File \ {f} : Len(text'[h]) = Len(text[h])
      BY <2>3
    <3>4. QED
      BY <2>7, <3>2, <3>3
  <2>9. \A k \in 1 .. K : calls'[k].file = calls[k].file /\ calls[k] \in Call /\ calls[k].file \in File
    <3>1. ASSUME NEW k \in 1 .. K PROVE calls[k] \in Call /\ calls'[k].file = calls[k].file
      <4>1. calls[k] \in Call
        BY <1>t, <2>5
      <4>2. k = K \/ k \in 1 .. K - 1
        BY <2>4
      <4>3. QED
        BY <2>4, <2>5, <4>1, <4>2
    <3>2. QED
      BY <3>1 DEF Call
  <2>10. /\ DOMAIN calls' = 1 .. Len(calls')
         /\ \A k \in DOMAIN calls' : k \in 1 .. K \/ (k = K + 1 /\ Len(calls') = K + 1)
         /\ 1 .. K \subseteq DOMAIN calls'
    BY <2>4
  <2>11. \A k, m \in 1 .. K : calls'[k].file = calls'[m].file => k = m
    BY <2>5, <2>9 DEF ReadInv
  <2>12. ASSUME NEW g, Len(calls') = K + 1, calls'[K + 1] = Opened(g)
         PROVE  calls'[K + 1].file = g /\ calls'[K + 1].line = 0
    BY <2>12 DEF Opened
  <2>13. \A k, m \in DOMAIN calls' : calls'[k].file = calls'[m].file => k = m
    <3>1. ASSUME Len(calls') = K + 1, NEW j \in 1 .. K PROVE calls'[K + 1].file # calls'[j].file
      <4>1. PICK g \in File : calls'[K + 1] = Opened(g) /\ \A k \in DOMAIN calls : calls[k].file # g
        BY <2>4, <3>1
      <4>2. calls'[K + 1].file = g
        BY <2>12, <3>1, <4>1
      <4>3. calls'[j].file # g
        BY <2>5, <2>9, <4>1
      <4>4. QED
        BY <4>2, <4>3
    <3>2. ASSUME NEW k \in DOMAIN calls', NEW m \in DOMAIN calls', calls'[k].file = calls'[m].file PROVE k = m
      <4>1. k \in 1 .. K \/ (k = K + 1 /\ Len(calls') = K + 1)
        BY <2>10
      <4>2. m \in 1 .. K \/ (m = K + 1 /\ Len(calls') = K + 1)
        BY <2>10
      <4>3. QED
        BY <2>11, <3>1, <3>2, <4>1, <4>2
    <3>3. QED
      BY <3>2
  <2>14. ASSUME NEW k \in 1 .. K
         PROVE  /\ calls'[k].line <= Len(text'[calls'[k].file])
                /\ calls'[k].file \notin closed => calls'[k].line = Len(text'[calls'[k].file])
    <3>1. CASE k = K
      BY <2>3, <2>4, <2>7, <3>1
    <3>2. CASE k # K
      <4>1. k \in 1 .. K - 1 /\ calls[k].file # f
        BY <2>4, <2>5, <2>14, <3>2 DEF ReadInv
      <4>2. text'[calls[k].file] = text[calls[k].file]
        BY <2>3, <2>9, <4>1
      <4>3. QED
        BY <2>4, <2>5, <2>14, <4>1, <4>2 DEF ReadInv
    <3>3. QED
      BY <3>1, <3>2
  <2>15. ASSUME Len(calls') = K + 1
         PROVE  LET c == calls'[K + 1] IN
                c.line <= Len(text'[c.file]) /\ (c.file \notin closed => c.line = Len(text'[c.file]))
    <3>1. PICK g \in File : /\ calls'[K + 1] = Opened(g)
                            /\ \A k \in DOMAIN calls : calls[k].file # g
      BY <2>4, <2>15
    <3>2. g # f /\ text'[g] = text[g]
      BY <2>3, <2>5, <3>1
    <3>3. g \notin closed => text[g] = <<>>
      BY <3>1 DEF ReadInv
    <3>4. g \notin closed => Len(text[g]) = 0
      BY <3>3
    <3>5. QED
      BY <2>8, <2>12, <2>15, <3>1, <3>2, <3>4
  <2>16. \A k \in DOMAIN calls' :
           /\ calls'[k].line <= Len(text'[calls'[k].file])
           /\ calls'[k].file \notin closed => calls'[k].line = Len(text'[calls'[k].file])
    BY <2>10, <2>14, <2>15
  <2>17. \A h \in File \ closed : text'[h] = <<>> \/ \E k \in DOMAIN calls' : calls'[k].file = h
    <3>1. ASSUME NEW h \in File \ closed, text'[h] # <<>>
          PROVE  \E k \in DOMAIN calls' : calls'[k].file = h
      <4>1. CASE h = f
        <5>1. K \in Nat \ {0} /\ calls'[K].file = f
          BY <2>4, Zenon
        <5>2. K \in 1 .. K
          BY <5>1
        <5>3. QED
          BY <2>10, <4>1, <5>1, <5>2, Zenon
      <4>2. CASE h # f
        <5>1. text[h] # <<>>
          BY <2>3, <3>1, <4>2
        <5>2. PICK k \in DOMAIN calls : calls[k].file = h
          BY <5>1 DEF ReadInv
        <5>3. QED
          BY <2>5, <2>9, <2>10, <5>2
      <4>3. QED
        BY <4>1, <4>2
    <3>2. QED
      BY <3>1
  <2>18. \A e \in emitted' : e[2] <= Len(text'[e[1]])
    <3>1. ASSUME NEW e \in emitted PROVE e[2] <= Len(text'[e[1]])
      <4>1. e[1] \in File /\ e[2] \in Nat /\ e[2] <= Len(text[e[1]])
        BY DEF TypeOK, ReadInv
      <4>2. QED
        BY <2>8, <4>1
    <3>2. \A e \in {<<f, n + 1>>} : e[2] <= Len(text'[e[1]])
      BY <2>7
    <3>3. QED
      BY <2>6, <3>1, <3>2
  <2>19. QED
    BY <2>1, <2>3, <2>13, <2>16, <2>17, <2>18 DEF ReadInv
<1>4. CASE UNCHANGED vars
  BY <1>4 DEF vars, shared, output, ReadInv
<1>5. CASE RefuseTop
  BY <1>5, FileMissing DEF ReadInv
<1>6. QED
  BY <1>1, <1>2, <1>3, <1>4, <1>5, StepForms

-----------------------------------------------------------------------------
(* Which branches are selected. *)

LEMMA FirstBranch ==
    ASSUME NEW frame, NEW c \in BOOLEAN, frame.seen = <<c>>
    PROVE  /\ frame.seen # <<>> /\ (Selected(frame) <=> c)
           /\ (\E m \in DOMAIN frame.seen : frame.seen[m]) <=> c
  BY DEF Selected, Last

LEMMA NextBranch ==
    ASSUME NEW old \in Frame, NEW frame, NEW c \in BOOLEAN, frame.seen = Append(old.seen, c)
    PROVE  /\ frame.seen # <<>>
           /\ Selected(frame) <=> c /\ ~\E m \in DOMAIN old.seen : old.seen[m]
           /\ (\E m \in DOMAIN frame.seen : frame.seen[m]) <=> c \/ \E m \in DOMAIN old.seen : old.seen[m]
<1> DEFINE s == old.seen
           u == frame.seen
           n == Len(s)
<1>1. s \in Seq(BOOLEAN)
  BY DEF Frame
<1>2. n \in Nat /\ DOMAIN s = 1 .. n
  BY <1>1
<1>3. /\ u \in Seq(BOOLEAN) /\ Len(u) = n + 1 /\ DOMAIN u = 1 .. n + 1 /\ u[n + 1] = c
      /\ \A i \in 1 .. n : u[i] = s[i]
  BY <1>1, FrameSeqs
<1>4. Selected(frame) <=> u[Len(u)] /\ \A i \in 1 .. Len(u) - 1 : ~u[i]
  BY DEF Selected, Last
<1> HIDE DEF s, u, n
<1>5. 1 .. Len(u) - 1 = 1 .. n /\ Len(u) = n + 1
  BY <1>2, <1>3
<1>6. Selected(frame) <=> c /\ \A i \in 1 .. n : ~s[i]
  BY <1>3, <1>4, <1>5
<1>7. (\E m \in DOMAIN u : u[m]) <=> c \/ \E m \in 1 .. n : s[m]
  <2>1. 1 .. n + 1 = 1 .. n \cup {n + 1}
    BY <1>2
  <2>2. QED
    BY <1>3, <2>1
<1>8. u # <<>>
  BY <1>2, <1>3
<1>9. QED
  BY <1>2, <1>6, <1>7, <1>8 DEF s, u

\* What _current_active looks at says that all conditionals are selected.
LEMMA ActiveMeansSelected ==
    ASSUME TypeOK, calls # <<>>, Chosen(Frames)
    PROVE  Active <=> AllSelected(Frames)
<1>1. CASE Frames = <<>>
  BY <1>1 DEF Active, AllSelected
<1>2. CASE Frames # <<>>
  <2> DEFINE s == Frames
             n == Len(s)
  <2>1. n \in Nat \ {0} /\ DOMAIN s = 1 .. n /\ (Active <=> s[n].active) /\ n \in DOMAIN s
    BY <1>2, FramesType DEF Active
  <2>2. s[n].active <=> \A j \in 1 .. n : Selected(s[j])
    BY <2>1 DEF Chosen
  <2>3. QED
    BY <2>1, <2>2 DEF AllSelected
<1>3. QED
  BY <1>1, <1>2

LEMMA ChosenStep ==
    ASSUME TypeOK, calls # <<>>, Chosen(Frames),
           NEW l, NEW frames \in Seq(Frame), FrameStep(l, frames)
    PROVE  Chosen(frames)
<1> DEFINE s == Frames
           n == Len(s)
<1>1. s \in Seq(Frame) /\ n \in Nat /\ DOMAIN s = 1 .. n /\ \A i \in 1 .. n : s[i] \in Frame
  BY CurrentType, FramesType
<1>2. CASE frames = s
  BY <1>2
<1>3. CASE frames = Append(s, NewFrame(l))
  <2> DEFINE x == NewFrame(l)
  <2>1. /\ x \in Frame /\ x.parent = Active /\ x.active = (Active /\ Holds(l))
        /\ x.taken = Holds(l) /\ x.seen = <<Holds(l)>>
    BY NewFrameType DEF NewFrame
  <2>2. Holds(l) \in BOOLEAN /\ Active \in BOOLEAN
    BY HoldsType, FramesType
  <2>3. Active <=> \A j \in 1 .. n : Selected(s[j])
    BY <1>1, ActiveMeansSelected DEF AllSelected
  <2>4. /\ x.seen # <<>> /\ (Selected(x) <=> Holds(l))
        /\ (\E m \in DOMAIN x.seen : x.seen[m]) <=> Holds(l)
    BY <2>1, <2>2, FirstBranch
  <2> HIDE DEF x
  <2>5. Len(frames) = n + 1 /\ frames[n + 1] = x /\ \A i \in 1 .. n : frames[i] = s[i]
    BY <1>1, <1>3, <2>1, FrameSeqs DEF x
  <2> HIDE DEF s, n
  <2>6. DOMAIN frames = 1 .. n + 1 /\ 1 .. n + 1 = 1 .. n \cup {n + 1}
    BY <1>1, <2>5
  <2>7. ASSUME NEW i \in 1 .. n
        PROVE  /\ frames[i].seen # <<>>
               /\ frames[i].taken <=> \E m \in DOMAIN frames[i].seen : frames[i].seen[m]
               /\ frames[i].parent <=> \A j \in 1 .. i - 1 : Selected(frames[j])
               /\ frames[i].active <=> \A j \in 1 .. i : Selected(frames[j])
    <3>1. \A j \in 1 .. i : j \in 1 .. n
      BY <1>1
    <3>2. \A j \in 1 .. i - 1 : j \in 1 .. n
      BY <1>1
    <3>3. i \in DOMAIN s
      BY <1>1
    <3>4. QED
      BY <2>5, <3>1, <3>2, <3>3 DEF Chosen, s
  <2>8. \A j \in 1 .. n + 1 - 1 : j \in 1 .. n /\ frames[j] = s[j]
    BY <1>1, <2>5
  <2>9. /\ x.parent <=> \A j \in 1 .. n + 1 - 1 : Selected(frames[j])
        /\ x.active <=> \A j \in 1 .. n + 1 : Selected(frames[j])
    <3>1. 1 .. n + 1 - 1 = 1 .. n
      BY <1>1
    <3>2. (\A j \in 1 .. n : Selected(s[j])) <=> \A j \in 1 .. n : Selected(frames[j])
      BY <2>5
    <3>3. (\A j \in 1 .. n + 1 : Selected(frames[j])) <=> Selected(x) /\ \A j \in 1 .. n : Selected(frames[j])
      BY <2>5, <2>6
    <3>4. QED
      BY <2>1, <2>2, <2>3, <2>4, <3>1, <3>2, <3>3
  <2>10. x.taken <=> \E m \in DOMAIN x.seen : x.seen[m]
    BY <2>1, <2>2, <2>4
  <2>11. ASSUME NEW i, i = n + 1
         PROVE  /\ frames[i].seen # <<>>
                /\ frames[i].taken <=> \E m \in DOMAIN frames[i].seen : frames[i].seen[m]
                /\ frames[i].parent <=> \A j \in 1 .. i - 1 : Selected(frames[j])
                /\ frames[i].active <=> \A j \in 1 .. i : Selected(frames[j])
    <3>1. frames[i] = x
      BY <2>5, <2>11
    <3>2. x.parent <=> \A j \in 1 .. i - 1 : Selected(frames[j])
      <4>1. 1 .. i - 1 = 1 .. n + 1 - 1
        BY <1>1, <2>11
      <4>2. QED
        BY <2>9, <4>1
    <3>3. x.active <=> \A j \in 1 .. i : Selected(frames[j])
      BY <2>9, <2>11, Zenon
    <3>4. QED
      BY <2>4, <2>10, <3>1, <3>2, <3>3, Zenon
  <2>12. QED
    BY <2>6, <2>7, <2>11 DEF Chosen
<1>4. ASSUME NEW c \in BOOLEAN, s # <<>>, frames = [s EXCEPT ![n] = Turned(s[n], c)]
      PROVE  Chosen(frames)
  <2> DEFINE x == Turned(s[n], c)
             y == s[n]
  <2>1. n \in Nat \ {0} /\ y \in Frame /\ n \in DOMAIN s
    BY <1>1, <1>4
  <2>2. /\ x \in Frame /\ x.parent = y.parent /\ x.active = (y.parent /\ ~y.taken /\ c)
        /\ x.taken = (y.taken \/ c) /\ x.seen = Append(y.seen, c)
    BY <2>1, TurnedType
  <2>3. /\ x.seen # <<>>
        /\ Selected(x) <=> c /\ ~\E m \in DOMAIN y.seen : y.seen[m]
        /\ (\E m \in DOMAIN x.seen : x.seen[m]) <=> c \/ \E m \in DOMAIN y.seen : y.seen[m]
    BY <2>1, <2>2, NextBranch
  <2>4. /\ y.taken <=> \E m \in DOMAIN y.seen : y.seen[m]
        /\ y.parent <=> \A j \in 1 .. n - 1 : Selected(s[j])
    BY <2>1 DEF Chosen
  <2>5. y.taken \in BOOLEAN /\ y.parent \in BOOLEAN
    BY <2>1 DEF Frame
  <2> HIDE DEF x, y
  <2>6. Len(frames) = n /\ frames[n] = x /\ \A i \in 1 .. n - 1 : frames[i] = s[i]
    BY <1>1, <1>4, <2>2, FrameSeqs DEF x, y
  <2> HIDE DEF s, n
  <2>7. DOMAIN frames = 1 .. n /\ 1 .. n = 1 .. n - 1 \cup {n}
    BY <2>1, <2>6
  <2>8. ASSUME NEW i \in 1 .. n - 1
        PROVE  /\ frames[i].seen # <<>>
               /\ frames[i].taken <=> \E m \in DOMAIN frames[i].seen : frames[i].seen[m]
               /\ frames[i].parent <=> \A j \in 1 .. i - 1 : Selected(frames[j])
               /\ frames[i].active <=> \A j \in 1 .. i : Selected(frames[j])
    <3>1. \A j \in 1 .. i : j \in 1 .. n - 1
      BY <2>1
    <3>2. \A j \in 1 .. i - 1 : j \in 1 .. n - 1
      BY <2>1
    <3>3. i \in DOMAIN s
      BY <1>1, <2>1
    <3>4. QED
      BY <2>6, <3>1, <3>2, <3>3 DEF Chosen, s
  <2>9. /\ x.parent <=> \A j \in 1 .. n - 1 : Selected(frames[j])
        /\ x.active <=> \A j \in 1 .. n : Selected(frames[j])
    <3>1. (\A j \in 1 .. n - 1 : Selected(s[j])) <=> \A j \in 1 .. n - 1 : Selected(frames[j])
      BY <2>6
    <3>2. (\A j \in 1 .. n : Selected(frames[j])) <=> Selected(x) /\ \A j \in 1 .. n - 1 : Selected(frames[j])
      BY <2>6, <2>7
    <3>3. QED
      BY <2>2, <2>3, <2>4, <2>5, <3>1, <3>2
  <2>10. x.taken <=> \E m \in DOMAIN x.seen : x.seen[m]
    BY <2>2, <2>3, <2>4, <2>5
  <2>11. QED
    BY <2>3, <2>6, <2>7, <2>8, <2>9, <2>10 DEF Chosen
<1>5. CASE s # <<>> /\ frames = SubSeq(s, 1, n - 1)
  <2>1. Len(frames) = n - 1 /\ \A i \in 1 .. n - 1 : frames[i] = s[i]
    BY <1>1, <1>5, FrameSeqs
  <2> HIDE DEF s, n
  <2>2. DOMAIN frames = 1 .. n - 1
    BY <1>1, <2>1
  <2>3. ASSUME NEW i \in 1 .. n - 1
        PROVE  /\ frames[i].seen # <<>>
               /\ frames[i].taken <=> \E m \in DOMAIN frames[i].seen : frames[i].seen[m]
               /\ frames[i].parent <=> \A j \in 1 .. i - 1 : Selected(frames[j])
               /\ frames[i].active <=> \A j \in 1 .. i : Selected(frames[j])
    <3>1. \A j \in 1 .. i : j \in 1 .. n - 1
      BY <1>1
    <3>2. \A j \in 1 .. i - 1 : j \in 1 .. n - 1
      BY <1>1
    <3>3. i \in DOMAIN s
      BY <1>1
    <3>4. QED
      BY <2>1, <3>1, <3>2, <3>3 DEF Chosen, s
  <2>4. QED
    BY <2>2, <2>3 DEF Chosen
<1>6. QED
  BY <1>2, <1>3, <1>4, <1>5 DEF FrameStep

LEMMA SelectStep ==
    ASSUME TypeOK, ReadInv, SelectInv, [Next]_vars PROVE SelectInv'
<1>t. calls \in Seq(Call) /\ DOMAIN calls = 1 .. Len(calls) /\ Len(calls) \in Nat
  BY DEF TypeOK
<1>1. CASE OpenTop
  <2>1. calls' \in Seq(Call) /\ Len(calls') = 1 /\ calls'[1] = Opened(Top[next])
    BY <1>1, FileOpens
  <2>2. DOMAIN calls' = {1} /\ calls'[1].conditions = <<>>
    BY <2>1 DEF Opened
  <2>3. QED
    BY <2>1, <2>2 DEF SelectInv, Chosen
<1>2. CASE EndFile
  <2>1. /\ calls' \in Seq(Call) /\ Len(calls') = Len(calls) - 1
        /\ \A k \in 1 .. Len(calls) - 1 : calls'[k] = calls[k]
    BY <1>2, FileEnds
  <2>2. DOMAIN calls' = 1 .. Len(calls) - 1
    BY <2>1
  <2>3. QED
    BY <1>t, <2>1, <2>2 DEF SelectInv
<1>3. ASSUME NEW l \in AnyLine, LineStep(l) PROVE SelectInv'
  <2> DEFINE K == Len(calls)
  <2>1. calls # <<>>
    BY <1>3 DEF LineStep
  <2>2. PICK frames \in Seq(Frame) : FrameStep(l, frames) /\ CallStep(l, frames)
    BY <1>3 DEF LineStep
  <2>3. /\ calls' \in Seq(Call) /\ calls' # <<>> /\ K \in Nat \ {0}
        /\ \A k \in 1 .. K - 1 : calls'[k] = calls[k]
        /\ calls'[K].file = Current.file /\ calls'[K].line = Current.line + 1
        /\ calls'[K].conditions = frames
        /\ \/ Len(calls') = K
           \/ /\ Len(calls') = K + 1 /\ ~comment /\ l.directive = "include" /\ Active
              /\ \E g \in File : /\ calls'[K + 1] = Opened(g)
                                 /\ \A k \in DOMAIN calls : calls[k].file # g
    BY <2>1, <2>2, CallsMove, Zenon
  <2>4. K \in DOMAIN calls /\ Frames = calls[K].conditions
    BY <2>1, CurrentType DEF Frames
  <2> HIDE DEF K
  <2>5. Chosen(Frames)
    BY <2>4 DEF SelectInv
  <2>6. Chosen(frames)
    BY <2>1, <2>2, <2>5, ChosenStep
  <2>7. ASSUME Len(calls') = K + 1
        PROVE  AllSelected(frames) /\ Chosen(calls'[K + 1].conditions)
    <3>1. l.directive = "include" /\ Active /\ \E g \in File : calls'[K + 1] = Opened(g)
      BY <2>3, <2>7
    <3>2. frames = Frames
      BY <2>2, <3>1 DEF FrameStep, Closers
    <3>3. AllSelected(Frames)
      BY <2>1, <2>5, <3>1, ActiveMeansSelected
    <3>4. calls'[K + 1].conditions = <<>>
      BY <3>1 DEF Opened
    <3>5. QED
      BY <3>2, <3>3, <3>4 DEF Chosen
  <2>8. ASSUME NEW k \in DOMAIN calls'
        PROVE  /\ Chosen(calls'[k].conditions)
               /\ k < Len(calls') => AllSelected(calls'[k].conditions)
    <3>1. DOMAIN calls' = 1 .. Len(calls') /\ k \in Nat
      BY <2>3
    <3>2. CASE k \in 1 .. K - 1
      <4>1. calls'[k] = calls[k] /\ k \in DOMAIN calls /\ k < Len(calls)
        BY <1>t, <2>3, <3>2 DEF K
      <4>2. QED
        BY <4>1 DEF SelectInv
    <3>3. CASE k = K
      BY <2>3, <2>6, <2>7, <3>3
    <3>4. CASE k = K + 1 /\ Len(calls') = K + 1
      BY <2>3, <2>7, <3>4
    <3>5. k \in 1 .. K - 1 \/ k = K \/ (k = K + 1 /\ Len(calls') = K + 1)
      <4>1. Len(calls') = K \/ Len(calls') = K + 1
        BY <2>3
      <4>2. K \in Nat /\ k \in 1 .. Len(calls')
        BY <2>3, <3>1
      <4>3. QED
        BY <4>1, <4>2
    <3>6. QED
      BY <3>2, <3>3, <3>4, <3>5
  <2>9. QED
    BY <2>8 DEF SelectInv
<1>4. CASE UNCHANGED vars
  BY <1>4 DEF vars, SelectInv
<1>5. CASE RefuseTop
  BY <1>5, FileMissing DEF SelectInv
<1>6. QED
  BY <1>1, <1>2, <1>3, <1>4, <1>5, StepForms

-----------------------------------------------------------------------------
(* The frames and the comment flag follow the lines. *)

\* Lines are added to texts that are not closed, and nothing else happens to them.
LEMMA TextGrows ==
    ASSUME TypeOK, ReadInv, [Next]_vars, NEW h \in File
    PROVE  /\ text[h] \in Text /\ text'[h] \in Text /\ PrefixOf(text[h], text'[h])
           /\ h \in closed => text'[h] = text[h]
<1>1. text[h] \in Text
  BY DEF TypeOK, Text
<1>2. PrefixOf(text[h], text[h])
  BY <1>1 DEF Text, PrefixOf
<1>3. CASE OpenTop
  BY <1>1, <1>2, <1>3, FileOpens
<1>4. CASE EndFile
  BY <1>1, <1>2, <1>4, FileEnds
<1>5. ASSUME NEW l \in AnyLine, LineStep(l)
      PROVE  /\ text'[h] \in Text /\ PrefixOf(text[h], text'[h])
             /\ h \in closed => text'[h] = text[h]
  <2> DEFINE f == Current.file
  <2>1. Reads(l)
    BY <1>5 DEF LineStep
  <2>2. /\ f \in File /\ text' \in [File -> Text] /\ PrefixOf(text[f], text'[f])
        /\ \A g \in File \ {f} : text'[g] = text[g]
        /\ text' = text \/ f \notin closed
    BY <2>1, LineRead
  <2> HIDE DEF f
  <2>3. QED
    BY <1>1, <1>2, <2>2
<1>6. CASE UNCHANGED vars
  BY <1>1, <1>2, <1>6 DEF vars
<1>7. CASE RefuseTop
  BY <1>1, <1>2, <1>7, FileMissing
<1>8. QED
  BY <1>1, <1>3, <1>4, <1>5, <1>6, <1>7, StepForms

LEMMA CommentsStayOff ==
    ASSUME TypeOK, ReadInv, [Next]_vars, NoCommentAtInclude'
    PROVE  NoCommentAtInclude
<1> SUFFICES ASSUME NEW f \in File, NEW i \in DOMAIN text[f]
             PROVE  ~(text[f][i].directive = "include" /\ text[f][i].opens)
  BY DEF NoCommentAtInclude
<1>1. i \in DOMAIN text'[f] /\ text'[f][i] = text[f][i]
  BY TextGrows, PrefixDomain
<1>2. QED
  BY <1>1 DEF NoCommentAtInclude

LEMMA FrameCount ==
    ASSUME TypeOK, calls # <<>>,
           NEW t \in Text, NEW n \in Nat, n + 1 \in DOMAIN t,
           NEW l, t[n + 1] = l, NEW frames \in Seq(Frame), FrameStep(l, frames),
           Len(Frames) = Depth(t, n), comment <=> InComment(t, n)
    PROVE  Len(frames) = Depth(t, n + 1)
<1> DEFINE s == Frames
           d == Depth(t, n)
<1>1. s \in Seq(Frame) /\ Len(s) \in Nat /\ (s # <<>> <=> Len(s) > 0)
  BY CurrentType, FramesType
<1>2. /\ d \in Nat
      /\ comment => Depth(t, n + 1) = d
      /\ ~comment => Depth(t, n + 1) =
            IF l.directive \in {"ifdef", "ifndef"} THEN d + 1
            ELSE IF l.directive = "endif" /\ d > 0 THEN d - 1 ELSE d
  BY DepthStep
<1>3. NewFrame(l) \in Frame
  BY NewFrameType
<1>4. Len(Append(s, NewFrame(l))) = Len(s) + 1
  BY <1>1, <1>3, FrameSeqs
<1>5. s # <<>> => \A c \in BOOLEAN : Len([s EXCEPT ![Len(s)] = Turned(s[Len(s)], c)]) = Len(s)
  BY <1>1, FramesType, TurnedType, FrameSeqs
<1>6. s # <<>> => Len(SubSeq(s, 1, Len(s) - 1)) = Len(s) - 1
  BY <1>1, <1>3, FrameSeqs
<1>7. Len(s) = d
  OBVIOUS
<1> HIDE DEF s, d
<1>8. CASE frames = s /\ (comment \/ l.directive \notin Conditional)
  BY <1>2, <1>7, <1>8 DEF Conditional, Closers
<1>9. CASE ~comment /\ l.directive \in {"ifdef", "ifndef"} /\ frames = Append(s, NewFrame(l))
  BY <1>2, <1>4, <1>7, <1>9
<1>10. ASSUME ~comment, l.directive \in {"elsif", "else"}, s # <<>>,
              NEW c \in BOOLEAN, frames = [s EXCEPT ![Len(s)] = Turned(s[Len(s)], c)]
       PROVE  Len(frames) = Depth(t, n + 1)
  BY <1>2, <1>5, <1>7, <1>10
<1>11. CASE ~comment /\ l.directive = "endif" /\ s # <<>> /\ frames = SubSeq(s, 1, Len(s) - 1)
  BY <1>1, <1>2, <1>6, <1>7, <1>11
<1>12. CASE ~comment /\ l.directive \in Closers /\ s = <<>> /\ frames = s
  BY <1>1, <1>2, <1>7, <1>12 DEF Closers
<1>13. QED
  BY <1>8, <1>9, <1>10, <1>11, <1>12 DEF FrameStep, s

LEMMA DepthInvStep ==
    ASSUME TypeOK, ReadInv, DepthInv, NoCommentAtInclude', [Next]_vars PROVE DepthInv'
<1>t. calls \in Seq(Call) /\ DOMAIN calls = 1 .. Len(calls) /\ Len(calls) \in Nat
  BY DEF TypeOK
<1>g. \A h \in File : text[h] \in Text /\ text'[h] \in Text /\ PrefixOf(text[h], text'[h])
  BY TextGrows
<1>0. ASSUME NEW t \in Text PROVE Depth(t, 0) = 0 /\ ~InComment(t, 0)
  BY <1>0, DepthZero DEF InComment
<1>1. CASE OpenTop
  <2>1. /\ calls = <<>> /\ calls' \in Seq(Call) /\ Len(calls') = 1 /\ calls'[1] = Opened(Top[next])
        /\ text' = text /\ comment' = comment /\ Top[next] \in File
    BY <1>1, FileOpens DEF OpenTop
  <2>2. DOMAIN calls' = {1}
    BY <2>1
  <2>3. calls'[1].conditions = <<>> /\ calls'[1].file = Top[next] /\ calls'[1].line = 0
    BY <2>1 DEF Opened
  <2>4. ~comment
    BY <2>1 DEF DepthInv
  <2>5. Depth(text[Top[next]], 0) = 0 /\ ~InComment(text[Top[next]], 0)
    BY <1>0, <1>g, <2>1
  <2>6. QED
    BY <2>1, <2>2, <2>3, <2>4, <2>5 DEF DepthInv
<1>2. CASE EndFile
  <2> DEFINE K == Len(calls)
  <2>1. /\ calls' \in Seq(Call) /\ Len(calls') = K - 1 /\ K \in Nat \ {0}
        /\ \A k \in 1 .. K - 1 : calls'[k] = calls[k]
        /\ text' = text /\ comment' = FALSE
    BY <1>2, FileEnds
  <2> HIDE DEF K
  <2>2. DOMAIN calls' = 1 .. K - 1 /\ \A k \in 1 .. K - 1 : k \in DOMAIN calls /\ k # Len(calls)
    <3>1. DOMAIN calls' = 1 .. K - 1
      BY <2>1
    <3>2. \A k \in 1 .. K - 1 : k \in 1 .. K /\ k # K
      BY <2>1
    <3>3. QED
      BY <1>t, <3>1, <3>2 DEF K
  <2>3. QED
    BY <2>1, <2>2 DEF DepthInv
<1>3. ASSUME NEW l \in AnyLine, LineStep(l) PROVE DepthInv'
  <2> DEFINE f == Current.file
             n == Current.line
             K == Len(calls)
  <2>1. calls # <<>> /\ Reads(l) /\ Effects(l)
    BY <1>3 DEF LineStep
  <2>2. PICK frames \in Seq(Frame) : FrameStep(l, frames) /\ CallStep(l, frames)
    BY <1>3 DEF LineStep
  <2>3. /\ calls' \in Seq(Call) /\ calls' # <<>> /\ K \in Nat \ {0}
        /\ \A k \in 1 .. K - 1 : calls'[k] = calls[k]
        /\ calls'[K].file = f /\ calls'[K].line = n + 1
        /\ calls'[K].conditions = frames
        /\ \/ Len(calls') = K
           \/ /\ Len(calls') = K + 1 /\ ~comment /\ l.directive = "include" /\ Active
              /\ \E g \in File : /\ calls'[K + 1] = Opened(g)
                                 /\ \A k \in DOMAIN calls : calls[k].file # g
    BY <2>1, <2>2, CallsMove, Zenon
  <2>4. /\ f \in File /\ n \in Nat /\ n + 1 \in DOMAIN text'[f] /\ text'[f][n + 1] = l
        /\ \A h \in File \ {f} : text'[h] = text[h]
        /\ l \in Line[f]
    BY <2>1, LineRead
  <2>5. /\ calls[K].file = f /\ calls[K].line = n /\ calls[K].conditions = Frames
        /\ K \in DOMAIN calls
    BY <2>1, CurrentType DEF Frames
  <2>6. /\ Len(Frames) = Depth(text[f], n) /\ (comment <=> InComment(text[f], n))
        /\ n \in 0 .. Len(text[f])
    <3>1. Len(Frames) = Depth(text[f], n) /\ (comment <=> InComment(text[f], n))
      BY <2>5 DEF DepthInv
    <3>2. n <= Len(text[f])
      BY <2>5 DEF ReadInv
    <3>3. Len(text[f]) \in Nat
      BY <1>g, <2>4 DEF Text
    <3>4. QED
      BY <2>4, <3>1, <3>2, <3>3
  <2>7. comment' = IF comment THEN l.directive # "close" ELSE l.opens
    BY <2>1 DEF Effects
  <2> HIDE DEF f, n, K
  <2> DEFINE u == text'[f]
  <2>8. u \in Text /\ Depth(u, n) = Depth(text[f], n) /\ (InComment(u, n) <=> InComment(text[f], n))
    BY <1>g, <2>4, <2>6, DepthPrefix, CommentPrefix
  <2>a. /\ u \in Text /\ n \in Nat /\ n + 1 \in DOMAIN u /\ u[n + 1] = l
        /\ Len(Frames) = Depth(u, n) /\ (comment <=> InComment(u, n))
    BY <2>4, <2>6, <2>8
  <2> HIDE DEF u
  <2>9. Len(frames) = Depth(u, n + 1)
    BY <2>1, <2>2, <2>a, FrameCount
  <2>10. l.directive = "close" => ~l.opens
    BY <2>4, PreprocessorAssumption
  <2>11. l.directive = "include" => ~l.opens
    BY <2>4 DEF NoCommentAtInclude
  <2>12. InComment(u, n + 1) <=> u[n + 1].opens \/ (InComment(u, n) /\ u[n + 1].directive # "close")
    BY <2>a, <2>10, CommentStep
  <2>13. comment' <=> InComment(u, n + 1)
    <3>1. l.opens \in BOOLEAN /\ comment \in BOOLEAN
      BY DEF AnyLine, TypeOK
    <3>2. CASE comment
      BY <2>7, <2>10, <2>12, <2>a, <3>1, <3>2
    <3>3. CASE ~comment
      BY <2>7, <2>12, <2>a, <3>1, <3>3
    <3>4. QED
      BY <3>2, <3>3
  <2>14. Len(calls') = K + 1 => ~comment' /\ ~InComment(u, n + 1)
    BY <2>3, <2>7, <2>11, <2>13
  <2>15. ASSUME NEW k \in 1 .. K - 1
         PROVE  /\ Len(calls'[k].conditions) = Depth(text'[calls'[k].file], calls'[k].line)
                /\ ~InComment(text'[calls'[k].file], calls'[k].line)
    <3>1. calls'[k] = calls[k] /\ k \in DOMAIN calls /\ k # K /\ k # Len(calls)
      <4>1. K \in Nat /\ k \in 1 .. K /\ k # K
        BY <2>3, <2>15
      <4>2. QED
        BY <1>t, <2>3, <2>15, <4>1 DEF K
    <3>2. calls[k].file # f /\ calls[k].file \in File
      <4>1. \A m \in DOMAIN calls : calls[k].file = calls[m].file => k = m
        BY <3>1 DEF ReadInv
      <4>2. calls[k] \in Call
        BY <1>t, <3>1
      <4>3. QED
        BY <2>5, <3>1, <4>1, <4>2 DEF Call
    <3>3. text'[calls[k].file] = text[calls[k].file]
      BY <2>4, <3>2
    <3>4. QED
      BY <3>1, <3>3 DEF DepthInv
  <2>16. ASSUME Len(calls') = K + 1
         PROVE  LET c == calls'[K + 1] IN
                Len(c.conditions) = Depth(text'[c.file], c.line) /\ ~InComment(text'[c.file], c.line)
    <3>1. PICK g \in File : calls'[K + 1] = Opened(g)
      BY <2>3, <2>16
    <3>2. Depth(text'[g], 0) = 0 /\ ~InComment(text'[g], 0)
      BY <1>0, <1>g
    <3>3. calls'[K + 1].conditions = <<>> /\ calls'[K + 1].file = g /\ calls'[K + 1].line = 0
      BY <3>1 DEF Opened
    <3>4. QED
      BY <3>2, <3>3
  <2>17. ASSUME NEW k \in DOMAIN calls'
         PROVE  /\ Len(calls'[k].conditions) = Depth(text'[calls'[k].file], calls'[k].line)
                /\ (k = Len(calls') /\ comment') <=> InComment(text'[calls'[k].file], calls'[k].line)
    <3> DEFINE L == Len(calls')
    <3>1. L = K \/ L = K + 1
      BY <2>3
    <3>a. K \in Nat \ {0} /\ k \in 1 .. L
      BY <2>3
    <3> HIDE DEF L
    <3>2. k \in 1 .. K - 1 \/ k = K \/ (k = K + 1 /\ L = K + 1)
      BY <3>1, <3>a
    <3>3. CASE k \in 1 .. K - 1
      <4>1. k # L
        BY <3>1, <3>3, <3>a
      <4>2. QED
        BY <2>15, <3>3, <4>1 DEF L
    <3>4. CASE k = K
      <4>1. calls'[k].file = f /\ calls'[k].line = n + 1 /\ calls'[k].conditions = frames
        BY <2>3, <3>4
      <4>2. (k = Len(calls') /\ comment') <=> InComment(u, n + 1)
        BY <2>13, <2>14, <3>1, <3>4 DEF L
      <4>3. QED
        BY <2>9, <4>1, <4>2 DEF u
    <3>5. CASE k = K + 1 /\ L = K + 1
      BY <2>14, <2>16, <3>5 DEF L
    <3>6. QED
      BY <3>2, <3>3, <3>4, <3>5
  <2>18. QED
    BY <2>3, <2>17 DEF DepthInv
<1>4. CASE UNCHANGED vars
  BY <1>4 DEF vars, DepthInv
<1>5. CASE RefuseTop
  BY <1>5, FileMissing DEF DepthInv
<1>6. QED
  BY <1>1, <1>2, <1>3, <1>4, <1>5, StepForms

-----------------------------------------------------------------------------
(* What has been reported. *)

LEMMA ReportStep ==
    ASSUME TypeOK, ReadInv, DepthInv, ReportInv, [Next]_vars PROVE ReportInv'
<1>1. CASE OpenTop
  <2>1. UNCHANGED <<text, closed, diagnostics>>
    BY <1>1, FileOpens
  <2>2. QED
    BY <2>1 DEF ReportInv
<1>2. CASE EndFile
  <2> DEFINE f == Current.file
             n == Current.line
             t == text[f]
  <2>1. /\ calls # <<>> /\ n = Len(t) /\ closed' = closed \cup {f} /\ text' = text
    BY <1>2, FileEnds
  <2>2. diagnostics' = diagnostics \cup {d \in {<<"PP002", f>>} : Frames # <<>>}
                                   \cup {d \in {<<"PP004", f>>} : comment}
    BY <1>2 DEF EndFile
  <2>3. Len(calls) \in DOMAIN calls /\ Current = calls[Len(calls)] /\ f \in File
    BY <2>1, CurrentType
  <2>4. Len(Frames) = Depth(t, n) /\ (comment <=> InComment(t, n))
    BY <2>3 DEF DepthInv, Frames
  <2>5. Frames # <<>> <=> Depth(t, Len(t)) > 0
    BY <2>1, <2>4, FramesType
  <2> HIDE DEF n
  <2>6. ASSUME NEW h \in File
        PROVE  /\ <<"PP004", h>> \in diagnostics' <=>
                      <<"PP004", h>> \in diagnostics \/ (h = f /\ InComment(t, Len(t)))
               /\ <<"PP002", h>> \in diagnostics' <=>
                      <<"PP002", h>> \in diagnostics \/ (h = f /\ Depth(t, Len(t)) > 0)
    <3>1. /\ <<"PP004", h>> \in diagnostics' <=> <<"PP004", h>> \in diagnostics \/ (h = f /\ comment)
          /\ <<"PP002", h>> \in diagnostics' <=> <<"PP002", h>> \in diagnostics \/ (h = f /\ Frames # <<>>)
      BY <2>2
    <3>2. QED
      BY <2>1, <2>4, <2>5, <3>1
  <2>7. QED
    BY <2>1, <2>6 DEF ReportInv
<1>3. ASSUME NEW l \in AnyLine, LineStep(l) PROVE ReportInv'
  <2> DEFINE f == Current.file
             n == Current.line
             t == text[f]
             u == text'[f]
             stray == ~comment /\ l.directive \in Closers /\ Frames = <<>>
  <2>1. calls # <<>> /\ Reads(l) /\ Effects(l) /\ closed' = closed
    BY <1>3 DEF LineStep
  <2>2. /\ f \in File /\ n \in Nat /\ n + 1 \in DOMAIN u /\ u[n + 1] = l
        /\ PrefixOf(t, u) /\ \A h \in File \ {f} : text'[h] = text[h]
        /\ \/ text' = text /\ n < Len(t) /\ f \in closed
           \/ f \notin closed /\ n = Len(t) /\ Len(u) = n + 1
    BY <2>1, LineRead
  <2>3. \A h \in File :
          /\ <<"PP002", h>> \in diagnostics' <=> <<"PP002", h>> \in diagnostics \/ (h = f /\ stray)
          /\ <<"PP004", h>> \in diagnostics' <=> <<"PP004", h>> \in diagnostics
    BY <2>1 DEF Effects
  <2>4. Len(calls) \in DOMAIN calls /\ Current = calls[Len(calls)]
    BY <2>1, CurrentType
  <2>5. Len(Frames) = Depth(t, n) /\ (comment <=> InComment(t, n))
    BY <2>4 DEF DepthInv, Frames
  <2>6. t \in Text /\ u \in Text
    BY <2>2, TextGrows
  <2>7. stray <=> ~InComment(t, n) /\ Depth(t, n) = 0 /\ l.directive \in Closers
    BY <2>1, <2>5, FramesType
  <2> HIDE DEF f, n, t, u, stray
  <2>8. CASE text' = text /\ n < Len(t) /\ f \in closed
    <3>1. u = t
      BY <2>8 DEF t, u
    <3>2. n + 1 \in 1 .. Len(t) /\ (n + 1) - 1 = n
      BY <2>2, <2>6, <3>1 DEF Text
    <3>3. ASSUME stray PROVE HasStray(t)
      <4>1. n + 1 \in Having(t, Closers)
        BY <2>2, <2>6, <2>7, <3>1, <3>2, <3>3, HavingIs
      <4>2. PICK i \in Having(t, Closers) : i - 1 = n
        BY <3>2, <4>1
      <4>3. Depth(t, i - 1) = 0
        BY <2>7, <3>3, <4>2, Zenon
      <4>4. QED
        BY <4>2, <4>3, Zenon DEF HasStray, Closers
    <3>4. stray => <<"PP002", f>> \in diagnostics
      BY <2>2, <3>3 DEF ReportInv, t
    <3>5. QED
      BY <2>1, <2>3, <2>8, <3>4 DEF ReportInv
  <2>9. CASE f \notin closed /\ n = Len(t) /\ Len(u) = n + 1
    <3>1. HasStray(u) <=> HasStray(t) \/ stray
      <4>1. Len(u) = Len(t) + 1 /\ u[Len(u)] = l
        BY <2>2, <2>9
      <4>2. QED
        BY <2>2, <2>6, <2>7, <2>9, <4>1, StrayStep DEF Closers
    <3>2. /\ <<"PP004", f>> \notin diagnostics
          /\ <<"PP002", f>> \in diagnostics <=> HasStray(t)
      BY <2>2, <2>9 DEF ReportInv, t
    <3>3. /\ <<"PP004", f>> \notin diagnostics'
          /\ <<"PP002", f>> \in diagnostics' <=> HasStray(u)
      BY <2>2, <2>3, <3>1, <3>2
    <3>4. ASSUME NEW h \in File
          PROVE  /\ <<"PP004", h>> \in diagnostics' <=> h \in closed' /\ InComment(text'[h], Len(text'[h]))
                 /\ <<"PP002", h>> \in diagnostics' <=>
                        HasStray(text'[h]) \/ (h \in closed' /\ Depth(text'[h], Len(text'[h])) > 0)
      <4>1. CASE h = f
        BY <2>1, <2>9, <3>3, <4>1 DEF u
      <4>2. CASE h # f
        BY <2>1, <2>2, <2>3, <4>2 DEF ReportInv
      <4>3. QED
        BY <4>1, <4>2
    <3>5. QED
      BY <3>4 DEF ReportInv
  <2>10. QED
    BY <2>2, <2>8, <2>9
<1>4. CASE UNCHANGED vars
  BY <1>4 DEF vars, ReportInv
<1>5. CASE RefuseTop
  <2>1. /\ UNCHANGED <<text, closed, calls, comment>>
        /\ \A h \in File, rule \in {"PP002", "PP004"} :
               <<rule, h>> \in diagnostics' <=> <<rule, h>> \in diagnostics
    BY <1>5, FileMissing
  <2>2. QED
    BY <2>1 DEF ReportInv
<1>6. QED
  BY <1>1, <1>2, <1>3, <1>4, <1>5, StepForms

-----------------------------------------------------------------------------
(* Include guards. *)

LEMMA BeginsPrefix ==
    ASSUME NEW t \in Text, NEW u \in Text, PrefixOf(t, u), NEW g, Begins(u, g)
    PROVE  Begins(t, g)
<1>1. /\ Len(t) \in Nat /\ Len(u) \in Nat /\ Len(t) <= Len(u)
      /\ \A i \in 1 .. Len(t) : u[i] = t[i] /\ Depth(u, i) = Depth(t, i) /\ Depth(u, i - 1) = Depth(t, i - 1)
  <2>1. Len(t) \in Nat /\ Len(u) \in Nat /\ Len(t) <= Len(u) /\ \A i \in 1 .. Len(t) : u[i] = t[i]
    BY PrefixDomain
  <2>2. \A i \in 1 .. Len(t) : i \in 0 .. Len(t) /\ i - 1 \in 0 .. Len(t)
    BY <2>1
  <2>3. QED
    BY <2>1, <2>2, DepthPrefix
<1>2. t # <<>> => Len(t) >= 1
  BY DEF Text
<1>3. t # <<>> => t[1].directive = "ifndef" /\ t[1].arg = g
  <2>1. t # <<>> => u # <<>> /\ u[1] = t[1]
    BY <1>1, <1>2
  <2>2. QED
    BY <2>1 DEF Begins
<1>4. Len(t) >= 2 => t[2].directive = "define" /\ t[2].arg = g
  BY <1>1 DEF Begins
<1>5. ASSUME NEW i \in 2 .. Len(t)
      PROVE  /\ ~t[i - 1].opens /\ Depth(t, i - 1) > 0
             /\ Depth(t, i) = 1 => t[i].directive \notin {"else", "elsif"}
  <2>1. i \in 2 .. Len(u) /\ i \in 1 .. Len(t) /\ i - 1 \in 1 .. Len(t)
    BY <1>1
  <2>2. /\ ~u[i - 1].opens /\ Depth(u, i - 1) > 0
        /\ Depth(u, i) = 1 => u[i].directive \notin {"else", "elsif"}
    BY <2>1 DEF Begins
  <2>3. QED
    BY <1>1, <2>1, <2>2
<1>6. QED
  BY <1>3, <1>4, <1>5 DEF Begins

\* After the first line the outermost conditional of a guarded text is open,
\* and no comment is.
LEMMA GuardedText ==
    ASSUME NEW t \in Text, NEW g, Begins(t, g), NEW n \in Nat, n + 1 \in DOMAIN t,
           Depth(t, n) \in Nat
    PROVE  /\ n = 0 => t[1].directive = "ifndef" /\ t[1].arg = g
           /\ n = 1 => t[2].directive = "define" /\ t[2].arg = g /\ Depth(t, 1) = 1
           /\ n # 0 => Depth(t, n) > 0 /\ Len(t) >= 2
           /\ ~InComment(t, n)
           /\ n # 0 /\ Depth(t, n) = 1 => t[n + 1].directive \notin {"else", "elsif"}
<1>1. Len(t) \in Nat /\ DOMAIN t = 1 .. Len(t) /\ n + 1 <= Len(t)
  BY DEF Text
<1>2. ~InComment(t, n)
  <2>1. \A i \in 1 .. n : ~t[i].opens
    <3>1. SUFFICES ASSUME NEW i \in 1 .. n PROVE ~t[i].opens
      OBVIOUS
    <3>2. i + 1 \in 2 .. Len(t) /\ (i + 1) - 1 = i
      BY <1>1
    <3>3. ~t[(i + 1) - 1].opens
      BY <3>2 DEF Begins
    <3>4. QED
      BY <3>2, <3>3
  <2>2. QED
    BY <2>1 DEF InComment
<1>3. n = 0 => t[1].directive = "ifndef" /\ t[1].arg = g
  BY <1>1 DEF Begins
<1>4. n # 0 => Depth(t, n) > 0 /\ Len(t) >= 2
  <2>1. n # 0 => n + 1 \in 2 .. Len(t) /\ (n + 1) - 1 = n
    BY <1>1
  <2>2. \A i \in 2 .. Len(t) : Depth(t, i - 1) > 0
    BY DEF Begins
  <2>3. QED
    BY <1>1, <2>1, <2>2
<1>5. n = 1 => t[2].directive = "define" /\ t[2].arg = g /\ Depth(t, 1) = 1
  <2>1. SUFFICES ASSUME n = 1 PROVE t[2].directive = "define" /\ t[2].arg = g /\ Depth(t, 1) = 1
    OBVIOUS
  <2>2. Len(t) >= 2 /\ t # <<>> /\ 0 + 1 \in DOMAIN t /\ 0 + 1 = 1
    BY <1>1, <2>1
  <2>3. t[1].directive = "ifndef" /\ t[2].directive = "define" /\ t[2].arg = g
    BY <2>2 DEF Begins
  <2>4. ~InComment(t, 0)
    BY DEF InComment
  <2>5. Depth(t, 0 + 1) = Depth(t, 0) + 1 /\ Depth(t, 0) = 0
    BY <2>2, <2>3, <2>4, DepthStep
  <2>6. QED
    BY <2>2, <2>3, <2>5
<1>6. n # 0 /\ Depth(t, n) = 1 => t[n + 1].directive \notin {"else", "elsif"}
  <2>1. SUFFICES ASSUME n # 0, Depth(t, n) = 1, t[n + 1].directive \in {"else", "elsif"} PROVE FALSE
    OBVIOUS
  <2>2. n + 1 \in 2 .. Len(t)
    BY <1>1, <2>1
  <2>3. Depth(t, n + 1) = Depth(t, n)
    BY <1>2, <2>1, DepthStep
  <2>4. QED
    BY <2>1, <2>2, <2>3 DEF Begins
<1>7. QED
  BY <1>2, <1>3, <1>4, <1>5, <1>6

\* What is known of the current file when line n + 1 of its text u is read.
AtLine(l, u, n) ==
    /\ calls # <<>> /\ u \in Text /\ n \in Nat /\ n + 1 \in DOMAIN u /\ u[n + 1] = l
    /\ Current.line = n /\ Len(Frames) = Depth(u, n) /\ comment = InComment(u, n)

LEMMA LineFacts ==
    ASSUME TypeOK, ReadInv, DepthInv, [Next]_vars, NEW l \in AnyLine, Reads(l),
           NEW f, f = Current.file
    PROVE  AtLine(l, text'[f], Current.line)
<1> DEFINE n == Current.line
           u == text'[f]
<1>1. calls # <<>>
  BY DEF Reads
<1>2. f \in File /\ n \in Nat /\ n + 1 \in DOMAIN u /\ u[n + 1] = l
  BY LineRead
<1>3. text[f] \in Text /\ u \in Text /\ PrefixOf(text[f], u)
  BY <1>2, TextGrows
<1>4. Len(calls) \in DOMAIN calls /\ Current = calls[Len(calls)]
  BY <1>1, CurrentType
<1>5. Len(Frames) = Depth(text[f], n) /\ (comment <=> InComment(text[f], n)) /\ n <= Len(text[f])
  BY <1>4 DEF DepthInv, ReadInv, Frames
<1> HIDE DEF n, u
<1>6. n \in 0 .. Len(text[f])
  BY <1>2, <1>3, <1>5 DEF Text
<1>7. Depth(u, n) = Depth(text[f], n) /\ (InComment(u, n) <=> InComment(text[f], n))
  BY <1>3, <1>6, DepthPrefix, CommentPrefix
<1>8. InComment(u, n) \in BOOLEAN /\ comment \in BOOLEAN
  BY DEF InComment, TypeOK
<1>9. comment = InComment(u, n)
  BY <1>5, <1>7, <1>8
<1>10. Len(Frames) = Depth(u, n)
  BY <1>5, <1>7
<1>11. QED
  BY <1>1, <1>2, <1>3, <1>9, <1>10 DEF AtLine, n, u

\* The outermost frame of a guarded file is opened by its first line and never
\* goes on to another branch.
LEMMA GuardFrame ==
    ASSUME TypeOK, NEW l \in AnyLine, NEW u, NEW n, AtLine(l, u, n),
           NEW g, Begins(u, g), NEW frames \in Seq(Frame), FrameStep(l, frames), frames # <<>>
    PROVE  \/ n = 0 /\ frames[1].seen = <<g \notin defines>>
           \/ n # 0 /\ Frames # <<>> /\ frames[1] = Frames[1]
<1> DEFINE s == Frames
           N == Len(s)
<1>1. calls # <<>> /\ u \in Text /\ n \in Nat /\ n + 1 \in DOMAIN u /\ u[n + 1] = l /\ N = Depth(u, n)
  BY DEF AtLine
<1>2. s \in Seq(Frame) /\ N \in Nat /\ (s # <<>> <=> N > 0)
  BY <1>1, CurrentType, FramesType
<1>3. ~comment
  BY <1>1, <1>2, GuardedText DEF AtLine
<1>4. CASE n = 0
  <2>1. l.directive = "ifndef" /\ l.arg = g
    BY <1>1, <1>2, <1>4, GuardedText
  <2>2. N = 0
    BY <1>1, <1>4, DepthZero
  <2>3. frames = Append(Frames, NewFrame(l))
    BY <1>3, <2>1 DEF FrameStep, Conditional, Closers
  <2>4. frames[N + 1] = NewFrame(l)
    BY <1>1, <1>2, <2>3, NewFrameType, FrameSeqs
  <2>5. NewFrame(l).seen = <<Holds(l)>>
    BY DEF NewFrame
  <2>6. Holds(l) = (g \notin defines)
    BY <2>1 DEF Holds
  <2> HIDE DEF N
  <2>7. frames[1] = NewFrame(l)
    BY <2>2, <2>4
  <2>8. QED
    BY <1>4, <2>5, <2>6, <2>7
<1>5. CASE n # 0
  <2>1. N > 0 /\ s # <<>>
    BY <1>1, <1>2, <1>5, GuardedText
  <2>2. N = 1 => l.directive \notin {"else", "elsif"}
    BY <1>1, <1>2, <1>5, GuardedText
  <2>3. ASSUME NEW x \in Frame
        PROVE  /\ Append(s, x)[1] = s[1]
               /\ N # 1 => [s EXCEPT ![N] = x][1] = s[1]
               /\ Len(SubSeq(s, 1, N - 1)) = N - 1
               /\ N # 1 => SubSeq(s, 1, N - 1)[1] = s[1]
    <3>1. 1 \in 1 .. N /\ (N # 1 => 1 \in 1 .. N - 1)
      <4>1. N \in Nat /\ N > 0
        BY <1>2, <2>1
      <4> HIDE DEF s, N
      <4>2. QED
        BY <4>1
    <3>2. /\ \A i \in 1 .. N : Append(s, x)[i] = s[i]
          /\ \A i \in 1 .. N - 1 : [s EXCEPT ![N] = x][i] = s[i]
          /\ Len(SubSeq(s, 1, N - 1)) = N - 1
          /\ \A i \in 1 .. N - 1 : SubSeq(s, 1, N - 1)[i] = s[i]
      BY <1>2, <2>1, <2>3, FrameSeqs
    <3> HIDE DEF s, N
    <3>3. QED
      BY <3>1, <3>2
  <2>4. N # 0 /\ s[N] \in Frame /\ NewFrame(l) \in Frame
    BY <1>1, <1>2, <2>1, NewFrameType
  <2>5. \A c \in BOOLEAN : Turned(s[N], c) \in Frame
    BY <2>4, TurnedType
  <2>6. CASE frames = s
    BY <1>5, <2>1, <2>6
  <2>7. CASE frames = Append(s, NewFrame(l))
    BY <1>5, <2>1, <2>3, <2>4, <2>7
  <2>8. CASE l.directive \in {"elsif", "else"} /\ \E c \in BOOLEAN : frames = [s EXCEPT ![N] = Turned(s[N], c)]
    <3>1. PICK c \in BOOLEAN : frames = [s EXCEPT ![N] = Turned(s[N], c)]
      BY <2>8
    <3>2. N # 1
      BY <2>2, <2>8
    <3>3. QED
      BY <1>5, <2>1, <2>3, <2>5, <3>1, <3>2
  <2>9. CASE frames = SubSeq(s, 1, N - 1)
    <3>1. Len(frames) = N - 1 /\ (N # 1 => frames[1] = s[1])
      BY <2>3, <2>4, <2>9
    <3>2. Len(frames) # 0
      OBVIOUS
    <3>3. QED
      BY <1>2, <1>5, <2>1, <3>1, <3>2
  <2>10. QED
    BY <2>6, <2>7, <2>8, <2>9 DEF FrameStep
<1>6. QED
  BY <1>4, <1>5

\* A macro that no file undefines stays defined.
LEMMA GuardStaysDefined ==
    ASSUME TypeOK, ReadInv, [Next]_vars, NEW g, Kept(g)', g \in defines
    PROVE  g \in defines'
<1>1. CASE OpenTop
  BY <1>1, FileOpens
<1>2. CASE EndFile
  BY <1>2, FileEnds
<1>3. ASSUME NEW l \in AnyLine, LineStep(l) PROVE g \in defines'
  <2>1. Reads(l) /\ Effects(l)
    BY <1>3 DEF LineStep
  <2>2. Current.file \in File /\ Current.line + 1 \in DOMAIN text'[Current.file]
        /\ text'[Current.file][Current.line + 1] = l
    BY <2>1, LineRead
  <2>3. ~(l.directive = "undef" /\ l.arg = g)
    BY <2>2 DEF Kept
  <2>4. \/ defines' = defines \cup {l.arg} \/ defines' = defines
        \/ l.directive = "undef" /\ defines' = defines \ {l.arg}
    BY <2>1 DEF Effects
  <2>5. QED
    BY <2>3, <2>4
<1>4. CASE UNCHANGED vars
  BY <1>4 DEF vars, shared
<1>5. CASE RefuseTop
  BY <1>5, FileMissing
<1>6. QED
  BY <1>1, <1>2, <1>3, <1>4, <1>5, StepForms

\* The second line of a guarded file defines its macro, and no line of it is
\* put out again when it is.
LEMMA GuardLine ==
    ASSUME TypeOK, ReadInv, SelectInv, DepthInv, [Next]_vars,
           NEW l \in AnyLine, LineStep(l), NEW f, f = Current.file,
           NEW g, Kept(g)', Begins(text'[f], g), Begins(text[f], g),
           Len(text[f]) >= 2 => g \in defines, GuardOpen(Current, g)
    PROVE  /\ Len(text'[f]) >= 2 => g \in defines'
           /\ repeated' = repeated
<1> DEFINE n == Current.line
           u == text'[f]
           t == text[f]
<1>1. calls # <<>> /\ Reads(l) /\ Effects(l)
  BY DEF LineStep
<1>2. /\ f \in File /\ t \in Text /\ u \in Text /\ Len(t) \in Nat
      /\ \/ text' = text /\ n < Len(t) /\ f \in closed
         \/ f \notin closed /\ n = Len(t) /\ Len(u) = n + 1
  <2>1. f \in File /\ \/ text' = text /\ n < Len(t) /\ f \in closed
                      \/ f \notin closed /\ n = Len(t) /\ Len(u) = n + 1
    BY <1>1, LineRead
  <2>2. t \in Text /\ u \in Text
    BY <2>1, TextGrows
  <2>3. Len(t) \in Nat
    BY <2>2 DEF Text
  <2>4. QED
    BY <2>1, <2>2, <2>3
<1>3. AtLine(l, u, n)
  BY <1>1, LineFacts
<1>4. /\ Frames # <<>> => /\ Len(Frames[1].seen) = 1
                          /\ Frames[1].seen[1] /\ Len(t) >= 2 => f \notin closed
                          /\ ~Frames[1].seen[1] => g \in defines
  BY DEF GuardOpen, Frames
<1>5. Active <=> AllSelected(Frames)
  <2>1. Len(calls) \in DOMAIN calls /\ Frames = calls[Len(calls)].conditions
    BY <1>1, CurrentType DEF Frames
  <2>2. Chosen(Frames)
    BY <2>1 DEF SelectInv
  <2>3. QED
    BY <1>1, <2>2, ActiveMeansSelected
<1>6. g \in defines => g \in defines'
  BY GuardStaysDefined
<1>7. repeated' = repeated \/ (/\ Active /\ l.directive \in {"text", "use", "close"}
                               /\ repeated' = repeated \cup ({<<f, n + 1>>} \cap emitted))
  BY <1>1 DEF Effects, output
<1>8. ~comment /\ Active /\ l.directive = "define" => defines' = defines \cup {l.arg}
  BY <1>1 DEF Effects
<1> HIDE DEF n, u, t
<1>9. n \in Nat /\ n + 1 \in DOMAIN u /\ u[n + 1] = l /\ Len(Frames) = Depth(u, n) /\ Len(Frames) \in Nat
  BY <1>1, <1>3, FramesType DEF AtLine
<1>10. /\ n = 0 => l.directive = "ifndef"
       /\ n = 1 => l.directive = "define" /\ l.arg = g /\ Len(Frames) = 1
       /\ n # 0 => Len(Frames) > 0
       /\ ~comment
  <2>1. Begins(u, g) /\ Depth(u, n) \in Nat
    BY <1>9 DEF u
  <2>2. /\ n = 0 => u[1].directive = "ifndef"
        /\ n = 1 => u[2].directive = "define" /\ u[2].arg = g /\ Depth(u, 1) = 1
        /\ n # 0 => Depth(u, n) > 0
        /\ ~InComment(u, n)
    BY <1>2, <1>9, <2>1, GuardedText
  <2>3. comment = InComment(u, n)
    BY <1>3 DEF AtLine
  <2>4. (n = 0 => u[1] = l) /\ (n = 1 => u[2] = l)
    BY <1>9
  <2>5. QED
    BY <1>9, <2>2, <2>3, <2>4
<1>11. /\ DOMAIN Frames = 1 .. Len(Frames)
       /\ Len(Frames) > 0 => Frames # <<>> /\ 1 \in DOMAIN Frames /\ Frames[1] \in Frame
  BY <1>1, <1>9, FramesType
<1>12. Frames # <<>> => (Selected(Frames[1]) <=> Frames[1].seen[1])
  <2>1. Frames # <<>> => Len(Frames[1].seen) = 1 /\ Last(Frames[1].seen) = Frames[1].seen[1]
    BY <1>4 DEF Last
  <2>2. \A frame : Len(frame.seen) = 1 => (Selected(frame) <=> Last(frame.seen))
    BY DEF Selected
  <2>3. QED
    BY <2>1, <2>2
<1>13. ASSUME Len(u) >= 2 PROVE g \in defines'
  <2>1. CASE Len(t) >= 2
    BY <1>6, <2>1 DEF t
  <2>2. CASE ~(Len(t) >= 2)
    <3>1. n = 1
      <4>1. n = Len(t) /\ Len(u) = n + 1
        BY <1>2, <1>13, <2>2 DEF t, u
      <4>2. QED
        BY <1>2, <1>9, <1>13, <2>2, <4>1
    <3>2. l.directive = "define" /\ l.arg = g /\ Len(Frames) = 1 /\ Frames # <<>>
      BY <1>10, <1>11, <3>1
    <3>3. CASE Frames[1].seen[1]
      <4>1. Active
        BY <1>5, <1>11, <1>12, <3>2, <3>3 DEF AllSelected
      <4>2. QED
        BY <1>8, <1>10, <3>2, <4>1
    <3>4. CASE ~Frames[1].seen[1]
      BY <1>4, <1>6, <3>2, <3>4
    <3>5. QED
      BY <3>3, <3>4
  <2>3. QED
    BY <2>1, <2>2
<1>14. repeated' = repeated
  <2>1. SUFFICES ASSUME Active, l.directive \in {"text", "use", "close"},
                        repeated' = repeated \cup ({<<f, n + 1>>} \cap emitted)
                 PROVE  <<f, n + 1>> \notin emitted
    BY <1>7
  <2>2. n # 0 /\ Frames # <<>> /\ 1 \in DOMAIN Frames
    BY <1>10, <1>11, <2>1
  <2>3. Frames[1].seen[1]
    BY <1>5, <1>12, <2>1, <2>2 DEF AllSelected
  <2>4. f \notin closed
    <3>1. CASE text' = text /\ n < Len(t) /\ f \in closed
      <4>1. Len(t) >= 2
        BY <1>2, <1>9, <2>2, <3>1
      <4>2. QED
        BY <1>4, <2>2, <2>3, <4>1
    <3>2. QED
      BY <1>2, <3>1
  <2>5. n = Len(t)
    BY <1>2, <2>4
  <2>6. <<f, n + 1>> \in emitted => n + 1 <= Len(t)
    <3>1. \A e \in emitted : e[2] <= Len(text[e[1]])
      BY DEF ReadInv
    <3>2. QED
      BY <3>1 DEF t
  <2>7. QED
    BY <1>2, <2>5, <2>6
<1>15. QED
  BY <1>13, <1>14 DEF u

LEMMA GuardStep ==
    ASSUME TypeOK, ReadInv, SelectInv, DepthInv, GuardInv, [Next]_vars PROVE GuardInv'
<1>t. calls \in Seq(Call) /\ DOMAIN calls = 1 .. Len(calls) /\ Len(calls) \in Nat
  BY DEF TypeOK
<1> SUFFICES ASSUME NEW f \in File, NEW g \in Macro \ Given, Kept(g)', Begins(text'[f], g)
             PROVE  /\ Len(text'[f]) >= 2 => g \in defines'
                    /\ \A at \in repeated' : at[1] # f
                    /\ \A k \in DOMAIN calls' : calls'[k].file = f => GuardOpen(calls[k], g)'
  BY DEF GuardInv
<1>p. text[f] \in Text /\ text'[f] \in Text /\ PrefixOf(text[f], text'[f]) /\ (f \in closed => text'[f] = text[f])
  BY TextGrows
<1>b. Begins(text[f], g)
  BY <1>p, BeginsPrefix
<1>q. Kept(g)
  <2>1. ASSUME NEW h \in File, NEW i \in DOMAIN text[h]
        PROVE  ~(text[h][i].directive = "undef" /\ text[h][i].arg = g)
    <3>1. i \in DOMAIN text'[h] /\ text'[h][i] = text[h][i]
      BY TextGrows, PrefixDomain
    <3>2. QED
      BY <3>1 DEF Kept
  <2>2. QED
    BY <2>1 DEF Kept
<1>h. /\ Len(text[f]) >= 2 => g \in defines
      /\ \A at \in repeated : at[1] # f
      /\ \A k \in DOMAIN calls : calls[k].file = f => GuardOpen(calls[k], g)
  BY <1>b, <1>q DEF GuardInv
<1>d. g \in defines => g \in defines'
  BY GuardStaysDefined
\* A file that goes on being read, with its frames as they were.
<1>s. ASSUME NEW k \in DOMAIN calls, NEW m, calls'[m] = calls[k], calls[k].file = f,
             text'[f] = text[f], f \in closed' => f \in closed
      PROVE  GuardOpen(calls[m], g)'
  BY <1>d, <1>h, <1>s DEF GuardOpen
\* A file that begins to be read.
<1>o. ASSUME NEW m, NEW h, calls'[m] = Opened(h) PROVE GuardOpen(calls[m], g)'
  <2>1. calls'[m].conditions = <<>>
    BY <1>o DEF Opened
  <2>2. QED
    BY <2>1 DEF GuardOpen
<1>1. CASE OpenTop
  <2>1. /\ calls' \in Seq(Call) /\ Len(calls') = 1 /\ calls'[1] = Opened(Top[next])
        /\ UNCHANGED <<text, defines, repeated>>
    BY <1>1, FileOpens
  <2>2. DOMAIN calls' = {1}
    BY <2>1
  <2>3. QED
    BY <1>h, <1>o, <2>1, <2>2
<1>2. CASE EndFile
  <2> DEFINE K == Len(calls)
  <2>1. /\ calls' \in Seq(Call) /\ Len(calls') = K - 1 /\ K \in Nat \ {0}
        /\ \A k \in 1 .. K - 1 : calls'[k] = calls[k]
        /\ closed' = closed \cup {Current.file} /\ UNCHANGED <<text, defines, repeated>>
        /\ K \in DOMAIN calls /\ Current = calls[K]
    BY <1>2, FileEnds, CurrentType
  <2> HIDE DEF K
  <2>2. DOMAIN calls' = 1 .. K - 1 /\ DOMAIN calls = 1 .. K
    BY <1>t, <2>1 DEF K
  <2>3. ASSUME NEW k \in 1 .. K - 1, calls'[k].file = f PROVE GuardOpen(calls[k], g)'
    <3>1. k \in DOMAIN calls /\ k # K /\ calls'[k] = calls[k]
      BY <2>1, <2>2, <2>3
    <3>2. Current.file # f
      BY <2>1, <2>3, <3>1 DEF ReadInv
    <3>3. QED
      BY <1>s, <2>1, <2>3, <3>1, <3>2
  <2>4. QED
    BY <1>h, <2>1, <2>2, <2>3
<1>3. ASSUME NEW l \in AnyLine, LineStep(l)
      PROVE  /\ Len(text'[f]) >= 2 => g \in defines'
             /\ \A at \in repeated' : at[1] # f
             /\ \A k \in DOMAIN calls' : calls'[k].file = f => GuardOpen(calls[k], g)'
  <2> DEFINE K == Len(calls)
             n == Current.line
             h == Current.file
  <2>1. calls # <<>> /\ Reads(l) /\ Effects(l) /\ closed' = closed
    BY <1>3 DEF LineStep
  <2>2. PICK frames \in Seq(Frame) : FrameStep(l, frames) /\ CallStep(l, frames)
    BY <1>3 DEF LineStep
  <2>3. /\ calls' \in Seq(Call) /\ calls' # <<>> /\ K \in Nat \ {0}
        /\ \A k \in 1 .. K - 1 : calls'[k] = calls[k]
        /\ calls'[K].file = h /\ calls'[K].line = n + 1
        /\ calls'[K].conditions = frames
        /\ \/ Len(calls') = K
           \/ /\ Len(calls') = K + 1 /\ ~comment /\ l.directive = "include" /\ Active
              /\ \E file \in File : /\ calls'[K + 1] = Opened(file)
                                    /\ \A k \in DOMAIN calls : calls[k].file # file
    BY <2>1, <2>2, CallsMove, Zenon
  <2>4. /\ h \in File /\ \A file \in File \ {h} : text'[file] = text[file]
        /\ \/ text' = text /\ n < Len(text[h]) /\ h \in closed
           \/ h \notin closed /\ n = Len(text[h]) /\ Len(text'[h]) = n + 1
    BY <2>1, LineRead
  <2>5. K \in DOMAIN calls /\ Current = calls[K] /\ Frames = calls[K].conditions
    BY <2>1, CurrentType DEF Frames
  <2>6. AtLine(l, text'[h], n)
    BY <2>1, LineFacts
  <2>7. \A at \in repeated' : at \in repeated \/ at[1] = h
    BY <2>1 DEF Effects, output
  <2>8. h = f => (Len(text'[f]) >= 2 => g \in defines') /\ repeated' = repeated
    <3>1. SUFFICES ASSUME h = f
                   PROVE  (Len(text'[f]) >= 2 => g \in defines') /\ repeated' = repeated
      OBVIOUS
    <3>2. GuardOpen(Current, g)
      BY <1>h, <2>5, <3>1
    <3>3. QED
      BY <1>3, <1>b, <1>h, <3>1, <3>2, GuardLine
  <2> HIDE DEF K, n, h
  <2>9. Len(text'[f]) >= 2 => g \in defines'
    BY <1>d, <1>h, <2>4, <2>8
  <2>10. \A at \in repeated' : at[1] # f
    BY <1>h, <2>7, <2>8
  <2>11. ASSUME NEW k \in 1 .. K - 1, calls'[k].file = f PROVE GuardOpen(calls[k], g)'
    <3>1. k \in DOMAIN calls /\ k # K /\ calls'[k] = calls[k]
      <4>1. k \in 1 .. K /\ k # K
        BY <2>3
      <4>2. QED
        BY <1>t, <2>3, <4>1 DEF K
    <3>2. h # f
      BY <2>5, <2>11, <3>1 DEF ReadInv, h
    <3>3. text'[f] = text[f]
      BY <2>4, <3>2
    <3>4. QED
      BY <1>s, <2>1, <2>11, <3>1, <3>3
  <2>12. ASSUME NEW k, k = K, calls'[k].file = f PROVE GuardOpen(calls[k], g)'
    <3>1. h = f
      BY <2>3, <2>12
    <3>2. SUFFICES ASSUME frames # <<>>
                   PROVE  /\ Len(frames[1].seen) = 1
                          /\ frames[1].seen[1] /\ Len(text'[f]) >= 2 => f \notin closed'
                          /\ ~frames[1].seen[1] => g \in defines'
      BY <2>3, <2>12 DEF GuardOpen
    <3>3. \/ n = 0 /\ frames[1].seen = <<g \notin defines>>
          \/ n # 0 /\ Frames # <<>> /\ frames[1] = Frames[1]
      BY <2>2, <2>6, <3>1, <3>2, GuardFrame
    <3>4. CASE n = 0 /\ frames[1].seen = <<g \notin defines>>
      <4>1. Len(frames[1].seen) = 1 /\ frames[1].seen[1] = (g \notin defines)
        BY <3>4
      <4>2. f \in closed => text'[f] = text[f]
        BY <1>p
      <4>3. QED
        BY <1>d, <1>h, <2>1, <4>1, <4>2
    <3>5. CASE n # 0 /\ Frames # <<>> /\ frames[1] = Frames[1]
      <4>1. /\ Len(Frames[1].seen) = 1
            /\ Frames[1].seen[1] /\ Len(text[f]) >= 2 => f \notin closed
            /\ ~Frames[1].seen[1] => g \in defines
        BY <1>h, <2>5, <3>1, <3>5 DEF GuardOpen, h
      <4>2. f \in closed => text'[f] = text[f]
        BY <1>p
      <4>3. QED
        BY <1>d, <2>1, <3>5, <4>1, <4>2
    <3>6. QED
      BY <3>3, <3>4, <3>5
  <2>13. ASSUME NEW k \in DOMAIN calls', calls'[k].file = f PROVE GuardOpen(calls[k], g)'
    <3> DEFINE L == Len(calls')
    <3>1. L = K \/ (L = K + 1 /\ \E file \in File : calls'[K + 1] = Opened(file))
      BY <2>3
    <3>2. K \in Nat \ {0} /\ k \in 1 .. L
      BY <2>3
    <3> HIDE DEF L
    <3>3. k \in 1 .. K - 1 \/ k = K \/ (k = K + 1 /\ L = K + 1)
      BY <3>1, <3>2
    <3>4. CASE k \in 1 .. K - 1
      BY <2>11, <2>13, <3>4
    <3>5. CASE k = K
      BY <2>12, <2>13, <3>5
    <3>6. CASE k = K + 1 /\ L = K + 1
      <4>1. PICK file \in File : calls'[k] = Opened(file)
        BY <3>1, <3>2, <3>6
      <4>2. QED
        BY <1>o, <4>1
    <3>7. QED
      BY <3>3, <3>4, <3>5, <3>6
  <2>14. QED
    BY <2>9, <2>10, <2>13
<1>4. CASE UNCHANGED vars
  <2>1. UNCHANGED <<text, closed, calls, defines, repeated>>
    BY <1>4 DEF vars, shared, output
  <2>2. QED
    BY <1>h, <1>s, <2>1
<1>5. CASE RefuseTop
  <2>1. UNCHANGED <<text, closed, calls, defines, repeated>>
    BY <1>5, FileMissing
  <2>2. QED
    BY <1>h, <1>s, <2>1
<1>6. QED
  BY <1>1, <1>2, <1>3, <1>4, <1>5, StepForms

-----------------------------------------------------------------------------
(* The theorems. *)

LEMMA InitLinesInv == Init => LinesInv
<1> SUFFICES ASSUME Init PROVE LinesInv
  OBVIOUS
<1>1. /\ text = [f \in File |-> <<>>] /\ closed = {} /\ next = 1 /\ calls = <<>> /\ comment = FALSE
      /\ defines = Given /\ nettypeNone = FALSE /\ timescale = {}
      /\ diagnostics = {} /\ emitted = {} /\ repeated = {}
  BY DEF Init
<1>2. \A f \in File : text[f] = <<>> /\ DOMAIN text[f] = {} /\ Len(text[f]) = 0
  BY <1>1
<1>3. DOMAIN calls = {} /\ calls \in Seq(Call)
  BY <1>1
<1>4. TypeOK
  <2>1. <<>> \in Seq(AnyLine) /\ 1 \in 1 .. Len(Top) + 1 /\ Given \subseteq Macro
    BY PreprocessorAssumption
  <2>2. text \in [File -> Seq(AnyLine)]
    BY <1>1, <2>1
  <2>3. QED
    BY <1>1, <1>3, <2>1, <2>2 DEF TypeOK
<1>5. ReadInv
  BY <1>1, <1>2, <1>3 DEF ReadInv
<1>6. SelectInv
  BY <1>3 DEF SelectInv
<1>7. DepthInv
  BY <1>1, <1>3 DEF DepthInv
<1>8. ReportInv
  <2>1. ASSUME NEW f \in File PROVE ~HasStray(text[f])
    <3>1. \A D : Having(<<>>, D) = {}
      BY DEF Having, Code
    <3>2. QED
      BY <1>2, <3>1 DEF HasStray
  <2>2. QED
    BY <1>1, <2>1 DEF ReportInv
<1>9. GuardInv
  BY <1>1, <1>2, <1>3 DEF GuardInv
<1>10. QED
  BY <1>4, <1>5, <1>6, <1>7, <1>8, <1>9 DEF LinesInv

LEMMA StepLinesInv == LinesInv /\ [Next]_vars => LinesInv'
<1> SUFFICES ASSUME LinesInv, [Next]_vars PROVE LinesInv'
  OBVIOUS
<1>1. TypeOK /\ ReadInv /\ SelectInv
  BY DEF LinesInv
<1>2. TypeOK' /\ ReadInv' /\ SelectInv'
  BY <1>1, TypeStep, ReadStep, SelectStep
<1>3. ASSUME NoCommentAtInclude' PROVE DepthInv' /\ ReportInv' /\ GuardInv'
  <2>1. DepthInv /\ ReportInv /\ GuardInv
    BY <1>1, <1>3, CommentsStayOff DEF LinesInv
  <2>2. QED
    BY <1>1, <1>3, <2>1, DepthInvStep, ReportStep, GuardStep
<1>4. QED
  BY <1>2, <1>3 DEF LinesInv

\* What the lines read so far say of the files, their frames, the comment flag,
\* the macros and the diagnostics, after every step of the preprocessor.
THEOREM PreprocessorInductive == Spec => []LinesInv
<1>1. QED
  BY InitLinesInv, StepLinesInv, PTL DEF Spec

\* Every variable keeps its type.
THEOREM LinesTypeCorrect == Spec => []TypeOK
<1>1. LinesInv => TypeOK
  BY DEF LinesInv
<1>2. QED
  BY <1>1, PreprocessorInductive, PTL

\* _current_active looks at the innermost frame of the current file only; that is
\* enough, because the fields of a frame account for all the frames around it and
\* an include is read only where all of them are selected.
THEOREM SelectionIsTrue == Spec => []ActiveIsSelected
<1>1. LinesInv => ActiveIsSelected
  BY DEF LinesInv, SelectInv, Chosen, AllSelected, ActiveIsSelected
<1>2. QED
  BY <1>1, PreprocessorInductive, PTL

\* PP002 is reported for exactly the files whose conditionals do not match.
THEOREM ConditionalErrors == Spec => []ConditionalErrorIsTrue
<1>1. LinesInv => ConditionalErrorIsTrue
  <2> SUFFICES ASSUME LinesInv, NoCommentAtInclude, NEW f \in closed
               PROVE  <<"PP002", f>> \in diagnostics <=> Unbalanced(text[f])
    BY DEF ConditionalErrorIsTrue
  <2>1. f \in File
    BY DEF LinesInv, TypeOK
  <2>2. QED
    BY <2>1 DEF LinesInv, ReportInv, Unbalanced
<1>2. QED
  BY <1>1, PreprocessorInductive, PTL

\* PP004 is reported for exactly the files that end inside a comment of theirs:
\* the comment of one file never reaches another.
THEOREM CommentErrors == Spec => []CommentErrorIsTrue
<1>1. LinesInv => CommentErrorIsTrue
  <2> SUFFICES ASSUME LinesInv, NoCommentAtInclude, NEW f \in closed
               PROVE  <<"PP004", f>> \in diagnostics <=> InComment(text[f], Len(text[f]))
    BY DEF CommentErrorIsTrue
  <2>1. f \in File
    BY DEF LinesInv, TypeOK
  <2>2. QED
    BY <2>1 DEF LinesInv, ReportInv
<1>2. QED
  BY <1>1, PreprocessorInductive, PTL

\* The text of a file with an include guard is put out once, however often and
\* from wherever the file is read.
THEOREM GuardsWork == Spec => []GuardedOnce
<1>1. LinesInv => GuardedOnce
  <2> SUFFICES ASSUME LinesInv, NoCommentAtInclude, NEW f \in closed, NEW g \in Macro \ Given,
                      Guarded(text[f], g), Kept(g)
               PROVE  \A at \in repeated : at[1] # f
    BY DEF GuardedOnce, Kept
  <2>1. f \in File /\ text[f] \in Text
    BY DEF LinesInv, TypeOK, Text
  <2>2. Begins(text[f], g)
    BY DEF Guarded, Begins
  <2>3. QED
    BY <2>1, <2>2 DEF LinesInv, GuardInv
<1>2. QED
  BY <1>1, PreprocessorInductive, PTL

-----------------------------------------------------------------------------
(* The reading of the files goes on, line by line and file by file. *)

\* The bound on the length of the files is kept.
FilesFit == \A f \in File : Len(text[f]) <= MaxLine[f]

\* A file that the reader enters is at its beginning, and is not being read.
Entered(k) ==
    /\ calls'[k].line = 0 /\ calls'[k].file \in File
    /\ \A m \in DOMAIN calls : calls[m].file # calls'[k].file

\* A step takes the next RTL file, which may be gone, or leaves the innermost file, or goes one line
\* further in it, perhaps into another file; the files around it wait.
ReadingMovesOn ==
    LET K == Len(calls) IN
    /\ \A k \in 1 .. K - 1 : calls'[k] = calls[k]
    /\ \/ /\ K = 0 /\ next' = next + 1 /\ next' <= Len(Top) + 1
          /\ Len(calls') = 0 \/ (Len(calls') = 1 /\ Entered(1))
       \/ /\ K > 0 /\ next' = next
          /\ Len(calls') = K - 1
       \/ /\ K > 0 /\ next' = next
          /\ calls'[K].file = calls[K].file
          /\ calls'[K].line = calls[K].line + 1 /\ calls'[K].line <= MaxLine[calls[K].file]
          /\ Len(calls') = K \/ (Len(calls') = K + 1 /\ Entered(K + 1))

LEMMA FilesFitStep ==
    ASSUME TypeOK, ReadInv, FilesFit, [Next]_vars PROVE FilesFit'
<1>1. CASE UNCHANGED text
  BY <1>1 DEF FilesFit
<1>2. ASSUME NEW l \in AnyLine, LineStep(l) PROVE FilesFit'
  <2> DEFINE f == Current.file
             n == Current.line
  <2>1. Reads(l)
    BY <1>2 DEF LineStep
  <2>2. CASE n < Len(text[f])
    BY <1>1, <2>1, <2>2 DEF Reads
  <2>3. CASE ~(n < Len(text[f]))
    <3>1. Len(text[f]) < MaxLine[f] /\ f \in File
      BY <2>1, <2>3, LineRead DEF Reads
    <3>2. /\ f \in File /\ \A h \in File \ {f} : text'[h] = text[h]
          /\ \/ text' = text /\ n < Len(text[f]) /\ f \in closed
             \/ f \notin closed /\ n = Len(text[f]) /\ Len(text'[f]) = n + 1
      BY <2>1, LineRead
    <3> HIDE DEF f, n
    <3>3. text \in [File -> Text] /\ MaxLine[f] \in Nat /\ Len(text[f]) \in Nat
      BY <3>1, PreprocessorAssumption DEF TypeOK, Text
    <3>4. Len(text'[f]) <= MaxLine[f]
      BY <2>3, <3>1, <3>2, <3>3
    <3>5. QED
      BY <3>2, <3>4 DEF FilesFit
  <2>4. QED
    BY <2>2, <2>3
<1>3. CASE OpenTop
  BY <1>1, <1>3, FileOpens
<1>4. CASE EndFile
  BY <1>1, <1>4, FileEnds
<1>5. CASE UNCHANGED vars
  BY <1>1, <1>5 DEF vars
<1>6. CASE RefuseTop
  BY <1>1, <1>6, FileMissing
<1>7. QED
  BY <1>2, <1>3, <1>4, <1>5, <1>6, StepForms

LEMMA OpenTopMovesOn ==
    ASSUME TypeOK, OpenTop PROVE ReadingMovesOn
<1>1. /\ calls = <<>> /\ Top[next] \in File /\ next' \in 1 .. Len(Top) + 1
      /\ Len(calls') = 1 /\ calls'[1] = Opened(Top[next]) /\ next' = next + 1
  BY FileOpens DEF OpenTop
<1>2. Len(calls) = 0 /\ DOMAIN calls = {} /\ 1 .. 0 - 1 = {}
  BY <1>1
<1>3. Entered(1)
  BY <1>1, <1>2 DEF Entered, Opened
<1>4. Len(Top) \in Nat
  BY PreprocessorAssumption
<1>5. next' <= Len(Top) + 1
  BY <1>1, <1>4
<1>6. QED
  BY <1>1, <1>2, <1>3, <1>5 DEF ReadingMovesOn

LEMMA LineMovesOn ==
    ASSUME TypeOK, ReadInv, FilesFit', NEW l \in AnyLine, LineStep(l) PROVE ReadingMovesOn
<1> DEFINE K == Len(calls)
           f == Current.file
           n == Current.line
<1>1. calls # <<>> /\ Reads(l) /\ next' = next
  BY DEF LineStep
<1>2. PICK frames \in Seq(Frame) : CallStep(l, frames)
  BY DEF LineStep
<1>3. /\ K \in Nat \ {0}
      /\ \A k \in 1 .. K - 1 : calls'[k] = calls[k]
      /\ calls'[K].file = f /\ calls'[K].line = n + 1
      /\ \/ Len(calls') = K
         \/ /\ Len(calls') = K + 1
            /\ \E g \in File : /\ calls'[K + 1] = Opened(g)
                               /\ \A k \in DOMAIN calls : calls[k].file # g
  BY <1>1, <1>2, CallsMove
<1>4. calls[K].file = f /\ calls[K].line = n
  BY <1>1, CurrentType
<1>5. f \in File /\ n \in Nat /\ n + 1 \in DOMAIN text'[f] /\ text' \in [File -> Text]
  BY <1>1, LineRead
<1> HIDE DEF K, f, n
<1>6. n + 1 <= MaxLine[f]
  <2>1. text'[f] \in Text
    BY <1>5
  <2>2. Len(text'[f]) \in Nat /\ DOMAIN text'[f] = 1 .. Len(text'[f])
    BY <2>1 DEF Text
  <2>3. Len(text'[f]) <= MaxLine[f] /\ MaxLine[f] \in Nat
    BY <1>5, PreprocessorAssumption DEF FilesFit
  <2>4. QED
    BY <1>5, <2>2, <2>3
<1>7. ASSUME Len(calls') # K PROVE Len(calls') = K + 1 /\ Entered(K + 1)
  <2>1. PICK g \in File : calls'[K + 1] = Opened(g) /\ \A k \in DOMAIN calls : calls[k].file # g
    BY <1>3, <1>7
  <2>2. calls'[K + 1].file = g /\ calls'[K + 1].line = 0
    BY <2>1 DEF Opened
  <2>3. QED
    BY <1>3, <1>7, <2>1, <2>2 DEF Entered
<1>8. /\ K > 0 /\ next' = next /\ calls'[K].file = calls[K].file
      /\ calls'[K].line = calls[K].line + 1 /\ calls'[K].line <= MaxLine[calls[K].file]
  BY <1>1, <1>3, <1>4, <1>6
<1>9. QED
  BY <1>3, <1>7, <1>8 DEF ReadingMovesOn, K

\* Every step of the reading takes the next RTL file, leaves a file, or goes a line
\* further in the innermost one, and no file has more than MaxLine lines.  Only an
\* include goes deeper, into a file that is not being read: no file includes itself,
\* directly or around a circle.  With IncludesAreBounded the reading cannot go on
\* for ever.
THEOREM ReadingAdvances == Spec => [][ReadingMovesOn]_vars
<1>1. Init => FilesFit
  <2> SUFFICES ASSUME Init, NEW f \in File PROVE Len(text[f]) <= MaxLine[f]
    BY DEF FilesFit
  <2>1. Len(text[f]) = 0 /\ MaxLine[f] \in Nat
    BY PreprocessorAssumption DEF Init
  <2>2. QED
    BY <2>1
<1>2. LinesInv /\ FilesFit /\ [Next]_vars => FilesFit'
  BY FilesFitStep DEF LinesInv
<1>3. LinesInv /\ FilesFit' /\ [Next]_vars => [ReadingMovesOn]_vars
  <2> SUFFICES ASSUME TypeOK, ReadInv, FilesFit', [Next]_vars, ~UNCHANGED vars PROVE ReadingMovesOn
    BY DEF LinesInv
  <2>1. CASE EndFile
    <3>1. /\ Len(calls) \in Nat \ {0} /\ Len(calls') = Len(calls) - 1
          /\ \A k \in 1 .. Len(calls) - 1 : calls'[k] = calls[k]
          /\ next' = next
      BY <2>1, FileEnds
    <3>2. QED
      BY <3>1 DEF ReadingMovesOn
  <2>2. CASE RefuseTop
    <3>1. next' = next + 1 /\ next' <= Len(Top) + 1 /\ Len(calls) = 0 /\ Len(calls') = 0 /\ 1 .. 0 - 1 = {}
      <4>1. Len(Top) \in Nat
        BY PreprocessorAssumption
      <4>2. QED
        BY <2>2, <4>1, FileMissing
    <3>2. QED
      BY <3>1 DEF ReadingMovesOn
  <2>3. QED
    BY <2>1, <2>2, StepForms, OpenTopMovesOn, LineMovesOn
<1>4. QED
  BY <1>1, <1>2, <1>3, PreprocessorInductive, PTL DEF Spec

\* The recursion of _process_file is never deeper than there are files.
THEOREM IncludesAreBounded ==
    ASSUME IsFiniteSet(File) PROVE Spec => [](Len(calls) <= Cardinality(File))
<1>1. ASSUME LinesInv PROVE Len(calls) <= Cardinality(File)
  <2> DEFINE K == Len(calls)
             around == [k \in 1 .. K |-> calls[k].file]
  <2>1. calls \in Seq(Call) /\ DOMAIN calls = 1 .. K /\ K \in Nat
    BY <1>1 DEF LinesInv, TypeOK
  <2>2. \A k \in 1 .. K : calls[k].file \in File
    <3>1. \A k \in 1 .. K : calls[k] \in Call
      BY <2>1
    <3>2. QED
      BY <3>1 DEF Call
  <2>3. around \in [1 .. K -> File]
    BY <2>2
  <2>4. \A k, m \in 1 .. K : around[k] = around[m] => k = m
    BY <1>1, <2>1 DEF LinesInv, ReadInv
  <2>5. IsFiniteSet(1 .. K) /\ Cardinality(1 .. K) = K
    <3>1. Cardinality(1 .. K) = IF 1 > K THEN 0 ELSE K - 1 + 1
      BY <2>1, FS_Interval
    <3>2. QED
      BY <2>1, <3>1, FS_Interval
  <2>6. Cardinality(File) \in Nat
    BY FS_CardinalityType
  <2> HIDE DEF around
  <2>7. ~(Cardinality(File) < Cardinality(1 .. K))
    BY <2>3, <2>4, <2>5, FS_PigeonHole
  <2>8. QED
    BY <2>1, <2>5, <2>6, <2>7
<1>2. QED
  BY <1>1, PreprocessorInductive, PTL

=============================================================================
