---------------------------- MODULE Preprocessor ----------------------------
(***************************************************************************)
(* The Verilog preprocessor of src/sta_lite/lint/preprocessor.py, which    *)
(* the lint and the risk workflow run over their RTL files.  It reads line *)
(* by line; an `include reads another file in the middle of this one.      *)
(* Conditional frames belong to the file that opens them; the macros, the  *)
(* nettype default and the block comment state are shared by all files.    *)
(*                                                                         *)
(* The contents of the files are chosen as they are read, a line when it   *)
(* is first reached, so that a behaviour is one run over one set of files. *)
(***************************************************************************)
EXTENDS Naturals, Sequences, FiniteSets, SequencesExt

CONSTANTS
    File,      \* the source files
    Nowhere,   \* what is no file: the target of an include, or an RTL file that is gone
    Macro,     \* the macro names
    Given,     \* the macros defined on the command line
    Top,       \* the RTL files to preprocess, in order
    Line,      \* the lines each file may have
    MaxLine    \* bound: the length of each file

\* A line is a directive and its argument.  opens: a block comment begins on
\* the line, after the directive, and does not end there.  "close" is a line
\* that ends a block comment, "use" one that uses a macro, "nameless" a define
\* without a name, "odd" any directive that is reported as unsupported.  An
\* include that is malformed is one of Nowhere: both are reported at the line.
Directive == {"ifdef", "ifndef", "elsif", "else", "endif", "include", "define",
              "undef", "nettype", "timescale", "nameless", "odd", "text", "use", "close"}
AnyLine   == [directive : Directive, arg : File \cup Macro \cup {Nowhere}, opens : BOOLEAN]

ASSUME PreprocessorAssumption ==
    /\ Nowhere \notin File \cup Macro
    /\ File \cap Macro = {}
    /\ Given \subseteq Macro
    /\ Top \in Seq(File \cup {Nowhere})
    /\ \A i, k \in DOMAIN Top : Top[i] = Top[k] => i = k
    /\ Line \in [File -> SUBSET AnyLine]
    /\ \A f \in File : \A l \in Line[f] :
           /\ l.directive = "include" => l.arg \in File \cup {Nowhere}
           /\ l.directive \in {"ifdef", "ifndef", "elsif", "define", "undef", "use"} =>
                  l.arg \in Macro
           /\ l.directive = "close" => ~l.opens
    /\ MaxLine \in [File -> Nat]

VARIABLES
    text,         \* the lines of each file, as far as they have been read
    closed,       \* the files that have been read to their end
    next,         \* the next file of Top
    calls,        \* _process_file: the files being read, the innermost last
    comment,      \* _block_comment
    defines,      \* the macros that are defined
    nettypeNone,  \* default_nettype_none
    timescale,    \* the files with a timescale
    diagnostics,  \* the errors and warnings, by rule and file
    emitted,      \* the lines of code put out, by file and number
    repeated      \* those that were put out more than once

shared == <<defines, nettypeNone, timescale>>
output == <<emitted, repeated>>
vars   == <<text, closed, next, calls, comment, shared, diagnostics, output>>

\* parent, active and taken are the fields of _ConditionalFrame.  seen is the
\* history of the conditions of its branches, which the code does not keep.
Frame == [parent : BOOLEAN, active : BOOLEAN, taken : BOOLEAN, seen : Seq(BOOLEAN)]
Call  == [file : File, line : Nat, conditions : Seq(Frame)]

TypeOK ==
    /\ text \in [File -> Seq(AnyLine)]
    /\ closed \subseteq File
    /\ next \in 1 .. Len(Top) + 1
    /\ calls \in Seq(Call)
    /\ comment \in BOOLEAN
    /\ defines \subseteq Macro
    /\ nettypeNone \in BOOLEAN
    /\ timescale \subseteq File
    /\ diagnostics \subseteq {"PP001", "PP002", "PP003", "PP004", "UNSUPPORTED"} \X (File \cup {Nowhere})
    /\ emitted \subseteq File \X (Nat \ {0})
    /\ repeated \subseteq emitted

Init ==
    /\ text = [f \in File |-> <<>>]
    /\ closed = {}
    /\ next = 1
    /\ calls = <<>>
    /\ comment = FALSE
    /\ defines = Given
    /\ nettypeNone = FALSE
    /\ timescale = {}
    /\ diagnostics = {}
    /\ emitted = {}
    /\ repeated = {}

Current == Last(calls)
Frames  == Current.conditions
Report(rule) == diagnostics' = diagnostics \cup {<<rule, Current.file>>}

\* _current_active: the innermost frame of the current file decides.
Active == IF Frames = <<>> THEN TRUE ELSE Last(Frames).active

\* The reader gets to line l of the current file.
Reads(l) ==
    /\ calls # <<>>
    /\ LET f == Current.file IN
       IF Current.line < Len(text[f])
       THEN l = text[f][Current.line + 1] /\ UNCHANGED text
       ELSE /\ l \in Line[f]
            /\ f \notin closed
            /\ Len(text[f]) < MaxLine[f]
            /\ text' = [text EXCEPT ![f] = Append(@, l)]

\* The current file with its next line done and new frames; then a file read
\* in the place of that line.
Advanced(frames) ==
    [calls EXCEPT ![Len(calls)] =
        [file |-> Current.file, line |-> Current.line + 1, conditions |-> frames]]
Opened(f) == [file |-> f, line |-> 0, conditions |-> <<>>]

\* The line is code or a directive, not the inside of a comment.
Handles(l, directives) ==
    /\ l.directive \in directives
    /\ ~comment
    /\ Reads(l)
    /\ comment' = l.opens
    /\ UNCHANGED <<closed, next>>

-----------------------------------------------------------------------------
(* _process_file *)

\* Mutants of OpenTop: every RTL file starts with the command line's macros; the
\* file is not looked for before it is read.
OpenTopAfresh ==
    /\ calls = <<>>
    /\ next <= Len(Top) /\ Top[next] \in File
    /\ calls' = <<Opened(Top[next])>>
    /\ next' = next + 1
    /\ defines' = Given
    /\ UNCHANGED <<text, closed, comment, nettypeNone, timescale, diagnostics, output>>

OpenTopUnseen ==
    /\ calls = <<>>
    /\ next <= Len(Top)
    /\ calls' = <<Opened(Top[next])>>
    /\ next' = next + 1
    /\ UNCHANGED <<text, closed, comment, shared, diagnostics, output>>

\* The next RTL file.
OpenTop ==
    /\ calls = <<>>
    /\ next <= Len(Top) /\ Top[next] \in File
    /\ calls' = <<Opened(Top[next])>>
    /\ next' = next + 1
    /\ UNCHANGED <<text, closed, comment, shared, diagnostics, output>>

\* The next RTL file is not there any more.
RefuseTop ==
    /\ calls = <<>>
    /\ next <= Len(Top) /\ Top[next] \notin File
    /\ diagnostics' = diagnostics \cup {<<"PP001", Top[next]>>}
    /\ next' = next + 1
    /\ UNCHANGED <<text, closed, calls, comment, shared, output>>

\* Mutant of EndFile: the comment state is left as it is.
EndFileOnly ==
    /\ calls # <<>>
    /\ Current.line = Len(text[Current.file])
    /\ closed' = closed \cup {Current.file}
    /\ diagnostics' = diagnostics
         \cup {d \in {<<"PP002", Current.file>>} : Frames # <<>>}
         \cup {d \in {<<"PP004", Current.file>>} : comment}
    /\ calls' = SubSeq(calls, 1, Len(calls) - 1)
    /\ UNCHANGED <<text, next, comment, shared, output>>

\* The end of a file: what is left open is reported, the comment is closed.
EndFile ==
    /\ calls # <<>>
    /\ Current.line = Len(text[Current.file])
    /\ closed' = closed \cup {Current.file}
    /\ diagnostics' = diagnostics
         \cup {d \in {<<"PP002", Current.file>>} : Frames # <<>>}
         \cup {d \in {<<"PP004", Current.file>>} : comment}
    /\ comment' = FALSE
    /\ calls' = SubSeq(calls, 1, Len(calls) - 1)
    /\ UNCHANGED <<text, next, shared, output>>

\* A line inside a block comment is blank, whatever it holds.
Blank(l) ==
    /\ comment
    /\ Reads(l)
    /\ comment' = (l.directive # "close")
    /\ calls' = Advanced(Frames)
    /\ UNCHANGED <<closed, next, shared, diagnostics, output>>

\* A line of code in a branch that is not selected.
SkipCode(l) ==
    /\ Handles(l, {"text", "use", "close"})
    /\ ~Active
    /\ calls' = Advanced(Frames)
    /\ UNCHANGED <<shared, diagnostics, output>>

\* A line of code is put out with its macros expanded.
EmitCode(l) ==
    LET at == <<Current.file, Current.line + 1>> IN
    /\ Handles(l, {"text", "use", "close"})
    /\ Active
    /\ emitted' = emitted \cup {at}
    /\ repeated' = repeated \cup ({at} \cap emitted)
    /\ diagnostics' = diagnostics \cup
         {d \in {<<"PP003", Current.file>>} : l.directive = "use" /\ l.arg \notin defines}
    /\ calls' = Advanced(Frames)
    /\ UNCHANGED shared

-----------------------------------------------------------------------------
(* _handle_directive: conditionals, which are followed in every branch. *)

Holds(l) == IF l.directive = "ifndef" THEN l.arg \notin defines ELSE l.arg \in defines

If(l) ==
    /\ Handles(l, {"ifdef", "ifndef"})
    /\ calls' = Advanced(Append(Frames,
         [parent |-> Active, active |-> Active /\ Holds(l), taken |-> Holds(l),
          seen |-> <<Holds(l)>>]))
    /\ UNCHANGED <<shared, diagnostics, output>>

\* The innermost frame goes on to a branch with the given condition.
Branch(condition, taken) ==
    LET frame == Last(Frames) IN
    Advanced([Frames EXCEPT ![Len(Frames)] =
        [frame EXCEPT !.active = frame.parent /\ ~frame.taken /\ condition,
                      !.taken  = taken,
                      !.seen   = Append(@, condition)]])

\* Mutant of Elsif: the branch it selects does not count as taken.
ElsifForgotten(l) ==
    /\ Handles(l, {"elsif"})
    /\ Frames # <<>>
    /\ calls' = Branch(Holds(l), Last(Frames).taken)
    /\ UNCHANGED <<shared, diagnostics, output>>

Elsif(l) ==
    /\ Handles(l, {"elsif"})
    /\ Frames # <<>>
    /\ calls' = Branch(Holds(l), Last(Frames).taken \/ Holds(l))
    /\ UNCHANGED <<shared, diagnostics, output>>

Else(l) ==
    /\ Handles(l, {"else"})
    /\ Frames # <<>>
    /\ calls' = Branch(TRUE, TRUE)
    /\ UNCHANGED <<shared, diagnostics, output>>

Endif(l) ==
    /\ Handles(l, {"endif"})
    /\ Frames # <<>>
    /\ calls' = Advanced(SubSeq(Frames, 1, Len(Frames) - 1))
    /\ UNCHANGED <<shared, diagnostics, output>>

\* Mutant of Stray: an `else without an `ifdef is let pass.
StrayLenient(l) ==
    /\ Handles(l, {"elsif", "else", "endif"})
    /\ Frames = <<>>
    /\ IF l.directive = "else" THEN UNCHANGED diagnostics ELSE Report("PP002")
    /\ calls' = Advanced(Frames)
    /\ UNCHANGED <<shared, output>>

\* No conditional of this file is open: an error.
Stray(l) ==
    /\ Handles(l, {"elsif", "else", "endif"})
    /\ Frames = <<>>
    /\ Report("PP002")
    /\ calls' = Advanced(Frames)
    /\ UNCHANGED <<shared, output>>

-----------------------------------------------------------------------------
(* _handle_directive: the other directives. *)

Others == {"include", "define", "undef", "nettype", "timescale", "nameless", "odd"}

\* In a branch that is not selected they are ignored.
Ignore(l) ==
    /\ Handles(l, Others)
    /\ ~Active
    /\ calls' = Advanced(Frames)
    /\ UNCHANGED <<shared, diagnostics, output>>

\* The included file is read here and now.
Include(l) ==
    /\ Handles(l, {"include"})
    /\ Active
    /\ l.arg \in File \ {calls[i].file : i \in DOMAIN calls}
    /\ calls' = Append(Advanced(Frames), Opened(l.arg))
    /\ UNCHANGED <<shared, diagnostics, output>>

\* An include of a file that is being read, or of none.
RefuseInclude(l) ==
    /\ Handles(l, {"include"})
    /\ Active
    /\ l.arg \notin File \ {calls[i].file : i \in DOMAIN calls}
    /\ diagnostics' = diagnostics \cup
         {<<"PP001", IF l.arg \in File THEN l.arg ELSE Current.file>>}
    /\ calls' = Advanced(Frames)
    /\ UNCHANGED <<shared, output>>

Define(l) ==
    /\ Handles(l, {"define", "undef"})
    /\ Active
    /\ defines' = IF l.directive = "define" THEN defines \cup {l.arg} ELSE defines \ {l.arg}
    /\ calls' = Advanced(Frames)
    /\ UNCHANGED <<nettypeNone, timescale, diagnostics, output>>

\* `default_nettype none (any other nettype changes nothing), `timescale.
Note(l) ==
    /\ Handles(l, {"nettype", "timescale"})
    /\ Active
    /\ nettypeNone' = (nettypeNone \/ l.directive = "nettype")
    /\ timescale' = timescale \cup {f \in {Current.file} : l.directive = "timescale"}
    /\ calls' = Advanced(Frames)
    /\ UNCHANGED <<defines, diagnostics, output>>

Unsupported(l) ==
    /\ Handles(l, {"odd", "nameless"})
    /\ Active
    /\ Report(IF l.directive = "odd" THEN "UNSUPPORTED" ELSE "PP003")
    /\ calls' = Advanced(Frames)
    /\ UNCHANGED <<shared, output>>

Finished ==
    /\ calls = <<>> /\ next > Len(Top)
    /\ UNCHANGED vars

Next ==
    \/ OpenTop \/ RefuseTop \/ EndFile \/ Finished
    \/ \E l \in UNION {Line[f] : f \in File} :
         \/ Blank(l) \/ SkipCode(l) \/ EmitCode(l)
         \/ If(l) \/ Elsif(l) \/ Else(l) \/ Endif(l) \/ Stray(l)
         \/ Ignore(l) \/ Include(l) \/ RefuseInclude(l) \/ Define(l) \/ Note(l) \/ Unsupported(l)

Spec == Init /\ [][Next]_vars

-----------------------------------------------------------------------------
(* What the text of a file says by itself. *)

\* After the first n lines of t, a comment is open that began on one of them.
InComment(t, n) ==
    \E i \in 1 .. n : t[i].opens /\ \A k \in i + 1 .. n : t[k].directive # "close"

Code(t) == {i \in DOMAIN t : ~InComment(t, i - 1)}

\* How many conditionals are open after each of m lines, if those in up open
\* one and those in down close one.
Levels(m, up, down) ==
    LET after[i \in 0 .. m] ==
            IF i = 0 THEN 0
            ELSE IF i \in up THEN after[i - 1] + 1
            ELSE IF i \in down /\ after[i - 1] > 0 THEN after[i - 1] - 1
            ELSE after[i - 1]
    IN  after

\* How many conditionals are open after the first n lines of t.
Having(t, directives) == {i \in Code(t) : t[i].directive \in directives}
Depth(t, n) == Levels(Len(t), Having(t, {"ifdef", "ifndef"}), Having(t, {"endif"}))[n]

\* A directive that has no conditional to belong to.
HasStray(t) ==
    \E i \in Having(t, {"elsif", "else", "endif"}) : Depth(t, i - 1) = 0

Unbalanced(t) == Depth(t, Len(t)) > 0 \/ HasStray(t)

\* The whole of t is between `ifndef g, `define g and the `endif of the former.
Guarded(t, g) ==
    /\ Len(t) >= 3
    /\ t[1].directive = "ifndef" /\ t[1].arg = g
    /\ t[2].directive = "define" /\ t[2].arg = g
    /\ \A i \in 2 .. Len(t) : ~t[i - 1].opens /\ Depth(t, i - 1) > 0
    /\ \A i \in 2 .. Len(t) : Depth(t, i) = 1 => t[i].directive \notin {"else", "elsif"}

-----------------------------------------------------------------------------
(* Properties. *)

\* The branch of a conditional that was entered last is the selected one: its
\* condition holds and none before it did.
Selected(frame) ==
    /\ Last(frame.seen)
    /\ \A i \in 1 .. Len(frame.seen) - 1 : ~frame.seen[i]

\* _current_active looks at one frame only, yet says what all of the frames
\* say together; and every file being read was included from a line that is
\* selected in all the conditionals around it.
ActiveIsSelected ==
    \A k \in DOMAIN calls :
        LET frames == calls[k].conditions IN
        /\ \A i \in DOMAIN frames :
               frames[i].active <=> \A j \in 1 .. i : Selected(frames[j])
        /\ k < Len(calls) => \A i \in DOMAIN frames : Selected(frames[i])

\* No comment begins on an `include line.  One that does is taken for a comment
\* of the included file: the comment state is shared and is not saved.
NoCommentAtInclude ==
    \A f \in File : \A i \in DOMAIN text[f] :
        ~(text[f][i].directive = "include" /\ text[f][i].opens)

\* A conditional error is reported for a file if and only if its directives
\* do not match, wherever the file is included and whatever is selected.
ConditionalErrorIsTrue ==
    NoCommentAtInclude =>
        \A f \in closed : <<"PP002", f>> \in diagnostics <=> Unbalanced(text[f])

\* An unterminated comment is reported for a file if and only if the file
\* ends inside a comment that it opened.
CommentErrorIsTrue ==
    NoCommentAtInclude =>
        \A f \in closed : <<"PP004", f>> \in diagnostics <=> InComment(text[f], Len(text[f]))

\* A file with an include guard that no file undefines is put out once, also
\* when it is included several times and is an RTL file itself.
GuardedOnce ==
    NoCommentAtInclude =>
        \A f \in closed, g \in Macro \ Given :
            (/\ Guarded(text[f], g)
             /\ \A h \in File : \A i \in DOMAIN text[h] :
                    ~(text[h][i].directive = "undef" /\ text[h][i].arg = g))
            => \A at \in repeated : at[1] # f

=============================================================================
