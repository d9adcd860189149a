--------------------------- MODULE MCPreprocessor ---------------------------
(* Model values for the TLC runs of Preprocessor: an RTL file and a header  *)
(* that is an RTL file, too, as when a glob pattern finds both, and another *)
(* that is gone when its turn comes.                                        *)
EXTENDS Preprocessor

CONSTANTS rtlFile, header, Guard

Files   == {rtlFile, header}
Macros  == {Guard}
None    == {}
RtlFiles == <<rtlFile, Nowhere, header>>

L(d, a)     == [directive |-> d, arg |-> a, opens |-> FALSE]
Opens(d, a) == [directive |-> d, arg |-> a, opens |-> TRUE]

\* Every kind of line.
MainLines ==
    {L(d, Guard) : d \in {"ifdef", "define", "undef", "use"}}
    \cup {L(d, Nowhere) : d \in {"endif", "nettype", "timescale", "nameless", "odd", "include", "close"}}
    \cup {L("include", header), Opens("include", header), Opens("text", Nowhere)}
HeaderLines ==
    {L(d, Guard) : d \in {"ifndef", "define", "elsif"}}
    \cup {L(d, Nowhere) : d \in {"else", "endif", "text"}}
    \cup {L("include", rtlFile)}
AllLines  == [f \in Files |-> IF f = rtlFile THEN MainLines ELSE HeaderLines]
AllBounds == [f \in Files |-> IF f = rtlFile THEN 2 ELSE 3]
=============================================================================
