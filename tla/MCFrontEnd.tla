------------------------------- MODULE MCFrontEnd -------------------------------
(* The texts of FrontEnd for TLC: lines of Preprocessor, and the texts of      *)
(* Corpus, which Reading compares with what is read and reported.              *)
EXTENDS MCPreprocessor, FrontEnd, Reading

\* Numbers without and with a width of their own.
Plain(w, v) == [based |-> FALSE, width |-> {w}, value |-> {v}, wild |-> FALSE]
Literals ==
    [t \in {"0", "1", "2", "3", "4", "2'b10"} |->
        CASE t = "0" -> Plain(1, 0)
          [] t = "1" -> Plain(1, 1)
          [] t = "2" -> Plain(2, 2)
          [] t = "3" -> Plain(2, 3)
          [] t = "4" -> Plain(3, 4)
          [] t = "2'b10" -> [Plain(2, 2) EXCEPT !.based = TRUE]]

\* What the names of the texts look like to the regular expressions.
ClockNames == {"clk", "clk2"}
ResetNames == {"rst"}
Calls ==
    [control |-> {}, stage |-> {}, memory |-> {}, slow |-> {},
     sync |-> {"sync1", "sync2", "sync3"}, meta |-> {"meta1", "meta2", "meta3"},
     state |-> {"state", "next_state"}, next |-> {"next_state"}, literal |-> {"IDLE", "RUN", "DONE"}]
Letters == <<"DONE", "IDLE", "RUN", "a", "b", "clk", "next_state", "q", "rst", "state", "v", "w", "x", "y", "z">>

\* Thresholds that are small enough to be reached.
LowThreshold == 3
LowSettings == [path |-> 3, contexts |-> 3, branches |-> 3, resets |-> 3, resetBits |-> 8, enables |-> 3,
             enableBits |-> 8, pipeline |-> 3]

Starts(kind, description, s) == origin = <<kind, description>> /\ tokens = s \o Eot
FrontEndInit ==
    /\ Starts("lines", 0, <<>>) \/ \E w \in Written : Starts(w[1], w[2], TextOf(w[1], w[2]))
    /\ Begin
    /\ Init
FrontEndOfTexts == FrontEndInit /\ [][FrontEndNext]_<<vars, parsing>>

\* The texts that override a parameter, by themselves.
OverrideInit ==
    /\ \E w \in Overrides : Starts("override", w, TextOf("override", w))
    /\ Begin
    /\ Init
FrontEndOfOverrides == OverrideInit /\ [][FrontEndNext]_<<vars, parsing>>

=============================================================================
