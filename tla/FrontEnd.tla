-------------------------------- MODULE FrontEnd --------------------------------
(* What the lint and the risk workflow do with their RTL files: the lines go   *)
(* through Preprocessor, the tokens through Parser.  Lines and tokens are      *)
(* different views of a text, so a behaviour is one of the two parts, and the  *)
(* other part does nothing.                                                    *)
EXTENDS Preprocessor, Parser

\* A text of lines has no tokens: the parser returns at once.
Preprocess    == origin[1] = "lines" /\ Done /\ Next /\ UNCHANGED parsing
Parse         == ParserNext /\ UNCHANGED vars
FrontEndNext  == Preprocess \/ Parse
FrontEndSpec  == EndsWithEof /\ Begin /\ Init /\ [][FrontEndNext]_<<vars, parsing>>

\* Both parts keep to their types.
FrontEndTypeOK == TypeOK /\ ParserTypeOK

=============================================================================
