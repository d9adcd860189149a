------------------------------- MODULE DiffBatch -------------------------------
(***************************************************************************)
(* The differential regression of the lint command, lint-diff, in          *)
(* src/sta_lite/lint/diff_runner.py: each case of a corpus goes through    *)
(* iverilog, if it is Verilog, and through a lint process of its own; the  *)
(* comparison decides the exit code and a coverage matrix.                 *)
(***************************************************************************)
EXTENDS Naturals, Sequences, FiniteSets

CONSTANTS
    Rank,         \* path of a case.json file -> its place as load_cases sorts their cases
    Corpora,      \* what the roots may hold: path -> case, with "" for a missing field
    BuiltIn,      \* BUILTIN_CASES: path -> case
    Required,     \* REQUIRED_MATRIX_CATEGORIES: <<language, kind, category>>
    Outcomes,     \* the sets of diagnostics [rule, severity] that a lint process may print
    Baseline,     \* the number of cases that the baseline must have (74)
    MaxBroken

\* Directories are finite, and the sort of load_cases leaves nothing open.
ASSUME BatchConstants ==
    /\ IsFiniteSet(DOMAIN BuiltIn)
    /\ \A corpus0 \in Corpora : IsFiniteSet(DOMAIN corpus0)
    /\ \A corpus0 \in Corpora : \A p, q \in DOMAIN BuiltIn \cup DOMAIN corpus0 :
         /\ Rank[p] \in Nat
         /\ Rank[p] = Rank[q] => p = q

VARIABLES
    corpus,       \* the case files on disk
    fresh,        \* --write-corpus
    iverilog,     \* whether there is an iverilog
    at, todo, reference,
    entries,      \* per_case
    results,      \* sta_lite_results: id -> status
    matrix,       \* the rows of the coverage matrix
    files,        \* each output file: of which run it is
    code, broken  \* the exit code; file operations that failed

batch == <<corpus, fresh, iverilog, at, todo, reference, entries, results, matrix, files, code, broken>>

Generic == {"RTL001"}   \* GENERIC_STA_RULES
Diag(rule, severity) == [rule |-> rule, severity |-> severity]
Severities(d) == {x.severity : x \in d}
Unsupported(d) == \E x \in d : x.rule = "UNSUPPORTED"
Relevant(d) == {x \in d : x.rule \notin Generic}

-----------------------------------------------------------------------------
(* The cases. *)

Or(value, default) == IF value = "" THEN default ELSE value

\* normalize_case: an old file has no language, and its kind goes by the rest.
Normalized(c) ==
    LET old == Or(c.iverilog, "fail") IN
    IF c.language = ""
    THEN [c EXCEPT !.language = "verilog", !.expected = old,
                   !.kind = IF "warning" = old \/ c.category = "warning_like" THEN "warning" ELSE "error"]
    ELSE [c EXCEPT !.kind = Or(@, "error"), !.expected = Or(@, old)]

\* status_detected and expected_detected_for_case
Detected(status) == status \in {"fail", "warning"}
ExpectedDetected(c, status) ==
    c.should \/ Detected(IF c.language = "verilog" THEN status ELSE c.expected)

\* Mutant of StaLiteDetected: the rule that every text breaks counts.
StaLiteDetectedAny(c, d) ==
    c.should /\ IF c.expected = "fail" \/ c.kind = "error" THEN "error" \in Severities(d) \/ Unsupported(d)
                ELSE IF c.expected = "warning" \/ c.kind = "warning"
                THEN Severities(d) \cap {"error", "warning"} # {} \/ Unsupported(d)
                ELSE d # {}

\* sta_lite_detected_for_case: a case that need not be found never is.
StaLiteDetected(c, d) ==
    LET r == Relevant(d) IN
    c.should /\ IF c.expected = "fail" \/ c.kind = "error" THEN "error" \in Severities(r) \/ Unsupported(r)
                ELSE IF c.expected = "warning" \/ c.kind = "warning"
                THEN Severities(r) \cap {"error", "warning"} # {} \/ Unsupported(r)
                ELSE r # {}

\* classify_sta_lite
StaLiteStatus(d) ==
    IF "error" \in Severities(d) \/ Unsupported(d) THEN "fail"
    ELSE IF "warning" \in Severities(d) THEN "warning" ELSE "pass"

-----------------------------------------------------------------------------
(* The reports. *)

Missed(e) == e.expected /\ ~e.detected
Extra(e)  == e.detected /\ ~e.expected
BucketOf(e) == <<e.case.language, e.case.kind, e.case.category>>
Noted(s) == {s[k] : k \in DOMAIN s}   \* the entries of per_case
AllMissed(s) == {k \in DOMAIN s : Missed(s[k])}

\* _support_status_for_category, for the entries B of s
SupportStatus(s, B) ==
    IF B = {} THEN "not_covered"
    ELSE IF \E k \in B : Missed(s[k]) THEN "partially_supported"
    ELSE IF \E k \in B : Unsupported(s[k].relevant) THEN "unsupported_diagnostic" ELSE "supported"

\* build_coverage_matrix: a row for each required category, with its bucket of
\* summarize.
Row(s, B) ==
    [total    |-> Cardinality(B),
     expected |-> Cardinality({k \in B : s[k].expected}),
     detected |-> Cardinality({k \in B : s[k].detected}),
     missed   |-> Cardinality({k \in B : Missed(s[k])}),
     support  |-> SupportStatus(s, B)]
Rows(s) == [b \in Required |-> Row(s, {k \in DOMAIN s : BucketOf(s[k]) = b})]
BaselineKept(s) == Cardinality(AllMissed(s)) = 0 /\ Len(s) >= Baseline

-----------------------------------------------------------------------------
(* The steps of main. *)

Files == <<"verilog_iverilog_results.json", "iverilog_results.json", "sta_lite_results.json",
           "sv_metadata_results.json", "diff_summary.json", "missing_coverage.md",
           "coverage_matrix.json", "coverage_matrix.md">>

BatchInit ==
    /\ corpus \in Corpora /\ fresh \in BOOLEAN /\ iverilog \in BOOLEAN
    /\ at = "main" /\ todo = <<>> /\ reference = "" /\ entries = <<>> /\ results = <<>>
    /\ matrix = <<>>
    /\ files = [f \in Noted(Files) |-> "earlier"]
    /\ code = 0 /\ broken = 0

\* A Python exception, or SystemExit with a text, ends with 1.
Ends(c) == at' = "ended" /\ code' = c

\* write_corpus
WriteCorpus ==
    /\ at = "main" /\ fresh
    /\ corpus' = [p \in DOMAIN BuiltIn \cup DOMAIN corpus |-> IF p \in DOMAIN BuiltIn THEN BuiltIn[p] ELSE corpus[p]]
    /\ at' = "load"
    /\ UNCHANGED <<fresh, iverilog, todo, reference, entries, results, matrix, files, code, broken>>

\* load_cases, and the end if there are none or one is no JSON
Load ==
    /\ at = "load" \/ (at = "main" /\ ~fresh)
    /\ IF DOMAIN corpus = {} \/ \E p \in DOMAIN corpus : corpus[p].id = "no JSON"
       THEN Ends(1) /\ UNCHANGED todo
       ELSE /\ \E paths \in [1 .. Cardinality(DOMAIN corpus) -> DOMAIN corpus] :
                 /\ \A j, k \in DOMAIN paths : j < k => Rank[paths[j]] < Rank[paths[k]]
                 /\ todo' = [k \in DOMAIN paths |-> Normalized(corpus[paths[k]])]
            /\ at' = "reference" /\ UNCHANGED code
    /\ UNCHANGED <<corpus, fresh, iverilog, reference, entries, results, matrix, files, broken>>

\* run_iverilog and classify_tool_result, or the metadata; a case without an
\* id ends the batch.
Reference ==
    /\ at = "reference" /\ todo # <<>>
    /\ IF Head(todo).id = "" THEN Ends(1) /\ UNCHANGED reference
       ELSE /\ reference' \in IF Head(todo).language # "verilog" THEN {Head(todo).expected}
                              ELSE IF iverilog THEN {"pass", "warning", "fail"} ELSE {"unavailable"}
            /\ at' = "lint" /\ UNCHANGED code
    /\ UNCHANGED <<corpus, fresh, iverilog, todo, entries, results, matrix, files, broken>>

\* What compare notes of a case, whose lint process has printed d.
Entry(c, status, d) ==
    [case     |-> c, reference |-> status, relevant |-> Relevant(d),
     expected |-> ExpectedDetected(c, status), detected |-> StaLiteDetected(c, d)]

\* run_sta_lite: no JSON on its output is an error diagnostic of its own.
Crash == {Diag("LINT_RUNNER", "error")}
Lint ==
    /\ at = "lint"
    /\ \E d \in Outcomes \cup {Crash} :
        /\ entries' = Append(entries, Entry(Head(todo), reference, d))
        /\ results' = [i \in {Head(todo).id} \cup DOMAIN results |->
                            IF i = Head(todo).id THEN StaLiteStatus(d) ELSE results[i]]
    /\ todo' = Tail(todo) /\ reference' = ""
    /\ at' = "reference"
    /\ UNCHANGED <<corpus, fresh, iverilog, matrix, files, code, broken>>

\* The files are written one by one, the matrix is made before its two.
WriteReports ==
    /\ at = "reference" /\ todo = <<>>
    /\ matrix' = Rows(entries)
    /\ files' = [f \in Noted(Files) |-> "this"]
    /\ Ends(IF Cardinality(AllMissed(entries)) > 0 THEN 1 ELSE 0)
    /\ UNCHANGED <<corpus, fresh, iverilog, todo, reference, entries, results, broken>>

\* One of the files cannot be written, and those after it stay as they are.
WriteFails ==
    /\ at = "reference" /\ todo = <<>> /\ broken < MaxBroken
    /\ broken' = broken + 1
    /\ \E k \in DOMAIN Files :
        /\ files' = [f \in Noted(Files) |-> IF f \in {Files[j] : j \in 1 .. k - 1} THEN "this"
                                            ELSE IF f = Files[k] THEN "cut off" ELSE files[f]]
        /\ matrix' = IF k > 6 THEN Rows(entries) ELSE matrix
    /\ Ends(1)
    /\ UNCHANGED <<corpus, fresh, iverilog, todo, reference, entries, results>>

BatchEnded == at = "ended" /\ UNCHANGED batch

BatchNext == WriteCorpus \/ Load \/ Reference \/ Lint \/ WriteReports \/ WriteFails \/ BatchEnded

BatchSpec == BatchInit /\ [][BatchNext]_batch

-----------------------------------------------------------------------------
(* Properties. *)

\* The entries stand for the cases that are done, each with one result at most.
BatchTypeOK ==
    /\ at \in {"main", "load", "reference", "lint", "ended"}
    /\ Len(entries) + Len(todo) <= Cardinality(DOMAIN corpus)
    /\ DOMAIN results = {e.case.id : e \in Noted(entries)}
    /\ reference # "" => at = "lint"
    /\ \A f \in DOMAIN files : files[f] = "this" => at = "ended"
    /\ code \in 0 .. 1

\* A finding of its own that is as severe as the case.
FoundIn(e) ==
    \E x \in e.relevant :
        \/ x.severity = "error" \/ x.rule = "UNSUPPORTED"
        \/ x.severity = "warning" /\ e.case.expected # "fail" /\ e.case.kind # "error"
        \/ e.case.expected \notin {"fail", "warning"} /\ e.case.kind \notin {"error", "warning"}

\* Exit code 0 means that every case that should be found was found for a
\* reason of its own (a crash of its lint process is one), and that no case
\* that need not be found fails its reference; all reports are of this run, and
\* a category that they call supported has cases, and none of them was missed.
\* Where a run ends with 1 and has written its reports, they name a case that
\* was missed, and the matrix has it in its row if the category has one.
\* Nothing is ever reported as extra, and 100 percent means that nothing is
\* missing (compare, summarize, build_coverage_matrix).
DiffVerdictIsTrue ==
    at = "ended" =>
        /\ code = 0 =>
              /\ entries # <<>>
              /\ \A e \in Noted(entries) : IF e.case.should THEN FoundIn(e) ELSE ~Detected(e.reference)
              /\ \A f \in DOMAIN files : files[f] = "this"
              /\ BaselineKept(entries) <=> Len(entries) >= Baseline
        /\ code = 1 /\ files["coverage_matrix.md"] = "this" =>
              \E e \in Noted(entries) : IF e.case.should THEN ~FoundIn(e) ELSE Detected(e.reference)
        /\ \A b \in DOMAIN matrix :
              /\ matrix[b].support \in {"supported", "unsupported_diagnostic"} =>
                    matrix[b].total > 0 /\ matrix[b].missed = 0 /\ matrix[b].detected = matrix[b].expected
              /\ \A e \in Noted(entries) :
                    BucketOf(e) = b /\ Missed(e) => matrix[b].support = "partially_supported"
        /\ ~\E e \in Noted(entries) : Extra(e)

=============================================================================
