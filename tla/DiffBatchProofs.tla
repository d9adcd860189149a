----------------------------- MODULE DiffBatchProofs -----------------------------
(***************************************************************************)
(* Theorems about DiffBatch, for all corpora, required categories and      *)
(* outcomes of the tools: the verdict of a regression and its coverage     *)
(* matrix say what happened to its cases.                                  *)
(***************************************************************************)
EXTENDS MCFlows, LoopProofs, ReviewFlowProofs, FiniteSetTheorems, SequenceTheorems, TLAPS

-----------------------------------------------------------------------------
(* Sequences of anything. *)

IsSeq(s) == s \in Seq(Noted(s))

LEMMA SeqFacts ==
    ASSUME NEW s, IsSeq(s)
    PROVE  /\ Len(s) \in Nat /\ DOMAIN s = 1 .. Len(s)
           /\ s = <<>> <=> Len(s) = 0
BY EmptySeq DEF IsSeq

LEMMA SeqOf ==
    ASSUME NEW n \in Nat, NEW S, NEW s \in [1 .. n -> S]
    PROVE  IsSeq(s) /\ Len(s) = n
BY DEF IsSeq, Noted

LEMMA AppendNoted ==
    ASSUME NEW s, IsSeq(s), NEW e
    PROVE  /\ IsSeq(Append(s, e)) /\ Len(Append(s, e)) = Len(s) + 1
           /\ Noted(Append(s, e)) = Noted(s) \cup {e}
<1> DEFINE S == Noted(s) \cup {e}
           t == Append(s, e)
<1>1. s \in Seq(S) /\ Len(s) \in Nat /\ DOMAIN s = 1 .. Len(s)
  BY DEF IsSeq
<1>2. /\ t \in Seq(S) /\ Len(t) = Len(s) + 1
      /\ \A k \in 1 .. Len(s) : t[k] = s[k]
      /\ t[Len(s) + 1] = e
  BY <1>1, AppendProperties
<1>3. DOMAIN t = 1 .. Len(s) + 1
  BY <1>2
<1>4. Noted(t) = S
  BY <1>1, <1>2, <1>3 DEF Noted
<1> QED
  BY <1>2, <1>4 DEF IsSeq

LEMMA TailNoted ==
    ASSUME NEW s, IsSeq(s), s # <<>>
    PROVE  IsSeq(Tail(s)) /\ Len(Tail(s)) = Len(s) - 1
<1>1. /\ Tail(s) \in Seq(Noted(s)) /\ Len(Tail(s)) = Len(s) - 1
  BY HeadTailProperties DEF IsSeq
<1>2. Len(s) \in Nat /\ Len(s) # 0
  BY SeqFacts
<1>3. Tail(s) \in [1 .. Len(Tail(s)) -> Noted(s)]
  BY <1>1, LenProperties
<1>4. Len(Tail(s)) \in Nat
  BY <1>1, <1>2
<1>5. IsSeq(Tail(s))
  BY <1>3, <1>4, SeqOf, Zenon
<1> QED
  BY <1>1, <1>5

-----------------------------------------------------------------------------
(* The entries. *)

\* What compare notes: what it knew of the case and of the two tools.
Judged(e) ==
    /\ \E d \in Outcomes \cup {Crash} : e = Entry(e.case, e.reference, d)
    /\ e.case.language # "verilog" => e.reference = e.case.expected

\* An entry is missed if its case should be found and was not, or if it need
\* not and the reference finds something; none is extra.
LEMMA JudgedVerdict ==
    ASSUME NEW e, Judged(e)
    PROVE  /\ ~Extra(e)
           /\ Missed(e) <=> IF e.case.should THEN ~FoundIn(e) ELSE Detected(e.reference)
<1>1. PICK d \in Outcomes \cup {Crash} : e = Entry(e.case, e.reference, d)
  BY DEF Judged
<1>2. /\ e.relevant = Relevant(d)
      /\ e.expected = ExpectedDetected(e.case, e.reference)
      /\ e.detected = StaLiteDetected(e.case, d)
  BY <1>1 DEF Entry
<1>3. e.expected <=> e.case.should \/ Detected(e.reference)
  BY <1>2 DEF ExpectedDetected, Judged
<1>4. e.detected <=> e.case.should /\ FoundIn(e)
  BY <1>2 DEF StaLiteDetected, FoundIn, Severities, Unsupported
<1> QED
  BY <1>3, <1>4 DEF Missed, Extra

-----------------------------------------------------------------------------
(* The coverage matrix. *)

LEMMA NoneCounted ==
    ASSUME NEW S, IsFiniteSet(S)
    PROVE  Cardinality(S) \in Nat /\ (Cardinality(S) = 0 <=> S = {})
BY FS_CardinalityType, FS_EmptySet

\* The row of a category that is called supported has cases and no missed one,
\* and the row of a category with a missed case says so.
LEMMA RowIsTrue ==
    ASSUME NEW s, IsSeq(s), \A e \in Noted(s) : ~Extra(e),
           NEW B, B \subseteq DOMAIN s
    PROVE  /\ Row(s, B).support \in {"supported", "unsupported_diagnostic"} =>
                 /\ Row(s, B).total > 0 /\ Row(s, B).missed = 0
                 /\ Row(s, B).detected = Row(s, B).expected
           /\ \A k \in B : Missed(s[k]) => Row(s, B).support = "partially_supported"
<1> DEFINE M == {k \in B : Missed(s[k])}
<1>1. IsFiniteSet(B)
  BY SeqFacts, FS_Interval, FS_Subset
<1>2. IsFiniteSet(M)
  BY <1>1, FS_Subset
<1>3. /\ Row(s, B).total = Cardinality(B) /\ Row(s, B).missed = Cardinality(M)
      /\ Row(s, B).expected = Cardinality({k \in B : s[k].expected})
      /\ Row(s, B).detected = Cardinality({k \in B : s[k].detected})
      /\ Row(s, B).support = SupportStatus(s, B)
  BY DEF Row
<1>4. ASSUME M = {} PROVE {k \in B : s[k].expected} = {k \in B : s[k].detected}
  BY <1>4 DEF Missed, Extra, Noted
<1>5. ASSUME SupportStatus(s, B) \in {"supported", "unsupported_diagnostic"}
      PROVE  B # {} /\ M = {}
  BY <1>5 DEF SupportStatus
<1>6. \A k \in B : Missed(s[k]) => SupportStatus(s, B) = "partially_supported"
  BY DEF SupportStatus
<1>7. /\ Cardinality(B) \in Nat /\ (Cardinality(B) = 0 <=> B = {})
      /\ Cardinality(M) = 0 <=> M = {}
  BY <1>1, <1>2, NoneCounted
<1>8. /\ B # {} => Cardinality(B) > 0
      /\ M = {} => Row(s, B).detected = Row(s, B).expected
  <2>1. B # {} => Cardinality(B) > 0
    BY <1>7
  <2>2. M = {} => Row(s, B).detected = Row(s, B).expected
    <3> SUFFICES ASSUME M = {} PROVE Row(s, B).detected = Row(s, B).expected
      OBVIOUS
    <3> QED
      BY <1>3, <1>4
  <2> QED
    BY <2>1, <2>2
<1> HIDE DEF M
<1>9. Row(s, B).support \in {"supported", "unsupported_diagnostic"} =>
        /\ Row(s, B).total > 0 /\ Row(s, B).missed = 0
        /\ Row(s, B).detected = Row(s, B).expected
  BY <1>3, <1>5, <1>7, <1>8
<1> QED
  BY <1>3, <1>6, <1>9

-----------------------------------------------------------------------------
(* The inductive invariant. *)

\* The cases that are done and those that are left are the corpus.
WorkInv ==
    /\ IsFiniteSet(DOMAIN corpus) /\ IsSeq(entries) /\ IsSeq(todo)
    /\ at \in {"main", "load", "reference", "lint", "ended"}
    /\ at \in {"main", "load"} => entries = <<>> /\ todo = <<>>
    /\ at \in {"reference", "lint"} =>
          Len(entries) + Len(todo) = Cardinality(DOMAIN corpus) /\ Cardinality(DOMAIN corpus) > 0
    /\ Len(entries) + Len(todo) <= Cardinality(DOMAIN corpus)

\* What the tools have said of the case at hand and of those that are done.
CaseInv ==
    /\ at = "lint" => todo # <<>> /\ (Head(todo).language # "verilog" => reference = Head(todo).expected)
    /\ reference # "" => at = "lint"
    /\ \A e \in Noted(entries) : Judged(e)
    /\ DOMAIN results = {e.case.id : e \in Noted(entries)}

\* What the reports and the exit code say.
ReportInv ==
    /\ code \in {0, 1}
    /\ DOMAIN matrix = {} \/ matrix = Rows(entries)
    /\ DOMAIN files = Noted(Files)
    /\ at # "ended" => DOMAIN matrix = {} /\ \A f \in Noted(Files) : files[f] = "earlier"
    /\ at = "ended" /\ code = 0 =>
          entries # <<>> /\ AllMissed(entries) = {} /\ \A f \in Noted(Files) : files[f] = "this"
    /\ at = "ended" /\ code = 1 /\ files["coverage_matrix.md"] = "this" => AllMissed(entries) # {}

BatchInv == WorkInv /\ CaseInv /\ ReportInv

LEMMA FilesNoted ==
    /\ DOMAIN Files = 1 .. 8 /\ Files[8] = "coverage_matrix.md"
    /\ "coverage_matrix.md" \in Noted(Files)
    /\ \A j \in 1 .. 7 : Files[j] # "coverage_matrix.md"
<1>1. DOMAIN Files = 1 .. 8 /\ Files[8] = "coverage_matrix.md"
  BY DEF Files
<1>2. \A j \in 1 .. 7 : Files[j] # "coverage_matrix.md"
  BY DEF Files
<1> QED
  BY <1>1, <1>2 DEF Noted

LEMMA NothingMissed ==
    ASSUME IsSeq(entries)
    PROVE  /\ Cardinality(AllMissed(entries)) \in Nat
           /\ Cardinality(AllMissed(entries)) = 0 <=> AllMissed(entries) = {}
<1>1. IsFiniteSet(DOMAIN entries)
  BY SeqFacts, FS_Interval
<1>2. IsFiniteSet(AllMissed(entries))
  BY <1>1, FS_Subset DEF AllMissed
<1> QED
  BY <1>2, NoneCounted

LEMMA EmptyNoted == IsSeq(<<>>) /\ Noted(<<>>) = {} /\ Len(<<>>) = 0 /\ DOMAIN <<>> = {}
<1>1. Noted(<<>>) = {} /\ DOMAIN <<>> = {}
  BY DEF Noted
<1> QED
  BY <1>1, EmptySeq DEF IsSeq

LEMMA InitBatchInv == ASSUME BatchInit PROVE BatchInv
<1>1. IsFiniteSet(DOMAIN corpus)
  BY BatchConstants DEF BatchInit
<1>2. Cardinality(DOMAIN corpus) \in Nat
  BY <1>1, FS_CardinalityType
<1>3. WorkInv
  <2>1. entries = <<>> /\ todo = <<>> /\ at = "main"
    BY DEF BatchInit
  <2>2. IsSeq(entries) /\ IsSeq(todo) /\ Len(entries) + Len(todo) <= Cardinality(DOMAIN corpus)
    BY <1>2, <2>1, EmptyNoted
  <2> QED
    BY <1>1, <2>1, <2>2 DEF WorkInv
<1>4. CaseInv
  BY EmptyNoted DEF BatchInit, CaseInv
<1>5. ReportInv
  BY EmptyNoted, FilesNoted DEF BatchInit, ReportInv
<1> QED
  BY <1>3, <1>4, <1>5 DEF BatchInv

LEMMA WriteCorpusStep == ASSUME BatchInv, WriteCorpus PROVE BatchInv'
<1>1. IsFiniteSet(DOMAIN corpus')
  <2>1. DOMAIN corpus' = DOMAIN BuiltIn \cup DOMAIN corpus
    BY DEF WriteCorpus
  <2>2. IsFiniteSet(DOMAIN BuiltIn) /\ IsFiniteSet(DOMAIN corpus)
    BY BatchConstants DEF BatchInv, WorkInv
  <2> QED
    BY <2>1, <2>2, FS_Union
<1>2. Cardinality(DOMAIN corpus') \in Nat
  BY <1>1, FS_CardinalityType
<1>3. WorkInv'
  BY <1>1, <1>2, EmptyNoted DEF WriteCorpus, BatchInv, WorkInv
<1>4. CaseInv' /\ ReportInv'
  BY DEF WriteCorpus, BatchInv, CaseInv, ReportInv
<1> QED
  BY <1>3, <1>4 DEF BatchInv

LEMMA LoadStep == ASSUME BatchInv, Load PROVE BatchInv'
<1>1. /\ entries = <<>> /\ todo = <<>> /\ at \in {"main", "load"}
      /\ UNCHANGED <<corpus, fresh, iverilog, reference, entries, results, matrix, files, broken>>
  BY DEF Load, BatchInv, WorkInv
<1>2. IsFiniteSet(DOMAIN corpus) /\ Cardinality(DOMAIN corpus) \in Nat
  BY FS_CardinalityType DEF BatchInv, WorkInv
<1>3. CASE Ends(1) /\ UNCHANGED todo
  <2>1. WorkInv'
    BY <1>1, <1>2, <1>3, EmptyNoted DEF WorkInv, Ends
  <2>2. CaseInv'
    BY <1>1, <1>3 DEF BatchInv, CaseInv, Ends
  <2>3. ReportInv'
    BY <1>1, <1>3, FilesNoted DEF BatchInv, ReportInv, Ends
  <2> QED
    BY <2>1, <2>2, <2>3 DEF BatchInv
<1>4. CASE /\ DOMAIN corpus # {}
           /\ \E paths \in [1 .. Cardinality(DOMAIN corpus) -> DOMAIN corpus] :
                todo' = [k \in DOMAIN paths |-> Normalized(corpus[paths[k]])]
           /\ at' = "reference" /\ UNCHANGED code
  <2> DEFINE n == Cardinality(DOMAIN corpus)
  <2>1. PICK paths \in [1 .. n -> DOMAIN corpus] :
          todo' = [k \in DOMAIN paths |-> Normalized(corpus[paths[k]])]
    BY <1>4
  <2>2. todo' \in [1 .. n -> {Normalized(corpus[paths[k]]) : k \in 1 .. n}]
    BY <2>1
  <2>3. IsSeq(todo') /\ Len(todo') = n
    BY <1>2, <2>2, SeqOf
  <2>4. n > 0
    BY <1>2, <1>4, FS_EmptySet
  <2>5. WorkInv'
    BY <1>1, <1>2, <1>4, <2>3, <2>4, EmptyNoted DEF WorkInv
  <2>6. CaseInv' /\ ReportInv'
    BY <1>1, <1>4 DEF BatchInv, CaseInv, ReportInv
  <2> QED
    BY <2>5, <2>6 DEF BatchInv
<1> QED
  BY <1>3, <1>4 DEF Load

LEMMA ReferenceStep == ASSUME BatchInv, Reference PROVE BatchInv'
<1>1. /\ at = "reference" /\ todo # <<>> /\ reference = ""
      /\ UNCHANGED <<corpus, fresh, iverilog, todo, entries, results, matrix, files, broken>>
  BY DEF Reference, BatchInv, CaseInv
<1>2. CASE Ends(1) /\ UNCHANGED reference
  <2>1. WorkInv' /\ CaseInv'
    BY <1>1, <1>2 DEF BatchInv, WorkInv, CaseInv, Ends
  <2>2. /\ at' = "ended" /\ code' = 1 /\ DOMAIN matrix = {}
        /\ files["coverage_matrix.md"] = "earlier" /\ DOMAIN files = Noted(Files)
    BY <1>1, <1>2, FilesNoted DEF BatchInv, ReportInv, Ends
  <2>3. /\ at' = "ended" /\ code' = 1 /\ DOMAIN matrix' = {}
        /\ files'["coverage_matrix.md"] # "this" /\ DOMAIN files' = Noted(Files)
    BY <1>1, <2>2
  <2>4. ReportInv'
    BY <2>3 DEF ReportInv
  <2> QED
    BY <2>1, <2>4 DEF BatchInv
<1>3. CASE /\ Head(todo).language # "verilog" => reference' = Head(todo).expected
           /\ at' = "lint" /\ UNCHANGED code
  BY <1>1, <1>3 DEF BatchInv, WorkInv, CaseInv, ReportInv
<1> QED
  BY <1>2, <1>3 DEF Reference

LEMMA LintStep == ASSUME BatchInv, Lint PROVE BatchInv'
<1>1. PICK d \in Outcomes \cup {Crash} :
        /\ entries' = Append(entries, Entry(Head(todo), reference, d))
        /\ results' = [i \in {Head(todo).id} \cup DOMAIN results |->
                         IF i = Head(todo).id THEN StaLiteStatus(d) ELSE results[i]]
  BY DEF Lint
<1>2. /\ at = "lint" /\ todo' = Tail(todo) /\ reference' = "" /\ at' = "reference"
      /\ UNCHANGED <<corpus, fresh, iverilog, matrix, files, code, broken>>
  BY DEF Lint
<1> DEFINE e == Entry(Head(todo), reference, d)
<1>3. /\ IsSeq(entries) /\ IsSeq(todo) /\ todo # <<>>
      /\ Len(entries) \in Nat /\ Len(todo) \in Nat
  BY <1>2, SeqFacts DEF BatchInv, WorkInv, CaseInv
<1>4. /\ IsSeq(entries') /\ Len(entries') = Len(entries) + 1
      /\ Noted(entries') = Noted(entries) \cup {e}
  BY <1>1, <1>3, AppendNoted
<1>5. IsSeq(todo') /\ Len(todo') = Len(todo) - 1
  BY <1>2, <1>3, TailNoted
<1>6. e.case = Head(todo) /\ e.reference = reference
  BY DEF Entry
<1>7. Judged(e)
  BY <1>2, <1>6 DEF Judged, BatchInv, CaseInv
<1>8. DOMAIN results' = DOMAIN results \cup {e.case.id}
  BY <1>1, <1>6
<1> HIDE DEF e
<1>9. WorkInv'
  <2>1. /\ IsFiniteSet(DOMAIN corpus) /\ Cardinality(DOMAIN corpus) > 0
        /\ Len(entries) + Len(todo) = Cardinality(DOMAIN corpus)
    BY <1>2 DEF BatchInv, WorkInv
  <2>2. Len(entries') + Len(todo') = Len(entries) + Len(todo)
    BY <1>3, <1>4, <1>5
  <2>3. Cardinality(DOMAIN corpus) \in Nat
    BY <2>1, FS_CardinalityType
  <2>4. /\ IsFiniteSet(DOMAIN corpus') /\ IsSeq(entries') /\ IsSeq(todo') /\ at' = "reference"
        /\ Len(entries') + Len(todo') = Cardinality(DOMAIN corpus')
        /\ Cardinality(DOMAIN corpus') > 0 /\ Cardinality(DOMAIN corpus') \in Nat
    BY <1>2, <1>4, <1>5, <2>1, <2>2, <2>3
  <2> QED
    BY <2>4 DEF WorkInv
<1>10. CaseInv'
  BY <1>2, <1>4, <1>7, <1>8 DEF BatchInv, CaseInv
<1>11. ReportInv'
  BY <1>2 DEF BatchInv, ReportInv
<1> QED
  BY <1>9, <1>10, <1>11 DEF BatchInv

LEMMA WriteReportsStep == ASSUME BatchInv, WriteReports PROVE BatchInv'
<1>1. /\ at = "reference" /\ todo = <<>> /\ matrix' = Rows(entries)
      /\ files' = [f \in Noted(Files) |-> "this"]
      /\ at' = "ended" /\ code' = IF Cardinality(AllMissed(entries)) > 0 THEN 1 ELSE 0
      /\ UNCHANGED <<corpus, fresh, iverilog, todo, reference, entries, results, broken>>
  BY DEF WriteReports, Ends
<1>2. IsSeq(entries) /\ Len(entries) > 0
  BY <1>1, SeqFacts, EmptyNoted DEF BatchInv, WorkInv
<1>3. entries # <<>> /\ (Cardinality(AllMissed(entries)) > 0 <=> AllMissed(entries) # {})
  BY <1>2, NothingMissed, EmptyNoted
<1>4. WorkInv' /\ CaseInv'
  BY <1>1 DEF BatchInv, WorkInv, CaseInv
<1>5. ReportInv'
  BY <1>1, <1>3, FilesNoted DEF ReportInv, AllMissed, Rows
<1> QED
  BY <1>4, <1>5 DEF BatchInv

LEMMA WriteFailsStep == ASSUME BatchInv, WriteFails PROVE BatchInv'
<1>1. /\ at = "reference" /\ at' = "ended" /\ code' = 1
      /\ UNCHANGED <<corpus, fresh, iverilog, todo, reference, entries, results>>
  BY DEF WriteFails, Ends
<1>2. PICK k \in DOMAIN Files :
        /\ files' = [f \in Noted(Files) |-> IF f \in {Files[j] : j \in 1 .. k - 1} THEN "this"
                                            ELSE IF f = Files[k] THEN "cut off" ELSE files[f]]
        /\ matrix' = IF k > 6 THEN Rows(entries) ELSE matrix
  BY DEF WriteFails
<1>3. k \in 1 .. 8 /\ "coverage_matrix.md" \notin {Files[j] : j \in 1 .. k - 1}
  BY FilesNoted
<1>4. files["coverage_matrix.md"] = "earlier"
  BY <1>1, FilesNoted DEF BatchInv, ReportInv
<1>5. files'["coverage_matrix.md"] # "this" /\ DOMAIN files' = Noted(Files)
  BY <1>2, <1>3, <1>4, FilesNoted
<1>6. DOMAIN matrix' = {} \/ matrix' = Rows(entries)
  BY <1>1, <1>2 DEF BatchInv, ReportInv
<1>7. WorkInv' /\ CaseInv'
  BY <1>1 DEF BatchInv, WorkInv, CaseInv
<1>8. ReportInv'
  BY <1>1, <1>5, <1>6, FilesNoted DEF ReportInv, Rows
<1> QED
  BY <1>7, <1>8 DEF BatchInv

LEMMA StepBatchInv == ASSUME BatchInv, [BatchNext]_batch PROVE BatchInv'
<1>1. CASE UNCHANGED batch
  BY <1>1 DEF batch, BatchInv, WorkInv, CaseInv, ReportInv, Rows, AllMissed
<1> QED
  BY <1>1, WriteCorpusStep, LoadStep, ReferenceStep, LintStep, WriteReportsStep, WriteFailsStep
  DEF BatchNext, BatchEnded

-----------------------------------------------------------------------------
(* The theorems. *)

\* The inductive invariant holds throughout a regression.
THEOREM BatchInductive == BatchSpec => []BatchInv
<1>1. BatchInit => BatchInv
  BY InitBatchInv
<1>2. BatchInv /\ [BatchNext]_batch => BatchInv'
  BY StepBatchInv
<1> QED
  BY <1>1, <1>2, PTL DEF BatchSpec

\* Cases that are done and cases that are left are cases of the corpus, the
\* results are those of the cases that are done, and no report is of this run
\* before it ends, for any corpus.
THEOREM BatchTypeCorrect == BatchSpec => []BatchTypeOK
<1>1. BatchInv => BatchTypeOK
  <2> SUFFICES ASSUME BatchInv PROVE BatchTypeOK
    OBVIOUS
  <2>1. \A f \in DOMAIN files : files[f] = "this" => at = "ended"
    BY DEF BatchInv, ReportInv
  <2>2. code \in 0 .. 1
    BY DEF BatchInv, ReportInv
  <2> QED
    BY <2>1, <2>2 DEF BatchTypeOK, BatchInv, WorkInv, CaseInv
<1> QED
  BY <1>1, BatchInductive, PTL

\* The exit code of a regression and its coverage matrix say which cases were
\* missed, whatever the tools print and wherever writing the reports fails.
THEOREM VerdictIsTrue == BatchSpec => []DiffVerdictIsTrue
<1>1. BatchInv => DiffVerdictIsTrue
  <2> SUFFICES ASSUME BatchInv, at = "ended" PROVE DiffVerdictIsTrue
    BY DEF DiffVerdictIsTrue
  <2>1. \A e \in Noted(entries) :
          /\ ~Extra(e)
          /\ Missed(e) <=> IF e.case.should THEN ~FoundIn(e) ELSE Detected(e.reference)
    BY JudgedVerdict DEF BatchInv, CaseInv
  <2>2. AllMissed(entries) = {} <=> \A e \in Noted(entries) : ~Missed(e)
    BY DEF AllMissed, Noted
  <2>3. IsSeq(entries)
    BY DEF BatchInv, WorkInv
  <2>4. ASSUME code = 0
        PROVE  /\ entries # <<>>
               /\ \A e \in Noted(entries) : IF e.case.should THEN FoundIn(e) ELSE ~Detected(e.reference)
               /\ \A f \in DOMAIN files : files[f] = "this"
               /\ BaselineKept(entries) <=> Len(entries) >= Baseline
    <3>1. /\ entries # <<>> /\ AllMissed(entries) = {}
          /\ \A f \in DOMAIN files : files[f] = "this"
      BY <2>4 DEF BatchInv, ReportInv
    <3>2. Cardinality(AllMissed(entries)) = 0
      BY <2>3, <3>1, NothingMissed
    <3>3. BaselineKept(entries) <=> Len(entries) >= Baseline
      BY <3>2 DEF BaselineKept
    <3> QED
      BY <2>1, <2>2, <3>1, <3>3
  <2>5. ASSUME code = 1, files["coverage_matrix.md"] = "this"
        PROVE  \E e \in Noted(entries) : IF e.case.should THEN ~FoundIn(e) ELSE Detected(e.reference)
    <3>1. AllMissed(entries) # {}
      BY <2>5 DEF BatchInv, ReportInv
    <3> QED
      BY <2>1, <2>2, <3>1
  <2>6. ASSUME NEW b \in DOMAIN matrix
        PROVE  /\ matrix[b].support \in {"supported", "unsupported_diagnostic"} =>
                     matrix[b].total > 0 /\ matrix[b].missed = 0 /\ matrix[b].detected = matrix[b].expected
               /\ \A e \in Noted(entries) :
                     BucketOf(e) = b /\ Missed(e) => matrix[b].support = "partially_supported"
    <3> DEFINE B == {k \in DOMAIN entries : BucketOf(entries[k]) = b}
    <3>1. matrix = Rows(entries)
      BY DEF BatchInv, ReportInv
    <3>2. matrix[b] = Row(entries, B)
      BY <3>1 DEF Rows
    <3>3. B \subseteq DOMAIN entries
      OBVIOUS
    <3>4. \A e \in Noted(entries) : BucketOf(e) = b => \E k \in B : e = entries[k]
      BY DEF Noted
    <3> HIDE DEF B
    <3> QED
      BY <2>1, <2>3, <3>2, <3>3, <3>4, RowIsTrue
  <2> QED
    BY <2>1, <2>4, <2>5, <2>6 DEF DiffVerdictIsTrue
<1> QED
  BY <1>1, BatchInductive, PTL

-----------------------------------------------------------------------------
(* A regression ends. *)

\* The steps that are left of a regression: two for each case and one for the
\* reports, and before the cases are loaded those of all that may be there.
StepsLeft ==
    CASE at = "main"      -> 2 * Cardinality(DOMAIN BuiltIn \cup DOMAIN corpus) + 3
      [] at = "load"      -> 2 * Cardinality(DOMAIN corpus) + 2
      [] at = "reference" -> 2 * Len(todo) + 1
      [] at = "lint"      -> 2 * Len(todo)
      [] at = "ended"     -> 0

LEMMA StepsCounted ==
    ASSUME BatchInv
    PROVE  /\ Cardinality(DOMAIN corpus) \in Nat /\ Len(todo) \in Nat
           /\ Cardinality(DOMAIN BuiltIn \cup DOMAIN corpus) \in Nat
           /\ Cardinality(DOMAIN corpus) <= Cardinality(DOMAIN BuiltIn \cup DOMAIN corpus)
           /\ StepsLeft \in Nat
<1>1. IsFiniteSet(DOMAIN corpus) /\ IsFiniteSet(DOMAIN BuiltIn \cup DOMAIN corpus)
  BY BatchConstants, FS_Union DEF BatchInv, WorkInv
<1>2. /\ Cardinality(DOMAIN corpus) \in Nat
      /\ Cardinality(DOMAIN BuiltIn \cup DOMAIN corpus) \in Nat
      /\ Cardinality(DOMAIN corpus) <= Cardinality(DOMAIN BuiltIn \cup DOMAIN corpus)
  BY <1>1, FS_CardinalityType, FS_Subset
<1>3. Len(todo) \in Nat
  BY SeqFacts DEF BatchInv, WorkInv
<1>4. at \in {"main", "load", "reference", "lint", "ended"}
  BY DEF BatchInv, WorkInv
<1> QED
  BY <1>2, <1>3, <1>4 DEF StepsLeft

LEMMA BatchMovesOn ==
    ASSUME BatchInv, BatchInv', [BatchNext]_batch, batch' # batch
    PROVE  StepsLeft' < StepsLeft
<1>1. CASE WriteCorpus
  <2>1. at = "main" /\ at' = "load" /\ DOMAIN corpus' = DOMAIN BuiltIn \cup DOMAIN corpus
    BY <1>1 DEF WriteCorpus
  <2>2. /\ StepsLeft = 2 * Cardinality(DOMAIN BuiltIn \cup DOMAIN corpus) + 3
        /\ StepsLeft' = 2 * Cardinality(DOMAIN BuiltIn \cup DOMAIN corpus) + 2
    BY <2>1 DEF StepsLeft
  <2> QED
    BY <2>2, StepsCounted
<1>2. CASE Load
  <2> DEFINE n == Cardinality(DOMAIN corpus)
  <2>1. at \in {"main", "load"}
    BY <1>2 DEF Load
  <2>2. n \in Nat /\ StepsLeft \in Nat /\ StepsLeft >= 2 * n + 2
    BY <2>1, StepsCounted DEF StepsLeft
  <2>3. CASE Ends(1)
    <3>1. StepsLeft' = 0
      BY <2>3 DEF Ends, StepsLeft
    <3> HIDE DEF n
    <3> QED
      BY <2>2, <3>1
  <2>4. CASE at' = "reference" /\ UNCHANGED <<corpus, entries>>
    <3>1. entries = <<>> /\ Len(entries) = 0
      BY <2>1, EmptyNoted DEF BatchInv, WorkInv
    <3>2. Len(entries') + Len(todo') = Cardinality(DOMAIN corpus')
      BY <2>4 DEF BatchInv, WorkInv
    <3>3. Len(todo') \in Nat /\ Len(todo') = n
      BY <2>4, <3>1, <3>2, StepsCounted
    <3>4. StepsLeft' = 2 * Len(todo') + 1
      BY <2>4 DEF StepsLeft
    <3> HIDE DEF n
    <3> QED
      BY <2>2, <3>3, <3>4
  <2> QED
    BY <1>2, <2>3, <2>4 DEF Load
<1>3. CASE Reference
  <2>1. at = "reference" /\ UNCHANGED todo /\ at' \in {"ended", "lint"}
    BY <1>3 DEF Reference, Ends
  <2>2. StepsLeft = 2 * Len(todo) + 1 /\ Len(todo) \in Nat
    BY <2>1, StepsCounted DEF StepsLeft
  <2>3. StepsLeft' \in {0, 2 * Len(todo)}
    BY <2>1 DEF StepsLeft
  <2> QED
    BY <2>2, <2>3
<1>4. CASE Lint
  <2>1. at = "lint" /\ at' = "reference" /\ todo' = Tail(todo)
    BY <1>4 DEF Lint
  <2>2. Len(todo') = Len(todo) - 1
    BY <2>1, TailNoted DEF BatchInv, WorkInv, CaseInv
  <2>3. StepsLeft = 2 * Len(todo) /\ StepsLeft' = 2 * Len(todo') + 1
    BY <2>1 DEF StepsLeft
  <2> QED
    BY <2>2, <2>3, StepsCounted
<1>5. CASE WriteReports \/ WriteFails
  <2>1. at = "reference" /\ at' = "ended"
    BY <1>5 DEF WriteReports, WriteFails, Ends
  <2>2. StepsLeft = 2 * Len(todo) + 1 /\ StepsLeft' = 0
    BY <2>1 DEF StepsLeft
  <2> QED
    BY <2>2, StepsCounted
<1> QED
  BY <1>1, <1>2, <1>3, <1>4, <1>5 DEF BatchNext, BatchEnded

\* main comes to its end, whatever the cases are, the tools print and fails to
\* be written: the number of steps that are left gets smaller with each.
THEOREM BatchEnds == BatchSpec => [](StepsLeft \in Nat) /\ [][StepsLeft' < StepsLeft]_batch
<1>1. BatchInv => StepsLeft \in Nat
  BY StepsCounted
<1>2. BatchInv /\ BatchInv' /\ [BatchNext]_batch => [StepsLeft' < StepsLeft]_batch
  BY BatchMovesOn
<1> QED
  BY <1>1, <1>2, BatchInductive, PTL DEF BatchSpec

-----------------------------------------------------------------------------
(* The three searches side by side. *)

\* A behaviour of the composition is one of each search: a step of one of them
\* leaves the others alone.
LEMMA FlowsAreTheirParts == Flows => Spec /\ FlowSpec /\ BatchSpec
<1>1. FlowsInit => Init /\ FlowInit /\ BatchInit
  BY DEF FlowsInit
<1>2. [Loop \/ Flow \/ Batch]_<<part, vars, flow, batch>> =>
          [Next]_vars /\ [FlowNext]_flow /\ [BatchNext]_batch
  BY DEF Loop, Flow, Batch
<1> QED
  BY <1>1, <1>2, PTL DEF Flows, Spec, FlowSpec, BatchSpec

\* The search for loops, the commands and the regression keep to their types
\* in one behaviour, too, for any designs, texts and corpora.
THEOREM FlowsTypeCorrect == Flows => []FlowsTypeOK
<1>1. TypeOK /\ FlowTypeOK /\ BatchTypeOK => FlowsTypeOK
  BY DEF FlowsTypeOK
<1> QED
  BY <1>1, FlowsAreTheirParts, LoopTypeCorrect, FlowTypeCorrect, BatchTypeCorrect, PTL

\* What is proved of the parts holds of their composition, which the run checks.
THEOREM FlowsAreCorrect ==
    Flows => [](/\ ComponentsAreClasses /\ StackIsConnected /\ RealLoopIsReported
                /\ ReviewKeepsResults /\ ArtifactsAreOfThisRun
                /\ DiffVerdictIsTrue)
BY FlowsAreTheirParts, SearchIsCorrect, StackHangsTogether, NoLoopIsMissed,
   ResultsAreKept, ArtifactsAreCurrent, VerdictIsTrue, PTL

=============================================================================
