-------------------------- MODULE ReportExport_proofs --------------------------
(***************************************************************************)
(* What a reader of the exported document or of its measurement records    *)
(* may rely on, for every report, every set of options and every number of *)
(* writes and edits.                                                       *)
(*                                                                         *)
(* ExportInv is the inductive invariant: document and records are, from    *)
(* the moment they are made, what their functions make of the report and   *)
(* of the document, and the records' numbers are their own.  What leaves   *)
(* the process needs Exportable besides: the lengths and counts of every   *)
(* result are numbers, through all the evaluations that make results, and  *)
(* nothing is exported of a report that holds what cannot be.              *)
(*                                                                         *)
(* The facts of a report rest on the evaluation that made them:            *)
(* EvaluationInv says that what an evaluation holds between two scans is   *)
(* typed, counted and, in each result, borne out by its facts.  Assembled  *)
(* says that the report is those results and the ones that were added, and *)
(* that until somebody writes the document's numbers are the report's.     *)
(*                                                                         *)
(* Where nobody writes while an expectation is evaluated, FiguresKept adds *)
(* that what has been read so far is what the tables say, and Right that   *)
(* the verdict reached from it is the truth.                               *)
(***************************************************************************)
EXTENDS ReportExport, SequenceTheorems, FiniteSetTheorems, WellFoundedInduction, TLAPS

After == {"exported", "recorded", "unrecorded"}

\* The document is what ExportReport makes of the report.
Written ==
  /\ stage \in After =>
       exported = [i \in DOMAIN report |->
                     ExportResult(input.options, input.suite # <<>>, i, report[i])]
  /\ stage \notin After => exported = <<>>

\* The records are what MeasurementRecordsFromExport makes of the document.
Measured ==
  /\ stage = "recorded" =>
       /\ Identified(exported)
       /\ records = [i \in DOMAIN exported |-> Measurement(i, exported[i])]
  /\ stage = "unrecorded" => ~Identified(exported)
  /\ stage # "recorded" => records = <<>>

\* Every number a record holds is among the cells.
Held ==
  \A i \in DOMAIN records :
    /\ \A f \in DOMAIN records[i].facts :
         records[i].facts[f] = <<"record", i, f>> /\ records[i].facts[f] \in DOMAIN cells
    /\ \A c \in DOMAIN records[i].counts :
         records[i].counts[c] = <<"record", i, c>> /\ records[i].counts[c] \in DOMAIN cells

ExportInv == Written /\ Measured /\ Held

----------------------------------------------------------------------------
(* What a step leaves alone.                                               *)

\* No statement touches the suite or the options.
LEMMA InputStays ==
  ASSUME Evaluate \/ Write
  PROVE  input' = input
<1>1. CASE Write
  BY <1>1 DEF Write
<1>2. CASE EvalTableCount \/ EvalDistinctCount
  BY <1>2 DEF EvalTableCount, EvalDistinctCount, Conclude
<1>3. CASE EvalAverage \/ EvalBound
  BY <1>3 DEF EvalAverage, EvalBound, Conclude
<1>4. CASE EvalSum \/ EvalStdDev
  BY <1>4 DEF EvalSum, EvalStdDev, Moment
<1>5. CASE EvalFreshSince
  BY <1>5 DEF EvalFreshSince, Conclude
<1>6. CASE ResolveScopedTotal \/ FractionWithoutTotal
  BY <1>6 DEF ResolveScopedTotal, FractionWithoutTotal
<1>7. CASE EvalRate \/ EvalDominantShare
  BY <1>7 DEF EvalRate, EvalDominantShare, Conclude
<1>8. CASE CountLeft \/ CountRight
  BY <1>8 DEF CountLeft, CountRight, Conclude
<1>9. CASE EvalCustomCount \/ EvalStructural
  BY <1>9 DEF EvalCustomCount, EvalStructural, Conclude
<1>10. CASE EvalNullability \/ EvalColumnType
  BY <1>10 DEF EvalNullability, EvalColumnType, Contract, Conclude
<1> QED
  BY <1>1, <1>2, <1>3, <1>4, <1>5, <1>6, <1>7, <1>8, <1>9, <1>10 DEF Evaluate

\* A record's facts and counts are copies at addresses of its own; what else it
\* keeps of a result it keeps as it is.
LEMMA MeasurementFields ==
  ASSUME NEW o, NEW targeted, NEW j, NEW r, NEW i
  PROVE  LET x == ExportResult(o, targeted, j, r)
             m == Measurement(i, x)
         IN /\ m.id = x.id /\ m.segment = x.segment
            /\ m.verdict = x.verdict /\ m.severity = x.severity /\ m.errors = x.errors
            /\ m.facts = CloneFacts(i, x.facts) /\ m.counts = CloneFacts(i, x.counts)
<1> DEFINE x == ExportResult(o, targeted, j, r)
<1> DEFINE kept == Restrict(x, DOMAIN x \ Unrecorded)
<1>1. {"id", "segment", "verdict", "severity", "errors", "facts", "counts"} \subseteq DOMAIN kept
  BY DEF ExportResult, Restrict, Unrecorded
<1>2. \A f \in DOMAIN kept : kept[f] = x[f]
  BY DEF Restrict
<1>3. Measurement(i, x) = [kept EXCEPT !.facts = CloneFacts(i, x.facts),
                                       !.counts = CloneFacts(i, x.counts)]
  BY DEF Measurement
<1> HIDE DEF x, kept
<1>4. /\ Measurement(i, x).facts = CloneFacts(i, x.facts)
      /\ Measurement(i, x).counts = CloneFacts(i, x.counts)
  BY <1>1, <1>3
<1>5. \A f \in {"id", "segment", "verdict", "severity", "errors"} : Measurement(i, x)[f] = x[f]
  BY <1>1, <1>2, <1>3
<1>6. QED
  BY <1>4, <1>5 DEF x

----------------------------------------------------------------------------
(* The invariant.                                                          *)

\* There is no document and no record before the report.
LEMMA ExportInit == Init => ExportInv
<1> SUFFICES ASSUME Init PROVE ExportInv
  OBVIOUS
<1>1. stage = "evaluating" /\ exported = <<>> /\ records = <<>>
  BY DEF Init
<1>2. Written /\ Measured
  BY <1>1 DEF Written, Measured, After
<1>3. Held
  BY <1>1 DEF Held
<1> QED
  BY <1>2, <1>3 DEF ExportInv

\* What a step keeps that touches nothing the invariant is about.
LEMMA ExportUnmoved ==
  ASSUME ExportInv, input' = input, UNCHANGED exportVars
  PROVE  ExportInv'
<1>1. UNCHANGED <<stage, report, exported, cells, records>>
  BY DEF exportVars
<1>2. Written'
  BY <1>1 DEF ExportInv, Written
<1>3. Measured'
  BY <1>1 DEF ExportInv, Measured
<1>4. Held'
  BY <1>1 DEF ExportInv, Held
<1> QED
  BY <1>2, <1>3, <1>4 DEF ExportInv

\* A report that is put together leaves none.
LEMMA AssembleKeeps ==
  ASSUME ExportInv, Assemble
  PROVE  ExportInv'
<1>1. /\ stage = "evaluating" /\ stage' = "assembled"
      /\ exported' = exported /\ records' = records
  BY DEF Assemble
<1>2. exported = <<>> /\ records = <<>>
  BY <1>1 DEF ExportInv, Written, Measured, After
<1>3. Written' /\ Measured'
  BY <1>1, <1>2 DEF Written, Measured, After
<1>4. Held'
  BY <1>1, <1>2 DEF Held
<1> QED
  BY <1>3, <1>4 DEF ExportInv

\* The document is written from the report.
LEMMA ExportReportKeeps ==
  ASSUME ExportInv, ExportReport
  PROVE  ExportInv'
<1>1. stage = "assembled" /\ input' = input /\ report' = report /\ records' = records
  BY DEF ExportReport, evaluation
<1>2. exported = <<>> /\ records = <<>>
  BY <1>1 DEF ExportInv, Written, Measured, After
<1>3. \/ stage' = "withheld" /\ exported' = exported
      \/ /\ stage' = "exported"
         /\ exported' = [i \in DOMAIN report |->
                            ExportResult(input.options, input.suite # <<>>, i, report[i])]
  BY DEF ExportReport
<1>4. Written'
  BY <1>1, <1>2, <1>3 DEF Written, After
<1>5. Measured'
  BY <1>1, <1>2, <1>3 DEF Measured
<1>6. Held'
  BY <1>1, <1>2 DEF Held
<1> QED
  BY <1>4, <1>5, <1>6 DEF ExportInv

\* The clones of a result's numbers are named after it.
LEMMA ClonedAddresses ==
  ASSUME NEW i, NEW x
  PROVE  /\ \A f \in DOMAIN x.facts : <<"record", i, f>> \in DOMAIN Cloned(i, x)
         /\ \A c \in DOMAIN x.counts : <<"record", i, c>> \in DOMAIN Cloned(i, x)
<1>1. DOMAIN Cloned(i, x) =
        {<<"record", i, f>> : f \in DOMAIN x.facts \cup DOMAIN x.counts}
  BY DEF Cloned
<1> QED
  BY <1>1

\* The records are measured from the document.
LEMMA RecordsKeep ==
  ASSUME ExportInv, MeasurementRecordsFromExport
  PROVE  ExportInv'
<1>1. /\ stage = "exported"
      /\ input' = input /\ report' = report /\ exported' = exported
  BY DEF MeasurementRecordsFromExport, evaluation
<1>2. /\ exported = [i \in DOMAIN report |->
                       ExportResult(input.options, input.suite # <<>>, i, report[i])]
      /\ records = <<>>
  BY <1>1 DEF ExportInv, Written, Measured, After
<1>3. CASE Identified(exported)
  <2>1. /\ stage' = "recorded"
        /\ records' = [i \in DOMAIN exported |-> Measurement(i, exported[i])]
    BY <1>3 DEF MeasurementRecordsFromExport
  <2>2. Written'
    BY <1>1, <1>2, <2>1 DEF Written, After
  <2>3. Identified(exported)'
    BY <1>1, <1>3 DEF Identified, Identity
  <2>4. Measured'
    BY <1>1, <2>1, <2>3 DEF Measured
  <2>5. Held'
    <3> DEFINE clones == UNION {DOMAIN Cloned(i, exported[i]) : i \in DOMAIN exported}
    <3>1. DOMAIN cells' = DOMAIN cells \cup clones
      BY <1>3 DEF MeasurementRecordsFromExport
    <3>2. \A i \in DOMAIN exported : DOMAIN Cloned(i, exported[i]) \subseteq DOMAIN cells'
      BY <3>1
    <3> SUFFICES ASSUME NEW i \in DOMAIN exported
                 PROVE  /\ \A f \in DOMAIN records'[i].facts :
                             /\ records'[i].facts[f] = <<"record", i, f>>
                             /\ records'[i].facts[f] \in DOMAIN cells'
                        /\ \A c \in DOMAIN records'[i].counts :
                             /\ records'[i].counts[c] = <<"record", i, c>>
                             /\ records'[i].counts[c] \in DOMAIN cells'
      BY <2>1 DEF Held
    <3>3. exported[i] = ExportResult(input.options, input.suite # <<>>, i, report[i])
      BY <1>2
    <3>4. records'[i] = Measurement(i, exported[i])
      BY <2>1
    <3>5. /\ records'[i].facts = CloneFacts(i, exported[i].facts)
          /\ records'[i].counts = CloneFacts(i, exported[i].counts)
      BY <3>3, <3>4, MeasurementFields
    <3> QED
      BY <3>2, <3>5, ClonedAddresses DEF CloneFacts
  <2> QED
    BY <2>2, <2>4, <2>5 DEF ExportInv
<1>4. CASE ~Identified(exported)
  <2>1. stage' = "unrecorded" /\ records' = records /\ cells' = cells
    BY <1>4 DEF MeasurementRecordsFromExport
  <2>2. Written'
    BY <1>1, <1>2, <2>1 DEF Written, After
  <2>3. (~Identified(exported))'
    BY <1>1, <1>4 DEF Identified, Identity
  <2>4. Measured'
    BY <1>1, <1>2, <2>1, <2>3 DEF Measured
  <2>5. Held'
    BY <1>2, <2>1 DEF Held
  <2> QED
    BY <2>2, <2>4, <2>5 DEF ExportInv
<1> QED
  BY <1>3, <1>4

\* The caller writes a number in place.
LEMMA EditKeeps ==
  ASSUME ExportInv, Edit
  PROVE  ExportInv'
<1>1. UNCHANGED <<input, stage, report, exported, records>>
  BY DEF Edit, evaluation
<1>2. DOMAIN cells' = DOMAIN cells
  BY DEF Edit
<1>3. Written'
  BY <1>1 DEF ExportInv, Written
<1>4. Measured'
  BY <1>1 DEF ExportInv, Measured
<1>5. Held'
  BY <1>1, <1>2 DEF ExportInv, Held
<1> QED
  BY <1>3, <1>4, <1>5 DEF ExportInv

\* Every step keeps the document and the records what they were made of.
LEMMA ExportStep == ExportInv /\ [Next]_vars => ExportInv'
<1> SUFFICES ASSUME ExportInv, [Next]_vars PROVE ExportInv'
  OBVIOUS
<1>1. CASE (Evaluate \/ Write) /\ UNCHANGED exportVars
  BY <1>1, InputStays, ExportUnmoved
<1>2. CASE Assemble
  BY <1>2, AssembleKeeps
<1>3. CASE ExportReport
  BY <1>3, ExportReportKeeps
<1>4. CASE MeasurementRecordsFromExport
  BY <1>4, RecordsKeep
<1>5. CASE Edit
  BY <1>5, EditKeeps
<1>6. CASE UNCHANGED vars
  <2>1. input' = input /\ UNCHANGED exportVars
    BY <1>6 DEF vars, evaluation
  <2> QED
    BY <2>1, ExportUnmoved
<1> QED
  BY <1>1, <1>2, <1>3, <1>4, <1>5, <1>6 DEF Next

\* So they are in every reachable state.
LEMMA ExportInvariant == Spec => []ExportInv
<1> QED
  BY ExportInit, ExportStep, PTL DEF Spec

----------------------------------------------------------------------------
(* The gate.                                                               *)

\* A result stops a gate that reads only the document.
Stops(x) ==
  \/ x.errors # <<>>
  \/ x.verdict = "unevaluated"
  \/ x.verdict = "fail" /\ x.severity = "error"

\* Export changes for no result whether it gates.
LEMMA ResultGates ==
  ASSUME NEW o, NEW targeted, NEW i, NEW r
  PROVE  Stops(ExportResult(o, targeted, i, r)) <=> Gates(r)
<1> DEFINE x == ExportResult(o, targeted, i, r)
<1>1. /\ x.errors = ExportError(r.err) /\ x.verdict = PolicyVerdict(r)
      /\ x.severity = ExportSeverity(r.severity)
  BY DEF ExportResult
<1>2. x.errors # <<>> <=> r.err # "none"
  BY <1>1 DEF ExportError
<1>3. x.severity = "error" <=> r.severity \notin {"warning", "info"}
  BY <1>1 DEF ExportSeverity
<1>4. x.verdict = IF r.err # "none" THEN "unevaluated" ELSE IF r.success THEN "pass" ELSE "fail"
  BY <1>1 DEF PolicyVerdict
<1> HIDE DEF x
<1>5. Stops(x) <=> Gates(r)
  BY <1>2, <1>3, <1>4 DEF Stops, Gates
<1> QED
  BY <1>5 DEF x

\* A document made of the report is gated as the report is.
LEMMA GateFollows == ExportInv => GateSurvivesExport
<1> SUFFICES ASSUME ExportInv PROVE GateSurvivesExport
  OBVIOUS
<1> DEFINE ok == \A i \in DOMAIN report : ~Gates(report[i])
<1>1. ASSUME exported # <<>>
      PROVE  /\ DOMAIN exported = DOMAIN report
             /\ \A i \in DOMAIN report : Stops(exported[i]) <=> Gates(report[i])
  <2>1. exported = [i \in DOMAIN report |->
                      ExportResult(input.options, input.suite # <<>>, i, report[i])]
    BY <1>1 DEF ExportInv, Written
  <2> QED
    BY <2>1, ResultGates
<1>2. exported # <<>> => (ok <=> \A i \in DOMAIN exported : ~Stops(exported[i]))
  BY <1>1
<1>3. ASSUME records # <<>>
      PROVE  /\ DOMAIN records = DOMAIN report
             /\ \A i \in DOMAIN report : Stops(records[i]) <=> Gates(report[i])
  <2>1. stage = "recorded"
    BY <1>3 DEF ExportInv, Measured
  <2>2. exported = [i \in DOMAIN report |->
                      ExportResult(input.options, input.suite # <<>>, i, report[i])]
    BY <2>1 DEF ExportInv, Written, After
  <2>3. records = [i \in DOMAIN exported |-> Measurement(i, exported[i])]
    BY <2>1 DEF ExportInv, Measured
  <2>4. \A i \in DOMAIN report : Stops(records[i]) <=> Stops(exported[i])
    <3> TAKE i \in DOMAIN report
    <3>1. exported[i] = ExportResult(input.options, input.suite # <<>>, i, report[i])
      BY <2>2
    <3>2. records[i] = Measurement(i, exported[i])
      BY <2>2, <2>3
    <3> QED
      BY <3>1, <3>2, MeasurementFields DEF Stops
  <2>5. \A i \in DOMAIN report : Stops(exported[i]) <=> Gates(report[i])
    BY <2>2, ResultGates
  <2> QED
    BY <2>2, <2>3, <2>4, <2>5
<1>4. records # <<>> => (ok <=> \A i \in DOMAIN records : ~Stops(records[i]))
  BY <1>3
<1> QED
  BY <1>2, <1>4 DEF GateSurvivesExport, Stops

\* A gate that reads only the document or the records stops exactly the reports
\* that Report.OK stops, whatever was in them, included or redacted.
THEOREM ReadersGateAlike == Spec => []GateSurvivesExport
<1> QED
  BY ExportInvariant, GateFollows, PTL

----------------------------------------------------------------------------
(* Identities.                                                             *)

\* Records made of a document have an identity each, or there are none.
LEMMA JoinFollows == ExportInv => RecordsJoinUniquely
<1> SUFFICES ASSUME ExportInv PROVE RecordsJoinUniquely
  OBVIOUS
<1>1. ASSUME stage \in After
      PROVE  /\ DOMAIN exported = DOMAIN report
             /\ \A i \in DOMAIN report : /\ exported[i].id = report[i].id
                                         /\ exported[i].segment = report[i].segment
  <2>1. exported = [i \in DOMAIN report |->
                      ExportResult(input.options, input.suite # <<>>, i, report[i])]
    BY <1>1 DEF ExportInv, Written
  <2> QED
    BY <2>1 DEF ExportResult
<1>2. ASSUME stage = "recorded"
      PROVE  /\ DOMAIN records = DOMAIN report
             /\ \A i, j \in DOMAIN records :
                  i # j => \/ records[i].id.name # records[j].id.name
                           \/ records[i].segment # records[j].segment
             /\ \A i \in DOMAIN records : records[i].id.name # ""
  <2>1. Identified(exported)
    BY <1>2 DEF ExportInv, Measured
  <2>2. /\ exported = [i \in DOMAIN report |->
                         ExportResult(input.options, input.suite # <<>>, i, report[i])]
        /\ records = [i \in DOMAIN exported |-> Measurement(i, exported[i])]
    BY <1>2 DEF ExportInv, Written, Measured, After
  <2>3. DOMAIN records = DOMAIN report /\ DOMAIN exported = DOMAIN report
    BY <2>2
  <2>4. \A i \in DOMAIN report : /\ records[i].id = exported[i].id
                                 /\ records[i].segment = exported[i].segment
    BY <2>2, MeasurementFields
  <2> QED
    BY <2>1, <2>3, <2>4 DEF Identified, Identity
<1>3. ASSUME stage = "unrecorded"
      PROVE  \E i, j \in DOMAIN report :
               \/ report[i].id.name = ""
               \/ i # j /\ report[i].id.name = report[j].id.name
                        /\ report[i].segment = report[j].segment
  <2>1. ~Identified(exported)
    BY <1>3 DEF ExportInv, Measured
  <2>2. stage \in After
    BY <1>3 DEF After
  <2>3. PICK i \in DOMAIN exported :
          \/ exported[i].id.name = ""
          \/ \E j \in DOMAIN exported : Identity(exported[i]) = Identity(exported[j]) /\ i # j
    BY <2>1 DEF Identified
  <2> QED
    BY <1>1, <2>2, <2>3 DEF Identity
<1> QED
  BY <1>2, <1>3 DEF RecordsJoinUniquely

\* Records are made of a whole report with unique identities or not at all.
THEOREM RecordsJoin == Spec => []RecordsJoinUniquely
<1> QED
  BY ExportInvariant, JoinFollows, PTL

----------------------------------------------------------------------------
(* Snapshots.                                                              *)

\* The numbers a document points to are the report's or its own, never a record's.
LEMMA DocumentAddresses ==
  ASSUME ExportInv, stage = "recorded", NEW i \in DOMAIN exported,
         NEW a \in Range(exported[i].facts) \cup Range(exported[i].counts)
  PROVE  a[1] # "record"
<1> DEFINE r == report[i]
<1>1. exported[i] = ExportResult(input.options, input.suite # <<>>, i, r)
  BY DEF ExportInv, Written, After
<1>2. /\ exported[i].facts = ExportFacts(i, r.facts)
      /\ exported[i].counts = [c \in DOMAIN ExportCounts(r) |-> <<"export", i, c>>]
  BY <1>1 DEF ExportResult
<1>3. \A f \in DOMAIN exported[i].facts : exported[i].facts[f][1] \in {"report", "export"}
  BY <1>2 DEF ExportFacts
<1>4. \A c \in DOMAIN exported[i].counts : exported[i].counts[c][1] = "export"
  BY <1>2
<1> QED
  BY <1>3, <1>4 DEF Range

\* An edit of the document reaches no number of a record.
LEMMA EditSpares ==
  ASSUME ExportInv, Edit
  PROVE  RecordsUnmoved
<1>1. records' = records
  BY DEF Edit
<1> SUFFICES ASSUME NEW i \in DOMAIN records
             PROVE  /\ \A f \in DOMAIN records[i].facts :
                         cells'[records[i].facts[f]] = cells[records[i].facts[f]]
                    /\ \A c \in DOMAIN records[i].counts :
                         cells'[records[i].counts[c]] = cells[records[i].counts[c]]
  BY <1>1 DEF RecordsUnmoved
<1>2. stage = "recorded"
  BY DEF ExportInv, Measured
<1>3. PICK k \in DOMAIN exported :
        \E a \in Range(exported[k].facts) \cup Range(exported[k].counts) :
          cells' = [cells EXCEPT ![a] = Edited]
  BY DEF Edit
<1>4. PICK a \in Range(exported[k].facts) \cup Range(exported[k].counts) :
        cells' = [cells EXCEPT ![a] = Edited]
  BY <1>3
<1>5. a[1] # "record"
  BY <1>2, DocumentAddresses
<1>6. ASSUME NEW b \in DOMAIN cells, b[1] = "record"
      PROVE  cells'[b] = cells[b]
  BY <1>4, <1>5, <1>6
<1>7. \A f \in DOMAIN records[i].facts :
        records[i].facts[f] \in DOMAIN cells /\ records[i].facts[f][1] = "record"
  BY DEF ExportInv, Held
<1>8. \A c \in DOMAIN records[i].counts :
        records[i].counts[c] \in DOMAIN cells /\ records[i].counts[c][1] = "record"
  BY DEF ExportInv, Held
<1> QED
  BY <1>6, <1>7, <1>8

\* No step at all moves a record once it is made.
LEMMA StepSnapshot == ExportInv /\ [Next]_vars => [RecordsUnmoved]_vars
<1> SUFFICES ASSUME ExportInv, Next PROVE RecordsUnmoved
  BY DEF RecordsUnmoved
<1>1. CASE (Evaluate \/ Write) /\ UNCHANGED exportVars
  BY <1>1 DEF exportVars, RecordsUnmoved
<1>2. CASE Assemble
  BY <1>2 DEF Assemble, RecordsUnmoved
<1>3. CASE ExportReport \/ MeasurementRecordsFromExport
  <2>1. stage # "recorded"
    BY <1>3 DEF ExportReport, MeasurementRecordsFromExport
  <2>2. records = <<>>
    BY <2>1 DEF ExportInv, Measured
  <2> QED
    BY <2>2 DEF RecordsUnmoved
<1>4. CASE Edit
  BY <1>4, EditSpares
<1> QED
  BY <1>1, <1>2, <1>3, <1>4 DEF Next

\* Once made, a record and its numbers stay as they are, whatever its maker's
\* caller writes through the document.
THEOREM RecordsStay == Spec => RecordsAreSnapshots
<1> QED
  BY ExportInvariant, StepSnapshot, PTL DEF Spec, RecordsAreSnapshots
----------------------------------------------------------------------------
(* Finite sets, and sums over them.                                        *)

\* Among subsets of a finite set one has none of the others within it.  What holds
\* of every set whose proper subsets it holds of, holds of all: otherwise, take the
\* least of those it does not hold of.
LEMMA LeastSet ==
  ASSUME NEW D, IsFiniteSet(D), NEW K \in SUBSET (SUBSET D), K # {}
  PROVE  \E s \in K : \A t \in SUBSET s : t # s => t \notin K
<1>1. IsWellFoundedOn(StrictSubsetOrdering(D), FiniteSubsetsOf(D))
  BY FS_StrictSubsetOrderingWellFounded, Zenon
<1>2. K \subseteq FiniteSubsetsOf(D)
  BY FS_Subset, Zenon DEF FiniteSubsetsOf
<1>3. PICK s \in K : \A t \in K : <<t, s>> \notin StrictSubsetOrdering(D)
  BY <1>1, <1>2, WFMin, Zenon
<1>4. ASSUME NEW t \in SUBSET s, t # s, t \in K
      PROVE  FALSE
  <2>1. s \in SUBSET D /\ t \in SUBSET D
    OBVIOUS
  <2>2. <<t, s>> \in StrictSubsetOrdering(D)
    BY <1>4, <2>1 DEF StrictSubsetOrdering
  <2> QED
    BY <1>3, <1>4, <2>2
<1> QED
  BY <1>4

\* One element for each unit of f at the elements of s.
Tokens(f, s) == UNION {{<<x, k>> : k \in 1..f[x]} : x \in s}

\* There are as many of x as f[x] says.
LEMMA TokensOfOne ==
  ASSUME NEW x, NEW n \in Int
  PROVE  /\ IsFiniteSet({<<x, k>> : k \in 1..n})
         /\ Cardinality({<<x, k>> : k \in 1..n}) = IF n > 0 THEN n ELSE 0
<1> DEFINE T == {<<x, k>> : k \in 1..n}
           b == [k \in 1..n |-> <<x, k>>]
<1>1. IsFiniteSet(1..n) /\ Cardinality(1..n) = IF n > 0 THEN n ELSE 0
  <2>1. /\ IsFiniteSet(1..n) /\ Cardinality(1..n) = IF 1 > n THEN 0 ELSE n - 1 + 1
    BY FS_Interval
  <2> QED
    BY <2>1
<1>2. b \in Bijection(1..n, T)
  <2>1. b \in [1..n -> T]
    OBVIOUS
  <2>2. \A i, j \in 1..n : b[i] = b[j] => i = j
    OBVIOUS
  <2>3. \A t \in T : \E i \in 1..n : b[i] = t
    OBVIOUS
  <2> QED
    BY <2>1, <2>2, <2>3, Zenon DEF Bijection, Injection, IsInjective, Surjection
<1>3. ExistsBijection(1..n, T)
  BY <1>2, Zenon DEF ExistsBijection
<1>4. IsFiniteSet(T) /\ Cardinality(T) = Cardinality(1..n)
  BY <1>1, <1>3, FS_Bijection, Zenon
<1> QED
  BY <1>1, <1>4

\* The tokens of a set are those of one of its elements and those of the others.
LEMMA TokensSplit ==
  ASSUME NEW f, NEW s, NEW x \in s
  PROVE  /\ Tokens(f, s) = Tokens(f, s \ {x}) \cup {<<x, k>> : k \in 1..f[x]}
         /\ Tokens(f, s \ {x}) \cap {<<x, k>> : k \in 1..f[x]} = {}
  BY DEF Tokens

\* There are finitely many, and as many as their numbers say.
LEMMA TokensCounted ==
  ASSUME NEW s, IsFiniteSet(s), NEW f, \A x \in s : f[x] \in Int
  PROVE  /\ IsFiniteSet(Tokens(f, s)) /\ Cardinality(Tokens(f, s)) \in Nat
         /\ \A x \in s : Cardinality(Tokens(f, s))
                           = (IF f[x] > 0 THEN f[x] ELSE 0) + Cardinality(Tokens(f, s \ {x}))
<1> DEFINE K == {t \in SUBSET s : ~IsFiniteSet(Tokens(f, t))}
<1>1. K = {}
  <2> SUFFICES ASSUME K # {} PROVE FALSE
    OBVIOUS
  <2>0. K \in SUBSET (SUBSET s)
    OBVIOUS
  <2> HIDE DEF K
  <2>1. PICK t \in K : \A u \in SUBSET t : u # t => u \notin K
    BY <2>0, LeastSet, Zenon
  <2> USE DEF K
  <2>2. CASE t = {}
    <3>1. Tokens(f, t) = {}
      BY <2>2 DEF Tokens
    <3> QED
      BY <3>1, FS_EmptySet
  <2>3. CASE t # {}
    <3>1. PICK x \in t : TRUE
      BY <2>3
    <3>2. t \ {x} \in SUBSET t /\ t \ {x} # t /\ t \ {x} \in SUBSET s /\ f[x] \in Int
      BY <3>1
    <3>3. IsFiniteSet(Tokens(f, t \ {x}))
      BY <2>1, <3>2
    <3>4. IsFiniteSet({<<x, k>> : k \in 1..f[x]})
      BY <3>2, TokensOfOne
    <3>5. IsFiniteSet(Tokens(f, t \ {x}) \cup {<<x, k>> : k \in 1..f[x]})
      BY <3>3, <3>4, FS_Union, Zenon
    <3>6. Tokens(f, t) = Tokens(f, t \ {x}) \cup {<<x, k>> : k \in 1..f[x]}
      BY <3>1 DEF Tokens
    <3>7. IsFiniteSet(Tokens(f, t))
      BY <3>5, <3>6, Zenon
    <3> QED
      BY <3>7
  <2> QED
    BY <2>2, <2>3
<1>2. \A t \in SUBSET s : IsFiniteSet(Tokens(f, t)) /\ Cardinality(Tokens(f, t)) \in Nat
  <2> TAKE t \in SUBSET s
  <2>1. IsFiniteSet(Tokens(f, t))
    BY <1>1
  <2> QED
    BY <2>1, FS_CardinalityType
<1>3. ASSUME NEW x \in s
      PROVE  Cardinality(Tokens(f, s)) = (IF f[x] > 0 THEN f[x] ELSE 0) + Cardinality(Tokens(f, s \ {x}))
  <2> DEFINE T == {<<x, k>> : k \in 1..f[x]}
             R == Tokens(f, s \ {x})
  <2>0. f[x] \in Int
    OBVIOUS
  <2>1. IsFiniteSet(T) /\ Cardinality(T) = IF f[x] > 0 THEN f[x] ELSE 0
    BY <2>0, TokensOfOne
  <2>2. Tokens(f, s) = R \cup T /\ R \cap T = {}
    BY TokensSplit
  <2>3. IsFiniteSet(R) /\ Cardinality(R) \in Nat
    BY <1>2
  <2> HIDE DEF T, R
  <2>4. Cardinality(R \cup T) = Cardinality(R) + Cardinality(T) - Cardinality(R \cap T)
    BY <2>1, <2>3, FS_Union, Zenon
  <2>5. Cardinality({}) = 0
    BY FS_EmptySet
  <2>6. Cardinality(R \cup T) = Cardinality(R) + Cardinality(T) - 0
    BY <2>2, <2>4, <2>5, Zenon
  <2>7. Cardinality(T) \in Nat /\ Cardinality(R \cup T) = Cardinality(T) + Cardinality(R)
    BY <2>0, <2>1, <2>3, <2>6
  <2> QED
    BY <2>1, <2>2, <2>7, Zenon DEF R
<1> QED
  BY <1>2, <1>3

\* The sum of numbers over a finite set is the units there are of the positive ones
\* without those there are of the negative.
LEMMA SumCounts ==
  ASSUME NEW S, IsFiniteSet(S), NEW f, \A x \in S : f[x] \in Int
  PROVE  SumFunctionOnSet(f, S)
           = Cardinality(Tokens(f, S)) - Cardinality(Tokens([x \in S |-> -f[x]], S))
<1> DEFINE neg == [x \in S |-> -f[x]]
           net(s) == Cardinality(Tokens(f, s)) - Cardinality(Tokens(neg, s))
           F(g) == [s \in SUBSET S |->
                      IF s = {} THEN 0 ELSE LET x == CHOOSE y \in s : TRUE IN f[x] + g[s \ {x}]]
           sum == CHOOSE g : g = F(g)
           h == [s \in SUBSET S |-> net(s)]
<1>1. SumFunctionOnSet(f, S) = sum[S]
  BY Zenon DEF SumFunctionOnSet, FoldFunctionOnSet, MapThenFoldSet
<1>2. /\ net({}) = 0
      /\ \A s \in SUBSET S : net(s) \in Int
      /\ \A s \in SUBSET S : \A x \in s : net(s) = f[x] + net(s \ {x})
  <2>1. Tokens(f, {}) = {} /\ Tokens(neg, {}) = {}
    BY DEF Tokens
  <2>2. Cardinality({}) = 0
    BY FS_EmptySet
  <2>3. ASSUME NEW s \in SUBSET S
        PROVE  net(s) \in Int /\ \A x \in s : net(s) = f[x] + net(s \ {x})
    <3>1. IsFiniteSet(s)
      BY FS_Subset
    <3>2. \A x \in s : f[x] \in Int /\ neg[x] \in Int /\ neg[x] = -f[x]
      OBVIOUS
    <3> HIDE DEF neg
    <3>3. /\ Cardinality(Tokens(f, s)) \in Nat
          /\ \A x \in s : Cardinality(Tokens(f, s))
                            = (IF f[x] > 0 THEN f[x] ELSE 0) + Cardinality(Tokens(f, s \ {x}))
      BY <3>1, <3>2, TokensCounted
    <3>4. /\ Cardinality(Tokens(neg, s)) \in Nat
          /\ \A x \in s : Cardinality(Tokens(neg, s))
                            = (IF neg[x] > 0 THEN neg[x] ELSE 0) + Cardinality(Tokens(neg, s \ {x}))
      BY <3>1, <3>2, TokensCounted
    <3>5. ASSUME NEW x \in s PROVE net(s) = f[x] + net(s \ {x})
      <4>1. IsFiniteSet(s \ {x}) /\ \A y \in s \ {x} : f[y] \in Int /\ neg[y] \in Int
        BY <3>1, <3>2, FS_RemoveElement
      <4>2. Cardinality(Tokens(f, s \ {x})) \in Nat /\ Cardinality(Tokens(neg, s \ {x})) \in Nat
        BY <4>1, TokensCounted
      <4> QED
        BY <3>2, <3>3, <3>4, <4>2
    <3> QED
      BY <3>3, <3>4, <3>5
  <2>4. net({}) = 0
    <3>1. net({}) = 0 - 0
      BY <2>1, <2>2, Zenon
    <3> QED
      BY <3>1
  <2> HIDE DEF net
  <2> QED
    BY <2>3, <2>4
<1> HIDE DEF net
<1>3. h = F(h)
  <2>1. ASSUME NEW s \in SUBSET S
        PROVE  h[s] = IF s = {} THEN 0 ELSE LET x == CHOOSE y \in s : TRUE IN f[x] + h[s \ {x}]
    <3>1. CASE s = {}
      BY <1>2, <3>1
    <3>2. CASE s # {}
      <4> DEFINE x == CHOOSE y \in s : TRUE
      <4>1. x \in s
        BY <3>2
      <4> HIDE DEF x
      <4>2. s \ {x} \in SUBSET S
        OBVIOUS
      <4>3. h[s] = f[x] + h[s \ {x}]
        BY <1>2, <4>1, <4>2
      <4> QED
        BY <3>2, <4>3 DEF x
    <3> QED
      BY <3>1, <3>2
  <2> HIDE DEF h
  <2>2. DOMAIN h = SUBSET S /\ h = [s \in SUBSET S |-> h[s]]
    BY DEF h
  <2> QED
    BY <2>1, <2>2, Zenon
<1>4. sum = F(sum)
  <2> HIDE DEF F, h
  <2> QED
    BY <1>3, Zenon
<1>5. \A s \in SUBSET S :
        sum[s] = IF s = {} THEN 0 ELSE LET x == CHOOSE y \in s : TRUE IN f[x] + sum[s \ {x}]
  <2> HIDE DEF sum
  <2> QED
    BY <1>4, Zenon
<1> HIDE DEF sum, h, F
<1>6. {s \in SUBSET S : sum[s] # net(s)} = {}
  <2> DEFINE K == {s \in SUBSET S : sum[s] # net(s)}
  <2> SUFFICES ASSUME K # {} PROVE FALSE
    OBVIOUS
  <2>0. K \in SUBSET (SUBSET S)
    OBVIOUS
  <2> HIDE DEF K
  <2>1. PICK s \in K : \A t \in SUBSET s : t # s => t \notin K
    BY <2>0, LeastSet, Zenon
  <2> USE DEF K
  <2>2. CASE s = {}
    BY <1>2, <1>5, <2>2
  <2>3. CASE s # {}
    <3> DEFINE x == CHOOSE y \in s : TRUE
    <3>1. x \in s
      BY <2>3
    <3>2. sum[s] = f[x] + sum[s \ {x}]
      BY <1>5, <2>3
    <3> HIDE DEF x
    <3>3. s \ {x} \in SUBSET s /\ s \ {x} # s /\ s \ {x} \in SUBSET S /\ s \in SUBSET S
      BY <3>1
    <3>4. sum[s \ {x}] = net(s \ {x})
      BY <2>1, <3>3
    <3>5. net(s) = f[x] + net(s \ {x})
      BY <1>2, <3>1, <3>3
    <3> QED
      BY <3>2, <3>4, <3>5
  <2> QED
    BY <2>2, <2>3
<1>7. sum[S] = net(S)
  BY <1>6
<1> QED
  BY <1>1, <1>7 DEF net

\* A sum over no element is 0, and any element can be taken out of a sum.
LEMMA SumRule ==
  ASSUME NEW S, IsFiniteSet(S), NEW f, \A x \in S : f[x] \in Int
  PROVE  /\ SumFunctionOnSet(f, {}) = 0
         /\ SumFunctionOnSet(f, S) \in Int
         /\ \A x \in S : SumFunctionOnSet(f, S) = f[x] + SumFunctionOnSet(f, S \ {x})
<1> DEFINE neg(s) == [x \in s |-> -f[x]]
<1>1. ASSUME NEW s \in SUBSET S
      PROVE  /\ SumFunctionOnSet(f, s) = Cardinality(Tokens(f, s)) - Cardinality(Tokens(neg(S), s))
             /\ Cardinality(Tokens(f, s)) \in Nat /\ Cardinality(Tokens(neg(S), s)) \in Nat
             /\ \A x \in s :
                  /\ Cardinality(Tokens(f, s))
                       = (IF f[x] > 0 THEN f[x] ELSE 0) + Cardinality(Tokens(f, s \ {x}))
                  /\ Cardinality(Tokens(neg(S), s))
                       = (IF -f[x] > 0 THEN -f[x] ELSE 0) + Cardinality(Tokens(neg(S), s \ {x}))
  <2>1. IsFiniteSet(s) /\ \A x \in s : f[x] \in Int /\ neg(S)[x] \in Int /\ neg(S)[x] = -f[x]
    BY FS_Subset
  <2>2. Tokens(neg(s), s) = Tokens(neg(S), s)
    <3>1. \A x \in s : neg(s)[x] = neg(S)[x]
      OBVIOUS
    <3> HIDE DEF neg
    <3> QED
      BY <3>1 DEF Tokens
  <2>3. SumFunctionOnSet(f, s) = Cardinality(Tokens(f, s)) - Cardinality(Tokens(neg(s), s))
    BY <2>1, SumCounts
  <2> HIDE DEF neg
  <2>4. /\ Cardinality(Tokens(f, s)) \in Nat
        /\ \A x \in s : Cardinality(Tokens(f, s))
                          = (IF f[x] > 0 THEN f[x] ELSE 0) + Cardinality(Tokens(f, s \ {x}))
    BY <2>1, TokensCounted
  <2>5. /\ Cardinality(Tokens(neg(S), s)) \in Nat
        /\ \A x \in s : Cardinality(Tokens(neg(S), s))
                          = (IF neg(S)[x] > 0 THEN neg(S)[x] ELSE 0) + Cardinality(Tokens(neg(S), s \ {x}))
    BY <2>1, TokensCounted
  <2> QED
    BY <2>1, <2>2, <2>3, <2>4, <2>5
<1> HIDE DEF neg
<1>2. SumFunctionOnSet(f, {}) = 0
  <2>1. Tokens(f, {}) = {} /\ Tokens(neg(S), {}) = {}
    BY DEF Tokens
  <2>2. SumFunctionOnSet(f, {}) = Cardinality(Tokens(f, {})) - Cardinality(Tokens(neg(S), {}))
    <3>1. {} \in SUBSET S
      OBVIOUS
    <3> QED
      BY <1>1, <3>1
  <2> QED
    BY <2>1, <2>2, FS_EmptySet
<1>3. S \in SUBSET S
  OBVIOUS
<1>4. SumFunctionOnSet(f, S) \in Int
  BY <1>1, <1>3
<1>5. ASSUME NEW x \in S
      PROVE  SumFunctionOnSet(f, S) = f[x] + SumFunctionOnSet(f, S \ {x})
  <2>1. S \ {x} \in SUBSET S
    OBVIOUS
  <2>2. /\ SumFunctionOnSet(f, S) = Cardinality(Tokens(f, S)) - Cardinality(Tokens(neg(S), S))
        /\ Cardinality(Tokens(f, S)) \in Nat /\ Cardinality(Tokens(neg(S), S)) \in Nat
        /\ Cardinality(Tokens(f, S)) = (IF f[x] > 0 THEN f[x] ELSE 0) + Cardinality(Tokens(f, S \ {x}))
        /\ Cardinality(Tokens(neg(S), S))
             = (IF -f[x] > 0 THEN -f[x] ELSE 0) + Cardinality(Tokens(neg(S), S \ {x}))
    BY <1>1, <1>3
  <2>3. /\ SumFunctionOnSet(f, S \ {x})
             = Cardinality(Tokens(f, S \ {x})) - Cardinality(Tokens(neg(S), S \ {x}))
        /\ Cardinality(Tokens(f, S \ {x})) \in Nat /\ Cardinality(Tokens(neg(S), S \ {x})) \in Nat
    BY <1>1, <2>1
  <2> QED
    BY <2>2, <2>3
<1> QED
  BY <1>2, <1>4, <1>5

\* A sum of natural numbers is the number of their units.
LEMMA SumOfNaturals ==
  ASSUME NEW S, IsFiniteSet(S), NEW f, \A x \in S : f[x] \in Nat
  PROVE  /\ SumFunctionOnSet(f, S) = Cardinality(Tokens(f, S))
         /\ SumFunctionOnSet(f, S) \in Nat
<1> DEFINE neg == [x \in S |-> -f[x]]
<1>1. SumFunctionOnSet(f, S) = Cardinality(Tokens(f, S)) - Cardinality(Tokens(neg, S))
  BY SumCounts
<1>2. Tokens(neg, S) = {}
  <2>1. \A x \in S : 1..neg[x] = {}
    OBVIOUS
  <2> HIDE DEF neg
  <2> QED
    BY <2>1 DEF Tokens
<1>3. Cardinality(Tokens(neg, S)) = 0
  BY <1>2, FS_EmptySet
<1>4. Cardinality(Tokens(f, S)) \in Nat
  BY TokensCounted
<1> QED
  BY <1>1, <1>3, <1>4

\* A finite set of numbers that is not empty has a greatest, which Max finds.
LEMMA MaxRule ==
  ASSUME NEW S \in SUBSET Int, IsFiniteSet(S), S # {}
  PROVE  Max(S) \in S /\ \A y \in S : Max(S) >= y
<1> DEFINE K == {s \in SUBSET S : s # {} /\ ~\E x \in s : \A y \in s : x >= y}
<1>1. K = {}
  <2> SUFFICES ASSUME K # {} PROVE FALSE
    OBVIOUS
  <2>0. K \in SUBSET (SUBSET S)
    OBVIOUS
  <2> HIDE DEF K
  <2>1. PICK s \in K : \A t \in SUBSET s : t # s => t \notin K
    BY <2>0, LeastSet, Zenon
  <2> USE DEF K
  <2>2. PICK x \in s : x \in Int
    OBVIOUS
  <2>3. CASE s \ {x} = {}
    BY <2>2, <2>3
  <2>4. CASE s \ {x} # {}
    <3>1. PICK m \in s \ {x} : \A y \in s \ {x} : m >= y
      BY <2>1, <2>4
    <3> QED
      BY <2>2, <3>1
  <2> QED
    BY <2>3, <2>4
<1>2. \E x \in S : \A y \in S : x >= y
  BY <1>1
<1> QED
  BY <1>2, Zenon DEF Max
----------------------------------------------------------------------------
(* What a result is counted by.                                            *)

\* A result with its fields, of which lengths and counts are numbers.
Sized(r) == DOMAIN r = DOMAIN Blank /\ \A size \in Sizes : r[size] \in Nat

IsList(s) == s \in Seq(Range(s))

\* The tables, the place in the suite and the results so far.
WellCounted ==
  /\ input \in Cases /\ rows \in [Numbers \cup {Null} -> Nat] /\ at \in Nat \ {0}
  /\ IsList(results) /\ \A i \in DOMAIN results : Sized(results[i])

\* The fields of a result.
LEMMA FieldsOfBlank ==
  DOMAIN Blank =
    {"id", "segment", "kind", "severity", "success", "tolerated", "err", "available", "total",
     "failed", "shape", "facts", "required", "missing", "unexpected", "claim", "reported",
     "samples", "keys", "query", "args"}
<1> QED
  BY DEF Blank

\* A list with one more element is a list.
LEMMA ListGrows ==
  ASSUME NEW s, IsList(s), NEW r
  PROVE  /\ IsList(Append(s, r)) /\ DOMAIN s = 1..Len(s)
         /\ DOMAIN Append(s, r) = 1..(Len(s) + 1) /\ Len(s) \in Nat
         /\ \A i \in 1..Len(s) : Append(s, r)[i] = s[i]
         /\ Append(s, r)[Len(s) + 1] = r
<1> DEFINE S == Range(s) \cup {r}
<1>1. s \in Seq(S)
  <2>1. Range(s) \subseteq S
    OBVIOUS
  <2>2. s \in Seq(Range(s))
    BY DEF IsList
  <2> HIDE DEF S
  <2> QED
    BY <2>1, <2>2
<1>2. r \in S
  OBVIOUS
<1> HIDE DEF S
<1>3. /\ Append(s, r) \in Seq(S) /\ Len(Append(s, r)) = Len(s) + 1
      /\ \A i \in 1..Len(s) : Append(s, r)[i] = s[i]
      /\ Append(s, r)[Len(s) + 1] = r
  BY <1>1, <1>2, AppendProperties
<1>4. Len(s) \in Nat /\ DOMAIN s = 1..Len(s)
  BY <1>1, LenProperties
<1>5. DOMAIN Append(s, r) = 1..(Len(s) + 1)
  BY <1>3, LenProperties
<1>6. Append(s, r) \in Seq(Range(Append(s, r)))
  <2>1. Append(s, r) \in [1..(Len(s) + 1) -> Range(Append(s, r))]
    BY <1>3, <1>4, <1>5, LenProperties DEF Range
  <2>2. \A n \in Nat : \A T : \A f \in [1..n -> T] : f \in Seq(T)
    BY SeqDef
  <2>3. Len(s) + 1 \in Nat
    BY <1>4
  <2> QED
    BY <2>1, <2>2, <2>3
<1> QED
  BY <1>3, <1>4, <1>5, <1>6 DEF IsList

\* Recording a result of sizes keeps the results sized.
LEMMA AppendSized ==
  ASSUME WellCounted, NEW err, NEW r, Sized(r), AppendResult(err, r),
         input' = input, rows' = rows
  PROVE  WellCounted'
<1> DEFINE x == [r EXCEPT !.err = err, !.success = r.success /\ err = "none"]
<1>1. Sized(x)
  <2>1. DOMAIN x = DOMAIN r
    OBVIOUS
  <2>2. \A size \in Sizes : size \in DOMAIN r /\ x[size] = r[size]
    BY FieldsOfBlank DEF Sizes, Sized
  <2> HIDE DEF x
  <2> QED
    BY <2>1, <2>2 DEF Sized
<1>2. at' \in Nat \ {0}
  BY DEF AppendResult, WellCounted
<1>3. CASE err = "observer"
  <2>1. results' = <<>>
    BY <1>3 DEF AppendResult
  <2>2. IsList(<<>>)
    BY DEF IsList
  <2> QED
    BY <1>2, <2>1, <2>2 DEF WellCounted
<1>4. CASE err # "observer"
  <2>1. results' = Append(results, x)
    BY <1>4 DEF AppendResult
  <2> HIDE DEF x
  <2>2. IsList(results) /\ \A i \in DOMAIN results : Sized(results[i])
    BY DEF WellCounted
  <2>3. /\ IsList(Append(results, x)) /\ DOMAIN results = 1..Len(results)
        /\ DOMAIN Append(results, x) = 1..(Len(results) + 1) /\ Len(results) \in Nat
        /\ \A i \in 1..Len(results) : Append(results, x)[i] = results[i]
        /\ Append(results, x)[Len(results) + 1] = x
    BY <2>2, ListGrows
  <2>4. \A i \in 1..(Len(results) + 1) : Sized(Append(results, x)[i])
    <3> TAKE i \in 1..(Len(results) + 1)
    <3>1. CASE i = Len(results) + 1
      BY <1>1, <2>3, <3>1
    <3>2. CASE i # Len(results) + 1
      BY <2>2, <2>3, <3>2
    <3> QED
      BY <3>1, <3>2
  <2> QED
    BY <1>2, <2>1, <2>3, <2>4 DEF WellCounted
<1> QED
  BY <1>3, <1>4

\* The results that the evaluations start from.
LEMMA BaseSized ==
  ASSUME NEW e
  PROVE  Sized(Base(e)) /\ \A success, facts : Sized(TableLevelResult(e, success, facts))
<1>1. Sized(Blank)
  BY DEF Sized, Blank, Sizes
<1>2. Sized(Base(e))
  BY <1>1, FieldsOfBlank DEF Sized, Base, Sizes
<1>3. ASSUME NEW success, NEW facts PROVE Sized(TableLevelResult(e, success, facts))
  BY <1>2, FieldsOfBlank DEF Sized, TableLevelResult, Sizes
<1> QED
  BY <1>2, <1>3

\* Every expectation under evaluation is one of the suite.
LEMMA CurrentTyped ==
  ASSUME WellCounted, NEW kinds, Due(kinds)
  PROVE  Current.value \in Numbers \cup {Null}
<1>1. input.suite \in Seq(Expectation)
  BY CasesAssumption DEF WellCounted
<1>2. at \in 1..Len(input.suite)
  BY <1>1, LenProperties DEF WellCounted, Due
<1>3. input.suite[at] \in Expectation
  BY <1>1, <1>2, LenProperties
<1> QED
  BY <1>3 DEF Current, Expectation

\* A writer keeps the tables countable.
LEMMA WriteSized ==
  ASSUME WellCounted, Write
  PROVE  WellCounted'
<1>1. input' = input /\ at' = at /\ results' = results
  BY DEF Write
<1>2. rows' \in [Numbers \cup {Null} -> Nat]
  <2>1. CASE rows' = rows
    BY <2>1 DEF WellCounted
  <2>2. ASSUME NEW v \in DOMAIN rows, NEW n \in {-1, 1}, rows[v] + n \in 0..MaxRows,
               rows' = [rows EXCEPT ![v] = @ + n]
        PROVE  rows' \in [Numbers \cup {Null} -> Nat]
    <3>1. rows[v] + n \in Nat
      BY <2>2, BoundsAssumption
    <3> QED
      BY <2>2, <3>1 DEF WellCounted
  <2> QED
    BY <2>1, <2>2 DEF Write
<1> QED
  BY <1>1, <1>2 DEF WellCounted

----------------------------------------------------------------------------
(* Facts.                                                                  *)

\* Facts are a function from their names.
Facts(p) == p = [f \in DOMAIN p |-> p[f]]

\* One fact has its name.
LEMMA OneFact ==
  ASSUME NEW name, NEW x
  PROVE  DOMAIN Fact(name, x) = {name} /\ Fact(name, x)[name] = x /\ Facts(Fact(name, x))
  BY DEF Fact, Facts

\* Facts put together have the names of both, and the first of a name counts.
LEMMA FactJoined ==
  ASSUME NEW name, NEW x, NEW q
  PROVE  /\ DOMAIN (Fact(name, x) ++ q) = {name} \cup DOMAIN q
         /\ (Fact(name, x) ++ q)[name] = x
         /\ \A f \in DOMAIN q : f # name => (Fact(name, x) ++ q)[f] = q[f]
         /\ Facts(Fact(name, x) ++ q)
  BY DEF Fact, Facts, ++

\* The facts of a result speak for its verdict.
Bears(e, r) ==
  /\ Facts(r.facts)
  /\ e.kind # "Custom" => (r.success <=> Vacuous(e.kind, r.facts) \/ Supports(e, r, r.facts))
  /\ e.kind \in {"Custom", "Reconcile"} =>
       /\ r.shape \in {"custom", "reconcile"} /\ "failed" \notin DOMAIN r.facts
       /\ (r.success <=> r.failed = 0)

\* The expectations that are supported by facts alone.
Plain == Kinds \ (Contracts \cup {"Custom", "Reconcile"})

\* What a table-level result is made of.
LEMMA TableLevelFields ==
  ASSUME NEW e, NEW s, NEW facts
  PROVE  LET r == TableLevelResult(e, s, facts)
         IN /\ r.success = s /\ r.facts = facts /\ r.missing = <<>> /\ r.unexpected = <<>>
            /\ r.failed = 0 /\ r.shape = "none" /\ r.query = Base(e).query
<1> DEFINE r == TableLevelResult(e, s, facts)
<1>1. r = [Base(e) EXCEPT !.success = s, !.facts = facts]
  BY DEF TableLevelResult
<1>2. /\ DOMAIN Base(e) = DOMAIN Blank /\ Base(e).missing = <<>> /\ Base(e).unexpected = <<>>
      /\ Base(e).failed = 0 /\ Base(e).shape = "none"
  BY FieldsOfBlank DEF Base, Blank
<1> HIDE DEF r
<1> QED
  BY <1>1, <1>2, FieldsOfBlank DEF r

\* Support by facts alone is the same whatever else there is.
LEMMA PlainSupport ==
  ASSUME NEW e, e.kind \in Plain, NEW x, NEW facts
  PROVE  Supports(e, x, facts) <=> Supports(e, Blank, facts)
  BY DEF Supports, Plain, Kinds, Contracts, Fractions, Aggregates

\* A verdict that its facts speak for is borne by its result.
LEMMA PlainBears ==
  ASSUME NEW e, e.kind \in Plain, NEW s \in BOOLEAN, NEW facts,
         Facts(facts),
         s <=> Vacuous(e.kind, facts) \/ Supports(e, Blank, facts)
  PROVE  Bears(e, TableLevelResult(e, s, facts))
<1> DEFINE r == TableLevelResult(e, s, facts)
<1>1. r.success = s /\ r.facts = facts
  BY TableLevelFields
<1>2. Supports(e, r, facts) <=> Supports(e, Blank, facts)
  BY PlainSupport
<1>3. e.kind \notin {"Custom", "Reconcile"}
  BY DEF Plain
<1> HIDE DEF r
<1>4. r.success <=> Vacuous(e.kind, r.facts) \/ Supports(e, r, r.facts)
  BY <1>1, <1>2
<1>5. Bears(e, r)
  BY <1>1, <1>3, <1>4 DEF Bears
<1> QED
  BY <1>5 DEF r

\* A count is checked as the configured counts are meant.
LEMMA CountAllowed ==
  ASSUME NEW e \in Expectation, NEW n \in Nat
  PROVE  /\ CountCheck(e, n) \in BOOLEAN
         /\ CountCheck(e, n) <=> AllowsCount(e, n)
<1>1. /\ e.op \in {"==", "between", ">", ">=", "<", "<="}
      /\ e.lo.n \in Int /\ e.hi.n \in Int
  BY DEF Expectation, Figure
<1>2. CASE e.op = "=="
  BY <1>1, <1>2 DEF CountCheck, AllowsCount
<1>3. CASE e.op = "between"
  BY <1>1, <1>3 DEF CountCheck, AllowsCount
<1>4. CASE e.op = ">"
  BY <1>1, <1>4 DEF CountCheck, AllowsCount
<1>5. CASE e.op = ">="
  BY <1>1, <1>5 DEF CountCheck, AllowsCount
<1>6. CASE e.op = "<"
  BY <1>1, <1>6 DEF CountCheck, AllowsCount
<1>7. CASE e.op = "<="
  BY <1>1, <1>7 DEF CountCheck, AllowsCount
<1> QED
  BY <1>1, <1>2, <1>3, <1>4, <1>5, <1>6, <1>7

\* A count of rows or of values.
LEMMA CountedBears ==
  ASSUME NEW e \in Expectation, e.kind \in {"RowCount", "DistinctCount"}, NEW n \in Nat
  PROVE  Bears(e, Counted(e, n))
<1> DEFINE q == Bounds(e, "ConfiguredCount", "ConfiguredCountLower", "ConfiguredCountUpper")
           facts == Fact("ObservedCount", Whole(n)) ++ q
           s == CountCheck(e, n)
<1>1. facts["ObservedCount"].n = n /\ Facts(facts)
  <2> HIDE DEF q
  <2>1. facts["ObservedCount"].n = n
    BY DEF Fact, ++, Whole, Num
  <2>2. Facts(facts)
    BY FactJoined, Zenon
  <2> QED
    BY <2>1, <2>2
<1> HIDE DEF q, facts
<1>2. ~Vacuous(e.kind, facts)
  BY DEF Vacuous, Fractions
<1>3. Supports(e, Blank, facts) <=> AllowsCount(e, n)
  BY <1>1 DEF Supports
<1>4. s \in BOOLEAN /\ (s <=> AllowsCount(e, n))
  BY CountAllowed
<1>5. e.kind \in Plain
  BY DEF Plain, Kinds, Contracts, Aggregates, Fractions
<1> HIDE DEF s
<1>6. Bears(e, TableLevelResult(e, s, facts))
  BY <1>1, <1>2, <1>3, <1>4, <1>5, PlainBears
<1> QED
  BY <1>6 DEF Counted, facts, q, s

\* An aggregate between two bounds: an average,
LEMMA AverageBears ==
  ASSUME NEW e, e.kind = "Average", NEW x
  PROVE  LET configured == Fact("ConfiguredFloatLower", e.lo) ++ Fact("ConfiguredFloatUpper", e.hi)
         IN /\ Bears(e, TableLevelResult(e, TRUE, configured))
            /\ Bears(e, TableLevelResult(e, Within(e, x), Fact("ObservedFloat", x) ++ configured))
<1> DEFINE configured == Fact("ConfiguredFloatLower", e.lo) ++ Fact("ConfiguredFloatUpper", e.hi)
           facts == Fact("ObservedFloat", x) ++ configured
           s == Within(e, x)
<1>1. /\ DOMAIN configured = {"ConfiguredFloatLower", "ConfiguredFloatUpper"}
      /\ configured["ConfiguredFloatLower"] = e.lo /\ configured["ConfiguredFloatUpper"] = e.hi
      /\ Facts(configured)
  BY DEF Fact, ++, Facts
<1> HIDE DEF configured
<1>2. /\ "ObservedFloat" \in DOMAIN facts /\ facts["ObservedFloat"] = x
      /\ facts["ConfiguredFloatLower"] = e.lo /\ facts["ConfiguredFloatUpper"] = e.hi
      /\ Facts(facts)
  BY <1>1 DEF Fact, ++, Facts
<1> HIDE DEF facts
<1>3. Vacuous(e.kind, configured) /\ ~Vacuous(e.kind, facts)
  BY <1>1, <1>2 DEF Vacuous, Fractions
<1>4. s \in BOOLEAN /\ (s <=> Supports(e, Blank, facts))
  BY <1>2 DEF Supports, Within, AtMost
<1>5. e.kind \in Plain
  BY DEF Plain, Kinds, Contracts, Aggregates, Fractions
<1> HIDE DEF s
<1>6. /\ Bears(e, TableLevelResult(e, TRUE, configured))
      /\ Bears(e, TableLevelResult(e, s, facts))
  BY <1>1, <1>2, <1>3, <1>4, <1>5, PlainBears
<1> QED
  BY <1>6 DEF configured, facts, s

\* a least or a greatest value,
LEMMA BoundBears ==
  ASSUME NEW e, e.kind = "Min" \/ e.kind = "Max", NEW x
  PROVE  LET configured == Fact("ConfiguredFloatBound", e.lo)
         IN /\ Bears(e, TableLevelResult(e, TRUE, configured))
            /\ Bears(e, TableLevelResult(e, CompareAggregate(e, x), Fact("ObservedFloat", x) ++ configured))
<1> DEFINE configured == Fact("ConfiguredFloatBound", e.lo)
           facts == Fact("ObservedFloat", x) ++ configured
           s == CompareAggregate(e, x)
<1>1. /\ DOMAIN configured = {"ConfiguredFloatBound"} /\ configured["ConfiguredFloatBound"] = e.lo
      /\ Facts(configured)
  BY DEF Fact, Facts
<1> HIDE DEF configured
<1>2. /\ "ObservedFloat" \in DOMAIN facts /\ facts["ObservedFloat"] = x
      /\ facts["ConfiguredFloatBound"] = e.lo
      /\ Facts(facts)
  BY <1>1 DEF Fact, ++, Facts
<1> HIDE DEF facts
<1>3. Vacuous(e.kind, configured) /\ ~Vacuous(e.kind, facts)
  BY <1>1, <1>2 DEF Vacuous, Fractions
<1>4. s \in BOOLEAN /\ (s <=> Supports(e, Blank, facts))
  BY <1>2 DEF Supports, CompareAggregate, AtMost
<1>5. e.kind \in Plain
  BY DEF Plain, Kinds, Contracts, Aggregates, Fractions
<1> HIDE DEF s
<1>6. /\ Bears(e, TableLevelResult(e, TRUE, configured))
      /\ Bears(e, TableLevelResult(e, s, facts))
  BY <1>1, <1>2, <1>3, <1>4, <1>5, PlainBears
<1> QED
  BY <1>6 DEF configured, facts, s

\* a sum or a deviation,
LEMMA MomentBears ==
  ASSUME NEW e, NEW x, NEW lower, NEW upper, NEW observed, NEW lo, NEW hi,
         \/ /\ e.kind = "SumInt" /\ lo = e.lo /\ hi = e.hi
            /\ lower = "Sum.ConfiguredLower" /\ upper = "Sum.ConfiguredUpper"
            /\ observed = "Sum.Observed"
         \/ /\ e.kind = "SumFloat" /\ lo = e.lo /\ hi = e.hi
            /\ lower = "Sum.ConfiguredFloatLower" /\ upper = "Sum.ConfiguredFloatUpper"
            /\ observed = "Sum.ObservedFloat"
         \/ /\ e.kind = "StdDev" /\ lo = Square(e.lo) /\ hi = Square(e.hi)
            /\ lower = "StdDev.ConfiguredLower" /\ upper = "StdDev.ConfiguredUpper"
            /\ observed = "StdDev.Observed"
  PROVE  LET configured == Fact(lower, e.lo) ++ Fact(upper, e.hi)
         IN /\ Bears(e, TableLevelResult(e, TRUE, configured))
            /\ Bears(e, TableLevelResult(e, AtMost(lo, x) /\ AtMost(x, hi), Fact(observed, x) ++ configured))
<1> DEFINE configured == Fact(lower, e.lo) ++ Fact(upper, e.hi)
           facts == Fact(observed, x) ++ configured
           s == AtMost(lo, x) /\ AtMost(x, hi)
<1>0. lower # upper /\ observed # lower /\ observed # upper
  OBVIOUS
<1>1. /\ DOMAIN configured = {lower, upper}
      /\ configured[lower] = e.lo /\ configured[upper] = e.hi
      /\ Facts(configured)
  BY <1>0 DEF Fact, ++, Facts
<1> HIDE DEF configured
<1>2. /\ observed \in DOMAIN facts /\ facts[observed] = x
      /\ facts[lower] = e.lo /\ facts[upper] = e.hi
      /\ Facts(facts)
  BY <1>0, <1>1 DEF Fact, ++, Facts
<1> HIDE DEF facts
<1>3. Vacuous(e.kind, configured) /\ ~Vacuous(e.kind, facts)
  BY <1>0, <1>1, <1>2 DEF Vacuous, Fractions
<1>4. s \in BOOLEAN /\ (s <=> Supports(e, Blank, facts))
  BY <1>2 DEF Supports, AtMost
<1>5. e.kind \in Plain
  BY DEF Plain, Kinds, Contracts, Aggregates, Fractions
<1> HIDE DEF s
<1>6. /\ Bears(e, TableLevelResult(e, TRUE, configured))
      /\ Bears(e, TableLevelResult(e, s, facts))
  BY <1>1, <1>2, <1>3, <1>4, <1>5, PlainBears
<1> QED
  BY <1>6 DEF configured, facts, s
\* a time: a table without one is not fresh,
LEMMA FreshBears ==
  ASSUME NEW e \in Expectation, e.kind = "FreshSince", e.lo.d = 1, NEW newest \in Int
  PROVE  LET configured == Fact("ConfiguredTimeCutoff", e.lo)
         IN /\ Bears(e, TableLevelResult(e, FALSE, Fact("ObservedTimePresent", Flag(FALSE)) ++ configured))
            /\ Bears(e, TableLevelResult(e, ~(newest < e.lo.n),
                          Fact("ObservedTime", Whole(newest)) ++ Fact("ObservedTimePresent", Flag(TRUE))
                          ++ configured))
<1> DEFINE configured == Fact("ConfiguredTimeCutoff", e.lo)
           absent == Fact("ObservedTimePresent", Flag(FALSE)) ++ configured
           present == Fact("ObservedTime", Whole(newest)) ++ Fact("ObservedTimePresent", Flag(TRUE))
                      ++ configured
           s == ~(newest < e.lo.n)
<1>1. absent["ObservedTimePresent"] # Whole(1) /\ Facts(absent)
  <2>1. absent["ObservedTimePresent"] = Flag(FALSE)
    BY DEF Fact, ++
  <2>2. Flag(FALSE) # Whole(1)
    BY DEF Flag, Whole, Num
  <2>3. Facts(absent)
    BY DEF Fact, ++, Facts
  <2> QED
    BY <2>1, <2>2, <2>3
<1>2. /\ present["ObservedTimePresent"] = Flag(TRUE) /\ present["ObservedTime"] = Whole(newest)
      /\ present["ConfiguredTimeCutoff"] = e.lo /\ Facts(present)
  BY DEF Fact, ++, Facts
<1>3. Flag(TRUE) = Whole(1) /\ Whole(newest).n = newest /\ Whole(newest).d = 1
  BY DEF Flag, Whole, Num
<1>4. e.lo.n \in Int /\ e.lo # NaN /\ Whole(newest) # NaN
  BY <1>3 DEF Expectation, Figure, NaN, Num
<1>5. AtMost(e.lo, Whole(newest)) <=> s
  <2>1. AtMost(e.lo, Whole(newest)) <=> e.lo.n * 1 <= newest * e.lo.d
    BY <1>3, <1>4 DEF AtMost
  <2>2. e.lo.n * 1 = e.lo.n /\ newest * e.lo.d = newest
    BY <1>4
  <2> QED
    BY <1>4, <2>1, <2>2
<1> HIDE DEF absent, present, s
<1>6. ~Vacuous(e.kind, absent) /\ ~Vacuous(e.kind, present)
  BY DEF Vacuous, Fractions
<1>7. ~Supports(e, Blank, absent)
  BY <1>1 DEF Supports
<1>8. Supports(e, Blank, present) <=> s
  BY <1>2, <1>3, <1>5 DEF Supports
<1>9. e.kind \in Plain /\ s \in BOOLEAN
  BY DEF Plain, Kinds, Contracts, Aggregates, Fractions, s
<1>10. /\ Bears(e, TableLevelResult(e, FALSE, absent))
       /\ Bears(e, TableLevelResult(e, s, present))
  BY <1>1, <1>2, <1>6, <1>7, <1>8, <1>9, PlainBears
<1> QED
  BY <1>10 DEF absent, present, configured, s

\* A share is compared as the counts it is made of are.
LEMMA ShareAllowed ==
  ASSUME NEW e \in Expectation, Accepted(e), e.kind \in Fractions, NEW n, NEW all,
         n # 0 \/ all # 0
  PROVE  /\ CompareBoundedFraction(e, Num(n, all)) \in BOOLEAN
         /\ CompareBoundedFraction(e, Num(n, all)) <=> Allows(e, n, all)
<1> DEFINE x == Num(n, all)
<1>1. x.n = n /\ x.d = all /\ x # NaN
  BY DEF Num, NaN
<1>2. e.op \in {">=", "<=", "between"} /\ e.lo # NaN /\ e.hi # NaN
  BY DEF Accepted, NaN, Num
<1> HIDE DEF x
<1>3. /\ AtMost(e.lo, x) <=> e.lo.n * all <= n * e.lo.d
      /\ AtMost(x, e.lo) <=> n * e.lo.d <= e.lo.n * all
      /\ AtMost(x, e.hi) <=> n * e.hi.d <= e.hi.n * all
  BY <1>1, <1>2 DEF AtMost
<1>4. CASE e.op = ">="
  BY <1>3, <1>4 DEF CompareBoundedFraction, Allows, AtMost, x
<1>5. CASE e.op = "<="
  BY <1>3, <1>5 DEF CompareBoundedFraction, Allows, AtMost, x
<1>6. CASE e.op = "between"
  BY <1>3, <1>6 DEF CompareBoundedFraction, Allows, AtMost, x
<1> QED
  BY <1>2, <1>4, <1>5, <1>6

\* a rate or a share of the rows there were by the total,
LEMMA FractionBears ==
  ASSUME NEW e \in Expectation, Accepted(e), e.kind \in Fractions \ {"DominantShare"},
         cache.total \in Nat, NEW count, NEW rate \in {"Rate", "Share"}
  PROVE  Bears(e, Fraction(e, NumeratorFact(e), count, rate))
<1> DEFINE q == ConfiguredFractionBounds(e)
           name == NumeratorFact(e)
           x == Num(count, cache.total)
           counts == Fact(name, Whole(count)) ++ Fact("TotalCount", Whole(cache.total)) ++ q
           facts == Fact(rate, x) ++ counts
           s == CompareBoundedFraction(e, x)
<1>1. /\ name \in {"NonNullCount", "DuplicateCount", "ValueCount"}
      /\ e.kind = "Completeness" => name = "NonNullCount"
      /\ e.kind = "DuplicateRate" => name = "DuplicateCount"
      /\ e.kind = "Frequency" => name = "ValueCount"
  BY DEF NumeratorFact, Fractions
<1> HIDE DEF name, q, x
<1>2. /\ counts[name] = Whole(count) /\ counts["TotalCount"] = Whole(cache.total)
      /\ Facts(counts)
  BY <1>1 DEF Fact, ++, Facts
<1>3. {name, "TotalCount"} \subseteq DOMAIN counts
  BY DEF Fact, ++
<1> HIDE DEF counts
<1>4. /\ facts[name] = Whole(count) /\ facts["TotalCount"] = Whole(cache.total)
      /\ Facts(facts)
  BY <1>1, <1>2, <1>3 DEF Fact, ++, Facts
<1> HIDE DEF facts
<1>5. /\ Whole(count).n = count /\ Whole(cache.total).n = cache.total
      /\ Whole(cache.total) = Whole(0) <=> cache.total = 0
  BY DEF Whole, Num
<1>6. e.kind \in Plain /\ e.kind \in {"Completeness", "DuplicateRate", "Frequency"}
  BY DEF Plain, Kinds, Contracts, Aggregates, Fractions
<1>7. CASE cache.total > 0
  <2>1. s \in BOOLEAN /\ (s <=> Allows(e, count, cache.total))
    BY <1>7, ShareAllowed DEF x
  <2>2. ~Vacuous(e.kind, facts)
    <3>1. facts["TotalCount"] # Whole(0)
      BY <1>4, <1>5, <1>7
    <3> QED
      BY <1>6, <3>1 DEF Vacuous, Fractions
  <2>3. Supports(e, Blank, facts) <=> Allows(e, count, cache.total)
    BY <1>1, <1>4, <1>5, <1>6 DEF Supports
  <2> HIDE DEF s
  <2>4. Bears(e, TableLevelResult(e, s, facts))
    BY <1>4, <1>6, <2>1, <2>2, <2>3, PlainBears
  <2> QED
    BY <1>7, <2>4 DEF Fraction, s, facts, counts, x, q, name
<1>8. CASE ~(cache.total > 0)
  <2>1. Vacuous(e.kind, counts)
    <3>1. counts["TotalCount"] = Whole(0)
      BY <1>2, <1>5, <1>8
    <3> QED
      BY <1>6, <3>1 DEF Vacuous, Fractions
  <2>2. Bears(e, TableLevelResult(e, TRUE, counts))
    BY <1>2, <1>6, <2>1, PlainBears
  <2> QED
    BY <1>8, <2>2 DEF Fraction, counts, q, name
<1> QED
  BY <1>7, <1>8

\* the share of the most frequent value, of which a table without rows has none,
LEMMA DominantBears ==
  ASSUME NEW e \in Expectation, Accepted(e), e.kind = "DominantShare",
         NEW count, NEW ties
  PROVE  LET configured == ConfiguredFractionBounds(e)
             share == Num(count, cache.total)
         IN /\ Bears(e, TableLevelResult(e, TRUE, configured))
            /\ count # 0 =>
                 Bears(e, TableLevelResult(e, CompareBoundedFraction(e, share),
                            Fact("DominantCount", Whole(count)) ++ Fact("TotalCount", Whole(cache.total))
                            ++ Fact("TieCount", Whole(ties)) ++ Fact("Share", share) ++ configured))
<1> DEFINE configured == ConfiguredFractionBounds(e)
           share == Num(count, cache.total)
           facts == Fact("DominantCount", Whole(count)) ++ Fact("TotalCount", Whole(cache.total))
                    ++ Fact("TieCount", Whole(ties)) ++ Fact("Share", share) ++ configured
           s == CompareBoundedFraction(e, share)
<1>1. "DominantCount" \notin DOMAIN configured /\ Facts(configured)
  BY DEF ConfiguredFractionBounds, Bounds, Fact, ++, Facts
<1> HIDE DEF configured, share
<1>2. /\ "DominantCount" \in DOMAIN facts
      /\ facts["DominantCount"] = Whole(count) /\ facts["TotalCount"] = Whole(cache.total)
      /\ Facts(facts)
  BY DEF Fact, ++, Facts
<1> HIDE DEF facts
<1>3. Whole(count).n = count /\ Whole(cache.total).n = cache.total
  BY DEF Whole, Num
<1>4. Vacuous(e.kind, configured) /\ ~Vacuous(e.kind, facts)
  BY <1>1, <1>2 DEF Vacuous, Fractions
<1>5. Supports(e, Blank, facts) <=> Allows(e, count, cache.total)
  BY <1>2, <1>3 DEF Supports
<1>6. e.kind \in Plain /\ e.kind \in Fractions
  BY DEF Plain, Kinds, Contracts, Aggregates, Fractions
<1>7. Bears(e, TableLevelResult(e, TRUE, configured))
  BY <1>1, <1>4, <1>6, PlainBears
<1>8. ASSUME count # 0 PROVE Bears(e, TableLevelResult(e, s, facts))
  <2>1. s \in BOOLEAN /\ (s <=> Allows(e, count, cache.total))
    BY <1>6, <1>8, ShareAllowed DEF share
  <2> HIDE DEF s
  <2> QED
    BY <1>2, <1>4, <1>5, <1>6, <2>1, PlainBears
<1> QED
  BY <1>7, <1>8 DEF configured, share, facts, s
\* What the results that are not table-level start from.
LEMMA BaseFields ==
  ASSUME NEW e
  PROVE  /\ DOMAIN Base(e) = DOMAIN Blank
         /\ Base(e).success = FALSE /\ Base(e).failed = 0 /\ Base(e).shape = "none"
         /\ Base(e).missing = <<>> /\ Base(e).unexpected = <<>>
         /\ Base(e).facts = <<>> /\ Facts(Base(e).facts)
<1>1. /\ DOMAIN Base(e) = DOMAIN Blank
      /\ Base(e).success = FALSE /\ Base(e).failed = 0 /\ Base(e).shape = "none"
      /\ Base(e).missing = <<>> /\ Base(e).unexpected = <<>> /\ Base(e).facts = <<>>
  BY FieldsOfBlank DEF Base, Blank
<1>2. Facts(<<>>)
  BY DEF Facts
<1> QED
  BY <1>1, <1>2

\* two counts to reconcile,
LEMMA ReconcileBears ==
  ASSUME NEW e, e.kind = "Reconcile"
  PROVE  LET r == [TableLevelResult(e, left = other,
                     Fact("ObservedRightCount", Whole(other)) ++ Fact("ObservedLeftCount", Whole(left)))
                     EXCEPT !.failed = IF left = other THEN 0 ELSE 1, !.shape = "reconcile"]
         IN Bears(e, r) /\ Sized(r)
<1> DEFINE facts == Fact("ObservedRightCount", Whole(other)) ++ Fact("ObservedLeftCount", Whole(left))
           t == TableLevelResult(e, left = other, facts)
           r == [t EXCEPT !.failed = IF left = other THEN 0 ELSE 1, !.shape = "reconcile"]
<1>1. /\ DOMAIN facts = {"ObservedRightCount", "ObservedLeftCount"}
      /\ facts["ObservedRightCount"] = Whole(other) /\ facts["ObservedLeftCount"] = Whole(left)
      /\ Facts(facts)
  BY DEF Fact, ++, Facts
<1>2. Whole(left) = Whole(other) <=> left = other
  BY DEF Whole, Num
<1> HIDE DEF facts
<1>3. Sized(t) /\ t.success = (left = other) /\ t.facts = facts
  BY TableLevelFields, BaseSized
<1> HIDE DEF t
<1>4. /\ DOMAIN r = DOMAIN Blank /\ r.success = (left = other) /\ r.facts = facts
      /\ r.failed = (IF left = other THEN 0 ELSE 1) /\ r.shape = "reconcile"
      /\ \A size \in Sizes \ {"failed"} : r[size] = t[size]
  BY <1>3, FieldsOfBlank DEF Sized, Sizes
<1> HIDE DEF r
<1>5. ~Vacuous(e.kind, facts) /\ (Supports(e, r, facts) <=> left = other)
  BY <1>1, <1>2 DEF Vacuous, Supports, Fractions
<1>6. Bears(e, r)
  <2>1. r.success <=> left = other
    BY <1>4, Zenon
  <2>4. r.failed = 0 <=> left = other
    BY <1>4
  <2>2. Facts(r.facts) /\ "failed" \notin DOMAIN r.facts
    BY <1>1, <1>4
  <2>3. (Supports(e, r, r.facts) <=> left = other) /\ ~Vacuous(e.kind, r.facts)
    BY <1>4, <1>5
  <2> QED
    BY <1>4, <2>1, <2>2, <2>3, <2>4 DEF Bears
<1>7. Sized(r)
  BY <1>3, <1>4 DEF Sized, Sizes
<1> QED
  BY <1>6, <1>7 DEF r, t, facts

\* a trusted count,
LEMMA CustomBears ==
  ASSUME NEW e, e.kind = "Custom", NEW n \in Nat
  PROVE  LET shaped == [Base(e) EXCEPT !.shape = "custom"]
             r == [shaped EXCEPT !.success = n = 0, !.failed = n]
         IN Sized(shaped) /\ Bears(e, r) /\ Sized(r)
<1> DEFINE shaped == [Base(e) EXCEPT !.shape = "custom"]
           r == [shaped EXCEPT !.success = n = 0, !.failed = n]
<1>1. Sized(Base(e))
  BY BaseSized
<1>2. /\ DOMAIN shaped = DOMAIN Blank /\ shaped.shape = "custom" /\ shaped.facts = <<>>
      /\ \A size \in Sizes : shaped[size] = Base(e)[size]
  BY BaseFields, FieldsOfBlank DEF Sizes
<1>3. Sized(shaped)
  BY <1>1, <1>2 DEF Sized
<1> HIDE DEF shaped
<1>4. /\ DOMAIN r = DOMAIN Blank /\ r.shape = "custom" /\ r.facts = <<>>
      /\ r.success = (n = 0) /\ r.failed = n
      /\ \A size \in Sizes \ {"failed"} : r[size] = shaped[size]
  BY <1>2, FieldsOfBlank DEF Sizes
<1> HIDE DEF r
<1>5. Facts(r.facts)
  BY <1>4, BaseFields
<1>6. Bears(e, r)
  <2>1. (r.success <=> n = 0) /\ (r.failed = 0 <=> n = 0)
    BY <1>4
  <2>2. "failed" \notin DOMAIN r.facts
    BY <1>4
  <2> QED
    BY <1>4, <1>5, <2>1, <2>2 DEF Bears
<1>7. Sized(r)
  BY <1>3, <1>4 DEF Sized, Sizes
<1> QED
  BY <1>3, <1>6, <1>7 DEF shaped, r

\* the columns that are required,
LEMMA StructuralBears ==
  ASSUME NEW e, e.kind = "RequiredColumns" \/ e.kind = "ExactColumns", NEW missing, NEW unexpected
  PROVE  LET base == [Base(e) EXCEPT !.required = e.columns]
             r == [base EXCEPT !.success = missing = <<>> /\ unexpected = <<>>,
                               !.missing = missing, !.unexpected = unexpected]
         IN Sized(base) /\ Bears(e, r) /\ Sized(r)
<1> DEFINE base == [Base(e) EXCEPT !.required = e.columns]
           r == [base EXCEPT !.success = missing = <<>> /\ unexpected = <<>>,
                             !.missing = missing, !.unexpected = unexpected]
<1>1. Sized(Base(e))
  BY BaseSized
<1>2. /\ DOMAIN base = DOMAIN Blank /\ base.facts = <<>>
      /\ \A size \in Sizes : base[size] = Base(e)[size]
  BY BaseFields, FieldsOfBlank DEF Sizes
<1>3. Sized(base)
  BY <1>1, <1>2 DEF Sized
<1> HIDE DEF base
<1>4. /\ DOMAIN r = DOMAIN Blank /\ r.facts = <<>>
      /\ r.success = (missing = <<>> /\ unexpected = <<>>)
      /\ r.missing = missing /\ r.unexpected = unexpected
      /\ \A size \in Sizes : r[size] = base[size]
  BY <1>2, FieldsOfBlank DEF Sizes
<1> HIDE DEF r
<1>5. Facts(r.facts)
  BY <1>4, BaseFields
<1>6. /\ ~Vacuous(e.kind, r.facts)
      /\ Supports(e, r, r.facts) <=> missing = <<>> /\ unexpected = <<>>
  BY <1>4 DEF Vacuous, Supports, Fractions
<1>7. Bears(e, r)
  BY <1>4, <1>5, <1>6 DEF Bears
<1>8. Sized(r)
  BY <1>3, <1>4 DEF Sized
<1> QED
  BY <1>3, <1>7, <1>8 DEF base, r

\* and what a column is claimed to be.
LEMMA ContractBears ==
  ASSUME NEW e, e.kind = "Nullability" \/ e.kind = "ColumnType", NEW name, NEW reported
  PROVE  LET base == [Base(e) EXCEPT !.claim = e.claim]
             absent == [base EXCEPT !.missing = <<name>>]
             met == [base EXCEPT !.reported = reported, !.success = reported = e.claim]
         IN /\ Sized(base)
            /\ Sized(absent) /\ Bears(e, absent)
            /\ Sized(met) /\ Bears(e, met)
<1> DEFINE base == [Base(e) EXCEPT !.claim = e.claim]
           absent == [base EXCEPT !.missing = <<name>>]
           met == [base EXCEPT !.reported = reported, !.success = reported = e.claim]
<1>1. Sized(Base(e))
  BY BaseSized
<1>2. /\ DOMAIN base = DOMAIN Blank /\ base.facts = <<>> /\ base.success = FALSE
      /\ base.missing = <<>> /\ base.claim = e.claim
      /\ \A size \in Sizes : base[size] = Base(e)[size]
  BY BaseFields, FieldsOfBlank DEF Sizes
<1>3. Sized(base)
  BY <1>1, <1>2 DEF Sized
<1> HIDE DEF base
<1>4. /\ DOMAIN absent = DOMAIN Blank /\ absent.facts = <<>> /\ absent.success = FALSE
      /\ absent.missing = <<name>>
      /\ \A size \in Sizes : absent[size] = base[size]
  BY <1>2, FieldsOfBlank DEF Sizes
<1>5. /\ DOMAIN met = DOMAIN Blank /\ met.facts = <<>> /\ met.success = (reported = e.claim)
      /\ met.missing = <<>> /\ met.claim = e.claim /\ met.reported = reported
      /\ \A size \in Sizes : met[size] = base[size]
  BY <1>2, FieldsOfBlank DEF Sizes
<1>6. <<name>> # <<>>
  OBVIOUS
<1> HIDE DEF absent, met
<1>7. Facts(absent.facts) /\ Facts(met.facts)
  BY <1>4, <1>5, BaseFields
<1>8. /\ ~Vacuous(e.kind, absent.facts) /\ ~Vacuous(e.kind, met.facts)
      /\ ~Supports(e, absent, absent.facts)
      /\ Supports(e, met, met.facts) <=> reported = e.claim
  BY <1>4, <1>5, <1>6 DEF Vacuous, Supports, Fractions
<1>9. Bears(e, absent) /\ Bears(e, met)
  BY <1>4, <1>5, <1>7, <1>8 DEF Bears
<1>10. Sized(absent) /\ Sized(met)
  BY <1>3, <1>4, <1>5 DEF Sized
<1> QED
  BY <1>3, <1>9, <1>10 DEF base, absent, met
----------------------------------------------------------------------------
(* The evaluation.                                                         *)

\* Every result without an error is borne out by its facts.
Borne == \A i \in DOMAIN results : results[i].err = "none" => Bears(input.suite[i], results[i])

EvaluationInv == WellCounted /\ EvaluationTypeOK /\ Borne

\* The expectation under evaluation is one that preflight accepts.
LEMMA CurrentAccepted ==
  ASSUME EvaluationInv, NEW kinds, Due(kinds)
  PROVE  /\ Current \in Expectation /\ Accepted(Current) /\ Current.kind \in kinds
         /\ at \in 1..Len(input.suite) /\ Len(input.suite) \in Nat
         /\ refused = FALSE /\ Len(results) = at - 1
<1>1. /\ input.suite \in Seq(Expectation)
      /\ \A i \in DOMAIN input.suite : Accepted(input.suite[i])
  BY CasesAssumption DEF EvaluationInv, WellCounted
<1>2. Len(input.suite) \in Nat /\ DOMAIN input.suite = 1..Len(input.suite)
  BY <1>1, LenProperties
<1>3. at \in 1..Len(input.suite)
  BY <1>2 DEF EvaluationInv, WellCounted, Due
<1>4. input.suite[at] \in Expectation /\ Accepted(input.suite[at])
  BY <1>1, <1>2, <1>3
<1>5. refused = FALSE /\ Len(results) = at - 1
  BY DEF EvaluationInv, EvaluationTypeOK, Due
<1> QED
  BY <1>2, <1>3, <1>4, <1>5 DEF Current, Due

\* A statement that fails is counted as long as failures are left.
LEMMA SpentBounded ==
  ASSUME EvaluationInv, NEW observed, NEW err \in Outcomes(observed)
  PROVE  Spent(err) \in 0..MaxFaults /\ err \in {"none", "observer"} \cup DriverErrors
<1>1. faults \in 0..MaxFaults /\ MaxFaults \in Nat
  BY BoundsAssumption DEF EvaluationInv, EvaluationTypeOK
<1>2. CASE err = "none"
  <2>1. faults + 0 \in 0..MaxFaults
    BY <1>1
  <2>2. Spent(err) = faults + 0
    BY <1>2 DEF Spent
  <2> QED
    BY <1>2, <2>1, <2>2
<1>3. CASE err # "none"
  <2>1. faults # MaxFaults /\ err \in DriverErrors \cup {"observer"}
    BY <1>3 DEF Outcomes
  <2>2. faults + 1 \in 0..MaxFaults
    BY <1>1, <2>1
  <2>3. Spent(err) = faults + 1
    BY <1>3 DEF Spent
  <2> QED
    BY <2>1, <2>2, <2>3
<1> QED
  BY <1>2, <1>3

\* What is recorded of a result without an error bears its verdict as the result does.
LEMMA RecordedBears ==
  ASSUME NEW e, NEW r, DOMAIN r = DOMAIN Blank, Bears(e, r)
  PROVE  Bears(e, [r EXCEPT !.err = "none", !.success = r.success /\ "none" = "none"])
<1> DEFINE x == [r EXCEPT !.err = "none", !.success = r.success /\ "none" = "none"]
<1>1. /\ x.facts = r.facts /\ x.shape = r.shape /\ x.failed = r.failed
      /\ x.missing = r.missing /\ x.unexpected = r.unexpected
      /\ x.claim = r.claim /\ x.reported = r.reported
  BY FieldsOfBlank
<1>2. x.success <=> r.success
  BY FieldsOfBlank
<1> HIDE DEF x
<1>3. \A facts : Supports(e, x, facts) <=> Supports(e, r, facts)
  BY <1>1 DEF Supports
<1>4. Bears(e, x)
  BY <1>1, <1>2, <1>3 DEF Bears
<1> QED
  BY <1>4 DEF x

\* Recording a result that is borne out keeps all of them so.
LEMMA RecordKeeps ==
  ASSUME EvaluationInv, NEW kinds, Due(kinds), NEW err, NEW r, Sized(r),
         err = "none" => Bears(Current, r),
         AppendResult(err, r), faults' \in 0..MaxFaults,
         UNCHANGED <<input, rows, other, writes, cache>>
  PROVE  EvaluationInv'
<1> DEFINE x == [r EXCEPT !.err = err, !.success = r.success /\ err = "none"]
<1>1. /\ at \in 1..Len(input.suite) /\ Len(input.suite) \in Nat /\ Len(results) = at - 1
  BY CurrentAccepted
<1>2. WellCounted'
  BY AppendSized DEF EvaluationInv
<1>3. at' = at + 1 /\ at' \in 1..(Len(input.suite) + 1) /\ left' = None /\ taken' = 0
  BY <1>1 DEF AppendResult
<1>4. /\ rows' \in [Numbers \cup {Null} -> Nat] /\ other' \in Nat /\ writes' \in 0..MaxWrites
      /\ cache' \in [loaded: BOOLEAN, total: Nat, err: {"none", "observer"} \cup DriverErrors, taken: 0..MaxWrites]
  BY DEF EvaluationInv, EvaluationTypeOK
<1>5. taken' \in 0..MaxWrites /\ refused' \in BOOLEAN
  BY <1>3, BoundsAssumption DEF AppendResult
<1>6. \A i \in DOMAIN results' : DOMAIN results'[i] = DOMAIN Blank
  BY <1>2 DEF WellCounted, Sized
<1>7. CASE err = "observer"
  <2>1. refused' = TRUE /\ results' = <<>>
    BY <1>7 DEF AppendResult
  <2>2. Len(results') = 0 /\ DOMAIN results' = {}
    BY <2>1
  <2>3. EvaluationTypeOK'
    BY <1>3, <1>4, <1>5, <1>6, <2>1, <2>2 DEF EvaluationTypeOK
  <2>4. Borne'
    BY <2>2 DEF Borne
  <2> QED
    BY <1>2, <2>3, <2>4 DEF EvaluationInv
<1>8. CASE err # "observer"
  <2>1. refused' = FALSE /\ results' = Append(results, x)
    BY <1>8 DEF AppendResult
  <2> HIDE DEF x
  <2>2. IsList(results)
    BY DEF EvaluationInv, WellCounted
  <2>3. /\ DOMAIN results = 1..Len(results) /\ Len(results) \in Nat
        /\ DOMAIN results' = 1..(Len(results) + 1)
        /\ \A i \in 1..Len(results) : results'[i] = results[i]
        /\ results'[Len(results) + 1] = x
    BY <2>1, <2>2, ListGrows
  <2>4. Len(results') = at
    <3>1. IsList(results')
      BY <1>2 DEF WellCounted
    <3>2. results' \in Seq(Range(results'))
      BY <3>1 DEF IsList
    <3>3. DOMAIN results' = 1..Len(results') /\ Len(results') \in Nat
      BY <3>2, LenProperties
    <3> QED
      BY <1>1, <2>3, <3>3
  <2>5. EvaluationTypeOK'
    <3>1. Len(results') = at' - 1
      BY <1>1, <1>3, <2>4
    <3> QED
      BY <1>3, <1>4, <1>5, <1>6, <2>1, <3>1 DEF EvaluationTypeOK
  <2>6. ASSUME NEW i \in DOMAIN results', results'[i].err = "none"
        PROVE  Bears(input.suite[i], results'[i])
    <3>1. CASE i = Len(results) + 1
      <4>1. i = at /\ results'[i] = x
        BY <1>1, <2>3, <3>1
      <4>2. DOMAIN r = DOMAIN Blank
        BY DEF Sized
      <4>3. x.err = err
        BY <4>2, FieldsOfBlank DEF x
      <4>4. err = "none"
        BY <2>6, <4>1, <4>3
      <4>5. x = [r EXCEPT !.err = "none", !.success = r.success /\ "none" = "none"]
        BY <4>4 DEF x
      <4>6. Bears(Current, x)
        BY <4>2, <4>4, <4>5, RecordedBears
      <4> QED
        BY <4>1, <4>6 DEF Current
    <3>2. CASE i # Len(results) + 1
      <4>1. i \in DOMAIN results /\ results'[i] = results[i]
        BY <2>3, <3>2
      <4> QED
        BY <2>6, <4>1 DEF EvaluationInv, Borne
    <3> QED
      BY <3>1, <3>2
  <2>7. Borne'
    BY <2>6 DEF Borne
  <2> QED
    BY <1>2, <2>5, <2>7 DEF EvaluationInv
<1> QED
  BY <1>7, <1>8

\* The same with the statement's outcome.
LEMMA ConcludeKeeps ==
  ASSUME EvaluationInv, NEW kinds, Due(kinds), NEW err, Spent(err) \in 0..MaxFaults,
         NEW r, Sized(r), err = "none" => Bears(Current, r), Conclude(err, r)
  PROVE  EvaluationInv'
<1>1. AppendResult(err, r) /\ faults' \in 0..MaxFaults /\ UNCHANGED <<input, rows, other, writes, cache>>
  BY DEF Conclude
<1> QED
  BY <1>1, RecordKeeps
\* What the database counts are numbers.
LEMMA CountsNatural ==
  ASSUME WellCounted
  PROVE  AllRows \in Nat /\ Cardinality(Present) \in Nat /\ IsFiniteSet(Present)
<1>1. rows \in [Numbers \cup {Null} -> Nat] /\ DOMAIN rows = Numbers \cup {Null}
  BY DEF WellCounted
<1>2. IsFiniteSet(Numbers \cup {Null})
  <2>1. IsFiniteSet({Null})
    BY FS_Singleton, Zenon
  <2> QED
    BY <2>1, NumbersAssumption, FS_Union, Zenon
<1>3. AllRows \in Nat
  <2>1. \A x \in DOMAIN rows : rows[x] \in Nat
    BY <1>1
  <2>2. IsFiniteSet(DOMAIN rows)
    BY <1>1, <1>2, Zenon
  <2>3. SumFunctionOnSet(rows, DOMAIN rows) \in Nat
    BY <2>1, <2>2, SumOfNaturals
  <2> QED
    BY <2>3 DEF AllRows, CountOf
<1>4. IsFiniteSet(Present)
  <2>1. Present \subseteq Numbers
    BY DEF Present
  <2> QED
    BY <2>1, NumbersAssumption, FS_Subset, Zenon
<1> QED
  BY <1>3, <1>4, FS_CardinalityType, Zenon

\* A writer changes no result.
LEMMA WriteKeeps ==
  ASSUME EvaluationInv, Write
  PROVE  EvaluationInv'
<1>1. UNCHANGED <<input, faults, at, cache, left, taken, results, refused>> /\ writes' = writes + 1
  BY DEF Write
<1>2. WellCounted'
  BY WriteSized DEF EvaluationInv
<1>3. writes' \in 0..MaxWrites
  BY <1>1, BoundsAssumption DEF Write, EvaluationInv, EvaluationTypeOK
<1>4. other' \in Nat
  BY BoundsAssumption DEF Write, EvaluationInv, EvaluationTypeOK
<1>5. rows' \in [Numbers \cup {Null} -> Nat]
  BY <1>2 DEF WellCounted
<1>6. EvaluationTypeOK'
  BY <1>1, <1>3, <1>4, <1>5 DEF EvaluationInv, EvaluationTypeOK
<1>7. Borne'
  BY <1>1 DEF EvaluationInv, Borne
<1> QED
  BY <1>2, <1>6, <1>7 DEF EvaluationInv

\* The counts of rows and of values.
LEMMA CountsKeep ==
  ASSUME EvaluationInv, EvalTableCount \/ EvalDistinctCount
  PROVE  EvaluationInv'
<1>1. ASSUME NEW kind \in {"RowCount", "DistinctCount"}, Due({kind}), NEW n \in Nat,
             NEW err \in Outcomes(TRUE),
             Conclude(err, IF err = "none" THEN Counted(Current, n) ELSE Base(Current))
      PROVE  EvaluationInv'
  <2> DEFINE r == IF err = "none" THEN Counted(Current, n) ELSE Base(Current)
  <2>1. Current \in Expectation /\ Current.kind \in {"RowCount", "DistinctCount"}
    BY <1>1, CurrentAccepted
  <2>2. Sized(r)
    BY BaseSized DEF Counted
  <2>3. err = "none" => Bears(Current, r)
    BY <2>1, CountedBears
  <2>4. Spent(err) \in 0..MaxFaults
    BY SpentBounded
  <2>5. Conclude(err, r)
    BY <1>1
  <2> HIDE DEF r
  <2> QED
    BY <1>1, <2>2, <2>3, <2>4, <2>5, ConcludeKeeps
<1>2. AllRows \in Nat /\ Cardinality(Present) \in Nat
  BY CountsNatural DEF EvaluationInv
<1> QED
  BY <1>1, <1>2 DEF EvalTableCount, EvalDistinctCount

\* An average.
LEMMA AverageKeeps ==
  ASSUME EvaluationInv, EvalAverage
  PROVE  EvaluationInv'
<1> DEFINE e == Current
           configured == Fact("ConfiguredFloatLower", e.lo) ++ Fact("ConfiguredFloatUpper", e.hi)
<1>1. PICK err \in Outcomes(TRUE), x \in Answers(e.kind) :
        Conclude(err, IF err # "none" THEN Base(e)
                      ELSE IF x = SqlNull THEN TableLevelResult(e, TRUE, configured)
                      ELSE TableLevelResult(e, Within(e, x), Fact("ObservedFloat", x) ++ configured))
  BY DEF EvalAverage
<1> DEFINE r == IF err # "none" THEN Base(e)
                ELSE IF x = SqlNull THEN TableLevelResult(e, TRUE, configured)
                ELSE TableLevelResult(e, Within(e, x), Fact("ObservedFloat", x) ++ configured)
<1>2. Due({"Average"})
  BY DEF EvalAverage
<1>3. e.kind = "Average"
  BY <1>2 DEF Due
<1>4. Sized(r)
  BY BaseSized
<1>5. err = "none" => Bears(e, r)
  <2>1. /\ Bears(e, TableLevelResult(e, TRUE, configured))
        /\ Bears(e, TableLevelResult(e, Within(e, x), Fact("ObservedFloat", x) ++ configured))
    BY <1>3, AverageBears, Zenon
  <2> HIDE DEF configured
  <2> QED
    BY <2>1
<1>6. Spent(err) \in 0..MaxFaults
  BY SpentBounded
<1>7. Conclude(err, r)
  BY <1>1
<1> HIDE DEF r
<1> QED
  BY <1>2, <1>4, <1>5, <1>6, <1>7, ConcludeKeeps

\* A least or a greatest value.
LEMMA BoundKeeps ==
  ASSUME EvaluationInv, EvalBound
  PROVE  EvaluationInv'
<1> DEFINE e == Current
           configured == Fact("ConfiguredFloatBound", e.lo)
<1>1. PICK err \in Outcomes(TRUE), x \in Answers(e.kind) :
        Conclude(err, IF err # "none" THEN Base(e)
                      ELSE IF x = SqlNull THEN TableLevelResult(e, TRUE, configured)
                      ELSE TableLevelResult(e, CompareAggregate(e, x), Fact("ObservedFloat", x) ++ configured))
  BY DEF EvalBound
<1> DEFINE r == IF err # "none" THEN Base(e)
                ELSE IF x = SqlNull THEN TableLevelResult(e, TRUE, configured)
                ELSE TableLevelResult(e, CompareAggregate(e, x), Fact("ObservedFloat", x) ++ configured)
<1>2. Due({"Min", "Max"})
  BY DEF EvalBound
<1>3. e.kind = "Min" \/ e.kind = "Max"
  BY <1>2 DEF Due
<1>4. Sized(r)
  BY BaseSized
<1>5. err = "none" => Bears(e, r)
  <2>1. /\ Bears(e, TableLevelResult(e, TRUE, configured))
        /\ Bears(e, TableLevelResult(e, CompareAggregate(e, x), Fact("ObservedFloat", x) ++ configured))
    BY <1>3, BoundBears, Zenon
  <2> HIDE DEF configured
  <2> QED
    BY <2>1
<1>6. Spent(err) \in 0..MaxFaults
  BY SpentBounded
<1>7. Conclude(err, r)
  BY <1>1
<1> HIDE DEF r
<1> QED
  BY <1>2, <1>4, <1>5, <1>6, <1>7, ConcludeKeeps

\* A sum or a deviation.
LEMMA MomentKeeps ==
  ASSUME EvaluationInv, EvalSum \/ EvalStdDev
  PROVE  EvaluationInv'
<1>1. ASSUME NEW kind, Due({kind}), NEW lower, NEW upper, NEW observed, NEW watched, NEW lo, NEW hi,
             Moment(Current, lower, upper, observed, watched, lo, hi),
             \/ /\ kind = "SumInt" /\ lo = Current.lo /\ hi = Current.hi
                /\ lower = "Sum.ConfiguredLower" /\ upper = "Sum.ConfiguredUpper"
                /\ observed = "Sum.Observed"
             \/ /\ kind = "SumFloat" /\ lo = Current.lo /\ hi = Current.hi
                /\ lower = "Sum.ConfiguredFloatLower" /\ upper = "Sum.ConfiguredFloatUpper"
                /\ observed = "Sum.ObservedFloat"
             \/ /\ kind = "StdDev" /\ lo = Square(Current.lo) /\ hi = Square(Current.hi)
                /\ lower = "StdDev.ConfiguredLower" /\ upper = "StdDev.ConfiguredUpper"
                /\ observed = "StdDev.Observed"
      PROVE  EvaluationInv'
  <2> DEFINE e == Current
             configured == Fact(lower, e.lo) ++ Fact(upper, e.hi)
             result(failed, x) ==
               IF failed # "none" \/ x = SqlNull
               THEN TableLevelResult(e, failed = "none", configured)
               ELSE TableLevelResult(e, AtMost(lo, x) /\ AtMost(x, hi), Fact(observed, x) ++ configured)
  <2>1. PICK err, x, failed :
          /\ err \in Outcomes(watched)
          /\ AppendResult(failed, result(failed, x))
          /\ faults' = Spent(err)
          /\ UNCHANGED <<input, rows, other, writes, cache>>
    BY <1>1 DEF Moment
  <2>2. e.kind = kind
    BY <1>1 DEF Due
  <2>3. /\ Bears(e, TableLevelResult(e, TRUE, configured))
        /\ Bears(e, TableLevelResult(e, AtMost(lo, x) /\ AtMost(x, hi), Fact(observed, x) ++ configured))
    BY <1>1, <2>2, MomentBears, Zenon
  <2>4. Sized(result(failed, x))
    BY BaseSized
  <2>5. failed = "none" => Bears(Current, result(failed, x))
    <3> SUFFICES ASSUME failed = "none" PROVE Bears(e, result(failed, x))
      OBVIOUS
    <3>1. (failed = "none") = TRUE
      OBVIOUS
    <3> HIDE DEF e, configured
    <3> QED
      BY <2>3, <3>1
  <2>6. faults' \in 0..MaxFaults
    BY <2>1, SpentBounded
  <2> DEFINE r == result(failed, x)
  <2>7. Sized(r) /\ (failed = "none" => Bears(Current, r)) /\ AppendResult(failed, r)
    BY <2>1, <2>4, <2>5
  <2> HIDE DEF result, r
  <2> QED
    BY <1>1, <2>1, <2>6, <2>7, RecordKeeps
<1>2. CASE EvalSum
  BY <1>1, <1>2 DEF EvalSum
<1>3. CASE EvalStdDev
  BY <1>1, <1>3 DEF EvalStdDev
<1> QED
  BY <1>2, <1>3
\* A freshness.
LEMMA FreshKeeps ==
  ASSUME EvaluationInv, EvalFreshSince
  PROVE  EvaluationInv'
<1> DEFINE e == Current
           configured == Fact("ConfiguredTimeCutoff", e.lo)
           stale == Fact("ObservedTimePresent", Flag(FALSE)) ++ configured
           newest == Max(Present)
           fresh == Fact("ObservedTime", Whole(newest)) ++ Fact("ObservedTimePresent", Flag(TRUE))
                    ++ configured
           s == ~(newest < e.lo.n)
           r(err) == IF err # "none" THEN TableLevelResult(e, FALSE, configured)
                     ELSE IF Present = {} THEN TableLevelResult(e, FALSE, stale)
                     ELSE TableLevelResult(e, s, fresh)
<1>1. PICK err \in Outcomes(TRUE) : Conclude(err, r(err))
  <2>1. Whole(newest).n = newest
    BY DEF Whole, Num
  <2> QED
    BY <2>1, Zenon DEF EvalFreshSince
<1>2. Due({"FreshSince"})
  BY DEF EvalFreshSince
<1>3. e.kind = "FreshSince"
  BY <1>2 DEF Due
<1>4. e \in Expectation /\ e.lo.d = 1
  <2>1. e \in Expectation /\ Accepted(e)
    BY <1>2, CurrentAccepted
  <2> QED
    BY <1>3, <2>1 DEF Accepted
<1>5. Present # {} => newest \in Int
  <2>1. Present \in SUBSET Int /\ IsFiniteSet(Present)
    BY CountsNatural, NumbersAssumption DEF EvaluationInv, Present
  <2> QED
    BY <2>1, MaxRule
<1> HIDE DEF newest
<1>6. Sized(r(err))
  BY BaseSized
<1>7. ASSUME err = "none" PROVE Bears(e, r(err))
  <2>1. 0 \in Int
    OBVIOUS
  <2>2. Bears(e, TableLevelResult(e, FALSE, stale))
    BY <1>3, <1>4, <2>1, FreshBears, Zenon
  <2>3. Present # {} => Bears(e, TableLevelResult(e, s, fresh))
    BY <1>3, <1>4, <1>5, FreshBears, Zenon
  <2> HIDE DEF stale, fresh, s, e
  <2> QED
    BY <1>7, <2>2, <2>3
<1>8. Spent(err) \in 0..MaxFaults
  BY SpentBounded
<1> DEFINE x == r(err)
<1>9. Conclude(err, x) /\ Sized(x) /\ (err = "none" => Bears(Current, x))
  BY <1>1, <1>6, <1>7
<1> HIDE DEF x, r
<1> QED
  BY <1>2, <1>8, <1>9, ConcludeKeeps

\* The total that the fractions share is a number, whatever came of it.
LEMMA TotalKeeps ==
  ASSUME EvaluationInv, ResolveScopedTotal
  PROVE  EvaluationInv'
<1>1. PICK err \in Outcomes(TRUE) :
        /\ cache' = [loaded |-> TRUE, total |-> IF err = "none" THEN AllRows ELSE 0,
                     err |-> err, taken |-> writes]
        /\ faults' = Spent(err)
  BY DEF ResolveScopedTotal
<1>2. UNCHANGED <<input, rows, other, writes, at, left, taken, results, refused>>
  BY DEF ResolveScopedTotal
<1>3. AllRows \in Nat
  BY CountsNatural DEF EvaluationInv
<1>4. Spent(err) \in 0..MaxFaults /\ err \in {"none", "observer"} \cup DriverErrors
  BY SpentBounded
<1>5. writes \in 0..MaxWrites
  BY DEF EvaluationInv, EvaluationTypeOK
<1>6. cache' \in [loaded: BOOLEAN, total: Nat, err: {"none", "observer"} \cup DriverErrors,
                  taken: 0..MaxWrites]
  BY <1>1, <1>3, <1>4, <1>5
<1>7. EvaluationTypeOK'
  BY <1>1, <1>2, <1>4, <1>6 DEF EvaluationInv, EvaluationTypeOK
<1>8. WellCounted' /\ Borne'
  BY <1>2 DEF EvaluationInv, WellCounted, Borne
<1> QED
  BY <1>7, <1>8 DEF EvaluationInv

\* A fraction that inherits the total's error.
LEMMA WithoutTotalKeeps ==
  ASSUME EvaluationInv, FractionWithoutTotal
  PROVE  EvaluationInv'
<1> DEFINE t == TableLevelResult(Current, FALSE, ConfiguredFractionBounds(Current))
           r == [t EXCEPT !.query = 0]
<1>1. Due(Fractions) /\ cache.err # "none" /\ AppendResult(cache.err, r)
      /\ UNCHANGED <<input, rows, other, writes, faults, cache>>
  BY DEF FractionWithoutTotal
<1>2. Sized(t)
  BY BaseSized
<1> HIDE DEF t
<1>3. Sized(r)
  BY <1>2, FieldsOfBlank DEF Sized, Sizes
<1>4. faults' \in 0..MaxFaults
  BY <1>1 DEF EvaluationInv, EvaluationTypeOK
<1> HIDE DEF r
<1> QED
  BY <1>1, <1>3, <1>4, RecordKeeps

\* A rate or a share.
LEMMA RateKeeps ==
  ASSUME EvaluationInv, EvalRate
  PROVE  EvaluationInv'
<1> DEFINE e == Current
           rate == IF e.kind = "Frequency" THEN "Share" ELSE "Rate"
           r(err) == IF err # "none" THEN TableLevelResult(e, FALSE, ConfiguredFractionBounds(e))
                     ELSE Fraction(e, NumeratorFact(e), Numerator(e), rate)
<1>1. PICK err \in Outcomes(TRUE) : Conclude(err, r(err))
  BY DEF EvalRate
<1>2. Due(Fractions \ {"DominantShare"})
  BY DEF EvalRate
<1>3. e \in Expectation /\ Accepted(e) /\ e.kind \in Fractions \ {"DominantShare"}
  BY <1>2, CurrentAccepted
<1>4. cache.total \in Nat
  BY DEF EvaluationInv, EvaluationTypeOK
<1>5. Sized(r(err))
  BY BaseSized DEF Fraction
<1>6. err = "none" => Bears(e, r(err))
  <2>1. rate \in {"Rate", "Share"}
    OBVIOUS
  <2> HIDE DEF rate, e
  <2>2. Bears(e, Fraction(e, NumeratorFact(e), Numerator(e), rate))
    BY <1>3, <1>4, <2>1, FractionBears
  <2> QED
    BY <2>2
<1>7. Spent(err) \in 0..MaxFaults
  BY SpentBounded
<1> DEFINE x == r(err)
<1>8. Conclude(err, x) /\ Sized(x) /\ (err = "none" => Bears(Current, x))
  BY <1>1, <1>5, <1>6
<1> HIDE DEF x, r
<1> QED
  BY <1>2, <1>7, <1>8, ConcludeKeeps

\* A dominant share.
LEMMA DominantKeeps ==
  ASSUME EvaluationInv, EvalDominantShare
  PROVE  EvaluationInv'
<1> DEFINE e == Current
           share == Num(DominantCount, cache.total)
           configured == ConfiguredFractionBounds(e)
           facts == Fact("DominantCount", Whole(DominantCount)) ++ Fact("TotalCount", Whole(cache.total))
                    ++ Fact("TieCount", Whole(TieCount)) ++ Fact("Share", share) ++ configured
           s == CompareBoundedFraction(e, share)
           r(err) == IF err # "none" \/ DominantCount = 0
                     THEN TableLevelResult(e, err = "none", configured)
                     ELSE TableLevelResult(e, s, facts)
<1>1. PICK err \in Outcomes(FALSE) : Conclude(err, r(err))
  BY Zenon DEF EvalDominantShare
<1>2. Due({"DominantShare"})
  BY DEF EvalDominantShare
<1>3. e.kind = "DominantShare"
  BY <1>2 DEF Due
<1>4. e \in Expectation /\ Accepted(e)
  BY <1>2, CurrentAccepted
<1>5. Sized(r(err))
  BY BaseSized
<1>6. ASSUME err = "none" PROVE Bears(e, r(err))
  <2>1. /\ Bears(e, TableLevelResult(e, TRUE, configured))
        /\ DominantCount # 0 => Bears(e, TableLevelResult(e, s, facts))
    BY <1>3, <1>4, DominantBears, Zenon
  <2>2. (err = "none") = TRUE
    BY <1>6
  <2> HIDE DEF facts, s, configured, e
  <2> QED
    BY <1>6, <2>1, <2>2
<1>7. Spent(err) \in 0..MaxFaults
  BY SpentBounded
<1> DEFINE x == r(err)
<1>8. Conclude(err, x) /\ Sized(x) /\ (err = "none" => Bears(Current, x))
  BY <1>1, <1>5, <1>6
<1> HIDE DEF x, r
<1> QED
  BY <1>2, <1>7, <1>8, ConcludeKeeps

\* The first count of a reconciliation.
LEMMA LeftKeeps ==
  ASSUME EvaluationInv, CountLeft
  PROVE  EvaluationInv'
<1>1. CASE /\ left' = AllRows /\ taken' = writes
           /\ UNCHANGED <<input, rows, other, writes, faults, at, cache, results, refused>>
  <2>1. left' \in Nat /\ taken' \in 0..MaxWrites
    BY <1>1, CountsNatural DEF EvaluationInv, EvaluationTypeOK
  <2>2. EvaluationTypeOK'
    BY <1>1, <2>1 DEF EvaluationInv, EvaluationTypeOK
  <2>3. WellCounted' /\ Borne'
    BY <1>1 DEF EvaluationInv, WellCounted, Borne
  <2> QED
    BY <2>2, <2>3 DEF EvaluationInv
<1>2. ASSUME NEW err \in Outcomes(TRUE), err # "none", Conclude(err, Base(Current))
      PROVE  EvaluationInv'
  <2>1. Due({"Reconcile"}) /\ Spent(err) \in 0..MaxFaults /\ Sized(Base(Current))
    BY SpentBounded, BaseSized DEF CountLeft
  <2> QED
    BY <1>2, <2>1, ConcludeKeeps
<1> QED
  BY <1>1, <1>2 DEF CountLeft

\* The second.
LEMMA RightKeeps ==
  ASSUME EvaluationInv, CountRight
  PROVE  EvaluationInv'
<1> DEFINE e == Current
           counted == Fact("ObservedLeftCount", Whole(left))
           r(err) ==
             IF err # "none" THEN TableLevelResult(e, FALSE, counted)
             ELSE [TableLevelResult(e, left = other, Fact("ObservedRightCount", Whole(other)) ++ counted)
                     EXCEPT !.failed = IF left = other THEN 0 ELSE 1, !.shape = "reconcile"]
<1>1. PICK err \in Outcomes(TRUE) : Conclude(err, r(err))
  BY Zenon DEF CountRight
<1>2. Due({"Reconcile"})
  BY DEF CountRight
<1>3. e.kind = "Reconcile"
  BY <1>2 DEF Due
<1>4. CASE err = "none"
  <2> DEFINE x == [TableLevelResult(e, left = other, Fact("ObservedRightCount", Whole(other)) ++ counted)
                     EXCEPT !.failed = IF left = other THEN 0 ELSE 1, !.shape = "reconcile"]
  <2>1. Bears(e, x) /\ Sized(x)
    BY <1>3, ReconcileBears, Zenon
  <2>2. Spent(err) \in 0..MaxFaults
    BY SpentBounded
  <2>3. Conclude(err, x)
    BY <1>1, <1>4, Zenon
  <2> HIDE DEF x
  <2> QED
    BY <1>2, <2>1, <2>2, <2>3, ConcludeKeeps
<1>5. CASE err # "none"
  <2> DEFINE x == TableLevelResult(e, FALSE, counted)
  <2>1. Sized(x)
    BY BaseSized
  <2>2. Spent(err) \in 0..MaxFaults
    BY SpentBounded
  <2>3. Conclude(err, x)
    BY <1>1, <1>5, Zenon
  <2> HIDE DEF x
  <2> QED
    BY <1>2, <1>5, <2>1, <2>2, <2>3, ConcludeKeeps
<1> QED
  BY <1>4, <1>5
\* A trusted count, which fails on what is no count.
LEMMA CustomKeeps ==
  ASSUME EvaluationInv, EvalCustomCount
  PROVE  EvaluationInv'
<1> DEFINE e == Current
           n == rows[e.value]
           answers == IF faults = MaxFaults THEN {"count"} ELSE Malformed \cup {"count"}
           shaped == [Base(e) EXCEPT !.shape = "custom"]
           met == [shaped EXCEPT !.success = n = 0, !.failed = n]
<1>1. PICK err \in Outcomes(TRUE), answer \in answers :
        LET failed == IF err = "none" /\ answer \in Malformed THEN "scan" ELSE err
        IN Conclude(failed, IF failed # "none" THEN shaped ELSE met)
  BY Zenon DEF EvalCustomCount
<1> DEFINE failed == IF err = "none" /\ answer \in Malformed THEN "scan" ELSE err
           r == IF failed # "none" THEN shaped ELSE met
<1>2. Due({"Custom"})
  BY DEF EvalCustomCount
<1>3. e.kind = "Custom"
  BY <1>2 DEF Due
<1>4. n \in Nat
  <2>1. e.value \in Numbers \cup {Null}
    BY <1>2, CurrentTyped DEF EvaluationInv
  <2> QED
    BY <2>1 DEF EvaluationInv, WellCounted
<1> HIDE DEF n
<1>5. Sized(shaped) /\ Bears(e, met) /\ Sized(met)
  BY <1>3, <1>4, CustomBears, Zenon
<1>6. Spent(failed) \in 0..MaxFaults
  <2>1. CASE failed = err
    BY <2>1, SpentBounded
  <2>2. CASE failed # err
    <3>1. failed = "scan" /\ answer \in Malformed
      BY <2>2
    <3>2. faults # MaxFaults
      BY <3>1 DEF Malformed
    <3>3. faults \in 0..MaxFaults /\ MaxFaults \in Nat
      BY BoundsAssumption DEF EvaluationInv, EvaluationTypeOK
    <3>4. Spent(failed) = faults + 1
      BY <3>1 DEF Spent
    <3>5. faults + 1 \in 0..MaxFaults
      BY <3>2, <3>3
    <3> QED
      BY <3>4, <3>5
  <2> QED
    BY <2>1, <2>2
<1>7. Conclude(failed, r)
  BY <1>1
<1> HIDE DEF shaped, met, failed
<1>8. Sized(r) /\ (failed = "none" => Bears(Current, r))
  BY <1>5
<1> HIDE DEF r
<1> QED
  BY <1>2, <1>6, <1>7, <1>8, ConcludeKeeps

\* Required columns.
LEMMA StructuralKeeps ==
  ASSUME EvaluationInv, EvalStructural
  PROVE  EvaluationInv'
<1> DEFINE e == Current
           base == [Base(e) EXCEPT !.required = e.columns]
           missing == Missing(e.columns, input.table.catalog)
           unexpected == IF e.kind = "RequiredColumns" THEN <<>>
                         ELSE Unexpected(e.columns, input.table.catalog)
           met == [base EXCEPT !.success = missing = <<>> /\ unexpected = <<>>,
                               !.missing = missing, !.unexpected = unexpected]
<1>1. PICK err \in Outcomes(TRUE) : Conclude(err, IF err # "none" THEN base ELSE met)
  BY Zenon DEF EvalStructural
<1>2. Due({"RequiredColumns", "ExactColumns"})
  BY DEF EvalStructural
<1>3. e.kind = "RequiredColumns" \/ e.kind = "ExactColumns"
  BY <1>2 DEF Due
<1> HIDE DEF missing, unexpected
<1>4. Sized(base) /\ Bears(e, met) /\ Sized(met)
  BY <1>3, StructuralBears, Zenon
<1>5. Spent(err) \in 0..MaxFaults
  BY SpentBounded
<1> DEFINE r == IF err # "none" THEN base ELSE met
<1>6. Conclude(err, r)
  BY <1>1
<1> HIDE DEF base, met
<1>7. Sized(r) /\ (err = "none" => Bears(e, r))
  <2> HIDE DEF e
  <2> QED
    BY <1>4
<1> HIDE DEF r
<1> QED
  BY <1>2, <1>5, <1>6, <1>7, ConcludeKeeps

\* The contract of a column.
LEMMA ContractKeeps ==
  ASSUME EvaluationInv, EvalNullability \/ EvalColumnType
  PROVE  EvaluationInv'
<1>1. ASSUME NEW kind, kind = "Nullability" \/ kind = "ColumnType", Due({kind}), NEW unknown, NEW reported,
             Contract(Current, unknown, reported)
      PROVE  EvaluationInv'
  <2> DEFINE e == Current
             name == e.columns[1]
             base == [Base(e) EXCEPT !.claim = e.claim]
             absent == [base EXCEPT !.missing = <<name>>]
             met == [base EXCEPT !.reported = reported, !.success = reported = e.claim]
  <2>1. e.kind = "Nullability" \/ e.kind = "ColumnType"
    BY <1>1 DEF Due
  <2>2. /\ Sized(base)
        /\ Sized(absent) /\ Bears(e, absent)
        /\ Sized(met) /\ Bears(e, met)
    BY <2>1, ContractBears, Zenon
  <2>3. PICK err \in Outcomes(TRUE) :
          \/ err # "none" /\ Conclude(err, base)
          \/ err = "none" /\ Conclude(err, absent)
          \/ err = "none" /\ Conclude(err, met)
          \/ /\ AppendResult("unsupported", met)
             /\ UNCHANGED <<input, rows, other, writes, faults, cache>>
    BY <1>1, Zenon DEF Contract
  <2> HIDE DEF base, absent, met, e
  <2>4. Spent(err) \in 0..MaxFaults
    BY SpentBounded
  <2>5. e = Current
    BY DEF e
  <2>6. CASE err # "none" /\ Conclude(err, base)
    BY <1>1, <2>2, <2>4, <2>6, ConcludeKeeps
  <2>7. CASE err = "none" /\ Conclude(err, absent)
    BY <1>1, <2>2, <2>4, <2>5, <2>7, ConcludeKeeps
  <2>8. CASE err = "none" /\ Conclude(err, met)
    BY <1>1, <2>2, <2>4, <2>5, <2>8, ConcludeKeeps
  <2>9. CASE /\ AppendResult("unsupported", met)
             /\ UNCHANGED <<input, rows, other, writes, faults, cache>>
    <3>1. faults' \in 0..MaxFaults
      BY <2>9 DEF EvaluationInv, EvaluationTypeOK
    <3>2. "unsupported" = "none" => Bears(Current, met)
      OBVIOUS
    <3> QED
      BY <1>1, <2>2, <2>9, <3>1, <3>2, RecordKeeps
  <2> QED
    BY <2>3, <2>6, <2>7, <2>8, <2>9
<1>2. CASE EvalNullability
  BY <1>1, <1>2 DEF EvalNullability
<1>3. CASE EvalColumnType
  BY <1>1, <1>3 DEF EvalColumnType
<1> QED
  BY <1>2, <1>3

\* In the beginning there is no result.
LEMMA EvaluationStarts == Init => EvaluationInv
<1> SUFFICES ASSUME Init PROVE EvaluationInv
  OBVIOUS
<1>1. /\ input \in Cases /\ rows = input.table.rows /\ other = input.table.other
      /\ writes = 0 /\ faults = 0 /\ at = 1 /\ cache = EmptyCache /\ left = None /\ taken = 0
      /\ results = <<>> /\ refused = FALSE
  BY DEF Init, EvaluationInit
<1>2. rows \in [Numbers \cup {Null} -> Nat] /\ other \in Nat
  BY <1>1, CasesAssumption DEF Table
<1>3. IsList(<<>>)
  BY DEF IsList
<1>4. WellCounted
  BY <1>1, <1>2, <1>3 DEF WellCounted
<1>5. Len(input.suite) \in Nat
  BY <1>1, CasesAssumption, LenProperties
<1>6. MaxWrites \in Nat /\ MaxFaults \in Nat
  BY BoundsAssumption
<1>7. cache \in [loaded: BOOLEAN, total: Nat, err: {"none", "observer"} \cup DriverErrors,
                 taken: 0..MaxWrites]
  BY <1>1, <1>6 DEF EmptyCache
<1>8. at \in 1..(Len(input.suite) + 1) /\ writes \in 0..MaxWrites /\ faults \in 0..MaxFaults
      /\ taken \in 0..MaxWrites
  BY <1>1, <1>5, <1>6
<1>9. Len(results) = 0 /\ DOMAIN results = {}
  BY <1>1
<1>10. EvaluationTypeOK
  <2>1. Len(results) = (IF refused THEN 0 ELSE at - 1) /\ refused \in BOOLEAN
    <3>1. ~refused /\ refused \in BOOLEAN
      BY <1>1, Zenon
    <3>2. at - 1 = 0 /\ Len(results) = 0
      BY <1>1, <1>9
    <3> QED
      BY <3>1, <3>2, Zenon
  <2>2. left \in Nat \cup {None}
    BY <1>1
  <2>3. \A i \in DOMAIN results : DOMAIN results[i] = DOMAIN Blank
    BY <1>9
  <2> QED
    BY <1>2, <1>7, <1>8, <2>1, <2>2, <2>3 DEF EvaluationTypeOK
<1>11. Borne
  BY <1>9 DEF Borne
<1> QED
  BY <1>4, <1>10, <1>11 DEF EvaluationInv

\* Every evaluation, and every write next to one, keeps the results borne out.
LEMMA EvaluationKeeps ==
  ASSUME EvaluationInv, Evaluate \/ Write
  PROVE  EvaluationInv'
<1> QED
  BY WriteKeeps, CountsKeep, AverageKeeps, BoundKeeps, MomentKeeps, FreshKeeps, TotalKeeps,
     WithoutTotalKeeps, RateKeeps, DominantKeeps, LeftKeeps, RightKeeps, CustomKeeps,
     StructuralKeeps, ContractKeeps DEF Evaluate
----------------------------------------------------------------------------
(* What leaves the process.                                                *)

\* The options are of the cases, the report's results are sized, and none of an
\* exported report is one that cannot be exported.
Exportable ==
  /\ EvaluationInv
  /\ \A i \in DOMAIN report : Sized(report[i])
  /\ stage \in After =>
       \A i \in DOMAIN report : ~CannotExport(input.options, report[i])

\* The results of the suite and those put in by hand.
LEMMA AssembledSized ==
  ASSUME WellCounted, NEW given, IsList(given), \A i \in DOMAIN given : Sized(given[i])
  PROVE  \A i \in DOMAIN (results \o given) : Sized((results \o given)[i])
<1> DEFINE S == Range(results) \cup Range(given)
<1>1. results \in Seq(S) /\ given \in Seq(S)
  <2>1. results \in Seq(Range(results)) /\ given \in Seq(Range(given))
    BY DEF WellCounted, IsList
  <2>2. Range(results) \subseteq S /\ Range(given) \subseteq S
    OBVIOUS
  <2> HIDE DEF S
  <2> QED
    BY <2>1, <2>2
<1>2. \A x \in S : Sized(x)
  BY DEF WellCounted, Range
<1> HIDE DEF S
<1>3. results \o given \in Seq(S)
  BY <1>1, ConcatProperties
<1>4. \A i \in DOMAIN (results \o given) : (results \o given)[i] \in S
  BY <1>3
<1> QED
  BY <1>2, <1>4

\* Results put in by hand are sized.
LEMMA GivenSized ==
  ASSUME WellCounted
  PROVE  IsList(input.given) /\ \A i \in DOMAIN input.given : Sized(input.given[i])
<1> QED
  BY ExportCasesAssumption DEF WellCounted, IsList, Sized

\* Nothing is exported in the beginning.
LEMMA ExportableInit == Init => Exportable
<1> SUFFICES ASSUME Init PROVE Exportable
  OBVIOUS
<1>1. EvaluationInv
  BY EvaluationStarts
<1>2. report = <<>> /\ stage \notin After
  BY DEF Init, After
<1> QED
  BY <1>1, <1>2 DEF Exportable

\* Nothing that happens to the report touches the evaluation.
LEMMA EvaluationStays ==
  ASSUME EvaluationInv, UNCHANGED evaluation
  PROVE  EvaluationInv'
<1>1. UNCHANGED <<input, rows, other, writes, faults, at, cache, left, taken, results, refused>>
  BY DEF evaluation
<1>2. WellCounted'
  BY <1>1 DEF EvaluationInv, WellCounted
<1>3. EvaluationTypeOK'
  BY <1>1 DEF EvaluationInv, EvaluationTypeOK
<1>4. Borne'
  BY <1>1 DEF EvaluationInv, Borne
<1> QED
  BY <1>2, <1>3, <1>4 DEF EvaluationInv

\* Results stay sized, and a report that was exported could be.
LEMMA ExportableStep == Exportable /\ [Next]_vars => Exportable'
<1> SUFFICES ASSUME Exportable, [Next]_vars PROVE Exportable'
  OBVIOUS
<1>1. CASE (Evaluate \/ Write) /\ UNCHANGED exportVars
  <2>1. EvaluationInv'
    BY <1>1, EvaluationKeeps DEF Exportable
  <2>2. UNCHANGED <<stage, report, input>>
    BY <1>1, InputStays DEF exportVars
  <2> QED
    BY <2>1, <2>2 DEF Exportable, CannotExport
<1>2. CASE Assemble
  <2>1. UNCHANGED evaluation
    BY <1>2 DEF Assemble
  <2>2. EvaluationInv'
    BY <2>1, EvaluationStays DEF Exportable
  <2>3. report' = results \o input.given /\ stage' \notin After
    BY <1>2 DEF Assemble, After
  <2>4. \A i \in DOMAIN report' : Sized(report'[i])
    <3>1. WellCounted
      BY DEF Exportable, EvaluationInv
    <3> QED
      BY <2>3, <3>1, GivenSized, AssembledSized
  <2> QED
    BY <2>2, <2>3, <2>4 DEF Exportable
<1>3. CASE ExportReport
  <2>1. UNCHANGED <<evaluation, report>> /\ input' = input
    BY <1>3 DEF ExportReport, evaluation
  <2>2. stage' \in After => \A i \in DOMAIN report : ~CannotExport(input.options, report[i])
    BY <1>3 DEF ExportReport, After
  <2>3. EvaluationInv'
    BY <2>1, EvaluationStays DEF Exportable
  <2> QED
    BY <2>1, <2>2, <2>3 DEF Exportable, CannotExport
<1>4. CASE MeasurementRecordsFromExport \/ Edit
  <2>1. UNCHANGED <<evaluation, report>> /\ input' = input
    BY <1>4 DEF MeasurementRecordsFromExport, Edit, evaluation
  <2>2. stage \in After
    BY <1>4 DEF MeasurementRecordsFromExport, Edit, After
  <2>3. EvaluationInv'
    BY <2>1, EvaluationStays DEF Exportable
  <2> QED
    BY <2>1, <2>2, <2>3 DEF Exportable, CannotExport
<1>5. CASE UNCHANGED vars
  <2>1. UNCHANGED <<evaluation, report, stage>> /\ input' = input
    BY <1>5 DEF vars, evaluation, exportVars
  <2>2. EvaluationInv'
    BY <2>1, EvaluationStays DEF Exportable
  <2> QED
    BY <2>1, <2>2 DEF Exportable, CannotExport
<1> QED
  BY <1>1, <1>2, <1>3, <1>4, <1>5 DEF Next

\* As many values leave a redactor as enter it, and as many are exported as raw.
LEMMA Redaction ==
  ASSUME NEW fn, NEW n \in Nat
  PROVE  LET s == ApplyRedactor(fn, Raw(n))
         IN /\ Len(s) = n /\ (s # <<>> <=> n > 0)
            /\ fn # "none" => Raws(s) = {}
<1> DEFINE s == ApplyRedactor(fn, Raw(n))
<1>1. s = [i \in 1..n |-> IF fn = "none" THEN "raw" ELSE "redacted"]
  BY DEF ApplyRedactor, Raw
<1>2. s \in [1..n -> {"raw", "redacted"}]
  BY <1>1
<1>3. s \in Seq({"raw", "redacted"})
  BY <1>2, SeqDef
<1>4. DOMAIN s = 1..n
  BY <1>1
<1>5. fn # "none" => Raws(s) = {}
  BY <1>1 DEF Raws
<1> HIDE DEF s
<1>6. Len(s) = n
  BY <1>3, <1>4, LenProperties
<1>7. s # <<>> <=> n > 0
  BY <1>3, <1>6, EmptySeq
<1> QED
  BY <1>5, <1>6, <1>7 DEF s

\* Samples and keys of one result.
LEMMA PayloadPromise ==
  ASSUME NEW o \in Options, NEW targeted, NEW i, NEW r, Sized(r), ~CannotExport(o, r),
         NEW what \in Payloads
  PROVE  LET x == ExportResult(o, targeted, i, r)
         IN /\ x[what] # <<>> =>
                 what \in o.include /\ ~(o.redact[what] \in {"fail", "wrong"})
            /\ o.redact[what] # "none" => Raws(x[what]) = {}
            /\ what \in o.include /\ r.failed > Len(x[what]) => what \in x.caps.truncated
<1> DEFINE x == ExportResult(o, targeted, i, r)
<1> DEFINE s == ApplyRedactor(o.redact[what], Raw(r[what]))
<1>1. r[what] \in Nat /\ r.failed \in Nat
  BY DEF Sized, Sizes, Payloads
<1>2. x[what] = ExportPayload(o, what, r) /\ x.caps = ExportCaps(o, r)
  BY DEF ExportResult, Payloads
<1>3. Includes(o, what) <=> what \in o.include
  BY DEF Includes, Payloads
<1>4. /\ Len(s) = r[what] /\ (s # <<>> <=> r[what] > 0)
      /\ o.redact[what] # "none" => Raws(s) = {}
  BY <1>1, Redaction
<1>5. o.redact[what] # "wrong"
  BY DEF Options, Payloads, Redacted
<1>6. r[what] > 0 /\ what \in o.include => o.redact[what] # "fail"
  BY <1>3 DEF CannotExport
<1>7. x[what] = IF what \in o.include THEN s ELSE <<>>
  BY <1>2, <1>3 DEF ExportPayload
<1>8. what \in o.include /\ r.failed > r[what] => what \in x.caps.truncated
  BY <1>1, <1>2, <1>3 DEF ExportCaps
<1>9. Raws(<<>>) = {}
  BY DEF Raws
<1> HIDE DEF x, s
<1>10. /\ x[what] # <<>> =>
             what \in o.include /\ ~(o.redact[what] \in {"fail", "wrong"})
       /\ o.redact[what] # "none" => Raws(x[what]) = {}
       /\ what \in o.include /\ r.failed > Len(x[what]) => what \in x.caps.truncated
  BY <1>4, <1>5, <1>6, <1>7, <1>8, <1>9
<1> QED
  BY <1>10 DEF x

\* The query text of one result.
LEMMA QueryPromise ==
  ASSUME NEW o, NEW targeted \in BOOLEAN, NEW r, r.query \in Nat
  PROVE  LET q == ExportQuery(o, targeted, r)
         IN /\ o.redact["query"] # "none" => Raws(<<q.text>>) = {}
            /\ q.runes <= MaxExportedQueryTextRunes
            /\ r.query > q.runes => q.truncated
            /\ targeted => ~q.named
<1> DEFINE fn == o.redact["query"]
<1> DEFINE q == ExportQuery(o, targeted, r)
<1>1. MaxExportedQueryTextRunes \in Nat
  BY ExportBoundsAssumption
<1>2. Raw(1) = [i \in 1..1 |-> "raw"]
  BY DEF Raw
<1>3. q.text = IF fn = "none" THEN "raw" ELSE "redacted"
  BY <1>2 DEF ExportQuery, ApplyRedactor
<1>4. q.named = (~targeted /\ fn = "none")
  BY DEF ExportQuery
<1> DEFINE before == Truncate(r.query)
<1> DEFINE after == IF fn = "longer" THEN MaxExportedQueryTextRunes + 1 ELSE before
<1>5. q.runes = Truncate(after) /\ (q.truncated <=> r.query > before \/ after > Truncate(after))
  BY DEF ExportQuery
<1> HIDE DEF q
<1>6. q.runes <= MaxExportedQueryTextRunes /\ (r.query > q.runes => q.truncated)
  BY <1>1, <1>5 DEF Truncate
<1>7. fn # "none" => Raws(<<q.text>>) = {}
  BY <1>3 DEF Raws
<1> QED
  BY <1>4, <1>6, <1>7 DEF q

\* The diagnostics of one result.
LEMMA DiagnosticsPromise ==
  ASSUME NEW o \in Options, NEW targeted \in BOOLEAN, NEW i, NEW r, Sized(r), ~CannotExport(o, r),
         NEW x, x = ExportResult(o, targeted, i, r), x.diagnostics # <<>>
  PROVE  LET d == x.diagnostics[1]
         IN /\ "diagnostics" \in o.include \/ "arguments" \in o.include
            /\ o.redact["query"] \notin {"fail", "wrong"}
            /\ d.query = ExportQuery(o, targeted, r)
            /\ d.args # <<>> => (/\ "arguments" \in o.include
                                /\ o.redact["args"] \notin {"fail", "wrong"}
                                /\ (o.redact["args"] # "none" => Raws(d.args) = {}))
            /\ "arguments" \in o.include /\ r.args > Len(d.args) => d.argsTruncated
<1> DEFINE d == x.diagnostics[1]
<1> DEFINE s == ApplyRedactor(o.redact["args"], Raw(ExportedArgs(r)))
<1>1. r.query \in Nat /\ r.args \in Nat
  BY DEF Sized, Sizes
<1>2. x.diagnostics = ExportDiagnostics(o, targeted, r)
  BY DEF ExportResult
<1>3. Includes(o, "query") /\ r.query > 0
  BY <1>1, <1>2 DEF ExportDiagnostics
<1>4. "query" \notin Payloads /\ "args" \notin Payloads
  BY DEF Payloads
<1>5. "diagnostics" \in o.include \/ "arguments" \in o.include
  BY <1>3, <1>4 DEF Includes
<1>6. o.redact["query"] \notin {"fail", "wrong"}
  BY <1>3 DEF CannotExport
<1>7. Includes(o, "args") <=> "arguments" \in o.include
  BY <1>4 DEF Includes
<1>8. d = [query |-> ExportQuery(o, targeted, r),
           args |-> IF Includes(o, "args") THEN s ELSE <<>>,
           argsTruncated |-> Includes(o, "args") /\ r.args > ExportedArgs(r)]
  BY <1>1, <1>2, <1>3 DEF ExportDiagnostics
<1>9. ExportedArgs(r) \in Nat
  BY <1>1, ExportBoundsAssumption DEF ExportedArgs
<1>10. /\ Len(s) = ExportedArgs(r) /\ (s # <<>> <=> ExportedArgs(r) > 0)
       /\ o.redact["args"] # "none" => Raws(s) = {}
  BY <1>9, Redaction
<1>11. o.redact["args"] # "wrong"
  BY DEF Options, Redacted
<1>12. Includes(o, "args") /\ ExportedArgs(r) > 0 => o.redact["args"] # "fail"
  BY <1>3 DEF CannotExport
<1> HIDE DEF d, s
<1>13. /\ d.query = ExportQuery(o, targeted, r)
       /\ d.args = IF "arguments" \in o.include THEN s ELSE <<>>
       /\ d.argsTruncated <=> "arguments" \in o.include /\ r.args > ExportedArgs(r)
  BY <1>7, <1>8
<1>14. d.args # <<>> => (/\ "arguments" \in o.include
                         /\ o.redact["args"] \notin {"fail", "wrong"}
                         /\ (o.redact["args"] # "none" => Raws(d.args) = {}))
  BY <1>7, <1>10, <1>11, <1>12, <1>13
<1>15. "arguments" \in o.include /\ r.args > Len(d.args) => d.argsTruncated
  BY <1>10, <1>13
<1> QED
  BY <1>5, <1>6, <1>13, <1>14, <1>15 DEF d

\* A document made of an exportable report keeps the promise.
LEMMA PromiseFollows == ExportInv /\ Exportable => ExportKeepsItsPromise
<1> SUFFICES ASSUME ExportInv, Exportable PROVE ExportKeepsItsPromise
  OBVIOUS
<1> DEFINE o == input.options
<1> DEFINE targeted == input.suite # <<>>
<1>1. o \in Options
  BY ExportCasesAssumption DEF Exportable, EvaluationInv, WellCounted
<1>2. stage = "withheld" => exported = <<>>
  BY DEF ExportInv, Written, After
<1>3. ASSUME stage \in After, NEW i \in DOMAIN exported
      PROVE  LET x == exported[i]
                 r == report[i]
                 clear(what, s) == o.redact[what] # "none" => Raws(s) = {}
             IN /\ \A what \in Payloads :
                     /\ x[what] # <<>> =>
                          what \in o.include /\ ~(o.redact[what] \in {"fail", "wrong"})
                     /\ clear(what, x[what])
                     /\ what \in o.include /\ r.failed > Len(x[what]) => what \in x.caps.truncated
                /\ x.diagnostics # <<>> =>
                     LET d == x.diagnostics[1]
                     IN /\ "diagnostics" \in o.include \/ "arguments" \in o.include
                        /\ ~(o.redact["query"] \in {"fail", "wrong"})
                        /\ clear("query", <<d.query.text>>)
                        /\ d.query.runes <= MaxExportedQueryTextRunes
                        /\ r.query > d.query.runes => d.query.truncated
                        /\ input.suite # <<>> => ~d.query.named
                        /\ d.args # <<>> => (/\ "arguments" \in o.include
                                            /\ ~(o.redact["args"] \in {"fail", "wrong"})
                                            /\ clear("args", d.args))
                        /\ "arguments" \in o.include /\ r.args > Len(d.args) => d.argsTruncated
  <2> DEFINE x == exported[i]
  <2> DEFINE r == report[i]
  <2>1. exported = [k \in DOMAIN report |-> ExportResult(o, targeted, k, report[k])]
    BY <1>3 DEF ExportInv, Written
  <2>2. i \in DOMAIN report /\ x = ExportResult(o, targeted, i, r)
    BY <1>3, <2>1
  <2>3. Sized(r) /\ ~CannotExport(o, r)
    BY <1>3, <2>2 DEF Exportable
  <2>4. targeted \in BOOLEAN
    OBVIOUS
  <2>5. r.query \in Nat
    BY <2>3 DEF Sized, Sizes
  <2> HIDE DEF o, targeted, x, r
  <2>6. \A what \in Payloads :
          /\ x[what] # <<>> =>
               what \in o.include /\ ~(o.redact[what] \in {"fail", "wrong"})
          /\ o.redact[what] # "none" => Raws(x[what]) = {}
          /\ what \in o.include /\ r.failed > Len(x[what]) => what \in x.caps.truncated
    BY <1>1, <2>2, <2>3, PayloadPromise
  <2>7. ASSUME x.diagnostics # <<>>
        PROVE  LET d == x.diagnostics[1]
               IN /\ "diagnostics" \in o.include \/ "arguments" \in o.include
                  /\ o.redact["query"] \notin {"fail", "wrong"}
                  /\ d.query = ExportQuery(o, targeted, r)
                  /\ d.args # <<>> => (/\ "arguments" \in o.include
                                      /\ o.redact["args"] \notin {"fail", "wrong"}
                                      /\ (o.redact["args"] # "none" => Raws(d.args) = {}))
                  /\ "arguments" \in o.include /\ r.args > Len(d.args) => d.argsTruncated
    BY <1>1, <2>2, <2>3, <2>4, <2>7, DiagnosticsPromise
  <2>8. LET q == ExportQuery(o, targeted, r)
        IN /\ o.redact["query"] # "none" => Raws(<<q.text>>) = {}
           /\ q.runes <= MaxExportedQueryTextRunes
           /\ r.query > q.runes => q.truncated
           /\ targeted => ~q.named
    BY <2>4, <2>5, QueryPromise
  <2> QED
    BY <2>6, <2>7, <2>8 DEF x, r, targeted
<1> QED
  BY <1>2, <1>3 DEF ExportKeepsItsPromise, After

\* Nothing sensitive leaves unasked or past a redactor, and what is cut off or was
\* never retained is marked as missing, for every report and every set of options
\* (export.go:527-619, 1169-1328).
THEOREM PromiseKept == Spec => []ExportKeepsItsPromise
<1> QED
  BY ExportInvariant, ExportableInit, ExportableStep, PromiseFollows, PTL DEF Spec

----------------------------------------------------------------------------
(* The numbers behind the pointers.                                        *)

\* Once put together, the report is the results and what was added; the document's
\* pointers lead to numbers, which are the report's until somebody writes.
Assembled ==
  /\ stage \in {"evaluating", "assembled", "exported", "withheld", "recorded", "unrecorded"}
  /\ stage = "evaluating" => report = <<>>
  /\ stage # "evaluating" => at > Len(input.suite) /\ report = results \o input.given
  /\ stage \in After => DOMAIN AllOwned(report) \subseteq DOMAIN cells
  /\ edits \in 0..MaxEdits
  /\ stage = "exported" /\ edits = 0 => cells = AllOwned(report)

\* The numbers are found at the addresses that are made for them.
LEMMA OwnedCells ==
  ASSUME NEW rs, NEW i \in DOMAIN rs
  PROVE  /\ \A f \in DOMAIN rs[i].facts :
              /\ <<"report", i, f>> \in DOMAIN AllOwned(rs) /\ <<"export", i, f>> \in DOMAIN AllOwned(rs)
              /\ AllOwned(rs)[<<"report", i, f>>] = rs[i].facts[f]
              /\ AllOwned(rs)[<<"export", i, f>>] = rs[i].facts[f]
         /\ \A c \in DOMAIN ExportCounts(rs[i]) :
              /\ <<"export", i, c>> \in DOMAIN AllOwned(rs)
              /\ c \notin DOMAIN rs[i].facts =>
                   AllOwned(rs)[<<"export", i, c>>] = ExportCounts(rs[i])[c]
<1> DEFINE r == rs[i]
<1>1. ASSUME NEW f \in DOMAIN r.facts, NEW tag \in {"report", "export"}
      PROVE  <<tag, i, f>> \in DOMAIN Owned(i, r) /\ Owned(i, r)[<<tag, i, f>>] = r.facts[f]
  <2> DEFINE a == <<tag, i, f>>
  <2>1. a \in DOMAIN Owned(i, r) /\ a[3] = f
    BY DEF Owned
  <2>2. Owned(i, r)[a] = IF a[3] \in DOMAIN r.facts THEN r.facts[a[3]] ELSE ExportCounts(r)[a[3]]
    BY <2>1 DEF Owned
  <2> QED
    BY <2>1, <2>2
<1>2. ASSUME NEW c \in DOMAIN ExportCounts(r)
      PROVE  /\ <<"export", i, c>> \in DOMAIN Owned(i, r)
             /\ c \notin DOMAIN r.facts => Owned(i, r)[<<"export", i, c>>] = ExportCounts(r)[c]
  <2> DEFINE a == <<"export", i, c>>
  <2>1. a \in DOMAIN Owned(i, r) /\ a[3] = c
    BY DEF Owned
  <2>2. Owned(i, r)[a] = IF a[3] \in DOMAIN r.facts THEN r.facts[a[3]] ELSE ExportCounts(r)[a[3]]
    BY <2>1 DEF Owned
  <2> QED
    BY <2>1, <2>2
<1>3. ASSUME NEW tag, NEW f, <<tag, i, f>> \in DOMAIN Owned(i, r)
      PROVE  /\ <<tag, i, f>> \in DOMAIN AllOwned(rs)
             /\ AllOwned(rs)[<<tag, i, f>>] = Owned(i, r)[<<tag, i, f>>]
  <2> DEFINE a == <<tag, i, f>>
  <2>1. a[2] = i
    OBVIOUS
  <2>2. a \in UNION {DOMAIN Owned(j, rs[j]) : j \in DOMAIN rs}
    BY <1>3
  <2>3. DOMAIN AllOwned(rs) = UNION {DOMAIN Owned(j, rs[j]) : j \in DOMAIN rs}
    BY DEF AllOwned
  <2>4. AllOwned(rs)[a] = Owned(a[2], rs[a[2]])[a]
    BY <2>2, Zenon DEF AllOwned
  <2> HIDE DEF a
  <2>5. AllOwned(rs)[a] = Owned(i, r)[a]
    BY <2>1, <2>4
  <2> QED
    BY <2>2, <2>3, <2>5 DEF a
<1> HIDE DEF r
<1>4. \A f \in DOMAIN r.facts :
        /\ <<"report", i, f>> \in DOMAIN AllOwned(rs) /\ <<"export", i, f>> \in DOMAIN AllOwned(rs)
        /\ AllOwned(rs)[<<"report", i, f>>] = r.facts[f]
        /\ AllOwned(rs)[<<"export", i, f>>] = r.facts[f]
  BY <1>1, <1>3
<1>5. \A c \in DOMAIN ExportCounts(r) :
        /\ <<"export", i, c>> \in DOMAIN AllOwned(rs)
        /\ c \notin DOMAIN r.facts => AllOwned(rs)[<<"export", i, c>>] = ExportCounts(r)[c]
  BY <1>2, <1>3
<1> QED
  BY <1>4, <1>5 DEF r

\* The pointer to a fact is the report's or the document's own.
LEMMA FactPointers ==
  ASSUME NEW i, NEW facts
  PROVE  /\ DOMAIN ExportFacts(i, facts) = DOMAIN facts
         /\ \A f \in DOMAIN facts : \/ ExportFacts(i, facts)[f] = <<"report", i, f>>
                                    \/ ExportFacts(i, facts)[f] = <<"export", i, f>>
<1>1. ASSUME NEW f \in DOMAIN facts
      PROVE  \/ ExportFacts(i, facts)[f] = <<"report", i, f>>
             \/ ExportFacts(i, facts)[f] = <<"export", i, f>>
  <2>1. ExportFacts(i, facts)[f] = <<IF f \in Passed THEN "report" ELSE "export", i, f>>
    BY DEF ExportFacts
  <2>2. CASE f \in Passed
    BY <2>1, <2>2, Zenon
  <2>3. CASE f \notin Passed
    BY <2>1, <2>3, Zenon
  <2> QED
    BY <2>2, <2>3
<1>2. DOMAIN ExportFacts(i, facts) = DOMAIN facts
  BY DEF ExportFacts
<1> QED
  BY <1>1, <1>2

\* Nothing is evaluated or written once the suite is at its end.
LEMMA DueWithin ==
  ASSUME Evaluate \/ Write
  PROVE  at <= Len(input.suite)
<1>1. \A kinds : Due(kinds) => at <= Len(input.suite)
  BY DEF Due
<1> QED
  BY <1>1 DEF Evaluate, Write, EvalTableCount, EvalDistinctCount, EvalAverage, EvalBound, EvalSum,
       EvalStdDev, EvalFreshSince, ResolveScopedTotal, FractionWithoutTotal, EvalRate,
       EvalDominantShare, CountLeft, CountRight, EvalCustomCount, EvalStructural,
       EvalNullability, EvalColumnType

\* There is no report in the beginning.
LEMMA AssembledInit == Init => Assembled
<1> QED
  BY ExportBoundsAssumption DEF Init, Assembled, After

\* Every step keeps the report whole and its numbers in place.
LEMMA AssembledStep == Exportable /\ Assembled /\ [Next]_vars => Assembled'
<1> SUFFICES ASSUME Exportable, Assembled, [Next]_vars PROVE Assembled'
  OBVIOUS
<1>0. MaxEdits \in Nat /\ at \in Nat /\ Len(input.suite) \in Nat
  <2>1. at \in Nat /\ input.suite \in Seq(Expectation)
    BY CasesAssumption DEF Exportable, EvaluationInv, WellCounted
  <2> QED
    BY <2>1, LenProperties, ExportBoundsAssumption
<1>1. CASE (Evaluate \/ Write) /\ UNCHANGED exportVars
  <2>1. input' = input /\ UNCHANGED <<stage, report, cells, edits>>
    BY <1>1, InputStays DEF exportVars
  <2>2. stage = "evaluating"
    BY <1>0, <1>1, DueWithin DEF Assembled
  <2> QED
    BY <2>1, <2>2 DEF Assembled, After
<1>2. CASE Assemble
  <2>1. UNCHANGED <<input, at, results, cells, edits>> /\ at > Len(input.suite)
    BY <1>2 DEF Assemble, evaluation, Evaluated
  <2>2. stage' = "assembled" /\ report' = results \o input.given
    BY <1>2 DEF Assemble
  <2> QED
    BY <2>1, <2>2 DEF Assembled, After
<1>3. CASE ExportReport
  <2>1. UNCHANGED <<input, at, results, report, edits>> /\ stage = "assembled"
    BY <1>3 DEF ExportReport, evaluation
  <2>2. \/ stage' = "withheld"
        \/ stage' = "exported" /\ cells' = AllOwned(report)
    BY <1>3 DEF ExportReport
  <2>3. CASE stage' = "withheld"
    BY <2>1, <2>3 DEF Assembled, After
  <2>4. CASE stage' = "exported" /\ cells' = AllOwned(report)
    <3>1. AllOwned(report)' = AllOwned(report)
      BY <2>1
    <3> QED
      BY <2>1, <2>4, <3>1 DEF Assembled, After
  <2> QED
    BY <2>2, <2>3, <2>4
<1>4. CASE MeasurementRecordsFromExport
  <2>1. UNCHANGED <<input, at, results, report, edits>> /\ stage = "exported"
    BY <1>4 DEF MeasurementRecordsFromExport, evaluation
  <2>2. stage' \in {"recorded", "unrecorded"} /\ DOMAIN cells \subseteq DOMAIN cells'
    BY <1>4 DEF MeasurementRecordsFromExport
  <2>3. AllOwned(report)' = AllOwned(report)
    BY <2>1
  <2> QED
    BY <2>1, <2>2, <2>3 DEF Assembled, After
<1>5. CASE Edit
  <2>1. UNCHANGED <<input, at, results, report, stage>> /\ DOMAIN cells' = DOMAIN cells
    BY <1>5 DEF Edit, evaluation
  <2>2. edits' = edits + 1 /\ edits < MaxEdits
    BY <1>5 DEF Edit
  <2>3. AllOwned(report)' = AllOwned(report)
    BY <2>1
  <2>4. edits' \in 0..MaxEdits /\ edits' # 0
    BY <1>0, <2>2 DEF Assembled
  <2> QED
    BY <2>1, <2>3, <2>4 DEF Assembled
<1>6. CASE UNCHANGED vars
  <2>1. UNCHANGED <<input, at, results, report, stage, cells, edits>>
    BY <1>6 DEF vars, evaluation, exportVars
  <2>2. AllOwned(report)' = AllOwned(report)
    BY <2>1
  <2> QED
    BY <2>1, <2>2 DEF Assembled
<1> QED
  BY <1>1, <1>2, <1>3, <1>4, <1>5, <1>6 DEF Next

\* All of it together is in every reachable state.
LEMMA ReportInvariant == Spec => [](ExportInv /\ Exportable /\ Assembled)
<1> QED
  BY ExportInvariant, ExportableInit, ExportableStep, AssembledInit, AssembledStep, PTL DEF Spec

----------------------------------------------------------------------------
(* Types, and verdicts from facts.                                         *)

\* A list made from a list one for one is as long.
LEMMA MadeFromList ==
  ASSUME NEW s, IsList(s), NEW t, t = [i \in DOMAIN s |-> t[i]]
  PROVE  Len(t) = Len(s)
<1>1. Len(s) \in Nat /\ DOMAIN s = 1..Len(s)
  BY LenProperties DEF IsList
<1>2. t \in [1..Len(s) -> Range(t)] /\ DOMAIN t = 1..Len(s)
  BY <1>1 DEF Range
<1>3. t \in Seq(Range(t))
  BY <1>1, <1>2, SeqDef
<1>4. Len(t) \in Nat /\ DOMAIN t = 1..Len(t)
  BY <1>3, LenProperties
<1> QED
  BY <1>1, <1>2, <1>4

\* The report is a list that begins with the results.
LEMMA ReportBegins ==
  ASSUME Exportable, Assembled
  PROVE  /\ IsList(report)
         /\ stage # "evaluating" =>
              \A i \in DOMAIN results : i \in DOMAIN report /\ report[i] = results[i]
<1>1. WellCounted
  BY DEF Exportable, EvaluationInv
<1>2. CASE stage = "evaluating"
  <2>1. report = <<>>
    BY <1>2 DEF Assembled
  <2> QED
    BY <1>2, <2>1 DEF IsList
<1>3. CASE stage # "evaluating"
  <2> DEFINE given == input.given
             S == Range(results) \cup Range(given)
  <2>1. results \in Seq(Range(results)) /\ given \in Seq(Range(given))
    BY <1>1, GivenSized DEF WellCounted, IsList
  <2>2. Range(results) \subseteq S /\ Range(given) \subseteq S
    OBVIOUS
  <2> HIDE DEF S, given
  <2>3. results \in Seq(S) /\ given \in Seq(S)
    BY <2>1, <2>2
  <2>4. report = results \o given
    BY <1>3 DEF Assembled, given
  <2>5. /\ report \in Seq(S) /\ Len(report) = Len(results) + Len(given)
        /\ \A i \in 1..Len(results) : report[i] = results[i]
    BY <2>3, <2>4, ConcatProperties
  <2>6. /\ DOMAIN results = 1..Len(results) /\ DOMAIN report = 1..Len(report)
        /\ Len(results) \in Nat /\ Len(given) \in Nat
    BY <2>3, <2>5, LenProperties
  <2>7. report \in Seq(Range(report))
    <3>1. report \in [1..Len(report) -> Range(report)] /\ Len(report) \in Nat
      BY <2>5, <2>6, LenProperties DEF Range
    <3> QED
      BY <3>1, SeqDef
  <2> QED
    BY <2>5, <2>6, <2>7 DEF IsList
<1> QED
  BY <1>2, <1>3

\* Every part of the state has its type.
LEMMA TypeFollows == ExportInv /\ Exportable /\ Assembled => TypeOK
<1> SUFFICES ASSUME ExportInv, Exportable, Assembled PROVE TypeOK
  OBVIOUS
<1>1. EvaluationTypeOK
  BY DEF Exportable, EvaluationInv
<1>2. /\ stage \in {"evaluating", "assembled", "exported", "withheld", "recorded", "unrecorded"}
      /\ report # <<>> => stage # "evaluating"
      /\ edits \in 0..MaxEdits
  BY DEF Assembled
<1>3. IsList(report)
  BY ReportBegins
<1>4. Len(<<>>) = 0
  OBVIOUS
<1>5. /\ stage \in After => DOMAIN exported = DOMAIN report /\ exported = [i \in DOMAIN report |-> exported[i]]
      /\ stage \notin After => exported = <<>>
  BY DEF ExportInv, Written
<1>6. Len(exported) \in {0, Len(report)}
  BY <1>3, <1>4, <1>5, MadeFromList
<1>7. Len(records) \in {0, Len(report)}
  <2>1. stage = "recorded" => records = [i \in DOMAIN exported |-> records[i]]
    BY DEF ExportInv, Measured
  <2>2. stage # "recorded" => records = <<>>
    BY DEF ExportInv, Measured
  <2>3. stage = "recorded" => records = [i \in DOMAIN report |-> records[i]]
    BY <1>5, <2>1 DEF After
  <2> QED
    BY <1>3, <1>4, <2>2, <2>3, MadeFromList
<1>8. ASSUME NEW i \in DOMAIN exported
      PROVE  Range(exported[i].facts) \cup Range(exported[i].counts) \subseteq DOMAIN cells
  <2>1. stage \in After /\ i \in DOMAIN report
    BY <1>5
  <2>2. exported[i] = ExportResult(input.options, input.suite # <<>>, i, report[i])
    BY <2>1 DEF ExportInv, Written
  <2> DEFINE r == report[i]
  <2>3. /\ exported[i].facts = ExportFacts(i, r.facts)
        /\ exported[i].counts = [c \in DOMAIN ExportCounts(r) |-> <<"export", i, c>>]
    BY <2>2 DEF ExportResult
  <2>4. /\ \A f \in DOMAIN r.facts :
             <<"report", i, f>> \in DOMAIN cells /\ <<"export", i, f>> \in DOMAIN cells
        /\ \A c \in DOMAIN ExportCounts(r) : <<"export", i, c>> \in DOMAIN cells
    BY <2>1, OwnedCells DEF Assembled
  <2> HIDE DEF r
  <2>5. Range(exported[i].facts) \subseteq DOMAIN cells
    <3>1. /\ DOMAIN exported[i].facts = DOMAIN r.facts
          /\ \A f \in DOMAIN r.facts : \/ exported[i].facts[f] = <<"report", i, f>>
                                       \/ exported[i].facts[f] = <<"export", i, f>>
      <4> DEFINE p == ExportFacts(i, r.facts)
      <4>1. /\ DOMAIN p = DOMAIN r.facts
            /\ \A f \in DOMAIN r.facts : p[f] = <<"report", i, f>> \/ p[f] = <<"export", i, f>>
        BY FactPointers
      <4>2. exported[i].facts = p
        BY <2>3
      <4> HIDE DEF p
      <4> QED
        BY <4>1, <4>2
    <3>2. \A f \in DOMAIN r.facts : exported[i].facts[f] \in DOMAIN cells
      BY <2>4, <3>1
    <3> QED
      BY <3>1, <3>2 DEF Range
  <2>6. Range(exported[i].counts) \subseteq DOMAIN cells
    BY <2>3, <2>4 DEF Range
  <2> QED
    BY <2>5, <2>6
<1>9. \A i \in DOMAIN records :
        Range(records[i].facts) \cup Range(records[i].counts) \subseteq DOMAIN cells
  BY DEF ExportInv, Held, Range
<1> QED
  BY <1>1, <1>2, <1>6, <1>7, <1>8, <1>9 DEF TypeOK

\* Every part of the state has its type, and every pointer of the document and of
\* the records leads to a number (export.go:434-524).
THEOREM ReportTyped == Spec => []TypeOK
<1> QED
  BY ReportInvariant, TypeFollows, PTL

\* Behind the pointers of an untouched document are the report's numbers.
LEMMA SeenFacts ==
  ASSUME NEW o, NEW targeted, NEW i \in DOMAIN report, NEW r, r = report[i], Facts(r.facts),
         cells = AllOwned(report)
  PROVE  LET x == ExportResult(o, targeted, i, r)
         IN /\ Seen(x.facts) = r.facts
            /\ \A c \in DOMAIN ExportCounts(r) \ DOMAIN r.facts : Seen(x.counts)[c] = ExportCounts(r)[c]
<1> DEFINE x == ExportResult(o, targeted, i, r)
<1>1. /\ x.facts = ExportFacts(i, r.facts)
      /\ x.counts = [c \in DOMAIN ExportCounts(r) |-> <<"export", i, c>>]
  BY DEF ExportResult
<1> HIDE DEF x
<1>2. /\ \A f \in DOMAIN r.facts :
           cells[<<"report", i, f>>] = r.facts[f] /\ cells[<<"export", i, f>>] = r.facts[f]
      /\ \A c \in DOMAIN ExportCounts(r) :
           c \notin DOMAIN r.facts => cells[<<"export", i, c>>] = ExportCounts(r)[c]
  BY OwnedCells
<1>3. DOMAIN Seen(x.facts) = DOMAIN r.facts /\ \A f \in DOMAIN r.facts : Seen(x.facts)[f] = r.facts[f]
  <2>1. /\ DOMAIN x.facts = DOMAIN r.facts
        /\ \A f \in DOMAIN r.facts : \/ x.facts[f] = <<"report", i, f>>
                                     \/ x.facts[f] = <<"export", i, f>>
    <3> DEFINE p == ExportFacts(i, r.facts)
    <3>1. /\ DOMAIN p = DOMAIN r.facts
          /\ \A f \in DOMAIN r.facts : p[f] = <<"report", i, f>> \/ p[f] = <<"export", i, f>>
      BY FactPointers
    <3>2. x.facts = p
      BY <1>1
    <3> HIDE DEF p
    <3> QED
      BY <3>1, <3>2
  <2>2. \A f \in DOMAIN r.facts : cells[x.facts[f]] = r.facts[f]
    BY <1>2, <2>1
  <2> QED
    BY <2>1, <2>2 DEF Seen
<1>4. Seen(x.facts) = r.facts
  <2>1. Seen(x.facts) = [f \in DOMAIN r.facts |-> r.facts[f]]
    BY <1>1, <1>3 DEF Seen
  <2> QED
    BY <2>1 DEF Facts
<1>5. \A c \in DOMAIN ExportCounts(r) \ DOMAIN r.facts : Seen(x.counts)[c] = ExportCounts(r)[c]
  BY <1>1, <1>2 DEF Seen
<1> QED
  BY <1>4, <1>5 DEF x

\* An untouched document says of every verdict why.
LEMMA VerdictFollows == ExportInv /\ Exportable /\ Assembled => VerdictFollowsFacts
<1> SUFFICES ASSUME ExportInv, Exportable, Assembled, stage = "exported", edits = 0,
                    NEW i \in DOMAIN results, exported[i].errors = <<>>
             PROVE  LET e == input.suite[i]
                        x == exported[i]
                        facts == Seen(x.facts)
                        counts == Seen(x.counts)
                        passed == x.verdict = "pass"
                    IN /\ x.verdict \in {"pass", "fail"}
                       /\ e.kind # "Custom" => (passed <=> Vacuous(e.kind, facts) \/ Supports(e, x, facts))
                       /\ e.kind \in {"Custom", "Reconcile"} => (passed <=> counts["failed"] = Whole(0))
  BY DEF VerdictFollowsFacts
<1> DEFINE e == input.suite[i]
           r == results[i]
           o == input.options
           targeted == input.suite # <<>>
           x == ExportResult(o, targeted, i, r)
<1>1. i \in DOMAIN report /\ report[i] = r
  BY ReportBegins
<1>2. exported[i] = x
  BY <1>1 DEF ExportInv, Written, After
<1>3. cells = AllOwned(report)
  BY DEF Assembled
<1>4. /\ x.errors = ExportError(r.err) /\ x.verdict = PolicyVerdict(r)
      /\ x.missing = r.missing /\ x.unexpected = r.unexpected
      /\ x.claim = r.claim /\ x.reported = r.reported
  BY DEF ExportResult
<1> HIDE DEF e, r, o, targeted, x
<1>5. r.err = "none"
  <2>1. \A err : <<err>> # <<>>
    OBVIOUS
  <2> QED
    BY <1>2, <1>4, <2>1 DEF ExportError
<1>6. Bears(e, r)
  BY <1>5 DEF Exportable, EvaluationInv, Borne, e, r
<1>7. Facts(r.facts)
  BY <1>6 DEF Bears
<1>8. /\ Seen(x.facts) = r.facts
      /\ \A c \in DOMAIN ExportCounts(r) \ DOMAIN r.facts : Seen(x.counts)[c] = ExportCounts(r)[c]
  BY <1>1, <1>3, <1>7, SeenFacts DEF x
<1>9. x.verdict \in {"pass", "fail"} /\ (x.verdict = "pass" <=> r.success)
  BY <1>4, <1>5 DEF PolicyVerdict
<1>10. \A facts : Supports(e, x, facts) <=> Supports(e, r, facts)
  BY <1>4 DEF Supports
<1>11. e.kind # "Custom" => (r.success <=> Vacuous(e.kind, r.facts) \/ Supports(e, x, r.facts))
  BY <1>6, <1>10 DEF Bears
<1>12. ASSUME e.kind \in {"Custom", "Reconcile"}
       PROVE  r.success <=> Seen(x.counts)["failed"] = Whole(0)
  <2>1. /\ r.shape \in {"custom", "reconcile"} /\ "failed" \notin DOMAIN r.facts
        /\ (r.success <=> r.failed = 0)
    BY <1>6, <1>12 DEF Bears
  <2>2. ExportCounts(r) = Fact("failed", Whole(r.failed))
    BY <1>5, <2>1 DEF ExportCounts
  <2>3. DOMAIN ExportCounts(r) = {"failed"} /\ ExportCounts(r)["failed"] = Whole(r.failed)
    BY <2>2 DEF Fact
  <2>4. Seen(x.counts)["failed"] = Whole(r.failed)
    BY <1>8, <2>1, <2>3
  <2>5. Whole(r.failed) = Whole(0) <=> r.failed = 0
    BY DEF Whole, Num
  <2> QED
    BY <2>1, <2>4, <2>5
<1> QED
  BY <1>2, <1>8, <1>9, <1>11, <1>12 DEF e

\* Whoever has only the document can check its verdicts: an evaluated expectation
\* passed exactly if its exported facts say so, for every suite, every table and
\* every interleaving of statements and writes (export.go:527-619).
THEOREM VerdictsBorneOut == Spec => []VerdictFollowsFacts
<1> QED
  BY ReportInvariant, VerdictFollows, PTL


----------------------------------------------------------------------------
(* More about sums.                                                        *)

\* What holds of the empty set, and of every set that it holds of without one of its
\* elements, holds of a finite set.
LEMMA SetsInduce ==
  ASSUME NEW D, IsFiniteSet(D), NEW H, {} \in H,
         \A s \in SUBSET D : \A x \in s : s \ {x} \in H => s \in H
  PROVE  D \in H
<1> DEFINE K == {s \in SUBSET D : s \notin H}
<1>1. K = {}
  <2> SUFFICES ASSUME K # {} PROVE FALSE
    OBVIOUS
  <2>0. K \in SUBSET (SUBSET D)
    OBVIOUS
  <2> HIDE DEF K
  <2>1. PICK s \in K : \A t \in SUBSET s : t # s => t \notin K
    BY <2>0, LeastSet, Zenon
  <2> USE DEF K
  <2>2. PICK x \in s : TRUE
    OBVIOUS
  <2>3. s \ {x} \in SUBSET s /\ s \ {x} # s /\ s \ {x} \in SUBSET D
    BY <2>2
  <2>4. s \ {x} \in H
    BY <2>1, <2>3
  <2> QED
    BY <2>2, <2>4
<1> QED
  BY <1>1

\* Sums of the same numbers are the same.
LEMMA SumsAgree ==
  ASSUME NEW S, IsFiniteSet(S), NEW f, NEW g, \A x \in S : f[x] \in Int /\ g[x] = f[x]
  PROVE  SumFunctionOnSet(f, S) = SumFunctionOnSet(g, S)
<1> DEFINE H == {s \in SUBSET S : SumFunctionOnSet(f, s) = SumFunctionOnSet(g, s)}
<1>1. ASSUME NEW s \in SUBSET S
      PROVE  /\ SumFunctionOnSet(f, {}) = 0 /\ SumFunctionOnSet(g, {}) = 0
             /\ \A x \in s : /\ SumFunctionOnSet(f, s) = f[x] + SumFunctionOnSet(f, s \ {x})
                             /\ SumFunctionOnSet(g, s) = g[x] + SumFunctionOnSet(g, s \ {x})
  <2>1. IsFiniteSet(s) /\ (\A x \in s : f[x] \in Int) /\ (\A x \in s : g[x] \in Int)
    BY FS_Subset
  <2> QED
    BY <2>1, SumRule
<1>2. {} \in H
  BY <1>1
<1>3. ASSUME NEW s \in SUBSET S, NEW x \in s, s \ {x} \in H
      PROVE  s \in H
  BY <1>1, <1>3
<1> HIDE DEF H
<1>4. S \in H
  BY <1>2, <1>3, SetsInduce
<1> QED
  BY <1>4 DEF H

\* A sum is that over a part and that over the rest.
LEMMA SumApart ==
  ASSUME NEW S, IsFiniteSet(S), NEW f, \A x \in S : f[x] \in Int, NEW T \in SUBSET S
  PROVE  /\ SumFunctionOnSet(f, T) \in Int /\ SumFunctionOnSet(f, S \ T) \in Int
         /\ SumFunctionOnSet(f, S) = SumFunctionOnSet(f, T) + SumFunctionOnSet(f, S \ T)
<1> DEFINE H == {t \in SUBSET T : SumFunctionOnSet(f, S)
                                    = SumFunctionOnSet(f, t) + SumFunctionOnSet(f, S \ t)}
<1>1. ASSUME NEW s \in SUBSET S
      PROVE  /\ SumFunctionOnSet(f, {}) = 0 /\ SumFunctionOnSet(f, s) \in Int
             /\ \A x \in s : SumFunctionOnSet(f, s) = f[x] + SumFunctionOnSet(f, s \ {x})
  <2>1. IsFiniteSet(s) /\ \A x \in s : f[x] \in Int
    BY FS_Subset
  <2> QED
    BY <2>1, SumRule
<1>2. {} \in H
  <2>1. S \ {} = S /\ S \in SUBSET S
    OBVIOUS
  <2> QED
    BY <1>1, <2>1
<1>3. ASSUME NEW t \in SUBSET T, NEW x \in t, t \ {x} \in H
      PROVE  t \in H
  <2>1. /\ t \in SUBSET S /\ S \ (t \ {x}) \in SUBSET S /\ x \in S \ (t \ {x})
        /\ (S \ (t \ {x})) \ {x} = S \ t /\ t \ {x} \in SUBSET S /\ S \ t \in SUBSET S
    OBVIOUS
  <2>2. SumFunctionOnSet(f, t) = f[x] + SumFunctionOnSet(f, t \ {x})
    BY <1>1, <2>1
  <2>3. SumFunctionOnSet(f, S \ (t \ {x})) = f[x] + SumFunctionOnSet(f, S \ t)
    BY <1>1, <2>1
  <2>4. /\ SumFunctionOnSet(f, t \ {x}) \in Int /\ SumFunctionOnSet(f, S \ t) \in Int
        /\ f[x] \in Int
    BY <1>1, <2>1
  <2>5. SumFunctionOnSet(f, S) = SumFunctionOnSet(f, t \ {x}) + SumFunctionOnSet(f, S \ (t \ {x}))
    BY <1>3
  <2>6. SumFunctionOnSet(f, S) = SumFunctionOnSet(f, t) + SumFunctionOnSet(f, S \ t)
    BY <2>2, <2>3, <2>4, <2>5
  <2> QED
    BY <2>6
<1> HIDE DEF H
<1>4. IsFiniteSet(T)
  BY FS_Subset
<1>5. T \in H
  BY <1>2, <1>3, <1>4, SetsInduce
<1>6. S \ T \in SUBSET S
  OBVIOUS
<1> QED
  BY <1>1, <1>5, <1>6 DEF H

\* The sum of one number over and over.
LEMMA SumConstant ==
  ASSUME NEW S, IsFiniteSet(S), NEW f, NEW c \in Int, \A x \in S : f[x] = c
  PROVE  SumFunctionOnSet(f, S) = c * Cardinality(S)
<1> DEFINE H == {s \in SUBSET S : SumFunctionOnSet(f, s) = c * Cardinality(s)}
<1>1. ASSUME NEW s \in SUBSET S
      PROVE  /\ SumFunctionOnSet(f, {}) = 0 /\ Cardinality(s) \in Nat /\ IsFiniteSet(s)
             /\ \A x \in s : /\ SumFunctionOnSet(f, s) = c + SumFunctionOnSet(f, s \ {x})
                             /\ Cardinality(s) = Cardinality(s \ {x}) + 1
                             /\ Cardinality(s \ {x}) \in Nat
  <2>1. IsFiniteSet(s) /\ \A x \in s : f[x] \in Int /\ f[x] = c
    BY FS_Subset
  <2>2. /\ SumFunctionOnSet(f, {}) = 0
        /\ \A x \in s : SumFunctionOnSet(f, s) = f[x] + SumFunctionOnSet(f, s \ {x})
    BY <2>1, SumRule
  <2>3. Cardinality(s) \in Nat
    BY <2>1, FS_CardinalityType
  <2>4. ASSUME NEW x \in s
        PROVE  Cardinality(s) = Cardinality(s \ {x}) + 1 /\ Cardinality(s \ {x}) \in Nat
    <3>1. IsFiniteSet(s \ {x}) /\ Cardinality(s \ {x}) = Cardinality(s) - 1
      BY <2>1, FS_RemoveElement
    <3>2. Cardinality(s \ {x}) \in Nat
      BY <3>1, FS_CardinalityType
    <3> QED
      BY <2>3, <3>1, <3>2
  <2> QED
    BY <2>1, <2>2, <2>3, <2>4
<1>2. {} \in H
  <2>1. Cardinality({}) = 0
    BY FS_EmptySet
  <2>2. SumFunctionOnSet(f, {}) = c * 0
    BY <1>1
  <2> QED
    BY <2>1, <2>2
<1>3. ASSUME NEW s \in SUBSET S, NEW x \in s, s \ {x} \in H
      PROVE  s \in H
  <2> DEFINE n == Cardinality(s \ {x})
  <2>1. n \in Nat /\ Cardinality(s) = n + 1 /\ SumFunctionOnSet(f, s) = c + SumFunctionOnSet(f, s \ {x})
    BY <1>1
  <2>2. SumFunctionOnSet(f, s \ {x}) = c * n
    BY <1>3
  <2> HIDE DEF n
  <2>3. c + c * n = c * (n + 1)
    BY <2>1
  <2> QED
    BY <2>1, <2>2, <2>3
<1> HIDE DEF H
<1>4. S \in H
  BY <1>2, <1>3, SetsInduce
<1> QED
  BY <1>4 DEF H

\* A sum over tokens of what they are tokens of: so much for each as there are of it.
LEMMA SumOverTokens ==
  ASSUME NEW S, IsFiniteSet(S), NEW m, \A v \in S : m[v] \in Nat,
         NEW f, \A v \in S : f[v] \in Int,
         NEW F, \A r \in Tokens(m, S) : F[r] = f[r[1]],
         NEW G, \A v \in S : G[v] = f[v] * m[v]
  PROVE  SumFunctionOnSet(F, Tokens(m, S)) = SumFunctionOnSet(G, S)
<1> DEFINE H == {s \in SUBSET S : SumFunctionOnSet(F, Tokens(m, s)) = SumFunctionOnSet(G, s)}
<1>1. \A r \in Tokens(m, S) : r[1] \in S /\ F[r] \in Int
  BY DEF Tokens
<1>2. \A v \in S : G[v] \in Int
  OBVIOUS
<1>3. \A s \in SUBSET S : IsFiniteSet(s) /\ IsFiniteSet(Tokens(m, s)) /\ Tokens(m, s) \in SUBSET Tokens(m, S)
  <2> TAKE s \in SUBSET S
  <2>1. IsFiniteSet(s) /\ \A v \in s : m[v] \in Int
    BY FS_Subset
  <2>2. IsFiniteSet(Tokens(m, s))
    BY <2>1, TokensCounted
  <2>3. Tokens(m, s) \in SUBSET Tokens(m, S)
    BY DEF Tokens
  <2> QED
    BY <2>1, <2>2, <2>3
<1>4. {} \in H
  <2>1. Tokens(m, {}) = {}
    BY DEF Tokens
  <2>2. SumFunctionOnSet(F, {}) = 0
    BY <1>1, <1>3, SumRule
  <2>3. SumFunctionOnSet(G, {}) = 0
    BY <1>2, SumRule
  <2> QED
    BY <2>1, <2>2, <2>3
<1>5. ASSUME NEW s \in SUBSET S, NEW x \in s, s \ {x} \in H
      PROVE  s \in H
  <2> DEFINE X == {<<x, k>> : k \in 1..m[x]}
             R == Tokens(m, s \ {x})
             A == Tokens(m, s)
  <2>1. A = R \cup X /\ R \cap X = {}
    BY TokensSplit
  <2>2. A \ X = R /\ X \in SUBSET A
    BY <2>1
  <2>3. m[x] \in Nat /\ m[x] \in Int /\ f[x] \in Int
    OBVIOUS
  <2>4. IsFiniteSet(X) /\ Cardinality(X) = m[x]
    <3>1. IsFiniteSet(X) /\ Cardinality(X) = IF m[x] > 0 THEN m[x] ELSE 0
      BY <2>3, TokensOfOne
    <3> HIDE DEF X
    <3> QED
      BY <2>3, <3>1
  <2>5. \A r \in X : r \in Tokens(m, S) /\ r[1] = x
    <3>1. \A r \in X : r[1] = x
      OBVIOUS
    <3>2. Tokens(m, s) \in SUBSET Tokens(m, S)
      BY <1>3
    <3> HIDE DEF X
    <3> QED
      BY <2>2, <3>1, <3>2
  <2>6. \A r \in X : F[r] = f[x]
    <3> HIDE DEF X
    <3> QED
      BY <2>5
  <2>7. IsFiniteSet(A) /\ \A r \in A : F[r] \in Int
    BY <1>1, <1>3
  <2> HIDE DEF X, R, A
  <2>8. SumFunctionOnSet(F, X) = f[x] * m[x]
    BY <2>3, <2>4, <2>6, SumConstant
  <2>9. /\ SumFunctionOnSet(F, A) = SumFunctionOnSet(F, X) + SumFunctionOnSet(F, A \ X)
        /\ SumFunctionOnSet(F, A \ X) \in Int
    BY <2>2, <2>7, SumApart
  <2>10. SumFunctionOnSet(F, R) = SumFunctionOnSet(G, s \ {x})
    BY <1>5 DEF R
  <2>11. SumFunctionOnSet(G, s) = G[x] + SumFunctionOnSet(G, s \ {x})
    <3>1. IsFiniteSet(s) /\ \A v \in s : G[v] \in Int
      BY <1>2, <1>3
    <3> QED
      BY <3>1, SumRule
  <2>12. G[x] = f[x] * m[x]
    OBVIOUS
  <2>13. SumFunctionOnSet(F, A) = SumFunctionOnSet(G, s)
    BY <2>2, <2>8, <2>9, <2>10, <2>11, <2>12
  <2> QED
    BY <2>13 DEF A
<1> HIDE DEF H
<1>6. S \in H
  BY <1>4, <1>5, SetsInduce
<1> QED
  BY <1>6 DEF H

\* The squared differences of one number and several.
LEMMA SumOfDifferences ==
  ASSUME NEW V, IsFiniteSet(V), NEW val, \A x \in V : val[x] \in Int,
         NEW sq, \A x \in V : sq[x] = val[x] * val[x],
         NEW u \in V, NEW P, \A y \in V : P[<<u, y>>] = (val[u] - val[y]) * (val[u] - val[y])
  PROVE  SumFunctionOnSet(P, {u} \X V)
           = val[u] * val[u] * Cardinality(V) - 2 * val[u] * SumFunctionOnSet(val, V)
             + SumFunctionOnSet(sq, V)
<1> DEFINE a == val[u]
           H == {s \in SUBSET V : SumFunctionOnSet(P, {u} \X s)
                   = a * a * Cardinality(s) - 2 * a * SumFunctionOnSet(val, s) + SumFunctionOnSet(sq, s)}
<1>1. a \in Int /\ a * a \in Int
  OBVIOUS
<1>2. ASSUME NEW s \in SUBSET V
      PROVE  /\ IsFiniteSet({u} \X s) /\ IsFiniteSet(s)
             /\ \A y \in s : val[y] \in Int /\ sq[y] \in Int /\ P[<<u, y>>] \in Int
             /\ \A p \in {u} \X s : P[p] \in Int
  <2>1. IsFiniteSet(s) /\ IsFiniteSet({u})
    BY FS_Subset, FS_Singleton
  <2>2. IsFiniteSet({u} \X s)
    BY <2>1, FS_Product
  <2>3. \A y \in s : val[y] \in Int /\ sq[y] \in Int /\ P[<<u, y>>] \in Int
    OBVIOUS
  <2>4. ASSUME NEW p \in {u} \X s PROVE P[p] \in Int
    <3>1. PICK y \in s : p = <<u, y>>
      OBVIOUS
    <3> QED
      BY <2>3, <3>1
  <2> QED
    BY <2>1, <2>2, <2>3, <2>4
<1>3. {} \in H
  <2>1. {u} \X {} = {} /\ Cardinality({}) = 0
    BY FS_EmptySet
  <2>2. {} \in SUBSET V
    OBVIOUS
  <2>3. IsFiniteSet({u} \X {}) /\ \A p \in {u} \X {} : P[p] \in Int
    BY <1>2, <2>2
  <2>4. SumFunctionOnSet(P, {}) = 0
    BY <2>3, SumRule
  <2>5. SumFunctionOnSet(val, {}) = 0 /\ SumFunctionOnSet(sq, {}) = 0
    <3>1. IsFiniteSet({}) /\ (\A y \in {} : val[y] \in Int) /\ (\A y \in {} : sq[y] \in Int)
      BY FS_EmptySet
    <3> QED
      BY <3>1, SumRule
  <2>6. 0 = a * a * 0 - 2 * a * 0 + 0
    BY <1>1
  <2>7. SumFunctionOnSet(P, {u} \X {})
          = a * a * Cardinality({}) - 2 * a * SumFunctionOnSet(val, {}) + SumFunctionOnSet(sq, {})
    BY <2>1, <2>4, <2>5, <2>6, Zenon
  <2> HIDE DEF a
  <2> QED
    BY <2>7
<1>4. ASSUME NEW s \in SUBSET V, NEW x \in s, s \ {x} \in H
      PROVE  s \in H
  <2> DEFINE t == s \ {x}
             n == Cardinality(t)
             v == SumFunctionOnSet(val, t)
             q == SumFunctionOnSet(sq, t)
             w == SumFunctionOnSet(P, {u} \X t)
             b == val[x]
  <2>1. t \in SUBSET V /\ b \in Int /\ sq[x] = b * b
    OBVIOUS
  <2>2. n \in Nat /\ Cardinality(s) = n + 1
    <3>1. IsFiniteSet(s) /\ IsFiniteSet(t)
      BY <1>2, <2>1
    <3>2. n \in Nat /\ Cardinality(s) \in Nat
      BY <3>1, FS_CardinalityType
    <3>3. n = Cardinality(s) - 1
      BY <3>1, FS_RemoveElement
    <3> QED
      BY <3>2, <3>3
  <2>3. v \in Int /\ SumFunctionOnSet(val, s) = b + v
    <3>1. IsFiniteSet(s) /\ IsFiniteSet(t) /\ (\A y \in s : val[y] \in Int) /\ (\A y \in t : val[y] \in Int)
      BY <1>2, <2>1
    <3> QED
      BY <3>1, SumRule
  <2>4. q \in Int /\ SumFunctionOnSet(sq, s) = b * b + q
    <3>1. IsFiniteSet(s) /\ IsFiniteSet(t) /\ (\A y \in s : sq[y] \in Int) /\ (\A y \in t : sq[y] \in Int)
      BY <1>2, <2>1
    <3> QED
      BY <2>1, <3>1, SumRule
  <2>5. SumFunctionOnSet(P, {u} \X s) = (a - b) * (a - b) + w
    <3>1. IsFiniteSet({u} \X s) /\ \A p \in {u} \X s : P[p] \in Int
      BY <1>2
    <3>2. <<u, x>> \in {u} \X s /\ ({u} \X s) \ {<<u, x>>} = {u} \X t
      OBVIOUS
    <3>3. SumFunctionOnSet(P, {u} \X s) = P[<<u, x>>] + SumFunctionOnSet(P, ({u} \X s) \ {<<u, x>>})
      BY <3>1, <3>2, SumRule
    <3>4. P[<<u, x>>] = (a - b) * (a - b)
      OBVIOUS
    <3> QED
      BY <3>2, <3>3, <3>4, Zenon
  <2>6. w = a * a * n - 2 * a * v + q
    BY <1>4
  <2> HIDE DEF a, b, n, v, q, w
  <2>7. (a - b) * (a - b) = a * a - 2 * a * b + b * b
    BY <1>1, <2>1
  <2>8. a * a * (n + 1) = a * a * n + a * a
    BY <1>1, <2>2
  <2>9. 2 * a * (b + v) = 2 * a * b + 2 * a * v
    BY <1>1, <2>1, <2>3
  <2>10. /\ a * a * n \in Int /\ 2 * a * b \in Int /\ 2 * a * v \in Int /\ b * b \in Int
    BY <1>1, <2>1, <2>2, <2>3
  <2>11. (a - b) * (a - b) + w = a * a * (n + 1) - 2 * a * (b + v) + (b * b + q)
    <3> DEFINE i == a * a
               j == a * a * n
               k == 2 * a * b
               l == 2 * a * v
               o == b * b
               c == (a - b) * (a - b)
               d == a * a * (n + 1)
               f == 2 * a * (b + v)
    <3>1. i \in Int /\ j \in Int /\ k \in Int /\ l \in Int /\ o \in Int /\ q \in Int
      BY <1>1, <2>4, <2>10
    <3>2. c = i - k + o /\ w = j - l + q
      BY <2>6, <2>7
    <3>3. d = j + i /\ f = k + l
      BY <2>8, <2>9
    <3> HIDE DEF i, j, k, l, o, c, d, f
    <3>4. c + w = d - f + (o + q)
      BY <3>1, <3>2, <3>3
    <3> QED
      BY <3>4 DEF c, d, f, o
  <2>12. SumFunctionOnSet(P, {u} \X s)
           = a * a * Cardinality(s) - 2 * a * SumFunctionOnSet(val, s) + SumFunctionOnSet(sq, s)
    BY <2>2, <2>3, <2>4, <2>5, <2>11, Zenon
  <2> QED
    BY <2>12
<1> HIDE DEF H
<1>5. V \in H
  BY <1>3, <1>4, SetsInduce
<1> QED
  BY <1>5 DEF H, a

\* The squared differences of all pairs, which the population's deviation is made of.
LEMMA SumOfPairs ==
  ASSUME NEW V, IsFiniteSet(V), NEW val, \A x \in V : val[x] \in Int,
         NEW sq, \A x \in V : sq[x] = val[x] * val[x],
         NEW P, \A x, y \in V : P[<<x, y>>] = (val[x] - val[y]) * (val[x] - val[y])
  PROVE  /\ SumFunctionOnSet(P, V \X V)
              = 2 * (Cardinality(V) * SumFunctionOnSet(sq, V)
                     - SumFunctionOnSet(val, V) * SumFunctionOnSet(val, V))
         /\ SumFunctionOnSet(P, V \X V) \in Nat
<1> DEFINE n == Cardinality(V)
           v == SumFunctionOnSet(val, V)
           q == SumFunctionOnSet(sq, V)
           H == {s \in SUBSET V : SumFunctionOnSet(P, s \X V)
                   = n * SumFunctionOnSet(sq, s) - 2 * v * SumFunctionOnSet(val, s) + q * Cardinality(s)}
<1>1. n \in Nat /\ v \in Int /\ q \in Int
  <2>1. (\A x \in V : val[x] \in Int) /\ (\A x \in V : sq[x] \in Int)
    OBVIOUS
  <2> QED
    BY <2>1, SumRule, FS_CardinalityType
<1>2. ASSUME NEW s \in SUBSET V
      PROVE  /\ IsFiniteSet(s \X V) /\ IsFiniteSet(s)
             /\ (\A y \in s : val[y] \in Int) /\ (\A y \in s : sq[y] \in Int)
             /\ \A p \in s \X V : P[p] \in Nat
  <2>1. IsFiniteSet(s)
    BY FS_Subset
  <2>2. IsFiniteSet(s \X V)
    BY <2>1, FS_Product
  <2>3. (\A y \in s : val[y] \in Int) /\ (\A y \in s : sq[y] \in Int)
    OBVIOUS
  <2>4. ASSUME NEW p \in s \X V PROVE P[p] \in Nat
    <3>1. PICK x \in V, y \in V : p = <<x, y>>
      OBVIOUS
    <3> DEFINE d == val[x] - val[y]
    <3>2. P[p] = d * d /\ d \in Int
      BY <3>1
    <3> HIDE DEF d
    <3>3. d * d >= 0 /\ d * d \in Int
      BY <3>2
    <3> QED
      BY <3>2, <3>3
  <2> QED
    BY <2>1, <2>2, <2>3, <2>4
<1>3. {} \in H
  <2>1. {} \X V = {} /\ Cardinality({}) = 0
    BY FS_EmptySet
  <2>2. SumFunctionOnSet(P, {}) = 0 /\ SumFunctionOnSet(val, {}) = 0 /\ SumFunctionOnSet(sq, {}) = 0
    <3>1. /\ IsFiniteSet({}) /\ (\A y \in {} : val[y] \in Int) /\ (\A y \in {} : sq[y] \in Int)
          /\ \A y \in {} : P[y] \in Int
      BY FS_EmptySet
    <3> QED
      BY <3>1, SumRule
  <2> HIDE DEF n, v, q
  <2>3. 0 = n * 0 - 2 * v * 0 + q * 0
    BY <1>1
  <2>4. SumFunctionOnSet(P, {} \X V)
          = n * SumFunctionOnSet(sq, {}) - 2 * v * SumFunctionOnSet(val, {}) + q * Cardinality({})
    BY <2>1, <2>2, <2>3, Zenon
  <2> QED
    BY <2>4
<1>4. ASSUME NEW s \in SUBSET V, NEW x \in s, s \ {x} \in H
      PROVE  s \in H
  <2> DEFINE t == s \ {x}
             m == Cardinality(t)
             w == SumFunctionOnSet(val, t)
             r == SumFunctionOnSet(sq, t)
             a == val[x]
             W == SumFunctionOnSet(P, t \X V)
             X == SumFunctionOnSet(P, {x} \X V)
  <2>1. t \in SUBSET V /\ a \in Int /\ sq[x] = a * a /\ x \in V
    OBVIOUS
  <2>2. m \in Nat /\ Cardinality(s) = m + 1
    <3>1. IsFiniteSet(s) /\ IsFiniteSet(t)
      BY <1>2, <2>1
    <3>2. m \in Nat /\ Cardinality(s) \in Nat
      BY <3>1, FS_CardinalityType
    <3>3. m = Cardinality(s) - 1
      BY <3>1, FS_RemoveElement
    <3> QED
      BY <3>2, <3>3
  <2>3. w \in Int /\ SumFunctionOnSet(val, s) = a + w
    <3>1. IsFiniteSet(s) /\ IsFiniteSet(t) /\ (\A y \in s : val[y] \in Int) /\ (\A y \in t : val[y] \in Int)
      BY <1>2, <2>1
    <3> QED
      BY <3>1, SumRule
  <2>4. r \in Int /\ SumFunctionOnSet(sq, s) = a * a + r
    <3>1. IsFiniteSet(s) /\ IsFiniteSet(t) /\ (\A y \in s : sq[y] \in Int) /\ (\A y \in t : sq[y] \in Int)
      BY <1>2, <2>1
    <3>2. r \in Int /\ SumFunctionOnSet(sq, s) = sq[x] + r
      BY <3>1, SumRule
    <3> HIDE DEF r
    <3> QED
      BY <2>1, <3>2
  <2>5. SumFunctionOnSet(P, s \X V) = X + W
    <3> DEFINE A == s \X V
               B == {x} \X V
    <3>1. IsFiniteSet(A) /\ \A p \in A : P[p] \in Int
      <4>1. IsFiniteSet(A) /\ \A p \in A : P[p] \in Nat
        BY <1>2, Zenon
      <4> HIDE DEF A
      <4> QED
        BY <4>1
    <3>2. B \in SUBSET A /\ A \ B = t \X V
      <4>1. s = {x} \cup t /\ x \notin t
        OBVIOUS
      <4> HIDE DEF t
      <4>2. A = B \cup (t \X V)
        BY <4>1
      <4>3. B \cap (t \X V) = {}
        BY <4>1
      <4> QED
        BY <4>2, <4>3, Zenon
    <3> HIDE DEF A, B, t
    <3>3. SumFunctionOnSet(P, A) = SumFunctionOnSet(P, B) + SumFunctionOnSet(P, A \ B)
      BY <3>1, <3>2, SumApart
    <3> QED
      BY <3>2, <3>3, Zenon DEF A, B
  <2>6. X = a * a * n - 2 * a * v + q
    <3>1. \A y \in V : P[<<x, y>>] = (val[x] - val[y]) * (val[x] - val[y])
      BY <2>1
    <3> HIDE DEF H
    <3>2. SumFunctionOnSet(P, {x} \X V)
            = val[x] * val[x] * Cardinality(V) - 2 * val[x] * SumFunctionOnSet(val, V)
              + SumFunctionOnSet(sq, V)
      <4> HIDE DEF X, a, n, v, q, t, m, w, r, W
      <4> QED
        BY <2>1, <3>1, SumOfDifferences
    <3> QED
      BY <3>2
  <2>7. W = n * r - 2 * v * w + q * m
    BY <1>4
  <2> HIDE DEF t, m, w, r, a, W, X, n, v, q
  <2>8. /\ n * (a * a + r) = n * (a * a) + n * r
        /\ 2 * v * (a + w) = 2 * v * a + 2 * v * w
        /\ q * (m + 1) = q * m + q
        /\ a * a * n = n * (a * a) /\ 2 * a * v = 2 * v * a
    BY <1>1, <2>1, <2>2, <2>3, <2>4
  <2>9. /\ n * (a * a) \in Int /\ n * r \in Int /\ 2 * v * a \in Int /\ 2 * v * w \in Int /\ q * m \in Int
    BY <1>1, <2>1, <2>2, <2>3, <2>4
  <2>10. X + W = n * (a * a + r) - 2 * v * (a + w) + q * (m + 1)
    <3> DEFINE i == n * (a * a)
               j == n * r
               k == 2 * v * a
               l == 2 * v * w
               o == q * m
               c == n * (a * a + r)
               d == 2 * v * (a + w)
               f == q * (m + 1)
    <3>1. i \in Int /\ j \in Int /\ k \in Int /\ l \in Int /\ o \in Int /\ q \in Int
      BY <1>1, <2>9
    <3>2. X = i - k + q /\ W = j - l + o
      BY <2>6, <2>7, <2>8
    <3>3. c = i + j /\ d = k + l /\ f = o + q
      BY <2>8
    <3> HIDE DEF i, j, k, l, o, c, d, f
    <3>4. X + W = c - d + f
      BY <3>1, <3>2, <3>3
    <3> QED
      BY <3>4 DEF c, d, f
  <2>11. SumFunctionOnSet(P, s \X V)
           = n * SumFunctionOnSet(sq, s) - 2 * v * SumFunctionOnSet(val, s) + q * Cardinality(s)
    BY <2>2, <2>3, <2>4, <2>5, <2>10, Zenon
  <2> QED
    BY <2>11
<1>5. V \in H
  <2> HIDE DEF H
  <2> QED
    BY <1>3, <1>4, SetsInduce
<1>6. SumFunctionOnSet(P, V \X V) = n * q - 2 * v * v + q * n
  BY <1>5
<1>7. SumFunctionOnSet(P, V \X V) = 2 * (n * q - v * v)
  <2> HIDE DEF n, v, q, H
  <2>1. 2 * v * v = 2 * (v * v) /\ q * n = n * q /\ n * q \in Int /\ v * v \in Int
    BY <1>1
  <2> QED
    BY <1>6, <2>1
<1>8. SumFunctionOnSet(P, V \X V) \in Nat
  <2>1. V \in SUBSET V
    OBVIOUS
  <2>2. IsFiniteSet(V \X V) /\ \A p \in V \X V : P[p] \in Nat
    BY <1>2, <2>1
  <2> QED
    BY <2>2, SumOfNaturals
<1> QED
  BY <1>7, <1>8 DEF n, v, q

----------------------------------------------------------------------------
(* What the answers of the database say of the rows.                       *)

\* A finite set of numbers that is not empty has a least, which Min finds.
LEMMA MinRule ==
  ASSUME NEW S \in SUBSET Int, IsFiniteSet(S), S # {}
  PROVE  Min(S) \in S /\ \A y \in S : Min(S) =< y
<1> DEFINE H == {s \in SUBSET S : s # {} => \E x \in s : \A y \in s : x =< y}
<1>1. {} \in H
  OBVIOUS
<1>2. ASSUME NEW s \in SUBSET S, NEW x \in s, s \ {x} \in H
      PROVE  s \in H
  <2>1. x \in Int
    OBVIOUS
  <2>2. CASE s \ {x} = {}
    BY <2>1, <2>2
  <2>3. CASE s \ {x} # {}
    <3>1. PICK m \in s \ {x} : \A y \in s \ {x} : m =< y
      BY <1>2, <2>3
    <3> QED
      BY <2>1, <3>1
  <2> QED
    BY <2>2, <2>3
<1>3. S \in H
  <2> HIDE DEF H
  <2> QED
    BY <1>1, <1>2, SetsInduce
<1>4. \E x \in S : \A y \in S : x =< y
  BY <1>3
<1> QED
  BY <1>4, Zenon DEF Min

\* The rows of some values are counted by COUNT, and are rows of the table.
LEMMA RowsCounted ==
  ASSUME WellCounted
  PROVE  /\ rows \in [Numbers \cup {Null} -> Nat] /\ DOMAIN rows = Numbers \cup {Null}
         /\ TheRows = Tokens(rows, DOMAIN rows) /\ Valued = Tokens(rows, Numbers)
         /\ IsFiniteSet(TheRows) /\ AllRows = Cardinality(TheRows) /\ AllRows \in Nat
         /\ \A s \in SUBSET (Numbers \cup {Null}) :
              /\ Tokens(rows, s) \in SUBSET TheRows
              /\ CountOf(s) = Cardinality(Tokens(rows, s)) /\ CountOf(s) \in Nat /\ CountOf(s) <= AllRows
         /\ \A v \in Numbers \cup {Null} :
              Cardinality({r \in TheRows : r[1] = v}) = rows[v] /\ rows[v] <= AllRows
<1> DEFINE D == Numbers \cup {Null}
<1>1. rows \in [D -> Nat] /\ DOMAIN rows = D /\ \A v \in D : rows[v] \in Nat
  BY DEF WellCounted
<1>2. IsFiniteSet(D) /\ Numbers \in SUBSET D /\ Null \notin Numbers
  <2>1. IsFiniteSet({Null}) /\ IsFiniteSet(Numbers)
    BY NumbersAssumption, FS_Singleton
  <2> QED
    BY <2>1, NumbersAssumption, FS_Union
<1> HIDE DEF D
<1>3. TheRows = Tokens(rows, D)
  BY <1>1, Zenon DEF TheRows, Tokens
<1>4. Valued = Tokens(rows, Numbers)
  <2>1. \A v \in D : v # Null <=> v \in Numbers
    BY <1>2 DEF D
  <2> QED
    BY <1>2, <1>3, <2>1 DEF Valued, Tokens
<1>5. ASSUME NEW s \in SUBSET D
      PROVE  /\ CountOf(s) = Cardinality(Tokens(rows, s)) /\ CountOf(s) \in Nat
             /\ IsFiniteSet(Tokens(rows, s)) /\ Tokens(rows, s) \in SUBSET TheRows
  <2>1. IsFiniteSet(s) /\ (\A x \in s : rows[x] \in Nat) /\ (\A x \in s : rows[x] \in Int)
    BY <1>1, <1>2, FS_Subset
  <2>2. SumFunctionOnSet(rows, s) = Cardinality(Tokens(rows, s)) /\ SumFunctionOnSet(rows, s) \in Nat
    BY <2>1, SumOfNaturals
  <2>3. IsFiniteSet(Tokens(rows, s))
    BY <2>1, TokensCounted
  <2>4. Tokens(rows, s) \in SUBSET TheRows
    BY <1>3 DEF Tokens
  <2> QED
    BY <2>2, <2>3, <2>4 DEF CountOf
<1>6. AllRows = Cardinality(TheRows) /\ AllRows \in Nat /\ IsFiniteSet(TheRows)
  <2>1. D \in SUBSET D
    OBVIOUS
  <2>2. CountOf(D) = Cardinality(Tokens(rows, D)) /\ CountOf(D) \in Nat /\ IsFiniteSet(Tokens(rows, D))
    BY <1>5, <2>1
  <2> QED
    BY <1>1, <1>3, <2>2 DEF AllRows
<1>7. ASSUME NEW s \in SUBSET D
      PROVE  CountOf(s) <= AllRows
  <2>1. Cardinality(Tokens(rows, s)) <= Cardinality(TheRows)
    BY <1>5, <1>6, FS_Subset
  <2> QED
    BY <1>5, <1>6, <2>1
<1>8. ASSUME NEW v \in D
      PROVE  Cardinality({r \in TheRows : r[1] = v}) = rows[v] /\ rows[v] <= AllRows
  <2> DEFINE X == {<<v, k>> : k \in 1..rows[v]}
             Y == {r \in TheRows : r[1] = v}
  <2>1. X = Y
    BY <1>3 DEF Tokens
  <2>2. rows[v] \in Nat /\ rows[v] \in Int
    BY <1>1
  <2>3. Cardinality(X) = IF rows[v] > 0 THEN rows[v] ELSE 0
    BY <2>2, TokensOfOne
  <2>4. Y \in SUBSET TheRows
    OBVIOUS
  <2> HIDE DEF X, Y
  <2>5. Cardinality(Y) <= Cardinality(TheRows)
    BY <1>6, <2>4, FS_Subset
  <2>6. Cardinality(Y) = rows[v] /\ rows[v] <= AllRows
    BY <1>6, <2>1, <2>2, <2>3, <2>5
  <2> QED
    BY <2>6 DEF Y
<1> QED
  BY <1>1, <1>3, <1>4, <1>5, <1>6, <1>7, <1>8 DEF D

\* The values there are.
LEMMA ValuesPresent ==
  ASSUME WellCounted
  PROVE  /\ Present = {r[1] : r \in Valued} /\ Present \in SUBSET Int /\ IsFiniteSet(Present)
         /\ Valued = {} <=> Present = {}
         /\ Cardinality(Valued) = CountOf(Numbers) /\ Cardinality(Valued) \in Nat
         /\ IsFiniteSet(Valued) /\ (Cardinality(Valued) = 0 <=> Present = {})
<1>1. /\ Valued = Tokens(rows, Numbers) /\ IsFiniteSet(TheRows) /\ DOMAIN rows = Numbers \cup {Null}
      /\ \A v \in Numbers : rows[v] \in Nat
  BY RowsCounted
<1>2. /\ CountOf(Numbers) = Cardinality(Tokens(rows, Numbers)) /\ CountOf(Numbers) \in Nat
      /\ Tokens(rows, Numbers) \in SUBSET TheRows
  <2>1. Numbers \in SUBSET (Numbers \cup {Null})
    OBVIOUS
  <2> QED
    BY <2>1, RowsCounted
<1>3. IsFiniteSet(Valued)
  BY <1>1, <1>2, FS_Subset
<1>4. Present = {r[1] : r \in Valued}
  <2>1. ASSUME NEW v \in Present PROVE v \in {r[1] : r \in Valued}
    <3>1. v \in Numbers /\ rows[v] > 0 /\ rows[v] \in Nat
      BY <1>1 DEF Present
    <3>2. 1 \in 1..rows[v]
      BY <3>1
    <3>3. <<v, 1>> \in Valued
      BY <1>1, <3>1, <3>2 DEF Tokens
    <3>4. <<v, 1>>[1] = v
      OBVIOUS
    <3> QED
      BY <3>3, <3>4
  <2>2. ASSUME NEW r \in Valued PROVE r[1] \in Present
    <3>1. PICK v \in Numbers : \E k \in 1..rows[v] : r = <<v, k>>
      BY <1>1 DEF Tokens
    <3>2. rows[v] > 0 /\ r[1] = v
      BY <1>1, <3>1
    <3> QED
      BY <3>2 DEF Present
  <2> QED
    BY <2>1, <2>2
<1>5. Present \in SUBSET Int /\ IsFiniteSet(Present)
  <2>1. Present \in SUBSET Numbers
    BY DEF Present
  <2> QED
    BY <2>1, NumbersAssumption, FS_Subset
<1>6. Cardinality(Valued) = 0 <=> Valued = {}
  BY <1>3, FS_EmptySet
<1> QED
  BY <1>1, <1>2, <1>3, <1>4, <1>5, <1>6

\* The sums of values, and of their squares, that the engine forms by value are those
\* that run through the rows.
LEMMA SumsOfRows ==
  ASSUME WellCounted
  PROVE  /\ Sum = SumOf([v \in Numbers |-> v]) /\ Sum \in Int
         /\ SumFunctionOnSet([r \in Valued |-> r[1] * r[1]], Valued) = SumOf([v \in Numbers |-> v * v])
         /\ SumOf([v \in Numbers |-> v * v]) \in Int
<1>1. /\ Valued = Tokens(rows, Numbers) /\ IsFiniteSet(Numbers)
      /\ (\A v \in Numbers : rows[v] \in Nat) /\ (\A v \in Numbers : v \in Int)
  BY RowsCounted, NumbersAssumption
<1>2. IsFiniteSet(Valued) /\ \A r \in Valued : r[1] \in Numbers /\ r[1] \in Int
  BY <1>1, ValuesPresent DEF Tokens
<1>3. ASSUME NEW f, \A v \in Numbers : f[v] \in Int,
             NEW F, F = [r \in Valued |-> f[r[1]]]
      PROVE  SumFunction(F) = SumOf(f) /\ SumOf(f) \in Int
  <2> DEFINE G == [v \in Numbers |-> f[v] * rows[v]]
  <2>1. DOMAIN F = Valued /\ \A r \in Valued : F[r] = f[r[1]]
    BY <1>3
  <2>2. DOMAIN G = Numbers /\ \A v \in Numbers : G[v] = f[v] * rows[v]
    OBVIOUS
  <2>3. \A v \in Numbers : G[v] \in Int
    BY <1>1, <1>3, <2>2
  <2>4. SumOf(f) = SumFunctionOnSet(G, Numbers)
    BY <2>2, Zenon DEF SumOf, SumFunction
  <2> HIDE DEF G
  <2>5. SumFunctionOnSet(F, Tokens(rows, Numbers)) = SumFunctionOnSet(G, Numbers)
    BY <1>1, <1>3, <2>1, <2>2, SumOverTokens
  <2>6. SumFunction(F) = SumFunctionOnSet(F, Valued)
    BY <2>1, Zenon DEF SumFunction
  <2>7. SumFunctionOnSet(G, Numbers) \in Int
    BY <1>1, <2>3, SumRule
  <2> QED
    BY <1>1, <2>4, <2>5, <2>6, <2>7, Zenon
<1>4. Sum = SumOf([v \in Numbers |-> v]) /\ Sum \in Int
  <2> DEFINE f == [v \in Numbers |-> v]
             F == [r \in Valued |-> r[1]]
  <2>1. (\A v \in Numbers : f[v] \in Int) /\ F = [r \in Valued |-> f[r[1]]]
    BY <1>1, <1>2
  <2>2. Sum = SumFunction(F)
    BY DEF Sum
  <2> HIDE DEF f, F
  <2>3. SumFunction(F) = SumOf(f) /\ SumOf(f) \in Int
    BY <1>3, <2>1
  <2> QED
    BY <2>2, <2>3 DEF f
<1>5. /\ SumFunctionOnSet([r \in Valued |-> r[1] * r[1]], Valued) = SumOf([v \in Numbers |-> v * v])
      /\ SumOf([v \in Numbers |-> v * v]) \in Int
  <2> DEFINE f == [v \in Numbers |-> v * v]
             F == [r \in Valued |-> r[1] * r[1]]
  <2>1. (\A v \in Numbers : f[v] \in Int) /\ F = [r \in Valued |-> f[r[1]]]
    BY <1>1, <1>2
  <2>2. SumFunction(F) = SumFunctionOnSet(F, Valued)
    <3>1. DOMAIN F = Valued
      OBVIOUS
    <3> HIDE DEF F
    <3> QED
      BY <3>1, Zenon DEF SumFunction
  <2> HIDE DEF f, F
  <2>3. SumFunction(F) = SumOf(f) /\ SumOf(f) \in Int
    BY <1>3, <2>1
  <2> QED
    BY <2>2, <2>3 DEF f, F
<1> QED
  BY <1>4, <1>5

\* Twice the square of the number of values times their variance.
LEMMA SpreadOfRows ==
  ASSUME WellCounted
  PROVE  /\ Spread = 2 * (CountOf(Numbers) * SumOf([v \in Numbers |-> v * v]) - Sum * Sum)
         /\ Spread \in Nat
<1>1. /\ Valued = Tokens(rows, Numbers) /\ IsFiniteSet(Valued)
      /\ CountOf(Numbers) = Cardinality(Valued) /\ \A v \in Numbers : v \in Int
  BY RowsCounted, ValuesPresent, NumbersAssumption
<1>2. \A r \in Valued : r[1] \in Int
  BY <1>1 DEF Tokens
<1>3. ASSUME NEW val, val = [r \in Valued |-> r[1]],
             NEW sq, sq = [r \in Valued |-> r[1] * r[1]],
             NEW P, P = [p \in Valued \X Valued |-> (p[1][1] - p[2][1]) * (p[1][1] - p[2][1])]
      PROVE  /\ SumFunctionOnSet(P, Valued \X Valued)
                  = 2 * (Cardinality(Valued) * SumFunctionOnSet(sq, Valued)
                         - SumFunctionOnSet(val, Valued) * SumFunctionOnSet(val, Valued))
             /\ SumFunctionOnSet(P, Valued \X Valued) \in Nat
             /\ SumFunction(P) = SumFunctionOnSet(P, Valued \X Valued)
             /\ SumFunction(val) = SumFunctionOnSet(val, Valued)
  <2>1. (\A r \in Valued : val[r] = r[1]) /\ \A r \in Valued : sq[r] = r[1] * r[1]
    BY <1>3
  <2>2. ASSUME NEW r \in Valued, NEW s \in Valued
        PROVE  P[<<r, s>>] = (r[1] - s[1]) * (r[1] - s[1])
    <3> DEFINE p == <<r, s>>
    <3>1. p \in Valued \X Valued /\ p[1] = r /\ p[2] = s
      OBVIOUS
    <3> HIDE DEF p
    <3>2. P[p] = (p[1][1] - p[2][1]) * (p[1][1] - p[2][1])
      BY <1>3, <3>1
    <3>3. P[p] = (r[1] - s[1]) * (r[1] - s[1])
      BY <3>1, <3>2, Zenon
    <3> QED
      BY <3>3, Zenon DEF p
  <2>3. (\A r \in Valued : val[r] \in Int) /\ \A r \in Valued : sq[r] = val[r] * val[r]
    BY <1>2, <2>1
  <2>4. \A r, s \in Valued : P[<<r, s>>] = (val[r] - val[s]) * (val[r] - val[s])
    BY <2>1, <2>2, Zenon
  <2>5. IsFiniteSet(Valued)
    BY <1>1
  <2>6. SumFunctionOnSet(P, Valued \X Valued)
          = 2 * (Cardinality(Valued) * SumFunctionOnSet(sq, Valued)
                 - SumFunctionOnSet(val, Valued) * SumFunctionOnSet(val, Valued))
    BY <2>3, <2>4, <2>5, SumOfPairs
  <2>7. SumFunctionOnSet(P, Valued \X Valued) \in Nat
    BY <2>3, <2>4, <2>5, <2>6, SumOfPairs
  <2>8. DOMAIN P = Valued \X Valued /\ DOMAIN val = Valued
    BY <1>3
  <2> QED
    BY <2>6, <2>7, <2>8, Zenon DEF SumFunction
<1>4. SumFunctionOnSet([r \in Valued |-> r[1] * r[1]], Valued) = SumOf([v \in Numbers |-> v * v])
  BY SumsOfRows
<1> DEFINE val == [r \in Valued |-> r[1]]
           sq == [r \in Valued |-> r[1] * r[1]]
           P == [p \in Valued \X Valued |-> (p[1][1] - p[2][1]) * (p[1][1] - p[2][1])]
<1>5. /\ val = [r \in Valued |-> r[1]] /\ sq = [r \in Valued |-> r[1] * r[1]]
      /\ P = [p \in Valued \X Valued |-> (p[1][1] - p[2][1]) * (p[1][1] - p[2][1])]
  BY Zenon
<1>6. Spread = SumFunction(P) /\ Sum = SumFunction(val)
  BY Zenon DEF Spread, Sum
<1>7. SumFunctionOnSet(sq, Valued) = SumOf([v \in Numbers |-> v * v])
  BY <1>4, Zenon
<1> HIDE DEF val, sq, P
<1>8. /\ SumFunctionOnSet(P, Valued \X Valued)
           = 2 * (Cardinality(Valued) * SumFunctionOnSet(sq, Valued)
                  - SumFunctionOnSet(val, Valued) * SumFunctionOnSet(val, Valued))
      /\ SumFunctionOnSet(P, Valued \X Valued) \in Nat
      /\ SumFunction(P) = SumFunctionOnSet(P, Valued \X Valued)
      /\ SumFunction(val) = SumFunctionOnSet(val, Valued)
  BY <1>3, <1>5, Zenon
<1>9. CountOf(Numbers) = Cardinality(Valued)
  BY <1>1
<1> QED
  BY <1>6, <1>7, <1>8, <1>9, Zenon

----------------------------------------------------------------------------
(* Verdicts on tables that nobody writes to.                               *)

\* What a figure was read from is still so if nobody wrote since it was read.
FiguresKept ==
  /\ cache.taken <= writes /\ taken <= writes
  /\ cache.loaded /\ cache.err = "none" /\ cache.taken = writes => cache.total = AllRows
  /\ left # None /\ taken = writes => left = AllRows

\* What is recorded of a right result is right.
LEMMA RecordedRight ==
  ASSUME NEW r, DOMAIN r = DOMAIN Blank, Right(r)
  PROVE  Right([r EXCEPT !.err = "none", !.success = r.success /\ "none" = "none"])
<1> DEFINE x == [r EXCEPT !.err = "none", !.success = r.success /\ "none" = "none"]
<1>1. x.facts = r.facts /\ (x.success <=> r.success)
  BY FieldsOfBlank
<1> HIDE DEF x
<1>2. Right(x)
  BY <1>1, Zenon DEF Right
<1> QED
  BY <1>2 DEF x

\* Recording a right result is a right step, and keeps the figures.
LEMMA RightRecord ==
  ASSUME EvaluationInv, FiguresKept, NEW kinds, Due(kinds), NEW err, NEW r, Sized(r),
         err = "none" /\ Since = writes => Right(r),
         AppendResult(err, r), UNCHANGED <<input, rows, other, writes, cache>>
  PROVE  FiguresKept' /\ RightStep
<1> DEFINE x == [r EXCEPT !.err = err, !.success = r.success /\ err = "none"]
<1>1. at \in 1..Len(input.suite) /\ Len(input.suite) \in Nat /\ Len(results) = at - 1
  BY CurrentAccepted
<1>2. FiguresKept'
  <2>1. left' = None /\ taken' = 0 /\ writes' = writes /\ cache' = cache /\ rows' = rows
    BY DEF AppendResult
  <2>2. AllRows' = AllRows
    BY <2>1, Zenon DEF AllRows, CountOf
  <2>3. writes \in Nat
    BY BoundsAssumption DEF EvaluationInv, EvaluationTypeOK
  <2> QED
    BY <2>1, <2>2, <2>3 DEF FiguresKept
<1>3. ASSUME Len(results') > Len(results), results'[at].err = "none", Since = writes
      PROVE  Right(results'[at])
  <2>1. err # "observer"
    <3> SUFFICES ASSUME err = "observer" PROVE FALSE
      OBVIOUS
    <3>1. results' = <<>>
      BY DEF AppendResult
    <3>2. Len(results') = 0
      BY <3>1
    <3> QED
      BY <1>1, <1>3, <3>2
  <2>2. results' = Append(results, x)
    BY <2>1 DEF AppendResult
  <2> HIDE DEF x
  <2>3. IsList(results)
    BY DEF EvaluationInv, WellCounted
  <2>4. results'[Len(results) + 1] = x
    BY <2>2, <2>3, ListGrows
  <2>5. results'[at] = x
    <3>1. Len(results) + 1 = at
      BY <1>1
    <3> QED
      BY <2>4, <3>1, Zenon
  <2>6. DOMAIN r = DOMAIN Blank
    BY DEF Sized
  <2>7. x.err = err
    BY <2>6, FieldsOfBlank DEF x
  <2>8. err = "none"
    BY <1>3, <2>5, <2>7
  <2>9. x = [r EXCEPT !.err = "none", !.success = r.success /\ "none" = "none"]
    BY <2>8 DEF x
  <2>10. Right(x)
    BY <1>3, <2>6, <2>8, <2>9, RecordedRight
  <2> QED
    BY <2>5, <2>10
<1> QED
  BY <1>2, <1>3, Zenon DEF RightStep

\* The same with the statement's outcome.
LEMMA RightConclude ==
  ASSUME EvaluationInv, FiguresKept, NEW kinds, Due(kinds), NEW err, NEW r, Sized(r),
         err = "none" /\ Since = writes => Right(r), Conclude(err, r)
  PROVE  FiguresKept' /\ RightStep
<1>1. AppendResult(err, r) /\ UNCHANGED <<input, rows, other, writes, cache>>
  BY DEF Conclude
<1> QED
  BY <1>1, RightRecord

\* A result is right if its verdict and its rates are.
LEMMA ResultRight ==
  ASSUME NEW e, e = Current, NEW s \in BOOLEAN, NEW facts,
         \A f \in DOMAIN facts \cap {"Rate", "Share"} : InUnitRange(facts[f]),
         input.table.finite => (s <=> Satisfied(e))
  PROVE  Right(TableLevelResult(e, s, facts))
<1> DEFINE r == TableLevelResult(e, s, facts)
<1>1. r.success = s /\ r.facts = facts
  BY TableLevelFields
<1> HIDE DEF r
<1>2. input.table.finite => (r.success <=> Satisfied(e))
  BY <1>1, Zenon
<1>3. \A f \in DOMAIN r.facts \cap {"Rate", "Share"} : InUnitRange(r.facts[f])
  BY <1>1, Zenon
<1>4. input.table.finite => (r.success <=> Satisfied(Current))
  BY <1>2, Zenon
<1>5. Right(r)
  BY <1>3, <1>4, Zenon DEF Right
<1> QED
  BY <1>5 DEF r

\* A result without a rate is right if its verdict is.
LEMMA PlainRight ==
  ASSUME NEW e, e = Current, NEW s \in BOOLEAN, NEW facts,
         "Rate" \notin DOMAIN facts, "Share" \notin DOMAIN facts,
         input.table.finite => (s <=> Satisfied(e))
  PROVE  Right(TableLevelResult(e, s, facts))
<1>1. \A f \in DOMAIN facts \cap {"Rate", "Share"} : InUnitRange(facts[f])
  OBVIOUS
<1> QED
  BY <1>1, ResultRight

\* The rows of the tables, for each kind of expectation.
LEMMA SatisfiedCases ==
  ASSUME NEW e
  PROVE  LET n == Cardinality(Valued)
             all == Cardinality(TheRows)
             Holding(v) == Cardinality({r \in TheRows : r[1] = v})
         IN /\ e.kind = "RowCount" => (Satisfied(e) <=> AllowsCount(e, all))
            /\ e.kind = "DistinctCount" =>
                 (Satisfied(e) <=> AllowsCount(e, Cardinality({r[1] : r \in Valued})))
            /\ e.kind = "Average" =>
                 (Satisfied(e) <=> n = 0 \/ (AtMost(e.lo, Num(Sum, n)) /\ AtMost(Num(Sum, n), e.hi)))
            /\ e.kind = "Min" => (Satisfied(e) <=> \A r \in Valued : AtMost(e.lo, Whole(r[1])))
            /\ e.kind = "Max" => (Satisfied(e) <=> \A r \in Valued : AtMost(Whole(r[1]), e.lo))
            /\ e.kind = "SumInt" \/ e.kind = "SumFloat" =>
                 (Satisfied(e) <=> n = 0 \/ (AtMost(e.lo, Whole(Sum)) /\ AtMost(Whole(Sum), e.hi)))
            /\ e.kind = "StdDev" =>
                 (Satisfied(e) <=>
                    \/ n = 0
                    \/ /\ e.lo.n < 0 \/ 2 * n * n * e.lo.n * e.lo.n <= Spread * e.lo.d * e.lo.d
                       /\ e.hi.n >= 0 /\ Spread * e.hi.d * e.hi.d <= 2 * n * n * e.hi.n * e.hi.n)
            /\ e.kind = "FreshSince" => (Satisfied(e) <=> \E r \in Valued : e.lo.n <= r[1] * e.lo.d)
            /\ e.kind = "Completeness" => (Satisfied(e) <=> all = 0 \/ Allows(e, n, all))
            /\ e.kind = "DuplicateRate" =>
                 (Satisfied(e) <=>
                    \/ all = 0
                    \/ Allows(e, Cardinality({r \in Valued : \E s \in Valued \ {r} : s[1] = r[1]}), all))
            /\ e.kind = "Frequency" => (Satisfied(e) <=> all = 0 \/ Allows(e, Holding(e.value), all))
            /\ e.kind = "DominantShare" =>
                 (Satisfied(e) <=>
                    \/ all = 0
                    \/ \E r \in TheRows : /\ \A s \in TheRows : Holding(s[1]) <= Holding(r[1])
                                          /\ Allows(e, Holding(r[1]), all))
            /\ e.kind = "Reconcile" => (Satisfied(e) <=> all = other)
            /\ e.kind = "Custom" => (Satisfied(e) <=> \A r \in TheRows : r[1] # e.value)
            /\ e.kind = "RequiredColumns" =>
                 (Satisfied(e) <=> Range(e.columns) \subseteq {c.name : c \in Columns})
            /\ e.kind = "ExactColumns" => (Satisfied(e) <=> Range(e.columns) = {c.name : c \in Columns})
            /\ e.kind = "Nullability" =>
                 (Satisfied(e) <=> \E c \in Columns : c.name = e.columns[1] /\ c.nulls = e.claim)
            /\ e.kind = "ColumnType" =>
                 (Satisfied(e) <=> \E c \in Columns : c.name = e.columns[1] /\ c.type = e.claim)
  BY DEF Satisfied

\* Aggregates of a column without NaN and Inf: nothing of no value, and otherwise one.
LEMMA FiniteAnswers ==
  ASSUME WellCounted, input.table.finite, NEW fn \in Aggregates, NEW x \in Answers(fn)
  PROVE  /\ x = SqlNull <=> Present = {}
         /\ Present # {} => x = Aggregate(fn)
<1>1. CASE Present = {}
  BY <1>1 DEF Answers
<1>2. CASE Present # {}
  <2>1. x = Aggregate(fn)
    BY <1>2 DEF Answers
  <2> DEFINE n == CountOf(Numbers)
  <2>2. n \in Nat
    BY ValuesPresent
  <2> HIDE DEF n
  <2>3. n * n \in Nat
    BY <2>2
  <2>4. Aggregate(fn).d \in {n, 1, n * n}
    BY DEF Aggregate, Aggregates, Num, Whole, n
  <2>5. x.d # -1
    BY <2>1, <2>2, <2>3, <2>4
  <2>6. SqlNull.d = -1
    BY DEF SqlNull, Num
  <2> QED
    BY <1>2, <2>1, <2>5, <2>6
<1> QED
  BY <1>1, <1>2

\* An average of what there is stands where it is said to.
LEMMA AverageTrue ==
  ASSUME WellCounted, input.table.finite, NEW e, e.kind = "Average", NEW x \in Answers("Average")
  PROVE  Satisfied(e) <=> x = SqlNull \/ Within(e, x)
<1>1. Satisfied(e) <=> \/ Cardinality(Valued) = 0
                       \/ /\ AtMost(e.lo, Num(Sum, Cardinality(Valued)))
                          /\ AtMost(Num(Sum, Cardinality(Valued)), e.hi)
  BY SatisfiedCases
<1>2. Aggregate("Average") = Num(SumOf([v \in Numbers |-> v]), CountOf(Numbers))
  BY DEF Aggregate
<1>3. Aggregate("Average") = Num(Sum, Cardinality(Valued))
  BY <1>2, SumsOfRows, ValuesPresent
<1>4. "Average" \in Aggregates
  BY DEF Aggregates
<1>5. (x = SqlNull <=> Present = {}) /\ (Present # {} => x = Aggregate("Average"))
  BY <1>4, FiniteAnswers
<1>6. Cardinality(Valued) = 0 <=> Present = {}
  BY ValuesPresent
<1>7. CASE Present = {}
  BY <1>1, <1>5, <1>6, <1>7
<1>8. CASE Present # {}
  BY <1>1, <1>3, <1>5, <1>6, <1>8 DEF Within
<1> QED
  BY <1>7, <1>8

\* A least or a greatest value bounds them all.
LEMMA BoundTrue ==
  ASSUME WellCounted, input.table.finite, NEW e \in Expectation, e.kind = "Min" \/ e.kind = "Max",
         NEW x \in Answers(e.kind)
  PROVE  Satisfied(e) <=> x = SqlNull \/ CompareAggregate(e, x)
<1>1. e.kind \in Aggregates
  BY DEF Aggregates
<1>2. (x = SqlNull <=> Present = {}) /\ (Present # {} => x = Aggregate(e.kind))
  BY <1>1, FiniteAnswers
<1>3. /\ Present = {r[1] : r \in Valued} /\ Present \in SUBSET Int /\ IsFiniteSet(Present)
      /\ Valued = {} <=> Present = {}
  BY ValuesPresent
<1>4. \A v \in Int : Whole(v).n = v /\ Whole(v).d = 1 /\ Whole(v) # NaN
  BY DEF Whole, Num, NaN
<1>5. e.lo.n \in Int /\ e.lo.d \in Nat
  BY DEF Expectation, Figure
<1>6. ASSUME NEW a \in Int, NEW b \in Int, a <= b
      PROVE  a * e.lo.d <= b * e.lo.d
  <2>1. (b - a) * e.lo.d >= 0
    BY <1>5, <1>6
  <2>2. (b - a) * e.lo.d = b * e.lo.d - a * e.lo.d
    BY <1>5
  <2> QED
    BY <1>5, <2>1, <2>2
<1>7. CASE Present = {}
  <2>1. Satisfied(e)
    BY <1>3, <1>7, SatisfiedCases
  <2> QED
    BY <1>2, <1>7, <2>1
<1>8. CASE Present # {} /\ e.kind = "Min"
  <2> DEFINE m == Min(Present)
  <2>1. m \in Present /\ \A y \in Present : m =< y
    BY <1>3, <1>8, MinRule
  <2>2. x = Whole(m)
    BY <1>2, <1>8 DEF Aggregate
  <2> HIDE DEF m
  <2>3. Satisfied(e) <=> \A v \in Present : AtMost(e.lo, Whole(v))
    BY <1>3, <1>8, SatisfiedCases
  <2>4. ASSUME AtMost(e.lo, Whole(m)), NEW v \in Present
        PROVE  AtMost(e.lo, Whole(v))
    <3>1. m * e.lo.d <= v * e.lo.d
      BY <1>3, <1>6, <2>1
    <3>2. e.lo # NaN /\ e.lo.n * 1 <= m * e.lo.d
      BY <1>3, <1>4, <2>1, <2>4 DEF AtMost
    <3>3. e.lo.n * 1 <= v * e.lo.d
      <4>1. m \in Int /\ v \in Int
        BY <1>3, <2>1
      <4>2. m * e.lo.d \in Int /\ v * e.lo.d \in Int /\ e.lo.n * 1 \in Int
        BY <1>5, <4>1
      <4> QED
        BY <3>1, <3>2, <4>2
    <3> QED
      BY <1>3, <1>4, <3>2, <3>3 DEF AtMost
  <2>5. Satisfied(e) <=> AtMost(e.lo, Whole(m))
    BY <2>1, <2>3, <2>4
  <2> QED
    BY <1>2, <1>8, <2>2, <2>5 DEF CompareAggregate
<1>9. CASE Present # {} /\ e.kind = "Max"
  <2> DEFINE m == Max(Present)
  <2>1. m \in Present /\ \A y \in Present : m >= y
    BY <1>3, <1>9, MaxRule
  <2>2. x = Whole(m)
    BY <1>2, <1>9 DEF Aggregate
  <2> HIDE DEF m
  <2>3. Satisfied(e) <=> \A v \in Present : AtMost(Whole(v), e.lo)
    BY <1>3, <1>9, SatisfiedCases
  <2>4. ASSUME AtMost(Whole(m), e.lo), NEW v \in Present
        PROVE  AtMost(Whole(v), e.lo)
    <3>1. v * e.lo.d <= m * e.lo.d
      BY <1>3, <1>6, <2>1
    <3>2. e.lo # NaN /\ m * e.lo.d <= e.lo.n * 1
      BY <1>3, <1>4, <2>1, <2>4 DEF AtMost
    <3>3. v * e.lo.d <= e.lo.n * 1
      <4>1. m \in Int /\ v \in Int
        BY <1>3, <2>1
      <4>2. m * e.lo.d \in Int /\ v * e.lo.d \in Int /\ e.lo.n * 1 \in Int
        BY <1>5, <4>1
      <4> QED
        BY <3>1, <3>2, <4>2
    <3> QED
      BY <1>3, <1>4, <3>2, <3>3 DEF AtMost
  <2>5. Satisfied(e) <=> AtMost(Whole(m), e.lo)
    BY <2>1, <2>3, <2>4
  <2> QED
    BY <1>2, <1>9, <2>2, <2>5 DEF CompareAggregate
<1> QED
  BY <1>7, <1>8, <1>9

\* A sum stands where it is said to.
LEMMA SumTrue ==
  ASSUME WellCounted, input.table.finite, NEW e, e.kind = "SumInt" \/ e.kind = "SumFloat",
         NEW x \in Answers(e.kind)
  PROVE  Satisfied(e) <=> x = SqlNull \/ (AtMost(e.lo, x) /\ AtMost(x, e.hi))
<1>1. Satisfied(e) <=> \/ Cardinality(Valued) = 0
                       \/ AtMost(e.lo, Whole(Sum)) /\ AtMost(Whole(Sum), e.hi)
  BY SatisfiedCases
<1>2. Aggregate(e.kind) = Whole(Sum)
  BY SumsOfRows DEF Aggregate
<1>3. e.kind \in Aggregates
  BY DEF Aggregates
<1>4. (x = SqlNull <=> Present = {}) /\ (Present # {} => x = Aggregate(e.kind))
  BY <1>3, FiniteAnswers
<1>5. Cardinality(Valued) = 0 <=> Present = {}
  BY ValuesPresent
<1>6. CASE Present = {}
  BY <1>1, <1>4, <1>5, <1>6
<1>7. CASE Present # {}
  BY <1>1, <1>2, <1>4, <1>5, <1>7
<1> QED
  BY <1>6, <1>7

\* What a product of two and four factors is.
LEMMA Products ==
  ASSUME NEW a \in Int, NEW b \in Int
  PROVE  /\ 2 * a * a * b * b = 2 * ((b * b) * (a * a))
         /\ a * a >= 0 /\ a * a \in Int /\ (a # 0 => a * a > 0)
         /\ (a * a) * (b * b) >= 0 /\ (a * a) * (b * b) \in Int
         /\ a # 0 /\ b # 0 => (a * a) * (b * b) > 0
<1>1. a * a >= 0 /\ a * a \in Int /\ (a # 0 => a * a > 0)
  OBVIOUS
<1>2. b * b >= 0 /\ b * b \in Int /\ (b # 0 => b * b > 0)
  OBVIOUS
<1>3. 2 * a * a * b * b = 2 * ((b * b) * (a * a))
  OBVIOUS
<1>4. ASSUME NEW p \in Int, NEW q \in Int, p >= 0, q >= 0
      PROVE  p * q >= 0 /\ p * q \in Int /\ (p > 0 /\ q > 0 => p * q > 0)
  BY <1>4
<1>5. /\ (a * a) * (b * b) >= 0 /\ (a * a) * (b * b) \in Int
      /\ a * a > 0 /\ b * b > 0 => (a * a) * (b * b) > 0
  BY <1>1, <1>2, <1>4, Zenon
<1> QED
  BY <1>1, <1>2, <1>3, <1>5, Zenon

\* A deviation stands where it is said to: its square, and the squares of its bounds.
LEMMA DeviationTrue ==
  ASSUME WellCounted, input.table.finite, NEW e \in Expectation, Accepted(e), e.kind = "StdDev",
         NEW x \in Answers("StdDev")
  PROVE  Satisfied(e) <=> x = SqlNull \/ (AtMost(Square(e.lo), x) /\ AtMost(x, Square(e.hi)))
<1> DEFINE n == Cardinality(Valued)
           sq == SumOf([v \in Numbers |-> v * v])
           V == n * sq - Sum * Sum
<1>1. Satisfied(e) <=>
        \/ n = 0
        \/ /\ e.lo.n < 0 \/ 2 * n * n * e.lo.n * e.lo.n <= Spread * e.lo.d * e.lo.d
           /\ e.hi.n >= 0 /\ Spread * e.hi.d * e.hi.d <= 2 * n * n * e.hi.n * e.hi.n
  BY SatisfiedCases
<1>2. n \in Nat /\ n = CountOf(Numbers) /\ (n = 0 <=> Present = {})
  BY ValuesPresent
<1>3. Sum \in Int /\ sq \in Int /\ Sum = SumOf([v \in Numbers |-> v])
  BY SumsOfRows
<1>4. Aggregate("StdDev") = Num(V, n * n)
  <2> HIDE DEF sq
  <2>1. Aggregate("StdDev")
          = Num(CountOf(Numbers) * sq
                  - SumOf([v \in Numbers |-> v]) * SumOf([v \in Numbers |-> v]),
                CountOf(Numbers) * CountOf(Numbers))
    BY DEF Aggregate, sq
  <2> QED
    BY <1>2, <1>3, <2>1, Zenon
<1>5. Spread = 2 * V /\ Spread \in Nat
  BY <1>2, SpreadOfRows
<1> HIDE DEF n, sq
<1>6. V \in Int
  BY <1>2, <1>3
<1> HIDE DEF V
<1>7. V >= 0
  BY <1>5, <1>6
<1>8. /\ e.lo.n \in Int /\ e.lo.d \in Int /\ e.lo.d > 0
      /\ e.hi.n \in Int /\ e.hi.d \in Int /\ e.hi.d > 0
  BY DEF Expectation, Figure, Accepted
<1>9. "StdDev" \in Aggregates
  BY DEF Aggregates
<1>10. (x = SqlNull <=> Present = {}) /\ (Present # {} => x = Num(V, n * n))
  BY <1>4, <1>9, FiniteAnswers
<1>11. ASSUME NEW y, y.n \in Int, y.d \in Int, y.d > 0, n # 0
       PROVE  LET s == Square(y)
                  d2 == V * (y.d * y.d)
                  n2 == (y.n * y.n) * (n * n)
              IN /\ AtMost(s, Num(V, n * n)) <=> y.n < 0 \/ n2 <= d2
                 /\ AtMost(Num(V, n * n), s) <=> y.n >= 0 /\ d2 <= n2
                 /\ Spread * y.d * y.d = 2 * d2
                 /\ 2 * n * n * y.n * y.n = 2 * n2
                 /\ d2 \in Int /\ n2 \in Int
  <2> DEFINE a == y.n
             d == y.d
             d2 == V * (d * d)
             n2 == (a * a) * (n * n)
             s == Square(y)
  <2>1. a \in Int /\ d \in Int /\ d > 0 /\ n \in Int /\ n > 0
    BY <1>2, <1>11
  <2>2. s = Num(IF a < 0 THEN -(a * a) ELSE a * a, d * d)
    BY DEF Square
  <2> HIDE DEF a, d
  <2>3. /\ d * d \in Int /\ d * d > 0 /\ n * n > 0 /\ n * n \in Int /\ a * a \in Int
        /\ n2 >= 0 /\ n2 \in Int /\ (a # 0 => n2 > 0)
    BY <2>1, Products
  <2>4. d2 >= 0 /\ d2 \in Int
    <3> DEFINE p == d * d
    <3>1. p \in Int /\ p > 0
      BY <2>3
    <3> HIDE DEF p
    <3>2. V * p >= 0 /\ V * p \in Int
      BY <1>6, <1>7, <3>1
    <3> QED
      BY <3>2 DEF p
  <2>5. Spread * d * d = 2 * d2
    BY <1>5, <1>6, <2>1
  <2>6. 2 * n * n * a * a = 2 * n2
    BY <2>1, Products
  <2>7. /\ s.d = d * d /\ s.n = (IF a < 0 THEN -(a * a) ELSE a * a)
        /\ Num(V, n * n).n = V /\ Num(V, n * n).d = n * n
    BY <2>2 DEF Num
  <2>8. s # NaN /\ Num(V, n * n) # NaN
    <3>1. NaN.d = 0
      BY DEF NaN, Num
    <3> HIDE DEF s
    <3>2. s.d # 0 /\ Num(V, n * n).d # 0
      BY <2>3, <2>7
    <3> QED
      BY <3>1, <3>2
  <2>9. s.n * (n * n) = IF a < 0 THEN -n2 ELSE n2
    <3> DEFINE p == a * a
               q == n * n
    <3>1. p \in Int /\ q \in Int
      BY <2>3
    <3>2. s.n = (IF a < 0 THEN -p ELSE p) /\ n2 = p * q
      BY <2>7
    <3> HIDE DEF p, q, n2
    <3>3. (-p) * q = -(p * q)
      BY <3>1
    <3>4. s.n * q = IF a < 0 THEN -n2 ELSE n2
      BY <3>2, <3>3
    <3> QED
      BY <3>4 DEF q
  <2> HIDE DEF d2, n2
  <2>10. AtMost(s, Num(V, n * n)) <=> s.n * (n * n) <= d2
    BY <2>7, <2>8 DEF AtMost, d2
  <2>11. AtMost(Num(V, n * n), s) <=> d2 <= s.n * (n * n)
    BY <2>7, <2>8 DEF AtMost, d2
  <2>12. AtMost(s, Num(V, n * n)) <=> a < 0 \/ n2 <= d2
    BY <2>1, <2>3, <2>4, <2>9, <2>10
  <2>13. AtMost(Num(V, n * n), s) <=> a >= 0 /\ d2 <= n2
    BY <2>1, <2>3, <2>4, <2>9, <2>11
  <2> QED
    BY <2>3, <2>4, <2>5, <2>6, <2>12, <2>13 DEF a, d, d2, n2, s
<1>12. CASE Present = {}
  BY <1>1, <1>2, <1>10, <1>12
<1>13. CASE Present # {}
  <2>1. n # 0 /\ x = Num(V, n * n) /\ x # SqlNull
    BY <1>2, <1>10, <1>13
  <2>2. AtMost(Square(e.lo), x) <=>
          e.lo.n < 0 \/ 2 * n * n * e.lo.n * e.lo.n <= Spread * e.lo.d * e.lo.d
    <3> DEFINE d2 == V * (e.lo.d * e.lo.d)
               n2 == (e.lo.n * e.lo.n) * (n * n)
    <3>1. /\ AtMost(Square(e.lo), x) <=> e.lo.n < 0 \/ n2 <= d2
          /\ Spread * e.lo.d * e.lo.d = 2 * d2
          /\ 2 * n * n * e.lo.n * e.lo.n = 2 * n2
          /\ d2 \in Int /\ n2 \in Int
      BY <1>8, <1>11, <2>1
    <3> HIDE DEF d2, n2
    <3>2. n2 <= d2 <=> 2 * n2 <= 2 * d2
      BY <3>1
    <3> QED
      BY <3>1, <3>2
  <2>3. AtMost(x, Square(e.hi)) <=>
          e.hi.n >= 0 /\ Spread * e.hi.d * e.hi.d <= 2 * n * n * e.hi.n * e.hi.n
    <3> DEFINE d2 == V * (e.hi.d * e.hi.d)
               n2 == (e.hi.n * e.hi.n) * (n * n)
    <3>1. /\ AtMost(x, Square(e.hi)) <=> e.hi.n >= 0 /\ d2 <= n2
          /\ Spread * e.hi.d * e.hi.d = 2 * d2
          /\ 2 * n * n * e.hi.n * e.hi.n = 2 * n2
          /\ d2 \in Int /\ n2 \in Int
      BY <1>8, <1>11, <2>1
    <3> HIDE DEF d2, n2
    <3>2. d2 <= n2 <=> 2 * d2 <= 2 * n2
      BY <3>1
    <3> QED
      BY <3>1, <3>2
  <2> QED
    BY <1>1, <2>1, <2>2, <2>3
<1> QED
  BY <1>12, <1>13

\* A time stands where it is said to.
LEMMA FreshTrue ==
  ASSUME WellCounted, NEW e \in Expectation, e.kind = "FreshSince", e.lo.d = 1
  PROVE  /\ Present = {} => ~Satisfied(e)
         /\ Present # {} => (Satisfied(e) <=> ~(Max(Present) < e.lo.n))
<1>1. Satisfied(e) <=> \E r \in Valued : e.lo.n <= r[1] * e.lo.d
  BY SatisfiedCases
<1>2. Present = {r[1] : r \in Valued} /\ Present \in SUBSET Int /\ IsFiniteSet(Present)
  BY ValuesPresent
<1>3. e.lo.n \in Int
  BY DEF Expectation, Figure
<1>4. Satisfied(e) <=> \E v \in Present : e.lo.n <= v
  <2>1. \A v \in Present : v * e.lo.d = v
    BY <1>2
  <2> QED
    BY <1>1, <1>2, <2>1
<1>5. ASSUME Present # {} PROVE Satisfied(e) <=> ~(Max(Present) < e.lo.n)
  <2> DEFINE m == Max(Present)
  <2>1. m \in Present /\ \A y \in Present : m >= y
    BY <1>2, <1>5, MaxRule
  <2> HIDE DEF m
  <2>2. Satisfied(e) <=> ~(m < e.lo.n)
    BY <1>2, <1>3, <1>4, <2>1
  <2> QED
    BY <2>2 DEF m
<1> QED
  BY <1>4, <1>5

----------------------------------------------------------------------------
(* Each evaluation is right if nobody writes under it.                     *)

\* The verdict on an aggregate that may be of no value.
LEMMA AggregateRight ==
  ASSUME NEW e, e = Current, NEW x, NEW s \in BOOLEAN, NEW p, NEW q,
         \A f \in {"Rate", "Share"} : f \notin DOMAIN p /\ f \notin DOMAIN q,
         input.table.finite => (Satisfied(e) <=> x = SqlNull \/ s)
  PROVE  /\ x = SqlNull => Right(TableLevelResult(e, TRUE, p))
         /\ x # SqlNull => Right(TableLevelResult(e, s, q))
<1>1. ASSUME x = SqlNull PROVE Right(TableLevelResult(e, TRUE, p))
  <2>1. input.table.finite => (TRUE <=> Satisfied(e))
    BY <1>1
  <2> QED
    BY <2>1, PlainRight
<1>2. ASSUME x # SqlNull PROVE Right(TableLevelResult(e, s, q))
  <2>1. input.table.finite => (s <=> Satisfied(e))
    BY <1>2
  <2> QED
    BY <2>1, PlainRight
<1> QED
  BY <1>1, <1>2

\* A count of rows or of values.
LEMMA CountsRight ==
  ASSUME EvaluationInv, FiguresKept, EvalTableCount \/ EvalDistinctCount
  PROVE  FiguresKept' /\ RightStep
<1>1. ASSUME NEW kind \in {"RowCount", "DistinctCount"}, Due({kind}), NEW n \in Nat,
             Satisfied(Current) <=> AllowsCount(Current, n), NEW err,
             Conclude(err, IF err = "none" THEN Counted(Current, n) ELSE Base(Current))
      PROVE  FiguresKept' /\ RightStep
  <2> DEFINE e == Current
             facts == Fact("ObservedCount", Whole(n))
                      ++ Bounds(e, "ConfiguredCount", "ConfiguredCountLower", "ConfiguredCountUpper")
             s == CountCheck(e, n)
             r == IF err = "none" THEN Counted(e, n) ELSE Base(e)
  <2>1. e \in Expectation
    BY <1>1, CurrentAccepted
  <2>2. Sized(r)
    BY BaseSized DEF Counted
  <2>3. s \in BOOLEAN /\ (s <=> Satisfied(e))
    BY <1>1, <2>1, CountAllowed
  <2>4. "Rate" \notin DOMAIN facts /\ "Share" \notin DOMAIN facts
    BY DEF Fact, ++, Bounds
  <2>5. Counted(e, n) = TableLevelResult(e, s, facts)
    BY DEF Counted
  <2>6. e = Current
    OBVIOUS
  <2> HIDE DEF facts, s, e
  <2>7. Right(Counted(e, n))
    BY <2>3, <2>4, <2>5, <2>6, PlainRight
  <2>8. err = "none" => Right(r)
    BY <2>7
  <2>9. Conclude(err, r)
    BY <1>1 DEF e
  <2> HIDE DEF r
  <2> QED
    BY <1>1, <2>2, <2>8, <2>9, RightConclude
<1>2. AllRows \in Nat /\ Cardinality(Present) \in Nat
  BY CountsNatural DEF EvaluationInv
<1>3. AllRows = Cardinality(TheRows) /\ Present = {r[1] : r \in Valued}
  BY RowsCounted, ValuesPresent DEF EvaluationInv
<1>4. CASE EvalTableCount
  <2>1. Due({"RowCount"})
    BY <1>4 DEF EvalTableCount
  <2>2. Current.kind = "RowCount"
    BY <2>1 DEF Due
  <2>3. Satisfied(Current) <=> AllowsCount(Current, AllRows)
    BY <1>3, <2>2, SatisfiedCases
  <2> QED
    BY <1>1, <1>2, <1>4, <2>1, <2>3 DEF EvalTableCount
<1>5. CASE EvalDistinctCount
  <2>1. Due({"DistinctCount"})
    BY <1>5 DEF EvalDistinctCount
  <2>2. Current.kind = "DistinctCount"
    BY <2>1 DEF Due
  <2>3. Satisfied(Current) <=> AllowsCount(Current, Cardinality(Present))
    BY <1>3, <2>2, SatisfiedCases
  <2> QED
    BY <1>1, <1>2, <1>5, <2>1, <2>3 DEF EvalDistinctCount
<1> QED
  BY <1>4, <1>5

\* An average.
LEMMA AverageRight ==
  ASSUME EvaluationInv, FiguresKept, EvalAverage
  PROVE  FiguresKept' /\ RightStep
<1> DEFINE e == Current
           configured == Fact("ConfiguredFloatLower", e.lo) ++ Fact("ConfiguredFloatUpper", e.hi)
<1>1. PICK err \in Outcomes(TRUE), x \in Answers(e.kind) :
        Conclude(err, IF err # "none" THEN Base(e)
                      ELSE IF x = SqlNull THEN TableLevelResult(e, TRUE, configured)
                      ELSE TableLevelResult(e, Within(e, x), Fact("ObservedFloat", x) ++ configured))
  BY DEF EvalAverage
<1> DEFINE facts == Fact("ObservedFloat", x) ++ configured
           s == Within(e, x)
           r == IF err # "none" THEN Base(e)
                ELSE IF x = SqlNull THEN TableLevelResult(e, TRUE, configured)
                ELSE TableLevelResult(e, s, facts)
<1>2. Due({"Average"})
  BY DEF EvalAverage
<1>3. e.kind = "Average" /\ e = Current
  BY <1>2 DEF Due
<1>4. Sized(r)
  BY BaseSized
<1>5. \A f \in {"Rate", "Share"} : f \notin DOMAIN configured /\ f \notin DOMAIN facts
  BY DEF Fact, ++
<1>6. s \in BOOLEAN
  BY DEF Within, AtMost
<1>7. Conclude(err, r)
  BY <1>1
<1> HIDE DEF e
<1>8. input.table.finite => (Satisfied(e) <=> x = SqlNull \/ s)
  BY <1>1, <1>3, AverageTrue DEF EvaluationInv
<1> HIDE DEF s, facts, configured
<1>9. /\ x = SqlNull => Right(TableLevelResult(e, TRUE, configured))
      /\ x # SqlNull => Right(TableLevelResult(e, s, facts))
  BY <1>3, <1>5, <1>6, <1>8, AggregateRight
<1>10. err = "none" => Right(r)
  BY <1>9
<1> HIDE DEF r
<1> QED
  BY <1>2, <1>4, <1>7, <1>10, RightConclude

\* A least or a greatest value.
LEMMA BoundRight ==
  ASSUME EvaluationInv, FiguresKept, EvalBound
  PROVE  FiguresKept' /\ RightStep
<1> DEFINE e == Current
           configured == Fact("ConfiguredFloatBound", e.lo)
<1>1. PICK err \in Outcomes(TRUE), x \in Answers(e.kind) :
        Conclude(err, IF err # "none" THEN Base(e)
                      ELSE IF x = SqlNull THEN TableLevelResult(e, TRUE, configured)
                      ELSE TableLevelResult(e, CompareAggregate(e, x), Fact("ObservedFloat", x) ++ configured))
  BY DEF EvalBound
<1> DEFINE facts == Fact("ObservedFloat", x) ++ configured
           s == CompareAggregate(e, x)
           r == IF err # "none" THEN Base(e)
                ELSE IF x = SqlNull THEN TableLevelResult(e, TRUE, configured)
                ELSE TableLevelResult(e, s, facts)
<1>2. Due({"Min", "Max"})
  BY DEF EvalBound
<1>3. (e.kind = "Min" \/ e.kind = "Max") /\ e = Current /\ e \in Expectation
  BY <1>2, CurrentAccepted DEF Due
<1>4. Sized(r)
  BY BaseSized
<1>5. \A f \in {"Rate", "Share"} : f \notin DOMAIN configured /\ f \notin DOMAIN facts
  BY DEF Fact, ++
<1>6. s \in BOOLEAN
  BY DEF CompareAggregate, AtMost
<1>7. Conclude(err, r)
  BY <1>1
<1> HIDE DEF e
<1>8. input.table.finite => (Satisfied(e) <=> x = SqlNull \/ s)
  BY <1>1, <1>3, BoundTrue DEF EvaluationInv
<1> HIDE DEF s, facts, configured
<1>9. /\ x = SqlNull => Right(TableLevelResult(e, TRUE, configured))
      /\ x # SqlNull => Right(TableLevelResult(e, s, facts))
  BY <1>3, <1>5, <1>6, <1>8, AggregateRight
<1>10. err = "none" => Right(r)
  BY <1>9
<1> HIDE DEF r
<1> QED
  BY <1>2, <1>4, <1>7, <1>10, RightConclude

\* A sum or a deviation, of which an answer that is not finite is an error.
LEMMA MomentRight ==
  ASSUME EvaluationInv, FiguresKept, EvalSum \/ EvalStdDev
  PROVE  FiguresKept' /\ RightStep
<1>1. ASSUME NEW kind, Due({kind}), NEW lower, NEW upper, NEW observed, NEW watched, NEW lo, NEW hi,
             Moment(Current, lower, upper, observed, watched, lo, hi),
             {"Rate", "Share"} \cap {lower, upper, observed} = {},
             \A x \in Answers(kind) :
               input.table.finite =>
                 (Satisfied(Current) <=> x = SqlNull \/ (AtMost(lo, x) /\ AtMost(x, hi)))
      PROVE  FiguresKept' /\ RightStep
  <2> DEFINE e == Current
             configured == Fact(lower, e.lo) ++ Fact(upper, e.hi)
             s(x) == AtMost(lo, x) /\ AtMost(x, hi)
             result(failed, x) ==
               IF failed # "none" \/ x = SqlNull
               THEN TableLevelResult(e, failed = "none", configured)
               ELSE TableLevelResult(e, s(x), Fact(observed, x) ++ configured)
  <2>1. PICK failed, x :
          /\ x \in Answers(e.kind) /\ AppendResult(failed, result(failed, x))
          /\ UNCHANGED <<input, rows, other, writes, cache>>
    BY <1>1 DEF Moment
  <2>2. e.kind = kind /\ e = Current
    BY <1>1 DEF Due
  <2>3. Sized(result(failed, x))
    BY BaseSized
  <2> DEFINE facts == Fact(observed, x) ++ configured
             t == s(x)
             r == result(failed, x)
  <2>4. \A f \in {"Rate", "Share"} : f \notin DOMAIN configured /\ f \notin DOMAIN facts
    BY <1>1 DEF Fact, ++
  <2>5. t \in BOOLEAN
    BY DEF AtMost
  <2>6. input.table.finite => (Satisfied(e) <=> x = SqlNull \/ t)
    BY <1>1, <2>1, <2>2
  <2>7. Sized(r) /\ AppendResult(failed, r)
    BY <2>1, <2>3
  <2>8. ASSUME failed = "none"
        PROVE  /\ x = SqlNull => r = TableLevelResult(e, TRUE, configured)
               /\ x # SqlNull => r = TableLevelResult(e, t, facts)
    <3>1. (failed = "none") = TRUE
      BY <2>8
    <3> HIDE DEF e, configured, facts, s, t
    <3>2. x = SqlNull => r = TableLevelResult(e, TRUE, configured)
      BY <3>1
    <3>3. x # SqlNull => r = TableLevelResult(e, s(x), Fact(observed, x) ++ configured)
      BY <2>8, Zenon
    <3> QED
      BY <3>2, <3>3, Zenon DEF t, facts
  <2> HIDE DEF e, configured, facts, t, s, result, r
  <2>9. /\ x = SqlNull => Right(TableLevelResult(e, TRUE, configured))
        /\ x # SqlNull => Right(TableLevelResult(e, t, facts))
    BY <2>2, <2>4, <2>5, <2>6, AggregateRight
  <2>10. failed = "none" => Right(r)
    BY <2>8, <2>9
  <2> QED
    BY <1>1, <2>1, <2>7, <2>10, RightRecord
<1>2. CASE EvalSum
  <2>1. PICK kind, lower, upper, observed, watched :
          /\ kind \in {"SumInt", "SumFloat"} /\ Due({kind})
          /\ {"Rate", "Share"} \cap {lower, upper, observed} = {}
          /\ Moment(Current, lower, upper, observed, watched, Current.lo, Current.hi)
    BY <1>2 DEF EvalSum
  <2>2. Current.kind = kind
    BY <2>1 DEF Due
  <2>3. \A x \in Answers(kind) :
          input.table.finite =>
            (Satisfied(Current) <=> x = SqlNull \/ (AtMost(Current.lo, x) /\ AtMost(x, Current.hi)))
    BY <2>1, <2>2, SumTrue DEF EvaluationInv
  <2> QED
    BY <1>1, <2>1, <2>3
<1>3. CASE EvalStdDev
  <2>1. Due({"StdDev"})
        /\ Moment(Current, "StdDev.ConfiguredLower", "StdDev.ConfiguredUpper", "StdDev.Observed",
                  TRUE, Square(Current.lo), Square(Current.hi))
    BY <1>3 DEF EvalStdDev
  <2>2. Current \in Expectation /\ Accepted(Current) /\ Current.kind = "StdDev"
    BY <2>1, CurrentAccepted DEF Due
  <2>3. \A x \in Answers("StdDev") :
          input.table.finite =>
            (Satisfied(Current) <=>
               x = SqlNull \/ (AtMost(Square(Current.lo), x) /\ AtMost(x, Square(Current.hi))))
    BY <2>2, DeviationTrue DEF EvaluationInv
  <2>4. {"Rate", "Share"} \cap {"StdDev.ConfiguredLower", "StdDev.ConfiguredUpper", "StdDev.Observed"} = {}
    OBVIOUS
  <2> QED
    BY <1>1, <2>1, <2>3, <2>4, Zenon
<1> QED
  BY <1>2, <1>3

\* A freshness.
LEMMA FreshRight ==
  ASSUME EvaluationInv, FiguresKept, EvalFreshSince
  PROVE  FiguresKept' /\ RightStep
<1> DEFINE e == Current
           configured == Fact("ConfiguredTimeCutoff", e.lo)
           stale == Fact("ObservedTimePresent", Flag(FALSE)) ++ configured
           newest == Max(Present)
           fresh == Fact("ObservedTime", Whole(newest)) ++ Fact("ObservedTimePresent", Flag(TRUE))
                    ++ configured
           s == ~(newest < e.lo.n)
           r(err) == IF err # "none" THEN TableLevelResult(e, FALSE, configured)
                     ELSE IF Present = {} THEN TableLevelResult(e, FALSE, stale)
                     ELSE TableLevelResult(e, s, fresh)
<1>1. PICK err \in Outcomes(TRUE) : Conclude(err, r(err))
  <2>1. Whole(newest).n = newest
    BY DEF Whole, Num
  <2> QED
    BY <2>1, Zenon DEF EvalFreshSince
<1>2. Due({"FreshSince"})
  BY DEF EvalFreshSince
<1>3. e.kind = "FreshSince" /\ e = Current
  BY <1>2 DEF Due
<1>4. e \in Expectation /\ e.lo.d = 1
  <2>1. e \in Expectation /\ Accepted(e)
    BY <1>2, CurrentAccepted
  <2> QED
    BY <1>3, <2>1 DEF Accepted
<1>5. Sized(r(err))
  BY BaseSized
<1>6. /\ "Rate" \notin DOMAIN stale /\ "Share" \notin DOMAIN stale
      /\ "Rate" \notin DOMAIN fresh /\ "Share" \notin DOMAIN fresh
  BY DEF Fact, ++
<1>7. s \in BOOLEAN
  OBVIOUS
<1> HIDE DEF e
<1>8. /\ Present = {} => ~Satisfied(e)
      /\ Present # {} => (Satisfied(e) <=> s)
  BY <1>3, <1>4, FreshTrue DEF EvaluationInv
<1> HIDE DEF stale, fresh, s
<1>9. ASSUME err = "none" PROVE Right(r(err))
  <2>1. Present = {} => Right(TableLevelResult(e, FALSE, stale))
    BY <1>3, <1>6, <1>8, PlainRight
  <2>2. Present # {} => Right(TableLevelResult(e, s, fresh))
    BY <1>3, <1>6, <1>7, <1>8, PlainRight
  <2> QED
    BY <1>9, <2>1, <2>2
<1> DEFINE x == r(err)
<1>10. Conclude(err, x) /\ Sized(x) /\ (err = "none" => Right(x))
  BY <1>1, <1>5, <1>9
<1> HIDE DEF x, r
<1> QED
  BY <1>2, <1>10, RightConclude

\* A step that records nothing records nothing wrong.
LEMMA NothingRecorded ==
  ASSUME EvaluationInv, results' = results
  PROVE  RightStep
<1>1. Len(results) \in Int
  <2>1. IsList(results)
    BY DEF EvaluationInv, WellCounted
  <2> QED
    BY <2>1, LenProperties DEF IsList
<1> QED
  BY <1>1 DEF RightStep

\* The total that the fractions share is what there is when it is counted.
LEMMA TotalRight ==
  ASSUME EvaluationInv, FiguresKept, ResolveScopedTotal
  PROVE  FiguresKept' /\ RightStep
<1>1. PICK err : cache' = [loaded |-> TRUE, total |-> IF err = "none" THEN AllRows ELSE 0,
                           err |-> err, taken |-> writes]
  BY DEF ResolveScopedTotal
<1>2. UNCHANGED <<rows, writes, left, taken, results>>
  BY DEF ResolveScopedTotal
<1>3. AllRows' = AllRows
  BY <1>2, Zenon DEF AllRows, CountOf
<1>4. writes \in Nat
  BY BoundsAssumption DEF EvaluationInv, EvaluationTypeOK
<1>5. FiguresKept'
  BY <1>1, <1>2, <1>3, <1>4 DEF FiguresKept
<1> QED
  BY <1>2, <1>5, NothingRecorded

\* Without a total nothing is claimed.
LEMMA WithoutTotalRight ==
  ASSUME EvaluationInv, FiguresKept, FractionWithoutTotal
  PROVE  FiguresKept' /\ RightStep
<1> DEFINE t == TableLevelResult(Current, FALSE, ConfiguredFractionBounds(Current))
           r == [t EXCEPT !.query = 0]
<1>1. Due(Fractions) /\ cache.err # "none" /\ AppendResult(cache.err, r)
      /\ UNCHANGED <<input, rows, other, writes, cache>>
  BY DEF FractionWithoutTotal
<1>2. Sized(t)
  BY BaseSized
<1> HIDE DEF t
<1>3. Sized(r)
  BY <1>2, FieldsOfBlank DEF Sized, Sizes
<1> HIDE DEF r
<1> QED
  BY <1>1, <1>3, RightRecord

\* The numerators count rows of the table, those that the rates are about.
LEMMA NumeratorTrue ==
  ASSUME WellCounted, NEW e \in Expectation, e.kind \in Fractions \ {"DominantShare"}
  PROVE  /\ Numerator(e) \in Nat /\ Numerator(e) <= AllRows
         /\ Satisfied(e) <=> AllRows = 0 \/ Allows(e, Numerator(e), AllRows)
<1>1. e.kind = "Completeness" \/ e.kind = "DuplicateRate" \/ e.kind = "Frequency"
  BY DEF Fractions
<1>2. /\ \A s \in SUBSET (Numbers \cup {Null}) :
           CountOf(s) = Cardinality(Tokens(rows, s)) /\ CountOf(s) \in Nat /\ CountOf(s) <= AllRows
      /\ \A v \in Numbers \cup {Null} :
           Cardinality({r \in TheRows : r[1] = v}) = rows[v] /\ rows[v] <= AllRows
      /\ AllRows = Cardinality(TheRows) /\ rows \in [Numbers \cup {Null} -> Nat]
      /\ Valued = Tokens(rows, Numbers)
  BY RowsCounted
<1>3. CASE e.kind = "Completeness"
  <2>1. Numerator(e) = CountOf(Numbers)
    BY <1>3 DEF Numerator
  <2>2. CountOf(Numbers) = Cardinality(Valued) /\ CountOf(Numbers) \in Nat /\ CountOf(Numbers) <= AllRows
    BY <1>2
  <2>3. Satisfied(e) <=> Cardinality(TheRows) = 0 \/ Allows(e, Cardinality(Valued), Cardinality(TheRows))
    BY <1>3, SatisfiedCases
  <2> QED
    BY <1>2, <2>1, <2>2, <2>3
<1>4. CASE e.kind = "DuplicateRate"
  <2> DEFINE S == {v \in Numbers : rows[v] > 1}
             D == {r \in Valued : \E s \in Valued \ {r} : s[1] = r[1]}
  <2>1. Numerator(e) = CountOf(S)
    BY <1>4 DEF Numerator
  <2>2. ASSUME NEW r \in Tokens(rows, S) PROVE r \in D
    <3>1. PICK v \in S : \E k \in 1..rows[v] : r = <<v, k>>
      BY DEF Tokens
    <3>2. PICK k \in 1..rows[v] : r = <<v, k>>
      BY <3>1
    <3>3. rows[v] \in Nat /\ rows[v] > 1 /\ v \in Numbers
      BY <1>2
    <3> DEFINE j == IF k = 1 THEN 2 ELSE 1
    <3>4. j \in 1..rows[v] /\ j # k
      BY <3>3
    <3> HIDE DEF j
    <3>5. <<v, j>> \in Valued /\ r \in Valued /\ <<v, j>> # r /\ <<v, j>>[1] = r[1]
      BY <1>2, <3>2, <3>3, <3>4 DEF Tokens
    <3> QED
      BY <3>5
  <2>3. ASSUME NEW r \in D PROVE r \in Tokens(rows, S)
    <3>1. r \in Valued
      OBVIOUS
    <3>2. PICK s \in Valued : s # r /\ s[1] = r[1]
      OBVIOUS
    <3>3. PICK v \in Numbers : \E k \in 1..rows[v] : r = <<v, k>>
      BY <1>2, <3>1 DEF Tokens
    <3>4. PICK k \in 1..rows[v] : r = <<v, k>>
      BY <3>3
    <3>5. PICK w \in Numbers : \E j \in 1..rows[w] : s = <<w, j>>
      BY <1>2, <3>2 DEF Tokens
    <3>6. PICK j \in 1..rows[w] : s = <<w, j>>
      BY <3>5
    <3>7. w = v /\ j # k
      BY <3>2, <3>4, <3>6
    <3>8. rows[v] \in Nat
      BY <1>2
    <3>9. rows[v] > 1
      BY <3>4, <3>6, <3>7, <3>8
    <3> QED
      BY <3>4, <3>9 DEF Tokens
  <2>4. Tokens(rows, S) = D
    BY <2>2, <2>3
  <2>5. Satisfied(e) <=> Cardinality(TheRows) = 0 \/ Allows(e, Cardinality(D), Cardinality(TheRows))
    BY <1>4, SatisfiedCases
  <2>6. S \in SUBSET (Numbers \cup {Null})
    OBVIOUS
  <2> HIDE DEF S, D
  <2>7. CountOf(S) = Cardinality(D) /\ CountOf(S) \in Nat /\ CountOf(S) <= AllRows
    BY <1>2, <2>4, <2>6
  <2> QED
    BY <1>2, <2>1, <2>5, <2>7
<1>5. CASE e.kind = "Frequency"
  <2> DEFINE v == e.value
  <2>1. Numerator(e) = rows[v] /\ v \in Numbers \cup {Null}
    BY <1>5 DEF Numerator, Expectation
  <2>2. Satisfied(e) <=> \/ Cardinality(TheRows) = 0
                         \/ Allows(e, Cardinality({r \in TheRows : r[1] = v}), Cardinality(TheRows))
    BY <1>5, SatisfiedCases
  <2> HIDE DEF v
  <2>3. rows[v] = Cardinality({r \in TheRows : r[1] = v}) /\ rows[v] \in Nat /\ rows[v] <= AllRows
    BY <1>2, <2>1
  <2> QED
    BY <1>2, <2>1, <2>2, <2>3
<1> QED
  BY <1>1, <1>3, <1>4, <1>5

\* A part of a whole is a share of it.
LEMMA PartOfWhole ==
  ASSUME NEW n \in Nat, NEW all \in Nat, n <= all, all > 0
  PROVE  InUnitRange(Num(n, all))
<1> DEFINE x == Num(n, all)
<1>1. /\ x.n = n /\ x.d = all /\ x # NaN
      /\ Whole(0).n = 0 /\ Whole(0).d = 1 /\ Whole(0) # NaN
      /\ Whole(1).n = 1 /\ Whole(1).d = 1 /\ Whole(1) # NaN
  BY DEF Num, Whole, NaN
<1> HIDE DEF x
<1>2. 0 * all <= n * 1 /\ n * 1 <= 1 * all
  OBVIOUS
<1> QED
  BY <1>1, <1>2 DEF InUnitRange, AtMost, x

\* What was counted of a fraction's table is so if nobody wrote since the total was.
LEMMA TotalKept ==
  ASSUME FiguresKept, Current.kind \in Fractions, cache.loaded, cache.err = "none", Since = writes
  PROVE  cache.total = AllRows
  BY DEF FiguresKept, Since

\* A rate or a share.
LEMMA RateRight ==
  ASSUME EvaluationInv, FiguresKept, EvalRate
  PROVE  FiguresKept' /\ RightStep
<1> DEFINE e == Current
           rate == IF e.kind = "Frequency" THEN "Share" ELSE "Rate"
           count == Numerator(e)
           r(err) == IF err # "none" THEN TableLevelResult(e, FALSE, ConfiguredFractionBounds(e))
                     ELSE Fraction(e, NumeratorFact(e), count, rate)
<1>1. PICK err \in Outcomes(TRUE) : Conclude(err, r(err))
  BY DEF EvalRate
<1>2. Due(Fractions \ {"DominantShare"}) /\ cache.loaded /\ cache.err = "none"
  BY DEF EvalRate
<1>3. e \in Expectation /\ Accepted(e) /\ e.kind \in Fractions \ {"DominantShare"} /\ e = Current
  BY <1>2, CurrentAccepted
<1>4. Sized(r(err))
  BY BaseSized DEF Fraction
<1>5. rate \in {"Rate", "Share"}
  OBVIOUS
<1>6. /\ count \in Nat /\ count <= AllRows /\ AllRows \in Nat
      /\ Satisfied(e) <=> AllRows = 0 \/ Allows(e, count, AllRows)
  BY <1>3, NumeratorTrue, CountsNatural DEF EvaluationInv
<1>7. NumeratorFact(e) \in {"NonNullCount", "DuplicateCount", "ValueCount"}
  BY <1>3 DEF NumeratorFact, Fractions
<1> HIDE DEF e, rate, count
<1>8. ASSUME Since = writes PROVE Right(Fraction(e, NumeratorFact(e), count, rate))
  <2> DEFINE x == Num(count, cache.total)
             counts == Fact(NumeratorFact(e), Whole(count)) ++ Fact("TotalCount", Whole(cache.total))
                       ++ ConfiguredFractionBounds(e)
             facts == Fact(rate, x) ++ counts
             s == CompareBoundedFraction(e, x)
  <2>1. cache.total = AllRows
    BY <1>2, <1>3, <1>8, TotalKept
  <2>2. "Rate" \notin DOMAIN counts /\ "Share" \notin DOMAIN counts
    BY <1>7 DEF Fact, ++, ConfiguredFractionBounds, Bounds
  <2> HIDE DEF x, counts
  <2>3. CASE cache.total > 0
    <3>1. s \in BOOLEAN /\ (s <=> Allows(e, count, cache.total))
      BY <1>3, <2>3, ShareAllowed DEF x
    <3>2. InUnitRange(x)
      BY <1>6, <2>1, <2>3, PartOfWhole DEF x
    <3>3. \A f \in DOMAIN facts \cap {"Rate", "Share"} : f = rate
      BY <2>2 DEF Fact, ++
    <3>4. facts[rate] = x
      BY FactJoined
    <3> HIDE DEF s, facts
    <3>5. \A f \in DOMAIN facts \cap {"Rate", "Share"} : InUnitRange(facts[f])
      BY <3>2, <3>3, <3>4
    <3>6. s <=> Satisfied(e)
      BY <1>6, <2>1, <2>3, <3>1
    <3>7. Right(TableLevelResult(e, s, facts))
      BY <1>3, <3>1, <3>5, <3>6, ResultRight
    <3> QED
      BY <2>3, <3>7 DEF Fraction, s, facts, counts, x
  <2>4. CASE ~(cache.total > 0)
    <3>1. TRUE <=> Satisfied(e)
      BY <1>6, <2>1, <2>4
    <3>2. Right(TableLevelResult(e, TRUE, counts))
      BY <1>3, <2>2, <3>1, PlainRight
    <3> QED
      BY <2>4, <3>2 DEF Fraction, counts
  <2> QED
    BY <2>3, <2>4
<1> DEFINE x == r(err)
<1>9. Conclude(err, x) /\ Sized(x) /\ (err = "none" /\ Since = writes => Right(x))
  BY <1>1, <1>4, <1>8
<1> HIDE DEF x, r
<1> QED
  BY <1>2, <1>9, RightConclude

\* The dominant count is that of the rows that hold the most frequent value.
LEMMA DominantTrue ==
  ASSUME WellCounted, NEW e, e.kind = "DominantShare"
  PROVE  /\ DominantCount \in Nat /\ DominantCount <= AllRows
         /\ DominantCount = 0 => AllRows = 0
         /\ Satisfied(e) <=> AllRows = 0 \/ Allows(e, DominantCount, AllRows)
<1> DEFINE D == Numbers \cup {Null}
           Holding(v) == Cardinality({r \in TheRows : r[1] = v})
           C == {rows[v] : v \in Categories}
<1>1. /\ rows \in [D -> Nat] /\ DOMAIN rows = D /\ TheRows = Tokens(rows, D)
      /\ (\A v \in D : Holding(v) = rows[v] /\ rows[v] <= AllRows)
      /\ IsFiniteSet(TheRows) /\ AllRows = Cardinality(TheRows) /\ AllRows \in Nat
  BY RowsCounted
<1>2. Satisfied(e) <=> \/ Cardinality(TheRows) = 0
                       \/ \E r \in TheRows : /\ \A s \in TheRows : Holding(s[1]) <= Holding(r[1])
                                             /\ Allows(e, Holding(r[1]), Cardinality(TheRows))
  BY SatisfiedCases
<1> HIDE DEF D, Holding
<1>3. \A r \in TheRows : r[1] \in D /\ rows[r[1]] > 0
  <2> TAKE r \in TheRows
  <2>1. PICK v \in D : \E k \in 1..rows[v] : r = <<v, k>>
    BY <1>1 DEF Tokens
  <2>2. rows[v] \in Nat /\ r[1] = v
    BY <1>1, <2>1
  <2>3. rows[v] > 0
    BY <2>1, <2>2
  <2> QED
    BY <2>2, <2>3
<1>4. \A v \in Categories : <<v, 1>> \in TheRows /\ v \in D
  <2> TAKE v \in Categories
  <2>1. v \in D /\ rows[v] > 0 /\ rows[v] \in Nat
    BY <1>1 DEF Categories
  <2>2. 1 \in 1..rows[v]
    BY <2>1
  <2> QED
    BY <1>1, <2>1, <2>2 DEF Tokens
<1>5. \A r \in TheRows : r[1] \in Categories
  BY <1>1, <1>3 DEF Categories
<1>6. TheRows = {} <=> AllRows = 0
  BY <1>1, FS_EmptySet
<1>7. CASE Categories = {}
  <2>1. DominantCount = 0 /\ AllRows = 0
    BY <1>5, <1>6, <1>7 DEF DominantCount
  <2> QED
    BY <1>1, <1>2, <2>1
<1>8. CASE Categories # {}
  <2>1. \A v \in Categories : rows[v] \in 0..AllRows
    <3> TAKE v \in Categories
    <3>1. v \in D
      BY <1>4
    <3>2. rows[v] \in Nat /\ rows[v] <= AllRows
      BY <1>1, <3>1
    <3> QED
      BY <1>1, <3>2
  <2>2. C \in SUBSET Int /\ C # {} /\ IsFiniteSet(C)
    <3>1. IsFiniteSet(0..AllRows)
      BY <1>1, FS_Interval
    <3>2. C \in SUBSET (0..AllRows) /\ C # {}
      BY <1>8, <2>1
    <3> HIDE DEF C
    <3>3. IsFiniteSet(C)
      BY <3>1, <3>2, FS_Subset
    <3> QED
      BY <3>2, <3>3
  <2>3. Max(C) \in C /\ \A y \in C : Max(C) >= y
    <3> HIDE DEF C
    <3> QED
      BY <2>2, MaxRule
  <2>4. DominantCount = Max(C)
    BY <1>8 DEF DominantCount
  <2> DEFINE m == DominantCount
  <2>5. PICK w \in Categories : m = rows[w]
    BY <2>3, <2>4
  <2>6. \A v \in Categories : rows[v] <= m
    BY <1>1, <1>4, <2>3, <2>4
  <2>7. m \in Nat /\ m > 0 /\ m <= AllRows
    BY <1>1, <1>4, <2>5 DEF Categories
  <2> HIDE DEF m, C
  <2>8. \A r \in TheRows : Holding(r[1]) = rows[r[1]]
    BY <1>1, <1>3
  <2>9. ASSUME NEW r \in TheRows, \A s \in TheRows : Holding(s[1]) <= Holding(r[1])
        PROVE  Holding(r[1]) = m
    <3>1. <<w, 1>> \in TheRows /\ <<w, 1>>[1] = w
      BY <1>4
    <3>2. m <= rows[r[1]]
      BY <2>5, <2>8, <2>9, <3>1
    <3>3. rows[r[1]] <= m /\ rows[r[1]] \in Nat
      BY <1>1, <1>3, <1>5, <2>6
    <3> QED
      BY <2>7, <2>8, <3>2, <3>3
  <2>10. \E r \in TheRows : (\A s \in TheRows : Holding(s[1]) <= Holding(r[1])) /\ Holding(r[1]) = m
    <3> DEFINE r == <<w, 1>>
    <3>1. r \in TheRows /\ r[1] = w
      BY <1>4
    <3> HIDE DEF r
    <3>2. Holding(r[1]) = m
      BY <2>5, <2>8, <3>1
    <3>3. \A s \in TheRows : Holding(s[1]) <= m
      BY <1>5, <2>6, <2>8
    <3> QED
      BY <3>1, <3>2, <3>3
  <2>11. AllRows # 0
    BY <1>1, <2>7
  <2>12. Satisfied(e) <=> Allows(e, m, AllRows)
    BY <1>1, <1>2, <2>9, <2>10, <2>11
  <2> QED
    BY <2>7, <2>11, <2>12 DEF m
<1> QED
  BY <1>7, <1>8

\* A dominant share.
LEMMA DominantRight ==
  ASSUME EvaluationInv, FiguresKept, EvalDominantShare
  PROVE  FiguresKept' /\ RightStep
<1> DEFINE e == Current
           share == Num(DominantCount, cache.total)
           configured == ConfiguredFractionBounds(e)
           facts == Fact("DominantCount", Whole(DominantCount)) ++ Fact("TotalCount", Whole(cache.total))
                    ++ Fact("TieCount", Whole(TieCount)) ++ Fact("Share", share) ++ configured
           s == CompareBoundedFraction(e, share)
           r(err) == IF err # "none" \/ DominantCount = 0
                     THEN TableLevelResult(e, err = "none", configured)
                     ELSE TableLevelResult(e, s, facts)
<1>1. PICK err \in Outcomes(FALSE) : Conclude(err, r(err))
  BY Zenon DEF EvalDominantShare
<1>2. Due({"DominantShare"}) /\ cache.loaded /\ cache.err = "none"
  BY DEF EvalDominantShare
<1>3. e.kind = "DominantShare" /\ e = Current
  BY <1>2 DEF Due
<1>4. e \in Expectation /\ Accepted(e) /\ e.kind \in Fractions
  BY <1>2, <1>3, CurrentAccepted DEF Fractions
<1>5. Sized(r(err))
  BY BaseSized
<1>6. /\ DominantCount \in Nat /\ DominantCount <= AllRows /\ AllRows \in Nat
      /\ DominantCount = 0 => AllRows = 0
      /\ Satisfied(e) <=> AllRows = 0 \/ Allows(e, DominantCount, AllRows)
  BY <1>3, DominantTrue, CountsNatural DEF EvaluationInv
<1>7. "Rate" \notin DOMAIN configured /\ "Share" \notin DOMAIN configured
  BY DEF ConfiguredFractionBounds, Bounds, Fact, ++
<1> HIDE DEF configured, share, e
<1>8. "Rate" \notin DOMAIN facts /\ facts["Share"] = share
  BY <1>7 DEF Fact, ++
<1>9. ASSUME err = "none", Since = writes PROVE Right(r(err))
  <2>1. cache.total = AllRows
    BY <1>2, <1>3, <1>4, <1>9, TotalKept
  <2>2. (err = "none") = TRUE
    BY <1>9
  <2>3. CASE DominantCount = 0
    <3>1. TRUE <=> Satisfied(e)
      BY <1>6, <2>3
    <3>2. Right(TableLevelResult(e, TRUE, configured))
      BY <1>3, <1>7, <3>1, PlainRight
    <3> HIDE DEF facts, s
    <3> QED
      BY <2>2, <2>3, <3>2
  <2>4. CASE DominantCount # 0
    <3>1. s \in BOOLEAN /\ (s <=> Allows(e, DominantCount, cache.total))
      BY <1>4, <2>4, ShareAllowed DEF share
    <3>2. InUnitRange(share)
      BY <1>6, <2>1, <2>4, PartOfWhole DEF share
    <3> HIDE DEF facts, s
    <3>3. s <=> Satisfied(e)
      BY <1>6, <2>1, <2>4, <3>1
    <3>4. \A f \in DOMAIN facts \cap {"Rate", "Share"} : InUnitRange(facts[f])
      BY <1>8, <3>2
    <3>5. Right(TableLevelResult(e, s, facts))
      BY <1>3, <3>1, <3>3, <3>4, ResultRight
    <3> QED
      BY <1>9, <2>4, <3>5
  <2> QED
    BY <2>3, <2>4
<1> DEFINE x == r(err)
<1>10. Conclude(err, x) /\ Sized(x) /\ (err = "none" /\ Since = writes => Right(x))
  BY <1>1, <1>5, <1>9
<1> HIDE DEF x, r
<1> QED
  BY <1>2, <1>10, RightConclude

\* The first count of a reconciliation claims nothing.
LEMMA LeftRight ==
  ASSUME EvaluationInv, FiguresKept, CountLeft
  PROVE  FiguresKept' /\ RightStep
<1>1. CASE /\ left' = AllRows /\ taken' = writes
           /\ UNCHANGED <<input, rows, other, writes, faults, at, cache, results, refused>>
  <2>1. AllRows' = AllRows
    BY <1>1, Zenon DEF AllRows, CountOf
  <2>2. writes \in Nat
    BY BoundsAssumption DEF EvaluationInv, EvaluationTypeOK
  <2>3. FiguresKept'
    BY <1>1, <2>1, <2>2 DEF FiguresKept
  <2> QED
    BY <1>1, <2>3, NothingRecorded
<1>2. ASSUME NEW err \in Outcomes(TRUE), err # "none", Conclude(err, Base(Current))
      PROVE  FiguresKept' /\ RightStep
  <2>1. Due({"Reconcile"}) /\ Sized(Base(Current))
    BY BaseSized DEF CountLeft
  <2> QED
    BY <1>2, <2>1, RightConclude
<1> QED
  BY <1>1, <1>2 DEF CountLeft

\* The second says whether the tables have as many rows, if the first is still so.
LEMMA RightRight ==
  ASSUME EvaluationInv, FiguresKept, CountRight
  PROVE  FiguresKept' /\ RightStep
<1> DEFINE e == Current
           counted == Fact("ObservedLeftCount", Whole(left))
           facts == Fact("ObservedRightCount", Whole(other)) ++ counted
           t == TableLevelResult(e, left = other, facts)
           met == [t EXCEPT !.failed = IF left = other THEN 0 ELSE 1, !.shape = "reconcile"]
           unmet == TableLevelResult(e, FALSE, counted)
<1>1. PICK err \in Outcomes(TRUE) : Conclude(err, IF err # "none" THEN unmet ELSE met)
  BY Zenon DEF CountRight
<1>2. Due({"Reconcile"}) /\ left # None
  BY DEF CountRight
<1>3. e.kind = "Reconcile" /\ e = Current
  BY <1>2 DEF Due
<1>4. CASE err # "none"
  <2>1. Sized(unmet)
    BY BaseSized
  <2>2. Conclude(err, unmet)
    BY <1>1, <1>4, Zenon
  <2> HIDE DEF unmet
  <2> QED
    BY <1>2, <1>4, <2>1, <2>2, RightConclude
<1>5. CASE err = "none"
  <2>1. Sized(met)
    BY <1>3, ReconcileBears, Zenon
  <2>2. Conclude(err, met)
    BY <1>1, <1>5, Zenon
  <2>3. "Rate" \notin DOMAIN facts /\ "Share" \notin DOMAIN facts
    BY DEF Fact, ++
  <2>4. t.success = (left = other) /\ t.facts = facts /\ DOMAIN t = DOMAIN Blank
    BY TableLevelFields, BaseSized DEF Sized
  <2> HIDE DEF t, facts
  <2>5. met.success = t.success /\ met.facts = t.facts
    BY <2>4, FieldsOfBlank
  <2> HIDE DEF met
  <2>6. ASSUME Since = writes PROVE Satisfied(e) <=> left = other
    <3>1. taken = writes
      BY <1>2, <1>3, <2>6 DEF Since, Fractions
    <3>2. left = Cardinality(TheRows)
      BY <1>2, <3>1, RowsCounted DEF FiguresKept, EvaluationInv
    <3>3. Satisfied(e) <=> Cardinality(TheRows) = other
      BY <1>3, SatisfiedCases
    <3> QED
      BY <3>2, <3>3
  <2>7. ASSUME Since = writes PROVE Right(met)
    <3>1. met.success <=> left = other
      BY <2>4, <2>5, Zenon
    <3>2. met.success <=> Satisfied(e)
      BY <2>6, <2>7, <3>1, Zenon
    <3>3. \A f \in DOMAIN met.facts \cap {"Rate", "Share"} : InUnitRange(met.facts[f])
      BY <2>3, <2>4, <2>5
    <3> QED
      BY <3>2, <3>3, Zenon DEF Right, e
  <2> QED
    BY <1>2, <2>1, <2>2, <2>7, RightConclude
<1> QED
  BY <1>4, <1>5

\* A trusted count.
LEMMA CustomRight ==
  ASSUME EvaluationInv, FiguresKept, EvalCustomCount
  PROVE  FiguresKept' /\ RightStep
<1> DEFINE e == Current
           n == rows[e.value]
           answers == IF faults = MaxFaults THEN {"count"} ELSE Malformed \cup {"count"}
           shaped == [Base(e) EXCEPT !.shape = "custom"]
           met == [shaped EXCEPT !.success = n = 0, !.failed = n]
<1>1. PICK err \in Outcomes(TRUE), answer \in answers :
        LET failed == IF err = "none" /\ answer \in Malformed THEN "scan" ELSE err
        IN Conclude(failed, IF failed # "none" THEN shaped ELSE met)
  BY Zenon DEF EvalCustomCount
<1> DEFINE failed == IF err = "none" /\ answer \in Malformed THEN "scan" ELSE err
           r == IF failed # "none" THEN shaped ELSE met
<1>2. Due({"Custom"})
  BY DEF EvalCustomCount
<1>3. e.kind = "Custom" /\ e = Current
  BY <1>2 DEF Due
<1>4. e.value \in Numbers \cup {Null}
  BY <1>2, CurrentTyped DEF EvaluationInv
<1>5. n \in Nat
  BY <1>4 DEF EvaluationInv, WellCounted
<1>6. Satisfied(e) <=> n = 0
  <2> DEFINE v == e.value
             X == {p \in TheRows : p[1] = v}
  <2>1. n = Cardinality(X) /\ IsFiniteSet(TheRows)
    BY <1>4, RowsCounted DEF EvaluationInv
  <2>2. X \in SUBSET TheRows
    OBVIOUS
  <2>3. Satisfied(e) <=> X = {}
    <3>1. Satisfied(e) <=> \A p \in TheRows : p[1] # v
      BY <1>3, SatisfiedCases
    <3> QED
      BY <3>1
  <2> HIDE DEF X, n
  <2>4. IsFiniteSet(X)
    BY <2>1, <2>2, FS_Subset
  <2>5. X = {} <=> n = 0
    BY <2>1, <2>4, FS_EmptySet
  <2> QED
    BY <2>3, <2>5
<1> HIDE DEF n
<1>7. Sized(shaped) /\ Sized(met)
  BY <1>3, <1>5, CustomBears, Zenon
<1>8. DOMAIN shaped = DOMAIN Blank /\ shaped.facts = <<>>
  BY BaseFields, FieldsOfBlank
<1> HIDE DEF shaped
<1>9. met.facts = <<>> /\ met.success = (n = 0)
  BY <1>8, FieldsOfBlank
<1>10. Conclude(failed, r)
  BY <1>1
<1> HIDE DEF met, failed
<1>11. Right(met)
  <2>1. met.success <=> n = 0
    BY <1>9, Zenon
  <2>2. met.success <=> Satisfied(e)
    BY <1>6, <2>1, Zenon
  <2>3. \A f \in DOMAIN met.facts \cap {"Rate", "Share"} : InUnitRange(met.facts[f])
    BY <1>9
  <2> QED
    BY <2>2, <2>3, Zenon DEF Right, e
<1>12. Sized(r) /\ (failed = "none" => Right(r))
  BY <1>7, <1>11
<1> HIDE DEF r
<1> QED
  BY <1>2, <1>10, <1>12, RightConclude

\* Nothing of a list is kept if all of it is among the others.
LEMMA NothingKept ==
  ASSUME NEW T, NEW list \in Seq(T), NEW others
  PROVE  NotAmong(list, others) = <<>> <=> \A i \in 1..Len(list) : list[i] \in others
<1> DEFINE n == Len(list)
           entry(g, k) == IF k = 0 THEN <<>>
                          ELSE IF list[k] \in others THEN g[k - 1]
                          ELSE Append(g[k - 1], list[k])
           F(g) == [k \in 0..n |-> entry(g, k)]
           kept == CHOOSE g : g = F(g)
<1>1. NotAmong(list, others) = kept[n]
  BY Zenon DEF NotAmong
<1>2. n \in Nat /\ \A k \in 1..n : list[k] \in T
  BY LenProperties, ElementOfSeq
<1> HIDE DEF n
<1>3. IsFiniteSet(0..n)
  BY <1>2, FS_Interval
<1>4. \E g : g = F(g)
  <2> DEFINE K == {m \in 0..n : ~\E g : g = [k \in 0..m |-> entry(g, k)]}
  <2>1. K = {}
    <3> SUFFICES ASSUME K # {} PROVE FALSE
      OBVIOUS
    <3>1. K \in SUBSET (0..n) /\ K \in SUBSET Int
      BY <1>2
    <3>2. IsFiniteSet(K)
      BY <1>3, <3>1, FS_Subset
    <3> DEFINE m == Min(K)
    <3> HIDE DEF K
    <3>3. m \in K /\ \A y \in K : m =< y
      BY <3>1, <3>2, MinRule
    <3> HIDE DEF m
    <3>4. m \in 0..n
      BY <3>1, <3>3
    <3>5. CASE m = 0
      <4> DEFINE g == [k \in 0..m |-> <<>>]
      <4>1. \A k \in 0..m : entry(g, k) = <<>>
        BY <3>5
      <4>2. g = [k \in 0..m |-> entry(g, k)]
        BY <4>1
      <4> HIDE DEF g, entry
      <4> QED
        BY <3>3, <4>2, Zenon DEF K
    <3>6. CASE m # 0
      <4>1. m - 1 \in 0..n /\ m - 1 \notin K
        BY <1>2, <3>1, <3>3, <3>4, <3>6
      <4>2. PICK g : g = [k \in 0..(m - 1) |-> entry(g, k)]
        BY <4>1, Zenon DEF K
      <4> DEFINE h == [k \in 0..m |-> IF k = m THEN entry(g, m) ELSE g[k]]
      <4>3. ASSUME NEW k \in 0..m PROVE h[k] = entry(h, k)
        <5>1. k # 0 => h[k - 1] = g[k - 1]
          BY <3>4, <4>3
        <5>2. entry(h, k) = entry(g, k)
          BY <5>1
        <5>3. k # m => g[k] = entry(g, k)
          <6> HIDE DEF entry
          <6> QED
            BY <3>4, <4>2
        <5> HIDE DEF entry
        <5>4. h[k] = IF k = m THEN entry(g, m) ELSE g[k]
          OBVIOUS
        <5> QED
          BY <5>2, <5>3, <5>4
      <4>4. DOMAIN h = 0..m /\ h = [k \in 0..m |-> h[k]]
        OBVIOUS
      <4> HIDE DEF h, entry
      <4>5. h = [k \in 0..m |-> entry(h, k)]
        BY <4>3, <4>4
      <4> QED
        BY <3>3, <4>5, Zenon DEF K
    <3> QED
      BY <3>5, <3>6
  <2>2. n \in 0..n
    BY <1>2
  <2> HIDE DEF entry
  <2>3. \E g : g = [k \in 0..n |-> entry(g, k)]
    BY <2>1, <2>2
  <2> QED
    BY <2>3, Zenon
<1>5. kept = F(kept)
  <2> HIDE DEF F
  <2> QED
    BY <1>4, Zenon
<1>6. \A k \in 0..n : kept[k] = entry(kept, k)
  <2> HIDE DEF kept, entry
  <2> QED
    BY <1>5
<1> HIDE DEF kept, F
<1> DEFINE good(k) == kept[k] \in Seq(T) /\ (kept[k] = <<>> <=> \A i \in 1..k : list[i] \in others)
           K == {k \in 0..n : ~good(k)}
<1>7. K = {}
  <2> SUFFICES ASSUME K # {} PROVE FALSE
    OBVIOUS
  <2>1. K \in SUBSET (0..n) /\ K \in SUBSET Int
    BY <1>2
  <2>2. IsFiniteSet(K)
    BY <1>3, <2>1, FS_Subset
  <2> DEFINE m == Min(K)
  <2> HIDE DEF K
  <2>3. m \in K /\ \A y \in K : m =< y
    BY <2>1, <2>2, MinRule
  <2> HIDE DEF m
  <2>4. m \in 0..n /\ ~good(m)
    BY <2>3 DEF K
  <2>5. CASE m = 0
    <3>1. kept[m] = <<>>
      BY <1>6, <2>4, <2>5
    <3> QED
      BY <2>4, <2>5, <3>1
  <2>6. CASE m # 0
    <3>1. m - 1 \in 0..n /\ m - 1 \notin K
      BY <1>2, <2>1, <2>3, <2>4, <2>6
    <3>2. good(m - 1)
      BY <3>1 DEF K
    <3>3. kept[m] = IF list[m] \in others THEN kept[m - 1] ELSE Append(kept[m - 1], list[m])
      BY <1>6, <2>4, <2>6
    <3>4. m \in 1..n /\ list[m] \in T /\ \A i \in Int : i \in 1..m <=> i = m \/ i \in 1..(m - 1)
      BY <1>2, <2>4, <2>6
    <3>5. CASE list[m] \in others
      BY <2>4, <3>2, <3>3, <3>4, <3>5
    <3>6. CASE list[m] \notin others
      <4> DEFINE x == Append(kept[m - 1], list[m])
      <4>1. x \in Seq(T) /\ x # <<>>
        BY <3>2, <3>4, AppendProperties
      <4>2. kept[m] = x /\ m \in 1..m
        BY <3>3, <3>4, <3>6
      <4> HIDE DEF x
      <4> QED
        BY <2>4, <3>6, <4>1, <4>2
    <3> QED
      BY <3>5, <3>6
  <2> QED
    BY <2>5, <2>6
<1>8. good(n)
  BY <1>2, <1>7
<1> QED
  BY <1>1, <1>8 DEF n

\* The columns that are required, and those that are there.
LEMMA ColumnsTrue ==
  ASSUME WellCounted, NEW e \in Expectation, e.kind = "RequiredColumns" \/ e.kind = "ExactColumns"
  PROVE  LET missing == Missing(e.columns, input.table.catalog)
             unexpected == IF e.kind = "RequiredColumns" THEN <<>>
                           ELSE Unexpected(e.columns, input.table.catalog)
         IN Satisfied(e) <=> missing = <<>> /\ unexpected = <<>>
<1> DEFINE found == input.table.catalog
           names == [i \in DOMAIN found |-> found[i].name]
           there == {c.name : c \in Columns}
<1>1. e.columns \in Seq(STRING)
  BY DEF Expectation
<1>2. found \in Seq([name: STRING, type: STRING, nulls: {"nullable", "not_nullable", "unknown"}])
  BY CasesAssumption DEF WellCounted, Table, Catalog
<1>3. Columns = Range(found)
  BY DEF Columns
<1> HIDE DEF found
<1>4. DOMAIN found = 1..Len(found) /\ Len(found) \in Nat /\ DOMAIN e.columns = 1..Len(e.columns)
  BY <1>1, <1>2, LenProperties
<1>5. names \in Seq(there) /\ Len(names) = Len(found)
  <2>1. names = [i \in 1..Len(found) |-> found[i].name]
    BY <1>4
  <2>2. \A i \in 1..Len(found) : found[i].name \in there
    BY <1>3, <1>4 DEF Range
  <2> DEFINE f == [i \in 1..Len(found) |-> found[i].name]
  <2>3. f \in [1..Len(found) -> there]
    BY <2>2
  <2> HIDE DEF there, f
  <2>4. f \in Seq(there) /\ Len(f) = Len(found)
    <3>1. DOMAIN f = 1..Len(found)
      BY <2>3
    <3>2. f \in Seq(there)
      BY <1>4, <2>3
    <3>3. Len(f) \in Nat /\ DOMAIN f = 1..Len(f)
      BY <3>2, LenProperties
    <3> QED
      BY <1>4, <3>1, <3>2, <3>3
  <2> QED
    BY <2>1, <2>4 DEF f
<1>6. Names(found) = there
  BY <1>3 DEF Names, Range
<1>7. Missing(e.columns, found) = <<>> <=> Range(e.columns) \subseteq there
  <2>1. Missing(e.columns, found) = <<>> <=> \A i \in 1..Len(e.columns) : e.columns[i] \in there
    <3> HIDE DEF there
    <3> QED
      BY <1>1, <1>6, NothingKept DEF Missing
  <2> HIDE DEF there
  <2> QED
    BY <1>4, <2>1 DEF Range
<1>8. Unexpected(e.columns, found) = <<>> <=> there \subseteq Range(e.columns)
  <2>1. Unexpected(e.columns, found) = <<>> <=> \A i \in 1..Len(names) : names[i] \in Range(e.columns)
    <3>1. Unexpected(e.columns, found) = NotAmong(names, Range(e.columns))
      BY Zenon DEF Unexpected
    <3> HIDE DEF names
    <3> QED
      BY <1>5, <3>1, NothingKept
  <2>2. there = {names[i] : i \in 1..Len(names)}
    BY <1>4, <1>5, <1>6 DEF Names
  <2> HIDE DEF names, there
  <2> QED
    BY <2>1, <2>2
<1> HIDE DEF names
<1>9. CASE e.kind = "RequiredColumns"
  <2>1. Satisfied(e) <=> Range(e.columns) \subseteq there
    BY <1>9, SatisfiedCases
  <2> QED
    BY <1>7, <1>9, <2>1 DEF found
<1>10. CASE e.kind = "ExactColumns"
  <2>1. Satisfied(e) <=> Range(e.columns) = there
    BY <1>10, SatisfiedCases
  <2> QED
    BY <1>7, <1>8, <1>10, <2>1 DEF found
<1> QED
  BY <1>9, <1>10

\* Required columns.
LEMMA StructuralRight ==
  ASSUME EvaluationInv, FiguresKept, EvalStructural
  PROVE  FiguresKept' /\ RightStep
<1> DEFINE e == Current
           base == [Base(e) EXCEPT !.required = e.columns]
           missing == Missing(e.columns, input.table.catalog)
           unexpected == IF e.kind = "RequiredColumns" THEN <<>>
                         ELSE Unexpected(e.columns, input.table.catalog)
           met == [base EXCEPT !.success = missing = <<>> /\ unexpected = <<>>,
                               !.missing = missing, !.unexpected = unexpected]
<1>1. PICK err \in Outcomes(TRUE) : Conclude(err, IF err # "none" THEN base ELSE met)
  BY Zenon DEF EvalStructural
<1>2. Due({"RequiredColumns", "ExactColumns"})
  BY DEF EvalStructural
<1>3. (e.kind = "RequiredColumns" \/ e.kind = "ExactColumns") /\ e = Current /\ e \in Expectation
  BY <1>2, CurrentAccepted DEF Due
<1>4. Satisfied(e) <=> missing = <<>> /\ unexpected = <<>>
  BY <1>3, ColumnsTrue, Zenon DEF EvaluationInv
<1> HIDE DEF missing, unexpected
<1>5. Sized(base) /\ Sized(met)
  BY <1>3, StructuralBears, Zenon
<1>6. DOMAIN base = DOMAIN Blank /\ base.facts = <<>>
  BY BaseFields, FieldsOfBlank
<1> HIDE DEF base
<1>7. met.facts = <<>> /\ met.success = (missing = <<>> /\ unexpected = <<>>)
  BY <1>6, FieldsOfBlank
<1> DEFINE r == IF err # "none" THEN base ELSE met
<1>8. Conclude(err, r)
  BY <1>1
<1> HIDE DEF met
<1>9. Right(met)
  <2>1. met.success <=> Satisfied(e)
    BY <1>4, <1>7, Zenon
  <2>2. \A f \in DOMAIN met.facts \cap {"Rate", "Share"} : InUnitRange(met.facts[f])
    BY <1>7
  <2> QED
    BY <2>1, <2>2, Zenon DEF Right, e
<1>10. Sized(r) /\ (err = "none" => Right(r))
  BY <1>5, <1>9
<1> HIDE DEF r
<1> QED
  BY <1>2, <1>8, <1>10, RightConclude

\* The column that is found by its name is the only one of it.
LEMMA ColumnFound ==
  ASSUME WellCounted, NEW name
  PROVE  /\ name \notin Names(input.table.catalog) => \A c \in Columns : c.name # name
         /\ name \in Names(input.table.catalog) =>
              /\ FindDiscoveredColumn(name) \in Columns /\ FindDiscoveredColumn(name).name = name
              /\ \A c \in Columns : c.name = name => c = FindDiscoveredColumn(name)
<1> DEFINE found == input.table.catalog
           S == {i \in DOMAIN found : found[i].name = name}
<1>1. NamesApart(found)
  BY CasesAssumption DEF WellCounted
<1>2. found \in Seq([name: STRING, type: STRING, nulls: {"nullable", "not_nullable", "unknown"}])
  BY CasesAssumption DEF WellCounted, Table, Catalog
<1>3. Columns = Range(found)
  BY DEF Columns
<1>4. FindDiscoveredColumn(name) = found[Min(S)]
  BY Zenon DEF FindDiscoveredColumn
<1> HIDE DEF found
<1>5. DOMAIN found = 1..Len(found) /\ Len(found) \in Nat
  BY <1>2, LenProperties
<1>6. ASSUME name \notin Names(found) PROVE \A c \in Columns : c.name # name
  BY <1>3, <1>6 DEF Names, Range
<1>7. ASSUME name \in Names(found)
      PROVE  /\ found[Min(S)] \in Columns /\ found[Min(S)].name = name
             /\ \A c \in Columns : c.name = name => c = found[Min(S)]
  <2>1. S # {} /\ S \in SUBSET (1..Len(found)) /\ S \in SUBSET Int
    BY <1>5, <1>7 DEF Names
  <2>2. IsFiniteSet(S)
    <3>1. IsFiniteSet(1..Len(found))
      BY <1>5, FS_Interval
    <3> HIDE DEF S
    <3> QED
      BY <2>1, <3>1, FS_Subset
  <2> DEFINE m == Min(S)
  <2> HIDE DEF S
  <2>3. m \in S
    BY <2>1, <2>2, MinRule
  <2> HIDE DEF m
  <2>4. m \in DOMAIN found /\ found[m].name = name
    BY <2>3 DEF S
  <2>5. \A i \in DOMAIN found : found[i].name = name => i = m
    BY <1>1, <2>4 DEF NamesApart
  <2>6. found[m] \in Columns /\ \A c \in Columns : c.name = name => c = found[m]
    BY <1>3, <2>4, <2>5 DEF Range
  <2> QED
    BY <2>4, <2>6 DEF m
<1> QED
  BY <1>4, <1>6, <1>7 DEF found

\* The contract of a column, of which an unknown property is an error.
LEMMA ContractRight ==
  ASSUME EvaluationInv, FiguresKept, EvalNullability \/ EvalColumnType
  PROVE  FiguresKept' /\ RightStep
<1>1. ASSUME NEW kind, kind = "Nullability" \/ kind = "ColumnType", Due({kind}), NEW unknown, NEW reported,
             Contract(Current, unknown, reported),
             Current.columns[1] \notin Names(input.table.catalog) => ~Satisfied(Current),
             Current.columns[1] \in Names(input.table.catalog) =>
               (Satisfied(Current) <=> reported = Current.claim)
      PROVE  FiguresKept' /\ RightStep
  <2> DEFINE e == Current
             name == e.columns[1]
             base == [Base(e) EXCEPT !.claim = e.claim]
             absent == [base EXCEPT !.missing = <<name>>]
             met == [base EXCEPT !.reported = reported, !.success = reported = e.claim]
             there == name \in Names(input.table.catalog)
  <2>1. (e.kind = "Nullability" \/ e.kind = "ColumnType") /\ e = Current
    BY <1>1 DEF Due
  <2>2. Sized(base) /\ Sized(absent) /\ Sized(met)
    BY <2>1, ContractBears, Zenon
  <2>3. PICK err \in Outcomes(TRUE) :
          \/ err # "none" /\ Conclude(err, base)
          \/ err = "none" /\ ~there /\ Conclude(err, absent)
          \/ err = "none" /\ there /\ Conclude(err, met)
          \/ /\ AppendResult("unsupported", met)
             /\ UNCHANGED <<input, rows, other, writes, faults, cache>>
    BY <1>1, Zenon DEF Contract
  <2>4. (~there => ~Satisfied(e)) /\ (there => (Satisfied(e) <=> reported = e.claim))
    BY <1>1, Zenon
  <2>5. DOMAIN base = DOMAIN Blank /\ base.facts = <<>> /\ base.success = FALSE
    BY BaseFields, FieldsOfBlank
  <2> HIDE DEF base, there, name
  <2>6. /\ absent.facts = <<>> /\ absent.success = FALSE
        /\ met.facts = <<>> /\ met.success = (reported = e.claim)
    BY <2>5, FieldsOfBlank
  <2> HIDE DEF absent, met
  <2>7. /\ \A f \in DOMAIN met.facts \cap {"Rate", "Share"} : InUnitRange(met.facts[f])
        /\ \A f \in DOMAIN absent.facts \cap {"Rate", "Share"} : InUnitRange(absent.facts[f])
    BY <2>6
  <2>8. ASSUME ~there PROVE Right(absent)
    <3>1. absent.success <=> Satisfied(e)
      BY <2>4, <2>6, <2>8, Zenon
    <3> QED
      BY <2>7, <3>1, Zenon DEF Right, e
  <2>9. ASSUME there PROVE Right(met)
    <3>1. met.success <=> Satisfied(e)
      BY <2>4, <2>6, <2>9, Zenon
    <3> QED
      BY <2>7, <3>1, Zenon DEF Right, e
  <2> HIDE DEF e
  <2>10. CASE err # "none" /\ Conclude(err, base)
    BY <1>1, <2>2, <2>10, RightConclude
  <2>11. CASE err = "none" /\ ~there /\ Conclude(err, absent)
    BY <1>1, <2>2, <2>8, <2>11, RightConclude
  <2>12. CASE err = "none" /\ there /\ Conclude(err, met)
    BY <1>1, <2>2, <2>9, <2>12, RightConclude
  <2>13. CASE /\ AppendResult("unsupported", met)
              /\ UNCHANGED <<input, rows, other, writes, faults, cache>>
    <3>1. "unsupported" = "none" => Right(met)
      OBVIOUS
    <3> QED
      BY <1>1, <2>2, <2>13, <3>1, RightRecord
  <2> QED
    BY <2>3, <2>10, <2>11, <2>12, <2>13
<1>2. WellCounted
  BY DEF EvaluationInv
<1>3. CASE EvalNullability
  <2>1. Due({"Nullability"})
        /\ Contract(Current, "unknown", FindDiscoveredColumn(Current.columns[1]).nulls)
    BY <1>3 DEF EvalNullability
  <2>2. Current.kind = "Nullability"
    BY <2>1 DEF Due
  <2> DEFINE name == Current.columns[1]
             c == FindDiscoveredColumn(name)
  <2>3. Satisfied(Current) <=> \E d \in Columns : d.name = name /\ d.nulls = Current.claim
    BY <2>2, SatisfiedCases
  <2> HIDE DEF name
  <2>4. /\ name \notin Names(input.table.catalog) => ~Satisfied(Current)
        /\ name \in Names(input.table.catalog) => (Satisfied(Current) <=> c.nulls = Current.claim)
    BY <1>2, <2>3, ColumnFound
  <2> QED
    BY <1>1, <2>1, <2>4, Zenon DEF name
<1>4. CASE EvalColumnType
  <2>1. Due({"ColumnType"})
        /\ Contract(Current, "", FindDiscoveredColumn(Current.columns[1]).type)
    BY <1>4 DEF EvalColumnType
  <2>2. Current.kind = "ColumnType"
    BY <2>1 DEF Due
  <2> DEFINE name == Current.columns[1]
             c == FindDiscoveredColumn(name)
  <2>3. Satisfied(Current) <=> \E d \in Columns : d.name = name /\ d.type = Current.claim
    BY <2>2, SatisfiedCases
  <2> HIDE DEF name
  <2>4. /\ name \notin Names(input.table.catalog) => ~Satisfied(Current)
        /\ name \in Names(input.table.catalog) => (Satisfied(Current) <=> c.type = Current.claim)
    BY <1>2, <2>3, ColumnFound
  <2> QED
    BY <1>1, <2>1, <2>4, Zenon DEF name
<1> QED
  BY <1>3, <1>4

\* After another session wrote no figure is from now.
LEMMA WriteRight ==
  ASSUME EvaluationInv, FiguresKept, Write
  PROVE  FiguresKept' /\ RightStep
<1>1. UNCHANGED <<cache, left, taken, results>> /\ writes' = writes + 1
  BY DEF Write
<1>2. /\ writes \in Nat /\ taken \in Nat /\ cache.taken \in Nat
  BY BoundsAssumption DEF EvaluationInv, EvaluationTypeOK
<1>3. FiguresKept'
  BY <1>1, <1>2 DEF FiguresKept
<1> QED
  BY <1>1, <1>3, NothingRecorded

\* No figure has been read in the beginning.
LEMMA FiguresInit == Init => FiguresKept
<1> QED
  BY DEF Init, EvaluationInit, EmptyCache, FiguresKept

\* What a step keeps that touches nothing of the evaluation.
LEMMA FiguresStay ==
  ASSUME EvaluationInv, FiguresKept, UNCHANGED evaluation
  PROVE  FiguresKept' /\ RightStep
<1>1. UNCHANGED <<rows, writes, cache, left, taken, results>>
  BY DEF evaluation
<1>2. AllRows' = AllRows
  BY <1>1, Zenon DEF AllRows, CountOf
<1> QED
  BY <1>1, <1>2, NothingRecorded DEF FiguresKept

\* Every step keeps the figures, and records what is right if nobody wrote.
LEMMA FiguresStep == Exportable /\ FiguresKept /\ [Next]_vars => FiguresKept' /\ [RightStep]_vars
<1> SUFFICES ASSUME Exportable, FiguresKept, [Next]_vars PROVE FiguresKept' /\ RightStep
  OBVIOUS
<1>1. EvaluationInv
  BY DEF Exportable
<1>2. CASE Evaluate \/ Write
  BY <1>1, <1>2, WriteRight, CountsRight, AverageRight, BoundRight, MomentRight, FreshRight, TotalRight,
     WithoutTotalRight, RateRight, DominantRight, LeftRight, RightRight, CustomRight,
     StructuralRight, ContractRight DEF Evaluate
<1>3. CASE Assemble \/ ExportReport \/ MeasurementRecordsFromExport \/ Edit \/ UNCHANGED vars
  <2>1. UNCHANGED evaluation
    BY <1>3 DEF Assemble, ExportReport, MeasurementRecordsFromExport, Edit, vars
  <2> QED
    BY <1>1, <2>1, FiguresStay
<1> QED
  BY <1>2, <1>3 DEF Next

\* A verdict that rests on figures nobody wrote under is the truth about the rows of
\* the tables, and a rate that does is one: for every suite, every table, every
\* interleaving of writers and every failure of a statement.
THEOREM QuietRight == Spec => RightWhenQuiet
<1> QED
  BY ReportInvariant, FiguresInit, FiguresStep, PTL DEF Spec, RightWhenQuiet

==============================================================================
