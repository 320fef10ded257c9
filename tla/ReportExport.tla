---------------------------- MODULE ReportExport ----------------------------
(***************************************************************************)
(* From a report to what leaves the process: a suite of Metrics is run, or *)
(* a report is put together by hand, ExportReport turns it into a document *)
(* under the caller's options, MeasurementRecordsFromExport into history   *)
(* records, and the caller goes on to edit the document it owns.           *)
(*                                                                         *)
(* Abstractions: a retained sample, key or argument is only raw or what a  *)
(* redactor made of it.  Numbers of the report stand behind pointers, each *)
(* with an address here; strings and slices are copied at every step.      *)
(* Display names and caller-owned times are left out.                      *)
(***************************************************************************)
EXTENDS Metrics

CONSTANTS
  MaxExportedQueryTextRunes,
  MaxExportedArgumentCount,
  MaxEdits  \* bound: edits of the exported document

ASSUME ExportBoundsAssumption ==
  /\ MaxExportedQueryTextRunes \in Nat \ {0} /\ MaxExportedArgumentCount \in Nat
  /\ MaxEdits \in Nat

Payloads == {"samples", "keys"}
Redacted == Payloads \cup {"query", "args"}

\* "longer" and "wrong" are for query text only: a longer text, not a string.
Redactors == {"none", "clean", "longer", "wrong", "fail"}

\* The options as the caller gives them.
Options == [include: SUBSET (Payloads \cup {"diagnostics", "arguments"}),
            redact: {fns \in [Redacted -> Redactors] :
                       \A what \in Redacted \ {"query"} : fns[what] \notin {"longer", "wrong"}}]

\* What of a result is a length or a count.
Sizes == {"failed", "samples", "keys", "query", "args"}

\* given: results put into the report by hand, after those of the suite.
ASSUME ExportCasesAssumption ==
  \A c \in Cases :
    /\ c.options \in Options
    /\ c.given \in Seq(Range(c.given))
    /\ \A i \in DOMAIN c.given :
         DOMAIN c.given[i] = DOMAIN Blank /\ \A size \in Sizes : c.given[i][size] \in Nat

VARIABLES
  stage,    \* "evaluating", "assembled", "exported", "withheld", "recorded", "unrecorded"
  report,   \* Report.Results
  exported, \* ExportedReport.Results
  cells,    \* the numbers that the three hold pointers to
  records,  \* the measurement records
  edits     \* how often the caller has edited the document

exportVars == <<stage, report, exported, cells, records, edits>>
vars == <<evaluation, exportVars>>

----------------------------------------------------------------------------
(* ExportReport.                                                           *)

\* The pointers that the document takes over from the report.
Passed ==
  {"ObservedCount", "ConfiguredCount", "ConfiguredCountLower", "ConfiguredCountUpper",
   "ConfiguredMaxFailedCount", "ConfiguredMaxFailedPercent", "ObservedTimePresent",
   "Sum.Observed", "Sum.ConfiguredLower", "Sum.ConfiguredUpper",
   "NonNullCount", "DuplicateCount", "ValueCount", "DominantCount", "TieCount", "TotalCount",
   "ObservedLeftCount", "ObservedRightCount"}

ExportFacts(i, facts) ==
  [f \in DOMAIN facts |-> <<IF f \in Passed THEN "report" ELSE "export", i, f>>]

\* Always the caller's own copies.  A sum, and not a pass, decides on percent.
ExportCounts(r) ==
  IF r.shape \in {"custom", "reconcile"} /\ r.err = "none" THEN Fact("failed", Whole(r.failed))
  ELSE IF r.available
    THEN Fact("total", Whole(r.total)) ++ Fact("failed", Whole(r.failed))
         ++ IF r.total > 0 THEN Fact("percent", Num(100 * r.failed, r.total)) ELSE <<>>
  ELSE IF r.failed > 0 THEN Fact("failed", Whole(r.failed))
  ELSE <<>>

\* Whatever is not known to gate is exported as advisory.
LenientSeverity(severity) == IF severity \in {"warning", "error"} THEN severity ELSE "info"

ExportSeverity(severity) == IF severity \in {"warning", "info"} THEN severity ELSE "error"

PolicyVerdict(r) ==
  IF r.err # "none" THEN "unevaluated" ELSE IF r.success THEN "pass" ELSE "fail"

ExecutionOutcome(r) ==
  IF r.err = "invalid_config" THEN "config_failure"
  ELSE IF r.err # "none" THEN "execution_failure"
  ELSE IF r.success THEN "ok" ELSE "policy_failure"

\* An error that carries no category is exported as the observer's.
ExportError(err) ==
  IF err = "none" THEN <<>> ELSE IF err = "uncategorized" THEN <<"observer">> ELSE <<err>>

ApplyRedactor(fn, values) ==
  [i \in DOMAIN values |-> IF fn = "none" THEN values[i] ELSE "redacted"]

Raw(n) == [i \in 1..n |-> "raw"]

\* cfg.includeSamples and its siblings: arguments bring the text along.
Includes(o, what) ==
  CASE what \in Payloads -> what \in o.include
    [] what = "query" -> o.include \cap {"diagnostics", "arguments"} # {}
    [] what = "args" -> "arguments" \in o.include

ExportedArgs(r) == IF r.args > MaxExportedArgumentCount THEN MaxExportedArgumentCount ELSE r.args

\* The redactor of the samples is applied to the keys.
OneRedactor(o, what, r) ==
  IF Includes(o, what) THEN ApplyRedactor(o.redact["samples"], Raw(r[what])) ELSE <<>>

\* exportSamples and exportFailedKeys.
ExportPayload(o, what, r) ==
  IF Includes(o, what) THEN ApplyRedactor(o.redact[what], Raw(r[what])) ELSE <<>>

ExportCaps(o, r) ==
  LET shown == IF r.failed > 0 THEN {what \in Payloads : Includes(o, what)} ELSE {}
  IN [returned |-> [what \in shown |-> r[what]],
      truncated |-> {what \in shown : r.failed > r[what]}]

Truncate(n) == IF n > MaxExportedQueryTextRunes THEN MaxExportedQueryTextRunes ELSE n

\* named: the text still names the target, which only ValidateTable's reports know.
ExportQuery(o, targeted, r) ==
  LET before == Truncate(r.query)
      fn == o.redact["query"]
      after == IF fn = "longer" THEN MaxExportedQueryTextRunes + 1 ELSE before
  IN [text |-> ApplyRedactor(fn, Raw(1))[1], named |-> ~targeted /\ fn = "none",
      runes |-> Truncate(after), truncated |-> r.query > before \/ after > Truncate(after)]

ExportDiagnostics(o, targeted, r) ==
  IF ~Includes(o, "query") \/ r.query = 0 THEN <<>>
  ELSE << [query |-> ExportQuery(o, targeted, r),
           args |-> IF Includes(o, "args")
                    THEN ApplyRedactor(o.redact["args"], Raw(ExportedArgs(r))) ELSE <<>>,
           argsTruncated |-> Includes(o, "args") /\ r.args > ExportedArgs(r)] >>

\* The errors of exportResult: a bound that is not finite, or a redactor that
\* fails on something it is given.
CannotExport(o, r) ==
  \/ "ConfiguredMaxFailedPercent" \in DOMAIN r.facts /\ r.facts["ConfiguredMaxFailedPercent"].d = 0
  \/ \E what \in Payloads : Includes(o, what) /\ r[what] > 0 /\ o.redact[what] = "fail"
  \/ r.query > 0 /\ Includes(o, "query") /\ o.redact["query"] \in {"fail", "wrong"}
  \/ r.query > 0 /\ Includes(o, "args") /\ ExportedArgs(r) > 0 /\ o.redact["args"] = "fail"

ExportResult(o, targeted, i, r) ==
  [id |-> r.id, segment |-> r.segment, kind |-> r.kind, severity |-> ExportSeverity(r.severity),
   verdict |-> PolicyVerdict(r), outcome |-> ExecutionOutcome(r), tolerated |-> r.tolerated,
   available |-> r.available,
   counts |-> [c \in DOMAIN ExportCounts(r) |-> <<"export", i, c>>],
   facts |-> ExportFacts(i, r.facts),
   required |-> r.required, missing |-> r.missing, unexpected |-> r.unexpected,
   claim |-> r.claim, reported |-> r.reported,
   caps |-> ExportCaps(o, r),
   samples |-> ExportPayload(o, "samples", r), keys |-> ExportPayload(o, "keys", r),
   diagnostics |-> ExportDiagnostics(o, targeted, r),
   errors |-> ExportError(r.err)]

\* ValidateTable returns its report, to which a caller may add results of its own.
Assemble ==
  /\ stage = "evaluating" /\ Evaluated /\ ~refused
  /\ report' = results \o input.given
  /\ stage' = "assembled"
  /\ UNCHANGED <<evaluation, exported, cells, records, edits>>

\* The numbers of a result by address: the report's facts, the document's copies of
\* them, and its counts.
Owned(i, r) ==
  [a \in {<<"report", i, f>> : f \in DOMAIN r.facts}
         \cup {<<"export", i, f>> : f \in DOMAIN r.facts \cup DOMAIN ExportCounts(r)} |->
     IF a[3] \in DOMAIN r.facts THEN r.facts[a[3]] ELSE ExportCounts(r)[a[3]]]

AllOwned(rs) ==
  [a \in UNION {DOMAIN Owned(i, rs[i]) : i \in DOMAIN rs} |-> Owned(a[2], rs[a[2]])[a]]

\* The first result that cannot be exported leaves no document at all.
ExportReport ==
  /\ stage = "assembled"
  /\ LET o == input.options
         targeted == input.suite # <<>>
     IN IF \E i \in DOMAIN report : CannotExport(o, report[i])
        THEN stage' = "withheld" /\ UNCHANGED <<exported, cells>>
        ELSE /\ exported' = [i \in DOMAIN report |-> ExportResult(o, targeted, i, report[i])]
             /\ cells' = AllOwned(report)
             /\ stage' = "exported"
  /\ UNCHANGED <<evaluation, report, records, edits>>

----------------------------------------------------------------------------
(* MeasurementRecordsFromExport.                                           *)

\* The struct is copied, its pointers with it.
ShallowFacts(i, facts) == [f \in DOMAIN facts |-> IF f \in Passed THEN facts[f] ELSE <<"record", i, f>>]

\* cloneExportedFacts and cloneExportedCounts: each pointer gets its own number.
CloneFacts(i, facts) == [f \in DOMAIN facts |-> <<"record", i, f>>]

Identity(x) == <<x.id.name, x.segment>>

\* Identities are compared as they were given, and trimmed later.
IdentifiedUntrimmed(xs) ==
  \A i \in DOMAIN xs :
    /\ xs[i].id.name # ""
    /\ \A j \in DOMAIN xs : xs[i].id = xs[j].id /\ xs[i].segment = xs[j].segment => i = j

Identified(xs) ==
  \A i \in DOMAIN xs :
    /\ xs[i].id.name # ""
    /\ \A j \in DOMAIN xs : Identity(xs[i]) = Identity(xs[j]) => i = j

Unrecorded == {"samples", "keys", "caps", "diagnostics"}

Measurement(i, x) ==
  [Restrict(x, DOMAIN x \ Unrecorded) EXCEPT !.facts = CloneFacts(i, x.facts),
                                             !.counts = CloneFacts(i, x.counts)]

\* The counts are forgotten.
ClonedFacts(i, x) ==
  [a \in {<<"record", i, f>> : f \in DOMAIN x.facts} |-> cells[x.facts[a[3]]]]

Cloned(i, x) ==
  [a \in {<<"record", i, f>> : f \in DOMAIN x.facts \cup DOMAIN x.counts} |->
     cells[IF a[3] \in DOMAIN x.facts THEN x.facts[a[3]] ELSE x.counts[a[3]]]]

MeasurementRecordsFromExport ==
  /\ stage = "exported"
  /\ IF Identified(exported)
     THEN /\ records' = [i \in DOMAIN exported |-> Measurement(i, exported[i])]
          /\ LET clones == UNION {DOMAIN Cloned(i, exported[i]) : i \in DOMAIN exported}
             IN cells' = [a \in DOMAIN cells \cup clones |->
                            IF a \in clones THEN Cloned(a[2], exported[a[2]])[a] ELSE cells[a]]
          /\ stage' = "recorded"
     ELSE stage' = "unrecorded" /\ UNCHANGED <<records, cells>>
  /\ UNCHANGED <<evaluation, report, exported, edits>>

Edited == Whole(-7)

\* The caller writes through a pointer of the document.
Edit ==
  /\ stage \in {"exported", "recorded"} /\ edits < MaxEdits /\ edits' = edits + 1
  /\ \E i \in DOMAIN exported : \E a \in Range(exported[i].facts) \cup Range(exported[i].counts) :
       cells' = [cells EXCEPT ![a] = Edited]
  /\ UNCHANGED <<evaluation, stage, report, exported, records>>

----------------------------------------------------------------------------
Init ==
  /\ EvaluationInit
  /\ stage = "evaluating" /\ report = <<>> /\ exported = <<>> /\ cells = <<>>
  /\ records = <<>> /\ edits = 0

Next ==
  \/ (Evaluate \/ Write) /\ UNCHANGED exportVars
  \/ Assemble \/ ExportReport \/ MeasurementRecordsFromExport \/ Edit

Spec == Init /\ [][Next]_vars

----------------------------------------------------------------------------
(* Properties.                                                             *)

\* Every part of the state has its type.
TypeOK ==
  /\ EvaluationTypeOK
  /\ stage \in {"evaluating", "assembled", "exported", "withheld", "recorded", "unrecorded"}
  /\ report # <<>> => stage # "evaluating"
  /\ Len(exported) \in {0, Len(report)} /\ Len(records) \in {0, Len(report)}
  /\ \A i \in DOMAIN exported :
       Range(exported[i].facts) \cup Range(exported[i].counts) \subseteq DOMAIN cells
  /\ \A i \in DOMAIN records :
       Range(records[i].facts) \cup Range(records[i].counts) \subseteq DOMAIN cells
  /\ edits \in 0..MaxEdits

\* Every row of the target as a pair of its value and a number that tells it
\* from its equals: what the expectations are about, said without statements.
TheRows == UNION {{<<v, k>> : k \in 1..rows[v]} : v \in DOMAIN rows}
Valued == {r \in TheRows : r[1] # Null}
Spread == SumFunction([p \in Valued \X Valued |-> (p[1][1] - p[2][1]) * (p[1][1] - p[2][1])])
Sum == SumFunction([r \in Valued |-> r[1]])

\* n rows of all are a share that op and the bounds of e allow.
Allows(e, n, all) ==
  /\ e.op = "<=" => n * e.lo.d <= e.lo.n * all
  /\ e.op \in {">=", "between"} => e.lo.n * all <= n * e.lo.d
  /\ e.op = "between" => n * e.hi.d <= e.hi.n * all

AllowsCount(e, n) ==
  LET low == IF e.op = ">" THEN e.lo.n + 1 ELSE e.lo.n
      high == IF e.op = "<" THEN e.lo.n - 1 ELSE IF e.op = "between" THEN e.hi.n ELSE e.lo.n
  IN (e.op \in {"<", "<="} \/ low <= n) /\ (e.op \in {">", ">="} \/ n <= high)

Columns == Range(input.table.catalog)

\* What an expectation says of the tables as they are.
Satisfied(e) ==
  LET n == Cardinality(Valued)
      all == Cardinality(TheRows)
      Holding(v) == Cardinality({r \in TheRows : r[1] = v})
  IN CASE e.kind = "RowCount" -> AllowsCount(e, all)
       [] e.kind = "DistinctCount" -> AllowsCount(e, Cardinality({r[1] : r \in Valued}))
       [] e.kind = "Average" -> n = 0 \/ (AtMost(e.lo, Num(Sum, n)) /\ AtMost(Num(Sum, n), e.hi))
       [] e.kind = "Min" -> \A r \in Valued : AtMost(e.lo, Whole(r[1]))
       [] e.kind = "Max" -> \A r \in Valued : AtMost(Whole(r[1]), e.lo)
       [] e.kind \in {"SumInt", "SumFloat"} ->
            n = 0 \/ (AtMost(e.lo, Whole(Sum)) /\ AtMost(Whole(Sum), e.hi))
       [] e.kind = "StdDev" ->
            \/ n = 0
            \/ /\ e.lo.n < 0 \/ 2 * n * n * e.lo.n * e.lo.n <= Spread * e.lo.d * e.lo.d
               /\ e.hi.n >= 0 /\ Spread * e.hi.d * e.hi.d <= 2 * n * n * e.hi.n * e.hi.n
       [] e.kind = "FreshSince" -> \E r \in Valued : e.lo.n <= r[1] * e.lo.d
       [] e.kind = "Completeness" -> all = 0 \/ Allows(e, n, all)
       [] e.kind = "DuplicateRate" ->
            \/ all = 0
            \/ Allows(e, Cardinality({r \in Valued : \E s \in Valued \ {r} : s[1] = r[1]}), all)
       [] e.kind = "Frequency" -> all = 0 \/ Allows(e, Holding(e.value), all)
       [] e.kind = "DominantShare" ->
            \/ all = 0
            \/ \E r \in TheRows : /\ \A s \in TheRows : Holding(s[1]) <= Holding(r[1])
                                  /\ Allows(e, Holding(r[1]), all)
       [] e.kind = "Reconcile" -> all = other
       [] e.kind = "Custom" -> \A r \in TheRows : r[1] # e.value
       [] e.kind = "RequiredColumns" -> Range(e.columns) \subseteq {c.name : c \in Columns}
       [] e.kind = "ExactColumns" -> Range(e.columns) = {c.name : c \in Columns}
       [] e.kind = "Nullability" -> \E c \in Columns : c.name = e.columns[1] /\ c.nulls = e.claim
       [] e.kind = "ColumnType" -> \E c \in Columns : c.name = e.columns[1] /\ c.type = e.claim

\* How many writes had been made when the expectation's first figure was read.
Since ==
  IF Current.kind \in Fractions THEN cache.taken
  ELSE IF Current.kind = "Reconcile" /\ left # None THEN taken
  ELSE writes

InUnitRange(x) == AtMost(Whole(0), x) /\ AtMost(x, Whole(1))

\* A verdict is the truth about the tables as they are, and a rate is one.
Right(r) ==
  /\ input.table.finite => (r.success <=> Satisfied(Current))
  /\ \A f \in DOMAIN r.facts \cap {"Rate", "Share"} : InUnitRange(r.facts[f])

RightStep ==
  Len(results') > Len(results) /\ results'[at].err = "none" /\ Since = writes => Right(results'[at])

\* A verdict is the truth about the tables, and a rate or a share is one, however
\* often others wrote before, if only nobody wrote from the first figure that the
\* verdict rests on, which for a rate may be a total that an earlier expectation
\* read, to the last.
RightWhenQuiet == [][RightStep]_vars

\* The numbers behind the pointers of a document or a record.
Seen(ptrs) == [f \in DOMAIN ptrs |-> cells[ptrs[f]]]

\* The exported facts of an expectation without observation speak for it ...
Vacuous(kind, facts) ==
  CASE kind \in {"Average", "Min", "Max"} -> "ObservedFloat" \notin DOMAIN facts
    [] kind = "SumInt" -> "Sum.Observed" \notin DOMAIN facts
    [] kind = "SumFloat" -> "Sum.ObservedFloat" \notin DOMAIN facts
    [] kind = "StdDev" -> "StdDev.Observed" \notin DOMAIN facts
    [] kind = "DominantShare" -> "DominantCount" \notin DOMAIN facts
    [] kind \in Fractions \ {"DominantShare"} -> facts["TotalCount"] = Whole(0)
    [] OTHER -> FALSE

\* ... and otherwise the observation does: counts before the rate they make.
Supports(e, x, facts) ==
  LET Between(y, lo, hi) == AtMost(lo, y) /\ AtMost(y, hi)
      Allowed(y, total) == Allows(e, y.n, total.n)
  IN CASE e.kind \in {"RowCount", "DistinctCount"} -> AllowsCount(e, facts["ObservedCount"].n)
       [] e.kind = "Average" ->
            Between(facts["ObservedFloat"], facts["ConfiguredFloatLower"], facts["ConfiguredFloatUpper"])
       [] e.kind = "Min" -> AtMost(facts["ConfiguredFloatBound"], facts["ObservedFloat"])
       [] e.kind = "Max" -> AtMost(facts["ObservedFloat"], facts["ConfiguredFloatBound"])
       [] e.kind = "SumInt" ->
            Between(facts["Sum.Observed"], facts["Sum.ConfiguredLower"], facts["Sum.ConfiguredUpper"])
       [] e.kind = "SumFloat" ->
            Between(facts["Sum.ObservedFloat"],
                    facts["Sum.ConfiguredFloatLower"], facts["Sum.ConfiguredFloatUpper"])
       [] e.kind = "StdDev" ->
            Between(facts["StdDev.Observed"],
                    Square(facts["StdDev.ConfiguredLower"]), Square(facts["StdDev.ConfiguredUpper"]))
       [] e.kind = "FreshSince" ->
            facts["ObservedTimePresent"] = Whole(1)
            /\ AtMost(facts["ConfiguredTimeCutoff"], facts["ObservedTime"])
       [] e.kind = "Completeness" -> Allowed(facts["NonNullCount"], facts["TotalCount"])
       [] e.kind = "DuplicateRate" -> Allowed(facts["DuplicateCount"], facts["TotalCount"])
       [] e.kind = "Frequency" -> Allowed(facts["ValueCount"], facts["TotalCount"])
       [] e.kind = "DominantShare" ->
            Allows(e, facts["DominantCount"].n, facts["TotalCount"].n)
       [] e.kind = "Reconcile" -> facts["ObservedLeftCount"] = facts["ObservedRightCount"]
       [] e.kind \in {"Custom", "RequiredColumns", "ExactColumns"} -> x.missing = <<>> /\ x.unexpected = <<>>
       [] e.kind \in {"Nullability", "ColumnType"} -> x.missing = <<>> /\ x.reported = x.claim

\* Whoever has only the document can check its verdicts: an evaluated
\* expectation passed exactly if its exported facts, with its configured bounds,
\* say so; a rate by its counts even where writes made the total stale.  A failed
\* count, where there is one, is zero exactly for a pass.
VerdictFollowsFacts ==
  stage = "exported" /\ edits = 0 =>
    \A i \in DOMAIN results :
      LET e == input.suite[i]
          x == exported[i]
          facts == Seen(x.facts)
          counts == Seen(x.counts)
          passed == x.verdict = "pass"
      IN x.errors = <<>> =>
           /\ x.verdict \in {"pass", "fail"}
           /\ e.kind # "Custom" => (passed <=> Vacuous(e.kind, facts) \/ Supports(e, x, facts))
           /\ e.kind \in {"Custom", "Reconcile"} => (passed <=> counts["failed"] = Whole(0))

Raws(s) == {i \in DOMAIN s : s[i] = "raw"}

\* Nothing sensitive leaves unasked, nothing that a redactor was given for leaves
\* as it was, a redactor that fails on anything leaves no document, and what is
\* cut off or was never retained is marked as missing.
ExportKeepsItsPromise ==
  LET o == input.options
      shows(what) == what \in o.include
      fails(what) == o.redact[what] \in {"fail", "wrong"}
      clear(what, s) == o.redact[what] # "none" => Raws(s) = {}
  IN /\ stage \in {"exported", "recorded", "unrecorded"} =>
          \A i \in DOMAIN exported :
            LET x == exported[i]
                r == report[i]
            IN /\ \A what \in Payloads :
                    /\ x[what] # <<>> => shows(what) /\ ~fails(what)
                    /\ clear(what, x[what])
                    /\ shows(what) /\ r.failed > Len(x[what]) => what \in x.caps.truncated
               /\ x.diagnostics # <<>> =>
                    LET d == x.diagnostics[1]
                    IN /\ shows("diagnostics") \/ shows("arguments")
                       /\ ~fails("query") /\ clear("query", <<d.query.text>>)
                       /\ d.query.runes <= MaxExportedQueryTextRunes
                       /\ r.query > d.query.runes => d.query.truncated
                       /\ input.suite # <<>> => ~d.query.named
                       /\ d.args # <<>> => shows("arguments") /\ ~fails("args") /\ clear("args", d.args)
                       /\ shows("arguments") /\ r.args > Len(d.args) => d.argsTruncated
     /\ stage = "withheld" => exported = <<>>

RecordsUnmoved ==
  \A i \in DOMAIN records :
    /\ records'[i] = records[i]
    /\ \A f \in DOMAIN records[i].facts : cells'[records[i].facts[f]] = cells[records[i].facts[f]]
    /\ \A c \in DOMAIN records[i].counts : cells'[records[i].counts[c]] = cells[records[i].counts[c]]

\* A measurement record is a snapshot: once made, nothing its maker's caller does
\* to the document changes a number in it, though the report's may change.
RecordsAreSnapshots == [][RecordsUnmoved]_vars

\* Records are made of a whole report or not at all, one for each result, and no
\* two of them can be taken for each other when runs are compared by identity,
\* even by a reader that trims it.
RecordsJoinUniquely ==
  /\ stage = "recorded" =>
       /\ DOMAIN records = DOMAIN report
       /\ \A i, j \in DOMAIN records :
            i # j => records[i].id.name # records[j].id.name \/ records[i].segment # records[j].segment
       /\ \A i \in DOMAIN records : records[i].id.name # ""
  /\ stage = "unrecorded" =>
       \E i, j \in DOMAIN report :
         \/ report[i].id.name = ""
         \/ i # j /\ report[i].id.name = report[j].id.name /\ report[i].segment = report[j].segment

\* GatingFailures
Gates(r) == r.err # "none" \/ (~r.success /\ r.severity \notin {"warning", "info"})

\* A gate that reads only the document, or only the records, stops exactly the
\* reports that Report.OK stops.
GateSurvivesExport ==
  LET Stops(x) == \/ x.errors # <<>>
                  \/ x.verdict = "unevaluated"
                  \/ x.verdict = "fail" /\ x.severity = "error"
      ok == \A i \in DOMAIN report : ~Gates(report[i])
  IN /\ exported # <<>> => (ok <=> \A i \in DOMAIN exported : ~Stops(exported[i]))
     /\ records # <<>> => (ok <=> \A i \in DOMAIN records : ~Stops(records[i]))
==============================================================================
