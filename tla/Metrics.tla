------------------------------- MODULE Metrics -------------------------------
(***************************************************************************)
(* What the table-level expectations measure, statement by statement, of a *)
(* table that other sessions write to while the run is under way: counts,  *)
(* aggregates, freshness, rates and shares, two counts to reconcile, a     *)
(* trusted count, and the columns the driver reports.                      *)
(*                                                                         *)
(* Abstractions: one column of integers, no scope.  A figure is a fraction;*)
(* 0/0 is NaN and a positive number over 0 is +Inf, as in floating point.  *)
(* A standard deviation is kept, and compared, by its square.  A time is a *)
(* number.  Under ContinueOnError; what the run does with errors otherwise *)
(* is the matter of ValidateRun.                                           *)
(***************************************************************************)
EXTENDS Integers, Sequences, FiniteSets, FiniteSetsExt, Functions

CONSTANTS
  Numbers,      \* the numbers the column may hold
  Cases,        \* the suites, each with the tables it finds
  DriverErrors, \* categories of error a statement may end with
  MaxRows,      \* bound: rows with the same value
  MaxWrites,    \* bound: writes of other sessions during the run
  MaxFaults     \* bound: statements that fail

Null == 0  \* stands for SQL NULL, which is no number

ASSUME NumbersAssumption == Numbers \subseteq Int \ {Null} /\ IsFiniteSet(Numbers)
ASSUME DriverErrorsAssumption == DriverErrors \subseteq {"database", "scan", "context"}
ASSUME BoundsAssumption == MaxRows \in Nat /\ MaxWrites \in Nat /\ MaxFaults \in Nat

Figure == [n: Int, d: Nat]
Num(n, d) == [n |-> n, d |-> d]
Whole(n) == Num(n, 1)
NaN == Num(0, 0)
SqlNull == Num(0, -1)  \* an aggregate over no value
Flag(b) == IF b THEN Whole(1) ELSE Whole(0)

\* Facts are figures by name, put together; of two by one name the first counts.
Fact(name, x) == [f \in {name} |-> x]
p ++ q == [f \in DOMAIN p \cup DOMAIN q |-> IF f \in DOMAIN p THEN p[f] ELSE q[f]]

\* compares the figures as floating point does: nothing compares with NaN.
AtMost(x, y) == x # NaN /\ y # NaN /\ x.n * y.d <= y.n * x.d

Fractions == {"Completeness", "DuplicateRate", "Frequency", "DominantShare"}
Aggregates == {"Average", "Min", "Max", "SumInt", "SumFloat", "StdDev"}
Contracts == {"RequiredColumns", "ExactColumns", "Nullability", "ColumnType"}
Kinds == Fractions \cup Aggregates \cup Contracts
         \cup {"RowCount", "DistinctCount", "FreshSince", "Reconcile", "Custom"}

\* The column set of the target as the driver reports it; "" and "unknown" when
\* it reports nothing of the type or the nullability.
Catalog == Seq([name: STRING, type: STRING, nulls: {"nullable", "not_nullable", "unknown"}])

\* An identity before it is trimmed.
Id == [name: STRING, padded: BOOLEAN]

\* value: what Frequency and a trusted count look for.  columns: of a contract.
\* claim: the nullability or the type of the one column.
Expectation ==
  [kind: Kinds, op: {"==", "between", ">", ">=", "<", "<="}, lo: Figure, hi: Figure,
   value: Numbers \cup {Null}, columns: Seq(STRING), claim: STRING,
   id: Id, severity: STRING]

\* other: rows of the table to reconcile with.  finite: no NaN or Inf among the
\* values of a floating column.  capture: CaptureQueryDiagnostics.
Table == [rows: [Numbers \cup {Null} -> Nat], other: Nat, finite: BOOLEAN, catalog: Catalog]

\* A table has no two columns of one name.
NamesApart(catalog) ==
  \A i, j \in DOMAIN catalog : catalog[i].name = catalog[j].name => i = j

\* What the builders make and preflight accepts: the bounds of a fraction or a
\* deviation are finite, a cutoff is a time.
Accepted(e) ==
  /\ e.kind \in Fractions => e.op \in {">=", "<=", "between"}
  /\ e.kind \in Fractions \cup {"StdDev"} => e.lo.d > 0 /\ e.hi.d > 0
  /\ e.kind = "FreshSince" => e.lo.d = 1

ASSUME CasesAssumption ==
  \A c \in Cases :
    /\ c.suite \in Seq(Expectation) /\ \A i \in DOMAIN c.suite : Accepted(c.suite[i])
    /\ c.table \in Table /\ NamesApart(c.table.catalog)
    /\ c.capture \in BOOLEAN

VARIABLES
  input,    \* the suite and its tables; never changes
  rows,     \* how many rows of the target hold each value
  other,    \* the rows of the secondary table
  writes,   \* how often other sessions have written
  faults,   \* how many statements have failed
  at,       \* the expectation under evaluation
  cache,    \* scopedTotalCache; taken: writes when it was loaded (checking only)
  left,     \* the left count of a reconciliation, once counted
  taken,    \* writes when left was counted (checking only)
  results,  \* the results so far
  refused   \* an observer's error has ended the run

evaluation == <<input, rows, other, writes, faults, at, cache, left, taken, results, refused>>

None == -1
EmptyCache == [loaded |-> FALSE, total |-> 0, err |-> "none", taken |-> 0]

----------------------------------------------------------------------------
(* The answers of the database.                                            *)

Present == {v \in Numbers : rows[v] > 0}
CountOf(S) == SumFunctionOnSet(rows, S)
AllRows == CountOf(DOMAIN rows)
SumOf(f) == SumFunction([v \in Numbers |-> f[v] * rows[v]])

Aggregate(fn) ==
  LET n == CountOf(Numbers)
      sum == SumOf([v \in Numbers |-> v])
  IN CASE fn = "Average" -> Num(sum, n)
       [] fn = "Min" -> Whole(Min(Present))
       [] fn = "Max" -> Whole(Max(Present))
       [] fn \in {"SumInt", "SumFloat"} -> Whole(sum)
       [] fn = "StdDev" -> Num(n * SumOf([v \in Numbers |-> v * v]) - sum * sum, n * n)

\* Integers have no NaN; what MIN and MAX make of one differs between engines.
Answers(fn) ==
  IF Present = {} THEN {SqlNull}
  ELSE (IF input.table.finite \/ fn \in {"Min", "Max", "SumInt"} THEN {Aggregate(fn)} ELSE {})
       \cup (IF input.table.finite \/ fn = "SumInt" THEN {} ELSE {NaN})

\* Another session inserts or deletes a row, of either table.
Write ==
  /\ at <= Len(input.suite) /\ ~refused
  /\ writes < MaxWrites /\ writes' = writes + 1
  /\ \/ /\ \E v \in DOMAIN rows, n \in {-1, 1} :
             rows[v] + n \in 0..MaxRows /\ rows' = [rows EXCEPT ![v] = @ + n]
        /\ UNCHANGED other
     \/ /\ \E n \in {-1, 1} : other + n \in 0..MaxRows /\ other' = other + n
        /\ UNCHANGED rows
  /\ UNCHANGED <<input, faults, at, cache, left, taken, results, refused>>

\* What a statement may end with; an observer sees only some of them.
Outcomes(observed) ==
  {"none"} \cup
  (IF faults = MaxFaults THEN {}
   ELSE DriverErrors \cup IF observed THEN {"observer"} ELSE {})

Spent(err) == faults + IF err = "none" THEN 0 ELSE 1

----------------------------------------------------------------------------
(* Results.                                                                *)

\* counts: a row denominator exists.  shape: how export counts the result.
\* samples, keys: how many are retained.  query, args: the length of the captured
\* statement, 0 if none was, and how many arguments it had.
Blank ==
  [id |-> [name |-> "", padded |-> FALSE], segment |-> "", kind |-> "", severity |-> "error",
   success |-> FALSE, tolerated |-> FALSE, err |-> "none",
   available |-> FALSE, total |-> 0, failed |-> 0, shape |-> "none",
   facts |-> <<>>, required |-> <<>>, missing |-> <<>>, unexpected |-> <<>>,
   claim |-> "", reported |-> "", samples |-> 0, keys |-> 0,
   query |-> 0, args |-> 0]

Base(e) == [Blank EXCEPT !.id = e.id, !.kind = e.kind, !.severity = e.severity,
                         !.query = IF input.capture THEN 1 ELSE 0]

TableLevelResult(e, success, facts) == [Base(e) EXCEPT !.success = success, !.facts = facts]

Current == input.suite[at]
Due(kinds) == at <= Len(input.suite) /\ ~refused /\ Current.kind \in kinds

\* The result is recorded under ContinueOnError; an observer's error ends the run.
AppendResult(err, r) ==
  /\ refused' = (err = "observer")
  /\ results' = IF err = "observer" THEN <<>>
                ELSE Append(results, [r EXCEPT !.err = err, !.success = r.success /\ err = "none"])
  /\ at' = at + 1 /\ left' = None /\ taken' = 0

Conclude(err, r) ==
  /\ AppendResult(err, r)
  /\ faults' = Spent(err)
  /\ UNCHANGED <<input, rows, other, writes, cache>>

----------------------------------------------------------------------------
(* One action for each evaluateSQL, or two where it sends two statements.  *)

\* The check closures of RowCount and DistinctCount.
CountCheck(e, n) ==
  CASE e.op = "==" -> n = e.lo.n
    [] e.op = "between" -> n >= e.lo.n /\ n <= e.hi.n
    [] e.op = ">" -> n > e.lo.n
    [] e.op = ">=" -> n >= e.lo.n
    [] e.op = "<" -> n < e.lo.n
    [] e.op = "<=" -> n <= e.lo.n

Bounds(e, one, lower, upper) ==
  IF e.op = "between" THEN Fact(lower, e.lo) ++ Fact(upper, e.hi) ELSE Fact(one, e.lo)

\* The same field by field in evalTableCount and evalDistinctCount.
Counted(e, n) ==
  TableLevelResult(e, CountCheck(e, n),
    Fact("ObservedCount", Whole(n))
    ++ Bounds(e, "ConfiguredCount", "ConfiguredCountLower", "ConfiguredCountUpper"))

EvalTableCount ==
  /\ Due({"RowCount"})
  /\ \E err \in Outcomes(TRUE) :
       Conclude(err, IF err = "none" THEN Counted(Current, AllRows) ELSE Base(Current))

EvalDistinctCount ==
  /\ Due({"DistinctCount"})
  /\ \E err \in Outcomes(TRUE) :
       Conclude(err, IF err = "none" THEN Counted(Current, Cardinality(Present)) ELSE Base(Current))

Within(e, x) == AtMost(e.lo, x) /\ AtMost(x, e.hi)

\* aggregateExpectation: a NULL average passes, and leaves no observation.
EvalAverage ==
  /\ Due({"Average"})
  /\ LET e == Current
         configured == Fact("ConfiguredFloatLower", e.lo) ++ Fact("ConfiguredFloatUpper", e.hi)
     IN \E err \in Outcomes(TRUE), x \in Answers(e.kind) :
          Conclude(err, IF err # "none" THEN Base(e)
                        ELSE IF x = SqlNull THEN TableLevelResult(e, TRUE, configured)
                        ELSE TableLevelResult(e, Within(e, x), Fact("ObservedFloat", x) ++ configured))

\* compareAggregate
CompareAggregate(e, x) == IF e.kind = "Min" THEN AtMost(e.lo, x) ELSE AtMost(x, e.lo)

EvalBound ==
  /\ Due({"Min", "Max"})
  /\ LET e == Current
         configured == Fact("ConfiguredFloatBound", e.lo)
     IN \E err \in Outcomes(TRUE), x \in Answers(e.kind) :
          Conclude(err, IF err # "none" THEN Base(e)
                        ELSE IF x = SqlNull THEN TableLevelResult(e, TRUE, configured)
                        ELSE TableLevelResult(e, CompareAggregate(e, x),
                                              Fact("ObservedFloat", x) ++ configured))

\* Sums and deviations keep what is configured when they fail, and have a
\* non-finite answer fail as the database's.
NonFinite(x) == x # SqlNull /\ x.d = 0

Moment(e, lower, upper, observed, watched, lo, hi) ==
  LET configured == Fact(lower, e.lo) ++ Fact(upper, e.hi)
  IN \E err \in Outcomes(watched), x \in Answers(e.kind) :
       LET failed == IF err = "none" /\ NonFinite(x) THEN "database" ELSE err
       IN /\ AppendResult(failed,
               IF failed # "none" \/ x = SqlNull
               THEN TableLevelResult(e, failed = "none", configured)
               ELSE TableLevelResult(e, AtMost(lo, x) /\ AtMost(x, hi), Fact(observed, x) ++ configured))
          /\ faults' = Spent(err)
          /\ UNCHANGED <<input, rows, other, writes, cache>>

\* The statement of an integer sum is not shown to the observer.
EvalSum ==
  \/ /\ Due({"SumInt"})
     /\ Moment(Current, "Sum.ConfiguredLower", "Sum.ConfiguredUpper", "Sum.Observed",
               FALSE, Current.lo, Current.hi)
  \/ /\ Due({"SumFloat"})
     /\ Moment(Current, "Sum.ConfiguredFloatLower", "Sum.ConfiguredFloatUpper", "Sum.ObservedFloat",
               TRUE, Current.lo, Current.hi)

\* With its sign: below every deviation if it is negative.
Square(x) == Num(IF x.n < 0 THEN -(x.n * x.n) ELSE x.n * x.n, x.d * x.d)

EvalStdDev ==
  /\ Due({"StdDev"})
  /\ Moment(Current, "StdDev.ConfiguredLower", "StdDev.ConfiguredUpper", "StdDev.Observed",
            TRUE, Square(Current.lo), Square(Current.hi))

\* A table without a time is not fresh.
EvalFreshSince ==
  /\ Due({"FreshSince"})
  /\ LET e == Current
         configured == Fact("ConfiguredTimeCutoff", e.lo)
         absent == Present = {}
     IN \E err \in Outcomes(TRUE) :
          Conclude(err,
            IF err # "none" THEN TableLevelResult(e, FALSE, configured)
            ELSE IF absent
              THEN TableLevelResult(e, FALSE, Fact("ObservedTimePresent", Flag(FALSE)) ++ configured)
            ELSE LET newest == Whole(Max(Present))
                 IN TableLevelResult(e, ~(newest.n < e.lo.n),
                      Fact("ObservedTime", newest) ++ Fact("ObservedTimePresent", Flag(TRUE)) ++ configured))

ConfiguredFractionBounds(e) == Bounds(e, "ConfiguredBound", "ConfiguredLower", "ConfiguredUpper")

CompareBoundedFraction(e, x) ==
  CASE e.op = ">=" -> AtMost(e.lo, x)
    [] e.op = "<=" -> AtMost(x, e.lo)
    [] e.op = "between" -> AtMost(e.lo, x) /\ AtMost(x, e.hi)

\* resolveScopedTotal: the first fraction of the run loads the total, and
\* whatever came of it serves all the others.
ResolveScopedTotal ==
  /\ Due(Fractions) /\ ~cache.loaded
  /\ \E err \in Outcomes(TRUE) :
       /\ cache' = [loaded |-> TRUE, total |-> IF err = "none" THEN AllRows ELSE 0,
                    err |-> err, taken |-> writes]
       /\ faults' = Spent(err)
  /\ UNCHANGED <<input, rows, other, writes, at, left, taken, results, refused>>

FractionWithoutTotal ==
  /\ Due(Fractions) /\ cache.loaded /\ cache.err # "none"
  /\ AppendResult(cache.err, [TableLevelResult(Current, FALSE, ConfiguredFractionBounds(Current))
                                EXCEPT !.query = 0])
  /\ UNCHANGED <<input, rows, other, writes, faults, cache>>

\* The verdict divides by a count of now, the facts report the cached one.
FractionOfNow(e, name, count, rate) ==
  LET x == Num(count, AllRows)
      counts == Fact(name, Whole(count)) ++ Fact("TotalCount", Whole(cache.total))
                ++ ConfiguredFractionBounds(e)
  IN IF AllRows > 0
     THEN TableLevelResult(e, CompareBoundedFraction(e, x), Fact(rate, x) ++ counts)
     ELSE TableLevelResult(e, TRUE, counts)

\* No rows by the total: passed without a rate.  Otherwise whatever the total was.
Fraction(e, name, count, rate) ==
  LET x == Num(count, cache.total)
      counts == Fact(name, Whole(count)) ++ Fact("TotalCount", Whole(cache.total))
                ++ ConfiguredFractionBounds(e)
  IN IF cache.total > 0
     THEN TableLevelResult(e, CompareBoundedFraction(e, x), Fact(rate, x) ++ counts)
     ELSE TableLevelResult(e, TRUE, counts)

Numerator(e) ==
  CASE e.kind = "Completeness" -> CountOf(Numbers)
    [] e.kind = "DuplicateRate" -> CountOf({v \in Numbers : rows[v] > 1})
    [] e.kind = "Frequency" -> rows[e.value]

NumeratorFact(e) ==
  CASE e.kind = "Completeness" -> "NonNullCount"
    [] e.kind = "DuplicateRate" -> "DuplicateCount"
    [] e.kind = "Frequency" -> "ValueCount"

EvalRate ==
  /\ Due(Fractions \ {"DominantShare"}) /\ cache.loaded /\ cache.err = "none"
  /\ LET e == Current
     IN \E err \in Outcomes(TRUE) :
          Conclude(err, IF err # "none" THEN TableLevelResult(e, FALSE, ConfiguredFractionBounds(e))
                        ELSE Fraction(e, NumeratorFact(e), Numerator(e),
                                      IF e.kind = "Frequency" THEN "Share" ELSE "Rate"))

\* Groups of NULL are skipped.
CategoriesButNull == Present

\* queryDominantCounts: NULL is a category too.
Categories == {v \in DOMAIN rows : rows[v] > 0}
DominantCount == IF Categories = {} THEN 0 ELSE Max({rows[v] : v \in Categories})
TieCount == Cardinality({v \in Categories : rows[v] = DominantCount})

\* The division is by the cached total, which may be zero.
EvalDominantShare ==
  /\ Due({"DominantShare"}) /\ cache.loaded /\ cache.err = "none"
  /\ LET e == Current
         share == Num(DominantCount, cache.total)
         configured == ConfiguredFractionBounds(e)
     IN \E err \in Outcomes(FALSE) :
          Conclude(err,
            IF err # "none" \/ DominantCount = 0
            THEN TableLevelResult(e, err = "none", configured)
            ELSE TableLevelResult(e, CompareBoundedFraction(e, share),
                   Fact("DominantCount", Whole(DominantCount)) ++ Fact("TotalCount", Whole(cache.total))
                   ++ Fact("TieCount", Whole(TieCount)) ++ Fact("Share", share) ++ configured))

CountLeft ==
  /\ Due({"Reconcile"}) /\ left = None
  /\ \E err \in Outcomes(TRUE) :
       IF err = "none"
       THEN /\ left' = AllRows /\ taken' = writes
            /\ UNCHANGED <<input, rows, other, writes, faults, at, cache, results, refused>>
       ELSE Conclude(err, Base(Current))

\* The shape of a reconciliation is given only to one that has both counts.
CountRight ==
  /\ Due({"Reconcile"}) /\ left # None
  /\ LET e == Current
         counted == Fact("ObservedLeftCount", Whole(left))
     IN \E err \in Outcomes(TRUE) :
          Conclude(err,
            IF err # "none" THEN TableLevelResult(e, FALSE, counted)
            ELSE [TableLevelResult(e, left = other, Fact("ObservedRightCount", Whole(other)) ++ counted)
                    EXCEPT !.failed = IF left = other THEN 0 ELSE 1, !.shape = "reconcile"])

\* What a template's query may answer instead of one count.
Malformed == {"no rows", "two rows", "two columns", "null", "text", "negative"}

EvalCustomCount ==
  /\ Due({"Custom"})
  /\ LET e == Current
         answers == IF faults = MaxFaults THEN {"count"} ELSE Malformed \cup {"count"}
         shaped == [Base(e) EXCEPT !.shape = "custom"]
     IN \E err \in Outcomes(TRUE), answer \in answers :
          LET failed == IF err = "none" /\ answer \in Malformed THEN "scan" ELSE err
          IN Conclude(failed, IF failed # "none" THEN shaped
                              ELSE [shaped EXCEPT !.success = rows[e.value] = 0,
                                                  !.failed = rows[e.value]])

Names(catalog) == {catalog[i].name : i \in DOMAIN catalog}

\* The entries of a list that are not among others, in its order.
NotAmong(list, others) ==
  LET kept[n \in 0..Len(list)] ==
        IF n = 0 THEN <<>>
        ELSE IF list[n] \in others THEN kept[n - 1]
        ELSE Append(kept[n - 1], list[n])
  IN kept[Len(list)]

\* diffStructuralColumns: missing in declaration order, unexpected as discovered.
Missing(expected, found) == NotAmong(expected, Names(found))
Unexpected(expected, found) == NotAmong([i \in DOMAIN found |-> found[i].name], Range(expected))

EvalStructural ==
  /\ Due({"RequiredColumns", "ExactColumns"})
  /\ LET e == Current
         base == [Base(e) EXCEPT !.required = e.columns]
         missing == Missing(e.columns, input.table.catalog)
         unexpected == IF e.kind = "RequiredColumns" THEN <<>>
                       ELSE Unexpected(e.columns, input.table.catalog)
     IN \E err \in Outcomes(TRUE) :
          Conclude(err, IF err # "none" THEN base
                        ELSE [base EXCEPT !.success = missing = <<>> /\ unexpected = <<>>,
                                          !.missing = missing, !.unexpected = unexpected])

\* findDiscoveredColumn: the first column of the name.
FindDiscoveredColumn(name) ==
  LET found == input.table.catalog
      first == Min({i \in DOMAIN found : found[i].name = name})
  IN found[first]

\* Of a column contract: a missing column is a policy miss, an unknown property
\* of a column is an error.
Contract(e, unknown, reported) ==
  LET name == e.columns[1]
      base == [Base(e) EXCEPT !.claim = e.claim]
  IN \E err \in Outcomes(TRUE) :
       IF err # "none" THEN Conclude(err, base)
       ELSE IF name \notin Names(input.table.catalog)
         THEN Conclude(err, [base EXCEPT !.missing = <<name>>])
       ELSE LET met == [base EXCEPT !.reported = reported, !.success = reported = e.claim]
            IN IF reported = unknown
               THEN AppendResult("unsupported", met)
                    /\ UNCHANGED <<input, rows, other, writes, faults, cache>>
               ELSE Conclude(err, met)

EvalNullability ==
  /\ Due({"Nullability"})
  /\ Contract(Current, "unknown", FindDiscoveredColumn(Current.columns[1]).nulls)

EvalColumnType ==
  /\ Due({"ColumnType"})
  /\ Contract(Current, "", FindDiscoveredColumn(Current.columns[1]).type)

----------------------------------------------------------------------------
EvaluationInit ==
  /\ input \in Cases
  /\ rows = input.table.rows /\ other = input.table.other
  /\ writes = 0 /\ faults = 0
  /\ at = 1 /\ cache = EmptyCache /\ left = None /\ taken = 0
  /\ results = <<>> /\ refused = FALSE

Evaluate ==
  \/ EvalTableCount \/ EvalDistinctCount
  \/ EvalAverage \/ EvalBound \/ EvalSum \/ EvalStdDev \/ EvalFreshSince
  \/ ResolveScopedTotal \/ FractionWithoutTotal \/ EvalRate \/ EvalDominantShare
  \/ CountLeft \/ CountRight \/ EvalCustomCount
  \/ EvalStructural \/ EvalNullability \/ EvalColumnType

Evaluated == at > Len(input.suite) \/ refused

EvaluationTypeOK ==
  /\ rows \in [Numbers \cup {Null} -> Nat] /\ other \in Nat
  /\ writes \in 0..MaxWrites /\ faults \in 0..MaxFaults
  /\ at \in 1..(Len(input.suite) + 1)
  /\ cache \in [loaded: BOOLEAN, total: Nat, err: {"none", "observer"} \cup DriverErrors, taken: 0..MaxWrites]
  /\ left \in Nat \cup {None} /\ taken \in 0..MaxWrites
  /\ Len(results) = (IF refused THEN 0 ELSE at - 1) /\ refused \in BOOLEAN
  /\ \A i \in DOMAIN results : DOMAIN results[i] = DOMAIN Blank
==============================================================================
