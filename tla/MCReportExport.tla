--------------------------- MODULE MCReportExport ---------------------------
(***************************************************************************)
(* Small instances of ReportExport: a column that holds 1, 2 and NULL, at  *)
(* most two expectations, two writes of other sessions, one statement that *)
(* fails; reports of retained rows and errors put together by hand.        *)
(***************************************************************************)
EXTENDS ReportExport, TLC

MCNumbers == {1, 2}

Half == Num(1, 2)
Third == Num(1, 3)
One == Whole(1)

Named(name) == [name |-> name, padded |-> FALSE]

Exp(kind, op, lo, hi) ==
  [kind |-> kind, op |-> op, lo |-> lo, hi |-> hi, value |-> 1, columns |-> <<>>, claim |-> "",
   id |-> Named("m"), severity |-> "error"]

Counting == {Exp(kind, op, One, Whole(2)) : kind \in {"RowCount", "DistinctCount"},
                                            op \in {"==", "between", ">", ">=", "<", "<="}}

Moments == {Exp(kind, "between", lo, hi) : kind \in {"Average", "SumInt", "SumFloat", "StdDev"},
                                           lo \in {Whole(0), One}, hi \in {One, Num(3, 2)}}
           \cup {Exp("Average", "between", lo, One) : lo \in {NaN, Num(-1, 0)}}
           \cup {Exp("StdDev", "between", Whole(-2), hi) : hi \in {Whole(-1), Half}}

Bounding == {Exp(kind, "between", Num(3, 2), Num(3, 2)) : kind \in {"Min", "Max"}}
            \cup {Exp("FreshSince", "between", Whole(2), Whole(2))}

Sharing == {Exp(kind, op, Third, Half) : kind \in {"Completeness", "DuplicateRate", "DominantShare"},
                                         op \in {">=", "<=", "between"}}
           \cup {[Exp("Frequency", op, Half, One) EXCEPT !.value = v] : op \in {">=", "<="}, v \in {Null, 1}}

Others == {Exp("Reconcile", "==", One, One)}
          \cup {[Exp("Custom", "==", One, One) EXCEPT !.value = v, !.severity = "warning"] : v \in {Null, 2}}

Contracting ==
  {[Exp(kind, "==", One, One) EXCEPT !.columns = cs] :
     kind \in {"RequiredColumns", "ExactColumns"}, cs \in {<<"a">>, <<"b", "a">>, <<"c", "a">>}}
  \cup {[Exp("Nullability", "==", One, One) EXCEPT !.columns = <<c>>, !.claim = claim] :
          c \in {"a", "b", "c"}, claim \in {"nullable", "not_nullable"}}
  \cup {[Exp("ColumnType", "==", One, One) EXCEPT !.columns = <<c>>, !.claim = "int"] : c \in {"a", "b", "c"}}

Col(name, type, nulls) == [name |-> name, type |-> type, nulls |-> nulls]
CatalogAB == <<Col("b", "", "nullable"), Col("a", "int", "not_nullable")>>
CatalogA == <<Col("a", "text", "unknown")>>

RowsOf(nulls, ones, twos) == (Null :> nulls) @@ (1 :> ones) @@ (2 :> twos)
TableOf(held, secondary, finite, found) ==
  [rows |-> held, other |-> secondary, finite |-> finite, catalog |-> found]

\* The writer reaches what lies between.
Tables == {TableOf(RowsOf(0, 0, 0), 1, TRUE, CatalogAB), TableOf(RowsOf(1, 2, 1), 2, TRUE, CatalogAB),
           TableOf(RowsOf(0, 1, 0), 1, TRUE, CatalogAB), TableOf(RowsOf(1, 2, 1), 1, FALSE, CatalogAB)}

Quiet == [include |-> {}, redact |-> [what \in Redacted |-> "none"]]
Loud == [Quiet EXCEPT !.include = {"samples", "keys", "arguments"}]

Run(suite, table, options, capture) ==
  [suite |-> suite, given |-> <<>>, table |-> table, options |-> options, capture |-> capture]

Singles ==
  {Run(<<e>>, t, IF t.finite THEN Loud ELSE Quiet, t.finite) :
     e \in Counting \cup Moments \cup Bounding \cup Sharing \cup Others, t \in Tables}
  \cup {Run(<<e>>, TableOf(RowsOf(0, 0, 0), 0, TRUE, found), Loud, TRUE) :
          e \in Contracting, found \in {CatalogAB, CatalogA, <<>>}}

\* One total for two rates, the second of which has an identity of its own or not.
Pairs ==
  {Run(<<e, [f EXCEPT !.id = Named(id)]>>, TableOf(held, 1, TRUE, <<>>), Quiet, FALSE) :
     e \in {Exp("Completeness", ">=", Half, Half)}, f \in Sharing, id \in {"n", ""},
     held \in {RowsOf(0, 0, 0), RowsOf(1, 1, 1)}}

Row(failed) == [Blank EXCEPT !.id = Named("r"), !.kind = "Row", !.available = TRUE, !.total = 3, !.failed = failed,
                             !.success = failed = 0]

GivenResults ==
  {Row(0), [Row(0) EXCEPT !.total = 0],
   [Row(2) EXCEPT !.samples = 1, !.keys = 2],
   [Row(2) EXCEPT !.query = 3, !.args = 3, !.severity = "info"],
   [Row(1) EXCEPT !.query = 2, !.args = 0, !.severity = "severity(7)", !.samples = 1],
   [Row(2) EXCEPT !.success = TRUE, !.tolerated = TRUE, !.samples = 2, !.id.padded = TRUE,
                  !.facts = "ConfiguredMaxFailedCount" :> Whole(2)],
   [Row(1) EXCEPT !.success = TRUE, !.facts = "ConfiguredMaxFailedPercent" :> NaN],
   [Row(1) EXCEPT !.success = FALSE, !.err = "database"],
   [Blank EXCEPT !.id = Named("r"), !.err = "uncategorized"],
   [Blank EXCEPT !.id = Named("r"), !.err = "invalid_config", !.segment = "eu"],
   [Blank EXCEPT !.severity = "warning", !.failed = 1]}

Redact(what, fn) == [Quiet.redact EXCEPT ![what] = fn]
Redactions == {Quiet.redact, [what \in Redacted |-> "clean"], Redact("query", "longer"), Redact("query", "wrong")}
              \cup {Redact(what, fn) : what \in Redacted, fn \in {"clean", "fail"}}

ByHand(given, options) ==
  [suite |-> <<>>, given |-> given, table |-> TableOf(RowsOf(0, 0, 0), 0, TRUE, <<>>),
   options |-> options, capture |-> FALSE]

Manual ==
  {ByHand(<<r>>, [include |-> include, redact |-> redact]) :
     r \in GivenResults,
     include \in SUBSET {"samples", "keys", "diagnostics", "arguments"}, redact \in Redactions}
  \cup {ByHand(<<r, s>>, o) : r, s \in GivenResults, o \in {Quiet, Loud}}

\* A report that ValidateTable returned, and a result of the caller's own after it.
Extended ==
  {[Run(<<Exp("RowCount", ">=", One, One)>>, TableOf(RowsOf(0, 0, 1), 1, TRUE, <<>>), o, TRUE)
      EXCEPT !.given = <<r>>] : r \in GivenResults, o \in {Loud, [Loud EXCEPT !.redact = Redact("query", "clean")]}}

MCCases == Singles \cup Pairs \cup Manual \cup Extended
=============================================================================
