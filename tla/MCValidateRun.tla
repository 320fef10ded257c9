--------------------------- MODULE MCValidateRun ---------------------------
(***************************************************************************)
(* Small instances of ValidateRun.  Two segments overlap in one row; each  *)
(* set of calls aims at one question.                                      *)
(***************************************************************************)
EXTENDS ValidateRun

CONSTANTS r1, r2

MCRows == {r1, r2}
MCSegmentRows == <<{r1, r2}, {r2}>>
OneSegment == <<{r1, r2}>>

\* An ordinary expectation of a given shape that every row fails.
Plain(shape) ==
  [shape |-> shape, when |-> FALSE, issue |-> FALSE, renders |-> TRUE,
   tolerance |-> "none", bound |-> 0, fails |-> MCRows, eligible |-> MCRows]

PerRow == [Plain("perRow") EXCEPT !.fails = {r1}]
CountTolerant == [Plain("perRow") EXCEPT !.tolerance = "count", !.bound = 1]
PercentTolerant ==
  [Plain("perRow") EXCEPT !.tolerance = "percent", !.bound = 50, !.fails = {r2}]
Unique == [Plain("relational") EXCEPT !.tolerance = "count", !.bound = 1]
Conditional ==
  [Plain("perRow") EXCEPT !.when = TRUE, !.eligible = {r2}, !.tolerance = "percent"]
Completeness == [Plain("rate") EXCEPT !.bound = 50, !.fails = {r1}]
Dominant == [Plain("dominant") EXCEPT !.bound = 50, !.fails = {r1}]
RowCount == [Plain("scalar") EXCEPT !.bound = 1]
IntegerSum == [Plain("integerSum") EXCEPT !.bound = 1]
Broken == [Plain("perRow") EXCEPT !.issue = TRUE]
Unrenderable == [Plain("perRow") EXCEPT !.renders = FALSE]

Observable ==
  {PerRow, CountTolerant, Unique, Conditional, Completeness, RowCount,
   Broken, Unrenderable}

Call(suite) ==
  [suite |-> suite, continueOnError |-> TRUE, shared |-> FALSE,
   observed |-> FALSE, sampleCap |-> 1, keyed |-> TRUE, failedKeysCap |-> 0,
   snapshot |-> FALSE, tableRenders |-> TRUE]

\* Every pair of expectation shapes, evaluated one after the other on one view.
SnapshotRuns ==
  {[Call(<<a, b>>) EXCEPT !.snapshot = TRUE, !.continueOnError = c,
                          !.sampleCap = cap, !.keyed = (cap = 0)] :
     a, b \in Observable \cup {Dominant, IntegerSum}, c \in BOOLEAN, cap \in {0, 1}}

\* Suites that reread a cached total while other sessions write.
WriterRuns ==
  {[Call(suite) EXCEPT !.continueOnError = c] :
     suite \in {<<PerRow, Unique>>, <<Completeness, PercentTolerant>>,
                <<Conditional, Dominant>>, <<Completeness, Dominant>>,
                <<IntegerSum, RowCount>>},
     c \in BOOLEAN}

\* An observer that may panic, for suites all of whose statements it sees.
ObservedRuns ==
  {[Call(<<a, b>>) EXCEPT !.observed = TRUE, !.continueOnError = c,
                          !.shared = s, !.snapshot = TRUE] :
     a, b \in Observable, c, s \in BOOLEAN}

\* Suites with a run of two shareable slots next to slots that are not.
SharedSuites ==
  {<<CountTolerant, PercentTolerant>>,
   <<RowCount, PerRow, CountTolerant>>,
   <<PerRow, CountTolerant, Conditional>>,
   <<PerRow, PercentTolerant, Unique>>,
   <<Broken, PerRow, CountTolerant>>,
   <<PerRow, Unrenderable, CountTolerant, PerRow>>}

SharedRuns ==
  {[Call(suite) EXCEPT !.shared = TRUE, !.snapshot = TRUE, !.continueOnError = c,
                       !.sampleCap = cap, !.keyed = (cap = 0), !.tableRenders = t] :
     suite \in SharedSuites, c, t \in BOOLEAN, cap \in {0, 1}}

\* Batches between sequential slots that use the same total, while other
\* sessions write.
SharedWriterRuns ==
  {[Call(suite) EXCEPT !.shared = TRUE, !.continueOnError = c, !.keyed = FALSE,
                       !.sampleCap = 0] :
     suite \in {<<Completeness, PerRow, PercentTolerant>>,
                <<PerRow, CountTolerant, Conditional>>},
     c \in BOOLEAN}

\* Three contiguous shareable slots, more than a chunk of two holds.
ChunkedRuns ==
  {[Call(<<CountTolerant, PerRow, PercentTolerant>>) EXCEPT
      !.shared = TRUE, !.continueOnError = c, !.snapshot = s, !.sampleCap = cap,
      !.keyed = FALSE] :
     c, s \in BOOLEAN, cap \in {0, 1}}

\* Both paths, errors recorded, while other sessions write.
ContinuingRuns ==
  {[Call(suite) EXCEPT !.shared = s] :
     suite \in {<<CountTolerant, PerRow, PercentTolerant>>, <<Broken, Unique>>,
                <<Conditional, Completeness>>},
     s \in BOOLEAN}

\* Every suite fits one chunk.
ReportRuns == SnapshotRuns \cup WriterRuns \cup SharedRuns \cup SharedWriterRuns

\* A batch of three needs two chunks.
SmallChunkRuns == ChunkedRuns \cup ObservedRuns \cup ContinuingRuns

UnobservedRuns ==
  {[Call(<<a, b>>) EXCEPT !.observed = TRUE] :
     a, b \in {Dominant, IntegerSum, RowCount}}
=============================================================================
