# A verification project for gxsql

`gxsql` is a Go library that states expectations about one SQL table or query
and checks them by sending aggregate statements to a caller-owned `Executor`.
This directory holds TLA+ models of it, the TLC configurations that check them
on small instances, and machine-checked proofs. Every definition is translated
from the Go source; `PROJECT.json` maps each one to the lines it stands for.

## 1. Inventory

The library is a sequential program. It starts no goroutine and holds no lock;
what makes it hard is that a *report* is put together from many statements,
each of which sees the table at another moment, may fail, and may be shared by
several results.

| component | source | state | operations | interacts with | hard behaviour | what makes it correct |
|---|---|---|---|---|---|---|
| suite execution | `suite.go`, `expectation.go`, `query.go` | segment and slot index, report so far, scoped options | `ValidateTable`, `evaluateSQL` of each expectation | every other component | fail-fast against `ContinueOnError`, errors that arrive after a result exists | one result per slot in order, an error never passes, nothing is sent after the first failure without `ContinueOnError` |
| shared scalar evaluation | `shared_scalar.go` | batch bounds, per-slot results, batch error | `evalSharedScalarCounts`, `evalSharedChunk` | total cache, policies, observer | chunks, diagnostics of one slot failing in the middle | same figures as sequential evaluation; an error stays with the statement's slots |
| scoped total cache | `query.go:169-200` | loaded, total, error | `scopedTotalRows` | read by both paths | sticky errors, staleness | one population count per segment, one denominator |
| tolerance policies | `policy.go` | none (wrappers) | `MaxFailedCount`, `MaxFailedPercent`, `Warning` | decorate a result | applied before or after an error is recorded | verdict and `Tolerated` follow the counts |
| query observer | `observer.go` | callback | one event per statement | called between any two statements | it may panic | told of every statement, a panic always aborts |
| row and relational checks | `unique.go`, `relation.go`, `column.go`, `pattern.go` | none | render a failure predicate | statement loop | predicate composition | the predicate selects the failing rows |
| table-level metrics | `rate.go`, `frequency.go`, `aggregate.go`, `distribution.go`, `distinctcount.go`, `rowcount.go`, `customcount.go` | none | one metric each | total cache | numerator and denominator read at two moments | rate uses the denominator reported |
| eligibility | `eligibility.go` | none | `When` | total cache (bypassed) | its own population | failures counted within the eligible rows |
| preflight | `meta.go`, `suite.go:213-300` | issue list | `preflight`, `hasIssueAt` | gates execution | duplicates, capability passes | every misconfigured slot is found before a statement |
| failing keys | `failing_keys.go` | pending row, terminal error, exhausted, closed | `FailingKeys`, `Next`, `Key`, `Err`, `Close` | rows of the driver, observer | legal call orders, cancellation, errors on close | rows released once, one event, first error kept |
| argument binding | `scope.go`, `filter.go`, `internal/dialect` | placeholder offset | compose predicates | every statement | placeholder shifting | each placeholder meets its argument |
| trusted SQL templates | `trusted_count.go`, `internal/sqltext/walk.go` | cursor, open literal or comment, nesting, counts | find markers and placeholders outside literals and comments | custom counts, scopes, segments, eligibility, filters | nested comments, doubled quotes, dollar tags, joined texts | only executable markers and placeholders are replaced |
| reconcile counts | `reconcile.go` | the left count, until the right one | two counts compared | other executor | two moments, two databases | on tables that stand still, pass means equal |
| export and history | `export.go`, `history.go`, `normalize.go` | options, the document, the records | `ExportReport`, `MeasurementRecordsFromExport` | reads reports | redactors that fail, shared pointers, doubled identities | the document bears out its verdicts and gates as the report does; records are copies with unique identities |
| structural checks and schema contract | `structural.go`, `schema_contract.go`, `schema_metadata.go` | none | compare discovered columns | metadata statements | properties the driver does not know | a verdict only on what the driver reported |
| report and errors | `report.go`, `errors.go` | none | `OK`, `GatingFailures`, `Err`, formatting | export | unknown severities, errors without a category | every reader gates alike |
| builders and naming | `column.go`, `kind.go`, `withid.go`, `render.go`, `doc.go` | none | constructors | | | |
| conformance fixtures | `internal/conformance` | none | test support | | | |

The order of a call: preflight; then for each segment a fresh scope and cache;
then for each expectation either its own statements (total, measure, samples,
keys) or, with shared evaluation, those of the contiguous batch it opens; then
the report. After every statement the observer is called. Results that failed
can later be read row by row through `FailingKeys`.

## 2. Modules and plan

Done:

1. `RunContract`: what a caller of `ValidateTable` may rely on, with no
   statement in it: slots published one by one in segment-major order, errors
   only where they are recorded, all or nothing.
2. `ValidateRun`: the call in detail (section 3). It is shown to implement
   `RunContract` by the refinement mapping `Contract` at its end.
3. `MCValidateRun`: two rows, one or two segments, sets of calls.
4. `ValidateRun_proofs` and `ValidateRunSafety_proofs`: the theorems (section 5).
5. `KeyCursor`, `FailureKeyStream`: what a caller of `FailingKeys` may rely on,
   and the iterator in detail, which implements it. `MCFailureKeyStream`: three
   rows, the report of three expectations. `FailureKeyStream_proofs`.
6. `Declaration`: an expectation under its wrappers, and the faults preflight
   looks for in it. `Preflight` runs a suite through it, `Wrapping` evaluates
   what it accepts. `MCPreflight`, `MCWrapping`, `Preflight_proofs`,
   `Wrapping_proofs`.
7. `ArgumentBinding`: the placeholders and arguments of every statement.
   `MCArgumentBinding`, `ArgumentBinding_proofs`.
8. `Metrics`: the statements, answers, comparisons and facts of the table-level
   expectations next to writers. `ReportExport` extends it with the report, the
   exported document, the measurement records and a caller that edits what it
   owns. `MCReportExport`, `ReportExport_proofs`.
9. `SqlTemplate`: the walk over a caller's SQL, its handlers, and what is made of
   one, two or a template's text. `MCSqlTemplate`, `SqlTemplate_proofs`.

`ValidateRun` takes preflight's verdict on a slot as given (`issue`) and a
predicate as a set of rows; `Preflight` and `ArgumentBinding` are those two
assumptions in detail, `Wrapping` the decoration that `ValidateRun` does in one
step, `Metrics` the figures of its `scalar`, `rate` and `dominant` shapes, and
`SqlTemplate` the texts that `ArgumentBinding` takes for lists of placeholders.

Next, most important first:

1. Every safety property that a run checks is proved. What is left to TLC is
   liveness (end of section 5).

Modules that are proved about hold no RECURSIVE operator and take their
parameters as CONSTANTS with named assumptions.

## 3. State, actions and code

### ValidateRun

| variable | code |
|---|---|
| `run` | the suite and `ValidateOptions` of the call; never changes |
| `rows` | the table, owned by the database and changed by other sessions |
| `phase` | where `ValidateTable` is: the statement it is about to send |
| `seg`, `slot` | `segmentIndex` and the expectation index of `suite.go` |
| `cache` | `scopedTotalCache` (`query.go`) |
| `cur` | the `Result` a sequential `evaluateSQL`, or a batch slot, is building |
| `batch` | `sharedScalarBatch` and the local state of `evalSharedScalarCounts` |
| `results` | `Report.Results` |
| `issued`, `events`, `totals`, `faults` | history only: statements, observer events, population counts of the segment, failed statements |

An action is one statement with the code up to the next one, or one turn of the
expectation loop that sends none. `Preflight` is the gate; `RecordIssue`,
`BeginSlot`, `BeginBatch`, `TakeFromBatch` and `EndSegment` are the loop;
`LoadTotal`, `UseCachedTotal`, `Measure`, `Samples`, `Keys` the sequential
path; `LoadBatchTotal`, `UseBatchTotal`, `CountBatch`, `MeasureBatchSlot`,
`BatchSamples`, `BatchKeys` the shared one; `Write` is another session. A
statement returns the cardinality of a set of rows of the table *as it stands
at that step*, fails, or succeeds or fails under an observer that panics.

Abstractions, each chosen because no property tells the difference:

- an expectation is the set of rows it fails and the set its `When` admits.
  For uniqueness and dominant values the failing set is therefore fixed and not
  a function of the other rows;
- `shape` collects expectations with one statement profile: `perRow`,
  `relational`, `rate`, `dominant`, `scalar` (row count, distinct count,
  aggregates, custom counts, structural checks), `integerSum`. A rate passes at
  or above its bound, a dominant share at or below it;
- the kinds of a statement's failure (driver, scan, context) are one, `exec`.
  A context that is cancelled once shows as every later statement failing,
  which the model includes;
- `ErrPreflight` covers whatever preflight finds; which issues it finds is the
  subject of `Preflight`;
- `WithSampleRows`, `WithKey`, `WithFailedKeysCap` and `SummaryOnly` are the
  caps they lead to;
- the total that `DominantShare` loads and does not report is kept in `total`.

Left out: option validation before the first statement, reconcile, `Report.Err`.

### FailureKeyStream

| variable | code |
|---|---|
| `request` | the options and the target of `FailingKeys`; never changes |
| `rows`, `cancelled` | the table, and whether `ctx.Err()` is set: both belong to others |
| `phase` | `report` before the call, `refused`, `idle` between two method calls, `advance`, `drain`, `scan` inside `Next`, `closing` inside `Close` |
| `pending`, `handle`, `trouble` | the driver's `Rows`: what is left, open or released, an error of its own that was not looked at yet |
| `current` | the row read and not handed out |
| `err`, `closed`, `exhausted`, `observed` | the fields of `rowStream` |
| `counted`, `changed`, `given`, `late`, `events` | history only |

`Reject`, `QueryFails` and `QuerySucceeds` are `FailingKeys`; `BeginNext`,
`RowsNext`, `FinishDrain` and `FinishScan` are `Next`; `BeginClose` and
`FinishClose` are `Close`; `CallAgain` is any method after the end. `Cancel`
comes between any two of them, `Write` before the statement is sent: a result
set does not change afterwards. A row is the natural number its key sorts by, a
failure predicate the set of rows it selects. The iterator is used by one
goroutine, as it documents; the copy `Key` makes is not modelled.
`KeyCursor` sees the outcome and the keys given and left.

### Declaration, Preflight, Wrapping

A declaration is its chain of wrappers, outermost first, and a core.
`Declaration` translates the `preflight` method of each wrapper, which looks
inwards from where it stands; its reference is `WellFormed`, which does not know
the order. Whether a core or a predicate is valid is a flag, an identity is a raw
text with its `Trim`; a percentage below 0 is refused like one above 100.

`Preflight` is `preflightState` and the five capability passes of
`ValidateTable`: `suite`, `dialect`, `filtered` and `continue` are the inputs,
`pass` and `at` the loops, `seen` and `issues` the fields of the same names,
`outcome` the decision. Of an issue's error its cause is kept.

`Wrapping` evaluates one accepted declaration twice on the same figures: `res`
travels outwards through `evaluateSQL` of each wrapper, `shared` is decorated by
the plan (`plan`) that `sharedScalarPlanFor` collects walking inwards. `fault` says
what fails (nothing, the statement, or a diagnostic after the figures),
`returned` that an error travels next to the result. Descriptions and tags go
with the severity; percentages are compared exactly.

### ArgumentBinding

A text is its placeholders in text order, each with the value its author meant
it for; an argument list is a sequence of such values. A statement is right when
every placeholder is filled with the value it wants: by its number where the
dialect numbers placeholders, else by its position.

| variable | code |
|---|---|
| `style`, `scope`, `segments` | the dialect's `Placeholder`, `WithScope`, `WithSegments`; never change |
| `phase`, `at`, `loaded` | the loops of `ValidateTable` and `scopedTotalCache` |
| `rule` | the expectation, or the shared chunk, under evaluation |
| `targets`, `predArgs` | the SELECT list of a shared statement and its arguments, one turn of the loop at a time |
| `failPreds`, `due` | the failure predicate of each check, and the check whose samples and keys are next |
| `sent`, `captured` | the last statement, and the diagnostics of the result |

Each kind of statement is an action (`CountPerRow` ... `CountShared`), with the
samples and keys after it (`QueryColumnSamples`, `QueryFailedKeys`) and
`FailingKeys`, which sends a kept predicate again. No scope and a scope without
placeholders are the same text. Failures of statements belong to `ValidateRun`.
At `frequency.go:160` one literal binds a value and reads the binder's values;
Go leaves that order open, and the model takes the order the gc compiler gives.

### Metrics

One column of small integers stands for every column an expectation may read.
A figure is a pair `n`, `d`: `0/0` is NaN, `n/0` infinite, and nothing compares
with NaN, as in floating point. A deviation is kept by its square.

| variable | code |
|---|---|
| `input` | the suite, the tables as they start, the export options, results made by hand; never changes |
| `rows`, `other`, `writes` | the table and the secondary one, and how often other sessions wrote |
| `faults` | statements that failed |
| `at`, `results`, `refused` | the loop of `ValidateTable`, its results, an observer's error |
| `cache` | `scopedTotalCache` |
| `left` | `leftCount` of a reconciliation between its two statements |
| `taken`, `cache.taken` | checking only: `writes` when that figure was read |

Each `evaluateSQL` is an action (`EvalTableCount` ... `EvalColumnType`); fractions
read the total in an action of their own (`ResolveScopedTotal`), a reconciliation
counts in two (`CountLeft`, `CountRight`). `Write` comes between any two. Errors
are recorded as `ContinueOnError` does; failing fast is `ValidateRun`'s. Facts are
a function from the names of the fields that are set.

### ReportExport

| variable | code |
|---|---|
| `stage` | `evaluating`, `assembled`, `exported` or `withheld`, `recorded` or `unrecorded` |
| `report`, `exported`, `records` | `Report`, `ExportedReport`, `[]MeasurementRecord` |
| `cells` | the numbers behind the pointers of the three, by address |
| `edits` | how often the caller wrote to the document |

`Assemble` is the end of `ValidateTable`, after which a caller may add results of
its own; `ExportReport` and `MeasurementRecordsFromExport` are the functions of
those names. A fact of the document has the address of the report's number where
`exportFacts` takes the pointer over (`Passed`), and one of its own where it
converts; so `Edit`, which writes through a pointer of the document, changes the
report's counts too, as in the code. What `RecordsAreSnapshots` says is that it
does not reach the records. A rate's exported facts do not name the operator, so
`VerdictFollowsFacts` takes it from the declaration.

### SqlTemplate

| variable | code |
|---|---|
| `job` | the texts, how many values came with each, and the placeholders bound before; never changes |
| `part`, `walk` | which text is validated, and whether this is the validating or the rendering walk, or how it ended |
| `text`, `i` | `fragment` and `i` of `Walk` |
| `inside`, `depth` | `quote`, or the comment loop the cursor is in, and its `depth` |
| `start`, `out` | what is not flushed yet, and the rendered text |
| `count`, `scan` | the counts of the predicate walk and `trustedCountScan` |

The loop's alternatives are the actions `Walk...` and `Open...`; the handlers are
`OnDoubleBrace` and `OnQuestionMark`; `ScannedPredicate`, `ScannedTemplate` and
`Rendered` are what follows a walk. The reference (`Literal`, `Fits`, `Expected`)
has no cursor: a literal begins wherever one can begin outside those before it.

## 4. Runs

| run | module | what it asks | result |
|---|---|---|---|
| `RunReports` | `MCValidateRun` | every ordered pair of the ten expectation forms, and batches next to slots that cannot be shared (`When`, preflight issue, unrenderable, table-level), on one view of the table and under a writer | on one view every figure is what the expectation reports alone; under a writer one denominator and one population count per segment; verdicts follow the policy on the figures reported; an error marks the slots that depend on the failed statement and no other, and is never tolerated; fail-fast; `RunContract` |
| `RunChunked` | `MCValidateRun` | batches of three in chunks of two, an observer that may panic on any event, `ContinueOnError` without an observer | no slot lost or repeated at a chunk boundary; an error stays in its batch and never passes; an event for every statement of the shapes that report them; the call ends, in a report where it should |
| `ChunkAttribution` | `MCValidateRun` | is an error of a shared statement given to the slots of its chunk only? | no, finding 1 |
| `Unobserved` | `MCValidateRun` | is the observer told of every statement? | no, finding 3 |
| `Keys` | `MCFailureKeyStream` | every request for the keys of a result, every driver error, cancellation, panic and order of calls | keys of one statement, ascending, each once; one event that tells the caller's error; rows released; cancellation is prompt; a complete drain is complete; a reading caller comes to the end; `KeyCursor` |
| `Slots` | `MCPreflight` | suites of up to three slots of nine forms, and one slot under every chain of up to three of ten wrappers, on a dialect with every capability and with none, filtered or not | every misconfigured slot is found, no other, under the cause that comes first |
| `WrappedResults` | `MCWrapping` | every accepted chain of up to four wrappers of seven forms around three kinds of core, measured, failing, and failing after the figures | nested evaluation, the shared plan and the metadata of an unevaluated slot agree, and keep each wrapper's promise |
| `Bindings` | `MCArgumentBinding` | every kind of statement under scopes, segments and eligibility of up to two placeholders, chunks of up to three checks, valid and invalid texts, on dialects that bind by number and in text order | every placeholder gets its value and no argument is spare, no statement leaves its population |
| `BindingsCustom` | `MCArgumentBinding` | the same for a dialect that numbers placeholders in another form than `$n` | no, finding 4 |
| `CapturedArguments` | `MCArgumentBinding` | do captured diagnostics hold the arguments? | no, finding 5 |
| `MetricReports` | `MCReportExport` | every table-level expectation and every comparison on empty, mixed and non-finite columns, two rates on one total, columns known, unknown and missing, with writers and a failing statement; reports put together by hand under every choice of inclusions and redactors; both exported, recorded and edited | calm tables give the verdict the expectation states; the document bears out its verdicts under any writes; nothing unasked or unredacted leaves, and cuts are marked; records are unique, whole and unaffected by edits; report, document and records gate alike |
| `Templates` | `MCSqlTemplate` | every text of up to four to seven bytes over each of thirteen small alphabets | refused only for what is wrong with it, else rendered with exactly its executable placeholders and markers replaced |

**Bounds.** *ValidateRun*: two rows, two expectations (three or four where a
batch needs them), two segments that overlap in one row or one segment, sample
and key caps of 0 and 1, chunk sizes of 2 (so that three slots need two chunks)
and of 1024 (the code's value, where every suite fits one chunk). Every
comparison in the code is between a count and a bound, and two rows give the
counts below, at and above each bound; a third expectation adds no order that
two adjacent ones and a batch do not have. Tables start with any set of rows.
*FailureKeyStream*: three rows are the fewest with a key before, at and after the
one at which something goes wrong. *Preflight*: three slots are the fewest in
which one identity is taken twice, and an issue is raised for an earlier slot
after one of a later. *Wrapping*: four layers hold an identity, a severity, a
tolerance and one more of any kind. *ArgumentBinding*: two placeholders a text
tell an offset from a constant, two segments and three checks a running offset
from a fixed one. *Metrics*: a column of NULL, 1 and 2 with at most two rows of
each has ties, duplicates and a deviation that is not zero; bounds lie below, at
and above the figures, with denominators of 1, 2 and 3; two writes change a total
and a numerator each after it was read, and one statement fails (two errors in
one suite come from the shared total). *ReportExport*: two results show an
identity that occurs twice and a failure behind a result that could be exported;
limits of two runes and two arguments are kept and exceeded; one edit is
enough to change a number. *SqlTemplate*: each alphabet holds the bytes of one
convention and what interferes with it; seven bytes are a dollar quote with a tag
and one byte in it, a nested comment opened and half closed, or a doubled quote
after a backslash. Longer texts repeat these.

**Deadlock** is checked in every run but the three of `ArgumentBinding`, where a
refused call stops and the keys of a returned report need not be asked for, and
`MetricReports` and `Templates`, where a recorded report or a rendered text is
done with. A
call that has returned stutters by an action of its own (`Returned` in
`ValidateRun`), so a deadlock would be a place where the call neither continues
nor has returned.

**Fairness.** `ValidateRun`'s `FairSpec` adds weak fairness of `Step`, the
disjunction of the call's own actions: the call runs on one goroutine, blocks
only inside the executor and every statement it sends returns (with an error, if
the context ends). Only `Termination` and `ReportsDespiteErrors` use it.
`FailureKeyStream`'s `FairSpec` adds weak fairness of `Read` and `FinishClose`:
the caller's documented loop `for iter.Next()`, and methods that return. Only
`StreamEnds` uses it. Nothing is assumed of other sessions, of cancellation or
of a caller that closes early.

### Findings

1. *A chunk's error spreads over its batch.* `shared_scalar.go:133` and
   `docs/reference/suite.md:124` attribute the error of a shared statement to
   the slots of that statement. `evalSharedScalarCounts` stops at the first
   failing chunk and returns its error, and `suite.go:404-405` writes it on every
   slot of the batch that has none: slots of earlier chunks that were measured
   without error, and slots whose chunk was never sent. `ErrorsStayInBatch` is
   what does hold. With `sharedScalarMaxSelectTargets` = 1024 this needs a batch
   of more than 1024 slots.
2. *The same error lands on tolerated results.* `suite.go:404-408` resets
   `Success` and leaves `Tolerated`, against `report.go:394`.
   `ErrorsNeverPass` is what does hold.
   The run of finding 1 shows the cause.
3. *Statements without an event.* Integer sums (`query.go:614`) and the grouped
   counts of `DominantShare` (`frequency.go:188`) do not call the observer,
   against `docs/concepts/operations.md:42`.
4. *Numbered placeholders of a custom dialect.* Every check of a shared statement
   is rendered from placeholder 1 (`shared_scalar.go:219`), and only placeholders
   written `$n` are renumbered afterwards (`shared_scalar.go:418`), against
   `dialect.go:27`. A `Dialect` that writes `@p1` or `:1` binds the scope's value
   to every check.
5. *Diagnostics without arguments.* The frequency and rate checks take their
   diagnostics from `countQuery`, which returns no arguments (`query.go:136`,
   `frequency.go:167`, `rate.go:135` and `146`), against `suite.go:142`.

Three more differences have no run, because no state the models keep is about
them or because they are the intended reading of another sentence:

- issues are not listed in declaration order, which `errors.go:97` says they are:
  a duplicated identity adds one for the earlier slot after those of later ones
  (`meta.go:168-182`), and each capability pass starts again at the first slot
  (`suite.go:235-295`). `EverySlotJudged` and `CauseByPrecedence` do hold;
- `docs/reference/expectations.md` compares "a derived rate in `[0, 1]`". The share
  of a dominant value is its count over the cached total, and under writers it
  may exceed 1 or, over a total of 0, be infinite; `docs/concepts/operations.md`
  asks for a transaction where that matters. `RightWhenQuiet` is about the calm
  case, `VerdictFollowsFacts` about any;
- `docs/reference/export.md:159` has the display name without bounds. Kinds
  without a case of their own in `exportDisplayBase` keep the label (`export.go`,
  its default case). Names are not modelled.

## 5. Proofs

Assumptions, all named and evaluated by TLC: in `ValidateRun` `RowsFinite`,
`SegmentsAssumption` (at least one segment, each a set of rows),
`MaxTargetsAssumption` (a positive chunk size) and `RunsAssumption` (calls are
well typed); in `FailureKeyStream` `RowsAssumption` (rows are naturals, finitely
many), `PlansAssumption` and `RequestsAssumption` (well typed); in `Declaration`
and `Preflight` `TrimAssumption`, `SuitesAssumption`, `DialectsAssumption` (well
typed); in `Wrapping` `DeclsAssumption` and `FiguresAssumption`, in
`ArgumentBinding` `StylesAssumption` and `InputsAssumption` (well typed) and
`SharedAssumption` (a shared chunk is not empty and has no eligibility, as
`sharedScalarPlanFor` admits no other); in `Metrics` the numbers of a column are
finitely many (`NumbersAssumption`) and the suites ones that preflight accepts
(`CasesAssumption` with `Accepted`: the bounds of a rate or a share are finite,
`rate.go:79` and `frequency.go:84`, so are those of a deviation,
`distribution.go:80`, the comparison one of three, a cutoff is a time, and a
table has no two columns of one name, `NamesApart`); in `ReportExport` the results
put in by hand are well typed, their counts lengths, never negative
(`ExportCasesAssumption`); in `SqlTemplate` `FamiliesAssumption` (well typed, and a
template is one text). Nothing bounds the suite, the table, the segments, the
chunk size, the placeholders, the checks of a chunk, the report, the keys, the
chain of wrappers or a caller's text.

Four theorems have a hypothesis on the constants, and each is where the code
stops doing what the property says. `OneChunk` (no suite is longer than a chunk)
is what `sharedScalarMaxSelectTargets` = 1024 gives nearly every caller; without
it finding 1 refutes both properties. `AllReport` (every statement of an observed
call is of a kind that tells the observer) excludes the shapes of finding 3. And
`"other" \notin Styles` admits the dialects the package ships, and excludes the
custom numbering of finding 4. The hypotheses hold in the runs that pass with
these properties and fail in the runs that show the findings.

| theorem | statement |
|---|---|
| `TypeCorrect` | `Spec => []TypeOK` |
| `SnapshotReport` | `Spec => []ReportMatchesSnapshot` |
| `OneDenominator` | `Spec => []SameDenominator` |
| `TotalLoadedOnce` | `Spec => []OneTotalPerSegment` |
| `ErrorsFail` | `Spec => []ErrorsNeverPass` |
| `FirstFaultIsLast` | `Spec => FailFast` |
| `KeepsContract` | `Spec => RefinesContract`: `ValidateRun` implements `RunContract` |
| `VerdictsFollowPolicy` | `Spec => []VerdictFollowsPolicy` |
| `ErrorsStay` | `Spec => []ErrorsStayInBatch` |
| `ErrorsAttributed` | `Spec => []ErrorsAreAttributed`, where `OneChunk` |
| `ErrorsUntolerated` | `Spec => []ErrorsAreNeverTolerated`, where `OneChunk` |
| `StatementsObserved` | `Spec => []EveryStatementObserved`, where `AllReport` |
| `StreamTypes` | `Spec => []TypeOK`, of the key stream |
| `RowsReleased` | `Spec => []ReleasedWhenEnded` |
| `OneEventTold` | `Spec => []EventMatchesOutcome` |
| `PromptCancellation` | `Spec => []CancellationIsPrompt` |
| `DrainCounts` | `Spec => []DrainMatchesReport` |
| `CursorImplemented` | `Spec => RefinesCursor`: `FailureKeyStream` implements `KeyCursor` |
| `WrapperOrder` | the checks of the wrappers, which look inwards from where they stand, find a fault in exactly the declarations an order-free reading forbids |
| `PreflightTypes` | `Spec => []TypeOK`, of preflight |
| `SlotsJudged` | `Spec => []EverySlotJudged` |
| `ReadersGateAlike` | `Spec => []GateSurvivesExport` |
| `RecordsJoin` | `Spec => []RecordsJoinUniquely` |
| `RecordsStay` | `Spec => RecordsAreSnapshots` |
| `ReportTyped` | `Spec => []TypeOK`, of evaluation, report, document and records |
| `VerdictsBorneOut` | `Spec => []VerdictFollowsFacts` |
| `QuietRight` | `Spec => RightWhenQuiet`, an action property |
| `PromiseKept` | `Spec => []ExportKeepsItsPromise` |
| `CauseRanked` | `Spec => []CauseByPrecedence` |
| `WrappersKept` | `Spec => []WrappersKeepTheirPromise` |
| `PathsAgree` | `Spec => []SharedPathAgrees` |
| `WrappingTyped` | `Spec => []TypeOK`, of wrapping |
| `BindingTyped` | `Spec => []TypeOK`, of argument binding |
| `ValuesBound` | `Spec => []PlaceholdersGetTheirValues`, where `"other" \notin Styles` |
| `PopulationKept` | `Spec => PopulationHeld` |
| `TypeCorrect` | `Spec => []TypeOK`, of the walk over a caller's SQL |
| `RenderedRight` | `Spec => []RenderedAsRead` |

*Types.* `TypeOK` is not inductive: the type of a result needs its slot to be a
slot of the suite, and that depends on where the batch cursors stand. `TypeInv`
adds `Control`, which says for each phase what holds of `slot`, `batch.from`,
`batch.at`, `batch.to` and `batch.hi` there. Each action then has one step.

*Figures.* `Sound` relates every half-built figure to the table: the cache holds
the population of its segment (`CacheExact`), the result under construction what
has been measured so far (`CurFits`), the batch names its own segment's slots
(`BatchNamed`), covers only slots that share the population (`BatchCovers`) and
holds figures of this table (`BatchFits`), and the report likewise
(`ReportFits`). Under a snapshot the figures are compared with the table, and
without one with the cache, so the same invariant gives both
`ReportMatchesSnapshot` and `SameDenominator`.

*Counting and failing.* `TotalsInv` says that a population count was sent in
this segment exactly when the cache is loaded. `PublishedStep` says that the
only action that adds a result adds one that does not pass with an error.
`FaultStops` says that without `ContinueOnError` a fault leaves only phases
from which no statement is sent.

*The contract.* A step of `ValidateRun` is a step of `RunContract` or a stutter
only where the slot it publishes follows the last one, which the state has to
remember. `ContractInv` adds to `SoundInv` (the parts of *Types* and *Figures*):
an observer's error needs an observer (`PanicsSeen`), a call that goes on past the
gate without `ContinueOnError` has no issues (`IssuesGone`), and the slot to
evaluate follows the last one published, across segments too (`Position`). For the
verdicts it says that no policy has touched a result under construction
(`CurRaw`) and that one waiting in the batch has met its policy
(`FinishedJudged`): policies are applied before the diagnostics of the shared path and after
those of the other, and both orders lead to the same verdict.

*Blame.* `ErrorsStayInBatch` looks back at a statement that failed. `BlameInv`
keeps for every error that is still to be published where it came from: from the
total (`CacheBlamed`), from the slot's own statement or the total
(`SlotsBlamed`), from a statement of the batch with only shareable slots between
(`BatchBlamed`). In the other direction, failed statements are those of slots
behind the cursor (`FaultsBehind`, `Met`), and a slot that waits without an error
had no failure (`FinishedClean`). Where a suite fits one chunk, `ChunkInv` adds that
the chunk under evaluation is the whole batch, with nothing failed before it
(`Whole`), that the error of a chunk reaches each of its slots (`Reached`), and
that no slot with an error is tolerated (`Untolerated`); blame then goes both ways.

*The stream.* `StreamInv` is the conjunction of `TypeOK` and seven parts: nothing
has happened before the statement (`Fresh`), the driver is open exactly while
rows may be read (`Reading`), what holds between calls (`Resting`) and of an error
not looked at yet (`Troubled`), what is left was not given, and the row in hand
is the least of it (`Rest`), the event is sent once and tells the error (`Telling`), and no key is
read after the one a cancellation found in hand (`Prompt`). `Counting`, proved on
top of it, says that keys given, in hand and left are the rows the report
counted. `CursorImplemented` needs no more than `StreamInv`.

*Preflight.* `WrapperOrder` is about one declaration, `SlotsJudged` about the
passes. Its invariant `JudgeInv` says that the identities remembered are those of
the slots passed, each with a slot that has it (`Seen`), that a slot has an
issue exactly when a loop that has passed it found one (`Judged`), and that the
outcome follows the list (`Settled`). `CauseRanked` needs more than that there is
an issue: `Ranked` says that the first one of a slot has the cause that comes first
among those found so far, although later slots' issues may stand before it.

*Wrapping.* `WrapInv` relates the layers walked to what was done. Of the walk
inwards, `Planned` says that the plan holds what the layers passed
stand for; of the walk outwards, `Decorated` says that the result is described,
named and judged by exactly the layers that are `Done`. Preflight has accepted the
declaration (`Typed`), so no two layers are of one kind and none is outside one that has
to enclose it; that makes a *set* of layers enough to say what they do, and the order
irrelevant. A finished result is `Complete`, and `CompleteIsUnique` says that two
complete results are one, which is `PathsAgree`.

*Binding.* `BaseInv` keeps that an accepted text has as many placeholders as values
(`Configured`, `RuleInv`), that a predicate kept for later statements is numbered
from one and carries the population of its rule (`Kept`), and which check is due
(`DueInv`). `BindInv` adds that the SELECT list of a shared chunk is numbered on
from the population in front of it, whatever the number of checks
(`ShareBound`), and that the last statement is fully bound. The lemmas of its
first sections say what renumbering and putting two texts together do to
placeholders.

*Export.* None of the four properties is inductive: they speak of a document
whose making lies behind. `ExportInv` keeps that the document is what
`ExportResult` makes of the report's results (`Written`), that the records are
what `Measurement` makes of the document, or none (`Measured`), and that their
numbers have addresses of their own among the cells (`Held`). The evaluation
before it enters only by leaving the input alone (`InputStays`), so the theorems
hold of any report. `PromiseKept` alone needs to know of the evaluation, that the
counts in a result are lengths (`WellCounted`, kept by every `evaluateSQL`), and
that a report which was exported could be (`Exportable`).

*Facts.* `VerdictFollowsFacts` is about the document, and its verdicts come from
evaluations that a writer may have interleaved. `EvaluationInv` keeps of the
results so far that they are typed, that their counts are lengths, and that each
one without an error is borne out by its facts (`Borne`), read as the document
would give them (`Bears`). One lemma for each `evaluateSQL` says that what it adds
is borne out, whatever the tables are. The figures are folds over sets, and the
induction theorems of the library, which take an operator, cannot be instantiated;
the sections on sums use instead that a family of finite sets has a least member
(`LeastSet`). A sum of finitely many naturals is the number of elements of a set
(one token for each unit), from which it follows that it is a natural, that a part
is not greater than the whole, and that a share of a positive total is a number.
`Assembled` then says that the report is those results and those added by hand,
that all pointers of the document lead somewhere, and that they lead to the
report's numbers until somebody edits; that is what carries `Borne` over to the
document.

*Calm tables.* `RightWhenQuiet` compares a verdict with a reference of its own,
`Satisfied`, which speaks of rows where the engine's answers speak of values and
of how often each occurs. `FiguresKept` is what an evaluation of several
statements has to remember while nobody writes: the total read is the number of
rows of the scope, and so is the left count of a reconciliation. The rest
relates two readings of a table. A sum over rows is a sum over values of how
often times how much (`SumsOfRows`), and the squared differences of all pairs
of values add up to twice the sum of squares times their number, less the square of
their sum (`SpreadOfRows`), which is what the engine's deviation is taken from.
Both go through the finite sets, one element at a time (`SetsInduce`: a set of sets
that has the empty one, and any set that it has without one element, has them all). The
columns missing and not expected are none exactly if nothing of the list is kept
(`NothingKept`), which looks at the least prefix of the list of which something
is. One lemma for each `evaluateSQL` then says that what it adds is `Right`. The
reference has nothing to say of a column that holds NaN or an infinity, so the
equivalence is about finite numbers; that fractions lie between 0 and 1 is shown
of any.

*Reading.* `RenderedAsRead` compares a walk of one byte at a time with a reading of
the whole text. The two recursive functions of the reading, where literals begin
(`Beginnings`) and how deep comments nest (`Nesting`), are first shown to be what
their equations say; the argument is that of the least length, or number, at which
they would not be. `WalkInv` then says of the text walked so far that the walk is in
the literal that the reading has at the cursor, at the same depth (`Position`),
what has been counted of it (`SlotsCounted`, `MarkersScanned`, `ScopeKnown`), and
that `out` and what is not flushed are the reading's rendering up to the cursor
(`RenderedSoFar`). The lemmas about texts come first (`QuotedByte`,
`BlockByte` and their neighbours: which bytes a literal of a kind that begins
here has), then one lemma for each action that reads a byte. `SumOfValues` gives joined
predicates their number of placeholders.

Model-checked only:

- `Termination`, `ReportsDespiteErrors`, `StreamEnds`: liveness under fairness.

## 6. Not modelled

- identifier quoting, and SQL text beyond placeholders, literals, comments and
  markers;
- what a dialect makes of a literal. The walker has one reading for all: a
  backslash escapes in single quotes, `#` begins a comment, a tagged dollar sign
  a literal. An engine with other rules (no backslash escapes in PostgreSQL's
  standard strings, backslash escapes within double quotes and no dollar quotes
  in MySQL) may end a literal elsewhere. `SqlTemplate` states the walker's reading,
  which is all that the code decides;
- the width of `int` and the rounding of `float64`: figures are exact fractions;
- in `Metrics`, the scope (it is `ValidateRun`'s and `ArgumentBinding`'s), the
  SQL of the aggregates, and the result shapes that `validateCustomCountResult`
  refuses and no path builds;
- formats of reports, exports and errors, display names, caller-owned times, and
  the normalization of single values (`normalize.go`);
- builders, labels and documentation examples: no state;
- conformance fixtures: they call the library against live databases.
