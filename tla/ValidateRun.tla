---------------------------- MODULE ValidateRun ----------------------------
(***************************************************************************)
(* One call of Suite.ValidateTable: a sequential program that issues one   *)
(* SQL statement after another against a table other sessions may be       *)
(* changing, and turns what the statements return into a Report.           *)
(*                                                                         *)
(* One action is one statement together with the code up to the next       *)
(* statement, or one pass of the expectation loop that needs no statement. *)
(* A statement may fail (database, scan or context error, not told apart)  *)
(* and the observer may panic on its event.                                *)
(*                                                                         *)
(* Abstractions: a row is an opaque value; an expectation names the rows   *)
(* it fails and the rows its eligibility predicate admits, so a statement  *)
(* returns the cardinality of a set of rows of the table as it stands when *)
(* the statement runs.  SQL text and bound arguments are not modelled.     *)
(***************************************************************************)
EXTENDS Integers, Sequences, FiniteSets

CONSTANTS
  Rows,         \* every row the table may ever hold
  NumSegments,  \* segments of the call (1 when WithSegments is absent)
  SegmentRows,  \* SegmentRows[s]: the rows scope and segment s select
  MaxTargets,   \* sharedScalarMaxSelectTargets
  Runs          \* the calls considered: suite and options

(***************************************************************************)
(* The statement profiles of the expectations:                             *)
(*   perRow      total, failure count, samples, keys; may be shared        *)
(*   relational  the same statements, never shared (unique, composite      *)
(*               unique, references)                                       *)
(*   rate        total, numerator (completeness, duplicate rate, frequency)*)
(*   dominant    total, grouped counts read without an observer event      *)
(*   scalar      one statement (row count, distinct count, aggregates)     *)
(*   integerSum  one statement, read without an observer event             *)
(***************************************************************************)
Shapes == {"perRow", "relational", "rate", "dominant", "scalar", "integerSum"}

Tolerances == {"none", "count", "percent"}

\* Expectation: issue is a preflight issue, renders tells whether the failure
\* predicate can be built, bound is the tolerance or the configured threshold.
Expectation ==
  [shape: Shapes, when: BOOLEAN, issue: BOOLEAN, renders: BOOLEAN,
   tolerance: Tolerances, bound: Nat,
   fails: SUBSET Rows, eligible: SUBSET Rows]

\* keyed is WithKey without SummaryOnly; snapshot is a caller-owned
\* transaction whose isolation gives every statement one view.
Run ==
  [suite: Seq(Expectation), continueOnError: BOOLEAN, shared: BOOLEAN,
   observed: BOOLEAN, sampleCap: Nat, keyed: BOOLEAN, failedKeysCap: Nat,
   snapshot: BOOLEAN, tableRenders: BOOLEAN]

ASSUME RowsFinite == IsFiniteSet(Rows)
ASSUME SegmentsAssumption ==
  /\ NumSegments \in Nat \ {0}
  /\ SegmentRows \in [1..NumSegments -> SUBSET Rows]
ASSUME MaxTargetsAssumption == MaxTargets \in Nat \ {0}
ASSUME RunsAssumption == Runs \subseteq Run

VARIABLES
  run,      \* the call; never changes
  rows,     \* the rows the table holds now
  phase,    \* where the program is
  seg,      \* segmentIndex, from 1
  slot,     \* index into s.expectations, from 1
  cache,    \* scopedTotalCache of the current segment
  cur,      \* the Result under construction
  batch,    \* the shared batch being or last evaluated in this segment
  results,  \* Report.Results so far
  \* history, for the properties only
  issued,   \* statements attempted
  events,   \* observer events delivered
  totals,   \* statements that loaded the segment's cached total
  faults    \* <<segment, slot>> of statements that failed; slot 0 is the cached total

vars == <<run, rows, phase, seg, slot, cache, cur, batch, results,
          issued, events, totals, faults>>

Errors == {"none", "config", "render", "exec", "observer"}

Phases == {"start", "slot", "total", "measure", "samples", "keys",
           "batchTotal", "batchCounts", "batchSlot", "batchSamples", "batchKeys",
           "report", "error"}

-----------------------------------------------------------------------------
(* What the statements measure.                                            *)

NumSlots == Len(run.suite)
Exp(i) == run.suite[i]

\* The rows expectation e evaluates in segment s when the table holds T.
Population(e, s, T) ==
  T \cap SegmentRows[s] \cap (IF e.when THEN e.eligible ELSE Rows)

Failing(e, s, T) == Population(e, s, T) \cap e.fails

\* The figure the measuring statement returns: failing rows, non-null rows,
\* rows of the dominant value, or the table-level scalar.
Measured(e, s, T) ==
  IF e.shape \in {"scalar", "integerSum"}
    THEN Cardinality(Population(e, s, T))
    ELSE Cardinality(Failing(e, s, T))

UsesTotal(e) == e.shape \notin {"scalar", "integerSum"}
HasRowDenominator(e) == e.shape \in {"perRow", "relational"}

\* Fault: the single-value query forgets to report its attempt.
ScalarsUnobserved(e) == e.shape \notin {"dominant", "integerSum", "scalar"}
EmitsEvent(e) == e.shape \notin {"dominant", "integerSum"}

Capped(cap, n) == IF cap = 0 \/ n < cap THEN n ELSE cap

-----------------------------------------------------------------------------
(* Results and the policies that decorate them.                            *)

Blank(s, i) ==
  [seg |-> s, slot |-> i, err |-> "none", measured |-> FALSE,
   total |-> 0, count |-> 0, samples |-> 0, keys |-> 0,
   success |-> FALSE, tolerated |-> FALSE]

\* The verdict before any tolerance.
RawVerdict(e, total, count) ==
  \/ HasRowDenominator(e) /\ count = 0
  \/ e.shape = "rate" /\ (total = 0 \/ count * 100 >= e.bound * total)
  \/ e.shape = "dominant" /\ (count = 0 \/ count * 100 <= e.bound * total)
  \/ ~UsesTotal(e) /\ count <= e.bound

Observe(e, r, count) ==
  [r EXCEPT !.measured = TRUE, !.count = count,
            !.success = RawVerdict(e, r.total, count)]

\* Fault: the allowance excludes its own bound.
AllowedBelowBound(e, r) ==
  /\ e.tolerance = "count" => r.count < e.bound
  /\ e.tolerance = "percent" =>
       r.total = 0 \/ r.count = 0 \/ r.count * 100 < e.bound * r.total

\* The allowance: a failed count, or a failed percentage of the total.
Allowed(e, r) ==
  /\ e.tolerance = "count" => r.count <= e.bound
  /\ e.tolerance = "percent" =>
       r.total = 0 \/ r.count = 0 \/ r.count * 100 <= e.bound * r.total

MarkedTolerated(e, r) ==
  /\ r.count > 0
  /\ e.tolerance = "percent" => r.total > 0

\* Fault: the policy is applied without looking at the error first.
TolerateErrors(e, r) ==
  IF e.tolerance = "none" THEN r
  ELSE IF ~(HasRowDenominator(e) /\ r.measured) THEN [r EXCEPT !.tolerated = FALSE]
  ELSE [r EXCEPT !.success = Allowed(e, r),
                 !.tolerated = Allowed(e, r) /\ MarkedTolerated(e, r)]

Tolerate(e, r) ==
  IF e.tolerance = "none" THEN r
  ELSE IF r.err # "none" THEN [r EXCEPT !.success = FALSE, !.tolerated = FALSE]
  ELSE IF ~(HasRowDenominator(e) /\ r.measured) THEN [r EXCEPT !.tolerated = FALSE]
  ELSE [r EXCEPT !.success = Allowed(e, r),
                 !.tolerated = Allowed(e, r) /\ MarkedTolerated(e, r)]

\* The decorated result of a sequential evaluation that returned err.
Decorated(e, r, err) == Tolerate(e, [r EXCEPT !.err = err])

WantsSamples(e, r) == HasRowDenominator(e) /\ r.count > 0 /\ run.sampleCap > 0
WantsKeys(e, r) == HasRowDenominator(e) /\ r.count > 0 /\ run.keyed

-----------------------------------------------------------------------------
(* scopedTotalCache: the population count of a segment, loaded at most once. *)

\* The call attaches a cache only when some expectation has a row denominator;
\* without one every rate loads a total of its own, as When always does.
CachesTotal(e) == ~e.when /\ \E i \in 1..NumSlots : HasRowDenominator(Exp(i))

EmptyCache == [loaded |-> FALSE, total |-> 0, err |-> "none"]

\* Faults: the cache is never marked loaded; an error is not remembered; a
\* failed load reads as an empty population.
LoadedNever(n, err) ==
  [loaded |-> FALSE, total |-> IF err = "none" THEN n ELSE 0, err |-> err]
LoadedUnlessError(n, err) ==
  [loaded |-> err = "none", total |-> IF err = "none" THEN n ELSE 0, err |-> err]
LoadedAsEmpty(n, err) ==
  [loaded |-> TRUE, total |-> IF err = "none" THEN n ELSE 0, err |-> "none"]

\* The cache after the statement returned n or failed with err.
Loaded(n, err) ==
  [loaded |-> TRUE, total |-> IF err = "none" THEN n ELSE 0, err |-> err]

\* Fault: one cache serves the whole call.
CacheOfCall == cache
SegmentCache == EmptyCache

-----------------------------------------------------------------------------
(* Shared batches.                                                         *)

\* Fault: a When expectation is counted with the others.
ShareableWithWhen(i) ==
  /\ i \in 1..NumSlots
  /\ Exp(i).shape = "perRow"
  /\ ~Exp(i).issue /\ Exp(i).renders

Shareable(i) ==
  /\ i \in 1..NumSlots
  /\ Exp(i).shape = "perRow"
  /\ ~Exp(i).when /\ ~Exp(i).issue /\ Exp(i).renders

\* Contiguous runs of two or more shareable slots are batched.
InBatch(i) ==
  run.shared /\ Shareable(i) /\ (Shareable(i - 1) \/ Shareable(i + 1))

IsBatchEnd(i, h) == (\A k \in i..h : Shareable(k)) /\ ~Shareable(h + 1)

ChunkEnd(from, hi) ==
  IF from + MaxTargets - 1 < hi THEN from + MaxTargets - 1 ELSE hi

\* hi is the last slot of the batch (0 when none was evaluated), from..to the
\* chunk and at the slot being finished.  counts and total are the chunk's.
NoBatch ==
  [hi |-> 0, from |-> 1, to |-> 0, at |-> 0, total |-> 0,
   counts |-> [k \in 1..NumSlots |-> 0],
   res |-> [k \in 1..NumSlots |-> Blank(seg, k)], err |-> "none"]

-----------------------------------------------------------------------------
(* Statements.                                                             *)

\* A statement succeeds, fails, or reports to an observer that panics.
Outcomes(emits) ==
  {"none", "exec"} \cup (IF emits /\ run.observed THEN {"observer"} ELSE {})

Issue(emits) ==
  /\ issued' = issued + 1
  /\ events' = events + (IF emits /\ run.observed THEN 1 ELSE 0)

NoIssue == UNCHANGED <<issued, events>>

\* Slots whose statement ended with err; a panicking observer is no fault.
Blame(err, slots) ==
  faults' = IF err = "exec" THEN faults \cup {<<seg, i>> : i \in slots} ELSE faults

-----------------------------------------------------------------------------
(* The expectation loop's reaction to an evaluated slot.                   *)

\* The result the loop appends: an error of the slot, or of its batch, fails it.
\* Fault: the error is recorded beside a verdict that still passes.
WithErrorOnly(r, err) == [r EXCEPT !.err = err]
WithError(r, err) == [r EXCEPT !.err = err, !.success = @ /\ err = "none"]

\* An observer error aborts always, any other unless ContinueOnError records it.
\* Faults: every error is recorded; every error aborts.
AbortsOnPanic(err) == err = "observer"
AbortsAlways(err) == err # "none"
Aborts(err) == err = "observer" \/ (err # "none" /\ ~run.continueOnError)

Publish(r) ==
  /\ results' = Append(results, r)
  /\ slot' = slot + 1
  /\ phase' = "slot"

\* Fault: what was appended so far is returned with the error.
AbortWithPartialReport ==
  /\ phase' = "error"
  /\ UNCHANGED <<slot, results>>

Abort ==
  /\ phase' = "error"
  /\ results' = <<>>
  /\ UNCHANGED slot

\* evaluateSQL returned r and err for the current slot.
Settle(r, err) ==
  IF Aborts(err) THEN Abort
  ELSE Publish(WithError(Decorated(Exp(slot), r, err), err))

Goto(p) == phase' = p /\ UNCHANGED <<slot, results>>

-----------------------------------------------------------------------------
Init ==
  /\ run \in Runs
  /\ rows \in SUBSET Rows
  /\ phase = "start"
  /\ seg = 1
  /\ slot = 1
  /\ cache = EmptyCache
  /\ cur = Blank(1, 1)
  /\ batch = NoBatch
  /\ results = <<>>
  /\ issued = 0
  /\ events = 0
  /\ totals = 0
  /\ faults = {}

\* Preflight issues abort before any statement unless ContinueOnError is set.
Preflight ==
  /\ phase = "start"
  /\ IF ~run.continueOnError /\ \E i \in 1..NumSlots : Exp(i).issue
       THEN Goto("error")
       ELSE Goto("slot")
  /\ UNCHANGED <<run, rows, seg, cache, cur, batch, issued, events, totals, faults>>

\* A slot with a preflight issue holds its configuration error.
RecordIssue ==
  /\ phase = "slot" /\ slot <= NumSlots
  /\ Exp(slot).issue
  /\ Publish([Blank(seg, slot) EXCEPT !.err = "config"])
  /\ UNCHANGED <<run, rows, seg, cache, cur, batch, issued, events, totals, faults>>

\* evaluateSQL up to its first statement: what cannot be rendered ends here.
BeginSlot ==
  /\ phase = "slot" /\ slot <= NumSlots
  /\ ~Exp(slot).issue /\ ~InBatch(slot)
  /\ cur' = Blank(seg, slot)
  /\ IF ~(Exp(slot).renders /\ run.tableRenders)
       THEN Settle(Blank(seg, slot), "render")
       ELSE Goto(IF UsesTotal(Exp(slot)) THEN "total" ELSE "measure")
  /\ UNCHANGED <<run, rows, seg, cache, batch, issued, events, totals, faults>>

\* COUNT(*) of the population: once per segment through the cache, once per
\* evaluation without it.
LoadTotal ==
  /\ phase = "total"
  /\ CachesTotal(Exp(slot)) => ~cache.loaded
  /\ LET e == Exp(slot)
         n == Cardinality(Population(e, seg, rows))
     IN \E err \in Outcomes(TRUE) :
          /\ Issue(TRUE)
          /\ Blame(err, {IF CachesTotal(e) THEN 0 ELSE slot})
          /\ IF CachesTotal(e)
               THEN cache' = Loaded(n, err) /\ totals' = totals + 1
               ELSE UNCHANGED <<cache, totals>>
          /\ IF err = "none"
               THEN cur' = [cur EXCEPT !.total = n] /\ Goto("measure")
               ELSE Settle(cur, err) /\ UNCHANGED cur
  /\ UNCHANGED <<run, rows, seg, batch>>

\* Fault: a cached error is waited out instead of returned.
AwaitCachedTotal ==
  /\ phase = "total"
  /\ CachesTotal(Exp(slot)) /\ cache.loaded
  /\ IF cache.err = "none"
       THEN cur' = [cur EXCEPT !.total = cache.total] /\ Goto("measure")
       ELSE UNCHANGED cur /\ Goto("total")
  /\ NoIssue
  /\ UNCHANGED <<run, rows, seg, cache, batch, totals, faults>>

\* The cached total, or the cached error, without a statement.
UseCachedTotal ==
  /\ phase = "total"
  /\ CachesTotal(Exp(slot)) /\ cache.loaded
  /\ IF cache.err = "none"
       THEN cur' = [cur EXCEPT !.total = cache.total] /\ Goto("measure")
       ELSE Settle(cur, cache.err) /\ UNCHANGED cur
  /\ NoIssue
  /\ UNCHANGED <<run, rows, seg, cache, batch, totals, faults>>

\* The measuring statement; samples and keys follow only when rows failed.
Measure ==
  /\ phase = "measure"
  /\ LET e == Exp(slot)
         r == Observe(e, cur, Measured(e, seg, rows))
     IN \E err \in Outcomes(EmitsEvent(e)) :
          /\ Issue(EmitsEvent(e))
          /\ Blame(err, {slot})
          /\ cur' = IF err = "none" THEN r ELSE cur
          /\ IF err # "none" THEN Settle(Blank(seg, slot), err)
             ELSE IF WantsSamples(e, r) THEN Goto("samples")
             ELSE IF WantsKeys(e, r) THEN Goto("keys")
             ELSE Settle(r, "none")
  /\ UNCHANGED <<run, rows, seg, cache, batch, totals>>

\* The capped sample statement.
Samples ==
  /\ phase = "samples"
  /\ LET e == Exp(slot)
         n == Cardinality(Failing(e, seg, rows))
         r == [cur EXCEPT !.samples = Capped(run.sampleCap, n)]
     IN \E err \in Outcomes(TRUE) :
          /\ Issue(TRUE)
          /\ Blame(err, {slot})
          /\ cur' = IF err = "none" THEN r ELSE cur
          /\ IF err # "none" THEN Settle(cur, err)
             ELSE IF WantsKeys(e, r) THEN Goto("keys")
             ELSE Settle(r, "none")
  /\ UNCHANGED <<run, rows, seg, cache, batch, totals>>

\* The failed-key statement, capped unless the cap is 0.
Keys ==
  /\ phase = "keys"
  /\ LET n == Cardinality(Failing(Exp(slot), seg, rows))
         r == [cur EXCEPT !.keys = Capped(run.failedKeysCap, n)]
     IN \E err \in Outcomes(TRUE) :
          /\ Issue(TRUE)
          /\ Blame(err, {slot})
          /\ Settle(IF err = "none" THEN r ELSE cur, err)
  /\ UNCHANGED <<run, rows, seg, cache, cur, batch, totals>>

-----------------------------------------------------------------------------
(* evalSharedScalarCounts: the statements of one shared batch.             *)

\* The first slot of a batch evaluates the whole batch.
BeginBatch ==
  /\ phase = "slot" /\ slot <= NumSlots
  /\ InBatch(slot) /\ slot > batch.hi
  /\ \E h \in slot..NumSlots :
       /\ IsBatchEnd(slot, h)
       /\ IF run.tableRenders
            THEN /\ batch' = [NoBatch EXCEPT !.hi = h, !.from = slot,
                                             !.to = ChunkEnd(slot, h)]
                 /\ Goto("batchTotal")
            ELSE /\ batch' = [NoBatch EXCEPT
                                !.hi = h, !.err = "render",
                                !.res = [k \in 1..NumSlots |->
                                           [Blank(seg, k) EXCEPT !.err = "render"]]]
                 /\ Goto("slot")
  /\ UNCHANGED <<run, rows, seg, cache, cur, issued, events, totals, faults>>

Chunk == batch.from..batch.to

\* Fault: the batch error is not returned, only the slots' are.
FailChunkSlots(err) ==
  /\ batch' = [batch EXCEPT
                 !.res = [k \in 1..NumSlots |->
                            IF k \in Chunk THEN [@[k] EXCEPT !.err = err] ELSE @[k]]]
  /\ Goto("slot")

\* A chunk-level error marks every slot of the chunk and ends the batch.
FailChunk(err) ==
  /\ batch' = [batch EXCEPT
                 !.err = err,
                 !.res = [k \in 1..NumSlots |->
                            IF k \in Chunk THEN [@[k] EXCEPT !.err = err] ELSE @[k]]]
  /\ Goto("slot")

LoadBatchTotal ==
  /\ phase = "batchTotal"
  /\ ~cache.loaded
  /\ LET n == Cardinality(Population(Exp(batch.from), seg, rows))
     IN \E err \in Outcomes(TRUE) :
          /\ Issue(TRUE)
          /\ Blame(err, {0})
          /\ cache' = Loaded(n, err)
          /\ totals' = totals + 1
          /\ IF err = "none"
               THEN batch' = [batch EXCEPT !.total = n] /\ Goto("batchCounts")
               ELSE FailChunk(err)
  /\ UNCHANGED <<run, rows, seg, cur>>

UseBatchTotal ==
  /\ phase = "batchTotal"
  /\ cache.loaded
  /\ IF cache.err = "none"
       THEN batch' = [batch EXCEPT !.total = cache.total] /\ Goto("batchCounts")
       ELSE FailChunk(cache.err)
  /\ NoIssue
  /\ UNCHANGED <<run, rows, seg, cache, cur, totals, faults>>

\* One statement counts the failing rows of every slot of the chunk.
CountBatch ==
  /\ phase = "batchCounts"
  /\ \E err \in Outcomes(TRUE) :
       /\ Issue(TRUE)
       /\ Blame(err, Chunk)
       /\ IF err = "none"
            THEN /\ batch' = [batch EXCEPT
                                !.at = batch.from,
                                !.counts = [k \in 1..NumSlots |->
                                              Measured(Exp(k), seg, rows)]]
                 /\ Goto("batchSlot")
            ELSE FailChunk(err)
  /\ UNCHANGED <<run, rows, seg, cache, cur, totals>>

\* Fault: results skip their policy.
UndecoratedBatch(r) == [batch EXCEPT !.res[batch.at] = r]

NextFrom == batch.to + 1
DecoratedBatch(r) == [batch EXCEPT !.res[batch.at] = Tolerate(Exp(batch.at), r)]

\* Fault: a last chunk of a single slot is taken for the end of the batch.
AdvanceBeforeLast(r) ==
  LET b == DecoratedBatch(r)
  IN IF batch.at < batch.to
       THEN batch' = [b EXCEPT !.at = batch.at + 1] /\ Goto("batchSlot")
     ELSE IF batch.to + 1 < batch.hi
       THEN /\ batch' = [b EXCEPT !.from = NextFrom,
                                  !.to = ChunkEnd(NextFrom, batch.hi)]
            /\ Goto("batchTotal")
     ELSE batch' = b /\ Goto("slot")

\* Slot batch.at is finished with r: on to the next slot, chunk or out.
Advance(r) ==
  LET b == DecoratedBatch(r)
  IN IF batch.at < batch.to
       THEN batch' = [b EXCEPT !.at = batch.at + 1] /\ Goto("batchSlot")
     ELSE IF batch.to < batch.hi
       THEN /\ batch' = [b EXCEPT !.from = NextFrom,
                                  !.to = ChunkEnd(NextFrom, batch.hi)]
            /\ Goto("batchTotal")
     ELSE batch' = b /\ Goto("slot")

\* Faults: the diagnostic error is dropped; the batch goes on after it.
DropBatchSlotError(r, err) ==
  IF err = "observer" \/ ~run.continueOnError
    THEN batch' = [batch EXCEPT !.err = err] /\ Goto("slot")
    ELSE Advance(r)
ContinueBatch(r, err) ==
  IF err = "observer"
    THEN batch' = [batch EXCEPT !.err = err] /\ Goto("slot")
    ELSE Advance([r EXCEPT !.err = err, !.success = FALSE])

\* A diagnostic statement of slot batch.at failed with err, its result being r.
FailBatchSlot(r, err) ==
  LET failed == [r EXCEPT !.err = err, !.success = FALSE]
  IN IF err = "observer"
       THEN batch' = [batch EXCEPT !.err = err] /\ Goto("slot")
     ELSE IF ~run.continueOnError
       THEN batch' = [DecoratedBatch(failed) EXCEPT !.err = err] /\ Goto("slot")
     ELSE Advance(failed)

\* The count of slot batch.at becomes its result.
MeasureBatchSlot ==
  /\ phase = "batchSlot"
  /\ LET e == Exp(batch.at)
         r == Observe(e, [Blank(seg, batch.at) EXCEPT !.total = batch.total],
                      batch.counts[batch.at])
     IN /\ cur' = r
        /\ IF WantsSamples(e, r) THEN UNCHANGED batch /\ Goto("batchSamples")
           ELSE IF WantsKeys(e, r) THEN UNCHANGED batch /\ Goto("batchKeys")
           ELSE Advance(r)
  /\ NoIssue
  /\ UNCHANGED <<run, rows, seg, cache, totals, faults>>

BatchSamples ==
  /\ phase = "batchSamples"
  /\ LET e == Exp(batch.at)
         n == Cardinality(Failing(e, seg, rows))
         r == [cur EXCEPT !.samples = Capped(run.sampleCap, n)]
     IN \E err \in Outcomes(TRUE) :
          /\ Issue(TRUE)
          /\ Blame(err, {batch.at})
          /\ cur' = IF err = "none" THEN r ELSE cur
          /\ IF err # "none" THEN FailBatchSlot(cur, err)
             ELSE IF WantsKeys(e, r) THEN UNCHANGED batch /\ Goto("batchKeys")
             ELSE Advance(r)
  /\ UNCHANGED <<run, rows, seg, cache, totals>>

BatchKeys ==
  /\ phase = "batchKeys"
  /\ LET n == Cardinality(Failing(Exp(batch.at), seg, rows))
         r == [cur EXCEPT !.keys = Capped(run.failedKeysCap, n)]
     IN \E err \in Outcomes(TRUE) :
          /\ Issue(TRUE)
          /\ Blame(err, {batch.at})
          /\ IF err # "none" THEN FailBatchSlot(cur, err) ELSE Advance(r)
  /\ UNCHANGED <<run, rows, seg, cache, cur, totals>>

\* An evaluated batch hands its slots to the report one by one; the batch
\* error lands on every slot that has none of its own.
TakeFromBatch ==
  /\ phase = "slot" /\ slot <= NumSlots
  /\ InBatch(slot) /\ slot <= batch.hi
  /\ LET r == batch.res[slot]
         err == IF r.err # "none" THEN r.err ELSE batch.err
     IN IF batch.err = "observer" \/ Aborts(err)
          THEN Abort
          ELSE Publish(WithError(r, err))
  /\ UNCHANGED <<run, rows, seg, cache, cur, batch, issued, events, totals, faults>>

-----------------------------------------------------------------------------
\* Fault: the loop over the segments runs once too often.
PastLastSegment == seg > NumSegments
LastSegment == seg >= NumSegments

\* The next segment starts with a fresh cache and no batches; after the last
\* one the report is returned.
EndSegment ==
  /\ phase = "slot" /\ slot > NumSlots
  /\ IF ~LastSegment
       THEN /\ seg' = seg + 1
            /\ slot' = 1
            /\ cache' = SegmentCache
            /\ batch' = [NoBatch EXCEPT
                           !.res = [k \in 1..NumSlots |-> Blank(seg + 1, k)]]
            /\ totals' = 0
            /\ UNCHANGED phase
       ELSE /\ phase' = "report"
            /\ UNCHANGED <<seg, slot, cache, batch, totals>>
  /\ UNCHANGED <<run, rows, cur, results, issued, events, faults>>

\* ValidateTable has returned; only other sessions still act.
Returned ==
  /\ phase \in {"report", "error"}
  /\ UNCHANGED vars

\* Another session inserts or deletes a row; a snapshot does not see it.
Write ==
  /\ ~run.snapshot
  /\ \E r \in Rows : rows' = IF r \in rows THEN rows \ {r} ELSE rows \cup {r}
  /\ UNCHANGED <<run, phase, seg, slot, cache, cur, batch, results,
                 issued, events, totals, faults>>

\* The steps of the call itself.
Step ==
  \/ Preflight \/ RecordIssue
  \/ BeginSlot \/ LoadTotal \/ UseCachedTotal \/ Measure \/ Samples \/ Keys
  \/ BeginBatch \/ LoadBatchTotal \/ UseBatchTotal \/ CountBatch
  \/ MeasureBatchSlot \/ BatchSamples \/ BatchKeys \/ TakeFromBatch
  \/ EndSegment

Next == Step \/ Returned \/ Write

Spec == Init /\ [][Next]_vars

\* The call runs on one goroutine and every statement it issues returns; the
\* other sessions owe it nothing.
FairSpec == Spec /\ WF_vars(Step)

-----------------------------------------------------------------------------
(* Properties.                                                             *)

Result ==
  [seg: 1..NumSegments, slot: Nat, err: Errors, measured: BOOLEAN,
   total: Nat, count: Nat, samples: Nat, keys: Nat,
   success: BOOLEAN, tolerated: BOOLEAN]

Cache == [loaded: BOOLEAN, total: Nat, err: Errors]

Batch ==
  [hi: Nat, from: Nat, to: Nat, at: Nat, total: Nat, err: Errors,
   counts: [1..NumSlots -> Nat], res: [1..NumSlots -> Result]]

\* Every variable holds a value of its type.
TypeOK ==
  /\ run \in Runs
  /\ rows \in SUBSET Rows
  /\ phase \in Phases
  /\ seg \in 1..NumSegments
  /\ slot \in 1..(NumSlots + 1)
  /\ cache \in Cache
  /\ cur \in Result
  /\ batch \in Batch
  /\ results \in Seq(Result)
  /\ issued \in Nat /\ events \in Nat /\ totals \in Nat
  /\ faults \in SUBSET ((1..NumSegments) \X Nat)

\* Results published so far, as a set.
Published == {results[k] : k \in DOMAIN results}

UsesSegmentTotal(i) == UsesTotal(Exp(i)) /\ CachesTotal(Exp(i))

\* A statement slot r depends on failed: its own, its chunk's or the total
\* its segment shares.
OwnFault(r) ==
  \/ <<r.seg, r.slot>> \in faults
  \/ UsesSegmentTotal(r.slot) /\ <<r.seg, 0>> \in faults

\* With ContinueOnError a slot carries an execution error exactly when a
\* statement it depends on failed: a shared statement's error reaches "every
\* slot in the failing chunk" (shared_scalar.go:133) and no other, and no
\* failure is lost on the way to the report.
ErrorsAreAttributed ==
  \A r \in Published :
    r.err \in {"none", "exec"} => (r.err = "exec" <=> OwnFault(r))

\* What the code guarantees when a batch needs several chunks: an error never
\* leaves the contiguous batch whose statement failed, and is never lost.
ErrorsStayInBatch ==
  \A r \in Published :
    /\ r.err = "none" => ~OwnFault(r)
    /\ r.err = "exec" =>
         \/ OwnFault(r)
         \/ \E i \in 1..NumSlots :
              /\ <<r.seg, i>> \in faults
              /\ InBatch(r.slot)
              /\ \A k \in i..r.slot \cup r.slot..i : Shareable(k)

\* A result that holds an error neither passes nor is marked tolerated
\* (report.go:394 "[errors] are never tolerated"): the error may arrive after
\* the policy was applied.
ErrorsAreNeverTolerated ==
  \A r \in Published : r.err # "none" => ~r.success /\ ~r.tolerated

\* A result that holds an error never passes.
ErrorsNeverPass == \A r \in Published : r.err # "none" => ~r.success

\* An error-free row-based result passes exactly when it is clean, within its
\* allowance, or evaluated an empty population, on whichever path it was
\* evaluated, and is tolerated only when nonzero failures passed.
VerdictFollowsPolicy ==
  \A r \in Published :
    LET e == Exp(r.slot)
    IN (r.err = "none" /\ HasRowDenominator(e)) =>
         /\ r.success <=>
              \/ r.count = 0
              \/ e.tolerance = "count" /\ r.count <= e.bound
              \/ e.tolerance = "percent" /\ r.count * 100 <= e.bound * r.total
              \/ e.tolerance = "percent" /\ r.total = 0
         /\ r.tolerated => r.success /\ r.count > 0 /\ e.tolerance # "none"
         /\ (r.success /\ r.count > 0) => r.tolerated \/ r.total = 0

\* Within one view of the table every error-free result is what evaluating
\* its expectation alone on that view gives: sharing a statement, caching the
\* total and running segments after one another change no figure.
ReportMatchesSnapshot ==
  run.snapshot =>
    \A r \in Published :
      LET e == Exp(r.slot)
          n == Measured(e, r.seg, rows)
      IN r.err = "none" =>
           /\ r.count = n
           /\ UsesTotal(e) => r.total = Cardinality(Population(e, r.seg, rows))
           /\ r.samples = IF HasRowDenominator(e) /\ run.sampleCap > 0
                            THEN Capped(run.sampleCap, n) ELSE 0
           /\ r.keys = IF HasRowDenominator(e) /\ run.keyed
                         THEN Capped(run.failedKeysCap, n) ELSE 0

\* Even while other sessions write, the results of one segment that share the
\* scoped total report one denominator.
SameDenominator ==
  \A r1, r2 \in Published :
    /\ r1.seg = r2.seg
    /\ r1.err = "none" /\ r2.err = "none"
    /\ UsesSegmentTotal(r1.slot) /\ UsesSegmentTotal(r2.slot)
    => r1.total = r2.total

\* Per-row checks share one population COUNT(*) per segment
\* (docs/concepts/operations.md), even when it fails.
OneTotalPerSegment == totals <= 1

\* Without ContinueOnError nothing is sent to the database once a statement
\* has failed (suite.go:173 "the first ... error aborts").
FailFast ==
  [][~run.continueOnError /\ faults # {} => issued' = issued]_vars

\* The observer is told of every attempted statement
\* (docs/concepts/operations.md:42 "once for each attempted statement").
EveryStatementObserved == run.observed => events = issued

\* Every call returns.
Termination == <>(phase \in {"report", "error"})

\* A call that records errors and has no observer returns a report, however
\* many of its statements fail.
ReportsDespiteErrors ==
  (run.continueOnError /\ ~run.observed) ~> (phase = "report")

Outcome == IF phase \in {"report", "error"} THEN phase ELSE "running"

VerdictOf(r) ==
  IF r.err # "none" THEN "error" ELSE IF r.success THEN "pass" ELSE "fail"

CallOf(c) ==
  [slots |-> Len(c.suite), records |-> c.continueOnError, observed |-> c.observed]

Contract == INSTANCE RunContract WITH
  Calls <- {CallOf(c) : c \in Runs},
  call <- CallOf(run),
  published <- [k \in DOMAIN results |->
                  [seg |-> results[k].seg, slot |-> results[k].slot,
                   verdict |-> VerdictOf(results[k])]],
  outcome <- Outcome

\* The call keeps the contract: order, completeness, errors only where they
\* may be recorded, all or nothing.
RefinesContract == Contract!ContractSpec
=============================================================================
