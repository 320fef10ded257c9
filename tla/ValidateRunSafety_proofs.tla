----------------------- MODULE ValidateRunSafety_proofs -----------------------
(***************************************************************************)
(* How the call handles errors, verdicts and its shared total: the         *)
(* population count is loaded at most once per segment, an error never     *)
(* passes, without ContinueOnError the first failed statement is the last  *)
(* one, the report keeps the contract of RunContract, the verdicts follow  *)
(* the tolerance policies, and an error stays in the contiguous batch      *)
(* whose statement failed.  Of calls whose suites fit one chunk, and of    *)
(* those whose statements all report to the observer, more is proved.      *)
(***************************************************************************)
EXTENDS ValidateRun_proofs

-----------------------------------------------------------------------------
(* One population count per segment.                                       *)

\* The statement has been issued exactly when the cache remembers it.
TotalsInv == totals = IF cache.loaded THEN 1 ELSE 0

\* The cache is loaded once, and remembers a failure as well as a count.
LEMMA TotalsStep == TotalsInv /\ [Next]_vars => TotalsInv'
<1> SUFFICES ASSUME TotalsInv, [Next]_vars PROVE TotalsInv'
  OBVIOUS
<1>1. CASE LoadTotal
  BY <1>1 DEF LoadTotal, Loaded, TotalsInv
<1>2. CASE LoadBatchTotal
  BY <1>2 DEF LoadBatchTotal, Loaded, TotalsInv
<1>3. CASE EndSegment
  BY <1>3 DEF EndSegment, SegmentCache, EmptyCache, TotalsInv
<1>4. CASE UNCHANGED <<totals, cache>>
  BY <1>4 DEF TotalsInv
<1> QED
  BY <1>1, <1>2, <1>3, <1>4
  DEF Next, Step, Returned, vars, Preflight, RecordIssue, BeginSlot, UseCachedTotal,
      Measure, Samples, Keys, BeginBatch, UseBatchTotal, CountBatch,
      MeasureBatchSlot, BatchSamples, BatchKeys, TakeFromBatch, Write

\* Per-row checks share one population COUNT(*) per segment, even when it fails.
THEOREM TotalLoadedOnce == Spec => []OneTotalPerSegment
<1>1. Init => TotalsInv
  BY DEF Init, EmptyCache, TotalsInv
<1>2. TotalsInv => OneTotalPerSegment
  BY DEF TotalsInv, OneTotalPerSegment
<1> QED
  BY <1>1, <1>2, TotalsStep, PTL DEF Spec

-----------------------------------------------------------------------------
(* Errors never pass.                                                      *)

\* A step publishes nothing, everything the call aborted with being dropped, or
\* one result that passes only without an error.
LEMMA PublishedStep ==
  ASSUME TypeInv, [Next]_vars
  PROVE  \/ results' = results
         \/ results' = <<>>
         \/ \E r : /\ r.err # "none" => ~r.success
                   /\ results' = Append(results, r)
<1>1. ASSUME NEW r \in Result, NEW err \in Errors
      PROVE  WithError(r, err).err # "none" => ~WithError(r, err).success
  BY DEF WithError, Result
<1>2. ASSUME NEW r \in Result, NEW err \in Errors, slot \in 1..NumSlots, Settle(r, err)
      PROVE  \/ results' = <<>>
             \/ \E q : /\ q.err # "none" => ~q.success
                       /\ results' = Append(results, q)
  <2>1. Decorated(Exp(slot), r, err) \in Result
    BY <1>2, RunTyped, DecoratedTyped DEF TypeInv, TypeOK
  <2> QED
    BY <1>1, <1>2, <2>1 DEF Settle, Abort, Publish
<1>3. CASE RecordIssue
  <2> DEFINE r == [Blank(seg, slot) EXCEPT !.err = "config"]
  <2>1. ~r.success /\ results' = Append(results, r)
    BY <1>3 DEF RecordIssue, Publish, Blank
  <2> QED
    BY <2>1
<1>4. CASE BeginSlot
  BY <1>2, <1>4, RunTyped, BlankTyped
  DEF BeginSlot, Goto, Errors, TypeInv, TypeOK
<1>5. CASE LoadTotal
  <2>1. phase \in SlotPhases /\ TypeOK
    BY <1>5 DEF LoadTotal, SlotPhases, TypeInv
  <2> QED
    BY <1>2, <1>5, <2>1, SlotFacts DEF LoadTotal, Goto, Outcomes, Errors
<1>6. CASE UseCachedTotal
  <2>1. phase \in SlotPhases
    BY <1>6 DEF UseCachedTotal, SlotPhases
  <2> QED
    BY <1>2, <1>6, <2>1, SlotFacts DEF UseCachedTotal, Goto, Cache
<1>7. CASE Measure
  <2> DEFINE e == Exp(slot)
             r == Observe(e, cur, Measured(e, seg, rows))
  <2>1. phase \in SlotPhases
    BY <1>7 DEF Measure, SlotPhases
  <2>2. r \in Result /\ Blank(seg, slot) \in Result
    BY <2>1, SlotFacts, CountsAreNat, ObserveTyped, BlankTyped
  <2> HIDE DEF r
  <2>3. PICK err \in Outcomes(EmitsEvent(e)) :
          \/ Settle(Blank(seg, slot), err)
          \/ results' = results
          \/ Settle(r, "none")
    BY <1>7 DEF Measure, Goto, r
  <2>4. err \in Errors /\ "none" \in Errors
    BY DEF Outcomes, Errors
  <2> QED
    BY <1>2, <2>1, <2>2, <2>3, <2>4, SlotFacts
<1>8. CASE Samples
  <2> DEFINE e == Exp(slot)
             n == Capped(run.sampleCap, Cardinality(Failing(e, seg, rows)))
             r == [cur EXCEPT !.samples = n]
  <2>1. phase \in SlotPhases
    BY <1>8 DEF Samples, SlotPhases
  <2>2. n \in Nat
    BY <2>1, SlotFacts, CountsAreNat, CappedTyped DEF Run
  <2>3. r \in Result
    BY <2>1, <2>2, SlotFacts DEF Result
  <2> HIDE DEF r
  <2>4. PICK err \in Outcomes(TRUE) :
          Settle(cur, err) \/ results' = results \/ Settle(r, "none")
    BY <1>8 DEF Samples, Goto, r
  <2>5. err \in Errors /\ "none" \in Errors
    BY DEF Outcomes, Errors
  <2> QED
    BY <1>2, <2>1, <2>3, <2>4, <2>5, SlotFacts
<1>9. CASE Keys
  <2> DEFINE n == Capped(run.failedKeysCap, Cardinality(Failing(Exp(slot), seg, rows)))
             r == [cur EXCEPT !.keys = n]
  <2>1. phase \in SlotPhases
    BY <1>9 DEF Keys, SlotPhases
  <2>2. n \in Nat
    BY <2>1, SlotFacts, CountsAreNat, CappedTyped DEF Run
  <2>3. r \in Result
    BY <2>1, <2>2, SlotFacts DEF Result
  <2> HIDE DEF r
  <2>4. PICK err \in Outcomes(TRUE) : Settle(r, err) \/ Settle(cur, err)
    BY <1>9 DEF Keys, r
  <2>5. err \in Errors
    BY DEF Outcomes, Errors
  <2> QED
    BY <1>2, <2>1, <2>3, <2>4, <2>5, SlotFacts
<1>10. CASE TakeFromBatch
  <2>1. /\ slot \in 1..NumSlots /\ batch.res[slot] \in Result /\ batch.err \in Errors
        /\ batch.res[slot].err \in Errors
    <3>1. slot \in 1..NumSlots
      BY <1>10, RunTyped DEF TakeFromBatch, TypeInv, TypeOK
    <3>2. batch.err \in Errors /\ batch.res \in [1..NumSlots -> Result]
      BY DEF TypeInv, TypeOK, Batch
    <3>3. batch.res[slot] \in Result
      BY <3>1, <3>2
    <3> QED
      BY <3>1, <3>2, <3>3 DEF Result
  <2>2. PICK r \in Result : r = batch.res[slot]
    BY <2>1
  <2>3. PICK err \in Errors : err = IF r.err # "none" THEN r.err ELSE batch.err
    BY <2>1, <2>2
  <2>4. Abort \/ Publish(WithError(r, err))
    BY <1>10, <2>2, <2>3 DEF TakeFromBatch
  <2> QED
    BY <1>1, <2>4 DEF Abort, Publish
<1>11. CASE UNCHANGED results
  BY <1>11
<1> QED
  BY <1>3, <1>4, <1>5, <1>6, <1>7, <1>8, <1>9, <1>10, <1>11
  DEF Next, Step, Returned, vars, Preflight, BeginBatch, LoadBatchTotal, UseBatchTotal,
      CountBatch, FailChunk, MeasureBatchSlot, BatchSamples, BatchKeys, FailBatchSlot,
      Advance, EndSegment, Write, Goto

\* A result that holds an error never passes, whichever of its statements, its
\* chunk or its segment raised it.
THEOREM ErrorsFail == Spec => []ErrorsNeverPass
<1>1. Init => TypeInv /\ ErrorsNeverPass
  BY InitTyped DEF Init, ErrorsNeverPass, Published
<1>2. TypeInv /\ ErrorsNeverPass /\ [Next]_vars => TypeInv' /\ ErrorsNeverPass'
  <2> SUFFICES ASSUME TypeInv, ErrorsNeverPass, [Next]_vars PROVE ErrorsNeverPass'
    BY NextTyped
  <2>1. CASE results' = results
    BY <2>1 DEF ErrorsNeverPass, Published
  <2>2. CASE results' = <<>>
    BY <2>2 DEF ErrorsNeverPass, Published
  <2>3. ASSUME NEW r, r.err # "none" => ~r.success, results' = Append(results, r)
        PROVE  ErrorsNeverPass'
    <3>1. results \in Seq(Result)
      BY DEF TypeInv, TypeOK
    <3>2. /\ DOMAIN results' = 1..(Len(results) + 1) /\ Len(results) \in Nat
          /\ \A k \in 1..Len(results) : results'[k] = results[k]
          /\ results'[Len(results) + 1] = r /\ DOMAIN results = 1..Len(results)
      BY <2>3, <3>1
    <3> QED
      BY <2>3, <3>2 DEF ErrorsNeverPass, Published
  <2> QED
    BY <2>1, <2>2, <2>3, PublishedStep
<1> QED
  BY <1>1, <1>2, PTL DEF Spec

-----------------------------------------------------------------------------
(* Fail fast.                                                              *)

\* The call is over, or is about to meet the error of the batch it is taking
\* slots from.
Stopped ==
  \/ phase = "error"
  \/ phase = "slot" /\ batch.err # "none" /\ InBatch(slot) /\ slot <= batch.hi

FaultStops == ~run.continueOnError /\ faults # {} => Stopped

\* A stopped call sends no statement.
LEMMA StoppedStep ==
  ASSUME SoundInv, Stopped, ~run.continueOnError, [Next]_vars
  PROVE  Stopped' /\ issued' = issued /\ run' = run
<1>1. CASE UNCHANGED <<run, phase, slot, batch, issued>>
  <2>1. InBatch(slot)' = InBatch(slot)
    BY <1>1 DEF InBatch, Shareable, Exp, NumSlots
  <2> QED
    BY <1>1, <2>1 DEF Stopped
<1>2. CASE TakeFromBatch
  <2>1. phase = "slot" /\ batch.err # "none"
    BY <1>2 DEF Stopped, TakeFromBatch
  <2>2. Abort
    BY <1>2, <2>1 DEF TakeFromBatch, Aborts
  <2> QED
    BY <1>2, <2>2 DEF Abort, TakeFromBatch, Stopped
<1>3. CASE phase = "slot" /\ InBatch(slot) /\ slot <= batch.hi /\ Step /\ ~TakeFromBatch
  <2>1. slot \in 1..NumSlots /\ NumSlots \in Nat /\ ~Exp(slot).issue /\ batch.hi \in Nat
    BY <1>3, RunTyped DEF InBatch, Shareable, SoundInv, TypeInv, TypeOK, Batch
  <2>2. ~RecordIssue /\ ~BeginSlot
    BY <1>3, <2>1 DEF RecordIssue, BeginSlot
  <2>3. ~(slot > batch.hi) /\ ~(slot > NumSlots)
    BY <1>3, <2>1
  <2>4. ~BeginBatch /\ ~EndSegment
    BY <2>3 DEF BeginBatch, EndSegment
  <2> QED
    BY <1>3, <2>2, <2>4
    DEF Step, Preflight, LoadTotal, UseCachedTotal, Measure, Samples, Keys,
        LoadBatchTotal, UseBatchTotal, CountBatch, MeasureBatchSlot, BatchSamples,
        BatchKeys
<1>4. CASE phase = "error" /\ Step
  BY <1>4
  DEF Step, Preflight, RecordIssue, BeginSlot, LoadTotal, UseCachedTotal, Measure,
      Samples, Keys, BeginBatch, LoadBatchTotal, UseBatchTotal, CountBatch,
      MeasureBatchSlot, BatchSamples, BatchKeys, TakeFromBatch, EndSegment
<1> QED
  BY <1>1, <1>2, <1>3, <1>4 DEF Next, Returned, Write, vars, Stopped

\* A batch under evaluation has slots left to meet its error.
LEMMA BatchWaits ==
  ASSUME SoundInv, phase \in BatchPhases
  PROVE  InBatch(slot) /\ slot <= batch.hi
<1>1. slot \in slot..batch.hi
  BY RunTyped DEF SoundInv, TypeInv, TypeOK, Control, Batch
<1> QED
  BY <1>1 DEF SoundInv, Sound, BatchCovers

\* A batch whose error is recorded stops a call that does not continue.
LEMMA BatchErrorStops ==
  ASSUME SoundInv, phase \in BatchPhases, UNCHANGED run, phase' = "slot",
         slot' = slot, batch'.hi = batch.hi, batch'.err = "exec"
  PROVE  Stopped'
<1>1. InBatch(slot)' = InBatch(slot)
  BY DEF InBatch, Shareable, Exp, NumSlots
<1> QED
  BY <1>1, BatchWaits DEF Stopped

\* A failed statement stops a call that does not continue.
LEMMA FaultStopsStep == SoundInv /\ FaultStops /\ [Next]_vars => FaultStops'
<1> SUFFICES ASSUME SoundInv, FaultStops, [Next]_vars, ~run.continueOnError,
                    faults' # {}
             PROVE  Stopped'
  BY StoppedStep DEF FaultStops, Next, Step, Returned, vars, Preflight, RecordIssue,
      BeginSlot, LoadTotal, UseCachedTotal, Measure, Samples, Keys, BeginBatch,
      LoadBatchTotal, UseBatchTotal, CountBatch, MeasureBatchSlot, BatchSamples,
      BatchKeys, TakeFromBatch, EndSegment, Write
<1>1. CASE faults # {}
  BY <1>1, StoppedStep DEF FaultStops
<1>2. CASE faults = {}
  <2>1. faults' # faults /\ TypeInv /\ TypeOK
    BY <1>2 DEF SoundInv, TypeInv
  <2>2. \A r : Settle(r, "exec") => Stopped'
    BY DEF Settle, Aborts, Abort, Stopped
  <2>3. ASSUME phase \in BatchPhases, UNCHANGED run, FailChunk("exec")
        PROVE  Stopped'
    <3>1. batch'.err = "exec" /\ batch'.hi = batch.hi /\ phase' = "slot" /\ slot' = slot
      BY <2>1, <2>3 DEF FailChunk, Goto, TypeOK, Batch
    <3> QED
      BY <2>3, <3>1, BatchErrorStops
  <2>4. ASSUME phase \in AtPhases, UNCHANGED run, NEW r \in Result,
               FailBatchSlot(r, "exec")
        PROVE  Stopped'
    <3>1. phase' = "slot" /\ slot' = slot /\ phase \in BatchPhases
      BY <2>4 DEF FailBatchSlot, Goto, BatchPhases
    <3>2. batch'.err = "exec" /\ batch'.hi = batch.hi
      BY <2>1, <2>4 DEF FailBatchSlot, DecoratedBatch, TypeOK, Batch
    <3> QED
      BY <2>4, <3>1, <3>2, BatchErrorStops
  <2>5. CASE LoadTotal
    BY <2>1, <2>2, <2>5 DEF LoadTotal, Blame
  <2>6. CASE Measure
    BY <2>1, <2>2, <2>6 DEF Measure, Blame
  <2>7. CASE Samples
    BY <2>1, <2>2, <2>7 DEF Samples, Blame
  <2>8. CASE Keys
    BY <2>1, <2>2, <2>8 DEF Keys, Blame
  <2>9. CASE LoadBatchTotal
    BY <2>1, <2>3, <2>9 DEF LoadBatchTotal, Blame, BatchPhases
  <2>10. CASE CountBatch
    BY <2>1, <2>3, <2>10 DEF CountBatch, Blame, BatchPhases
  <2>11. CASE BatchSamples
    BY <2>1, <2>4, <2>11 DEF BatchSamples, Blame, AtPhases, TypeOK
  <2>12. CASE BatchKeys
    BY <2>1, <2>4, <2>12 DEF BatchKeys, Blame, AtPhases, TypeOK
  <2> QED
    BY <2>1, <2>5, <2>6, <2>7, <2>8, <2>9, <2>10, <2>11, <2>12
    DEF Next, Step, Returned, vars, Preflight, RecordIssue, BeginSlot, UseCachedTotal,
        BeginBatch, UseBatchTotal, MeasureBatchSlot, TakeFromBatch, EndSegment, Write
<1> QED
  BY <1>1, <1>2

\* Without ContinueOnError nothing is sent to the database once a statement has
\* failed.
THEOREM FirstFaultIsLast == Spec => FailFast
<1>1. Init => SoundInv /\ FaultStops
  BY InitTyped, InitSound DEF SoundInv, Init, FaultStops
<1>2. SoundInv /\ FaultStops /\ [Next]_vars => SoundInv' /\ FaultStops'
  BY NextSound, FaultStopsStep
<1>3. SoundInv /\ FaultStops /\ [Next]_vars =>
        [~run.continueOnError /\ faults # {} => issued' = issued]_vars
  BY StoppedStep DEF FaultStops
<1> QED
  BY <1>1, <1>2, <1>3, PTL DEF Spec, FailFast

-----------------------------------------------------------------------------
(* What is remembered while the report is built.                           *)

\* The statement err ended with may have been an observer's only if one is attached.
PanicSeen(err) == err = "observer" => run.observed

\* Every error remembered anywhere was raised by this call: an observer error
\* needs an observer.
PanicsSeen ==
  /\ PanicSeen(cache.err) /\ PanicSeen(batch.err)
  /\ \A k \in 1..NumSlots : PanicSeen(batch.res[k].err)

\* Past the gate, a call that does not record errors has no issues to record.
IssuesGone ==
  phase \notin {"start", "error"} /\ ~run.continueOnError =>
    \A i \in 1..NumSlots : ~Exp(i).issue

\* The slot to evaluate follows the last one published.
Position ==
  /\ phase = "start" => results = <<>> /\ seg = 1 /\ slot = 1
  /\ phase # "error" =>
       IF results = <<>> THEN slot = 1 /\ (seg = 1 \/ NumSlots = 0)
       ELSE LET last == results[Len(results)]
            IN \/ last.seg = seg /\ last.slot = slot - 1
               \/ last.seg = seg - 1 /\ last.slot = NumSlots /\ slot = 1

-----------------------------------------------------------------------------
(* The result under construction.                                          *)

\* r is a measured result no policy has touched yet.
Raw(e, r) ==
  /\ ~r.tolerated
  /\ HasRowDenominator(e) => r.measured /\ (r.success <=> r.count = 0)

\* No policy touches the result under construction.
CurRaw ==
  /\ phase \in {"total", "measure"} => ~cur.tolerated
  /\ phase \in {"samples", "keys"} => Raw(Exp(slot), cur)
  /\ phase \in {"batchSamples", "batchKeys"} => Raw(Exp(batch.at), cur)

\* A measurement leaves a result no policy has touched.
LEMMA ObserveRaw ==
  ASSUME NEW e \in Expectation, NEW r \in Result, NEW n \in Nat, ~r.tolerated
  PROVE  Raw(e, Observe(e, r, n))
<1>1. HasRowDenominator(e) => (RawVerdict(e, r.total, n) <=> n = 0)
  BY DEF HasRowDenominator, RawVerdict, UsesTotal
<1>2. RawVerdict(e, r.total, n) \in BOOLEAN
  BY DEF RawVerdict
<1> DEFINE v == RawVerdict(e, r.total, n)
<1> HIDE DEF v
<1>3. /\ ~Observe(e, r, n).tolerated /\ Observe(e, r, n).measured
      /\ Observe(e, r, n).count = n /\ Observe(e, r, n).success = v
  BY <1>2 DEF Observe, Result, v
<1> QED
  BY <1>1, <1>2, <1>3 DEF Raw, v

\* Adding samples or keys leaves the verdict alone.
LEMMA DiagnosticsRaw ==
  ASSUME NEW e, NEW r \in Result, NEW n \in Nat, Raw(e, r)
  PROVE  Raw(e, [r EXCEPT !.samples = n]) /\ Raw(e, [r EXCEPT !.keys = n])
BY DEF Raw, Result

\* No step touches the verdict of a result under construction.
LEMMA CurRawStep == TypeInv /\ CurRaw /\ [Next]_vars => CurRaw'
<1> SUFFICES ASSUME TypeInv, CurRaw, [Next]_vars PROVE CurRaw'
  OBVIOUS
<1>1. CASE BeginSlot
  <2>1. ~cur'.tolerated /\ phase' \notin {"samples", "keys", "batchSamples", "batchKeys"}
    BY <1>1 DEF BeginSlot, Blank, Settle, Publish, Abort, Goto
  <2> QED
    BY <2>1 DEF CurRaw
<1>2. CASE LoadTotal \/ UseCachedTotal
  <2>1. /\ phase' \notin {"total", "samples", "keys", "batchSamples", "batchKeys"}
        /\ phase' = "measure" => \E n : cur' = [cur EXCEPT !.total = n]
    BY <1>2 DEF LoadTotal, UseCachedTotal, Settle, Publish, Abort, Goto
  <2>2. cur \in Result /\ ~cur.tolerated
    BY <1>2 DEF LoadTotal, UseCachedTotal, CurRaw, TypeInv, TypeOK
  <2>3. \A n : ~[cur EXCEPT !.total = n].tolerated
    BY <2>2 DEF Result
  <2> QED
    BY <2>1, <2>3 DEF CurRaw
<1>3. CASE Measure
  <2> DEFINE e == Exp(slot)
             r == Observe(e, cur, Measured(e, seg, rows))
  <2>1. phase \in SlotPhases /\ phase = "measure"
    BY <1>3 DEF Measure, SlotPhases
  <2>2. Raw(e, r)
    BY <2>1, SlotFacts, CountsAreNat, ObserveRaw DEF CurRaw
  <2> HIDE DEF r
  <2>3. /\ phase' \notin {"total", "measure", "batchSamples", "batchKeys"}
        /\ phase' \in {"samples", "keys"} => cur' = r /\ Exp(slot)' = e
    BY <1>3 DEF Measure, Settle, Publish, Abort, Goto, r, Exp
  <2> QED
    BY <2>2, <2>3 DEF CurRaw
<1>4. CASE Samples
  <2> DEFINE n == Capped(run.sampleCap, Cardinality(Failing(Exp(slot), seg, rows)))
  <2>1. phase \in SlotPhases /\ phase = "samples"
    BY <1>4 DEF Samples, SlotPhases
  <2>2. n \in Nat
    BY <2>1, SlotFacts, CountsAreNat, CappedTyped DEF Run
  <2>3. Raw(Exp(slot), [cur EXCEPT !.samples = n])
    BY <2>1, <2>2, SlotFacts, DiagnosticsRaw DEF CurRaw
  <2> DEFINE r == [cur EXCEPT !.samples = n]
  <2> HIDE DEF r
  <2>4. /\ phase' \notin {"total", "measure", "samples", "batchSamples", "batchKeys"}
        /\ phase' = "keys" => cur' = r /\ Exp(slot)' = Exp(slot)
    BY <1>4 DEF Samples, Settle, Publish, Abort, Goto, r, Exp
  <2> QED
    BY <2>3, <2>4 DEF CurRaw, r
<1>5. CASE MeasureBatchSlot
  <2> DEFINE b == [Blank(seg, batch.at) EXCEPT !.total = batch.total]
             e == Exp(batch.at)
             r == Observe(e, b, batch.counts[batch.at])
  <2>1. phase \in AtPhases
    BY <1>5 DEF MeasureBatchSlot, AtPhases
  <2>2. b \in Result /\ ~b.tolerated /\ batch.counts[batch.at] \in Nat
    <3>1. batch.total \in Nat /\ batch.counts[batch.at] \in Nat
      BY <2>1, BatchFacts DEF Batch
    <3>2. Blank(seg, batch.at) \in Result /\ ~Blank(seg, batch.at).tolerated
      BY <2>1, BatchFacts, BlankTyped DEF Blank
    <3> QED
      BY <3>1, <3>2 DEF Result
  <2> HIDE DEF b
  <2>3. Raw(e, r)
    BY <2>1, <2>2, BatchFacts, ObserveRaw
  <2> HIDE DEF r
  <2>4. /\ phase' \notin {"total", "measure", "samples", "keys"}
        /\ phase' \in {"batchSamples", "batchKeys"} => cur' = r /\ Exp(batch.at)' = e
    BY <1>5 DEF MeasureBatchSlot, Advance, Goto, r, b, Exp
  <2> QED
    BY <2>3, <2>4 DEF CurRaw
<1>6. CASE BatchSamples
  <2> DEFINE n == Capped(run.sampleCap, Cardinality(Failing(Exp(batch.at), seg, rows)))
  <2>1. phase \in AtPhases /\ phase = "batchSamples"
    BY <1>6 DEF BatchSamples, AtPhases
  <2>2. n \in Nat
    BY <2>1, BatchFacts, CountsAreNat, CappedTyped DEF Run
  <2>3. Raw(Exp(batch.at), [cur EXCEPT !.samples = n])
    BY <2>1, <2>2, BatchFacts, DiagnosticsRaw DEF CurRaw
  <2> DEFINE r == [cur EXCEPT !.samples = n]
  <2> HIDE DEF r
  <2>4. /\ phase' \notin {"total", "measure", "samples", "keys", "batchSamples"}
        /\ phase' = "batchKeys" => cur' = r /\ Exp(batch.at)' = Exp(batch.at)
    BY <1>6 DEF BatchSamples, FailBatchSlot, Advance, Goto, r, Exp
  <2> QED
    BY <2>3, <2>4 DEF CurRaw, r
<1>7. CASE UNCHANGED <<run, phase, slot, cur, batch>>
  BY <1>7 DEF CurRaw, Exp
<1>8. CASE phase' \in {"slot", "report", "error", "batchTotal", "batchCounts", "batchSlot"}
  BY <1>8 DEF CurRaw
<1>9. CASE Preflight \/ RecordIssue \/ Keys \/ BeginBatch \/ LoadBatchTotal
           \/ UseBatchTotal \/ CountBatch \/ BatchKeys \/ TakeFromBatch \/ EndSegment
  <2>1. phase' \in {"slot", "report", "error", "batchTotal", "batchCounts", "batchSlot"}
    BY <1>9
    DEF Preflight, RecordIssue, Keys, BeginBatch, LoadBatchTotal, UseBatchTotal,
        CountBatch, BatchKeys, TakeFromBatch, EndSegment, Goto, Publish, Abort,
        Settle, FailChunk, FailBatchSlot, Advance
  <2> QED
    BY <1>8, <2>1
<1> QED
  BY <1>1, <1>2, <1>3, <1>4, <1>5, <1>6, <1>7, <1>9
  DEF Next, Step, Returned, vars, Write

-----------------------------------------------------------------------------
\* Every error a statement ends with is one the call may see.
LEMMA OutcomeSeen ==
  ASSUME NEW emits \in BOOLEAN, NEW err \in Outcomes(emits)
  PROVE  err \in Errors /\ PanicSeen(err) /\ err \notin {"config", "render"}
BY DEF Outcomes, PanicSeen, Errors

\* What a finished sequential slot publishes names the slot and its error.
LEMMA SettleEffect ==
  ASSUME TypeInv, slot \in 1..NumSlots, NEW r \in Result, NEW err \in Errors,
         ~Aborts(err), Settle(r, err)
  PROVE  \E q \in Result :
           /\ q = WithError(Decorated(Exp(slot), r, err), err)
           /\ SameFigures(q, r) /\ q.err = err /\ Publish(q)
<1> DEFINE d == [r EXCEPT !.err = err]
           t == Tolerate(Exp(slot), d)
           q == WithError(t, err)
<1>1. d \in Result /\ SameFigures(d, r)
  BY DEF Result, SameFigures
<1>2. Exp(slot) \in Expectation
  BY RunTyped DEF TypeInv, TypeOK
<1>3. Publish(q) /\ q = WithError(Decorated(Exp(slot), r, err), err)
  BY DEF Settle, Decorated
<1> HIDE DEF d
<1>4. t \in Result /\ SameFigures(t, d)
  BY <1>1, <1>2, TolerateTyped, TolerateKeeps
<1> HIDE DEF t
<1>5. q \in Result /\ SameFigures(q, t) /\ q.err = err
  BY <1>4, WithErrorTyped, WithErrorKeeps
<1> HIDE DEF q
<1> QED
  BY <1>1, <1>3, <1>4, <1>5 DEF SameFigures

\* A step of a sequential slot goes on with the slot, or finishes it with the
\* error one of its statements ended with.
LEMMA SlotStep ==
  ASSUME SoundInv, PanicsSeen, CurRaw,
         BeginSlot \/ LoadTotal \/ UseCachedTotal \/ Measure \/ Samples \/ Keys
  PROVE  /\ slot \in 1..NumSlots /\ UNCHANGED <<run, seg, batch>>
         /\ phase \notin {"start", "report", "error"}
         /\ \/ \E p \in SlotPhases : Goto(p)
            \/ \E r \in Result, err \in Errors :
                 /\ Settle(r, err) /\ r.seg = seg /\ r.slot = slot /\ PanicSeen(err)
                 /\ ~r.tolerated
                 /\ err = "none" => Raw(Exp(slot), r)
<1> USE DEF SoundInv
<1> DEFINE e == Exp(slot)
<1>1. CASE BeginSlot
  <2>1. slot \in 1..NumSlots /\ slot \in Nat /\ seg \in 1..NumSegments
    BY <1>1, RunTyped DEF BeginSlot, TypeInv, TypeOK
  <2>2. Blank(seg, slot) \in Result /\ Blank(seg, slot).seg = seg
        /\ Blank(seg, slot).slot = slot /\ ~Blank(seg, slot).tolerated
    BY <2>1, BlankTyped DEF Blank
  <2>3. "render" \in Errors /\ PanicSeen("render")
    BY DEF Errors, PanicSeen
  <2>4. \/ Settle(Blank(seg, slot), "render")
        \/ Goto("total") \/ Goto("measure")
    BY <1>1 DEF BeginSlot
  <2> QED
    BY <1>1, <2>1, <2>2, <2>3, <2>4 DEF BeginSlot, SlotPhases
<1>2. ASSUME phase \in SlotPhases
      PROVE  /\ cur \in Result /\ cur.seg = seg /\ cur.slot = slot
             /\ slot \in 1..NumSlots /\ phase \notin {"start", "report", "error"}
             /\ slot \in Nat /\ seg \in 1..NumSegments /\ ~cur.tolerated
  BY <1>2, SlotFacts DEF Sound, CurFits, CurRaw, Raw, Begun, Counted, SlotPhases
<1>3. CASE LoadTotal
  <2>1. phase \in SlotPhases
    BY <1>3 DEF LoadTotal, SlotPhases
  <2>2. PICK err \in Outcomes(TRUE) : Goto("measure") \/ (err # "none" /\ Settle(cur, err))
    BY <1>3 DEF LoadTotal
  <2> QED
    BY <1>2, <1>3, <2>1, <2>2, OutcomeSeen DEF LoadTotal, SlotPhases
<1>4. CASE UseCachedTotal
  <2>1. phase \in SlotPhases
    BY <1>4 DEF UseCachedTotal, SlotPhases
  <2>2. Goto("measure") \/ (cache.err # "none" /\ Settle(cur, cache.err))
    BY <1>4 DEF UseCachedTotal
  <2>3. cache.err \in Errors /\ PanicSeen(cache.err)
    BY <2>1, SlotFacts DEF Cache, PanicsSeen
  <2> QED
    BY <1>2, <1>4, <2>1, <2>2, <2>3 DEF UseCachedTotal, SlotPhases
<1>5. CASE Measure
  <2> DEFINE r == Observe(e, cur, Measured(e, seg, rows))
  <2>1. phase \in SlotPhases
    BY <1>5 DEF Measure, SlotPhases
  <2>2. r \in Result /\ r.seg = seg /\ r.slot = slot /\ Raw(e, r) /\ ~r.tolerated
    <3>2. Raw(e, r)
      BY <1>5, <2>1, SlotFacts, CountsAreNat, ObserveRaw DEF Measure, CurRaw
    <3>1. r \in Result
      BY <2>1, SlotFacts, CountsAreNat, ObserveTyped
    <3> QED
      BY <1>2, <2>1, <3>1, <3>2 DEF Observe, Raw, Result
  <2>3. Blank(seg, slot) \in Result /\ Blank(seg, slot).seg = seg
        /\ Blank(seg, slot).slot = slot /\ ~Blank(seg, slot).tolerated
    BY <1>2, <2>1, BlankTyped DEF Blank
  <2> HIDE DEF r
  <2>4. PICK err \in Outcomes(EmitsEvent(e)) :
          \/ err # "none" /\ Settle(Blank(seg, slot), err)
          \/ Goto("samples") \/ Goto("keys")
          \/ Settle(r, "none")
    BY <1>5 DEF Measure, r
  <2>5. EmitsEvent(e) \in BOOLEAN
    BY DEF EmitsEvent
  <2>6. err \in Errors /\ PanicSeen(err) /\ "none" \in Errors /\ PanicSeen("none")
    BY <2>5, OutcomeSeen DEF Errors, PanicSeen
  <2> QED
    BY <1>2, <1>5, <2>1, <2>2, <2>3, <2>4, <2>6 DEF Measure, SlotPhases
<1>6. CASE Samples
  <2> DEFINE n == Capped(run.sampleCap, Cardinality(Failing(e, seg, rows)))
             r == [cur EXCEPT !.samples = n]
  <2>1. phase \in SlotPhases
    BY <1>6 DEF Samples, SlotPhases
  <2>2. n \in Nat
    BY <2>1, SlotFacts, CountsAreNat, CappedTyped DEF Run
  <2>3. r \in Result /\ r.seg = seg /\ r.slot = slot /\ Raw(e, r) /\ ~r.tolerated
    <3>1. cur \in Result /\ Raw(e, cur)
      BY <1>2, <1>6, <2>1 DEF Samples, CurRaw
    <3> QED
      BY <1>2, <2>1, <2>2, <3>1, DiagnosticsRaw DEF Raw, Result
  <2> HIDE DEF r
  <2>4. PICK err \in Outcomes(TRUE) :
          (err # "none" /\ Settle(cur, err)) \/ Goto("keys") \/ Settle(r, "none")
    BY <1>6 DEF Samples, r
  <2>5. err \in Errors /\ PanicSeen(err) /\ "none" \in Errors /\ PanicSeen("none")
    BY OutcomeSeen DEF Errors, PanicSeen
  <2> QED
    BY <1>2, <1>6, <2>1, <2>3, <2>4, <2>5 DEF Samples, SlotPhases
<1>7. CASE Keys
  <2> DEFINE n == Capped(run.failedKeysCap, Cardinality(Failing(e, seg, rows)))
             r == [cur EXCEPT !.keys = n]
  <2>1. phase \in SlotPhases
    BY <1>7 DEF Keys, SlotPhases
  <2>2. n \in Nat
    BY <2>1, SlotFacts, CountsAreNat, CappedTyped DEF Run
  <2>3. r \in Result /\ r.seg = seg /\ r.slot = slot /\ Raw(e, r) /\ ~r.tolerated
    <3>1. cur \in Result /\ Raw(e, cur)
      BY <1>2, <1>7, <2>1 DEF Keys, CurRaw
    <3> QED
      BY <1>2, <2>1, <2>2, <3>1, DiagnosticsRaw DEF Raw, Result
  <2> HIDE DEF r
  <2>4. PICK err \in Outcomes(TRUE) :
          Settle(r, err) \/ (err # "none" /\ Settle(cur, err))
    BY <1>7 DEF Keys, r
  <2> QED
    BY <1>2, <1>7, <2>1, <2>3, <2>4, OutcomeSeen DEF Keys, SlotPhases
<1> QED
  BY <1>1, <1>3, <1>4, <1>5, <1>6, <1>7

-----------------------------------------------------------------------------
(* A batch.                                                                *)

\* A slot of a batch is finished: its result is judged, the others stay, and
\* the cursor goes to the next slot, chunk or out of the batch.
LEMMA AdvanceEffect ==
  ASSUME TypeInv, phase \in AtPhases, NEW r \in Result, Advance(r)
  PROVE  /\ batch'.err = batch.err /\ batch'.hi = batch.hi
         /\ batch'.res = [batch.res EXCEPT ![batch.at] = Tolerate(Exp(batch.at), r)]
         /\ \/ phase' = "batchSlot" /\ batch'.at = batch.at + 1
            \/ phase' = "batchTotal" /\ batch'.from = batch.at + 1
            \/ phase' = "slot" /\ batch.at = batch.hi
<1> DEFINE t == Tolerate(Exp(batch.at), r)
           b == DecoratedBatch(r)
           res == [batch.res EXCEPT ![batch.at] = t]
<1>1. /\ batch \in Batch /\ batch.at \in batch.from..batch.to
      /\ batch.to <= batch.hi
      /\ batch.at \in Nat /\ batch.to \in Nat /\ batch.hi \in Nat /\ batch.from \in Nat
  BY DEF TypeInv, TypeOK, Control, BatchPhases, AtPhases, Batch
<1>2. b = [batch EXCEPT !.res = res]
  BY DEF DecoratedBatch
<1> HIDE DEF b, t
<1>3. CASE batch.at < batch.to
  BY <1>1, <1>2, <1>3 DEF Advance, Goto, Batch, b, t
<1>4. CASE ~(batch.at < batch.to) /\ batch.to < batch.hi
  <2>1. batch' = [b EXCEPT !.from = NextFrom, !.to = ChunkEnd(NextFrom, batch.hi)]
        /\ phase' = "batchTotal"
    BY <1>4 DEF Advance, Goto, b
  <2>2. batch.to = batch.at
    BY <1>1, <1>4
  <2> QED
    BY <1>1, <1>2, <2>1, <2>2 DEF Batch, NextFrom, t
<1>5. CASE ~(batch.at < batch.to) /\ ~(batch.to < batch.hi)
  BY <1>1, <1>2, <1>5 DEF Advance, Goto, Batch, b, t
<1> QED
  BY <1>3, <1>4, <1>5

\* A chunk-level error lands on the batch and on the slots of the chunk.
LEMMA FailChunkEffect ==
  ASSUME TypeOK, NEW err \in Errors, FailChunk(err)
  PROVE  /\ phase' = "slot" /\ slot' = slot /\ results' = results
         /\ batch'.err = err /\ batch'.hi = batch.hi
         /\ \A k \in 1..NumSlots :
              batch'.res[k] = IF k \in Chunk THEN [batch.res[k] EXCEPT !.err = err]
                              ELSE batch.res[k]
BY DEF FailChunk, Goto, TypeOK, Batch

\* A failed diagnostic statement stops the batch with its error, or is recorded
\* in the slot when errors are.
LEMMA FailBatchSlotEffect ==
  ASSUME TypeInv, phase \in AtPhases, NEW r \in Result, NEW err \in Errors,
         FailBatchSlot(r, err)
  PROVE  LET failed == [r EXCEPT !.err = err, !.success = FALSE]
         IN /\ failed \in Result
            /\ \/ /\ phase' = "slot" /\ slot' = slot /\ results' = results
                  /\ batch'.err = err /\ batch'.hi = batch.hi
                  /\ \/ err = "observer" /\ batch'.res = batch.res
                     \/ batch'.res = [batch.res EXCEPT
                                        ![batch.at] = Tolerate(Exp(batch.at), failed)]
               \/ Advance(failed)
<1> DEFINE failed == [r EXCEPT !.err = err, !.success = FALSE]
           t == Tolerate(Exp(batch.at), failed)
           res == [batch.res EXCEPT ![batch.at] = t]
<1>1. failed \in Result
  BY DEF Result
<1>2. batch \in Batch
  BY DEF TypeInv, TypeOK
<1>3. DecoratedBatch(failed) = [batch EXCEPT !.res = res]
  BY DEF DecoratedBatch
<1> HIDE DEF t
<1>4. CASE err = "observer"
  BY <1>1, <1>2, <1>4 DEF FailBatchSlot, Goto, Batch
<1>5. CASE err # "observer" /\ ~run.continueOnError
  <2>1. batch' = [[batch EXCEPT !.res = res] EXCEPT !.err = err] /\ Goto("slot")
    BY <1>3, <1>5 DEF FailBatchSlot
  <2>2. batch'.res = res /\ batch'.err = err /\ batch'.hi = batch.hi
    BY <1>2, <2>1 DEF Batch
  <2> QED
    BY <1>1, <2>1, <2>2 DEF Goto, t
<1>6. CASE err # "observer" /\ run.continueOnError
  BY <1>1, <1>6 DEF FailBatchSlot
<1> QED
  BY <1>4, <1>5, <1>6

\* A step of a batch reads its total, counts a chunk, fails it, goes on with a
\* slot, or finishes one.
LEMMA BatchStep ==
  ASSUME SoundInv, PanicsSeen, CurRaw,
         \/ LoadBatchTotal \/ UseBatchTotal \/ CountBatch
         \/ MeasureBatchSlot \/ BatchSamples \/ BatchKeys
  PROVE  /\ UNCHANGED <<run, seg, slot, results>>
         /\ \/ /\ phase = "batchTotal" /\ phase' = "batchCounts"
               /\ \E n \in Nat : batch' = [batch EXCEPT !.total = n]
            \/ /\ phase = "batchCounts" /\ phase' = "batchSlot"
               /\ batch'.at = batch.from /\ batch'.from = batch.from
               /\ batch'.hi = batch.hi /\ batch'.err = batch.err
               /\ batch'.res = batch.res
            \/ /\ phase \in {"batchTotal", "batchCounts"}
               /\ \E err \in Errors \ {"none"} : FailChunk(err) /\ PanicSeen(err)
            \/ phase \in AtPhases /\ phase' \in AtPhases /\ UNCHANGED batch
            \/ /\ phase \in AtPhases
               /\ \E r \in Result :
                    /\ r.seg = seg /\ r.slot = batch.at /\ r.err = "none"
                    /\ Raw(Exp(batch.at), r)
                    /\ \/ Advance(r)
                       \/ \E err \in Errors \ {"none"} :
                            FailBatchSlot(r, err) /\ PanicSeen(err)
<1> USE DEF SoundInv
<1>1. CASE LoadBatchTotal
  <2> DEFINE n == Cardinality(Population(Exp(batch.from), seg, rows))
  <2>1. PICK err \in Outcomes(TRUE) :
          \/ batch' = [batch EXCEPT !.total = n] /\ Goto("batchCounts")
          \/ err # "none" /\ FailChunk(err)
    BY <1>1 DEF LoadBatchTotal
  <2>2. n \in Nat
    <3>1. phase \in BatchPhases /\ phase \notin AtPhases
      BY <1>1 DEF LoadBatchTotal, BatchPhases, AtPhases
    <3>2. Exp(batch.from) \in Expectation
      BY <3>1, RunTyped DEF TypeInv, TypeOK, Control, Batch
    <3> QED
      BY <3>2, CountsAreNat DEF TypeInv, TypeOK
  <2> HIDE DEF n
  <2> QED
    BY <1>1, <2>1, <2>2, OutcomeSeen DEF LoadBatchTotal, FailChunk, Goto
<1>2. CASE UseBatchTotal
  <2>1. cache.total \in Nat /\ cache.err \in Errors /\ PanicSeen(cache.err)
    BY DEF TypeInv, TypeOK, Cache, PanicsSeen
  <2> QED
    BY <1>2, <2>1 DEF UseBatchTotal, FailChunk, Goto
<1>3. CASE CountBatch
  <2> DEFINE counts == [k \in 1..NumSlots |-> Measured(Exp(k), seg, rows)]
  <2>1. PICK err \in Outcomes(TRUE) :
          \/ batch' = [batch EXCEPT !.at = batch.from, !.counts = counts]
             /\ Goto("batchSlot")
          \/ err # "none" /\ FailChunk(err)
    BY <1>3 DEF CountBatch
  <2> HIDE DEF counts
  <2>2. batch \in Batch
    BY DEF TypeInv, TypeOK
  <2> QED
    BY <1>3, <2>1, <2>2, OutcomeSeen DEF CountBatch, FailChunk, Goto, Batch
<1>4. ASSUME phase \in {"batchSamples", "batchKeys"}
      PROVE  /\ cur \in Result /\ cur.seg = seg /\ cur.slot = batch.at
             /\ cur.err = "none" /\ Raw(Exp(batch.at), cur) /\ phase \in AtPhases
  BY <1>4 DEF TypeInv, TypeOK, Sound, CurFits, Counted, Begun, CurRaw, AtPhases
<1>5. CASE MeasureBatchSlot
  <2> DEFINE b == [Blank(seg, batch.at) EXCEPT !.total = batch.total]
             e == Exp(batch.at)
             r == Observe(e, b, batch.counts[batch.at])
  <2>1. phase \in AtPhases
    BY <1>5 DEF MeasureBatchSlot, AtPhases
  <2>2. /\ b \in Result /\ ~b.tolerated /\ b.seg = seg /\ b.slot = batch.at
        /\ b.err = "none" /\ batch.counts[batch.at] \in Nat
    <3>1. batch.total \in Nat /\ batch.counts[batch.at] \in Nat
      BY <2>1, BatchFacts DEF Batch
    <3>2. /\ Blank(seg, batch.at) \in Result /\ ~Blank(seg, batch.at).tolerated
          /\ Blank(seg, batch.at).seg = seg /\ Blank(seg, batch.at).slot = batch.at
          /\ Blank(seg, batch.at).err = "none"
      BY <2>1, BatchFacts, BlankTyped DEF Blank
    <3> QED
      BY <3>1, <3>2 DEF Result
  <2> HIDE DEF b
  <2>3. r \in Result /\ Raw(e, r)
    BY <2>1, <2>2, BatchFacts, ObserveTyped, ObserveRaw
  <2>4. r.seg = seg /\ r.slot = batch.at /\ r.err = "none"
    BY <2>2, <2>3 DEF Observe, Result
  <2> HIDE DEF r
  <2>5. \/ UNCHANGED batch /\ (Goto("batchSamples") \/ Goto("batchKeys"))
        \/ Advance(r)
    BY <1>5 DEF MeasureBatchSlot, r, b
  <2> QED
    BY <1>5, <2>1, <2>3, <2>4, <2>5 DEF MeasureBatchSlot, Advance, Goto, AtPhases
<1>6. CASE BatchSamples
  <2> DEFINE n == Capped(run.sampleCap, Cardinality(Failing(Exp(batch.at), seg, rows)))
             r == [cur EXCEPT !.samples = n]
  <2>1. phase \in {"batchSamples", "batchKeys"}
    BY <1>6 DEF BatchSamples
  <2>2. n \in Nat
    BY <1>4, <2>1, BatchFacts, CountsAreNat, CappedTyped DEF Run
  <2>3. /\ r \in Result /\ r.seg = seg /\ r.slot = batch.at
        /\ r.err = "none" /\ Raw(Exp(batch.at), r)
    BY <1>4, <2>1, <2>2, DiagnosticsRaw DEF Result
  <2> HIDE DEF r
  <2>4. PICK err \in Outcomes(TRUE) :
          \/ err # "none" /\ FailBatchSlot(cur, err)
          \/ UNCHANGED batch /\ Goto("batchKeys")
          \/ Advance(r)
    BY <1>6 DEF BatchSamples, r
  <2>5. err \in Errors /\ PanicSeen(err)
    BY OutcomeSeen
  <2> QED
    BY <1>4, <1>6, <2>1, <2>3, <2>4, <2>5
    DEF BatchSamples, FailBatchSlot, Advance, Goto, AtPhases
<1>7. CASE BatchKeys
  <2> DEFINE n == Capped(run.failedKeysCap, Cardinality(Failing(Exp(batch.at), seg, rows)))
             r == [cur EXCEPT !.keys = n]
  <2>1. phase \in {"batchSamples", "batchKeys"}
    BY <1>7 DEF BatchKeys
  <2>2. n \in Nat
    BY <1>4, <2>1, BatchFacts, CountsAreNat, CappedTyped DEF Run
  <2>3. /\ r \in Result /\ r.seg = seg /\ r.slot = batch.at
        /\ r.err = "none" /\ Raw(Exp(batch.at), r)
    BY <1>4, <2>1, <2>2, DiagnosticsRaw DEF Result
  <2> HIDE DEF r
  <2>4. PICK err \in Outcomes(TRUE) :
          \/ err # "none" /\ FailBatchSlot(cur, err)
          \/ Advance(r)
    BY <1>7 DEF BatchKeys, r
  <2>5. err \in Errors /\ PanicSeen(err)
    BY OutcomeSeen
  <2> QED
    BY <1>4, <1>7, <2>1, <2>3, <2>4, <2>5 DEF BatchKeys, FailBatchSlot, Advance, Goto
<1> QED
  BY <1>1, <1>2, <1>3, <1>5, <1>6, <1>7

-----------------------------------------------------------------------------
(* The verdict.                                                            *)

\* What the policy of expectation e says of an error-free row-based result.
PolicyVerdict(e, r) ==
  HasRowDenominator(e) =>
    /\ r.success <=>
         \/ r.count = 0
         \/ e.tolerance = "count" /\ r.count <= e.bound
         \/ e.tolerance = "percent" /\ r.count * 100 <= e.bound * r.total
         \/ e.tolerance = "percent" /\ r.total = 0
    /\ r.tolerated => r.success /\ r.count > 0 /\ e.tolerance # "none"
    /\ (r.success /\ r.count > 0) => r.tolerated \/ r.total = 0

Judged(e, r) == r.err = "none" => PolicyVerdict(e, r)

\* Slot k of the batch is evaluated and waits for its turn in the report.
Finished(k) ==
  /\ k \in slot..batch.hi
  /\ \/ phase = "slot" /\ batch.err = "none"
     \/ phase \in {"batchTotal", "batchCounts"} /\ k < batch.from
     \/ phase \in AtPhases /\ k < batch.at

FinishedJudged == \A k : Finished(k) => Judged(Exp(k), batch.res[k])

\* The policy applied to a measured result gives the verdict it promises.
LEMMA TolerateJudges ==
  ASSUME NEW e \in Expectation, NEW r \in Result, Raw(e, r), r.err = "none"
  PROVE  PolicyVerdict(e, Tolerate(e, r))
<1> SUFFICES ASSUME HasRowDenominator(e) PROVE PolicyVerdict(e, Tolerate(e, r))
  BY DEF PolicyVerdict
<1>1. /\ r.measured /\ (r.success <=> r.count = 0) /\ ~r.tolerated
      /\ r.count \in Nat /\ r.total \in Nat /\ e.bound \in Nat
  BY DEF Raw, Result, Expectation
<1>2. CASE e.tolerance = "none"
  BY <1>1, <1>2 DEF Tolerate, PolicyVerdict
<1>3. CASE e.tolerance # "none"
  <2> DEFINE a == Allowed(e, r)
             m == a /\ MarkedTolerated(e, r)
             t == [r EXCEPT !.success = a, !.tolerated = m]
  <2>1. Tolerate(e, r) = t
    BY <1>1, <1>3 DEF Tolerate
  <2>2. a \in BOOLEAN /\ m \in BOOLEAN
    BY DEF Allowed
  <2>3. e.tolerance \in {"count", "percent"}
    BY <1>3 DEF Expectation, Tolerances
  <2>4. /\ m => a /\ r.count > 0
        /\ a /\ r.count > 0 => m \/ r.total = 0
    BY <1>1, <2>3 DEF MarkedTolerated
  <2>5. a <=> \/ r.count = 0
              \/ e.tolerance = "count" /\ r.count <= e.bound
              \/ e.tolerance = "percent" /\ r.count * 100 <= e.bound * r.total
              \/ e.tolerance = "percent" /\ r.total = 0
    <3>1. CASE e.tolerance = "count"
      BY <1>1, <3>1 DEF Allowed
    <3>2. CASE e.tolerance = "percent"
      BY <3>2 DEF Allowed
    <3> QED
      BY <2>3, <3>1, <3>2
  <2> HIDE DEF a, m
  <2>6. /\ t.success = a /\ t.tolerated = m /\ t.count = r.count /\ t.total = r.total
    BY <2>2 DEF Result
  <2> QED
    BY <1>3, <2>1, <2>4, <2>5, <2>6 DEF PolicyVerdict
<1> QED
  BY <1>2, <1>3

\* The policy judges a finished result whether or not it holds an error.
LEMMA DecoratedJudges ==
  ASSUME NEW e \in Expectation, NEW r \in Result, r.err = "none" => Raw(e, r)
  PROVE  Judged(e, Tolerate(e, r))
BY TolerateJudges, TolerateKeeps DEF Judged

\* Recording no error changes nothing.
LEMMA NoErrorKeeps ==
  ASSUME NEW r \in Result, r.err = "none"
  PROVE  WithError(r, "none") = r
<1>1. (r.success /\ "none" = "none") = r.success
  BY DEF Result
<1> QED
  BY <1>1 DEF WithError, Result

\* What a sequential slot publishes is judged.
LEMMA SettleJudges ==
  ASSUME TypeInv, slot \in 1..NumSlots, NEW r \in Result, NEW err \in Errors,
         err = "none" => Raw(Exp(slot), r)
  PROVE  Judged(Exp(slot), WithError(Decorated(Exp(slot), r, err), err))
<1> DEFINE e == Exp(slot)
           d == [r EXCEPT !.err = err]
           t == Tolerate(e, d)
<1>1. e \in Expectation
  BY RunTyped DEF TypeInv, TypeOK
<1>2. d \in Result /\ d.err = err /\ (Raw(e, r) => Raw(e, d))
  BY DEF Result, Raw
<1>3. Decorated(e, r, err) = t
  BY DEF Decorated
<1> HIDE DEF d, e
<1>4. t \in Result /\ t.err = err /\ Judged(e, t)
  <2>1. t \in Result /\ t.err = err
    BY <1>1, <1>2, TolerateTyped, TolerateKeeps
  <2>2. Judged(e, t)
    BY <1>1, <1>2, DecoratedJudges DEF e
  <2> QED
    BY <2>1, <2>2
<1> HIDE DEF t
<1>5. CASE err = "none"
  BY <1>3, <1>4, <1>5, NoErrorKeeps DEF e
<1>6. CASE err # "none"
  <2>1. WithError(t, err).err = err
    BY <1>4, WithErrorKeeps
  <2> QED
    BY <1>3, <1>6, <2>1 DEF Judged, e
<1> QED
  BY <1>5, <1>6

-----------------------------------------------------------------------------
(* The contract.                                                           *)

\* An aborted call had to stop: it does not record errors, or an observer panicked.
MayAbort == run.continueOnError => run.observed

\* q is the result of the current slot, has the verdict its policy gives, and
\* holds an error only where errors are recorded.
Enters(q) ==
  /\ q \in Result /\ q.seg = seg /\ q.slot = slot /\ slot \in 1..NumSlots
  /\ q.err # "none" => run.continueOnError
  /\ Judged(Exp(slot), q)
  /\ Publish(q)

\* What a batch hands over names its slot.
LEMMA TakeEffect ==
  ASSUME SoundInv, TakeFromBatch
  PROVE  /\ slot \in 1..NumSlots /\ batch.res[slot] \in Result
         /\ batch.res[slot].seg = seg /\ batch.res[slot].slot = slot
         /\ batch.err \in Errors
<1>1. slot \in 1..NumSlots /\ batch \in Batch
  BY RunTyped DEF TakeFromBatch, SoundInv, TypeInv, TypeOK
<1> QED
  BY <1>1 DEF SoundInv, Sound, BatchNamed, Batch

\* Every step publishes the current slot, aborts the call, ends a segment, or
\* leaves the report and the outcome alone.
LEMMA Reaction ==
  ASSUME SoundInv, PanicsSeen, CurRaw, FinishedJudged, IssuesGone, Position,
         [Next]_vars
  PROVE  /\ run' = run
         /\ \/ UNCHANGED <<results, slot, seg, Outcome>> /\ phase' # "start"
            \/ UNCHANGED <<results, slot, seg, phase>>
            \/ /\ UNCHANGED seg /\ phase \notin {"start", "report", "error"}
               /\ \E q : Enters(q)
            \/ Abort /\ MayAbort /\ UNCHANGED seg /\ phase \notin {"report", "error"}
            \/ EndSegment
<1> USE DEF SoundInv
<1>1. CASE Preflight
  <2>1. CASE ~run.continueOnError /\ \E i \in 1..NumSlots : Exp(i).issue
    BY <1>1, <2>1 DEF Preflight, Goto, Abort, MayAbort, Position
  <2>2. CASE ~(~run.continueOnError /\ \E i \in 1..NumSlots : Exp(i).issue)
    BY <1>1, <2>2 DEF Preflight, Goto, Outcome
  <2> QED
    BY <2>1, <2>2
<1>2. CASE RecordIssue
  <2> DEFINE q == [Blank(seg, slot) EXCEPT !.err = "config"]
  <2>1. slot \in 1..NumSlots /\ slot \in Nat /\ seg \in 1..NumSegments
    BY <1>2, RunTyped DEF RecordIssue, TypeInv, TypeOK
  <2>2. Blank(seg, slot) \in Result /\ "config" \in Errors
    BY <2>1, BlankTyped DEF Errors
  <2>3. q \in Result /\ q.seg = seg /\ q.slot = slot
    BY <2>2 DEF Result, Blank
  <2>4. run.continueOnError
    BY <1>2, <2>1 DEF RecordIssue, IssuesGone
  <2>5. Judged(Exp(slot), q)
    BY DEF Judged, Blank
  <2> QED
    BY <1>2, <2>1, <2>3, <2>4, <2>5 DEF RecordIssue, Enters
<1>3. CASE BeginSlot \/ LoadTotal \/ UseCachedTotal \/ Measure \/ Samples \/ Keys
  <2>1. /\ slot \in 1..NumSlots /\ UNCHANGED <<run, seg, batch>>
        /\ phase \notin {"start", "report", "error"}
    BY <1>3, SlotStep
  <2>2. CASE \E p \in SlotPhases : Goto(p)
    BY <2>1, <2>2 DEF Goto, SlotPhases, Outcome
  <2>3. ASSUME NEW r \in Result, NEW err \in Errors, Settle(r, err),
               r.seg = seg, r.slot = slot, PanicSeen(err),
               err = "none" => Raw(Exp(slot), r)
        PROVE  (Abort /\ MayAbort) \/ \E q : Enters(q)
    <3>1. CASE Aborts(err)
      BY <2>3, <3>1 DEF Settle, Aborts, MayAbort, PanicSeen
    <3>2. CASE ~Aborts(err)
      BY <2>1, <2>3, <3>2, SettleEffect, SettleJudges DEF Aborts, Enters, SameFigures
    <3> QED
      BY <3>1, <3>2
  <2> QED
    BY <1>3, <2>1, <2>2, <2>3, SlotStep
<1>4. CASE \/ LoadBatchTotal \/ UseBatchTotal \/ CountBatch
           \/ MeasureBatchSlot \/ BatchSamples \/ BatchKeys
  <2>1. /\ UNCHANGED <<run, seg, slot, results>>
        /\ phase \in BatchPhases /\ phase' \in BatchPhases \cup {"slot"}
    BY <1>4, BatchStep
    DEF LoadBatchTotal, UseBatchTotal, CountBatch, MeasureBatchSlot, BatchSamples,
        BatchKeys, FailChunk, FailBatchSlot, Advance, Goto, BatchPhases, AtPhases
  <2> QED
    BY <2>1 DEF BatchPhases, AtPhases, Outcome
<1>5. CASE BeginBatch
  BY <1>5 DEF BeginBatch, Goto, Outcome
<1>6. CASE TakeFromBatch
  <2> DEFINE r == batch.res[slot]
             err == IF r.err # "none" THEN r.err ELSE batch.err
  <2>1. /\ slot \in 1..NumSlots /\ r \in Result /\ r.seg = seg /\ r.slot = slot
        /\ batch.err \in Errors /\ err \in Errors
    <3>1. /\ slot \in 1..NumSlots /\ r \in Result /\ r.seg = seg /\ r.slot = slot
          /\ batch.err \in Errors
      BY <1>6, TakeEffect
    <3> QED
      BY <3>1 DEF Result
  <2>2. PanicSeen(r.err) /\ PanicSeen(batch.err) /\ PanicSeen(err)
    BY <2>1 DEF PanicsSeen
  <2>3. /\ UNCHANGED <<run, seg>> /\ phase = "slot"
        /\ \/ (batch.err = "observer" \/ Aborts(err)) /\ Abort
           \/ ~Aborts(err) /\ Publish(WithError(r, err))
    BY <1>6 DEF TakeFromBatch
  <2> HIDE DEF r, err
  <2>4. CASE (batch.err = "observer" \/ Aborts(err)) /\ Abort
    BY <2>2, <2>3, <2>4 DEF Aborts, MayAbort, PanicSeen
  <2>5. CASE ~Aborts(err) /\ Publish(WithError(r, err))
    <3>1. /\ WithError(r, err) \in Result /\ SameFigures(WithError(r, err), r)
          /\ WithError(r, err).err = err
      BY <2>1, WithErrorTyped, WithErrorKeeps
    <3>2. Judged(Exp(slot), WithError(r, err))
      <4>1. CASE err # "none"
        BY <3>1, <4>1 DEF Judged
      <4>2. CASE err = "none"
        <5>1. r.err = "none" /\ batch.err = "none" /\ Finished(slot)
          BY <1>6, <2>1, <4>2 DEF Finished, TakeFromBatch, TypeInv, TypeOK, Batch, err
        <5> QED
          BY <2>1, <4>2, <5>1, NoErrorKeeps DEF FinishedJudged, r
      <4> QED
        BY <4>1, <4>2
    <3>3. Enters(WithError(r, err))
      BY <2>1, <2>5, <3>1, <3>2 DEF Enters, Aborts, SameFigures
    <3> QED
      BY <2>3, <3>3
  <2> QED
    BY <2>3, <2>4, <2>5
<1>7. CASE EndSegment
  BY <1>7 DEF EndSegment
<1>8. CASE Write \/ UNCHANGED vars
  BY <1>8 DEF Write, vars
<1> QED
  BY <1>1, <1>2, <1>3, <1>4, <1>5, <1>6, <1>7, <1>8 DEF Next, Step, Returned

\* The next slot to evaluate goes on following the last one published.
LEMMA PositionStep ==
  SoundInv /\ PanicsSeen /\ CurRaw /\ FinishedJudged /\ IssuesGone /\ Position
    /\ [Next]_vars => Position'
<1> SUFFICES ASSUME SoundInv, PanicsSeen, CurRaw, FinishedJudged, IssuesGone, Position,
                    [Next]_vars
             PROVE  Position'
  OBVIOUS
<1>1. /\ run' = run /\ NumSlots' = NumSlots /\ NumSlots \in Nat
      /\ slot \in 1..(NumSlots + 1) /\ seg \in 1..NumSegments
      /\ results \in Seq(Result) /\ NumSegments \in Nat
  BY Reaction, RunTyped, SegmentsAssumption DEF NumSlots, SoundInv, TypeInv, TypeOK
<1>2. CASE UNCHANGED <<results, slot, seg, Outcome>> /\ phase' # "start"
  BY <1>1, <1>2 DEF Position, Outcome
<1>3. CASE UNCHANGED <<results, slot, seg, phase>>
  BY <1>1, <1>3 DEF Position
<1>4. ASSUME UNCHANGED seg, phase \notin {"start", "report", "error"}, NEW q, Enters(q)
      PROVE  Position'
  <2>1. /\ results' = Append(results, q) /\ slot' = slot + 1 /\ phase' = "slot"
        /\ q.seg = seg /\ q.slot = slot
    BY <1>4 DEF Enters, Publish
  <2>2. results' # <<>> /\ results'[Len(results')] = q
    BY <1>1, <1>4, <2>1 DEF Enters
  <2> QED
    BY <1>1, <1>4, <2>1, <2>2 DEF Position
<1>5. CASE Abort
  BY <1>5 DEF Abort, Position
<1>6. CASE EndSegment
  <2>1. slot = NumSlots + 1 /\ phase = "slot" /\ results' = results
    BY <1>1, <1>6 DEF EndSegment
  <2>2. CASE LastSegment
    BY <1>1, <1>6, <2>1, <2>2 DEF EndSegment, Position
  <2>3. CASE ~LastSegment
    <3>1. seg' = seg + 1 /\ slot' = 1 /\ phase' = "slot"
      BY <1>6, <2>1, <2>3 DEF EndSegment
    <3>2. CASE results = <<>>
      BY <1>1, <2>1, <3>1, <3>2 DEF Position
    <3>3. CASE results # <<>>
      <4> DEFINE last == results[Len(results)]
      <4>1. last \in Published
        BY <1>1, <3>3 DEF Published
      <4>2. last.slot \in 1..NumSlots
        BY <4>1 DEF SoundInv, Sound, ReportFits
      <4>3. last.seg = seg /\ last.slot = NumSlots
        BY <1>1, <2>1, <3>3, <4>2 DEF Position
      <4> QED
        BY <1>1, <2>1, <3>1, <3>3, <4>3 DEF Position
    <3> QED
      BY <3>2, <3>3
  <2> QED
    BY <2>2, <2>3
<1> QED
  BY <1>2, <1>3, <1>4, <1>5, <1>6, Reaction

\* Issues are gone for good once the gate is passed.
LEMMA IssuesGoneStep == IssuesGone /\ [Next]_vars => IssuesGone'
<1> SUFFICES ASSUME IssuesGone, [Next]_vars PROVE IssuesGone'
  OBVIOUS
<1>1. /\ run' = run /\ NumSlots' = NumSlots /\ \A i : Exp(i)' = Exp(i)
  BY DEF Next, Step, Returned, vars, Preflight, RecordIssue, BeginSlot, LoadTotal,
      UseCachedTotal, Measure, Samples, Keys, BeginBatch, LoadBatchTotal,
      UseBatchTotal, CountBatch, MeasureBatchSlot, BatchSamples, BatchKeys,
      TakeFromBatch, EndSegment, Write, NumSlots, Exp
<1>2. CASE Preflight
  BY <1>1, <1>2 DEF Preflight, Goto, IssuesGone
<1>3. CASE phase' = phase \/ phase \notin {"start", "error"}
  BY <1>1, <1>3 DEF IssuesGone
<1> QED
  BY <1>2, <1>3
  DEF Next, Step, Returned, vars, RecordIssue, BeginSlot, LoadTotal, UseCachedTotal,
      Measure, Samples, Keys, BeginBatch, LoadBatchTotal, UseBatchTotal, CountBatch,
      MeasureBatchSlot, BatchSamples, BatchKeys, TakeFromBatch, EndSegment, Write

\* Errors are remembered only as they were raised.
LEMMA PanicsSeenStep ==
  SoundInv /\ PanicsSeen /\ CurRaw /\ [Next]_vars => PanicsSeen'
<1> SUFFICES ASSUME SoundInv, PanicsSeen, CurRaw, [Next]_vars PROVE PanicsSeen'
  OBVIOUS
<1> USE DEF SoundInv
<1>1. /\ run' = run /\ NumSlots' = NumSlots /\ \A err : PanicSeen(err)' <=> PanicSeen(err)
  BY DEF Next, Step, Returned, vars, Preflight, RecordIssue, BeginSlot, LoadTotal,
      UseCachedTotal, Measure, Samples, Keys, BeginBatch, LoadBatchTotal,
      UseBatchTotal, CountBatch, MeasureBatchSlot, BatchSamples, BatchKeys,
      TakeFromBatch, EndSegment, Write, NumSlots, PanicSeen
<1>2. PanicSeen(cache'.err)
  <2>1. CASE UNCHANGED cache
    BY <2>1 DEF PanicsSeen
  <2>2. CASE LoadTotal \/ LoadBatchTotal
    <3>1. \A n : \A err \in Outcomes(TRUE) : Loaded(n, err).err = err
      BY DEF Loaded
    <3> QED
      BY <2>1, <2>2, <3>1, OutcomeSeen DEF LoadTotal, LoadBatchTotal
  <2>3. CASE EndSegment
    BY <2>1, <2>3 DEF EndSegment, SegmentCache, EmptyCache, PanicSeen
  <2> QED
    BY <2>1, <2>2, <2>3
    DEF Next, Step, Returned, vars, Preflight, RecordIssue, BeginSlot,
      UseCachedTotal, Measure, Samples, Keys, BeginBatch,
      UseBatchTotal, CountBatch, MeasureBatchSlot, BatchSamples, BatchKeys,
      TakeFromBatch, Write
<1>3. PanicSeen(batch'.err) /\ \A k \in 1..NumSlots : PanicSeen(batch'.res[k].err)
  <2> DEFINE BatchSeen(b) ==
               PanicSeen(b.err) /\ \A k \in 1..NumSlots : PanicSeen(b.res[k].err)
  <2> SUFFICES BatchSeen(batch')
    OBVIOUS
  <2>1. batch \in Batch /\ BatchSeen(batch) /\ TypeOK
    BY DEF TypeInv, TypeOK, PanicsSeen
  <2>2. CASE UNCHANGED batch
    BY <2>1, <2>2
  <2>3. CASE BeginBatch \/ EndSegment
    <3> DEFINE blank == [k \in 1..NumSlots |-> Blank(seg, k)]
               unrendered == [k \in 1..NumSlots |->
                                [Blank(seg, k) EXCEPT !.err = "render"]]
               next == [k \in 1..NumSlots |-> Blank(seg + 1, k)]
    <3>1. \A k \in 1..NumSlots :
            /\ blank[k].err = "none" /\ unrendered[k].err = "render"
            /\ next[k].err = "none"
      BY DEF Blank
    <3>2. \/ batch'.err = "none" /\ batch'.res = blank
          \/ batch'.err = "render" /\ batch'.res = unrendered
          \/ batch'.err = "none" /\ batch'.res = next
          \/ UNCHANGED batch
      <4> HIDE DEF unrendered, next
      <4>1. CASE BeginBatch
        BY <4>1 DEF BeginBatch, NoBatch, unrendered
      <4>2. CASE EndSegment
        BY <4>2 DEF EndSegment, NoBatch, next
      <4> QED
        BY <2>3, <4>1, <4>2
    <3> HIDE DEF blank, unrendered, next
    <3> QED
      BY <2>2, <3>1, <3>2 DEF PanicSeen
  <2>5. ASSUME phase \in AtPhases, NEW r \in Result, PanicSeen(r.err), Advance(r)
        PROVE  BatchSeen(batch')
    <3>1. /\ batch'.err = batch.err
          /\ batch'.res = [batch.res EXCEPT ![batch.at] = Tolerate(Exp(batch.at), r)]
      BY <2>5, AdvanceEffect
    <3>2. Tolerate(Exp(batch.at), r).err = r.err
      BY <2>5, BatchFacts, TolerateKeeps
    <3> QED
      BY <2>1, <2>5, <3>1, <3>2 DEF Batch
  <2>6. ASSUME phase \in AtPhases, NEW r \in Result, r.err = "none",
               NEW err \in Errors, PanicSeen(err), FailBatchSlot(r, err)
        PROVE  BatchSeen(batch')
    <3> DEFINE failed == [r EXCEPT !.err = err, !.success = FALSE]
    <3>1. failed \in Result /\ failed.err = err
      BY DEF Result
    <3>2. Tolerate(Exp(batch.at), failed).err = err
      BY <2>6, <3>1, BatchFacts, TolerateKeeps
    <3> DEFINE t == Tolerate(Exp(batch.at), failed)
    <3>3. \/ batch'.err = err /\ batch'.res = batch.res
          \/ batch'.err = err /\ batch'.res = [batch.res EXCEPT ![batch.at] = t]
          \/ Advance(failed)
      BY <2>6, FailBatchSlotEffect
    <3> HIDE DEF failed, t
    <3>4. CASE batch'.err = err /\ batch'.res = batch.res
      BY <2>1, <2>6, <3>4
    <3>5. CASE batch'.err = err /\ batch'.res = [batch.res EXCEPT ![batch.at] = t]
      <4>1. t.err = err
        BY <3>2 DEF t
      <4> QED
        BY <2>1, <2>6, <3>5, <4>1 DEF Batch
    <3>6. CASE Advance(failed)
      BY <2>5, <2>6, <3>1, <3>6
    <3> QED
      BY <3>3, <3>4, <3>5, <3>6
  <2>7. ASSUME NEW err \in Errors, PanicSeen(err), FailChunk(err)
        PROVE  BatchSeen(batch')
    <3>1. \A k \in 1..NumSlots : [batch.res[k] EXCEPT !.err = err].err = err
      BY <2>1 DEF Batch, Result
    <3> QED
      BY <2>1, <2>7, <3>1, FailChunkEffect
  <2>8. CASE \/ LoadBatchTotal \/ UseBatchTotal \/ CountBatch
             \/ MeasureBatchSlot \/ BatchSamples \/ BatchKeys
    <3>1. CASE phase = "batchTotal" /\ \E n \in Nat : batch' = [batch EXCEPT !.total = n]
      BY <2>1, <3>1 DEF Batch
    <3>2. CASE batch'.err = batch.err /\ batch'.res = batch.res
      BY <2>1, <3>2
    <3>3. ASSUME phase \in AtPhases, NEW r \in Result, r.err = "none", Advance(r)
          PROVE  BatchSeen(batch')
      BY <2>5, <3>3 DEF PanicSeen
    <3> QED
      BY <2>2, <2>6, <2>7, <2>8, <3>1, <3>2, <3>3, BatchStep
  <2> QED
    BY <2>2, <2>3, <2>8
    DEF Next, Step, Returned, vars, Preflight, RecordIssue, BeginSlot, LoadTotal,
      UseCachedTotal, Measure, Samples, Keys, TakeFromBatch, Write
<1> QED
  BY <1>1, <1>2, <1>3 DEF PanicsSeen

-----------------------------------------------------------------------------
\* A slot of a batch is finished once, and then waits untouched.
LEMMA FinishedStep ==
  ASSUME SoundInv, PanicsSeen, CurRaw, [Next]_vars, NEW k, Finished(k)'
  PROVE  /\ run' = run /\ seg' = seg /\ k \in 1..NumSlots
         /\ \/ Finished(k) /\ batch'.res[k] = batch.res[k]
            \/ /\ k = batch.at /\ phase \in AtPhases
               /\ \E r \in Result :
                    /\ r.seg = seg /\ r.slot = batch.at
                    /\ r.err = "none" => Raw(Exp(batch.at), r)
                    /\ batch'.res[k] = Tolerate(Exp(batch.at), r)
<1> USE DEF SoundInv
<1>1. /\ slot \in Nat /\ slot \in 1..(NumSlots + 1) /\ batch \in Batch /\ batch.hi \in Nat
      /\ batch.from \in Nat /\ batch.at \in Nat /\ NumSlots \in Nat
      /\ batch.res \in [1..NumSlots -> Result]
  BY RunTyped DEF TypeInv, TypeOK, Batch
<1>2. /\ phase' \in {"slot"} \cup BatchPhases /\ k \in slot'..batch'.hi
      /\ phase' = "slot" => batch'.err = "none"
  BY DEF Finished, BatchPhases, AtPhases
<1>3. CASE UNCHANGED batch /\ phase' = "slot" /\ slot' \in {slot, slot + 1}
           /\ slot > batch.hi
  <2>1. k \in slot'..batch.hi
    BY <1>2, <1>3
  <2>2. \A s \in Nat, h \in Nat : s > h => s..h = {} /\ (s + 1)..h = {}
    OBVIOUS
  <2>3. slot'..batch.hi = {}
    BY <1>1, <1>3, <2>2
  <2> QED
    BY <2>1, <2>3
<1>4. CASE Preflight
  BY <1>1, <1>3, <1>2, <1>4
  DEF Preflight, Goto, Sound, BatchCovers, BatchPhases, AtPhases
<1>5. CASE RecordIssue
  <2>1. phase = "slot" /\ slot \in 1..NumSlots /\ ~InBatch(slot)
    BY <1>1, <1>5 DEF RecordIssue, InBatch, Shareable
  <2> QED
    BY <1>3, <1>5, <2>1, BehindBatch DEF RecordIssue, Publish
<1>6. CASE BeginSlot \/ LoadTotal \/ UseCachedTotal \/ Measure \/ Samples \/ Keys
  <2>1. slot > batch.hi
    <3>1. CASE BeginSlot
      <4>1. phase = "slot" /\ slot \in 1..NumSlots /\ ~InBatch(slot)
        BY <1>1, <3>1 DEF BeginSlot
      <4> QED
        BY <4>1, BehindBatch
    <3>2. CASE phase \in SlotPhases
      BY <3>2 DEF Sound, BatchCovers
    <3> QED
      BY <1>6, <3>1, <3>2
      DEF LoadTotal, UseCachedTotal, Measure, Samples, Keys, SlotPhases
  <2>2. UNCHANGED batch /\ (phase' \in SlotPhases \/ phase' = "error"
                            \/ (phase' = "slot" /\ slot' = slot + 1))
    BY <1>6, SlotStep DEF Goto, Settle, Publish, Abort
  <2>3. phase' = "slot" /\ slot' = slot + 1
    BY <1>2, <2>2 DEF SlotPhases, BatchPhases, AtPhases
  <2> QED
    BY <1>3, <2>1, <2>2, <2>3
<1>7. CASE BeginBatch
  <2>1. \/ phase' = "batchTotal" /\ batch'.from = slot /\ slot' = slot
        \/ phase' = "slot" /\ batch'.err = "render"
    BY <1>7 DEF BeginBatch, Goto, NoBatch
  <2> QED
    BY <1>1, <1>2, <2>1 DEF Finished, AtPhases
<1>8. CASE \/ LoadBatchTotal \/ UseBatchTotal \/ CountBatch
           \/ MeasureBatchSlot \/ BatchSamples \/ BatchKeys
  <2>1. /\ UNCHANGED <<run, seg, slot, results>> /\ TypeOK
        /\ phase \in BatchPhases => batch.hi <= NumSlots
    BY <1>8, BatchStep DEF TypeInv, Control
  <2>2. CASE /\ phase = "batchTotal" /\ phase' = "batchCounts"
             /\ \E n \in Nat : batch' = [batch EXCEPT !.total = n]
    BY <1>1, <1>2, <2>1, <2>2 DEF Finished, AtPhases, BatchPhases, Batch
  <2>3. CASE /\ phase = "batchCounts" /\ phase' = "batchSlot"
             /\ batch'.at = batch.from /\ batch'.from = batch.from
             /\ batch'.hi = batch.hi /\ batch'.err = batch.err
             /\ batch'.res = batch.res
    BY <1>1, <1>2, <2>1, <2>3 DEF Finished, AtPhases, BatchPhases
  <2>4. ASSUME NEW err \in Errors \ {"none"}, FailChunk(err) PROVE FALSE
    BY <1>2, <2>1, <2>4, FailChunkEffect
  <2>5. CASE phase \in AtPhases /\ phase' \in AtPhases /\ UNCHANGED batch
    BY <1>1, <1>2, <2>1, <2>5 DEF Finished, AtPhases, BatchPhases
  <2>6. ASSUME phase \in AtPhases, NEW r \in Result, r.seg = seg, r.slot = batch.at,
               r.err = "none" => Raw(Exp(batch.at), r), Advance(r)
        PROVE  /\ k \in 1..NumSlots
               /\ \/ Finished(k) /\ batch'.res[k] = batch.res[k]
                  \/ k = batch.at /\ batch'.res[k] = Tolerate(Exp(batch.at), r)
    <3>1. /\ batch'.hi = batch.hi
          /\ batch'.res = [batch.res EXCEPT ![batch.at] = Tolerate(Exp(batch.at), r)]
          /\ \/ phase' = "batchSlot" /\ batch'.at = batch.at + 1
             \/ phase' = "batchTotal" /\ batch'.from = batch.at + 1
             \/ phase' = "slot" /\ batch.at = batch.hi
      BY <2>6, AdvanceEffect
    <3>2. k \in slot..batch.hi /\ k <= batch.at /\ k \in 1..NumSlots
      BY <1>1, <1>2, <2>1, <2>6, <3>1 DEF Finished, AtPhases, BatchPhases
    <3>3. k # batch.at => Finished(k)
      BY <1>1, <2>6, <3>2 DEF Finished
    <3> QED
      BY <1>1, <3>1, <3>2, <3>3
  <2>7. ASSUME phase \in AtPhases, NEW r \in Result, r.seg = seg, r.slot = batch.at,
               NEW err \in Errors \ {"none"}, FailBatchSlot(r, err)
        PROVE  \/ k \in 1..NumSlots /\ Finished(k) /\ batch'.res[k] = batch.res[k]
               \/ /\ k = batch.at /\ k \in 1..NumSlots
                  /\ \E q \in Result :
                       /\ q.seg = seg /\ q.slot = batch.at
                       /\ q.err = "none" => Raw(Exp(batch.at), q)
                       /\ batch'.res[k] = Tolerate(Exp(batch.at), q)
    <3> DEFINE failed == [r EXCEPT !.err = err, !.success = FALSE]
    <3>1. /\ failed \in Result /\ failed.seg = seg /\ failed.slot = batch.at
          /\ failed.err # "none"
      BY <2>7 DEF Result
    <3>2. Advance(failed)
      <4>1. \/ phase' = "slot" /\ batch'.err = err
            \/ Advance(failed)
        BY <2>7, FailBatchSlotEffect
      <4> QED
        BY <1>2, <4>1
    <3> HIDE DEF failed
    <3> QED
      BY <2>6, <2>7, <3>1, <3>2
  <2> QED
    BY <1>8, <2>1, <2>2, <2>3, <2>4, <2>5, <2>6, <2>7, BatchStep
    DEF BatchPhases
<1>9. CASE TakeFromBatch
  <2>1. /\ slot \in 1..NumSlots /\ phase = "slot" /\ UNCHANGED <<run, seg, batch>>
        /\ phase' = "slot" => slot' = slot + 1
    BY <1>9, TakeEffect DEF TakeFromBatch, Abort, Publish
  <2>2. phase' \in {"slot", "error"}
    BY <1>9 DEF TakeFromBatch, Abort, Publish
  <2>3. k \in slot..batch.hi
    BY <1>1, <1>2, <2>1, <2>2 DEF BatchPhases, AtPhases
  <2>4. InBatch(k)
    BY <2>1, <2>3 DEF Sound, BatchCovers
  <2> QED
    BY <1>2, <2>1, <2>2, <2>3, <2>4 DEF Finished, InBatch, Shareable, BatchPhases, AtPhases
<1>10. CASE EndSegment
  <2>1. phase' = "slot" /\ slot' = 1 /\ batch'.hi = 0
    BY <1>2, <1>10 DEF EndSegment, NoBatch, BatchPhases, AtPhases
  <2> QED
    BY <1>2, <2>1
<1>11. CASE UNCHANGED <<run, phase, seg, slot, batch>>
  <2>1. Finished(k)
    BY <1>11 DEF Finished
  <2>2. InBatch(k)
    BY <2>1 DEF Finished, Sound, BatchCovers, BatchPhases
  <2> QED
    BY <1>11, <2>1, <2>2 DEF InBatch, Shareable
<1> QED
  BY <1>4, <1>5, <1>6, <1>7, <1>8, <1>9, <1>10, <1>11
  DEF Next, Step, Returned, vars, Write

\* The finished slots of a batch are judged.
LEMMA FinishedJudgedStep ==
  SoundInv /\ PanicsSeen /\ CurRaw /\ FinishedJudged /\ [Next]_vars => FinishedJudged'
<1> SUFFICES ASSUME SoundInv, PanicsSeen, CurRaw, FinishedJudged, [Next]_vars,
                    NEW k, Finished(k)'
             PROVE  Judged(Exp(k), batch.res[k])'
  BY DEF FinishedJudged
<1>1. Exp(k)' = Exp(k)
  BY FinishedStep DEF Exp
<1>2. CASE Finished(k) /\ batch'.res[k] = batch.res[k]
  BY <1>1, <1>2 DEF FinishedJudged, Judged, PolicyVerdict
<1>3. ASSUME k = batch.at, phase \in AtPhases, NEW r \in Result,
             r.err = "none" => Raw(Exp(batch.at), r),
             batch'.res[k] = Tolerate(Exp(batch.at), r)
      PROVE  Judged(Exp(k), batch.res[k])'
  <2>1. Judged(Exp(k), batch'.res[k])
    BY <1>3, BatchFacts, DecoratedJudges DEF SoundInv
  <2> QED
    BY <1>1, <2>1 DEF Judged, PolicyVerdict
<1> QED
  BY <1>2, <1>3, FinishedStep

-----------------------------------------------------------------------------
\* The invariant of the refinement.
ContractInv ==
  SoundInv /\ PanicsSeen /\ CurRaw /\ FinishedJudged /\ IssuesGone /\ Position

\* A call starts with nothing remembered and nothing published.
LEMMA InitContract == Init => ContractInv
<1> SUFFICES ASSUME Init PROVE ContractInv
  OBVIOUS
<1>1. SoundInv
  BY InitTyped, InitSound DEF SoundInv
<1>2. \A k \in 1..NumSlots : batch.res[k].err = "none"
  BY DEF Init, NoBatch, Blank
<1>3. batch.err = "none" /\ cache.err = "none"
  BY DEF Init, NoBatch, EmptyCache
<1>4. FinishedJudged
  BY DEF Init, FinishedJudged, Finished, AtPhases
<1> QED
  BY <1>1, <1>2, <1>3, <1>4
  DEF Init, ContractInv, PanicsSeen, PanicSeen, CurRaw, IssuesGone, Position

\* Every step keeps what the refinement needs.
LEMMA NextContract == ContractInv /\ [Next]_vars => ContractInv'
BY NextTyped, NextSound, PanicsSeenStep, CurRawStep, FinishedJudgedStep, IssuesGoneStep, PositionStep
DEF ContractInv, SoundInv

\* The slots published, as the contract sees them.
Seen(rs) ==
  [k \in DOMAIN rs |->
     [seg |-> rs[k].seg, slot |-> rs[k].slot, verdict |-> VerdictOf(rs[k])]]

\* Publishing a result publishes its slot.
LEMMA SeenAppend ==
  ASSUME NEW rs \in Seq(Result), NEW q \in Result
  PROVE  /\ Seen(Append(rs, q)) =
              Append(Seen(rs), [seg |-> q.seg, slot |-> q.slot, verdict |-> VerdictOf(q)])
         /\ Len(Seen(rs)) = Len(rs) /\ (Seen(rs) = <<>> <=> rs = <<>>)
         /\ rs # <<>> => /\ Seen(rs)[Len(rs)].seg = rs[Len(rs)].seg
                         /\ Seen(rs)[Len(rs)].slot = rs[Len(rs)].slot
<1> DEFINE View(r) == [seg |-> r.seg, slot |-> r.slot, verdict |-> VerdictOf(r)]
           All == {View(r) : r \in Result}
<1> HIDE DEF View
<1>1. Seen(rs) = [k \in 1..Len(rs) |-> View(rs[k])] /\ Len(rs) \in Nat
  BY DEF Seen, View
<1>2. Seen(Append(rs, q)) = [k \in 1..(Len(rs) + 1) |-> View(Append(rs, q)[k])]
  BY DEF Seen, View
<1>3. Seen(rs) \in Seq(All) /\ View(q) \in All
  BY <1>1
<1>4. Len(Seen(rs)) = Len(rs)
  BY <1>1, <1>3
<1>5. Seen(Append(rs, q)) = Append(Seen(rs), View(q))
  <2> DEFINE new == Append(Seen(rs), View(q))
  <2>1. /\ \A k \in 1..Len(rs) : Append(rs, q)[k] = rs[k]
        /\ Append(rs, q)[Len(rs) + 1] = q
    OBVIOUS
  <2>2. /\ new \in Seq(All) /\ Len(new) = Len(rs) + 1
        /\ \A k \in 1..Len(rs) : new[k] = View(rs[k])
        /\ new[Len(rs) + 1] = View(q)
    BY <1>1, <1>3, <1>4
  <2>3. /\ new = [k \in 1..(Len(rs) + 1) |-> new[k]]
        /\ \A k \in 1..(Len(rs) + 1) : new[k] = View(Append(rs, q)[k])
    BY <1>1, <2>1, <2>2
  <2> HIDE DEF new
  <2> QED
    BY <1>2, <2>3 DEF new
<1>6. Seen(rs) = <<>> <=> rs = <<>>
  BY <1>3, <1>4
<1>7. rs # <<>> => Seen(rs)[Len(rs)] = View(rs[Len(rs)])
  BY <1>1
<1> QED
  BY <1>4, <1>5, <1>6, <1>7 DEF View

\* The call starts as the contract says.
LEMMA ContractStarts == Init => Contract!ContractInit
<1> SUFFICES ASSUME Init PROVE Contract!ContractInit
  OBVIOUS
<1>1. CallOf(run) \in {CallOf(c) : c \in Runs} /\ results = <<>> /\ Outcome = "running"
  BY DEF Init, Outcome
<1> QED
  BY <1>1 DEF Contract!ContractInit

\* A result of the current slot that enters the report is a slot the contract
\* lets it publish.
LEMMA ContractPublishes ==
  ASSUME ContractInv, NEW q, Enters(q), UNCHANGED <<run, seg>>,
         phase \notin {"start", "report", "error"}
  PROVE  Contract!PublishSlot
<1>1. /\ results \in Seq(Result) /\ slot \in 1..NumSlots /\ seg \in 1..NumSegments
      /\ NumSlots \in Nat /\ NumSlots = CallOf(run).slots
      /\ CallOf(run).records = run.continueOnError
  BY RunTyped DEF ContractInv, SoundInv, TypeInv, TypeOK, Enters, CallOf, NumSlots
<1>2. /\ results' = Append(results, q) /\ q \in Result /\ q.seg = seg /\ q.slot = slot
      /\ phase' = "slot"
  BY DEF Enters, Publish
<1>3. Seen(results') = Append(Seen(results),
                              [seg |-> seg, slot |-> slot, verdict |-> VerdictOf(q)])
  BY <1>1, <1>2, SeenAppend
<1>4. VerdictOf(q) \in {"pass", "fail", "error"}
      /\ (VerdictOf(q) = "error" => CallOf(run).records)
  BY <1>1 DEF VerdictOf, Enters
<1>5. Outcome = "running" /\ Outcome' = "running" /\ CallOf(run)' = CallOf(run)
  BY <1>2 DEF Outcome, CallOf
<1>6. IF Seen(results) = <<>> THEN seg = 1 /\ slot = 1
      ELSE LET last == Seen(results)[Len(Seen(results))]
           IN \/ seg = last.seg /\ slot = last.slot + 1
              \/ seg = last.seg + 1 /\ slot = 1 /\ last.slot = CallOf(run).slots
  <2>1. CASE results = <<>>
    <3>1. Seen(results) = <<>>
      BY <1>1, <1>2, <2>1, SeenAppend
    <3> QED
      BY <1>1, <2>1, <3>1 DEF ContractInv, Position
  <2>2. CASE results # <<>>
    <3> DEFINE last == results[Len(results)]
    <3>1. last \in Result
      BY <1>1, <2>2
    <3>2. last.seg \in Nat /\ last.slot \in Nat
      BY <3>1 DEF Result
    <3>3. \/ last.seg = seg /\ last.slot = slot - 1
          \/ last.seg = seg - 1 /\ last.slot = NumSlots /\ slot = 1
      BY <2>2 DEF ContractInv, Position
    <3>4. \/ seg = last.seg /\ slot = last.slot + 1
          \/ seg = last.seg + 1 /\ slot = 1 /\ last.slot = NumSlots
      BY <1>1, <3>2, <3>3
    <3> QED
      BY <1>1, <1>2, <2>2, <3>4, SeenAppend
  <2> QED
    BY <2>1, <2>2
<1>7. Contract!Follows([seg |-> seg, slot |-> slot])
  BY <1>6 DEF Contract!Follows, Seen
<1> QED
  BY <1>1, <1>3, <1>4, <1>5, <1>7 DEF Contract!PublishSlot, Contract!Verdicts, Seen

\* After the last segment the report is complete.
LEMMA ContractReturns ==
  ASSUME ContractInv, EndSegment
  PROVE  Contract!ReturnReport \/ UNCHANGED <<CallOf(run), Seen(results), Outcome>>
<1>1. /\ results \in Seq(Result) /\ slot = NumSlots + 1 /\ seg \in 1..NumSegments
      /\ NumSlots \in Nat /\ NumSlots = CallOf(run).slots /\ phase = "slot"
      /\ UNCHANGED <<run, results>> /\ NumSegments \in Nat
  BY RunTyped, SegmentsAssumption
  DEF ContractInv, SoundInv, TypeInv, TypeOK, EndSegment, CallOf, NumSlots
<1>2. UNCHANGED <<CallOf(run), Seen(results)>> /\ Outcome = "running"
  BY <1>1 DEF CallOf, Seen, Outcome
<1>3. CASE ~LastSegment
  BY <1>1, <1>2, <1>3 DEF EndSegment, Outcome
<1>4. CASE LastSegment
  <2>1. Outcome' = "report" /\ seg = NumSegments
    BY <1>1, <1>4 DEF EndSegment, Outcome, LastSegment
  <2>2. \/ CallOf(run).slots = 0
        \/ /\ Seen(results) # <<>>
           /\ Seen(results)[Len(Seen(results))].seg = NumSegments
           /\ Seen(results)[Len(Seen(results))].slot = CallOf(run).slots
    <3>1. CASE results = <<>>
      BY <1>1, <3>1 DEF ContractInv, Position
    <3>2. CASE results # <<>>
      <4> DEFINE last == results[Len(results)]
      <4>1. last \in Published
        BY <1>1, <3>2 DEF Published
      <4>2. last.slot \in 1..NumSlots
        BY <4>1 DEF ContractInv, SoundInv, Sound, ReportFits
      <4>3. last.seg = seg /\ last.slot = NumSlots
        BY <1>1, <3>2, <4>2 DEF ContractInv, Position
      <4>4. /\ Seen(results) # <<>> /\ Len(Seen(results)) = Len(results)
            /\ Seen(results)[Len(results)].seg = last.seg
            /\ Seen(results)[Len(results)].slot = last.slot
        <5>1. ASSUME NEW q \in Result
              PROVE  /\ Seen(results) # <<>> /\ Len(Seen(results)) = Len(results)
                     /\ Seen(results)[Len(results)].seg = last.seg
                     /\ Seen(results)[Len(results)].slot = last.slot
          BY <1>1, <3>2, SeenAppend
        <5>2. last \in Result
          BY <1>1, <3>2
        <5> QED
          BY <5>1, <5>2
      <4> QED
        BY <1>1, <2>1, <4>3, <4>4
    <3> QED
      BY <3>1, <3>2
  <2>3. Contract!Complete
    BY <2>2 DEF Contract!Complete, Seen
  <2> QED
    BY <1>2, <2>1, <2>3 DEF Contract!ReturnReport, Seen
<1> QED
  BY <1>3, <1>4

\* Every step of the call is a step of the contract, or one the contract does
\* not see.
LEMMA ContractSteps ==
  ContractInv /\ [Next]_vars => [Contract!ContractNext]_(Contract!contractVars)
<1> SUFFICES ASSUME ContractInv, [Next]_vars
             PROVE  Contract!ContractNext \/ UNCHANGED Contract!contractVars
  OBVIOUS
<1>1. CallOf(run)' = CallOf(run) /\ CallOf(run).records = run.continueOnError
      /\ CallOf(run).observed = run.observed
  BY Reaction DEF ContractInv, CallOf
<1>2. CASE UNCHANGED <<results, Outcome>>
  BY <1>1, <1>2 DEF Contract!contractVars
<1>3. CASE UNCHANGED seg /\ phase \notin {"start", "report", "error"} /\ \E q : Enters(q)
  BY <1>1, <1>3, ContractPublishes, Reaction DEF ContractInv, Contract!ContractNext
<1>4. CASE Abort /\ MayAbort /\ phase \notin {"report", "error"}
  <2>1. /\ Outcome = "running" /\ Outcome' = "error" /\ results' = <<>>
    BY <1>4 DEF Abort, Outcome
  <2>2. Seen(results') = <<>>
    BY <2>1 DEF Seen
  <2>3. Contract!ReturnError
    BY <1>1, <1>4, <2>1, <2>2 DEF Contract!ReturnError, Seen, MayAbort
  <2> QED
    BY <2>3 DEF Contract!ContractNext
<1>5. CASE EndSegment
  BY <1>5, ContractReturns DEF Contract!ContractNext, Contract!contractVars, Seen
<1>6. CASE UNCHANGED <<results, slot, seg, phase>>
  BY <1>2, <1>6 DEF Outcome
<1> QED
  BY <1>2, <1>3, <1>4, <1>5, <1>6, Reaction DEF ContractInv

\* The call keeps the contract a caller relies on: slots in segment-major
\* declaration order, errored slots only where errors are recorded, a report
\* only when it is complete, and nothing at all from an aborted call.
THEOREM KeepsContract == Spec => RefinesContract
<1> QED
  BY InitContract, NextContract, ContractStarts, ContractSteps, PTL
  DEF Spec, RefinesContract, Contract!ContractSpec

\* An error-free row-based result passes exactly when its policy lets it, on
\* whichever path it was evaluated.
THEOREM VerdictsFollowPolicy == Spec => []VerdictFollowsPolicy
<1> DEFINE AllJudged == \A r \in Published : Judged(Exp(r.slot), r)
<1>1. Init => AllJudged
  BY DEF Init, Published
<1>2. ContractInv /\ AllJudged /\ [Next]_vars => AllJudged'
  <2> SUFFICES ASSUME ContractInv, AllJudged, [Next]_vars PROVE AllJudged'
    OBVIOUS
  <2>1. \A i : Exp(i)' = Exp(i)
    BY Reaction DEF ContractInv, Exp
  <2>2. CASE UNCHANGED results
    BY <2>1, <2>2 DEF Published, Judged, PolicyVerdict
  <2>3. CASE results' = <<>>
    BY <2>3 DEF Published
  <2>4. ASSUME NEW q, Enters(q) PROVE AllJudged'
    <3>1. Published' = Published \cup {q} /\ Judged(Exp(q.slot), q)
      BY <2>4, PublishedAppend
      DEF Enters, Publish, ContractInv, SoundInv, TypeInv, TypeOK
    <3> QED
      BY <2>1, <3>1 DEF Judged, PolicyVerdict
  <2> QED
    BY <2>2, <2>3, <2>4, Reaction DEF ContractInv, Abort, EndSegment
<1>3. AllJudged => VerdictFollowsPolicy
  BY DEF Judged, PolicyVerdict, VerdictFollowsPolicy
<1> HIDE DEF AllJudged
<1> QED
  BY <1>1, <1>2, <1>3, InitContract, NextContract, PTL DEF Spec

-----------------------------------------------------------------------------
(* Errors stay where their statement failed.                               *)

\* A statement of slot i of the current segment failed; slot 0 is its total.
Faulty(i) == <<seg, i>> \in faults

\* What ErrorsStayInBatch says of one published result.
Placed(r) ==
  /\ r.err = "none" => ~OwnFault(r)
  /\ r.err = "exec" =>
       \/ OwnFault(r)
       \/ \E i \in 1..NumSlots :
            /\ <<r.seg, i>> \in faults
            /\ InBatch(r.slot)
            /\ \A k \in i..r.slot \cup r.slot..i : Shareable(k)

\* The cache remembers the failure of the segment's total, and nothing else.
CacheBlamed ==
  /\ cache.err = "exec" <=> Faulty(0)
  /\ ~cache.loaded => cache.err = "none"

\* Slots still to be evaluated, or under evaluation, have no failed statement.
Behind(i) ==
  /\ phase \in {"start"} \cup SlotPhases => i < slot
  /\ phase = "slot" => i < slot \/ i <= batch.hi
  /\ phase \in {"batchTotal", "batchCounts"} => i < batch.from
  /\ phase \in AtPhases => i < batch.at

FaultsBehind == \A i \in Nat \ {0} : Faulty(i) => Behind(i)

\* A slot of the batch holds the error of its own statement or of the total.
SlotsBlamed ==
  \A k \in 1..NumSlots : batch.res[k].err = "exec" => Faulty(k) \/ Faulty(0)

\* The error of a batch was raised by the total or by a statement of the batch.
BatchBlamed ==
  batch.err = "exec" =>
    \/ Faulty(0)
    \/ \E i \in 1..batch.hi : Faulty(i) /\ \A k \in i..batch.hi : Shareable(k)

\* No statement of an error-free slot waiting in the batch failed.
FinishedClean == \A k : Finished(k) /\ batch.res[k].err = "none" => ~Faulty(k)

\* Faults and results are those of slots already met.
Met ==
  /\ \A f \in faults : f[1] <= seg
  /\ phase # "error" => \A r \in Published : r.seg = seg => r.slot < slot
  /\ phase = "total" => UsesTotal(Exp(slot))

BlameInv ==
  /\ Met /\ CacheBlamed /\ FaultsBehind
  /\ SlotsBlamed /\ BatchBlamed /\ FinishedClean
  /\ ErrorsStayInBatch

-----------------------------------------------------------------------------
\* A failed statement ends its slot, its chunk or its batch with an error.
LEMMA FaultStep ==
  ASSUME TypeInv, [Next]_vars, faults' # faults
  PROVE  /\ UNCHANGED <<run, seg>>
         /\ \/ /\ phase = "total" /\ CachesTotal(Exp(slot)) /\ ~cache.loaded
               /\ cache'.loaded /\ cache'.err = "exec"
               /\ faults' = faults \cup {<<seg, 0>>}
               /\ Settle(cur, "exec") /\ UNCHANGED batch
            \/ /\ phase \in SlotPhases
               /\ faults' = faults \cup {<<seg, slot>>}
               /\ UNCHANGED <<cache, batch>>
               /\ \E r \in {cur, Blank(seg, slot)} : Settle(r, "exec")
            \/ /\ phase = "batchTotal" /\ ~cache.loaded
               /\ cache'.loaded /\ cache'.err = "exec"
               /\ faults' = faults \cup {<<seg, 0>>}
               /\ FailChunk("exec")
            \/ /\ phase = "batchCounts" /\ UNCHANGED cache
               /\ faults' = faults \cup {<<seg, k>> : k \in Chunk}
               /\ FailChunk("exec")
            \/ /\ phase \in {"batchSamples", "batchKeys"} /\ UNCHANGED cache
               /\ faults' = faults \cup {<<seg, batch.at>>}
               /\ FailBatchSlot(cur, "exec")
<1>1. \A n : Loaded(n, "exec").loaded /\ Loaded(n, "exec").err = "exec"
  BY DEF Loaded
<1>2. CASE LoadTotal
  <2>1. PICK n, err :
          /\ Blame(err, {IF CachesTotal(Exp(slot)) THEN 0 ELSE slot})
          /\ IF CachesTotal(Exp(slot)) THEN cache' = Loaded(n, err) ELSE UNCHANGED cache
          /\ IF err = "none" THEN Goto("measure") ELSE Settle(cur, err)
    BY <1>2 DEF LoadTotal
  <2>2. err = "exec"
    BY <2>1 DEF Blame
  <2> QED
    BY <1>1, <1>2, <2>1, <2>2 DEF LoadTotal, Blame, SlotPhases
<1>3. CASE Measure
  BY <1>3 DEF Measure, Blame, SlotPhases
<1>4. CASE Samples
  BY <1>4 DEF Samples, Blame, SlotPhases
<1>5. CASE Keys
  BY <1>5 DEF Keys, Blame, SlotPhases
<1>6. CASE LoadBatchTotal
  <2>1. PICK n, err :
          /\ Blame(err, {0}) /\ cache' = Loaded(n, err)
          /\ IF err = "none" THEN Goto("batchCounts") ELSE FailChunk(err)
    BY <1>6 DEF LoadBatchTotal
  <2>2. err = "exec"
    BY <2>1 DEF Blame
  <2> QED
    BY <1>1, <1>6, <2>1, <2>2 DEF LoadBatchTotal, Blame
<1>7. CASE CountBatch
  BY <1>7 DEF CountBatch, Blame
<1>8. CASE BatchSamples
  BY <1>8 DEF BatchSamples, Blame
<1>9. CASE BatchKeys
  BY <1>9 DEF BatchKeys, Blame
<1> QED
  BY <1>2, <1>3, <1>4, <1>5, <1>6, <1>7, <1>8, <1>9
  DEF Next, Step, Returned, vars, Preflight, RecordIssue, BeginSlot, UseCachedTotal,
      BeginBatch, UseBatchTotal, MeasureBatchSlot, TakeFromBatch, EndSegment, Write

\* A new fault belongs to the total while it is not loaded, or to a slot that
\* is neither published nor finished.
LEMMA NewFaults ==
  ASSUME SoundInv, [Next]_vars, NEW f, f \in faults', f \notin faults
  PROVE  /\ f = <<seg, f[2]>> /\ faults \subseteq faults' /\ UNCHANGED <<run, seg>>
         /\ \/ f[2] = 0 /\ ~cache.loaded
            \/ f[2] \in slot..NumSlots /\ ~Finished(f[2])
<1>1. /\ TypeInv /\ NumSlots \in Nat /\ slot \in Nat /\ batch.from \in Nat
      /\ batch.to \in Nat /\ batch.hi \in Nat /\ batch.at \in Nat
  BY RunTyped DEF SoundInv, TypeInv, TypeOK, Batch
<1>2. CASE phase = "total" /\ ~cache.loaded /\ faults' = faults \cup {<<seg, 0>>}
  BY <1>1, <1>2, FaultStep
<1>3. CASE phase = "batchTotal" /\ ~cache.loaded /\ faults' = faults \cup {<<seg, 0>>}
  BY <1>1, <1>3, FaultStep
<1>4. CASE phase \in SlotPhases /\ faults' = faults \cup {<<seg, slot>>}
  <2>1. slot \in slot..NumSlots
    BY <1>1, <1>4 DEF TypeInv, Control
  <2> QED
    BY <1>1, <1>4, <2>1, FaultStep DEF Finished, SlotPhases, AtPhases
<1>5. CASE phase = "batchCounts" /\ faults' = faults \cup {<<seg, k>> : k \in Chunk}
  <2>1. \A k \in Chunk : k \in slot..NumSlots /\ ~(k < batch.from)
    BY <1>1, <1>5 DEF TypeInv, Control, Chunk, BatchPhases
  <2> QED
    BY <1>1, <1>5, <2>1, FaultStep DEF Finished, AtPhases
<1>6. CASE /\ phase \in {"batchSamples", "batchKeys"}
           /\ faults' = faults \cup {<<seg, batch.at>>}
  <2>1. batch.at \in slot..NumSlots /\ ~(batch.at < batch.at)
    BY <1>1, <1>6 DEF TypeInv, Control, BatchPhases, AtPhases
  <2> QED
    BY <1>1, <1>6, <2>1, FaultStep DEF Finished, AtPhases
<1> QED
  BY <1>1, <1>2, <1>3, <1>4, <1>5, <1>6, FaultStep

\* Published results are those of slots already passed, faults those of slots
\* already met.
LEMMA MetStep == ContractInv /\ Met /\ [Next]_vars => Met'
<1> SUFFICES ASSUME ContractInv, Met, [Next]_vars PROVE Met'
  OBVIOUS
<1>1. /\ SoundInv /\ TypeInv /\ seg \in Nat /\ slot \in Nat /\ NumSegments \in Nat
      /\ results \in Seq(Result) /\ faults \in SUBSET ((1..NumSegments) \X Nat)
  BY SegmentsAssumption, RunTyped DEF ContractInv, SoundInv, TypeInv, TypeOK
<1>2. /\ run' = run
      /\ \/ UNCHANGED <<results, slot, seg>> /\ (phase' = "error" \/ phase # "error")
         \/ UNCHANGED <<results, slot, seg, phase>>
         \/ UNCHANGED seg /\ phase # "error" /\ \E q : Enters(q)
         \/ phase' = "error" /\ UNCHANGED seg
         \/ EndSegment
  <2>1. UNCHANGED Outcome => (phase' = "error" <=> phase = "error")
    BY DEF Outcome
  <2>2. /\ run' = run
        /\ \/ UNCHANGED <<results, slot, seg, Outcome>>
           \/ UNCHANGED <<results, slot, seg, phase>>
           \/ /\ UNCHANGED seg /\ phase \notin {"start", "report", "error"}
              /\ \E q : Enters(q)
           \/ Abort /\ UNCHANGED seg
           \/ EndSegment
    BY Reaction DEF ContractInv
  <2> QED
    BY <2>1, <2>2 DEF Abort
<1>3. seg' \in {seg, seg + 1}
  BY <1>2 DEF EndSegment
<1>4. \A f \in faults' : f[1] <= seg'
  <2> SUFFICES ASSUME NEW f \in faults' PROVE f[1] <= seg'
    OBVIOUS
  <2>1. CASE f \in faults
    <3>1. f[1] \in Nat /\ f[1] <= seg
      BY <1>1, <2>1 DEF Met
    <3> QED
      BY <1>1, <1>3, <3>1
  <2>2. CASE f \notin faults
    <3>1. f[1] = seg
      BY <1>1, <2>2, NewFaults
    <3> QED
      BY <1>1, <1>3, <3>1
  <2> QED
    BY <2>1, <2>2
<1>5. phase' # "error" => \A r \in Published' : r.seg = seg' => r.slot < slot'
  <2>1. CASE UNCHANGED <<results, slot, seg>> /\ (phase' = "error" \/ phase # "error")
    BY <2>1 DEF Met, Published
  <2>2. ASSUME NEW q, Enters(q), UNCHANGED seg, phase # "error"
        PROVE  \A r \in Published' : r.seg = seg' => r.slot < slot'
    <3>1. /\ Published' = Published \cup {q} /\ q.slot = slot /\ slot' = slot + 1
      BY <1>1, <2>2, PublishedAppend DEF Enters, Publish
    <3>2. \A r \in Published : r.slot \in Nat
      BY <1>1 DEF SoundInv, Sound, ReportFits
    <3> QED
      BY <1>1, <2>2, <3>1, <3>2 DEF Met
  <2>3. CASE EndSegment
    <3>1. Published' = Published /\ \A r \in Published : r.seg \in 1..seg
      BY <1>1, <2>3 DEF EndSegment, Published, SoundInv, Sound, ReportFits
    <3>2. seg' = seg + 1 \/ UNCHANGED <<seg, slot>>
      BY <2>3 DEF EndSegment
    <3>3. phase # "error"
      BY <2>3 DEF EndSegment
    <3> QED
      BY <1>1, <3>1, <3>2, <3>3 DEF Met
  <2>4. CASE UNCHANGED <<results, slot, seg, phase>>
    BY <2>4 DEF Met, Published
  <2> QED
    BY <1>2, <2>1, <2>2, <2>3, <2>4
<1>6. phase' = "total" => UsesTotal(Exp(slot))'
  <2>1. CASE BeginSlot
    BY <2>1 DEF BeginSlot, Goto, Settle, Publish, Abort, Exp
  <2>2. CASE UNCHANGED <<run, slot, phase>>
    BY <2>2 DEF Met, Exp
  <2> QED
    BY <2>1, <2>2
    DEF Next, Step, Returned, vars, Preflight, RecordIssue, LoadTotal, UseCachedTotal,
        Measure, Samples, Keys, BeginBatch, LoadBatchTotal, UseBatchTotal, CountBatch,
        MeasureBatchSlot, BatchSamples, BatchKeys, TakeFromBatch, EndSegment, Write,
        Goto, Settle, Publish, Abort, FailChunk, FailBatchSlot, Advance
<1> QED
  BY <1>4, <1>5, <1>6 DEF Met

\* The cache fails with the statement that loads it.
LEMMA CacheBlamedStep ==
  SoundInv /\ Met /\ CacheBlamed /\ [Next]_vars => CacheBlamed'
<1> SUFFICES ASSUME SoundInv, Met, CacheBlamed, [Next]_vars PROVE CacheBlamed'
  OBVIOUS
<1>1. TypeInv /\ TypeOK /\ seg \in Nat /\ cache \in Cache
  BY DEF SoundInv, TypeInv, TypeOK
<1>2. CASE UNCHANGED <<cache, seg, faults>>
  BY <1>2 DEF CacheBlamed, Faulty
<1>3. ASSUME ~cache.loaded, NEW n, NEW err, cache' = Loaded(n, err), seg' = seg,
             Blame(err, {0})
      PROVE  CacheBlamed'
  BY <1>3 DEF CacheBlamed, Faulty, Loaded, Blame
<1>4. ASSUME UNCHANGED <<cache, seg>>, NEW ks, 0 \notin ks,
             faults' = faults \cup {<<seg, k>> : k \in ks}
      PROVE  CacheBlamed'
  BY <1>4 DEF CacheBlamed, Faulty
<1>5. CASE LoadTotal
  <2>1. CASE CachesTotal(Exp(slot))
    BY <1>3, <1>5, <2>1 DEF LoadTotal
  <2>2. CASE ~CachesTotal(Exp(slot))
    <3>1. slot # 0
      <4>1. phase \in SlotPhases
        BY <1>5 DEF LoadTotal, SlotPhases
      <4> QED
        BY <1>1, <4>1, SlotFacts
    <3>2. PICK err : Blame(err, {slot})
      BY <1>5, <2>2 DEF LoadTotal
    <3>3. UNCHANGED faults \/ faults' = faults \cup {<<seg, k>> : k \in {slot}}
      BY <3>2 DEF Blame
    <3> QED
      BY <1>2, <1>4, <1>5, <2>2, <3>1, <3>3 DEF LoadTotal
  <2> QED
    BY <2>1, <2>2
<1>6. CASE LoadBatchTotal
  BY <1>3, <1>6 DEF LoadBatchTotal
<1>7. CASE Measure \/ Samples \/ Keys
  <2>1. slot # 0
    <3>1. phase \in SlotPhases
      BY <1>7 DEF Measure, Samples, Keys, SlotPhases
    <3> QED
      BY <1>1, <3>1, SlotFacts
  <2>2. \E err : Blame(err, {slot})
    BY <1>7 DEF Measure, Samples, Keys
  <2>3. UNCHANGED faults \/ faults' = faults \cup {<<seg, k>> : k \in {slot}}
    BY <2>2 DEF Blame
  <2> QED
    BY <1>2, <1>4, <1>7, <2>1, <2>3 DEF Measure, Samples, Keys
<1>8. CASE CountBatch
  <2>1. 0 \notin Chunk
    BY <1>1, <1>8 DEF CountBatch, TypeInv, TypeOK, Control, BatchPhases, Chunk, Batch
  <2>2. \E err : Blame(err, Chunk)
    BY <1>8 DEF CountBatch
  <2>3. UNCHANGED faults \/ faults' = faults \cup {<<seg, k>> : k \in Chunk}
    BY <2>2 DEF Blame
  <2> QED
    BY <1>2, <1>4, <1>8, <2>1, <2>3 DEF CountBatch
<1>9. CASE BatchSamples \/ BatchKeys
  <2>1. batch.at # 0
    <3>1. phase \in AtPhases
      BY <1>9 DEF BatchSamples, BatchKeys, AtPhases
    <3> QED
      BY <1>1, <3>1, BatchFacts
  <2>2. \E err : Blame(err, {batch.at})
    BY <1>9 DEF BatchSamples, BatchKeys
  <2>3. UNCHANGED faults \/ faults' = faults \cup {<<seg, k>> : k \in {batch.at}}
    BY <2>2 DEF Blame
  <2> QED
    BY <1>2, <1>4, <1>9, <2>1, <2>3 DEF BatchSamples, BatchKeys
<1>10. CASE EndSegment
  <2>1. CASE UNCHANGED <<cache, seg>>
    BY <1>2, <1>10, <2>1 DEF EndSegment
  <2>2. CASE cache' = EmptyCache /\ seg' = seg + 1
    <3>1. <<seg + 1, 0>> \notin faults
      BY <1>1 DEF Met
    <3> QED
      BY <1>10, <2>2, <3>1 DEF EndSegment, CacheBlamed, Faulty, EmptyCache
  <2> QED
    BY <1>10, <2>1, <2>2 DEF EndSegment, SegmentCache
<1> QED
  BY <1>2, <1>5, <1>6, <1>7, <1>8, <1>9, <1>10
  DEF Next, Step, Returned, vars, Preflight, RecordIssue, BeginSlot, UseCachedTotal,
      BeginBatch, UseBatchTotal, MeasureBatchSlot, TakeFromBatch, Write

\* A slot of a batch that is finished, or has failed, is behind the evaluation.
LEMMA BatchPasses ==
  ASSUME TypeInv, phase \in AtPhases, NEW i \in Nat, i <= batch.at, NEW r \in Result,
         \/ Advance(r)
         \/ \E err \in Errors : FailBatchSlot(r, err)
  PROVE  Behind(i)'
<1>1. /\ batch.at \in Nat /\ batch.hi \in Nat /\ batch.at <= batch.hi /\ slot \in Nat
  BY DEF TypeInv, TypeOK, Control, BatchPhases, Batch
<1>2. ASSUME NEW q \in Result, Advance(q) PROVE Behind(i)'
  <2>1. /\ batch'.hi = batch.hi
        /\ \/ phase' = "batchSlot" /\ batch'.at = batch.at + 1
           \/ phase' = "batchTotal" /\ batch'.from = batch.at + 1
           \/ phase' = "slot" /\ batch.at = batch.hi
    BY <1>2, AdvanceEffect
  <2> QED
    BY <1>1, <2>1 DEF Behind, SlotPhases, AtPhases
<1>3. ASSUME NEW err \in Errors, FailBatchSlot(r, err) PROVE Behind(i)'
  <2> DEFINE failed == [r EXCEPT !.err = err, !.success = FALSE]
  <2>1. /\ failed \in Result
        /\ \/ phase' = "slot" /\ batch'.hi = batch.hi
           \/ Advance(failed)
    BY <1>3, FailBatchSlotEffect
  <2> HIDE DEF failed
  <2>2. CASE phase' = "slot" /\ batch'.hi = batch.hi
    BY <1>1, <2>2 DEF Behind, SlotPhases, AtPhases
  <2> QED
    BY <1>2, <2>1, <2>2
<1> QED
  BY <1>2, <1>3

\* A slot behind the evaluation stays behind it within its segment.
LEMMA BehindKept ==
  ASSUME ContractInv, [Next]_vars, UNCHANGED seg, NEW i \in Nat, Behind(i)
  PROVE  Behind(i)'
<1>1. /\ SoundInv /\ PanicsSeen /\ CurRaw /\ TypeInv /\ TypeOK /\ NumSlots \in Nat
      /\ slot \in Nat /\ slot \in 1..(NumSlots + 1)
      /\ batch.from \in Nat /\ batch.to \in Nat /\ batch.hi \in Nat /\ batch.at \in Nat
  <2>1. SoundInv /\ PanicsSeen /\ CurRaw /\ TypeInv /\ TypeOK
    BY DEF ContractInv, SoundInv, TypeInv
  <2> QED
    BY <2>1, RunTyped DEF TypeOK, Batch
<1>2. CASE UNCHANGED <<phase, slot, batch>>
  BY <1>2 DEF Behind
<1>3. CASE phase' \in {"error", "report"}
  BY <1>3 DEF Behind, SlotPhases, AtPhases
<1>4. CASE Preflight
  BY <1>4 DEF Preflight, Goto, Behind, SlotPhases, AtPhases
<1>5. ASSUME slot > batch.hi, phase \in {"slot"} \cup SlotPhases, UNCHANGED batch,
             \/ phase' \in SlotPhases /\ slot' = slot
             \/ phase' = "slot" /\ slot' = slot + 1
      PROVE  Behind(i)'
  BY <1>1, <1>5 DEF Behind, SlotPhases, AtPhases
<1>6. CASE RecordIssue
  <2>1. phase = "slot" /\ slot \in 1..NumSlots /\ ~InBatch(slot)
    BY <1>1, <1>6 DEF RecordIssue, InBatch, Shareable
  <2> QED
    BY <1>1, <1>5, <1>6, <2>1, BehindBatch DEF RecordIssue, Publish
<1>7. CASE BeginSlot \/ LoadTotal \/ UseCachedTotal \/ Measure \/ Samples \/ Keys
  <2>1. slot > batch.hi /\ phase \in {"slot"} \cup SlotPhases
    <3>1. CASE BeginSlot
      <4>1. phase = "slot" /\ slot \in 1..NumSlots /\ ~InBatch(slot)
        BY <1>1, <3>1 DEF BeginSlot
      <4> QED
        BY <1>1, <4>1, BehindBatch
    <3>2. CASE phase \in SlotPhases
      BY <1>1, <3>2 DEF SoundInv, Sound, BatchCovers
    <3> QED
      BY <1>7, <3>1, <3>2
      DEF LoadTotal, UseCachedTotal, Measure, Samples, Keys, SlotPhases
  <2>2. /\ UNCHANGED batch
        /\ \/ phase' \in SlotPhases /\ slot' = slot
           \/ phase' = "slot" /\ slot' = slot + 1
           \/ phase' = "error"
    BY <1>1, <1>7, SlotStep DEF Goto, Settle, Publish, Abort
  <2> QED
    BY <1>3, <1>5, <2>1, <2>2
<1>8. CASE BeginBatch
  <2>1. PICK h \in slot..NumSlots :
          \/ /\ batch' = [NoBatch EXCEPT !.hi = h, !.from = slot, !.to = ChunkEnd(slot, h)]
             /\ Goto("batchTotal")
          \/ batch'.hi = h /\ Goto("slot")
    BY <1>8 DEF BeginBatch, NoBatch
  <2>2. phase = "slot" /\ slot > batch.hi
    BY <1>8 DEF BeginBatch
  <2>3. \/ phase' = "batchTotal" /\ batch'.from = slot
        \/ phase' = "slot" /\ slot' = slot
    BY <2>1 DEF NoBatch, Goto
  <2> QED
    BY <1>1, <2>2, <2>3 DEF Behind, SlotPhases, AtPhases
<1>9. CASE \/ LoadBatchTotal \/ UseBatchTotal \/ CountBatch
           \/ MeasureBatchSlot \/ BatchSamples \/ BatchKeys
  <2>2. CASE /\ phase = "batchTotal" /\ phase' = "batchCounts"
             /\ \E n \in Nat : batch' = [batch EXCEPT !.total = n]
    BY <1>1, <2>2 DEF Behind, SlotPhases, AtPhases, TypeOK, Batch
  <2>3. CASE /\ phase = "batchCounts" /\ phase' = "batchSlot"
             /\ batch'.at = batch.from
    BY <1>1, <2>3 DEF Behind, SlotPhases, AtPhases
  <2>4. ASSUME phase \in {"batchTotal", "batchCounts"}, NEW err \in Errors, FailChunk(err)
        PROVE  Behind(i)'
    <3>1. batch.from <= batch.hi
      BY <1>1, <2>4 DEF TypeInv, Control, BatchPhases
    <3>2. phase' = "slot" /\ batch'.hi = batch.hi
      BY <1>1, <2>4, FailChunkEffect
    <3>3. i < batch.from
      BY <2>4 DEF Behind
    <3> QED
      BY <1>1, <3>1, <3>2, <3>3 DEF Behind, SlotPhases, AtPhases
  <2>5. CASE phase \in AtPhases /\ phase' \in AtPhases /\ UNCHANGED batch
    BY <1>1, <2>5 DEF Behind, SlotPhases, AtPhases
  <2>6. ASSUME phase \in AtPhases, NEW r \in Result,
               Advance(r) \/ \E err \in Errors : FailBatchSlot(r, err)
        PROVE  Behind(i)'
    <3>1. i <= batch.at
      BY <1>1, <2>6 DEF Behind
    <3> QED
      BY <1>1, <2>6, <3>1, BatchPasses
  <2> QED
    BY <1>1, <1>9, <2>2, <2>3, <2>4, <2>5, <2>6, BatchStep
<1>10. CASE TakeFromBatch
  <2>1. /\ phase = "slot" /\ UNCHANGED batch
        /\ phase' = "error" \/ (phase' = "slot" /\ slot' = slot + 1)
    BY <1>10 DEF TakeFromBatch, Publish, Abort
  <2> QED
    BY <1>1, <1>3, <2>1 DEF Behind, SlotPhases, AtPhases
<1>11. CASE EndSegment
  BY <1>1, <1>3, <1>11 DEF EndSegment, TypeOK
<1> QED
  BY <1>2, <1>4, <1>6, <1>7, <1>8, <1>9, <1>10, <1>11
  DEF Next, Step, Returned, vars, Write

\* The evaluation passes every slot whose statement fails.
LEMMA FaultsBehindStep ==
  ContractInv /\ Met /\ FaultsBehind /\ [Next]_vars => FaultsBehind'
<1> SUFFICES ASSUME ContractInv, Met, FaultsBehind, [Next]_vars,
                    NEW i \in Nat \ {0}, Faulty(i)'
             PROVE  Behind(i)'
  BY DEF FaultsBehind
<1>1. /\ SoundInv /\ TypeInv /\ TypeOK /\ NumSlots \in Nat /\ seg \in Nat
      /\ slot \in Nat /\ batch.from \in Nat /\ batch.to \in Nat /\ batch.hi \in Nat
      /\ batch.at \in Nat
  <2>1. SoundInv /\ TypeInv /\ TypeOK
    BY DEF ContractInv, SoundInv, TypeInv
  <2> QED
    BY <2>1, RunTyped DEF TypeOK, Batch
<1>2. CASE Faulty(i) /\ seg' = seg
  BY <1>2, BehindKept DEF FaultsBehind
<1>3. CASE faults' = faults
  <2>1. seg' = seg + 1 => <<seg', i>> \notin faults
    BY <1>1 DEF Met
  <2>2. seg' \in {seg, seg + 1}
    BY DEF Next, Step, Returned, vars, Preflight, RecordIssue, BeginSlot, LoadTotal,
      UseCachedTotal, Measure, Samples, Keys, BeginBatch, LoadBatchTotal,
      UseBatchTotal, CountBatch, MeasureBatchSlot, BatchSamples, BatchKeys,
      TakeFromBatch, EndSegment, Write
  <2> QED
    BY <1>2, <1>3, <2>1, <2>2 DEF Faulty
<1>4. CASE faults' # faults /\ ~Faulty(i)
  <2>1. seg' = seg /\ <<seg, i>> \in faults' /\ <<seg, i>> \notin faults
    BY <1>1, <1>4, FaultStep DEF Faulty
  <2>2. ASSUME phase \in SlotPhases, i = slot, NEW r, Settle(r, "exec")
        PROVE  Behind(i)'
    BY <1>1, <2>2 DEF Settle, Publish, Abort, Behind, SlotPhases, AtPhases
  <2>3. CASE phase = "batchCounts" /\ i \in Chunk /\ FailChunk("exec")
    <3>1. i <= batch.hi
      BY <1>1, <2>3 DEF TypeInv, Control, BatchPhases, Chunk
    <3>2. phase' = "slot" /\ batch'.hi = batch.hi
      BY <1>1, <2>3, FailChunkEffect DEF Errors
    <3> QED
      BY <3>1, <3>2 DEF Behind, SlotPhases, AtPhases
  <2>4. CASE phase \in AtPhases /\ i = batch.at /\ FailBatchSlot(cur, "exec")
    <3>1. cur \in Result /\ "exec" \in Errors /\ i <= batch.at
      BY <1>1, <2>4 DEF TypeOK, Errors
    <3> QED
      BY <1>1, <2>4, <3>1, BatchPasses
  <2> QED
    BY <1>1, <1>4, <2>1, <2>2, <2>3, <2>4, FaultStep DEF AtPhases
<1> QED
  BY <1>2, <1>3, <1>4, <1>1, FaultStep

-----------------------------------------------------------------------------
\* Within a segment no fault is forgotten.
Remembered == UNCHANGED <<run, seg>> /\ faults \subseteq faults'

\* Errors of a batch stay explained while the batch stays as it is.
LEMMA BlamedKept ==
  ASSUME SlotsBlamed, BatchBlamed, Remembered, batch'.hi = batch.hi
  PROVE  /\ batch'.err = batch.err => BatchBlamed'
         /\ (\A k \in 1..NumSlots : batch'.res[k].err = batch.res[k].err) => SlotsBlamed'
<1>1. /\ \A i : Faulty(i) => Faulty(i)'
      /\ \A k : Shareable(k)' = Shareable(k)
      /\ NumSlots' = NumSlots
  BY DEF Remembered, Faulty, Shareable, NumSlots, Exp
<1> QED
  BY <1>1 DEF SlotsBlamed, BatchBlamed

\* The error of a failed chunk is that of the total or of the chunk's statement.
LEMMA FailChunkBlamed ==
  ASSUME SoundInv, SlotsBlamed, Remembered, phase \in {"batchTotal", "batchCounts"},
         NEW err \in Errors, FailChunk(err),
         err = "exec" => Faulty(0)' \/ \A k \in Chunk : Faulty(k)'
  PROVE  SlotsBlamed' /\ BatchBlamed'
<1>1. TypeInv /\ TypeOK /\ phase \in BatchPhases
  BY DEF SoundInv, TypeInv, BatchPhases
<1>2. /\ batch.from \in Nat /\ batch.to \in Nat /\ batch.hi \in Nat /\ slot \in Nat
      /\ NumSlots \in Nat /\ batch.res \in [1..NumSlots -> Result]
  BY <1>1, RunTyped DEF TypeOK, Batch
<1>3. /\ slot \in 1..NumSlots /\ slot <= batch.from /\ batch.from <= batch.to
      /\ batch.to <= batch.hi /\ batch.hi <= NumSlots
  BY <1>1 DEF TypeInv, Control
<1>4. /\ batch'.err = err /\ batch'.hi = batch.hi
      /\ \A k \in 1..NumSlots :
           batch'.res[k] = IF k \in Chunk THEN [batch.res[k] EXCEPT !.err = err]
                           ELSE batch.res[k]
  BY <1>1, FailChunkEffect
<1>5. \A k \in 1..NumSlots : [batch.res[k] EXCEPT !.err = err].err = err
  BY <1>2 DEF Result
<1>6. /\ \A i : Faulty(i) => Faulty(i)'
      /\ \A k : Shareable(k)' = Shareable(k)
      /\ NumSlots' = NumSlots
  BY DEF Remembered, Faulty, Shareable, NumSlots, Exp
<1>7. SlotsBlamed'
  BY <1>4, <1>5, <1>6 DEF SlotsBlamed
<1>8. ASSUME err = "exec", \A k \in Chunk : Faulty(k)'
      PROVE  \E i \in 1..batch.hi : Faulty(i)' /\ \A k \in i..batch.hi : Shareable(k)
  <2>1. batch.from \in Chunk /\ batch.from \in 1..batch.hi
    BY <1>2, <1>3 DEF Chunk
  <2>2. \A k \in batch.from..batch.hi : k \in slot..batch.hi
    BY <1>2, <1>3
  <2>3. \A k \in batch.from..batch.hi : Shareable(k)
    BY <1>1, <2>2 DEF SoundInv, Sound, BatchCovers, InBatch
  <2> QED
    BY <1>8, <2>1, <2>3
<1>9. BatchBlamed'
  BY <1>4, <1>6, <1>8 DEF BatchBlamed
<1> QED
  BY <1>7, <1>9

\* A finished slot holds its own error, or none.
LEMMA AdvanceBlamed ==
  ASSUME SoundInv, SlotsBlamed, BatchBlamed, Remembered, phase \in AtPhases,
         NEW r \in Result, Advance(r), r.err = "exec" => <<seg, batch.at>> \in faults'
  PROVE  SlotsBlamed' /\ BatchBlamed'
<1>1. TypeInv /\ TypeOK /\ batch.at \in 1..NumSlots /\ Exp(batch.at) \in Expectation
      /\ batch.res \in [1..NumSlots -> Result]
  BY BatchFacts DEF SoundInv, TypeInv, TypeOK, Batch
<1> DEFINE t == Tolerate(Exp(batch.at), r)
<1>2. t.err = r.err
  BY <1>1, TolerateKeeps
<1> HIDE DEF t
<1>3. /\ batch'.err = batch.err /\ batch'.hi = batch.hi
      /\ batch'.res = [batch.res EXCEPT ![batch.at] = t]
  BY <1>1, AdvanceEffect DEF t
<1>4. /\ \A i : Faulty(i) => Faulty(i)'
      /\ r.err = "exec" => \A i : i = batch.at => Faulty(i)'
      /\ NumSlots' = NumSlots
  BY DEF Remembered, Faulty, NumSlots
<1>5. SlotsBlamed'
  BY <1>1, <1>2, <1>3, <1>4 DEF SlotsBlamed
<1> QED
  BY <1>3, <1>5, BlamedKept

\* The error a diagnostic statement leaves is that of its slot.
LEMMA FailBatchSlotBlamed ==
  ASSUME SoundInv, SlotsBlamed, BatchBlamed, Remembered, phase \in AtPhases,
         NEW r \in Result, NEW err \in Errors, FailBatchSlot(r, err),
         err = "exec" => <<seg, batch.at>> \in faults'
  PROVE  SlotsBlamed' /\ BatchBlamed'
<1>1. TypeInv /\ TypeOK /\ batch.at \in 1..NumSlots /\ Exp(batch.at) \in Expectation
      /\ batch.res \in [1..NumSlots -> Result] /\ NumSlots \in Nat
  BY BatchFacts, RunTyped DEF SoundInv, TypeInv, TypeOK, Batch
<1> DEFINE failed == [r EXCEPT !.err = err, !.success = FALSE]
           t == Tolerate(Exp(batch.at), failed)
<1>2. failed \in Result /\ failed.err = err
  BY FailBatchSlotEffect, <1>1 DEF Result
<1>3. t.err = err
  BY <1>1, <1>2, TolerateKeeps
<1> HIDE DEF t
<1>4. \/ /\ batch'.err = err /\ batch'.hi = batch.hi
         /\ \/ err = "observer" /\ batch'.res = batch.res
            \/ batch'.res = [batch.res EXCEPT ![batch.at] = t]
      \/ Advance(failed)
  BY <1>1, FailBatchSlotEffect DEF t
<1> HIDE DEF failed
<1>5. CASE Advance(failed)
  BY <1>2, <1>5, AdvanceBlamed
<1>6. CASE err = "observer" /\ batch'.err = err /\ batch'.res = batch.res
           /\ batch'.hi = batch.hi
  BY <1>6, BlamedKept DEF BatchBlamed
<1>7. CASE batch'.res = [batch.res EXCEPT ![batch.at] = t] /\ batch'.err = err
           /\ batch'.hi = batch.hi
  <2>1. /\ \A i : Faulty(i) => Faulty(i)'
        /\ err = "exec" => \A i : i = batch.at => Faulty(i)'
        /\ \A k : Shareable(k)' = Shareable(k)
        /\ NumSlots' = NumSlots
    BY DEF Remembered, Faulty, Shareable, NumSlots, Exp
  <2>2. SlotsBlamed'
    BY <1>1, <1>3, <1>7, <2>1 DEF SlotsBlamed
  <2>3. /\ batch.at \in 1..batch.hi /\ slot <= batch.at /\ slot \in Nat
        /\ batch.hi \in Nat /\ phase \in BatchPhases
    <3>1. phase \in BatchPhases
      BY DEF BatchPhases
    <3> QED
      BY <1>1, <3>1 DEF TypeInv, TypeOK, Control, Batch
  <2>4. \A k \in batch.at..batch.hi : k \in slot..batch.hi
    BY <2>3
  <2>5. \A k \in batch.at..batch.hi : Shareable(k)
    BY <2>3, <2>4 DEF SoundInv, Sound, BatchCovers, InBatch
  <2>6. BatchBlamed'
    BY <1>7, <2>1, <2>3, <2>5 DEF BatchBlamed
  <2> QED
    BY <2>2, <2>6
<1> QED
  BY <1>4, <1>5, <1>6, <1>7

\* An error reaches a batch only where a statement of it, or the total, failed.
LEMMA BatchBlamedStep ==
  ContractInv /\ CacheBlamed /\ SlotsBlamed /\ BatchBlamed /\ [Next]_vars =>
    SlotsBlamed' /\ BatchBlamed'
<1> SUFFICES ASSUME ContractInv, CacheBlamed, SlotsBlamed, BatchBlamed, [Next]_vars
             PROVE  SlotsBlamed' /\ BatchBlamed'
  OBVIOUS
<1>1. SoundInv /\ TypeInv /\ TypeOK
  BY DEF ContractInv, SoundInv, TypeInv
<1>2. \A err, slots : Blame(err, slots) => faults \subseteq faults'
  BY DEF Blame
<1>3. CASE Remembered /\ UNCHANGED batch
  BY <1>3, BlamedKept
<1>4. CASE BeginBatch
  <2> DEFINE unrendered == [k \in 1..NumSlots |-> [Blank(seg, k) EXCEPT !.err = "render"]]
             blank == [k \in 1..NumSlots |-> Blank(seg, k)]
  <2>1. \A k \in 1..NumSlots : blank[k].err # "exec" /\ unrendered[k].err # "exec"
    BY DEF Blank
  <2> HIDE DEF unrendered
  <2>2. \/ batch'.err = "none" /\ batch'.res = blank
        \/ batch'.err = "render" /\ batch'.res = unrendered
    BY <1>4 DEF BeginBatch, NoBatch, unrendered
  <2> HIDE DEF blank
  <2>3. run' = run
    BY <1>4 DEF BeginBatch
  <2> QED
    BY <2>1, <2>2, <2>3 DEF SlotsBlamed, BatchBlamed, NumSlots
<1>5. CASE LoadBatchTotal
  <2>1. PICK err \in Outcomes(TRUE) :
          /\ Blame(err, {0})
          /\ \/ \E n : batch' = [batch EXCEPT !.total = n]
             \/ FailChunk(err)
    BY <1>5 DEF LoadBatchTotal
  <2>2. Remembered /\ phase = "batchTotal" /\ err \in Errors
    BY <1>2, <1>5, <2>1 DEF LoadBatchTotal, Remembered, Outcomes, Errors
  <2>3. err = "exec" => Faulty(0)'
    BY <2>1, <2>2 DEF Blame, Faulty, Remembered
  <2>4. CASE \E n : batch' = [batch EXCEPT !.total = n]
    <3>1. /\ batch'.err = batch.err /\ batch'.hi = batch.hi
          /\ batch'.res = batch.res
      BY <1>1, <2>4 DEF TypeOK, Batch
    <3> QED
      BY <2>2, <3>1, BlamedKept
  <2> QED
    BY <1>1, <2>1, <2>2, <2>3, <2>4, FailChunkBlamed
<1>6. CASE UseBatchTotal
  <2>1. /\ phase = "batchTotal" /\ Remembered
        /\ \/ batch' = [batch EXCEPT !.total = cache.total]
           \/ FailChunk(cache.err)
    BY <1>6 DEF UseBatchTotal, Remembered
  <2>2. /\ cache.err \in Errors
        /\ cache.err = "exec" => Faulty(0)'
    BY <1>1, <2>1 DEF TypeOK, Cache, CacheBlamed, Faulty, Remembered
  <2>3. CASE batch' = [batch EXCEPT !.total = cache.total]
    BY <1>1, <2>1, <2>3, BlamedKept DEF TypeOK, Batch
  <2> QED
    BY <1>1, <2>1, <2>2, <2>3, FailChunkBlamed
<1>7. CASE CountBatch
  <2>1. PICK err \in Outcomes(TRUE) :
          /\ Blame(err, Chunk)
          /\ \/ /\ batch'.hi = batch.hi /\ batch'.err = batch.err
                /\ batch'.res = batch.res
             \/ FailChunk(err)
    BY <1>1, <1>7 DEF CountBatch, TypeOK, Batch
  <2>2. Remembered /\ phase = "batchCounts" /\ err \in Errors
    BY <1>2, <1>7, <2>1 DEF CountBatch, Remembered, Outcomes, Errors
  <2>3. err = "exec" => \A k \in Chunk : Faulty(k)'
    BY <2>1, <2>2 DEF Blame, Faulty, Remembered
  <2> QED
    BY <1>1, <2>1, <2>2, <2>3, BlamedKept, FailChunkBlamed
<1>8. CASE MeasureBatchSlot
  <2>1. Remembered /\ phase \in AtPhases
    BY <1>8 DEF MeasureBatchSlot, Remembered, AtPhases
  <2> DEFINE b == [Blank(seg, batch.at) EXCEPT !.total = batch.total]
             r == Observe(Exp(batch.at), b, batch.counts[batch.at])
  <2>2. Blank(seg, batch.at) \in Result /\ Blank(seg, batch.at).err = "none"
        /\ Exp(batch.at) \in Expectation /\ batch.total \in Nat
        /\ batch.counts[batch.at] \in Nat
    BY <1>1, <2>1, BlankTyped, BatchFacts DEF Blank, Batch
  <2>3. b \in Result /\ b.err = "none"
    BY <2>2 DEF Result
  <2> HIDE DEF b
  <2>4. r \in Result
    BY <2>2, <2>3, ObserveTyped
  <2>5. r.err = "none"
    BY <2>3 DEF Observe, Result
  <2>6. UNCHANGED batch \/ Advance(r)
    BY <1>8 DEF MeasureBatchSlot, b
  <2> HIDE DEF r
  <2> QED
    BY <1>1, <1>3, <2>1, <2>4, <2>5, <2>6, AdvanceBlamed
<1>9. ASSUME phase \in AtPhases, cur.err = "none", UNCHANGED <<run, seg>>,
             NEW err \in Outcomes(TRUE), Blame(err, {batch.at}),
             NEW r \in Result, r.err = "none",
             UNCHANGED batch \/ Advance(r) \/ FailBatchSlot(cur, err)
      PROVE  SlotsBlamed' /\ BatchBlamed'
  <2>1. Remembered /\ err \in Errors /\ cur \in Result
    BY <1>1, <1>2, <1>9 DEF Remembered, Outcomes, Errors, TypeOK
  <2>2. err = "exec" => <<seg, batch.at>> \in faults'
    BY <1>9 DEF Blame, Faulty
  <2> QED
    BY <1>1, <1>3, <1>9, <2>1, <2>2, AdvanceBlamed, FailBatchSlotBlamed
<1>10. CASE BatchSamples
  <2>1. phase \in AtPhases /\ cur.err = "none" /\ cur \in Result
    BY <1>1, <1>10 DEF BatchSamples, AtPhases, SoundInv, Sound, CurFits, Counted, Begun,
       TypeOK
  <2> DEFINE n == Capped(run.sampleCap, Cardinality(Failing(Exp(batch.at), seg, rows)))
             r == [cur EXCEPT !.samples = n]
  <2>2. n \in Nat
    BY <1>1, <2>1, BatchFacts, CountsAreNat, CappedTyped DEF Run
  <2> HIDE DEF n
  <2>3. r \in Result /\ r.err = "none"
    BY <2>1, <2>2 DEF Result
  <2>4. UNCHANGED <<run, seg>> /\ \E err \in Outcomes(TRUE) :
          /\ Blame(err, {batch.at})
          /\ UNCHANGED batch \/ Advance(r) \/ FailBatchSlot(cur, err)
    BY <1>10 DEF BatchSamples, n
  <2> HIDE DEF r
  <2> QED
    BY <1>9, <2>1, <2>3, <2>4
<1>11. CASE BatchKeys
  <2>1. phase \in AtPhases /\ cur.err = "none" /\ cur \in Result
    BY <1>1, <1>11 DEF BatchKeys, AtPhases, SoundInv, Sound, CurFits, Counted, Begun,
       TypeOK
  <2> DEFINE n == Capped(run.failedKeysCap, Cardinality(Failing(Exp(batch.at), seg, rows)))
             r == [cur EXCEPT !.keys = n]
  <2>2. n \in Nat
    BY <1>1, <2>1, BatchFacts, CountsAreNat, CappedTyped DEF Run
  <2> HIDE DEF n
  <2>3. r \in Result /\ r.err = "none"
    BY <2>1, <2>2 DEF Result
  <2>4. UNCHANGED <<run, seg>> /\ \E err \in Outcomes(TRUE) :
          /\ Blame(err, {batch.at})
          /\ UNCHANGED batch \/ Advance(r) \/ FailBatchSlot(cur, err)
    BY <1>11 DEF BatchKeys, n
  <2> HIDE DEF r
  <2> QED
    BY <1>9, <2>1, <2>3, <2>4
<1>12. CASE EndSegment
  <2> DEFINE next == [k \in 1..NumSlots |-> Blank(seg + 1, k)]
  <2>1. \A k \in 1..NumSlots : next[k].err # "exec"
    BY DEF Blank
  <2> HIDE DEF next
  <2>2. \/ batch'.err # "exec" /\ batch'.res = next /\ run' = run
        \/ Remembered /\ UNCHANGED batch
    BY <1>12 DEF EndSegment, NoBatch, Remembered, next
  <2> QED
    BY <1>3, <2>1, <2>2 DEF SlotsBlamed, BatchBlamed, NumSlots
<1>13. CASE LoadTotal \/ Measure \/ Samples \/ Keys
  <2>1. UNCHANGED <<run, seg, batch>> /\ \E err, slots : Blame(err, slots)
    BY <1>13 DEF LoadTotal, Measure, Samples, Keys
  <2> QED
    BY <1>2, <1>3, <2>1 DEF Remembered
<1>14. CASE UNCHANGED <<run, seg, faults, batch>>
  BY <1>3, <1>14 DEF Remembered
<1> QED
  BY <1>4, <1>5, <1>6, <1>7, <1>8, <1>10, <1>11, <1>12, <1>13, <1>14
  DEF Next, Step, Returned, vars, Preflight, RecordIssue, BeginSlot, UseCachedTotal,
      TakeFromBatch, Write

\* No statement of a slot that finished without an error has failed.
LEMMA FinishedCleanStep ==
  ContractInv /\ FaultsBehind /\ FinishedClean /\ [Next]_vars => FinishedClean'
<1> SUFFICES ASSUME ContractInv, FaultsBehind, FinishedClean, [Next]_vars,
                    NEW k, Finished(k)', batch'.res[k].err = "none", Faulty(k)'
             PROVE  FALSE
  BY DEF FinishedClean
<1>1. SoundInv /\ PanicsSeen /\ CurRaw /\ TypeInv /\ TypeOK
  BY DEF ContractInv, SoundInv, TypeInv
<1>2. /\ run' = run /\ seg' = seg /\ k \in 1..NumSlots /\ NumSlots \in Nat
      /\ \/ Finished(k) /\ batch'.res[k] = batch.res[k]
         \/ k = batch.at /\ phase \in AtPhases
  BY <1>1, FinishedStep, RunTyped DEF TypeOK
<1>3. CASE Finished(k) /\ batch'.res[k] = batch.res[k]
  <2>1. <<seg, k>> \notin faults /\ <<seg, k>> \in faults' /\ k # 0
    BY <1>2, <1>3 DEF FinishedClean, Faulty
  <2> QED
    BY <1>1, <1>3, <2>1, NewFaults
<1>4. CASE k = batch.at /\ phase \in AtPhases
  <2>1. ~Faulty(k)
    BY <1>2, <1>4 DEF FaultsBehind, Behind
  <2>2. faults' # faults /\ <<seg, k>> \in faults' /\ <<seg, k>> \notin faults
    BY <1>2, <2>1 DEF Faulty
  <2>3. FailBatchSlot(cur, "exec")
    BY <1>1, <1>4, <2>2, FaultStep DEF AtPhases, SlotPhases
  <2> DEFINE failed == [cur EXCEPT !.err = "exec", !.success = FALSE]
             t == Tolerate(Exp(batch.at), failed)
  <2>4. cur \in Result /\ "exec" \in Errors
    BY <1>1 DEF TypeOK, Errors
  <2>5. failed \in Result /\ failed.err = "exec"
    BY <2>4 DEF Result
  <2>6. t.err = "exec" /\ batch.res \in [1..NumSlots -> Result]
    BY <1>1, <1>4, <2>5, BatchFacts, TolerateKeeps DEF Batch
  <2>7. phase' = "slot" => batch'.err = "none"
    BY DEF Finished, AtPhases
  <2>8. Advance(failed)
    BY <1>1, <1>4, <2>3, <2>4, <2>7, FailBatchSlotEffect
  <2> HIDE DEF failed
  <2>9. batch'.res = [batch.res EXCEPT ![batch.at] = t]
    BY <1>1, <1>4, <2>5, <2>8, AdvanceEffect
  <2> HIDE DEF t
  <2> QED
    BY <1>2, <1>4, <2>6, <2>9
<1> QED
  BY <1>2, <1>3, <1>4

\* A later failure blames no result already published.
LEMMA BlameKept ==
  ASSUME ContractInv, Met, [Next]_vars, NEW r \in Published
  PROVE  /\ OwnFault(r) => OwnFault(r)'
         /\ r.err = "none" /\ ~OwnFault(r) => ~OwnFault(r)'
         /\ Placed(r) => Placed(r)'
<1>1. SoundInv /\ TypeInv /\ TypeOK
  BY DEF ContractInv, SoundInv, TypeInv
<1>2. run' = run
  BY Reaction DEF ContractInv
<1>3. /\ \A i : UsesSegmentTotal(i)' = UsesSegmentTotal(i)
      /\ \A i : InBatch(i)' = InBatch(i) /\ Shareable(i)' = Shareable(i)
      /\ NumSlots' = NumSlots
  BY <1>2 DEF UsesSegmentTotal, CachesTotal, InBatch, Shareable, NumSlots, Exp
<1>4. CASE faults' = faults
  BY <1>3, <1>4 DEF Placed, OwnFault
<1>5. CASE faults' # faults
  <2>1. faults \subseteq faults'
    BY <1>1, <1>5, FaultStep
  <2>2. phase # "error"
    BY <1>1, <1>5, FaultStep DEF SlotPhases
  <2>3. r.slot \in 1..NumSlots /\ r.seg \in Nat /\ NumSlots \in Nat /\ slot \in Nat
    BY <1>1, RunTyped DEF SoundInv, Sound, ReportFits, TypeOK
  <2>4. r.seg = seg => r.slot < slot
    BY <2>2 DEF Met
  <2>5. <<r.seg, r.slot>> \in faults' => <<r.seg, r.slot>> \in faults
    BY <1>1, <2>3, <2>4, NewFaults
  <2>6. r.err = "none" /\ UsesSegmentTotal(r.slot) /\ <<r.seg, 0>> \in faults' =>
          <<r.seg, 0>> \in faults
    <3>1. r.err = "none" /\ UsesSegmentTotal(r.slot) /\ r.seg = seg => cache.loaded
      BY <1>1 DEF SoundInv, Sound, ReportFits
    <3>2. 0 \notin slot..NumSlots
      BY <1>1, <2>3 DEF TypeOK
    <3>3. ASSUME <<r.seg, 0>> \in faults', <<r.seg, 0>> \notin faults
          PROVE  r.seg = seg /\ ~cache.loaded
      <4> DEFINE f == <<r.seg, 0>>
      <4>1. f[1] = r.seg /\ f[2] = 0
        OBVIOUS
      <4>2. f = <<seg, f[2]>> /\ ((f[2] = 0 /\ ~cache.loaded) \/ f[2] \in slot..NumSlots)
        BY <1>1, <3>3, NewFaults
      <4> QED
        BY <3>2, <4>1, <4>2
    <3> QED
      BY <3>1, <3>3
  <2>7. r.err = "none" /\ ~OwnFault(r) => ~OwnFault(r)'
    BY <1>3, <2>5, <2>6 DEF OwnFault
  <2>8. OwnFault(r) => OwnFault(r)'
    BY <1>3, <2>1 DEF OwnFault
  <2> QED
    BY <1>3, <2>1, <2>7, <2>8 DEF Placed
<1> QED
  BY <1>4, <1>5

-----------------------------------------------------------------------------
\* A statement slot i of the current segment depends on has failed.
Blamed(i) == Faulty(i) \/ (UsesSegmentTotal(i) /\ Faulty(0))

\* r holds an execution error exactly when a statement it depends on failed.
Attributed(r) == r.err \in {"none", "exec"} => (r.err = "exec" <=> OwnFault(r))

\* What the step publishes, if anything, holds the errors of its batch, or just
\* those it depends on.
PublishesPlaced ==
  \/ results' = results
  \/ results' = <<>>
  \/ \E q : results' = Append(results, q) /\ Placed(q)'

PublishesAttributed ==
  \/ results' = results
  \/ results' = <<>>
  \/ \E q : results' = Append(results, q) /\ Attributed(q)'

\* An attributed error is in place.
LEMMA AttributedPlaced == PublishesAttributed => PublishesPlaced
<1>1. \A q : Attributed(q)' => Placed(q)'
  BY DEF Attributed, Placed
<1> QED
  BY <1>1 DEF PublishesAttributed, PublishesPlaced

\* A sequential slot is published with the error it depends on.
LEMMA SettleAttributed ==
  ASSUME TypeInv, UNCHANGED <<run, seg>>, slot \in 1..NumSlots, NEW r \in Result,
         r.seg = seg, r.slot = slot, NEW err \in Errors, Settle(r, err),
         NEW i, i = slot,
         err = "exec" => Blamed(i)',
         err = "none" => ~Blamed(i)'
  PROVE  PublishesAttributed
<1>1. CASE Aborts(err)
  BY <1>1 DEF Settle, Abort, PublishesAttributed
<1>2. CASE ~Aborts(err)
  <2>1. PICK q \in Result : SameFigures(q, r) /\ q.err = err /\ Publish(q)
    BY <1>2, SettleEffect
  <2>2. Attributed(q)'
    BY <2>1 DEF Attributed, OwnFault, Blamed, Faulty, SameFigures
  <2> QED
    BY <2>1, <2>2 DEF Publish, PublishesAttributed
<1> QED
  BY <1>1, <1>2

\* A slot that is measured depends on no failed statement.
LEMMA MeasuringClean ==
  ASSUME SoundInv, CacheBlamed, FaultsBehind, phase \in {"measure", "samples", "keys"}
  PROVE  ~Blamed(slot)
<1>1. slot \in Nat \ {0}
  BY SlotFacts DEF SoundInv, SlotPhases
<1>2. ~Faulty(slot)
  BY <1>1 DEF FaultsBehind, Behind, SlotPhases
<1>3. UsesSegmentTotal(slot) => cache.err = "none"
  BY DEF SoundInv, Sound, CurFits, Counted, TotalFits
<1> QED
  BY <1>2, <1>3 DEF Blamed, CacheBlamed

\* The sequential statements publish what they blame.
LEMMA SlotAttributed ==
  ASSUME ContractInv, Met, CacheBlamed, FaultsBehind,
         BeginSlot \/ LoadTotal \/ UseCachedTotal \/ Measure \/ Samples \/ Keys
  PROVE  PublishesAttributed
<1>1. SoundInv /\ TypeInv /\ TypeOK
  BY DEF ContractInv, SoundInv, TypeInv
<1>2. UNCHANGED <<run, seg>> /\ "none" \in Errors
  BY DEF BeginSlot, LoadTotal, UseCachedTotal, Measure, Samples, Keys, Errors
<1>3. \A i : UsesSegmentTotal(i)' = UsesSegmentTotal(i)
  BY <1>2 DEF UsesSegmentTotal, CachesTotal, NumSlots, Exp
<1>4. \A p : Goto(p) => PublishesAttributed
  BY DEF Goto, PublishesAttributed
<1>5. CASE BeginSlot
  <2>1. slot \in 1..NumSlots /\ slot \in Nat /\ seg \in 1..NumSegments
    BY <1>1, <1>5, RunTyped DEF BeginSlot, TypeOK
  <2>2. /\ Blank(seg, slot) \in Result /\ Blank(seg, slot).seg = seg
        /\ Blank(seg, slot).slot = slot /\ "render" \in Errors
    BY <2>1, BlankTyped DEF Blank, Errors
  <2>3. Settle(Blank(seg, slot), "render") \/ \E p : Goto(p)
    BY <1>5 DEF BeginSlot
  <2> QED
    BY <1>1, <1>2, <1>4, <2>1, <2>2, <2>3, SettleAttributed
<1>6. ASSUME phase \in SlotPhases
      PROVE  /\ slot \in 1..NumSlots /\ cur \in Result /\ cur.seg = seg /\ cur.slot = slot
             /\ Blank(seg, slot) \in Result /\ Blank(seg, slot).seg = seg
             /\ Blank(seg, slot).slot = slot
  <2>1. slot \in 1..NumSlots /\ cur \in Result /\ slot \in Nat /\ seg \in 1..NumSegments
    BY <1>1, <1>6, SlotFacts
  <2>2. cur.seg = seg /\ cur.slot = slot
    BY <1>1, <1>6 DEF SoundInv, Sound, CurFits, Counted, Begun, SlotPhases
  <2> QED
    BY <2>1, <2>2, BlankTyped DEF Blank
<1>7. CASE LoadTotal
  <2> DEFINE e == Exp(slot)
  <2>1. phase = "total" /\ phase \in SlotPhases
    BY <1>7 DEF LoadTotal, SlotPhases
  <2>2. PICK err \in Outcomes(TRUE) :
          /\ Blame(err, {IF CachesTotal(e) THEN 0 ELSE slot})
          /\ \/ Goto("measure")
             \/ err # "none" /\ Settle(cur, err)
    BY <1>7 DEF LoadTotal
  <2>3. err = "exec" => \A i : i = slot => Blamed(i)'
    <3>1. UsesTotal(e)
      BY <2>1 DEF Met
    <3>2. CASE CachesTotal(e)
      BY <1>2, <1>3, <2>2, <3>1, <3>2 DEF Blame, Blamed, Faulty, UsesSegmentTotal
    <3>3. CASE ~CachesTotal(e)
      BY <1>2, <2>2, <3>3 DEF Blame, Blamed, Faulty
    <3> QED
      BY <3>2, <3>3
  <2> HIDE DEF e
  <2>4. err \in Errors
    BY DEF Outcomes, Errors
  <2> QED
    BY <1>1, <1>2, <1>4, <1>6, <2>1, <2>2, <2>3, <2>4, SettleAttributed
<1>8. CASE UseCachedTotal
  <2>1. phase = "total" /\ phase \in SlotPhases /\ faults' = faults
    BY <1>8 DEF UseCachedTotal, SlotPhases
  <2>2. Goto("measure") \/ (cache.err # "none" /\ Settle(cur, cache.err))
    BY <1>8 DEF UseCachedTotal
  <2>3. UsesSegmentTotal(slot) /\ cache.err \in Errors
    BY <1>1, <1>8, <2>1 DEF UseCachedTotal, Met, UsesSegmentTotal, TypeOK, Cache
  <2>4. cache.err = "exec" => \A i : i = slot => Blamed(i)'
    BY <1>2, <1>3, <2>1, <2>3 DEF CacheBlamed, Blamed, Faulty
  <2> QED
    BY <1>1, <1>2, <1>4, <1>6, <2>1, <2>2, <2>3, <2>4, SettleAttributed
<1>9. ASSUME phase \in {"measure", "samples", "keys"}, NEW err \in Outcomes(TRUE),
             Blame(err, {slot})
      PROVE  /\ err \in Errors
             /\ err = "exec" => \A i : i = slot => Blamed(i)'
             /\ err = "none" => \A i : i = slot => ~Blamed(i)'
  <2>1. ~Blamed(slot)
    BY <1>1, <1>9, MeasuringClean
  <2>2. err = "none" => \A i : i = slot => ~Blamed(i)'
    BY <1>2, <1>3, <1>9, <2>1 DEF Blame, Blamed, Faulty
  <2>3. err = "exec" => \A i : i = slot => Blamed(i)'
    BY <1>2, <1>9 DEF Blame, Blamed, Faulty
  <2> QED
    BY <2>2, <2>3 DEF Outcomes, Errors
<1>10. CASE Measure
  <2> DEFINE e == Exp(slot)
             r == Observe(e, cur, Measured(e, seg, rows))
  <2>1. phase = "measure" /\ phase \in SlotPhases
    BY <1>10 DEF Measure, SlotPhases
  <2>2. PICK err \in Outcomes(EmitsEvent(e)) :
          /\ Blame(err, {slot})
          /\ \/ \E p : Goto(p)
             \/ err # "none" /\ Settle(Blank(seg, slot), err)
             \/ err = "none" /\ Settle(r, "none")
    BY <1>10 DEF Measure
  <2>3. err \in Outcomes(TRUE)
    BY DEF Outcomes
  <2>4. Measured(e, seg, rows) \in Nat /\ r \in Result
    BY <1>1, <2>1, SlotFacts, CountsAreNat, ObserveTyped
  <2>5. r.seg = seg /\ r.slot = slot
    BY <1>6, <2>1 DEF Observe, Result
  <2> HIDE DEF r, e
  <2> QED
    BY <1>1, <1>2, <1>4, <1>6, <1>9, <2>1, <2>2, <2>3, <2>4, <2>5, SettleAttributed
<1>11. CASE Samples
  <2> DEFINE n == Capped(run.sampleCap, Cardinality(Failing(Exp(slot), seg, rows)))
             r == [cur EXCEPT !.samples = n]
  <2>1. phase = "samples" /\ phase \in SlotPhases
    BY <1>11 DEF Samples, SlotPhases
  <2>2. PICK err \in Outcomes(TRUE) :
          /\ Blame(err, {slot})
          /\ \/ \E p : Goto(p)
             \/ err # "none" /\ Settle(cur, err)
             \/ err = "none" /\ Settle(r, "none")
    BY <1>11 DEF Samples
  <2>3. n \in Nat
    BY <1>1, <2>1, SlotFacts, CountsAreNat, CappedTyped DEF Run
  <2> HIDE DEF n
  <2>4. r \in Result /\ r.seg = seg /\ r.slot = slot
    BY <1>6, <2>1, <2>3 DEF Result
  <2> HIDE DEF r
  <2> QED
    BY <1>1, <1>2, <1>4, <1>6, <1>9, <2>1, <2>2, <2>4, SettleAttributed
<1>12. CASE Keys
  <2> DEFINE n == Capped(run.failedKeysCap, Cardinality(Failing(Exp(slot), seg, rows)))
             r == [cur EXCEPT !.keys = n]
  <2>1. phase = "keys" /\ phase \in SlotPhases
    BY <1>12 DEF Keys, SlotPhases
  <2>2. PICK err \in Outcomes(TRUE) :
          Blame(err, {slot}) /\ (Settle(cur, err) \/ Settle(r, err))
    BY <1>12 DEF Keys
  <2>3. n \in Nat
    BY <1>1, <2>1, SlotFacts, CountsAreNat, CappedTyped DEF Run
  <2> HIDE DEF n
  <2>4. r \in Result /\ r.seg = seg /\ r.slot = slot
    BY <1>6, <2>1, <2>3 DEF Result
  <2> HIDE DEF r
  <2> QED
    BY <1>1, <1>2, <1>6, <1>9, <2>1, <2>2, <2>4, SettleAttributed
<1> QED
  BY <1>5, <1>7, <1>8, <1>10, <1>11, <1>12

\* A batch hands a slot over with the error it depends on, or with the batch's.
LEMMA TakeBlames ==
  ASSUME ContractInv, CacheBlamed, SlotsBlamed, FinishedClean, TakeFromBatch
  PROVE  /\ UNCHANGED <<run, seg, faults>> /\ phase = "slot"
         /\ InBatch(slot) /\ slot \in slot..batch.hi /\ slot \in 1..NumSlots
         /\ \/ results' = <<>>
            \/ \E q \in Result :
                 /\ results' = Append(results, q) /\ q.seg = seg /\ q.slot = slot
                 /\ q.tolerated = batch.res[slot].tolerated
                 /\ q.err = IF batch.res[slot].err # "none" THEN batch.res[slot].err
                            ELSE batch.err
                 /\ q.err # "none" => run.continueOnError
                 /\ batch.err # "observer"
                 /\ q.err = "none" => ~Blamed(slot)
                 /\ q.err = "exec" => Blamed(slot) \/ batch.err = "exec"
<1>1. SoundInv /\ TypeInv /\ TypeOK
  BY DEF ContractInv, SoundInv, TypeInv
<1>2. /\ UNCHANGED <<run, seg, faults>> /\ phase = "slot" /\ InBatch(slot)
      /\ slot <= batch.hi
  BY <1>1 DEF TakeFromBatch
<1>3. /\ slot \in 1..NumSlots /\ batch.res[slot] \in Result
      /\ batch.res[slot].seg = seg /\ batch.res[slot].slot = slot
      /\ batch.err \in Errors /\ slot \in Nat /\ batch.hi \in Nat /\ NumSlots \in Nat
  BY <1>1, TakeEffect, RunTyped DEF TypeOK, Batch
<1>4. PICK r \in Result : r = batch.res[slot]
  BY <1>3
<1>5. PICK err \in Errors : err = IF r.err # "none" THEN r.err ELSE batch.err
  BY <1>3 DEF Result
<1>6. PICK q \in Result : q = WithError(r, err)
  BY WithErrorTyped
<1>7. \/ results' = <<>>
      \/ /\ results' = Append(results, q) /\ batch.err # "observer"
         /\ err # "none" => run.continueOnError
  BY <1>4, <1>5, <1>6 DEF TakeFromBatch, Abort, Aborts, Publish
<1>8. /\ q.err = err /\ q.seg = seg /\ q.slot = slot /\ q.tolerated = r.tolerated
  BY <1>3, <1>4, <1>6 DEF WithError, Result
<1>9. UsesSegmentTotal(slot) /\ slot \in slot..batch.hi
  BY <1>2, <1>3, InBatchFacts
<1>10. err = "none" => ~Blamed(slot)
  <2> SUFFICES ASSUME err = "none" PROVE ~Blamed(slot)
    OBVIOUS
  <2>1. r.err = "none" /\ batch.err = "none"
    BY <1>5
  <2>2. ~Faulty(slot)
    BY <1>2, <1>4, <1>9, <2>1 DEF FinishedClean, Finished
  <2>3. Fits(slot, batch.res[slot])
    BY <1>1, <1>2, <1>9, <2>1 DEF SoundInv, Sound, BatchFits
  <2>4. ~Faulty(0)
    BY <1>4, <1>9, <2>1, <2>3 DEF Fits, TotalFits, CacheBlamed
  <2> QED
    BY <2>2, <2>4 DEF Blamed
<1>11. err = "exec" => Blamed(slot) \/ batch.err = "exec"
  BY <1>3, <1>4, <1>5, <1>9 DEF SlotsBlamed, Blamed
<1> QED
  BY <1>2, <1>3, <1>4, <1>5, <1>7, <1>8, <1>9, <1>10, <1>11

\* What a batch hands over holds the errors of its batch.
LEMMA TakePlaced ==
  ASSUME ContractInv, CacheBlamed, SlotsBlamed, BatchBlamed, FinishedClean, TakeFromBatch
  PROVE  PublishesPlaced
<1>1. SoundInv /\ TypeInv /\ TypeOK
  BY DEF ContractInv, SoundInv, TypeInv
<1>2. /\ UNCHANGED <<run, seg, faults>> /\ phase = "slot"
      /\ InBatch(slot) /\ slot \in slot..batch.hi /\ slot \in 1..NumSlots
  BY TakeBlames
<1>3. \A i : /\ UsesSegmentTotal(i)' = UsesSegmentTotal(i)
             /\ InBatch(i)' = InBatch(i) /\ Shareable(i)' = Shareable(i)
  BY <1>2 DEF UsesSegmentTotal, CachesTotal, InBatch, Shareable, NumSlots, Exp
<1>4. NumSlots' = NumSlots /\ NumSlots \in Nat /\ slot \in Nat /\ batch.hi \in Nat
  BY <1>1, <1>2, RunTyped DEF NumSlots, TypeOK, Batch
<1>5. SUFFICES ASSUME NEW q \in Result, results' = Append(results, q),
                      q.seg = seg, q.slot = slot,
                      q.err = "none" => ~Blamed(slot),
                      q.err = "exec" => Blamed(slot) \/ batch.err = "exec"
               PROVE  Placed(q)'
  BY TakeBlames DEF PublishesPlaced
<1>6. CASE q.err = "exec" => Blamed(slot)
  BY <1>2, <1>3, <1>5, <1>6 DEF Placed, OwnFault, Blamed, Faulty
<1>7. CASE q.err = "exec" /\ batch.err = "exec" /\ ~Faulty(0)
  <2>1. PICK i \in 1..batch.hi : Faulty(i) /\ \A k \in i..batch.hi : Shareable(k)
    BY <1>7 DEF BatchBlamed
  <2>2. \A k \in slot..batch.hi : Shareable(k)
    BY <1>1, <1>2 DEF SoundInv, Sound, BatchCovers, InBatch
  <2>3. \A k \in i..slot \cup slot..i : k \in i..batch.hi \/ k \in slot..batch.hi
    BY <1>2, <1>4, <2>1
  <2>4. \A k \in i..slot \cup slot..i : Shareable(k)
    BY <2>1, <2>2, <2>3
  <2>5. i \in i..batch.hi
    BY <1>4, <2>1
  <2>6. i \in 1..NumSlots
    BY <2>1, <2>5 DEF Shareable
  <2> QED
    BY <1>2, <1>3, <1>4, <1>5, <1>7, <2>1, <2>4, <2>6 DEF Placed, Faulty
<1>8. Faulty(0) => Blamed(slot)
  BY <1>2, InBatchFacts DEF Blamed
<1> QED
  BY <1>5, <1>6, <1>7, <1>8

\* Errors stay in the batch, and with the slot, whose statement failed.
LEMMA ErrorsStayStep ==
  ContractInv /\ BlameInv /\ [Next]_vars => ErrorsStayInBatch'
<1> SUFFICES ASSUME ContractInv, BlameInv, [Next]_vars PROVE ErrorsStayInBatch'
  OBVIOUS
<1>1. /\ Met /\ CacheBlamed /\ FaultsBehind /\ SlotsBlamed /\ BatchBlamed
      /\ FinishedClean /\ ErrorsStayInBatch /\ results \in Seq(Result)
  BY DEF BlameInv, ContractInv, SoundInv, TypeInv, TypeOK
<1>2. ErrorsStayInBatch <=> \A r \in Published : Placed(r)
  BY DEF ErrorsStayInBatch, Placed
<1>3. ErrorsStayInBatch' <=> \A r \in Published' : Placed(r)'
  BY DEF ErrorsStayInBatch, Placed
<1>4. PublishesPlaced
  <2>1. CASE RecordIssue
    <3> DEFINE q == [Blank(seg, slot) EXCEPT !.err = "config"]
    <3>1. q.err = "config" /\ results' = Append(results, q)
      BY <2>1 DEF RecordIssue, Publish, Blank
    <3> HIDE DEF q
    <3> QED
      BY <3>1 DEF PublishesPlaced, Placed
  <2>2. CASE BeginSlot \/ LoadTotal \/ UseCachedTotal \/ Measure \/ Samples \/ Keys
    BY <1>1, <2>2, SlotAttributed, AttributedPlaced
  <2>3. CASE TakeFromBatch
    BY <1>1, <2>3, TakePlaced
  <2>4. CASE UNCHANGED results
    BY <2>4 DEF PublishesPlaced
  <2> QED
    BY <2>1, <2>2, <2>3, <2>4
    DEF Next, Step, Returned, vars, Preflight, BeginBatch, LoadBatchTotal, UseBatchTotal,
        CountBatch, FailChunk, MeasureBatchSlot, BatchSamples, BatchKeys, FailBatchSlot,
        Advance, EndSegment, Write, Goto
<1>5. \A r \in Published : Placed(r)'
  BY <1>1, <1>2, BlameKept
<1>6. CASE results' = results
  BY <1>3, <1>5, <1>6 DEF Published
<1>7. CASE results' = <<>>
  BY <1>3, <1>7 DEF Published
<1>8. ASSUME NEW q, results' = Append(results, q), Placed(q)'
      PROVE  ErrorsStayInBatch'
  <2>1. Published' = Published \cup {q}
    BY <1>1, <1>8, PublishedAppend
  <2> QED
    BY <1>3, <1>5, <1>8, <2>1
<1> QED
  BY <1>4, <1>6, <1>7, <1>8 DEF PublishesPlaced

\* A call starts without faults.
LEMMA InitBlame == Init => BlameInv
<1> SUFFICES ASSUME Init PROVE BlameInv
  OBVIOUS
<1>1. /\ faults = {} /\ results = <<>> /\ phase = "start" /\ cache = EmptyCache
      /\ batch = NoBatch
  BY DEF Init
<1>2. \A k \in 1..NumSlots : NoBatch.res[k].err = "none"
  BY DEF NoBatch, Blank
<1>3. NoBatch.err = "none" /\ EmptyCache.err = "none"
  BY DEF NoBatch, EmptyCache
<1>4. Met /\ ErrorsStayInBatch
  BY <1>1 DEF Met, ErrorsStayInBatch, Published
<1>5. CacheBlamed /\ FaultsBehind /\ FinishedClean
  BY <1>1, <1>3 DEF CacheBlamed, FaultsBehind, FinishedClean, Faulty
<1>6. SlotsBlamed /\ BatchBlamed
  BY <1>1, <1>2, <1>3 DEF SlotsBlamed, BatchBlamed
<1> QED
  BY <1>4, <1>5, <1>6 DEF BlameInv

\* Every step keeps the blame in place.
LEMMA NextBlame ==
  ASSUME ContractInv, BlameInv, [Next]_vars
  PROVE  ContractInv' /\ BlameInv'
<1>1. ContractInv' /\ ErrorsStayInBatch'
  BY NextContract, ErrorsStayStep
<1>2. Met' /\ CacheBlamed' /\ FaultsBehind'
  BY MetStep, CacheBlamedStep, FaultsBehindStep DEF BlameInv, ContractInv
<1>3. SlotsBlamed' /\ BatchBlamed' /\ FinishedClean'
  BY BatchBlamedStep, FinishedCleanStep DEF BlameInv
<1> QED
  BY <1>1, <1>2, <1>3 DEF BlameInv

\* An error never leaves the contiguous batch whose statement failed, and is
\* never lost.
THEOREM ErrorsStay == Spec => []ErrorsStayInBatch
<1>1. Init => ContractInv /\ BlameInv
  BY InitContract, InitBlame
<1>2. ContractInv /\ BlameInv /\ [Next]_vars => ContractInv' /\ BlameInv'
  BY NextBlame
<1>3. BlameInv => ErrorsStayInBatch
  BY DEF BlameInv
<1> QED
  BY <1>1, <1>2, <1>3, PTL DEF Spec

-----------------------------------------------------------------------------
(* When every batch is one chunk.                                          *)

\* No suite is longer than what one statement may count.
OneChunk == \A c \in Runs : Len(c.suite) <= MaxTargets

\* The chunk under evaluation is the whole batch, which starts at the slot whose
\* turn it is, and nothing has failed in it so far.
Whole ==
  phase \in BatchPhases =>
    batch.from = slot /\ batch.to = batch.hi /\ batch.err = "none"

\* When errors are recorded, a chunk-level error has reached every slot of the
\* batch that is still to be taken.
Reached ==
  run.continueOnError /\ batch.err \notin {"none", "observer"} =>
    \A k \in slot..batch.hi : batch.res[k].err # "none"

\* Slots of a batch that hold an error are not tolerated, nor are those that
\* have not been counted.
Untolerated ==
  \A k \in 1..NumSlots :
    batch.res[k].tolerated =>
      batch.res[k].err = "none" /\ phase \notin {"batchTotal", "batchCounts"}

ChunkInv == Whole /\ Reached /\ Untolerated

\* A batch begins as a chunk that reaches its end.
LEMMA ChunkIsBatch ==
  ASSUME TypeOK, OneChunk, NEW from \in Nat \ {0}, NEW hi \in 1..NumSlots
  PROVE  ChunkEnd(from, hi) = hi
<1>1. NumSlots <= MaxTargets /\ NumSlots \in Nat /\ MaxTargets \in Nat
  BY RunTyped, MaxTargetsAssumption DEF TypeOK, OneChunk, NumSlots
<1> QED
  BY <1>1 DEF ChunkEnd

\* A step that leaves the batch alone, or starts a segment with none.
LEMMA ChunkStays ==
  ASSUME TypeInv, ChunkInv, UNCHANGED <<run, batch>>, phase' \notin BatchPhases,
         slot' >= slot, slot' \in Nat
  PROVE  ChunkInv'
<1>1. slot \in Nat /\ batch.hi \in Nat
  BY RunTyped DEF TypeInv, TypeOK, Batch
<1>2. \A k \in slot'..batch.hi : k \in slot..batch.hi
  BY <1>1
<1>3. NumSlots' = NumSlots
  BY DEF NumSlots
<1>4. Reached'
  BY <1>2 DEF ChunkInv, Reached
<1> QED
  BY <1>3, <1>4 DEF ChunkInv, Whole, Untolerated, BatchPhases

\* A policy never tolerates a result that holds an error.
LEMMA ErrorUntolerated ==
  ASSUME NEW e \in Expectation, NEW r \in Result, r.err # "none", ~r.tolerated
  PROVE  ~Tolerate(e, r).tolerated
BY DEF Tolerate, Result

\* A slot of the one chunk is finished: the batch goes on or is done.
LEMMA FinishChunkSlot ==
  ASSUME TypeInv, OneChunk, ChunkInv, phase \in AtPhases, NEW r \in Result, Advance(r),
         UNCHANGED run, r.err # "none" => ~r.tolerated
  PROVE  ChunkInv'
<1> DEFINE t == Tolerate(Exp(batch.at), r)
<1>1. /\ batch \in Batch /\ batch.at \in 1..NumSlots /\ Exp(batch.at) \in Expectation
      /\ phase \in BatchPhases
  BY BatchFacts DEF BatchPhases
<1>2. batch.from = slot /\ batch.to = batch.hi /\ batch.err = "none"
  BY <1>1 DEF ChunkInv, Whole
<1>3. /\ batch'.err = "none" /\ batch'.res = [batch.res EXCEPT ![batch.at] = t]
      /\ batch'.hi = batch.hi
  BY <1>2, AdvanceEffect
<1>4. /\ slot' = slot /\ phase' \in {"batchSlot", "slot"}
      /\ batch'.from = batch.from /\ batch'.to = batch.to
  <2> DEFINE b == DecoratedBatch(r)
  <2>1. /\ b.from = batch.from /\ b.to = batch.to
        /\ [b EXCEPT !.at = batch.at + 1].from = b.from
        /\ [b EXCEPT !.at = batch.at + 1].to = b.to
    BY <1>1 DEF DecoratedBatch, Batch
  <2>2. ~(batch.to < batch.hi)
    BY <1>1, <1>2 DEF Batch
  <2> HIDE DEF b
  <2>3. \/ batch' = [b EXCEPT !.at = batch.at + 1] /\ Goto("batchSlot")
        \/ batch' = b /\ Goto("slot")
    BY <2>2 DEF Advance, b
  <2> QED
    BY <2>1, <2>3 DEF Goto
<1>5. NumSlots' = NumSlots
  BY DEF NumSlots
<1>6. t.tolerated => t.err = "none"
  <2>1. t.err = r.err
    BY <1>1, TolerateKeeps
  <2> QED
    BY <1>1, <2>1, ErrorUntolerated
<1> HIDE DEF t
<1>7. \A k \in 1..NumSlots : batch'.res[k] = IF k = batch.at THEN t ELSE batch.res[k]
  BY <1>1, <1>3 DEF Batch
<1>8. Untolerated'
  BY <1>4, <1>5, <1>6, <1>7 DEF ChunkInv, Untolerated
<1> QED
  BY <1>2, <1>3, <1>4, <1>8 DEF ChunkInv, Whole, Reached

\* Every step of a call keeps its batches in one chunk.
LEMMA ChunkStep == OneChunk /\ ContractInv /\ ChunkInv /\ [Next]_vars => ChunkInv'
<1> SUFFICES ASSUME OneChunk, ContractInv, ChunkInv, [Next]_vars PROVE ChunkInv'
  OBVIOUS
<1>1. SoundInv /\ TypeInv /\ TypeOK /\ PanicsSeen /\ CurRaw
  BY DEF ContractInv, SoundInv, TypeInv
<1>2. slot \in Nat /\ NumSlots \in Nat
  BY <1>1, RunTyped DEF TypeOK
<1>3. /\ \A p : Goto(p) => slot' = slot /\ phase' = p
      /\ \A r, err : Settle(r, err) =>
           slot' \in {slot, slot + 1} /\ phase' \in {"slot", "error"}
  BY DEF Goto, Settle, Abort, Publish
<1>4. CASE Preflight \/ RecordIssue
  BY <1>1, <1>2, <1>3, <1>4, ChunkStays DEF Preflight, RecordIssue, Publish, BatchPhases, AtPhases
<1>5. CASE BeginSlot \/ LoadTotal \/ UseCachedTotal \/ Measure \/ Samples \/ Keys
  <2>1. /\ UNCHANGED <<run, batch>>
        /\ \/ \E p \in SlotPhases : Goto(p)
           \/ \E r \in Result, err \in Errors : Settle(r, err)
    BY <1>1, <1>5, SlotStep
  <2> QED
    BY <1>1, <1>2, <1>3, <2>1, ChunkStays DEF SlotPhases, BatchPhases, AtPhases
<1>6. CASE BeginBatch
  <2>1. PICK h \in slot..NumSlots :
          \/ /\ batch' = [NoBatch EXCEPT !.hi = h, !.from = slot, !.to = ChunkEnd(slot, h)]
             /\ Goto("batchTotal")
          \/ /\ batch' = [NoBatch EXCEPT
                            !.hi = h, !.err = "render",
                            !.res = [k \in 1..NumSlots |->
                                       [Blank(seg, k) EXCEPT !.err = "render"]]]
             /\ Goto("slot")
    BY <1>6 DEF BeginBatch
  <2>2. slot \in Nat \ {0} /\ h \in 1..NumSlots /\ run' = run /\ NumSlots' = NumSlots
    BY <1>1, <1>2, <1>6 DEF BeginBatch, TypeOK, NumSlots
  <2>3. ChunkEnd(slot, h) = h
    BY <1>1, <2>2, ChunkIsBatch
  <2>4. \A k \in 1..NumSlots :
          /\ ~NoBatch.res[k].tolerated
          /\ [Blank(seg, k) EXCEPT !.err = "render"].err = "render"
          /\ ~[Blank(seg, k) EXCEPT !.err = "render"].tolerated
    BY DEF NoBatch, Blank
  <2>5. CASE /\ batch' = [NoBatch EXCEPT !.hi = h, !.from = slot, !.to = ChunkEnd(slot, h)]
             /\ Goto("batchTotal")
    <3>1. /\ batch'.from = slot /\ batch'.to = h /\ batch'.hi = h /\ batch'.err = "none"
          /\ batch'.res = NoBatch.res
      BY <2>3, <2>5 DEF NoBatch
    <3> QED
      BY <1>3, <2>2, <2>4, <2>5, <3>1 DEF ChunkInv, Whole, Reached, Untolerated
  <2>6. CASE /\ batch' = [NoBatch EXCEPT
                            !.hi = h, !.err = "render",
                            !.res = [k \in 1..NumSlots |->
                                       [Blank(seg, k) EXCEPT !.err = "render"]]]
             /\ Goto("slot")
    <3>1. /\ batch'.hi = h
          /\ batch'.res = [k \in 1..NumSlots |-> [Blank(seg, k) EXCEPT !.err = "render"]]
      BY <2>6 DEF NoBatch
    <3>2. \A k \in 1..NumSlots : batch'.res[k].err = "render" /\ ~batch'.res[k].tolerated
      BY <2>4, <3>1
    <3>3. \A k \in slot..h : k \in 1..NumSlots
      BY <1>2, <2>2
    <3> QED
      BY <1>3, <2>2, <2>6, <3>1, <3>2, <3>3
      DEF ChunkInv, Whole, Reached, Untolerated, BatchPhases, AtPhases
  <2> QED
    BY <2>1, <2>5, <2>6
<1>7. CASE \/ LoadBatchTotal \/ UseBatchTotal \/ CountBatch
           \/ MeasureBatchSlot \/ BatchSamples \/ BatchKeys
  <2>1. UNCHANGED <<run, seg, slot, results>> /\ NumSlots' = NumSlots /\ batch \in Batch
    BY <1>1, <1>7, BatchStep DEF NumSlots, TypeOK
  <2>2. CASE /\ phase = "batchTotal" /\ phase' = "batchCounts"
             /\ \E n \in Nat : batch' = [batch EXCEPT !.total = n]
    <3>1. /\ batch'.from = batch.from /\ batch'.to = batch.to /\ batch'.hi = batch.hi
          /\ batch'.err = batch.err /\ batch'.res = batch.res
      BY <2>1, <2>2 DEF Batch
    <3> QED
      BY <2>1, <2>2, <3>1 DEF ChunkInv, Whole, Reached, Untolerated, BatchPhases
  <2>3. CASE CountBatch /\ phase' = "batchSlot"
    <3> DEFINE c == [k \in 1..NumSlots |-> Measured(Exp(k), seg, rows)]
    <3>1. batch' = [batch EXCEPT !.at = batch.from, !.counts = c]
      BY <2>3 DEF CountBatch, FailChunk, Goto
    <3> HIDE DEF c
    <3>2. /\ batch'.from = batch.from /\ batch'.to = batch.to /\ batch'.hi = batch.hi
          /\ batch'.err = batch.err /\ batch'.res = batch.res
      BY <2>1, <3>1 DEF Batch
    <3> QED
      BY <2>1, <2>3, <3>2 DEF CountBatch, ChunkInv, Whole, Reached, Untolerated, BatchPhases
  <2>4. ASSUME NEW err \in Errors \ {"none"}, FailChunk(err),
               phase \in {"batchTotal", "batchCounts"}
        PROVE  ChunkInv'
    <3>1. /\ phase' = "slot" /\ batch'.err = err /\ batch'.hi = batch.hi
          /\ \A k \in 1..NumSlots :
               batch'.res[k] = IF k \in Chunk THEN [batch.res[k] EXCEPT !.err = err]
                               ELSE batch.res[k]
      BY <1>1, <2>4, FailChunkEffect
    <3>2. /\ Chunk = slot..batch.hi /\ batch.hi <= NumSlots /\ batch.hi \in Nat
          /\ slot \in 1..NumSlots
      BY <1>1, <2>1, <2>4 DEF ChunkInv, Whole, Chunk, TypeInv, Control, BatchPhases, Batch
    <3>3. \A k \in 1..NumSlots :
            /\ ~batch.res[k].tolerated /\ batch.res[k] \in Result
            /\ [batch.res[k] EXCEPT !.err = err].err = err
            /\ ~[batch.res[k] EXCEPT !.err = err].tolerated
      BY <2>1, <2>4 DEF ChunkInv, Untolerated, Batch, Result
    <3>4. \A k \in slot..batch.hi : k \in 1..NumSlots
      BY <1>2, <3>2
    <3>5. Reached'
      <4>1. \A k \in slot..batch.hi : batch'.res[k] = [batch.res[k] EXCEPT !.err = err]
        BY <3>1, <3>2, <3>4
      <4>2. \A k \in slot..batch.hi : batch'.res[k].err # "none"
        BY <3>3, <3>4, <4>1
      <4> QED
        BY <2>1, <3>1, <4>2 DEF Reached
    <3>6. Untolerated'
      BY <2>1, <3>1, <3>3 DEF Untolerated
    <3> QED
      BY <3>1, <3>5, <3>6 DEF ChunkInv, Whole, BatchPhases, AtPhases
  <2>5. CASE phase \in AtPhases /\ phase' \in AtPhases /\ UNCHANGED batch
    BY <2>1, <2>5 DEF ChunkInv, Whole, Reached, Untolerated, BatchPhases, AtPhases
  <2>6. ASSUME phase \in AtPhases, NEW r \in Result, r.err = "none",
               Raw(Exp(batch.at), r), Advance(r)
        PROVE  ChunkInv'
    BY <1>1, <2>1, <2>6, FinishChunkSlot
  <2>7. ASSUME phase \in AtPhases, NEW r \in Result, r.err = "none",
               Raw(Exp(batch.at), r), NEW err \in Errors \ {"none"}, FailBatchSlot(r, err)
        PROVE  ChunkInv'
    <3> DEFINE f == [r EXCEPT !.err = err, !.success = FALSE]
               t == Tolerate(Exp(batch.at), f)
    <3>1. f \in Result /\ f.err = err /\ ~f.tolerated
      BY <2>7 DEF Result, Raw
    <3>2. \/ /\ phase' = "slot" /\ batch'.err = err
             /\ \/ err = "observer" /\ batch'.res = batch.res
                \/ batch'.res = [batch.res EXCEPT ![batch.at] = t]
          \/ Advance(f)
      BY <1>1, <2>7, FailBatchSlotEffect
    <3>3. err = "observer" \/ ~run.continueOnError \/ Advance(f)
      BY <2>7 DEF FailBatchSlot
    <3>4. batch.at \in 1..NumSlots /\ Exp(batch.at) \in Expectation
      BY <1>1, <2>7, BatchFacts
    <3> HIDE DEF f
    <3>5. ~t.tolerated
      BY <3>1, <3>4, ErrorUntolerated
    <3> HIDE DEF t
    <3>6. CASE Advance(f)
      BY <1>1, <2>1, <2>7, <3>1, <3>6, FinishChunkSlot
    <3>7. CASE ~Advance(f)
      <4>1. Reached'
        BY <2>1, <3>2, <3>3, <3>7 DEF Reached
      <4>2. \A k \in 1..NumSlots :
              batch'.res[k].tolerated => batch'.res[k] = batch.res[k]
        BY <2>1, <3>2, <3>4, <3>5, <3>7 DEF Batch
      <4>3. Untolerated'
        BY <2>1, <3>2, <3>7, <4>2 DEF ChunkInv, Untolerated
      <4> QED
        BY <3>2, <3>7, <4>1, <4>3 DEF ChunkInv, Whole, BatchPhases, AtPhases
    <3> QED
      BY <3>6, <3>7
  <2>8. phase = "batchCounts" /\ phase' = "batchSlot" => CountBatch
    BY <1>7 DEF LoadBatchTotal, UseBatchTotal, MeasureBatchSlot, BatchSamples, BatchKeys
  <2> QED
    BY <1>1, <1>7, <2>2, <2>3, <2>4, <2>5, <2>6, <2>7, <2>8, BatchStep
<1>8. CASE TakeFromBatch
  <2>1. UNCHANGED <<run, batch>> /\ slot' \in {slot, slot + 1} /\ phase' \in {"slot", "error"}
    BY <1>8 DEF TakeFromBatch, Abort, Publish
  <2> QED
    BY <1>1, <1>2, <2>1, ChunkStays DEF BatchPhases, AtPhases
<1>9. CASE EndSegment
  <2>1. CASE LastSegment
    BY <1>1, <1>2, <1>9, <2>1, ChunkStays DEF EndSegment, BatchPhases, AtPhases
  <2>2. CASE ~LastSegment
    <3>1. /\ batch' = [NoBatch EXCEPT !.res = [k \in 1..NumSlots |-> Blank(seg + 1, k)]]
          /\ phase' = "slot" /\ run' = run
      BY <1>9, <2>2 DEF EndSegment
    <3>2. /\ batch'.err = "none"
          /\ \A k \in 1..NumSlots : ~batch'.res[k].tolerated
      BY <3>1 DEF NoBatch, Blank
    <3> QED
      BY <3>1, <3>2
      DEF ChunkInv, Whole, Reached, Untolerated, BatchPhases, AtPhases, NumSlots
  <2> QED
    BY <2>1, <2>2
<1>10. CASE Write \/ UNCHANGED vars
  <2>1. UNCHANGED <<run, phase, slot, batch>>
    BY <1>10 DEF Write, vars
  <2> QED
    BY <2>1 DEF ChunkInv, Whole, Reached, Untolerated, NumSlots
<1> QED
  BY <1>4, <1>5, <1>6, <1>7, <1>8, <1>9, <1>10 DEF Next, Step, Returned

\* A call starts with no batch.
LEMMA InitChunk == Init => ChunkInv
<1> SUFFICES ASSUME Init PROVE ChunkInv
  OBVIOUS
<1>1. /\ phase = "start" /\ batch = NoBatch
  BY DEF Init
<1>2. NoBatch.err = "none" /\ \A k \in 1..NumSlots : ~NoBatch.res[k].tolerated
  BY DEF NoBatch, Blank
<1> QED
  BY <1>1, <1>2 DEF ChunkInv, Whole, Reached, Untolerated, BatchPhases, AtPhases

\* A batch of one chunk hands a slot over with the error it depends on, and an
\* error it hands over is not tolerated.
LEMMA TakeWhole ==
  ASSUME ContractInv, CacheBlamed, SlotsBlamed, FinishedClean, ChunkInv, TakeFromBatch
  PROVE  \/ results' = <<>>
         \/ \E q : /\ results' = Append(results, q) /\ Attributed(q)'
                   /\ q.err # "none" => ~q.tolerated
<1>1. /\ UNCHANGED <<run, seg, faults>>
      /\ InBatch(slot) /\ slot \in slot..batch.hi /\ slot \in 1..NumSlots
  BY TakeBlames
<1>2. /\ UsesSegmentTotal(slot) /\ \A i : UsesSegmentTotal(i)' = UsesSegmentTotal(i)
  BY <1>1, InBatchFacts DEF UsesSegmentTotal, CachesTotal, NumSlots, Exp
<1>3. SUFFICES ASSUME NEW q \in Result, results' = Append(results, q),
                      q.seg = seg, q.slot = slot,
                      q.tolerated = batch.res[slot].tolerated,
                      q.err = IF batch.res[slot].err # "none" THEN batch.res[slot].err
                              ELSE batch.err,
                      q.err # "none" => run.continueOnError,
                      batch.err # "observer",
                      q.err = "none" => ~Blamed(slot)
               PROVE  Attributed(q)' /\ (q.err # "none" => ~q.tolerated)
  BY TakeBlames
<1>4. q.err # "none" => batch.res[slot].err # "none"
  BY <1>1, <1>3 DEF ChunkInv, Reached
<1>5. q.err = "exec" => Blamed(slot)
  BY <1>1, <1>2, <1>3, <1>4 DEF SlotsBlamed, Blamed
<1>6. Attributed(q)'
  BY <1>1, <1>2, <1>3, <1>5 DEF Attributed, OwnFault, Blamed, Faulty
<1>7. q.err # "none" => ~q.tolerated
  BY <1>1, <1>3, <1>4 DEF ChunkInv, Untolerated
<1> QED
  BY <1>6, <1>7

\* What a step publishes holds just the errors it depends on.
LEMMA AttributedStep ==
  ASSUME ContractInv, BlameInv, ChunkInv, ErrorsAreAttributed, [Next]_vars
  PROVE  ErrorsAreAttributed'
<1>1. /\ Met /\ CacheBlamed /\ FaultsBehind /\ SlotsBlamed /\ FinishedClean
      /\ results \in Seq(Result)
  BY DEF BlameInv, ContractInv, SoundInv, TypeInv, TypeOK
<1>2. ErrorsAreAttributed <=> \A r \in Published : Attributed(r)
  BY DEF ErrorsAreAttributed, Attributed
<1>3. ErrorsAreAttributed' <=> \A r \in Published' : Attributed(r)'
  BY DEF ErrorsAreAttributed, Attributed
<1>4. PublishesAttributed
  <2>1. CASE RecordIssue
    <3> DEFINE q == [Blank(seg, slot) EXCEPT !.err = "config"]
    <3>1. q.err = "config" /\ results' = Append(results, q)
      BY <2>1 DEF RecordIssue, Publish, Blank
    <3> HIDE DEF q
    <3> QED
      BY <3>1 DEF PublishesAttributed, Attributed
  <2>2. CASE BeginSlot \/ LoadTotal \/ UseCachedTotal \/ Measure \/ Samples \/ Keys
    BY <1>1, <2>2, SlotAttributed
  <2>3. CASE TakeFromBatch
    BY <1>1, <2>3, TakeWhole DEF PublishesAttributed
  <2>4. CASE UNCHANGED results
    BY <2>4 DEF PublishesAttributed
  <2> QED
    BY <2>1, <2>2, <2>3, <2>4
    DEF Next, Step, Returned, vars, Preflight, BeginBatch, LoadBatchTotal, UseBatchTotal,
        CountBatch, FailChunk, MeasureBatchSlot, BatchSamples, BatchKeys, FailBatchSlot,
        Advance, EndSegment, Write, Goto
<1>5. \A r \in Published : Attributed(r)'
  <2> SUFFICES ASSUME NEW r \in Published PROVE Attributed(r)'
    OBVIOUS
  <2>1. Attributed(r)
    BY <1>2
  <2>2. /\ OwnFault(r) => OwnFault(r)'
        /\ r.err = "none" /\ ~OwnFault(r) => ~OwnFault(r)'
    BY <1>1, BlameKept
  <2> QED
    BY <2>1, <2>2 DEF Attributed
<1>6. CASE results' = results
  BY <1>3, <1>5, <1>6 DEF Published
<1>7. CASE results' = <<>>
  BY <1>3, <1>7 DEF Published
<1>8. ASSUME NEW q, results' = Append(results, q), Attributed(q)'
      PROVE  ErrorsAreAttributed'
  <2>1. Published' = Published \cup {q}
    BY <1>1, <1>8, PublishedAppend
  <2> QED
    BY <1>3, <1>5, <1>8, <2>1
<1> QED
  BY <1>4, <1>6, <1>7, <1>8 DEF PublishesAttributed

\* What a step publishes with an error is not tolerated.
LEMMA UntoleratedStep ==
  ASSUME ContractInv, BlameInv, ChunkInv, ErrorsAreNeverTolerated, [Next]_vars
  PROVE  ErrorsAreNeverTolerated'
<1>1. /\ CacheBlamed /\ SlotsBlamed /\ FinishedClean /\ SoundInv /\ TypeInv
      /\ PanicsSeen /\ CurRaw /\ results \in Seq(Result)
  BY DEF BlameInv, ContractInv, SoundInv, TypeInv, TypeOK
<1>2. ASSUME NEW q, results' = Append(results, q), q.err # "none" => ~q.tolerated
      PROVE  ErrorsAreNeverTolerated'
  <2>1. Published' = Published \cup {q}
    BY <1>1, <1>2, PublishedAppend
  <2>2. q.err # "none" => ~q.success
    <3>1. PICK r : (r.err # "none" => ~r.success) /\ results' = Append(results, r)
      <4>1. results' # results /\ results' # <<>>
        BY <1>1, <1>2
      <4> QED
        BY <1>1, <4>1, PublishedStep
    <3>2. \A p : results' = Append(results, p) => results'[Len(results) + 1] = p
      BY <1>1
    <3> QED
      BY <1>2, <3>1, <3>2
  <2> QED
    BY <1>2, <2>1, <2>2 DEF ErrorsAreNeverTolerated
<1>3. CASE results' = results
  BY <1>3 DEF ErrorsAreNeverTolerated, Published
<1>4. CASE results' = <<>>
  BY <1>4 DEF ErrorsAreNeverTolerated, Published
<1>5. CASE RecordIssue
  <2> DEFINE q == [Blank(seg, slot) EXCEPT !.err = "config"]
  <2>1. ~q.tolerated /\ results' = Append(results, q)
    BY <1>5 DEF RecordIssue, Publish, Blank
  <2> HIDE DEF q
  <2> QED
    BY <1>2, <2>1
<1>6. CASE BeginSlot \/ LoadTotal \/ UseCachedTotal \/ Measure \/ Samples \/ Keys
  <2>1. CASE \E p \in SlotPhases : Goto(p)
    BY <1>3, <2>1 DEF Goto
  <2>2. ASSUME NEW r \in Result, NEW err \in Errors, Settle(r, err), ~r.tolerated
        PROVE  ErrorsAreNeverTolerated'
    <3>1. CASE Aborts(err)
      BY <1>4, <2>2, <3>1 DEF Settle, Abort
    <3>2. CASE ~Aborts(err)
      <4> DEFINE d == [r EXCEPT !.err = err]
                 t == Tolerate(Exp(slot), d)
      <4>1. slot \in 1..NumSlots /\ Exp(slot) \in Expectation
        BY <1>1, <1>6, SlotStep, RunTyped DEF TypeInv, TypeOK
      <4>2. d \in Result /\ d.err = err /\ ~d.tolerated
        BY <2>2 DEF Result
      <4>3. PICK q \in Result :
              /\ q = WithError(Decorated(Exp(slot), r, err), err)
              /\ q.err = err /\ Publish(q)
        BY <1>1, <2>2, <3>2, <4>1, SettleEffect
      <4>4. Decorated(Exp(slot), r, err) = t
        BY DEF Decorated
      <4> HIDE DEF d
      <4>5. t \in Result /\ (err # "none" => ~t.tolerated)
        BY <4>1, <4>2, TolerateTyped, ErrorUntolerated
      <4> HIDE DEF t
      <4>6. q.tolerated = t.tolerated
        BY <4>3, <4>4, <4>5 DEF WithError, Result
      <4> QED
        BY <1>2, <4>3, <4>5, <4>6 DEF Publish
    <3> QED
      BY <3>1, <3>2
  <2> QED
    BY <1>1, <1>6, <2>1, <2>2, SlotStep
<1>7. CASE TakeFromBatch
  BY <1>1, <1>2, <1>4, <1>7, TakeWhole
<1> QED
  BY <1>3, <1>5, <1>6, <1>7
  DEF Next, Step, Returned, vars, Preflight, BeginBatch, LoadBatchTotal, UseBatchTotal,
      CountBatch, FailChunk, MeasureBatchSlot, BatchSamples, BatchKeys, FailBatchSlot,
      Advance, EndSegment, Write, Goto

\* The invariant behind both.
WholeInv == ContractInv /\ BlameInv /\ ChunkInv

\* Every step keeps it.
LEMMA NextWhole == OneChunk /\ WholeInv /\ [Next]_vars => WholeInv'
<1> SUFFICES ASSUME OneChunk, WholeInv, [Next]_vars PROVE WholeInv'
  OBVIOUS
<1> QED
  BY NextBlame, ChunkStep DEF WholeInv

\* When no suite is longer than one chunk, a slot of the report holds an
\* execution error exactly when a statement it depends on failed.
THEOREM ErrorsAttributed ==
  ASSUME OneChunk
  PROVE  Spec => []ErrorsAreAttributed
<1>1. Init => WholeInv /\ ErrorsAreAttributed
  <2>1. Init => ErrorsAreAttributed
    BY DEF Init, ErrorsAreAttributed, Published
  <2> QED
    BY <2>1, InitContract, InitBlame, InitChunk DEF WholeInv
<1>2. WholeInv /\ ErrorsAreAttributed /\ [Next]_vars => WholeInv' /\ ErrorsAreAttributed'
  BY NextWhole, AttributedStep DEF WholeInv
<1> QED
  BY <1>1, <1>2, PTL DEF Spec

\* Nor is a result that holds an error ever marked tolerated.
THEOREM ErrorsUntolerated ==
  ASSUME OneChunk
  PROVE  Spec => []ErrorsAreNeverTolerated
<1>1. Init => WholeInv /\ ErrorsAreNeverTolerated
  <2>1. Init => ErrorsAreNeverTolerated
    BY DEF Init, ErrorsAreNeverTolerated, Published
  <2> QED
    BY <2>1, InitContract, InitBlame, InitChunk DEF WholeInv
<1>2. WholeInv /\ ErrorsAreNeverTolerated /\ [Next]_vars =>
        WholeInv' /\ ErrorsAreNeverTolerated'
  BY NextWhole, UntoleratedStep DEF WholeInv
<1> QED
  BY <1>1, <1>2, PTL DEF Spec

-----------------------------------------------------------------------------
(* Observed statements.                                                    *)

\* Every statement of an observed call is one that reports to the observer.
AllReport ==
  \A c \in Runs : c.observed => \A i \in 1..Len(c.suite) : EmitsEvent(c.suite[i])

\* A call whose statements all report has told the observer of each of them.
THEOREM StatementsObserved ==
  ASSUME AllReport
  PROVE  Spec => []EveryStatementObserved
<1>1. Init => TypeInv /\ EveryStatementObserved
  BY InitTyped DEF Init, EveryStatementObserved
<1>2. TypeInv /\ EveryStatementObserved /\ [Next]_vars =>
        TypeInv' /\ EveryStatementObserved'
  <2> SUFFICES ASSUME TypeInv, EveryStatementObserved, [Next]_vars
               PROVE  EveryStatementObserved'
    BY NextTyped
  <2>1. issued \in Nat /\ events \in Nat /\ run \in Runs
    BY DEF TypeInv, TypeOK
  <2>2. ASSUME NEW emits \in BOOLEAN, Issue(emits), run' = run, run.observed => emits
        PROVE  EveryStatementObserved'
    BY <2>1, <2>2 DEF Issue, EveryStatementObserved
  <2>3. CASE Measure
    <3>1. run.observed => EmitsEvent(Exp(slot))
      <4>1. slot \in 1..NumSlots
        BY <2>3 DEF Measure, TypeInv, Control, SlotPhases
      <4> QED
        BY <2>1, <4>1 DEF AllReport, Exp, NumSlots
    <3>2. Issue(EmitsEvent(Exp(slot))) /\ run' = run /\ EmitsEvent(Exp(slot)) \in BOOLEAN
      BY <2>3 DEF Measure, EmitsEvent
    <3> QED
      BY <2>2, <3>1, <3>2
  <2>4. CASE LoadTotal \/ Samples \/ Keys \/ LoadBatchTotal \/ CountBatch
             \/ BatchSamples \/ BatchKeys
    <3>1. Issue(TRUE) /\ run' = run
      BY <2>4
      DEF LoadTotal, Samples, Keys, LoadBatchTotal, CountBatch, BatchSamples, BatchKeys
    <3> QED
      BY <2>2, <3>1
  <2>5. CASE UNCHANGED <<run, issued, events>>
    BY <2>5 DEF EveryStatementObserved
  <2> QED
    BY <2>3, <2>4, <2>5
    DEF Next, Step, Returned, vars, Preflight, RecordIssue, BeginSlot, UseCachedTotal,
        NoIssue, BeginBatch, UseBatchTotal, MeasureBatchSlot, TakeFromBatch, EndSegment,
        Write
<1> QED
  BY <1>1, <1>2, PTL DEF Spec

=============================================================================
