------------------------ MODULE ValidateRun_proofs ------------------------
(***************************************************************************)
(* Type correctness of ValidateRun, and what ValidateTable reports.        *)
(*                                                                         *)
(* The types alone are not inductive: an expectation is looked up by the   *)
(* current slot or by the cursor of the batch, so TypeInv adds that these  *)
(* stay within the suite (Control).                                        *)
(*                                                                         *)
(* The two theorems on the report say that sharing one total, and one      *)
(* counting statement, changes no figure of it.  Their invariant follows a *)
(* figure from the statement that read it to the report: the cached total  *)
(* (CacheExact), the result under construction (CurFits), the slots of a   *)
(* batch (BatchNamed, BatchCovers, BatchFits) and the results published    *)
(* (ReportFits).                                                           *)
(***************************************************************************)
EXTENDS ValidateRun, SequenceTheorems, FiniteSetTheorems, TLAPS

-----------------------------------------------------------------------------
(* The operators.                                                          *)

\* The call under way is one of the calls considered, and its slots are expectations.
LEMMA RunTyped ==
  ASSUME run \in Runs
  PROVE  /\ run \in Run
         /\ NumSlots \in Nat
         /\ \A i \in 1..NumSlots : Exp(i) \in Expectation
<1>1. run \in Run
  BY RunsAssumption
<1>2. run.suite \in Seq(Expectation)
  BY <1>1 DEF Run
<1> QED
  BY <1>1, <1>2 DEF NumSlots, Exp

\* Every statement returns a natural number: the table is finite.
LEMMA CountsAreNat ==
  ASSUME NEW e \in Expectation, NEW s \in 1..NumSegments, NEW T \in SUBSET Rows
  PROVE  /\ Cardinality(Population(e, s, T)) \in Nat
         /\ Cardinality(Failing(e, s, T)) \in Nat
         /\ Measured(e, s, T) \in Nat
<1>1. Population(e, s, T) \subseteq Rows /\ Failing(e, s, T) \subseteq Rows
  BY DEF Population, Failing
<1>2. IsFiniteSet(Population(e, s, T)) /\ IsFiniteSet(Failing(e, s, T))
  BY <1>1, RowsFinite, FS_Subset
<1>3. /\ Cardinality(Population(e, s, T)) \in Nat
      /\ Cardinality(Failing(e, s, T)) \in Nat
  BY <1>2, FS_CardinalityType
<1> QED
  BY <1>3 DEF Measured

\* A slot starts from a well-formed empty result.
LEMMA BlankTyped ==
  ASSUME NEW s \in 1..NumSegments, NEW i \in Nat
  PROVE  Blank(s, i) \in Result
BY DEF Blank, Result, Errors

\* Recording a measurement keeps the result well formed.
LEMMA ObserveTyped ==
  ASSUME NEW e \in Expectation, NEW r \in Result, NEW n \in Nat
  PROVE  Observe(e, r, n) \in Result
<1>1. RawVerdict(e, r.total, n) \in BOOLEAN
  BY DEF RawVerdict
<1> QED
  BY <1>1 DEF Observe, Result

\* A policy keeps the result well formed.
LEMMA TolerateTyped ==
  ASSUME NEW e \in Expectation, NEW r \in Result
  PROVE  Tolerate(e, r) \in Result
<1>1. Allowed(e, r) \in BOOLEAN
  BY DEF Allowed
<1>2. (Allowed(e, r) /\ MarkedTolerated(e, r)) \in BOOLEAN
  OBVIOUS
<1> QED
  BY <1>1, <1>2 DEF Tolerate, Result

\* Recording an error keeps the result well formed.
LEMMA WithErrorTyped ==
  ASSUME NEW r \in Result, NEW err \in Errors
  PROVE  WithError(r, err) \in Result
BY DEF WithError, Result

\* The decorated result of an evaluation is well formed.
LEMMA DecoratedTyped ==
  ASSUME NEW e \in Expectation, NEW r \in Result, NEW err \in Errors
  PROVE  Decorated(e, r, err) \in Result
<1>1. [r EXCEPT !.err = err] \in Result
  BY DEF Result
<1> QED
  BY <1>1, TolerateTyped DEF Decorated

-----------------------------------------------------------------------------
\* A sequential slot is between its statements; a batch slot is; a batch is.
SlotPhases == {"total", "measure", "samples", "keys"}
AtPhases == {"batchSlot", "batchSamples", "batchKeys"}
BatchPhases == {"batchTotal", "batchCounts"} \cup AtPhases

\* While a slot is evaluated it is a slot of the suite; while a batch is, the
\* chunk lies within the batch and the cursor within the chunk.
Control ==
  /\ phase \in SlotPhases \cup BatchPhases => slot \in 1..NumSlots
  /\ phase \in BatchPhases =>
       /\ slot <= batch.from /\ batch.from <= batch.to
       /\ batch.to <= batch.hi /\ batch.hi <= NumSlots
  /\ phase \in AtPhases => batch.at \in batch.from..batch.to

TypeInv == TypeOK /\ Control

\* The call starts with typed values.
LEMMA InitTyped == Init => TypeInv
<1> SUFFICES ASSUME Init PROVE TypeInv
  OBVIOUS
<1>1. run \in Runs /\ NumSlots \in Nat
  BY RunTyped DEF Init
<1>2. 1 \in 1..NumSegments
  BY SegmentsAssumption
<1>3. cur \in Result
  BY <1>2, BlankTyped DEF Init
<1>4. batch \in Batch
  <2>1. \A k \in 1..NumSlots : Blank(seg, k) \in Result
    BY <1>1, <1>2, BlankTyped DEF Init
  <2> QED
    BY <2>1 DEF Init, NoBatch, Batch, Errors
<1>5. cache \in Cache
  BY DEF Init, EmptyCache, Cache, Errors
<1> QED
  BY <1>1, <1>2, <1>3, <1>4, <1>5
  DEF Init, TypeInv, TypeOK, Control, Phases, SlotPhases, BatchPhases, AtPhases

\* Finishing a slot of a batch keeps the batch typed and its cursor in bounds:
\* the next chunk starts behind the last one and ends within the batch.
LEMMA AdvanceTyped ==
  ASSUME TypeInv, phase \in AtPhases, NEW r \in Result, Advance(r), UNCHANGED run
  PROVE  /\ batch' \in Batch /\ slot' = slot /\ results' = results
         /\ phase' \in Phases /\ Control'
<1> DEFINE b == DecoratedBatch(r)
<1>1. /\ NumSlots \in Nat /\ batch.at \in 1..NumSlots
      /\ Exp(batch.at) \in Expectation
  BY RunTyped DEF TypeInv, TypeOK, Control, BatchPhases, AtPhases, Batch
<1>2. Tolerate(Exp(batch.at), r) \in Result
  BY <1>1, TolerateTyped
<1>3. /\ b \in Batch
      /\ b.from = batch.from /\ b.to = batch.to /\ b.hi = batch.hi
  BY <1>1, <1>2 DEF TypeInv, TypeOK, Batch, DecoratedBatch
<1>4. /\ batch.from \in Nat /\ batch.to \in Nat /\ batch.hi \in Nat /\ batch.at \in Nat
      /\ slot <= batch.from /\ batch.from <= batch.to
      /\ batch.to <= batch.hi /\ batch.hi <= NumSlots
      /\ batch.at \in batch.from..batch.to /\ slot \in 1..NumSlots
  BY DEF TypeInv, TypeOK, Control, BatchPhases, AtPhases, Batch
<1>5. slot' = slot /\ results' = results /\ NumSlots' = NumSlots
  BY DEF Advance, Goto, NumSlots
<1> HIDE DEF b
<1>6. CASE batch.at < batch.to
  <2>1. batch' = [b EXCEPT !.at = batch.at + 1] /\ phase' = "batchSlot"
    BY <1>6 DEF Advance, Goto, b
  <2>2. batch' \in Batch /\ batch'.from = batch.from /\ batch'.to = batch.to
        /\ batch'.hi = batch.hi /\ batch'.at = batch.at + 1
    <3>1. batch.at + 1 \in Nat
      BY <1>4
    <3>2. batch' \in Batch
      BY <2>1, <3>1, <1>3 DEF Batch
    <3>3. /\ batch'.from = b.from /\ batch'.to = b.to /\ batch'.hi = b.hi
          /\ batch'.at = batch.at + 1
      BY <2>1, <1>3 DEF Batch
    <3> QED
      BY <1>3, <3>2, <3>3
  <2>3. batch'.at \in batch'.from..batch'.to
    BY <1>4, <1>6, <2>2
  <2>4. Control'
    BY <1>4, <1>5, <2>1, <2>2, <2>3 DEF Control
  <2> QED
    BY <1>5, <2>1, <2>2, <2>4 DEF Phases
<1>7. CASE batch.at >= batch.to /\ batch.to < batch.hi
  <2>1. /\ batch' = [b EXCEPT !.from = NextFrom, !.to = ChunkEnd(NextFrom, batch.hi)]
        /\ phase' = "batchTotal"
    BY <1>4, <1>7 DEF Advance, Goto, b
  <2>2. /\ NextFrom \in Nat /\ ChunkEnd(NextFrom, batch.hi) \in Nat
        /\ NextFrom = batch.to + 1 /\ NextFrom <= ChunkEnd(NextFrom, batch.hi)
        /\ ChunkEnd(NextFrom, batch.hi) <= batch.hi
    BY <1>4, <1>7, MaxTargetsAssumption DEF NextFrom, ChunkEnd
  <2>3. /\ batch' \in Batch /\ batch'.from = NextFrom
        /\ batch'.to = ChunkEnd(NextFrom, batch.hi) /\ batch'.hi = batch.hi
    BY <2>1, <2>2, <1>3 DEF Batch
  <2> QED
    BY <1>4, <1>5, <1>7, <2>1, <2>2, <2>3
    DEF Phases, Control, SlotPhases, BatchPhases, AtPhases
<1>8. CASE batch.at >= batch.to /\ batch.to >= batch.hi
  <2>1. batch' = b /\ phase' = "slot"
    BY <1>4, <1>8 DEF Advance, Goto, b
  <2> QED
    BY <1>3, <1>5, <2>1 DEF Phases, Control, SlotPhases, BatchPhases, AtPhases
<1> QED
  BY <1>4, <1>6, <1>7, <1>8

\* Issuing a statement leaves typed counters and faults, whatever its outcome.
LEMMA StatementTyped ==
  ASSUME TypeOK, NEW emits \in BOOLEAN, NEW err \in Outcomes(emits),
         NEW slots \in SUBSET Nat, Issue(emits), Blame(err, slots)
  PROVE  /\ err \in Errors /\ issued' \in Nat /\ events' \in Nat
         /\ faults' \in SUBSET ((1..NumSegments) \X Nat)
<1>1. err \in Errors
  BY DEF Outcomes, Errors
<1>2. issued' \in Nat /\ events' \in Nat
  BY DEF Issue, TypeOK
<1>3. faults' \in SUBSET ((1..NumSegments) \X Nat)
  BY DEF Blame, TypeOK
<1> QED
  BY <1>1, <1>2, <1>3

\* A failing chunk leaves a typed batch behind.
LEMMA FailChunkTyped ==
  ASSUME TypeOK, NEW err \in Errors, FailChunk(err)
  PROVE  /\ batch' \in Batch /\ slot' = slot /\ results' = results
         /\ phase' = "slot"
<1>1. /\ slot' = slot /\ results' = results /\ phase' = "slot"
  BY DEF FailChunk, Goto
<1>2. \A k \in 1..NumSlots : [batch.res[k] EXCEPT !.err = err] \in Result
  BY DEF TypeOK, Batch, Result
<1>3. batch' \in Batch
  BY <1>2 DEF FailChunk, TypeOK, Batch
<1> QED
  BY <1>1, <1>3

\* A failing diagnostic statement leaves a typed batch and its cursor in bounds.
LEMMA FailBatchSlotTyped ==
  ASSUME TypeInv, phase \in AtPhases, NEW r \in Result, NEW err \in Errors,
         FailBatchSlot(r, err), UNCHANGED run
  PROVE  /\ batch' \in Batch /\ slot' = slot /\ results' = results
         /\ phase' \in Phases /\ Control'
<1> DEFINE failed == [r EXCEPT !.err = err, !.success = FALSE]
<1>1. failed \in Result
  BY DEF Result
<1>2. CASE phase' = "slot" /\ batch' = [batch EXCEPT !.err = err] /\ Goto("slot")
  BY <1>2 DEF TypeInv, TypeOK, Batch, Goto, Phases, Control, SlotPhases, BatchPhases, AtPhases
<1>3. CASE batch' = [DecoratedBatch(failed) EXCEPT !.err = err] /\ Goto("slot")
  <2>1. batch.at \in 1..NumSlots /\ Exp(batch.at) \in Expectation
    BY RunTyped DEF TypeInv, TypeOK, Control, BatchPhases, AtPhases, Batch
  <2>2. Tolerate(Exp(batch.at), failed) \in Result
    BY <1>1, <2>1, TolerateTyped
  <2>3. DecoratedBatch(failed) \in Batch
    BY <2>1, <2>2 DEF TypeInv, TypeOK, Batch, DecoratedBatch
  <2>4. batch' \in Batch
    BY <1>3, <2>3 DEF Batch
  <2> QED
    BY <1>3, <2>4 DEF Goto, Phases, Control, SlotPhases, BatchPhases, AtPhases
<1>4. CASE Advance(failed)
  BY <1>1, <1>4, AdvanceTyped
<1> QED
  BY <1>2, <1>3, <1>4 DEF FailBatchSlot, Goto

\* The typed values a step of the call leaves beside the control state.
DataTyped ==
  /\ run' = run /\ rows' = rows /\ seg' = seg
  /\ cache' \in Cache /\ cur' \in Result /\ batch' \in Batch
  /\ issued' \in Nat /\ events' \in Nat /\ totals' \in Nat
  /\ faults' \in SUBSET ((1..NumSegments) \X Nat)

\* Appending a result to the report keeps the types.
LEMMA PublishTyped ==
  ASSUME TypeInv, DataTyped, slot \in 1..NumSlots, NEW r \in Result, Publish(r)
  PROVE  TypeInv'
<1>1. NumSlots' = NumSlots /\ Batch' = Batch /\ NumSlots \in Nat
  BY RunTyped DEF DataTyped, NumSlots, Batch, TypeInv, TypeOK
<1>2. /\ results' \in Seq(Result)
      /\ slot' \in 1..(NumSlots + 1)
      /\ phase' = "slot"
  BY <1>1 DEF Publish, TypeInv, TypeOK
<1>3. TypeOK'
  BY <1>1, <1>2 DEF DataTyped, TypeInv, TypeOK, Phases
<1>4. Control'
  BY <1>2 DEF Control, SlotPhases, BatchPhases, AtPhases
<1> QED
  BY <1>3, <1>4 DEF TypeInv

\* Aborting the call keeps the types.
LEMMA AbortTyped ==
  ASSUME TypeInv, DataTyped, Abort
  PROVE  TypeInv'
<1>1. NumSlots' = NumSlots /\ Batch' = Batch
  BY DEF DataTyped, NumSlots, Batch
<1>2. results' \in Seq(Result) /\ slot' = slot /\ phase' = "error"
  BY DEF Abort
<1>3. TypeOK'
  BY <1>1, <1>2 DEF DataTyped, TypeInv, TypeOK, Phases
<1>4. Control'
  BY <1>2 DEF Control, SlotPhases, BatchPhases, AtPhases
<1> QED
  BY <1>3, <1>4 DEF TypeInv

\* Finishing a sequential slot keeps the types, whatever its error.
LEMMA SettleTyped ==
  ASSUME TypeInv, DataTyped, slot \in 1..NumSlots,
         NEW r \in Result, NEW err \in Errors, Settle(r, err)
  PROVE  TypeInv'
<1>1. Exp(slot) \in Expectation
  BY RunTyped DEF TypeInv, TypeOK
<1>2. WithError(Decorated(Exp(slot), r, err), err) \in Result
  BY <1>1, DecoratedTyped, WithErrorTyped
<1> QED
  BY <1>2, PublishTyped, AbortTyped DEF Settle

\* Moving on to the next statement of a sequential slot keeps the types.
LEMMA GotoTyped ==
  ASSUME TypeInv, DataTyped, NEW p \in SlotPhases, slot \in 1..NumSlots, Goto(p)
  PROVE  TypeInv'
<1>1. NumSlots' = NumSlots /\ Batch' = Batch
  BY DEF DataTyped, NumSlots, Batch
<1>2. TypeOK'
  BY <1>1 DEF DataTyped, TypeInv, TypeOK, Phases, SlotPhases, Goto
<1>3. Control'
  BY <1>1 DEF Goto, Control, SlotPhases, BatchPhases, AtPhases
<1> QED
  BY <1>2, <1>3 DEF TypeInv

-----------------------------------------------------------------------------
\* The preflight gate keeps the types.
LEMMA PreflightTyped == TypeInv /\ Preflight => TypeInv'
BY DEF TypeInv, TypeOK, Control, Preflight, Goto, Phases, SlotPhases,
       BatchPhases, AtPhases, Batch, NumSlots

\* A configuration error keeps the types.
LEMMA RecordIssueTyped == TypeInv /\ RecordIssue => TypeInv'
<1> SUFFICES ASSUME TypeInv, RecordIssue PROVE TypeInv'
  OBVIOUS
<1>1. NumSlots \in Nat /\ slot \in 1..NumSlots
  BY RunTyped DEF TypeInv, TypeOK, RecordIssue
<1>2. Blank(seg, slot) \in Result
  BY <1>1, BlankTyped DEF TypeInv, TypeOK
<1>3. [Blank(seg, slot) EXCEPT !.err = "config"] \in Result
  BY <1>2 DEF Result, Errors
<1>4. DataTyped
  BY DEF DataTyped, RecordIssue, TypeInv, TypeOK
<1> QED
  BY <1>1, <1>3, <1>4, PublishTyped DEF RecordIssue

\* Starting a slot keeps the types.
LEMMA BeginSlotTyped == TypeInv /\ BeginSlot => TypeInv'
<1> SUFFICES ASSUME TypeInv, BeginSlot PROVE TypeInv'
  OBVIOUS
<1>1. NumSlots \in Nat /\ slot \in 1..NumSlots
  BY RunTyped DEF TypeInv, TypeOK, BeginSlot
<1>2. Blank(seg, slot) \in Result /\ "render" \in Errors
  BY <1>1, BlankTyped DEF TypeInv, TypeOK, Errors
<1>3. DataTyped
  BY <1>2 DEF DataTyped, BeginSlot, TypeInv, TypeOK
<1>4. CASE Settle(Blank(seg, slot), "render")
  BY <1>1, <1>2, <1>3, <1>4, SettleTyped
<1>5. CASE Goto(IF UsesTotal(Exp(slot)) THEN "total" ELSE "measure")
  <2>1. Goto("total") \/ Goto("measure")
    BY <1>5 DEF Goto
  <2> QED
    BY <1>1, <1>3, <2>1, GotoTyped DEF SlotPhases
<1> QED
  BY <1>4, <1>5 DEF BeginSlot

\* What is known of the current slot while its statements run.
LEMMA SlotFacts ==
  ASSUME TypeInv, phase \in SlotPhases
  PROVE  /\ NumSlots \in Nat /\ slot \in 1..NumSlots
         /\ Exp(slot) \in Expectation /\ slot \in Nat
         /\ seg \in 1..NumSegments /\ rows \in SUBSET Rows
         /\ cur \in Result /\ cache \in Cache /\ run \in Run
BY RunTyped DEF TypeInv, TypeOK, Control

\* A loaded cache is well formed.
LEMMA LoadedTyped ==
  ASSUME NEW n \in Nat, NEW err \in Errors
  PROVE  Loaded(n, err) \in Cache
BY DEF Loaded, Cache

\* Loading a total keeps the types.
LEMMA LoadTotalTyped == TypeInv /\ LoadTotal => TypeInv'
<1> SUFFICES ASSUME TypeInv, LoadTotal PROVE TypeInv'
  OBVIOUS
<1> DEFINE e == Exp(slot)
           n == Cardinality(Population(e, seg, rows))
<1>1. phase \in SlotPhases /\ TypeOK
  BY DEF LoadTotal, SlotPhases, TypeInv
<1>2. n \in Nat
  BY <1>1, SlotFacts, CountsAreNat
<1>3. PICK err \in Outcomes(TRUE) :
        /\ Issue(TRUE)
        /\ Blame(err, {IF CachesTotal(e) THEN 0 ELSE slot})
        /\ IF CachesTotal(e)
             THEN cache' = Loaded(n, err) /\ totals' = totals + 1
             ELSE UNCHANGED <<cache, totals>>
        /\ IF err = "none"
             THEN cur' = [cur EXCEPT !.total = n] /\ Goto("measure")
             ELSE Settle(cur, err) /\ UNCHANGED cur
  BY DEF LoadTotal
<1>4. {IF CachesTotal(e) THEN 0 ELSE slot} \in SUBSET Nat
  BY <1>1, SlotFacts
<1>5. /\ err \in Errors /\ issued' \in Nat /\ events' \in Nat
      /\ faults' \in SUBSET ((1..NumSegments) \X Nat)
  BY <1>1, <1>3, <1>4, StatementTyped
<1>6. cache' \in Cache /\ totals' \in Nat
  BY <1>2, <1>3, <1>5, LoadedTyped DEF TypeInv, TypeOK
<1>7. cur' \in Result
  BY <1>1, <1>2, <1>3, SlotFacts DEF Result
<1>8. DataTyped
  BY <1>5, <1>6, <1>7 DEF DataTyped, LoadTotal, TypeInv, TypeOK
<1>9. CASE err = "none"
  BY <1>1, <1>3, <1>8, <1>9, SlotFacts, GotoTyped DEF SlotPhases
<1>10. CASE err # "none"
  BY <1>1, <1>3, <1>5, <1>8, <1>10, SlotFacts, SettleTyped
<1> QED
  BY <1>9, <1>10

\* Reading the cached total keeps the types.
LEMMA UseCachedTotalTyped == TypeInv /\ UseCachedTotal => TypeInv'
<1> SUFFICES ASSUME TypeInv, UseCachedTotal PROVE TypeInv'
  OBVIOUS
<1>1. phase \in SlotPhases
  BY DEF UseCachedTotal, SlotPhases
<1>2. cache.err \in Errors /\ cache.total \in Nat
  BY <1>1, SlotFacts DEF Cache
<1>3. cur' \in Result
  BY <1>1, <1>2, SlotFacts DEF UseCachedTotal, Result
<1>4. DataTyped
  BY <1>3 DEF DataTyped, UseCachedTotal, NoIssue, TypeInv, TypeOK
<1>5. CASE cache.err = "none"
  BY <1>1, <1>4, <1>5, SlotFacts, GotoTyped DEF UseCachedTotal, SlotPhases
<1>6. CASE cache.err # "none"
  BY <1>1, <1>2, <1>4, <1>6, SlotFacts, SettleTyped DEF UseCachedTotal
<1> QED
  BY <1>5, <1>6

\* The measuring statement keeps the types.
LEMMA MeasureTyped == TypeInv /\ Measure => TypeInv'
<1> SUFFICES ASSUME TypeInv, Measure PROVE TypeInv'
  OBVIOUS
<1> DEFINE e == Exp(slot)
           r == Observe(e, cur, Measured(e, seg, rows))
<1>1. phase \in SlotPhases /\ TypeOK
  BY DEF Measure, SlotPhases, TypeInv
<1>2. r \in Result
  BY <1>1, SlotFacts, CountsAreNat, ObserveTyped
<1>3. PICK err \in Outcomes(EmitsEvent(e)) :
        /\ Issue(EmitsEvent(e))
        /\ Blame(err, {slot})
        /\ cur' = IF err = "none" THEN r ELSE cur
        /\ IF err # "none" THEN Settle(Blank(seg, slot), err)
           ELSE IF WantsSamples(e, r) THEN Goto("samples")
           ELSE IF WantsKeys(e, r) THEN Goto("keys")
           ELSE Settle(r, "none")
  BY DEF Measure
<1>4. EmitsEvent(e) \in BOOLEAN /\ {slot} \in SUBSET Nat
  BY <1>1, SlotFacts DEF EmitsEvent
<1>5. /\ err \in Errors /\ issued' \in Nat /\ events' \in Nat
      /\ faults' \in SUBSET ((1..NumSegments) \X Nat)
  BY <1>1, <1>3, <1>4, StatementTyped
<1>6. cur' \in Result /\ Blank(seg, slot) \in Result
  BY <1>1, <1>2, <1>3, SlotFacts, BlankTyped
<1>7. DataTyped
  BY <1>5, <1>6 DEF DataTyped, Measure, TypeInv, TypeOK
<1> HIDE DEF r, e
<1>8. CASE err # "none"
  BY <1>1, <1>3, <1>5, <1>6, <1>7, <1>8, SlotFacts, SettleTyped
<1>9. CASE err = "none" /\ (Goto("samples") \/ Goto("keys"))
  BY <1>1, <1>7, <1>9, SlotFacts, GotoTyped DEF SlotPhases
<1>10. CASE err = "none" /\ Settle(r, "none")
  BY <1>1, <1>2, <1>5, <1>7, <1>10, SlotFacts, SettleTyped
<1> QED
  BY <1>3, <1>8, <1>9, <1>10

\* A cap returns a natural number.
LEMMA CappedTyped ==
  ASSUME NEW cap \in Nat, NEW n \in Nat
  PROVE  Capped(cap, n) \in Nat
BY DEF Capped

\* The sample statement keeps the types.
LEMMA SamplesTyped == TypeInv /\ Samples => TypeInv'
<1> SUFFICES ASSUME TypeInv, Samples PROVE TypeInv'
  OBVIOUS
<1> DEFINE e == Exp(slot)
           n == Cardinality(Failing(e, seg, rows))
           r == [cur EXCEPT !.samples = Capped(run.sampleCap, n)]
<1>1. phase \in SlotPhases /\ TypeOK
  BY DEF Samples, SlotPhases, TypeInv
<1>2. Capped(run.sampleCap, n) \in Nat
  BY <1>1, SlotFacts, CountsAreNat, CappedTyped DEF Run
<1>3. r \in Result
  BY <1>1, <1>2, SlotFacts DEF Result
<1>4. PICK err \in Outcomes(TRUE) :
        /\ Issue(TRUE)
        /\ Blame(err, {slot})
        /\ cur' = IF err = "none" THEN r ELSE cur
        /\ IF err # "none" THEN Settle(cur, err)
           ELSE IF WantsKeys(e, r) THEN Goto("keys")
           ELSE Settle(r, "none")
  BY DEF Samples
<1>5. /\ err \in Errors /\ issued' \in Nat /\ events' \in Nat
      /\ faults' \in SUBSET ((1..NumSegments) \X Nat)
  BY <1>1, <1>4, SlotFacts, StatementTyped
<1>6. DataTyped
  BY <1>3, <1>4, <1>5 DEF DataTyped, Samples, TypeInv, TypeOK
<1> HIDE DEF r, e
<1>7. CASE err # "none"
  BY <1>1, <1>4, <1>5, <1>6, <1>7, SlotFacts, SettleTyped
<1>8. CASE err = "none" /\ Goto("keys")
  BY <1>1, <1>6, <1>8, SlotFacts, GotoTyped DEF SlotPhases
<1>9. CASE err = "none" /\ Settle(r, "none")
  BY <1>1, <1>3, <1>5, <1>6, <1>9, SlotFacts, SettleTyped
<1> QED
  BY <1>4, <1>7, <1>8, <1>9

\* The failed-key statement keeps the types.
LEMMA KeysTyped == TypeInv /\ Keys => TypeInv'
<1> SUFFICES ASSUME TypeInv, Keys PROVE TypeInv'
  OBVIOUS
<1> DEFINE n == Cardinality(Failing(Exp(slot), seg, rows))
           r == [cur EXCEPT !.keys = Capped(run.failedKeysCap, n)]
<1>1. phase \in SlotPhases /\ TypeOK
  BY DEF Keys, SlotPhases, TypeInv
<1>2. Capped(run.failedKeysCap, n) \in Nat
  BY <1>1, SlotFacts, CountsAreNat, CappedTyped DEF Run
<1>3. r \in Result
  BY <1>1, <1>2, SlotFacts DEF Result
<1>4. PICK err \in Outcomes(TRUE) :
        /\ Issue(TRUE)
        /\ Blame(err, {slot})
        /\ Settle(IF err = "none" THEN r ELSE cur, err)
  BY DEF Keys
<1>5. /\ err \in Errors /\ issued' \in Nat /\ events' \in Nat
      /\ faults' \in SUBSET ((1..NumSegments) \X Nat)
  BY <1>1, <1>4, SlotFacts, StatementTyped
<1>6. DataTyped
  BY <1>5 DEF DataTyped, Keys, TypeInv, TypeOK
<1>7. (IF err = "none" THEN r ELSE cur) \in Result
  BY <1>1, <1>3, SlotFacts
<1> HIDE DEF r
<1> QED
  BY <1>1, <1>4, <1>5, <1>6, <1>7, SlotFacts, SettleTyped

-----------------------------------------------------------------------------
\* What is known of the slot a batch is finishing.
LEMMA BatchFacts ==
  ASSUME TypeInv, phase \in AtPhases
  PROVE  /\ batch.at \in 1..NumSlots /\ batch.at \in Nat
         /\ Exp(batch.at) \in Expectation /\ batch \in Batch
         /\ seg \in 1..NumSegments /\ rows \in SUBSET Rows
         /\ cur \in Result /\ run \in Run
BY RunTyped DEF TypeInv, TypeOK, Control, BatchPhases, AtPhases, Batch

\* A step inside a batch moves only the batch and the phase.
LEMMA BatchStepTyped ==
  ASSUME TypeInv, DataTyped, slot' = slot, results' = results,
         phase' \in Phases, Control'
  PROVE  TypeInv'
<1>1. NumSlots' = NumSlots /\ Batch' = Batch
  BY DEF DataTyped, NumSlots, Batch
<1> QED
  BY <1>1 DEF DataTyped, TypeInv, TypeOK

\* Starting a batch keeps the types.
LEMMA BeginBatchTyped == TypeInv /\ BeginBatch => TypeInv'
<1> SUFFICES ASSUME TypeInv, BeginBatch PROVE TypeInv'
  OBVIOUS
<1>1. NumSlots \in Nat /\ slot \in 1..NumSlots /\ seg \in 1..NumSegments
  BY RunTyped DEF TypeInv, TypeOK, BeginBatch
<1>2. PICK h \in slot..NumSlots :
       IF run.tableRenders
         THEN /\ batch' = [NoBatch EXCEPT !.hi = h, !.from = slot,
                                          !.to = ChunkEnd(slot, h)]
              /\ Goto("batchTotal")
         ELSE /\ batch' = [NoBatch EXCEPT
                             !.hi = h, !.err = "render",
                             !.res = [k \in 1..NumSlots |->
                                        [Blank(seg, k) EXCEPT !.err = "render"]]]
              /\ Goto("slot")
  BY DEF BeginBatch
<1>3. ChunkEnd(slot, h) \in slot..h
  BY <1>1, MaxTargetsAssumption DEF ChunkEnd
<1>4. \A k \in 1..NumSlots :
        /\ Blank(seg, k) \in Result
        /\ [Blank(seg, k) EXCEPT !.err = "render"] \in Result
  BY <1>1, BlankTyped DEF Result, Errors
<1>5. NoBatch \in Batch
  BY <1>4 DEF NoBatch, Batch, Errors
<1>6. batch' \in Batch
  <2>1. h \in Nat /\ slot \in Nat /\ ChunkEnd(slot, h) \in Nat
    BY <1>1, <1>3
  <2>2. CASE run.tableRenders
    <3>1. batch' = [NoBatch EXCEPT !.hi = h, !.from = slot, !.to = ChunkEnd(slot, h)]
      BY <1>2, <2>2
    <3> QED
      BY <1>5, <2>1, <3>1 DEF Batch
  <2>3. CASE ~run.tableRenders
    <3> DEFINE res == [k \in 1..NumSlots |-> [Blank(seg, k) EXCEPT !.err = "render"]]
    <3>1. batch' = [NoBatch EXCEPT !.hi = h, !.err = "render", !.res = res]
      BY <1>2, <2>3
    <3>2. res \in [1..NumSlots -> Result] /\ "render" \in Errors
      BY <1>4 DEF Errors
    <3> HIDE DEF res
    <3> QED
      BY <1>5, <2>1, <3>1, <3>2 DEF Batch
  <2> QED
    BY <2>2, <2>3
<1>7. DataTyped
  BY <1>6 DEF DataTyped, BeginBatch, TypeInv, TypeOK
<1>8. slot' = slot /\ results' = results /\ phase' \in Phases
  BY <1>2 DEF Goto, Phases
<1>9. Control'
  <2>1. CASE phase' = "batchTotal" /\ batch' = [NoBatch EXCEPT !.hi = h, !.from = slot,
                                                  !.to = ChunkEnd(slot, h)]
    <3>1. batch'.hi = h /\ batch'.from = slot /\ batch'.to = ChunkEnd(slot, h)
      BY <2>1 DEF NoBatch
    <3> QED
      BY <1>1, <1>3, <1>7, <1>8, <2>1, <3>1
      DEF Control, SlotPhases, BatchPhases, AtPhases, DataTyped, NumSlots
  <2>2. CASE phase' = "slot"
    BY <2>2 DEF Control, SlotPhases, BatchPhases, AtPhases
  <2> QED
    BY <1>2, <2>1, <2>2 DEF Goto
<1> QED
  BY <1>7, <1>8, <1>9, BatchStepTyped

\* Loading the total of a batch keeps the types.
LEMMA LoadBatchTotalTyped == TypeInv /\ LoadBatchTotal => TypeInv'
<1> SUFFICES ASSUME TypeInv, LoadBatchTotal PROVE TypeInv'
  OBVIOUS
<1> DEFINE n == Cardinality(Population(Exp(batch.from), seg, rows))
<1>1. TypeOK /\ phase \in BatchPhases /\ phase \notin AtPhases
  BY DEF LoadBatchTotal, TypeInv, BatchPhases, AtPhases
<1>2. Exp(batch.from) \in Expectation
  BY <1>1, RunTyped DEF TypeInv, TypeOK, Control, Batch
<1>3. n \in Nat
  BY <1>1, <1>2, CountsAreNat DEF TypeOK
<1>4. PICK err \in Outcomes(TRUE) :
        /\ Issue(TRUE)
        /\ Blame(err, {0})
        /\ cache' = Loaded(n, err)
        /\ totals' = totals + 1
        /\ IF err = "none"
             THEN batch' = [batch EXCEPT !.total = n] /\ Goto("batchCounts")
             ELSE FailChunk(err)
  BY DEF LoadBatchTotal
<1>5. /\ err \in Errors /\ issued' \in Nat /\ events' \in Nat
      /\ faults' \in SUBSET ((1..NumSegments) \X Nat)
  <2>1. {0} \in SUBSET Nat
    OBVIOUS
  <2> QED
    BY <1>1, <1>4, <2>1, StatementTyped
<1>6. cache' \in Cache /\ totals' \in Nat
  BY <1>1, <1>3, <1>4, <1>5, LoadedTyped DEF TypeOK
<1> HIDE DEF n
<1>7. CASE err = "none"
  <2>1. batch' = [batch EXCEPT !.total = n] /\ Goto("batchCounts")
    BY <1>4, <1>7
  <2>2. batch' \in Batch
    BY <1>1, <1>3, <2>1 DEF TypeOK, Batch
  <2>3. DataTyped
    BY <1>5, <1>6, <2>2 DEF DataTyped, LoadBatchTotal, TypeInv, TypeOK
  <2>4. Control'
    BY <1>1, <2>1, <2>3
    DEF TypeInv, TypeOK, Batch, Control, Goto, DataTyped, SlotPhases, BatchPhases,
        AtPhases, NumSlots
  <2> QED
    BY <2>1, <2>3, <2>4, BatchStepTyped DEF Goto, Phases
<1>8. CASE err # "none"
  <2>1. /\ batch' \in Batch /\ slot' = slot /\ results' = results
        /\ phase' = "slot"
    BY <1>1, <1>4, <1>5, <1>8, FailChunkTyped
  <2>2. DataTyped
    BY <1>5, <1>6, <2>1 DEF DataTyped, LoadBatchTotal, TypeInv, TypeOK
  <2>3. Control'
    BY <2>1 DEF Control, SlotPhases, BatchPhases, AtPhases
  <2> QED
    BY <2>1, <2>2, <2>3, BatchStepTyped DEF Phases
<1> QED
  BY <1>7, <1>8

\* Reading the cached total in a batch keeps the types.
LEMMA UseBatchTotalTyped == TypeInv /\ UseBatchTotal => TypeInv'
<1> SUFFICES ASSUME TypeInv, UseBatchTotal PROVE TypeInv'
  OBVIOUS
<1>1. TypeOK /\ phase \in BatchPhases /\ phase \notin AtPhases
  BY DEF UseBatchTotal, TypeInv, BatchPhases, AtPhases
<1>2. CASE cache.err = "none"
  <2>1. batch' = [batch EXCEPT !.total = cache.total] /\ Goto("batchCounts")
    BY <1>2 DEF UseBatchTotal
  <2>2. batch' \in Batch
    BY <1>1, <2>1 DEF TypeOK, Batch, Cache
  <2>3. DataTyped
    BY <2>2 DEF DataTyped, UseBatchTotal, NoIssue, TypeInv, TypeOK
  <2>4. Control'
    BY <1>1, <2>1, <2>3
    DEF TypeInv, TypeOK, Batch, Control, Goto, DataTyped, SlotPhases, BatchPhases,
        AtPhases, NumSlots
  <2> QED
    BY <2>1, <2>3, <2>4, BatchStepTyped DEF Goto, Phases
<1>3. CASE cache.err # "none"
  <2>1. cache.err \in Errors
    BY <1>1 DEF TypeOK, Cache
  <2>2. /\ batch' \in Batch /\ slot' = slot /\ results' = results
        /\ phase' = "slot"
    BY <1>1, <1>3, <2>1, FailChunkTyped DEF UseBatchTotal
  <2>3. DataTyped
    BY <2>2 DEF DataTyped, UseBatchTotal, NoIssue, TypeInv, TypeOK
  <2>4. Control'
    BY <2>2 DEF Control, SlotPhases, BatchPhases, AtPhases
  <2> QED
    BY <2>2, <2>3, <2>4, BatchStepTyped DEF Phases
<1> QED
  BY <1>2, <1>3

\* The shared counting statement keeps the types.
LEMMA CountBatchTyped == TypeInv /\ CountBatch => TypeInv'
<1> SUFFICES ASSUME TypeInv, CountBatch PROVE TypeInv'
  OBVIOUS
<1>1. TypeOK /\ phase \in BatchPhases
  BY DEF CountBatch, TypeInv, BatchPhases
<1>2. PICK err \in Outcomes(TRUE) :
        /\ Issue(TRUE)
        /\ Blame(err, Chunk)
        /\ IF err = "none"
             THEN /\ batch' = [batch EXCEPT
                                 !.at = batch.from,
                                 !.counts = [k \in 1..NumSlots |->
                                               Measured(Exp(k), seg, rows)]]
                  /\ Goto("batchSlot")
             ELSE FailChunk(err)
  BY DEF CountBatch
<1>3. /\ err \in Errors /\ issued' \in Nat /\ events' \in Nat
      /\ faults' \in SUBSET ((1..NumSegments) \X Nat)
  <2>1. Chunk \in SUBSET Nat
    BY <1>1 DEF Chunk, TypeOK, Batch
  <2> QED
    BY <1>1, <1>2, <2>1, StatementTyped
<1>4. CASE err = "none"
  <2> DEFINE counts == [k \in 1..NumSlots |-> Measured(Exp(k), seg, rows)]
  <2>1. counts \in [1..NumSlots -> Nat]
    BY <1>1, RunTyped, CountsAreNat DEF TypeOK
  <2>2. batch' = [batch EXCEPT !.at = batch.from, !.counts = counts] /\ Goto("batchSlot")
    BY <1>2, <1>4
  <2> HIDE DEF counts
  <2>3. batch' \in Batch
    BY <1>1, <2>1, <2>2 DEF TypeOK, Batch
  <2>4. DataTyped
    BY <1>3, <2>3 DEF DataTyped, CountBatch, TypeInv, TypeOK
  <2>5. /\ batch'.at = batch.from /\ batch'.from = batch.from
        /\ batch'.to = batch.to /\ batch'.hi = batch.hi
    BY <1>1, <2>2 DEF TypeOK, Batch
  <2>6. /\ batch.from \in Nat /\ batch.to \in Nat
        /\ slot \in 1..NumSlots
        /\ slot <= batch.from /\ batch.from <= batch.to
        /\ batch.to <= batch.hi /\ batch.hi <= NumSlots
    BY <1>1 DEF TypeInv, TypeOK, Control, BatchPhases, Batch
  <2>7. batch'.at \in batch'.from..batch'.to
    BY <2>5, <2>6
  <2>8. /\ phase' = "batchSlot" /\ slot' = slot /\ results' = results
        /\ NumSlots' = NumSlots
    BY <2>2, <2>4 DEF Goto, DataTyped, NumSlots
  <2>9. Control'
    BY <2>5, <2>6, <2>7, <2>8 DEF Control
  <2> QED
    BY <2>3, <2>4, <2>8, <2>9, BatchStepTyped DEF Phases
<1>5. CASE err # "none"
  <2>1. /\ batch' \in Batch /\ slot' = slot /\ results' = results
        /\ phase' = "slot"
    BY <1>1, <1>2, <1>3, <1>5, FailChunkTyped
  <2>2. DataTyped
    BY <1>3, <2>1 DEF DataTyped, CountBatch, TypeInv, TypeOK
  <2>3. Control'
    BY <2>1 DEF Control, SlotPhases, BatchPhases, AtPhases
  <2> QED
    BY <2>1, <2>2, <2>3, BatchStepTyped DEF Phases
<1> QED
  BY <1>4, <1>5

\* The diagnostic phases of a slot leave the rest of the batch alone.
LEMMA DiagnoseTyped ==
  ASSUME TypeInv, DataTyped, phase \in AtPhases, NEW p \in AtPhases,
         UNCHANGED batch, Goto(p)
  PROVE  TypeInv'
<1>1. Control'
  BY DEF TypeInv, Control, Goto, DataTyped, SlotPhases, BatchPhases, AtPhases, NumSlots
<1>2. phase' \in Phases /\ slot' = slot /\ results' = results
  BY DEF Goto, Phases, AtPhases
<1> QED
  BY <1>1, <1>2, BatchStepTyped

\* Turning a shared count into a result keeps the types.
LEMMA MeasureBatchSlotTyped == TypeInv /\ MeasureBatchSlot => TypeInv'
<1> SUFFICES ASSUME TypeInv, MeasureBatchSlot PROVE TypeInv'
  OBVIOUS
<1> DEFINE e == Exp(batch.at)
           b == [Blank(seg, batch.at) EXCEPT !.total = batch.total]
           r == Observe(e, b, batch.counts[batch.at])
<1>1. phase \in AtPhases
  BY DEF MeasureBatchSlot, AtPhases
<1>2. batch.total \in Nat /\ batch.counts[batch.at] \in Nat
  BY <1>1, BatchFacts DEF Batch
<1>3. b \in Result
  BY <1>1, <1>2, BatchFacts, BlankTyped DEF Result
<1> HIDE DEF b
<1>4. r \in Result
  BY <1>1, <1>2, <1>3, BatchFacts, ObserveTyped
<1>5. /\ cur' = r
      /\ IF WantsSamples(e, r) THEN UNCHANGED batch /\ Goto("batchSamples")
         ELSE IF WantsKeys(e, r) THEN UNCHANGED batch /\ Goto("batchKeys")
         ELSE Advance(r)
      /\ UNCHANGED <<run, rows, seg, cache, totals, faults, issued, events>>
  BY DEF MeasureBatchSlot, NoIssue, b
<1> HIDE DEF r, e
<1>6. CASE UNCHANGED batch /\ (Goto("batchSamples") \/ Goto("batchKeys"))
  <2>1. DataTyped
    BY <1>4, <1>5, <1>6 DEF DataTyped, TypeInv, TypeOK
  <2> QED
    BY <1>1, <1>6, <2>1, DiagnoseTyped DEF AtPhases
<1>7. CASE Advance(r)
  <2>1. /\ batch' \in Batch /\ slot' = slot /\ results' = results
        /\ phase' \in Phases /\ Control'
    BY <1>1, <1>4, <1>5, <1>7, AdvanceTyped
  <2>2. DataTyped
    BY <1>4, <1>5, <2>1 DEF DataTyped, TypeInv, TypeOK
  <2> QED
    BY <2>1, <2>2, BatchStepTyped
<1> QED
  BY <1>5, <1>6, <1>7

\* The sample statement of a batch slot keeps the types.
LEMMA BatchSamplesTyped == TypeInv /\ BatchSamples => TypeInv'
<1> SUFFICES ASSUME TypeInv, BatchSamples PROVE TypeInv'
  OBVIOUS
<1> DEFINE e == Exp(batch.at)
           n == Cardinality(Failing(e, seg, rows))
           r == [cur EXCEPT !.samples = Capped(run.sampleCap, n)]
<1>1. phase \in AtPhases /\ TypeOK
  BY DEF BatchSamples, AtPhases, TypeInv
<1>2. Capped(run.sampleCap, n) \in Nat
  BY <1>1, BatchFacts, CountsAreNat, CappedTyped DEF Run
<1>3. r \in Result /\ cur \in Result
  BY <1>1, <1>2, BatchFacts DEF Result
<1>4. PICK err \in Outcomes(TRUE) :
        /\ Issue(TRUE)
        /\ Blame(err, {batch.at})
        /\ cur' = IF err = "none" THEN r ELSE cur
        /\ IF err # "none" THEN FailBatchSlot(cur, err)
           ELSE IF WantsKeys(e, r) THEN UNCHANGED batch /\ Goto("batchKeys")
           ELSE Advance(r)
  BY DEF BatchSamples
<1>5. /\ err \in Errors /\ issued' \in Nat /\ events' \in Nat
      /\ faults' \in SUBSET ((1..NumSegments) \X Nat)
  <2>1. {batch.at} \in SUBSET Nat
    BY <1>1, BatchFacts
  <2> QED
    BY <1>1, <1>4, <2>1, StatementTyped
<1>6. cur' \in Result /\ UNCHANGED <<run, rows, seg, cache, totals>>
  BY <1>3, <1>4 DEF BatchSamples
<1> HIDE DEF r, e
<1>7. CASE UNCHANGED batch /\ Goto("batchKeys")
  <2>1. DataTyped
    BY <1>5, <1>6, <1>7 DEF DataTyped, TypeInv, TypeOK
  <2> QED
    BY <1>1, <1>7, <2>1, DiagnoseTyped DEF AtPhases
<1>8. CASE Advance(r) \/ FailBatchSlot(cur, err)
  <2>1. /\ batch' \in Batch /\ slot' = slot /\ results' = results
        /\ phase' \in Phases /\ Control'
    BY <1>1, <1>3, <1>5, <1>6, <1>8, AdvanceTyped, FailBatchSlotTyped
  <2>2. DataTyped
    BY <1>5, <1>6, <2>1 DEF DataTyped, TypeInv, TypeOK
  <2> QED
    BY <2>1, <2>2, BatchStepTyped
<1> QED
  BY <1>4, <1>7, <1>8

\* The failed-key statement of a batch slot keeps the types.
LEMMA BatchKeysTyped == TypeInv /\ BatchKeys => TypeInv'
<1> SUFFICES ASSUME TypeInv, BatchKeys PROVE TypeInv'
  OBVIOUS
<1> DEFINE n == Cardinality(Failing(Exp(batch.at), seg, rows))
           r == [cur EXCEPT !.keys = Capped(run.failedKeysCap, n)]
<1>1. phase \in AtPhases /\ TypeOK
  BY DEF BatchKeys, AtPhases, TypeInv
<1>2. Capped(run.failedKeysCap, n) \in Nat
  BY <1>1, BatchFacts, CountsAreNat, CappedTyped DEF Run
<1>3. r \in Result /\ cur \in Result
  BY <1>1, <1>2, BatchFacts DEF Result
<1>4. PICK err \in Outcomes(TRUE) :
        /\ Issue(TRUE)
        /\ Blame(err, {batch.at})
        /\ IF err # "none" THEN FailBatchSlot(cur, err) ELSE Advance(r)
  BY DEF BatchKeys
<1>5. /\ err \in Errors /\ issued' \in Nat /\ events' \in Nat
      /\ faults' \in SUBSET ((1..NumSegments) \X Nat)
  <2>1. {batch.at} \in SUBSET Nat
    BY <1>1, BatchFacts
  <2> QED
    BY <1>1, <1>4, <2>1, StatementTyped
<1>6. UNCHANGED <<run, rows, seg, cache, cur, totals>>
  BY DEF BatchKeys
<1> HIDE DEF r
<1>7. /\ batch' \in Batch /\ slot' = slot /\ results' = results
      /\ phase' \in Phases /\ Control'
  BY <1>1, <1>3, <1>4, <1>5, <1>6, AdvanceTyped, FailBatchSlotTyped
<1>8. DataTyped
  BY <1>5, <1>6, <1>7 DEF DataTyped, TypeInv, TypeOK
<1> QED
  BY <1>7, <1>8, BatchStepTyped

\* Handing a batch slot to the report keeps the types.
LEMMA TakeFromBatchTyped == TypeInv /\ TakeFromBatch => TypeInv'
<1> SUFFICES ASSUME TypeInv, TakeFromBatch PROVE TypeInv'
  OBVIOUS
<1> DEFINE r == batch.res[slot]
           err == IF r.err # "none" THEN r.err ELSE batch.err
<1>1. slot \in 1..NumSlots
  BY RunTyped DEF TakeFromBatch, TypeInv, TypeOK
<1>2. r \in Result /\ err \in Errors
  BY <1>1 DEF TypeInv, TypeOK, Batch, Result
<1>3. DataTyped
  BY DEF DataTyped, TakeFromBatch, TypeInv, TypeOK
<1>4. Abort \/ Publish(WithError(r, err))
  BY DEF TakeFromBatch
<1> QED
  BY <1>1, <1>2, <1>3, <1>4, WithErrorTyped, PublishTyped, AbortTyped

\* Moving to the next segment, or returning the report, keeps the types.
LEMMA EndSegmentTyped == TypeInv /\ EndSegment => TypeInv'
<1> SUFFICES ASSUME TypeInv, EndSegment PROVE TypeInv'
  OBVIOUS
<1>1. NumSlots \in Nat /\ NumSlots' = NumSlots /\ Batch' = Batch
  BY RunTyped DEF EndSegment, TypeInv, TypeOK, NumSlots, Batch
<1>2. CASE LastSegment
  BY <1>1, <1>2
  DEF EndSegment, TypeInv, TypeOK, Control, Phases, SlotPhases, BatchPhases, AtPhases
<1>3. CASE ~LastSegment
  <2>1. seg + 1 \in 1..NumSegments
    BY <1>3, SegmentsAssumption DEF LastSegment, TypeInv, TypeOK
  <2>2. \A k \in 1..NumSlots :
          Blank(seg, k) \in Result /\ Blank(seg + 1, k) \in Result
    BY <1>1, <2>1, BlankTyped DEF TypeInv, TypeOK
  <2> DEFINE res == [k \in 1..NumSlots |-> Blank(seg + 1, k)]
  <2>3. batch' = [NoBatch EXCEPT !.res = res]
    BY <1>3 DEF EndSegment
  <2>4. NoBatch \in Batch /\ res \in [1..NumSlots -> Result]
    BY <2>2 DEF NoBatch, Batch, Errors
  <2> HIDE DEF res
  <2>5. batch' \in Batch
    BY <2>3, <2>4 DEF Batch
  <2>6. SegmentCache \in Cache
    BY DEF SegmentCache, EmptyCache, Cache, Errors
  <2> QED
    BY <1>1, <1>3, <2>1, <2>5, <2>6
    DEF EndSegment, TypeInv, TypeOK, Control, Phases, SlotPhases, BatchPhases, AtPhases
<1> QED
  BY <1>2, <1>3

\* Other sessions change nothing but the rows of the table.
LEMMA OthersTyped == TypeInv /\ (Write \/ UNCHANGED vars) => TypeInv'
<1> SUFFICES ASSUME TypeInv, Write \/ UNCHANGED vars PROVE TypeInv'
  OBVIOUS
<1>1. /\ UNCHANGED <<run, phase, seg, slot, cache, cur, batch, results,
                     issued, events, totals, faults>>
      /\ rows' \in SUBSET Rows
  BY DEF Write, vars, TypeInv, TypeOK
<1>2. NumSlots' = NumSlots /\ Batch' = Batch
  BY <1>1 DEF NumSlots, Batch
<1> QED
  BY <1>1, <1>2 DEF TypeInv, TypeOK, Control

\* The type invariant and the bounds of the cursors are inductive.
LEMMA NextTyped == TypeInv /\ [Next]_vars => TypeInv'
<1> SUFFICES ASSUME TypeInv, [Next]_vars PROVE TypeInv'
  OBVIOUS
<1> QED
  BY PreflightTyped, RecordIssueTyped, BeginSlotTyped, LoadTotalTyped,
     UseCachedTotalTyped, MeasureTyped, SamplesTyped, KeysTyped, BeginBatchTyped,
     LoadBatchTotalTyped, UseBatchTotalTyped, CountBatchTyped,
     MeasureBatchSlotTyped, BatchSamplesTyped, BatchKeysTyped, TakeFromBatchTyped,
     EndSegmentTyped, OthersTyped
  DEF Next, Step, Returned

\* Every variable holds a value of its type in every reachable state, for every
\* table, suite, choice of options and number of segments.
THEOREM TypeCorrect == Spec => []TypeOK
<1>1. TypeInv => TypeOK
  BY DEF TypeInv
<1> QED
  BY <1>1, InitTyped, NextTyped, PTL DEF Spec

-----------------------------------------------------------------------------
(* The figures of the report.                                              *)

\* t is the denominator slot i of the current segment has to report.
TotalFits(i, t) ==
  /\ UsesSegmentTotal(i) => cache.loaded /\ cache.err = "none" /\ t = cache.total
  /\ run.snapshot /\ UsesTotal(Exp(i)) =>
       t = Cardinality(Population(Exp(i), seg, rows))

CountFits(i, n) == run.snapshot => n = Measured(Exp(i), seg, rows)

SamplesFit(i, n) ==
  run.snapshot =>
    n = IF HasRowDenominator(Exp(i)) /\ run.sampleCap > 0
          THEN Capped(run.sampleCap, Measured(Exp(i), seg, rows)) ELSE 0

KeysFit(i, n) ==
  run.snapshot =>
    n = IF HasRowDenominator(Exp(i)) /\ run.keyed
          THEN Capped(run.failedKeysCap, Measured(Exp(i), seg, rows)) ELSE 0

\* r names slot i of the current segment and, unless it holds an error, reports
\* what evaluating the slot alone would.
Fits(i, r) ==
  /\ r.seg = seg /\ r.slot = i
  /\ r.err = "none" => /\ TotalFits(i, r.total)
                       /\ CountFits(i, r.count)
                       /\ SamplesFit(i, r.samples)
                       /\ KeysFit(i, r.keys)

\* The cached total is the population of every slot that reads it.
CacheExact ==
  run.snapshot /\ cache.loaded /\ cache.err = "none" =>
    \A i \in 1..NumSlots :
      UsesSegmentTotal(i) => cache.total = Cardinality(Population(Exp(i), seg, rows))

\* The result under construction belongs to slot i.
Begun(i) == cur.seg = seg /\ cur.slot = i /\ cur.err = "none" /\ cur.keys = 0

\* Its total and count are in, its keys are still to come.
Counted(i) ==
  /\ Begun(i) /\ HasRowDenominator(Exp(i))
  /\ TotalFits(i, cur.total) /\ CountFits(i, cur.count)

CurFits ==
  /\ phase = "total" => Begun(slot) /\ cur.samples = 0
  /\ phase = "measure" => Begun(slot) /\ cur.samples = 0 /\ TotalFits(slot, cur.total)
  /\ phase = "samples" => Counted(slot) /\ run.sampleCap > 0
  /\ phase = "keys" => Counted(slot) /\ SamplesFit(slot, cur.samples) /\ run.keyed
  /\ phase = "batchSamples" => Counted(batch.at) /\ run.sampleCap > 0
  /\ phase = "batchKeys" =>
       Counted(batch.at) /\ SamplesFit(batch.at, cur.samples) /\ run.keyed

BatchNamed ==
  \A k \in 1..NumSlots : batch.res[k].seg = seg /\ batch.res[k].slot = k

\* Slots of a batch never take the sequential path.
BatchCovers ==
  /\ phase \in {"start"} \cup SlotPhases => slot > batch.hi
  /\ phase \in {"slot"} \cup BatchPhases => \A k \in slot..batch.hi : InBatch(k)

\* What the batch has measured so far: finished slots, total and counts.
BatchFits ==
  /\ phase = "slot" /\ batch.err = "none" =>
       \A k \in slot..batch.hi : Fits(k, batch.res[k])
  /\ phase \in {"batchTotal", "batchCounts"} =>
       \A k \in slot..(batch.from - 1) : Fits(k, batch.res[k])
  /\ phase \in AtPhases => \A k \in slot..(batch.at - 1) : Fits(k, batch.res[k])
  /\ phase \in {"batchCounts"} \cup AtPhases =>
       \A k \in slot..batch.hi : TotalFits(k, batch.total)
  /\ phase \in AtPhases =>
       \A k \in batch.from..batch.to : CountFits(k, batch.counts[k])

ReportFits ==
  /\ \A r \in Published : r.slot \in 1..NumSlots /\ r.seg \in 1..seg
  /\ \A r \in Published :
       r.seg = seg /\ r.err = "none" /\ UsesSegmentTotal(r.slot) =>
         cache.loaded /\ cache.err = "none" /\ r.total = cache.total
  /\ ReportMatchesSnapshot
  /\ SameDenominator

Sound ==
  CacheExact /\ CurFits /\ BatchNamed /\ BatchCovers /\ BatchFits /\ ReportFits

SoundInv == TypeInv /\ Sound

\* A step of the call changes neither the call nor the segment, loads the cache
\* at most once, and within a snapshot sees the same rows.
SameView ==
  /\ run' = run /\ seg' = seg
  /\ run.snapshot => rows' = rows
  /\ cache.loaded => cache' = cache

-----------------------------------------------------------------------------
\* Slots without When evaluate one population.
LEMMA SamePopulation ==
  ASSUME NEW d, NEW e, NEW s, NEW T, ~d.when, ~e.when
  PROVE  Population(d, s, T) = Population(e, s, T)
BY DEF Population

\* A denominator that fits goes on fitting.
LEMMA TotalKept ==
  ASSUME SameView, NEW i, NEW t, TotalFits(i, t)
  PROVE  TotalFits(i, t)'
<1>1. UsesSegmentTotal(i)' = UsesSegmentTotal(i) /\ Exp(i)' = Exp(i)
  BY DEF SameView, UsesSegmentTotal, CachesTotal, Exp, NumSlots
<1> QED
  BY <1>1 DEF TotalFits, SameView

\* A count that fits goes on fitting.
LEMMA CountKept ==
  ASSUME SameView, NEW i, NEW n, CountFits(i, n)
  PROVE  CountFits(i, n)'
BY DEF SameView, CountFits, Exp

\* Samples that fit go on fitting.
LEMMA SamplesKept ==
  ASSUME SameView, NEW i, NEW n, SamplesFit(i, n)
  PROVE  SamplesFit(i, n)'
BY DEF SameView, SamplesFit, Exp

\* Keys that fit go on fitting.
LEMMA KeysKept ==
  ASSUME SameView, NEW i, NEW n, KeysFit(i, n)
  PROVE  KeysFit(i, n)'
BY DEF SameView, KeysFit, Exp

\* A result that fits its slot goes on fitting it.
LEMMA FitsKept ==
  ASSUME SameView, NEW i, NEW r, Fits(i, r)
  PROVE  Fits(i, r)'
<1>1. seg' = seg
  BY DEF SameView
<1> QED
  BY <1>1, TotalKept, CountKept, SamplesKept, KeysKept DEF Fits

\* Reading the cache leaves it exact.
LEMMA CacheKept ==
  ASSUME SameView, UNCHANGED cache, CacheExact
  PROVE  CacheExact'
BY DEF SameView, CacheExact, UsesSegmentTotal, CachesTotal, Exp, NumSlots

\* A published report goes on fitting.
LEMMA ReportKept ==
  ASSUME SameView, UNCHANGED results, ReportFits
  PROVE  ReportFits'
<1>1. Published' = Published /\ NumSlots' = NumSlots
  BY DEF Published, NumSlots, SameView
<1>2. \A i : Exp(i)' = Exp(i) /\ UsesSegmentTotal(i)' = UsesSegmentTotal(i)
  BY DEF SameView, UsesSegmentTotal, CachesTotal, Exp, NumSlots
<1>3. ReportMatchesSnapshot'
  BY <1>1, <1>2 DEF ReportFits, ReportMatchesSnapshot, SameView
<1>4. SameDenominator'
  BY <1>1, <1>2 DEF ReportFits, SameDenominator
<1> QED
  BY <1>1, <1>2, <1>3, <1>4 DEF ReportFits, SameView

\* Appending to the report adds one published result.
LEMMA PublishedAppend ==
  ASSUME results \in Seq(Result), NEW r, results' = Append(results, r)
  PROVE  Published' = Published \cup {r}
<1>1. /\ DOMAIN results = 1..Len(results) /\ Len(results) \in Nat
      /\ DOMAIN results' = 1..(Len(results) + 1)
      /\ \A k \in 1..Len(results) : results'[k] = results[k]
      /\ results'[Len(results) + 1] = r
  OBVIOUS
<1> QED
  BY <1>1 DEF Published

\* Publishing a result that fits keeps the report fitting.
LEMMA ReportPublish ==
  ASSUME SameView, results \in Seq(Result), ReportFits,
         slot \in 1..NumSlots, seg \in 1..NumSegments,
         NEW r, results' = Append(results, r), Fits(slot, r)
  PROVE  ReportFits'
<1> DEFINE i == slot
<1>1. /\ Published' = Published \cup {r} /\ NumSlots' = NumSlots
      /\ run' = run /\ seg' = seg
  BY PublishedAppend DEF NumSlots, SameView
<1>2. \A k : Exp(k)' = Exp(k) /\ UsesSegmentTotal(k)' = UsesSegmentTotal(k)
  BY DEF SameView, UsesSegmentTotal, CachesTotal, Exp, NumSlots
<1>3. r.slot = slot /\ r.seg = seg
  BY DEF Fits
<1>4. \A q \in Published' : q.slot \in 1..NumSlots' /\ q.seg \in 1..seg'
  BY <1>1, <1>3, SegmentsAssumption DEF ReportFits
<1>5. \A q \in Published' :
        q.seg = seg /\ q.err = "none" /\ UsesSegmentTotal(q.slot) =>
          cache.loaded /\ cache.err = "none" /\ q.total = cache.total
  BY <1>1, <1>3 DEF ReportFits, Fits, TotalFits
<1>6. SameDenominator'
  BY <1>1, <1>2, <1>3, <1>5 DEF ReportFits, SameDenominator
<1>7. ReportMatchesSnapshot'
  <2> SUFFICES ASSUME run.snapshot, NEW q \in Published', q.err = "none"
               PROVE  LET e == Exp(q.slot)
                          n == Measured(e, q.seg, rows)
                      IN /\ q.count = n
                         /\ UsesTotal(e) =>
                              q.total = Cardinality(Population(e, q.seg, rows))
                         /\ q.samples = IF HasRowDenominator(e) /\ run.sampleCap > 0
                              THEN Capped(run.sampleCap, n) ELSE 0
                         /\ q.keys = IF HasRowDenominator(e) /\ run.keyed
                              THEN Capped(run.failedKeysCap, n) ELSE 0
    BY <1>1, <1>2 DEF ReportMatchesSnapshot, SameView
  <2>1. CASE q \in Published
    BY <2>1 DEF ReportFits, ReportMatchesSnapshot
  <2>2. CASE q = r
    BY <1>3, <2>2 DEF Fits, TotalFits, CountFits, SamplesFit, KeysFit
  <2> QED
    BY <1>1, <2>1, <2>2
<1>8. \A q \in Published' :
        (q.seg = seg /\ q.err = "none" /\ UsesSegmentTotal(q.slot) =>
          cache.loaded /\ cache.err = "none" /\ q.total = cache.total)'
  BY <1>1, <1>2, <1>5 DEF SameView
<1> QED
  BY <1>4, <1>6, <1>7, <1>8 DEF ReportFits

\* An aborted call reports nothing.
LEMMA ReportAbort ==
  ASSUME SameView, ReportFits, results' = <<>>
  PROVE  ReportFits'
<1>1. Published' = {}
  BY DEF Published
<1> QED
  BY <1>1 DEF ReportFits, ReportMatchesSnapshot, SameDenominator

\* q and r are results of one slot with the same figures.
SameFigures(q, r) ==
  /\ q.seg = r.seg /\ q.slot = r.slot
  /\ q.total = r.total /\ q.count = r.count
  /\ q.samples = r.samples /\ q.keys = r.keys

\* Fitting is a matter of the figures and of the error.
LEMMA FitsSame ==
  ASSUME NEW i, NEW q, NEW r, SameFigures(q, r), r.seg = seg, r.slot = i,
         q.err = "none" => Fits(i, r) /\ r.err = "none"
  PROVE  Fits(i, q)
<1>1. CASE q.err = "none"
  BY <1>1 DEF Fits, SameFigures
<1>2. CASE q.err # "none"
  BY <1>2 DEF Fits, SameFigures
<1> QED
  BY <1>1, <1>2

\* A policy changes the verdict only.
LEMMA TolerateKeeps ==
  ASSUME NEW e \in Expectation, NEW r \in Result
  PROVE  SameFigures(Tolerate(e, r), r) /\ Tolerate(e, r).err = r.err
<1>1. \A s, t \in BOOLEAN :
        LET q == [r EXCEPT !.success = s, !.tolerated = t]
        IN SameFigures(q, r) /\ q.err = r.err
  BY DEF SameFigures, Result
<1>2. \A t \in BOOLEAN :
        LET q == [r EXCEPT !.tolerated = t]
        IN SameFigures(q, r) /\ q.err = r.err
  BY DEF SameFigures, Result
<1>3. SameFigures(r, r)
  BY DEF SameFigures
<1>4. Allowed(e, r) \in BOOLEAN /\ (Allowed(e, r) /\ MarkedTolerated(e, r)) \in BOOLEAN
  BY DEF Allowed
<1> QED
  BY <1>1, <1>2, <1>3, <1>4 DEF Tolerate

\* Recording an error changes the error and the verdict only.
LEMMA WithErrorKeeps ==
  ASSUME NEW r \in Result, NEW err \in Errors
  PROVE  SameFigures(WithError(r, err), r) /\ WithError(r, err).err = err
BY DEF WithError, SameFigures, Result

\* Finishing a sequential slot: what is published fits the slot, or the call is
\* aborted.
LEMMA ReportSettle ==
  ASSUME SameView, TypeInv, ReportFits, slot \in 1..NumSlots,
         NEW r \in Result, NEW err \in Errors, Settle(r, err),
         r.seg = seg, r.slot = slot,
         err = "none" => Fits(slot, r) /\ r.err = "none"
  PROVE  ReportFits'
<1> DEFINE q == WithError(Decorated(Exp(slot), r, err), err)
<1>1. CASE Aborts(err)
  BY <1>1, ReportAbort DEF Settle, Abort
<1>2. CASE ~Aborts(err)
  <2>1. results' = Append(results, q)
    BY <1>2 DEF Settle, Publish
  <2>2. Fits(slot, q)
    <3> DEFINE d == [r EXCEPT !.err = err]
               t == Tolerate(Exp(slot), d)
    <3>1. d \in Result /\ SameFigures(d, r) /\ d.err = err
      BY DEF Result, SameFigures
    <3>2. Exp(slot) \in Expectation
      BY RunTyped DEF TypeInv, TypeOK
    <3> HIDE DEF d
    <3>3. t \in Result /\ SameFigures(t, d)
      BY <3>1, <3>2, TolerateTyped, TolerateKeeps
    <3>4. q = WithError(t, err)
      BY DEF d, Decorated
    <3> HIDE DEF t, q
    <3>5. SameFigures(q, t) /\ q.err = err
      BY <3>3, <3>4, WithErrorKeeps
    <3>6. SameFigures(q, r)
      BY <3>1, <3>3, <3>5 DEF SameFigures
    <3> QED
      BY <3>5, <3>6, FitsSame
  <2> QED
    BY <2>1, <2>2, ReportPublish DEF TypeInv, TypeOK
<1> QED
  BY <1>1, <1>2

-----------------------------------------------------------------------------
(* Sequential slots.                                                       *)

\* A slot outside every batch lies behind the last batch evaluated.
LEMMA BehindBatch ==
  ASSUME SoundInv, phase = "slot", slot \in 1..NumSlots, ~InBatch(slot)
  PROVE  slot > batch.hi
BY DEF SoundInv, Sound, BatchCovers, TypeInv, TypeOK, Batch

\* Leaving a slot behind the last batch keeps the batch facts.
LEMMA BatchBehind ==
  ASSUME SoundInv, SameView, UNCHANGED batch, slot > batch.hi,
         \/ phase' \in {"slot", "error"} /\ slot' \in {slot, slot + 1}
         \/ phase' \in SlotPhases /\ slot' = slot
  PROVE  BatchNamed' /\ BatchCovers' /\ BatchFits'
<1>1. batch.hi \in Nat /\ slot \in Nat /\ slot' > batch.hi
  BY RunTyped DEF SoundInv, TypeInv, TypeOK, Batch
<1>2. BatchNamed'
  BY DEF SoundInv, Sound, BatchNamed, SameView, NumSlots
<1>3. \A k : k \notin slot'..batch.hi
  BY <1>1
<1>4. BatchCovers'
  BY <1>1, <1>3 DEF BatchCovers, SlotPhases, BatchPhases, AtPhases
<1>5. BatchFits'
  BY <1>3 DEF BatchFits, SlotPhases, AtPhases
<1> QED
  BY <1>2, <1>4, <1>5

\* Publishing or aborting ends the construction of a result.
LEMMA PublishSound ==
  ASSUME SoundInv, SameView, CacheExact', slot \in 1..NumSlots, slot > batch.hi,
         UNCHANGED batch, NEW r, Publish(r), Fits(slot, r)
  PROVE  Sound'
<1>1. phase' = "slot" /\ slot' = slot + 1 /\ results' = Append(results, r)
  BY DEF Publish
<1>2. ReportFits'
  BY <1>1, ReportPublish DEF SoundInv, Sound, TypeInv, TypeOK
<1>3. CurFits'
  BY <1>1 DEF CurFits
<1> QED
  BY <1>1, <1>2, <1>3, BatchBehind DEF Sound

\* Finishing a sequential slot keeps the invariant.
LEMMA SettleSound ==
  ASSUME SoundInv, SameView, CacheExact', slot \in 1..NumSlots, slot > batch.hi,
         UNCHANGED batch, NEW r \in Result, NEW err \in Errors, Settle(r, err),
         r.seg = seg, r.slot = slot,
         err = "none" => Fits(slot, r) /\ r.err = "none"
  PROVE  Sound'
<1>1. ReportFits'
  BY ReportSettle DEF SoundInv, Sound
<1>2. \/ phase' = "slot" /\ slot' = slot + 1
      \/ phase' = "error" /\ slot' = slot
  BY DEF Settle, Publish, Abort
<1>3. CurFits'
  BY <1>2 DEF CurFits
<1> QED
  BY <1>1, <1>2, <1>3, BatchBehind DEF Sound

\* Moving to the next statement of a sequential slot keeps the invariant.
LEMMA GotoSound ==
  ASSUME SoundInv, SameView, CacheExact', slot > batch.hi, UNCHANGED batch,
         NEW p \in SlotPhases, Goto(p), CurFits'
  PROVE  Sound'
<1>1. phase' = p /\ slot' = slot /\ UNCHANGED results
  BY DEF Goto
<1>2. ReportFits'
  BY <1>1, ReportKept DEF SoundInv, Sound
<1> QED
  BY <1>1, <1>2, BatchBehind DEF Sound

\* A configuration error keeps the invariant.
LEMMA RecordIssueSound == SoundInv /\ RecordIssue => Sound'
<1> SUFFICES ASSUME SoundInv, RecordIssue PROVE Sound'
  OBVIOUS
<1> DEFINE r == [Blank(seg, slot) EXCEPT !.err = "config"]
<1>1. SameView /\ UNCHANGED <<batch, cache>>
  BY DEF RecordIssue, SameView
<1>2. slot \in 1..NumSlots /\ phase = "slot" /\ Publish(r)
  BY RunTyped DEF RecordIssue, SoundInv, TypeInv, TypeOK
<1>3. slot > batch.hi
  BY <1>2, BehindBatch DEF RecordIssue, InBatch, Shareable
<1>4. Fits(slot, r)
  BY DEF Fits, Blank
<1>5. CacheExact'
  BY <1>1, CacheKept DEF SoundInv, Sound
<1> QED
  BY <1>1, <1>2, <1>3, <1>4, <1>5, PublishSound

\* Starting a slot keeps the invariant.
LEMMA BeginSlotSound == SoundInv /\ BeginSlot => Sound'
<1> SUFFICES ASSUME SoundInv, BeginSlot PROVE Sound'
  OBVIOUS
<1> DEFINE r == Blank(seg, slot)
<1>1. SameView /\ UNCHANGED <<batch, cache>> /\ cur' = r
  BY DEF BeginSlot, SameView
<1>2. /\ slot \in 1..NumSlots /\ phase = "slot" /\ seg \in 1..NumSegments
      /\ Exp(slot) \in Expectation /\ slot \in Nat
  BY RunTyped DEF BeginSlot, SoundInv, TypeInv, TypeOK
<1>3. slot > batch.hi
  BY <1>2, BehindBatch DEF BeginSlot
<1>4. CacheExact'
  BY <1>1, CacheKept DEF SoundInv, Sound
<1>5. /\ r \in Result /\ r.seg = seg /\ r.slot = slot /\ r.err = "none"
      /\ r.keys = 0 /\ r.samples = 0 /\ r.total = 0
  BY <1>2, BlankTyped DEF Blank
<1> HIDE DEF r
<1>6. CASE Settle(r, "render")
  BY <1>1, <1>2, <1>3, <1>4, <1>5, <1>6, SettleSound DEF Errors
<1>7. CASE Goto("total") /\ UsesTotal(Exp(slot))
  <2>1. CurFits'
    BY <1>1, <1>5, <1>7 DEF CurFits, Begun, Goto, SameView
  <2> QED
    BY <1>1, <1>3, <1>4, <1>7, <2>1, GotoSound DEF SlotPhases
<1>8. CASE Goto("measure") /\ ~UsesTotal(Exp(slot))
  <2>1. TotalFits(slot, 0)
    BY <1>8 DEF TotalFits, UsesSegmentTotal
  <2>2. TotalFits(slot, 0)'
    BY <1>1, <1>8, <2>1, TotalKept DEF Goto
  <2>3. CurFits'
    BY <1>1, <1>5, <1>8, <2>2 DEF CurFits, Begun, Goto, SameView
  <2> QED
    BY <1>1, <1>3, <1>4, <1>8, <2>3, GotoSound DEF SlotPhases
<1> QED
  BY <1>6, <1>7, <1>8 DEF BeginSlot, Goto, r

\* Loading the total keeps the invariant: the cached figure is the population of
\* every slot that will read it.
LEMMA LoadTotalSound == SoundInv /\ LoadTotal => Sound'
<1> SUFFICES ASSUME SoundInv, LoadTotal PROVE Sound'
  OBVIOUS
<1> DEFINE e == Exp(slot)
<1>1. phase \in SlotPhases /\ phase = "total" /\ TypeInv /\ TypeOK
  BY DEF LoadTotal, SlotPhases, SoundInv, TypeInv
<1>2. /\ slot > batch.hi /\ cur.seg = seg /\ cur.slot = slot /\ cur.err = "none"
      /\ cur.keys = 0 /\ cur.samples = 0
  BY <1>1 DEF SoundInv, Sound, BatchCovers, CurFits, Begun
<1>3. PICK n \in Nat : n = Cardinality(Population(e, seg, rows))
  BY <1>1, SlotFacts, CountsAreNat
<1>4. PICK err \in Outcomes(TRUE) :
        /\ IF CachesTotal(e)
             THEN cache' = Loaded(n, err) /\ totals' = totals + 1
             ELSE UNCHANGED <<cache, totals>>
        /\ IF err = "none"
             THEN cur' = [cur EXCEPT !.total = n] /\ Goto("measure")
             ELSE Settle(cur, err) /\ UNCHANGED cur
  BY <1>3 DEF LoadTotal
<1>5. SameView /\ UNCHANGED <<batch, run, seg, rows>>
  BY <1>4 DEF LoadTotal, SameView
<1>6. \A i : Exp(i)' = Exp(i) /\ UsesSegmentTotal(i)' = UsesSegmentTotal(i)
  BY <1>5 DEF UsesSegmentTotal, CachesTotal, Exp, NumSlots
<1>7. CacheExact'
  <2>1. CASE CachesTotal(e)
    <3>1. \A i : UsesSegmentTotal(i) => n = Cardinality(Population(Exp(i), seg, rows))
      BY <1>3, <2>1, SamePopulation DEF UsesSegmentTotal, CachesTotal
    <3> QED
      BY <1>4, <1>5, <1>6, <2>1, <3>1 DEF CacheExact, Loaded, NumSlots
  <2>2. CASE ~CachesTotal(e)
    BY <1>4, <1>5, <2>2, CacheKept DEF SoundInv, Sound
  <2> QED
    BY <2>1, <2>2
<1>8. CASE err = "none"
  <2>1. cur' = [cur EXCEPT !.total = n] /\ Goto("measure") /\ slot' = slot
    BY <1>4, <1>8 DEF Goto
  <2>2. TotalFits(slot, n)'
    BY <1>3, <1>4, <1>5, <1>6, <1>8, <2>1 DEF TotalFits, Loaded, UsesSegmentTotal
  <2>3. /\ cur'.total = n /\ cur'.seg = seg /\ cur'.slot = slot
        /\ cur'.err = "none" /\ cur'.keys = 0 /\ cur'.samples = 0
    BY <1>1, <1>2, <2>1, SlotFacts DEF Result
  <2>4. CurFits'
    BY <1>5, <2>1, <2>2, <2>3 DEF CurFits, Begun, Goto
  <2> QED
    BY <1>2, <1>5, <1>7, <2>1, <2>4, GotoSound DEF SlotPhases
<1>9. CASE err # "none"
  <2>1. err \in Errors
    BY DEF Outcomes, Errors
  <2> QED
    BY <1>1, <1>2, <1>4, <1>5, <1>7, <1>9, <2>1, SlotFacts, SettleSound
<1> QED
  BY <1>8, <1>9

\* Reading the cached total keeps the invariant.
LEMMA UseCachedTotalSound == SoundInv /\ UseCachedTotal => Sound'
<1> SUFFICES ASSUME SoundInv, UseCachedTotal PROVE Sound'
  OBVIOUS
<1>1. phase \in SlotPhases /\ phase = "total" /\ TypeInv /\ TypeOK
  BY DEF UseCachedTotal, SlotPhases, SoundInv, TypeInv
<1>2. /\ slot > batch.hi /\ cur.seg = seg /\ cur.slot = slot /\ cur.err = "none"
      /\ cur.keys = 0 /\ cur.samples = 0
  BY <1>1 DEF SoundInv, Sound, BatchCovers, CurFits, Begun
<1>3. SameView /\ UNCHANGED <<batch, run, seg, rows, cache>>
  BY DEF UseCachedTotal, SameView
<1>4. CacheExact'
  BY <1>3, CacheKept DEF SoundInv, Sound
<1>5. cache.total \in Nat /\ cache.err \in Errors
  BY <1>1, SlotFacts DEF Cache
<1>6. CASE cache.err = "none"
  <2>1. cur' = [cur EXCEPT !.total = cache.total] /\ Goto("measure")
    BY <1>6 DEF UseCachedTotal
  <2>2. /\ cur'.total = cache.total /\ cur'.seg = seg /\ cur'.slot = slot
        /\ cur'.err = "none" /\ cur'.keys = 0 /\ cur'.samples = 0
    BY <1>1, <1>2, <1>5, <2>1, SlotFacts DEF Result
  <2>3. UsesTotal(Exp(slot)) => UsesSegmentTotal(slot)
    BY DEF UseCachedTotal, UsesSegmentTotal
  <2>4. TotalFits(slot, cache.total)
    BY <1>1, <1>6, <2>3, SlotFacts
    DEF TotalFits, UseCachedTotal, SoundInv, Sound, CacheExact
  <2>5. TotalFits(slot, cache.total)'
    BY <1>3, <2>1, <2>4, TotalKept DEF Goto
  <2>6. CurFits'
    BY <1>3, <2>1, <2>2, <2>5 DEF CurFits, Begun, Goto
  <2> QED
    BY <1>2, <1>3, <1>4, <2>1, <2>6, GotoSound DEF SlotPhases
<1>7. CASE cache.err # "none"
  BY <1>1, <1>2, <1>3, <1>4, <1>5, <1>7, SlotFacts, SettleSound DEF UseCachedTotal
<1> QED
  BY <1>6, <1>7

\* No samples are wanted exactly when none would be returned.
LEMMA NoSamplesFit ==
  ASSUME TypeInv, NEW i, NEW r, r.count \in Nat, CountFits(i, r.count),
         ~WantsSamples(Exp(i), r)
  PROVE  SamplesFit(i, 0)
<1>1. run.sampleCap \in Nat
  BY RunTyped DEF TypeInv, TypeOK, Run
<1>2. CASE HasRowDenominator(Exp(i)) /\ run.sampleCap > 0
  BY <1>1, <1>2 DEF WantsSamples, SamplesFit, CountFits, Capped
<1>3. CASE ~(HasRowDenominator(Exp(i)) /\ run.sampleCap > 0)
  BY <1>3 DEF SamplesFit
<1> QED
  BY <1>2, <1>3

\* No keys are wanted exactly when none would be returned.
LEMMA NoKeysFit ==
  ASSUME TypeInv, NEW i, NEW r, r.count \in Nat, CountFits(i, r.count),
         ~WantsKeys(Exp(i), r)
  PROVE  KeysFit(i, 0)
<1>1. run.failedKeysCap \in Nat
  BY RunTyped DEF TypeInv, TypeOK, Run
<1>2. CASE HasRowDenominator(Exp(i)) /\ run.keyed
  BY <1>1, <1>2 DEF WantsKeys, KeysFit, CountFits, Capped
<1>3. CASE ~(HasRowDenominator(Exp(i)) /\ run.keyed)
  BY <1>3 DEF KeysFit
<1> QED
  BY <1>2, <1>3

\* For row checks the measured figure is the number of failing rows.
LEMMA MeasuredFailing ==
  ASSUME NEW e, NEW s, NEW T, HasRowDenominator(e)
  PROVE  Measured(e, s, T) = Cardinality(Failing(e, s, T))
BY DEF HasRowDenominator, Measured

\* The measuring statement keeps the invariant.
LEMMA MeasureSound == SoundInv /\ Measure => Sound'
<1> SUFFICES ASSUME SoundInv, Measure PROVE Sound'
  OBVIOUS
<1> DEFINE e == Exp(slot)
<1>1. phase \in SlotPhases /\ phase = "measure" /\ TypeInv /\ TypeOK
  BY DEF Measure, SlotPhases, SoundInv, TypeInv
<1>2. /\ slot > batch.hi /\ cur.seg = seg /\ cur.slot = slot /\ cur.err = "none"
      /\ cur.keys = 0 /\ cur.samples = 0 /\ TotalFits(slot, cur.total)
  BY <1>1 DEF SoundInv, Sound, BatchCovers, CurFits, Begun
<1>3. PICK n \in Nat : n = Measured(e, seg, rows)
  BY <1>1, SlotFacts, CountsAreNat
<1>4. PICK r \in Result : r = Observe(e, cur, n)
  BY <1>1, <1>3, SlotFacts, ObserveTyped
<1>5. PICK err \in Outcomes(EmitsEvent(e)) :
        /\ cur' = IF err = "none" THEN r ELSE cur
        /\ IF err # "none" THEN Settle(Blank(seg, slot), err)
           ELSE IF WantsSamples(e, r) THEN Goto("samples")
           ELSE IF WantsKeys(e, r) THEN Goto("keys")
           ELSE Settle(r, "none")
  BY <1>3, <1>4 DEF Measure
<1>6. SameView /\ UNCHANGED <<batch, run, seg, rows, cache>>
  BY DEF Measure, SameView
<1>7. CacheExact'
  BY <1>6, CacheKept DEF SoundInv, Sound
<1>8. /\ r.seg = seg /\ r.slot = slot /\ r.err = "none" /\ r.keys = 0
      /\ r.samples = 0 /\ r.total = cur.total /\ r.count = n
  BY <1>1, <1>2, <1>4, SlotFacts DEF Observe, Result
<1>9. CountFits(slot, n) /\ TotalFits(slot, r.total)
  BY <1>2, <1>3, <1>8 DEF CountFits
<1>10. ~WantsSamples(e, r) => SamplesFit(slot, 0)
  BY <1>1, <1>8, <1>9, NoSamplesFit
<1>11. ~WantsKeys(e, r) => KeysFit(slot, 0)
  BY <1>1, <1>8, <1>9, NoKeysFit
<1>12. CASE err # "none"
  <2>1. err \in Errors
    BY DEF Outcomes, Errors
  <2>2. /\ Blank(seg, slot) \in Result /\ Blank(seg, slot).seg = seg
        /\ Blank(seg, slot).slot = slot
    BY <1>1, SlotFacts, BlankTyped DEF Blank
  <2> QED
    BY <1>1, <1>2, <1>5, <1>6, <1>7, <1>12, <2>1, <2>2, SlotFacts, SettleSound
<1>13. CASE err = "none" /\ WantsSamples(e, r)
  <2>1. Goto("samples") /\ cur' = r /\ slot' = slot /\ Exp(slot)' = Exp(slot)
    BY <1>5, <1>6, <1>13 DEF Goto, Exp
  <2>2. CurFits'
    BY <1>6, <1>8, <1>9, <1>13, <2>1, TotalKept, CountKept
    DEF CurFits, Counted, Begun, Goto, WantsSamples
  <2> QED
    BY <1>2, <1>6, <1>7, <2>1, <2>2, GotoSound DEF SlotPhases
<1>14. CASE err = "none" /\ ~WantsSamples(e, r) /\ WantsKeys(e, r)
  <2>1. Goto("keys") /\ cur' = r /\ slot' = slot /\ Exp(slot)' = Exp(slot)
    BY <1>5, <1>6, <1>14 DEF Goto, Exp
  <2>2. CurFits'
    BY <1>6, <1>8, <1>9, <1>10, <1>14, <2>1, TotalKept, CountKept, SamplesKept
    DEF CurFits, Counted, Begun, Goto, WantsKeys
  <2> QED
    BY <1>2, <1>6, <1>7, <2>1, <2>2, GotoSound DEF SlotPhases
<1>15. CASE err = "none" /\ ~WantsSamples(e, r) /\ ~WantsKeys(e, r)
  <2>1. Fits(slot, r)
    BY <1>8, <1>9, <1>10, <1>11, <1>15 DEF Fits
  <2> QED
    BY <1>1, <1>2, <1>5, <1>6, <1>7, <1>8, <1>15, <2>1, SlotFacts, SettleSound
    DEF Errors
<1> QED
  BY <1>12, <1>13, <1>14, <1>15

\* The sample statement keeps the invariant.
LEMMA SamplesSound == SoundInv /\ Samples => Sound'
<1> SUFFICES ASSUME SoundInv, Samples PROVE Sound'
  OBVIOUS
<1> DEFINE e == Exp(slot)
<1>1. phase \in SlotPhases /\ phase = "samples" /\ TypeInv /\ TypeOK
  BY DEF Samples, SlotPhases, SoundInv, TypeInv
<1>2. /\ slot > batch.hi /\ cur.seg = seg /\ cur.slot = slot /\ cur.err = "none"
      /\ cur.keys = 0 /\ TotalFits(slot, cur.total) /\ CountFits(slot, cur.count)
      /\ HasRowDenominator(e) /\ run.sampleCap > 0
  BY <1>1 DEF SoundInv, Sound, BatchCovers, CurFits, Counted, Begun
<1>3. PICK n \in Nat : n = Capped(run.sampleCap, Cardinality(Failing(e, seg, rows)))
  BY <1>1, SlotFacts, CountsAreNat, CappedTyped DEF Run
<1>4. PICK r \in Result : r = [cur EXCEPT !.samples = n]
  BY <1>1, <1>3, SlotFacts DEF Result
<1>5. PICK err \in Outcomes(TRUE) :
        /\ cur' = IF err = "none" THEN r ELSE cur
        /\ IF err # "none" THEN Settle(cur, err)
           ELSE IF WantsKeys(e, r) THEN Goto("keys")
           ELSE Settle(r, "none")
  BY <1>3, <1>4 DEF Samples
<1>6. SameView /\ UNCHANGED <<batch, run, seg, rows, cache>>
  BY DEF Samples, SameView
<1>7. CacheExact'
  BY <1>6, CacheKept DEF SoundInv, Sound
<1>8. /\ r.seg = seg /\ r.slot = slot /\ r.err = "none" /\ r.keys = 0
      /\ r.samples = n /\ r.total = cur.total /\ r.count = cur.count
      /\ cur.count \in Nat
  BY <1>1, <1>2, <1>4, SlotFacts DEF Result
<1>9. SamplesFit(slot, n)
  BY <1>2, <1>3, MeasuredFailing DEF SamplesFit
<1>10. ~WantsKeys(e, r) => KeysFit(slot, 0)
  BY <1>1, <1>2, <1>8, NoKeysFit
<1>11. CASE err # "none"
  <2>1. err \in Errors
    BY DEF Outcomes, Errors
  <2> QED
    BY <1>1, <1>2, <1>5, <1>6, <1>7, <1>11, <2>1, SlotFacts, SettleSound
<1>12. CASE err = "none" /\ WantsKeys(e, r)
  <2>1. Goto("keys") /\ cur' = r /\ slot' = slot /\ Exp(slot)' = Exp(slot)
    BY <1>5, <1>6, <1>12 DEF Goto, Exp
  <2>2. CurFits'
    BY <1>2, <1>6, <1>8, <1>9, <1>12, <2>1, TotalKept, CountKept, SamplesKept
    DEF CurFits, Counted, Begun, Goto, WantsKeys
  <2> QED
    BY <1>2, <1>6, <1>7, <2>1, <2>2, GotoSound DEF SlotPhases
<1>13. CASE err = "none" /\ ~WantsKeys(e, r)
  <2>1. Fits(slot, r)
    BY <1>2, <1>8, <1>9, <1>10, <1>13 DEF Fits
  <2> QED
    BY <1>1, <1>2, <1>5, <1>6, <1>7, <1>8, <1>13, <2>1, SlotFacts, SettleSound
    DEF Errors
<1> QED
  BY <1>11, <1>12, <1>13

\* The failed-key statement keeps the invariant.
LEMMA KeysSound == SoundInv /\ Keys => Sound'
<1> SUFFICES ASSUME SoundInv, Keys PROVE Sound'
  OBVIOUS
<1> DEFINE e == Exp(slot)
<1>1. phase \in SlotPhases /\ phase = "keys" /\ TypeInv /\ TypeOK
  BY DEF Keys, SlotPhases, SoundInv, TypeInv
<1>2. /\ slot > batch.hi /\ cur.seg = seg /\ cur.slot = slot /\ cur.err = "none"
      /\ TotalFits(slot, cur.total) /\ CountFits(slot, cur.count)
      /\ SamplesFit(slot, cur.samples) /\ HasRowDenominator(e) /\ run.keyed
  BY <1>1 DEF SoundInv, Sound, BatchCovers, CurFits, Counted, Begun
<1>3. PICK n \in Nat : n = Capped(run.failedKeysCap, Cardinality(Failing(e, seg, rows)))
  BY <1>1, SlotFacts, CountsAreNat, CappedTyped DEF Run
<1>4. PICK r \in Result : r = [cur EXCEPT !.keys = n]
  BY <1>1, <1>3, SlotFacts DEF Result
<1>5. PICK err \in Outcomes(TRUE) : Settle(IF err = "none" THEN r ELSE cur, err)
  BY <1>3, <1>4 DEF Keys
<1>6. SameView /\ UNCHANGED <<batch, run, seg, rows, cache>> /\ err \in Errors
  BY DEF Keys, SameView, Outcomes, Errors
<1>7. CacheExact'
  BY <1>6, CacheKept DEF SoundInv, Sound
<1>8. /\ r.seg = seg /\ r.slot = slot /\ r.err = "none" /\ r.keys = n
      /\ r.samples = cur.samples /\ r.total = cur.total /\ r.count = cur.count
  BY <1>1, <1>2, <1>4, SlotFacts DEF Result
<1>9. KeysFit(slot, n)
  BY <1>2, <1>3, MeasuredFailing DEF KeysFit
<1>10. Fits(slot, r)
  BY <1>2, <1>8, <1>9 DEF Fits
<1>11. CASE err = "none"
  BY <1>1, <1>2, <1>5, <1>6, <1>7, <1>8, <1>10, <1>11, SlotFacts, SettleSound
<1>12. CASE err # "none"
  BY <1>1, <1>2, <1>5, <1>6, <1>7, <1>12, SlotFacts, SettleSound
<1> QED
  BY <1>11, <1>12

-----------------------------------------------------------------------------
(* Shared batches.                                                         *)

\* A step inside a batch publishes nothing and keeps the slot it started at.
LEMMA BatchStepSound ==
  ASSUME SoundInv, SameView, CacheExact', slot' = slot, results' = results,
         CurFits', BatchNamed', BatchCovers', BatchFits'
  PROVE  Sound'
BY ReportKept DEF SoundInv, Sound

\* The batch covers its slots as long as its end stays where it is.
LEMMA CoversKept ==
  ASSUME SoundInv, SameView, phase \in {"slot"} \cup BatchPhases, slot' = slot,
         batch'.hi = batch.hi, phase' \in {"slot"} \cup BatchPhases
  PROVE  BatchCovers'
<1>1. \A k : InBatch(k) => InBatch(k)'
  BY DEF InBatch, Shareable, Exp, NumSlots, SameView
<1> QED
  BY <1>1 DEF SoundInv, Sound, BatchCovers, SlotPhases, BatchPhases, AtPhases

\* Every slot of a batch is a row check of the suite that shares the total.
LEMMA InBatchFacts ==
  ASSUME NEW k, InBatch(k)
  PROVE  /\ k \in 1..NumSlots /\ ~Exp(k).when /\ HasRowDenominator(Exp(k))
         /\ UsesTotal(Exp(k)) /\ UsesSegmentTotal(k)
BY DEF InBatch, Shareable, HasRowDenominator, UsesTotal, UsesSegmentTotal, CachesTotal

\* A failing chunk keeps the invariant: its error reaches every slot that has
\* no result.
LEMMA FailChunkSound ==
  ASSUME SoundInv, SameView, CacheExact', phase \in BatchPhases,
         NEW err \in Errors, err # "none", FailChunk(err)
  PROVE  Sound'
<1>1. /\ phase' = "slot" /\ slot' = slot /\ results' = results
      /\ batch'.err = err /\ batch'.hi = batch.hi
      /\ \A k \in 1..NumSlots : batch'.res[k].seg = batch.res[k].seg
                             /\ batch'.res[k].slot = batch.res[k].slot
  <2>1. \A k \in 1..NumSlots : [batch.res[k] EXCEPT !.err = err].seg = batch.res[k].seg
                            /\ [batch.res[k] EXCEPT !.err = err].slot = batch.res[k].slot
    BY DEF SoundInv, TypeInv, TypeOK, Batch, Result
  <2> QED
    BY <2>1 DEF FailChunk, Goto, SoundInv, TypeInv, TypeOK, Batch
<1>2. BatchNamed'
  BY <1>1 DEF SoundInv, Sound, BatchNamed, SameView, NumSlots
<1>3. BatchCovers'
  BY <1>1, CoversKept
<1>4. BatchFits' /\ CurFits'
  BY <1>1 DEF BatchFits, CurFits, AtPhases
<1> QED
  BY <1>1, <1>2, <1>3, <1>4, BatchStepSound

\* Starting a batch keeps the invariant.
LEMMA BeginBatchSound == SoundInv /\ BeginBatch => Sound'
<1> SUFFICES ASSUME SoundInv, BeginBatch PROVE Sound'
  OBVIOUS
<1>1. /\ NumSlots \in Nat /\ slot \in 1..NumSlots /\ phase = "slot" /\ InBatch(slot)
      /\ NumSlots' = NumSlots
  BY RunTyped DEF BeginBatch, SoundInv, TypeInv, TypeOK, NumSlots
<1>2. SameView /\ UNCHANGED <<cache, run, seg>>
  BY DEF BeginBatch, SameView
<1>3. CacheExact'
  BY <1>2, CacheKept DEF SoundInv, Sound
<1>4. PICK h \in slot..NumSlots :
       /\ IsBatchEnd(slot, h)
       /\ IF run.tableRenders
            THEN /\ batch' = [NoBatch EXCEPT !.hi = h, !.from = slot,
                                             !.to = ChunkEnd(slot, h)]
                 /\ Goto("batchTotal")
            ELSE /\ batch' = [NoBatch EXCEPT
                                !.hi = h, !.err = "render",
                                !.res = [k \in 1..NumSlots |->
                                           [Blank(seg, k) EXCEPT !.err = "render"]]]
                 /\ Goto("slot")
  BY DEF BeginBatch
<1>5. \A k \in slot..h : InBatch(k)
  BY <1>1, <1>4 DEF IsBatchEnd, InBatch
<1>6. \A k : InBatch(k)' = InBatch(k)
  BY <1>2 DEF InBatch, Shareable, Exp, NumSlots
<1>7. CASE run.tableRenders
  <2>1. /\ batch'.hi = h /\ batch'.from = slot /\ phase' = "batchTotal" /\ slot' = slot
        /\ batch'.res = [k \in 1..NumSlots |-> Blank(seg, k)] /\ results' = results
    BY <1>4, <1>7 DEF NoBatch, Goto
  <2>2. BatchNamed'
    BY <1>1, <1>2, <2>1 DEF BatchNamed, Blank
  <2>3. BatchCovers'
    BY <1>5, <1>6, <2>1 DEF BatchCovers, SlotPhases
  <2>4. \A k : k \notin slot..(slot - 1)
    BY <1>1
  <2>5. BatchFits' /\ CurFits'
    BY <2>1, <2>4 DEF BatchFits, CurFits, AtPhases
  <2> QED
    BY <1>2, <1>3, <2>1, <2>2, <2>3, <2>5, BatchStepSound
<1>8. CASE ~run.tableRenders
  <2>1. /\ batch'.hi = h /\ batch'.err = "render" /\ phase' = "slot" /\ slot' = slot
        /\ batch'.res = [k \in 1..NumSlots |-> [Blank(seg, k) EXCEPT !.err = "render"]]
        /\ results' = results
    BY <1>4, <1>8 DEF NoBatch, Goto
  <2>2. BatchNamed'
    BY <1>1, <1>2, <2>1 DEF BatchNamed, Blank
  <2>3. BatchCovers'
    BY <1>5, <1>6, <2>1 DEF BatchCovers, SlotPhases
  <2>4. BatchFits' /\ CurFits'
    BY <2>1 DEF BatchFits, CurFits, AtPhases
  <2> QED
    BY <1>2, <1>3, <2>1, <2>2, <2>3, <2>4, BatchStepSound
<1> QED
  BY <1>7, <1>8

\* With its total in, a batch goes on to count.
LEMMA BatchTotalSound ==
  ASSUME SoundInv, SameView, CacheExact', phase = "batchTotal",
         NEW n \in Nat, batch' = [batch EXCEPT !.total = n], Goto("batchCounts"),
         cache'.loaded, cache'.err = "none", cache'.total = n, UNCHANGED rows
  PROVE  Sound'
<1>1. /\ batch'.hi = batch.hi /\ batch'.from = batch.from /\ batch'.res = batch.res
      /\ batch'.total = n /\ phase' = "batchCounts" /\ slot' = slot
      /\ results' = results
  BY DEF Goto, SoundInv, TypeInv, TypeOK, Batch
<1>2. BatchNamed'
  BY <1>1 DEF SoundInv, Sound, BatchNamed, SameView, NumSlots
<1>3. BatchCovers'
  BY <1>1, CoversKept DEF BatchPhases, AtPhases
<1>4. \A k \in slot..(batch.from - 1) : Fits(k, batch.res[k])'
  <2>1. \A k \in slot..(batch.from - 1) : Fits(k, batch.res[k])
    BY DEF SoundInv, Sound, BatchFits
  <2> QED
    BY <1>1, <2>1, FitsKept
<1>5. \A k \in slot..batch.hi : TotalFits(k, n)'
  <2> SUFFICES ASSUME NEW k \in slot..batch.hi PROVE TotalFits(k, n)'
    OBVIOUS
  <2>1. InBatch(k)
    BY DEF SoundInv, Sound, BatchCovers, BatchPhases
  <2>2. k \in 1..NumSlots' /\ UsesSegmentTotal(k)'
    BY <2>1, InBatchFacts DEF SameView, UsesSegmentTotal, CachesTotal, Exp, NumSlots
  <2> QED
    BY <2>2 DEF CacheExact, TotalFits
<1>6. BatchFits'
  BY <1>1, <1>4, <1>5 DEF BatchFits, AtPhases
<1>7. CurFits'
  BY <1>1 DEF CurFits
<1> QED
  BY <1>1, <1>2, <1>3, <1>6, <1>7, BatchStepSound

\* Loading the total of a batch keeps the invariant.
LEMMA LoadBatchTotalSound == SoundInv /\ LoadBatchTotal => Sound'
<1> SUFFICES ASSUME SoundInv, LoadBatchTotal PROVE Sound'
  OBVIOUS
<1>1. TypeInv /\ TypeOK /\ phase = "batchTotal" /\ phase \in BatchPhases
  BY DEF LoadBatchTotal, SoundInv, TypeInv, BatchPhases
<1>2. InBatch(batch.from)
  BY <1>1 DEF SoundInv, Sound, BatchCovers, TypeInv, TypeOK, Control, Batch
<1>3. Exp(batch.from) \in Expectation /\ ~Exp(batch.from).when
  BY <1>1, <1>2, InBatchFacts, RunTyped DEF TypeOK
<1>4. PICK n \in Nat : n = Cardinality(Population(Exp(batch.from), seg, rows))
  BY <1>1, <1>3, CountsAreNat DEF TypeOK
<1>5. PICK err \in Outcomes(TRUE) :
        /\ cache' = Loaded(n, err)
        /\ IF err = "none"
             THEN batch' = [batch EXCEPT !.total = n] /\ Goto("batchCounts")
             ELSE FailChunk(err)
  BY <1>4 DEF LoadBatchTotal
<1>6. SameView /\ UNCHANGED <<run, seg, rows>> /\ err \in Errors
  BY DEF LoadBatchTotal, SameView, Outcomes, Errors
<1>7. CacheExact'
  <2>1. \A i : Exp(i)' = Exp(i) /\ UsesSegmentTotal(i)' = UsesSegmentTotal(i)
    BY <1>6 DEF UsesSegmentTotal, CachesTotal, Exp, NumSlots
  <2>2. \A i : UsesSegmentTotal(i) => n = Cardinality(Population(Exp(i), seg, rows))
    BY <1>3, <1>4, SamePopulation DEF UsesSegmentTotal, CachesTotal
  <2> QED
    BY <1>5, <1>6, <2>1, <2>2 DEF CacheExact, Loaded, NumSlots
<1>8. CASE err = "none"
  <2>1. cache'.loaded /\ cache'.err = "none" /\ cache'.total = n
    BY <1>5, <1>8 DEF Loaded
  <2> QED
    BY <1>1, <1>5, <1>6, <1>7, <1>8, <2>1, BatchTotalSound
<1>9. CASE err # "none"
  BY <1>1, <1>5, <1>6, <1>7, <1>9, FailChunkSound
<1> QED
  BY <1>8, <1>9

\* Reading the cached total in a batch keeps the invariant.
LEMMA UseBatchTotalSound == SoundInv /\ UseBatchTotal => Sound'
<1> SUFFICES ASSUME SoundInv, UseBatchTotal PROVE Sound'
  OBVIOUS
<1>1. TypeInv /\ TypeOK /\ phase = "batchTotal" /\ phase \in BatchPhases
  BY DEF UseBatchTotal, SoundInv, TypeInv, BatchPhases
<1>2. SameView /\ UNCHANGED <<run, seg, rows, cache>>
  BY DEF UseBatchTotal, SameView
<1>3. CacheExact'
  BY <1>2, CacheKept DEF SoundInv, Sound
<1>4. cache.loaded /\ cache.total \in Nat /\ cache.err \in Errors
  BY <1>1 DEF UseBatchTotal, TypeOK, Cache
<1>5. CASE cache.err = "none"
  <2>1. PICK n \in Nat : n = cache.total
    BY <1>4
  <2>2. batch' = [batch EXCEPT !.total = n] /\ Goto("batchCounts")
    BY <1>5, <2>1 DEF UseBatchTotal
  <2> QED
    BY <1>1, <1>2, <1>3, <1>4, <1>5, <2>1, <2>2, BatchTotalSound
<1>6. CASE cache.err # "none"
  <2>1. FailChunk(cache.err)
    BY <1>6 DEF UseBatchTotal
  <2> QED
    BY <1>1, <1>2, <1>3, <1>4, <1>6, <2>1, FailChunkSound
<1> QED
  BY <1>5, <1>6

\* The shared counting statement keeps the invariant.
LEMMA CountBatchSound == SoundInv /\ CountBatch => Sound'
<1> SUFFICES ASSUME SoundInv, CountBatch PROVE Sound'
  OBVIOUS
<1>1. TypeInv /\ TypeOK /\ phase = "batchCounts" /\ phase \in BatchPhases
  BY DEF CountBatch, SoundInv, TypeInv, BatchPhases
<1>2. SameView /\ UNCHANGED <<run, seg, rows, cache>>
  BY DEF CountBatch, SameView
<1>3. CacheExact'
  BY <1>2, CacheKept DEF SoundInv, Sound
<1> DEFINE counts == [k \in 1..NumSlots |-> Measured(Exp(k), seg, rows)]
<1>4. PICK err \in Outcomes(TRUE) :
        IF err = "none"
          THEN /\ batch' = [batch EXCEPT !.at = batch.from, !.counts = counts]
               /\ Goto("batchSlot")
          ELSE FailChunk(err)
  BY DEF CountBatch
<1>5. CASE err = "none"
  <2>1. /\ batch'.hi = batch.hi /\ batch'.from = batch.from /\ batch'.to = batch.to
        /\ batch'.at = batch.from /\ batch'.res = batch.res
        /\ batch'.total = batch.total /\ batch'.counts = counts
        /\ phase' = "batchSlot" /\ slot' = slot /\ results' = results
    BY <1>1, <1>4, <1>5 DEF Goto, TypeOK, Batch
  <2>2. BatchNamed'
    BY <1>2, <2>1 DEF SoundInv, Sound, BatchNamed, NumSlots
  <2>3. BatchCovers'
    BY <1>1, <1>2, <2>1, CoversKept DEF BatchPhases, AtPhases
  <2>4. \A k \in slot..(batch.from - 1) : Fits(k, batch.res[k])'
    <3>1. \A k \in slot..(batch.from - 1) : Fits(k, batch.res[k])
      BY <1>1 DEF SoundInv, Sound, BatchFits
    <3> QED
      BY <1>2, <2>1, <3>1, FitsKept
  <2>5. \A k \in slot..batch.hi : TotalFits(k, batch.total)'
    <3>1. \A k \in slot..batch.hi : TotalFits(k, batch.total)
      BY <1>1 DEF SoundInv, Sound, BatchFits
    <3> QED
      BY <1>2, <2>1, <3>1, TotalKept
  <2>6. \A k \in batch.from..batch.to : CountFits(k, batch.counts[k])'
    <3>1. \A k \in batch.from..batch.to : k \in 1..NumSlots
      BY <1>1, RunTyped DEF TypeInv, TypeOK, Control, Batch
    <3> QED
      BY <1>2, <2>1, <3>1 DEF CountFits, Exp, NumSlots
  <2> HIDE DEF counts
  <2>7. BatchFits'
    BY <2>1, <2>4, <2>5, <2>6 DEF BatchFits, AtPhases
  <2>8. CurFits'
    BY <2>1 DEF CurFits
  <2> QED
    BY <1>2, <1>3, <2>1, <2>2, <2>3, <2>7, <2>8, BatchStepSound
<1>6. CASE err # "none"
  <2>1. err \in Errors /\ FailChunk(err)
    BY <1>4, <1>6 DEF Outcomes, Errors
  <2> QED
    BY <1>1, <1>2, <1>3, <1>6, <2>1, FailChunkSound
<1> QED
  BY <1>5, <1>6

\* Finishing a slot of a batch keeps the invariant, whether the slot was the last
\* of its chunk, of its batch, or neither.
LEMMA AdvanceSound ==
  ASSUME SoundInv, SameView, CacheExact', phase \in AtPhases,
         NEW r \in Result, Advance(r), Fits(batch.at, r)
  PROVE  Sound'
<1>1. /\ TypeInv /\ TypeOK /\ batch.at \in 1..NumSlots /\ Exp(batch.at) \in Expectation
      /\ batch \in Batch /\ NumSlots' = NumSlots /\ seg' = seg
      /\ phase \in BatchPhases
  BY BatchFacts DEF SoundInv, TypeInv, NumSlots, SameView, BatchPhases
<1>2. /\ batch.from \in Nat /\ batch.to \in Nat /\ batch.hi \in Nat /\ batch.at \in Nat
      /\ slot <= batch.from /\ batch.to <= batch.hi /\ batch.hi <= NumSlots
      /\ batch.at \in batch.from..batch.to /\ slot \in 1..NumSlots /\ NumSlots \in Nat
  BY <1>1, RunTyped DEF TypeInv, TypeOK, Control, BatchPhases, Batch
<1>3. PICK t \in Result : t = Tolerate(Exp(batch.at), r)
  BY <1>1, TolerateTyped
<1>4. PICK b \in Batch : b = [batch EXCEPT !.res[batch.at] = t]
  BY <1>1, <1>3 DEF Batch
<1>5. Fits(batch.at, t) /\ t.seg = seg /\ t.slot = batch.at
  <2>1. SameFigures(t, r) /\ t.err = r.err
    BY <1>1, <1>3, TolerateKeeps
  <2> QED
    BY <2>1, FitsSame DEF Fits, SameFigures
<1>6. /\ b.hi = batch.hi /\ b.from = batch.from /\ b.to = batch.to /\ b.at = batch.at
      /\ b.total = batch.total /\ b.counts = batch.counts
      /\ b.res = [batch.res EXCEPT ![batch.at] = t]
  BY <1>1, <1>4 DEF Batch
<1>7. \A k \in 1..NumSlots : b.res[k].seg = seg /\ b.res[k].slot = k
  BY <1>1, <1>5, <1>6 DEF SoundInv, Sound, BatchNamed, Batch
<1>8. \A k \in slot..batch.at : Fits(k, b.res[k])'
  <2>1. \A k \in slot..(batch.at - 1) : Fits(k, batch.res[k])
    BY DEF SoundInv, Sound, BatchFits
  <2>2. b.res[batch.at] = t /\ \A k \in slot..(batch.at - 1) : b.res[k] = batch.res[k]
    BY <1>1, <1>2, <1>6 DEF Batch
  <2>3. \A k \in slot..batch.at : k = batch.at \/ k \in slot..(batch.at - 1)
    BY <1>2
  <2>4. \A k \in slot..batch.at : Fits(k, b.res[k])
    BY <1>5, <2>1, <2>2, <2>3
  <2> QED
    BY <2>4, FitsKept
<1>9. /\ slot' = slot /\ results' = results
      /\ IF batch.at < batch.to
           THEN batch' = [b EXCEPT !.at = batch.at + 1] /\ phase' = "batchSlot"
         ELSE IF batch.to < batch.hi
           THEN /\ batch' = [b EXCEPT !.from = NextFrom,
                                      !.to = ChunkEnd(NextFrom, batch.hi)]
                /\ phase' = "batchTotal"
         ELSE batch' = b /\ phase' = "slot"
  BY <1>3, <1>4 DEF Advance, Goto, DecoratedBatch
<1>10. batch'.res = b.res /\ batch'.hi = batch.hi
  BY <1>6, <1>9 DEF Batch
<1>11. BatchNamed'
  BY <1>1, <1>7, <1>10 DEF BatchNamed
<1>12. BatchCovers'
  BY <1>1, <1>9, <1>10, CoversKept DEF BatchPhases, AtPhases
<1>13. CurFits'
  BY <1>9 DEF CurFits
<1>14. BatchFits'
  <2>1. CASE batch.at < batch.to
    <3>1. /\ batch'.at = batch.at + 1 /\ phase' = "batchSlot" /\ batch'.from = batch.from
          /\ batch'.to = batch.to /\ batch'.total = batch.total
          /\ batch'.counts = batch.counts
      BY <1>6, <1>9, <2>1 DEF Batch
    <3>2. \A k \in slot..batch.hi : TotalFits(k, batch.total)
      BY DEF SoundInv, Sound, BatchFits
    <3>3. \A k \in slot..batch.hi : TotalFits(k, batch.total)'
      BY <3>1, <3>2, TotalKept
    <3>4. \A k \in batch.from..batch.to : CountFits(k, batch.counts[k])
      BY DEF SoundInv, Sound, BatchFits
    <3>5. \A k \in batch.from..batch.to : CountFits(k, batch.counts[k])'
      BY <3>1, <3>4, CountKept
    <3>6. batch'.at - 1 = batch.at
      BY <1>2, <3>1
    <3>7. \A k \in slot..batch.at : Fits(k, batch.res[k])'
      BY <1>8, <1>10
    <3> QED
      BY <1>9, <1>10, <3>1, <3>3, <3>5, <3>6, <3>7 DEF BatchFits, AtPhases
  <2>2. CASE batch.at >= batch.to /\ batch.to < batch.hi
    <3>1. PICK n \in Nat : n = batch.to + 1 /\ n = NextFrom
      BY <1>2 DEF NextFrom
    <3>2. PICK m \in Nat : m = ChunkEnd(n, batch.hi)
      BY <1>2, <3>1, MaxTargetsAssumption DEF ChunkEnd
    <3>3. batch' = [b EXCEPT !.from = n, !.to = m] /\ phase' = "batchTotal"
      <4>1. ~(batch.at < batch.to)
        BY <1>2, <2>2
      <4>2. /\ batch' = [b EXCEPT !.from = NextFrom,
                                  !.to = ChunkEnd(NextFrom, batch.hi)]
            /\ phase' = "batchTotal"
        BY <1>9, <2>2, <4>1
      <4>3. ChunkEnd(NextFrom, batch.hi) = m
        BY <3>1, <3>2
      <4> QED
        BY <3>1, <4>2, <4>3
    <3>4. batch'.from = n
      BY <3>3 DEF Batch
    <3>5. batch'.from - 1 = batch.at
      BY <1>2, <2>2, <3>1, <3>4
    <3>6. \A k \in slot..batch.at : Fits(k, batch.res[k])'
      BY <1>8, <1>10
    <3> QED
      BY <1>9, <3>3, <3>5, <3>6 DEF BatchFits, AtPhases
  <2>3. CASE batch.at >= batch.to /\ batch.to >= batch.hi
    <3>1. phase' = "slot" /\ batch'.hi = batch.at
      BY <1>2, <1>6, <1>9, <2>3
    <3>2. \A k \in slot..batch.at : Fits(k, batch.res[k])'
      BY <1>8, <1>10
    <3> QED
      BY <1>9, <3>1, <3>2 DEF BatchFits, AtPhases
  <2> QED
    BY <1>2, <2>1, <2>2, <2>3
<1> QED
  BY <1>9, <1>11, <1>12, <1>13, <1>14, BatchStepSound

\* A failed diagnostic of a batch slot keeps the invariant.
LEMMA FailBatchSlotSound ==
  ASSUME SoundInv, SameView, CacheExact', phase \in AtPhases,
         NEW r \in Result, NEW err \in Errors, err # "none", FailBatchSlot(r, err),
         r.seg = seg, r.slot = batch.at
  PROVE  Sound'
<1>1. /\ TypeInv /\ TypeOK /\ batch.at \in 1..NumSlots /\ Exp(batch.at) \in Expectation
      /\ batch \in Batch /\ NumSlots' = NumSlots /\ seg' = seg
      /\ phase \in BatchPhases
  BY BatchFacts DEF SoundInv, TypeInv, NumSlots, SameView, BatchPhases
<1>2. PICK f \in Result : f = [r EXCEPT !.err = err, !.success = FALSE]
  BY DEF Result
<1>3. f.seg = seg /\ f.slot = batch.at /\ f.err = err /\ Fits(batch.at, f)
  BY <1>2 DEF Result, Fits
<1>4. CASE Advance(f)
  BY <1>3, <1>4, AdvanceSound
<1>5. ASSUME NEW b \in Batch, b.hi = batch.hi, batch' = [b EXCEPT !.err = err],
             Goto("slot"),
             \A k \in 1..NumSlots : b.res[k].seg = seg /\ b.res[k].slot = k
      PROVE  Sound'
  <2>1. /\ phase' = "slot" /\ slot' = slot /\ results' = results
        /\ batch'.hi = batch.hi /\ batch'.res = b.res /\ batch'.err = err
    BY <1>5 DEF Goto, Batch
  <2>2. BatchNamed'
    BY <1>1, <1>5, <2>1 DEF BatchNamed
  <2>3. BatchCovers'
    BY <1>1, <2>1, CoversKept
  <2>4. BatchFits'
    BY <2>1 DEF BatchFits, AtPhases
  <2>5. CurFits'
    BY <2>1 DEF CurFits
  <2> QED
    BY <2>1, <2>2, <2>3, <2>4, <2>5, BatchStepSound
<1>6. CASE err = "observer"
  <2>1. batch' = [batch EXCEPT !.err = err] /\ Goto("slot")
    BY <1>6 DEF FailBatchSlot
  <2> QED
    BY <1>1, <1>5, <2>1 DEF SoundInv, Sound, BatchNamed
<1>7. CASE err # "observer" /\ ~run.continueOnError
  <2>1. batch' = [DecoratedBatch(f) EXCEPT !.err = err] /\ Goto("slot")
    BY <1>2, <1>7 DEF FailBatchSlot
  <2>2. PICK t \in Result : t = Tolerate(Exp(batch.at), f)
    BY <1>1, TolerateTyped
  <2>3. t.seg = seg /\ t.slot = batch.at
    BY <1>1, <1>3, <2>2, TolerateKeeps DEF SameFigures
  <2>4. PICK b \in Batch : b = [batch EXCEPT !.res[batch.at] = t]
    BY <1>1, <2>2 DEF Batch
  <2>5. b.hi = batch.hi /\ \A k \in 1..NumSlots : b.res[k].seg = seg /\ b.res[k].slot = k
    BY <1>1, <2>3, <2>4 DEF Batch, SoundInv, Sound, BatchNamed
  <2>6. batch' = [b EXCEPT !.err = err]
    BY <2>1, <2>2, <2>4 DEF DecoratedBatch
  <2> QED
    BY <1>5, <2>1, <2>5, <2>6
<1>8. CASE err # "observer" /\ run.continueOnError
  BY <1>2, <1>4, <1>8 DEF FailBatchSlot
<1> QED
  BY <1>6, <1>7, <1>8

\* Going on to a diagnostic statement of the batch slot keeps the invariant.
LEMMA DiagnoseSound ==
  ASSUME SoundInv, SameView, CacheExact', phase \in AtPhases, NEW p \in AtPhases,
         UNCHANGED batch, Goto(p), CurFits'
  PROVE  Sound'
<1>1. phase' = p /\ slot' = slot /\ results' = results /\ phase \in BatchPhases
  BY DEF Goto, BatchPhases
<1>2. BatchNamed'
  BY DEF SoundInv, Sound, BatchNamed, SameView, NumSlots
<1>3. BatchCovers'
  BY <1>1, CoversKept DEF BatchPhases
<1>4. BatchFits'
  <2>1. \A k \in slot..(batch.at - 1) : Fits(k, batch.res[k])
    BY DEF SoundInv, Sound, BatchFits
  <2>2. \A k \in slot..(batch.at - 1) : Fits(k, batch.res[k])'
    BY <2>1, FitsKept
  <2>3. \A k \in slot..batch.hi : TotalFits(k, batch.total)
    BY DEF SoundInv, Sound, BatchFits
  <2>4. \A k \in slot..batch.hi : TotalFits(k, batch.total)'
    BY <2>3, TotalKept
  <2>5. \A k \in batch.from..batch.to : CountFits(k, batch.counts[k])
    BY DEF SoundInv, Sound, BatchFits
  <2>6. \A k \in batch.from..batch.to : CountFits(k, batch.counts[k])'
    BY <2>5, CountKept
  <2> QED
    BY <1>1, <2>2, <2>4, <2>6 DEF BatchFits, AtPhases
<1> QED
  BY <1>1, <1>2, <1>3, <1>4, BatchStepSound

\* Turning the count of a batch slot into its result keeps the invariant.
LEMMA MeasureBatchSlotSound == SoundInv /\ MeasureBatchSlot => Sound'
<1> SUFFICES ASSUME SoundInv, MeasureBatchSlot PROVE Sound'
  OBVIOUS
<1> DEFINE e == Exp(batch.at)
<1>1. phase \in AtPhases /\ TypeInv /\ TypeOK /\ batch \in Batch
  BY BatchFacts DEF MeasureBatchSlot, AtPhases, SoundInv, TypeInv
<1>2. /\ batch.at \in slot..batch.hi /\ batch.at \in batch.from..batch.to
      /\ batch.at \in 1..NumSlots /\ batch.total \in Nat
  BY <1>1, BatchFacts, RunTyped DEF TypeInv, TypeOK, Control, BatchPhases, Batch
<1>3. HasRowDenominator(e)
  BY <1>1, <1>2, InBatchFacts DEF SoundInv, Sound, BatchCovers, BatchPhases
<1>4. TotalFits(batch.at, batch.total) /\ CountFits(batch.at, batch.counts[batch.at])
  BY <1>1, <1>2 DEF SoundInv, Sound, BatchFits
<1>5. PICK n \in Nat : n = batch.counts[batch.at]
  BY <1>1, <1>2 DEF Batch
<1>6. PICK b \in Result :
        /\ b = [Blank(seg, batch.at) EXCEPT !.total = batch.total]
        /\ b.seg = seg /\ b.slot = batch.at /\ b.err = "none" /\ b.keys = 0
        /\ b.samples = 0 /\ b.total = batch.total
  <2>1. PICK z \in Result : z = Blank(seg, batch.at)
    BY <1>1, BatchFacts, BlankTyped
  <2>2. /\ z.seg = seg /\ z.slot = batch.at /\ z.err = "none" /\ z.keys = 0
        /\ z.samples = 0
    BY <2>1 DEF Blank
  <2>3. PICK m \in Nat : m = batch.total
    BY <1>2
  <2>4. PICK b \in Result : b = [z EXCEPT !.total = m]
    BY DEF Result
  <2>5. /\ b.seg = z.seg /\ b.slot = z.slot /\ b.err = z.err /\ b.keys = z.keys
        /\ b.samples = z.samples /\ b.total = m
    BY <2>4 DEF Result
  <2> QED
    BY <2>1, <2>2, <2>3, <2>4, <2>5
<1>7. PICK r \in Result : r = Observe(e, b, n)
  BY <1>1, BatchFacts, ObserveTyped
<1>8. /\ r.seg = seg /\ r.slot = batch.at /\ r.err = "none" /\ r.keys = 0
      /\ r.samples = 0 /\ r.total = batch.total /\ r.count = n
  BY <1>6, <1>7 DEF Observe, Result
<1>9. /\ cur' = r
      /\ IF WantsSamples(e, r) THEN UNCHANGED batch /\ Goto("batchSamples")
         ELSE IF WantsKeys(e, r) THEN UNCHANGED batch /\ Goto("batchKeys")
         ELSE Advance(r)
  BY <1>5, <1>6, <1>7 DEF MeasureBatchSlot
<1>10. SameView /\ UNCHANGED <<run, seg, rows, cache>>
  BY DEF MeasureBatchSlot, SameView
<1>11. CacheExact'
  BY <1>10, CacheKept DEF SoundInv, Sound
<1>12. CountFits(batch.at, n) /\ TotalFits(batch.at, r.total)
  BY <1>4, <1>5, <1>8
<1>13. ~WantsSamples(e, r) => SamplesFit(batch.at, 0)
  BY <1>1, <1>8, <1>12, NoSamplesFit
<1>14. ~WantsKeys(e, r) => KeysFit(batch.at, 0)
  BY <1>1, <1>8, <1>12, NoKeysFit
<1>15. CASE WantsSamples(e, r)
  <2>1. /\ Goto("batchSamples") /\ batch' = batch
        /\ Exp(batch.at)' = Exp(batch.at) /\ run.sampleCap > 0
    BY <1>9, <1>10, <1>15 DEF Exp, WantsSamples
  <2>2. CurFits'
    BY <1>3, <1>8, <1>9, <1>10, <1>12, <2>1, TotalKept, CountKept
    DEF CurFits, Counted, Begun, Goto
  <2> QED
    BY <1>1, <1>10, <1>11, <2>1, <2>2, DiagnoseSound DEF AtPhases
<1>16. CASE ~WantsSamples(e, r) /\ WantsKeys(e, r)
  <2>1. /\ Goto("batchKeys") /\ batch' = batch
        /\ Exp(batch.at)' = Exp(batch.at) /\ run.keyed
    BY <1>9, <1>10, <1>16 DEF Exp, WantsKeys
  <2>2. CurFits'
    BY <1>3, <1>8, <1>9, <1>10, <1>12, <1>13, <1>16, <2>1, TotalKept, CountKept, SamplesKept
    DEF CurFits, Counted, Begun, Goto
  <2> QED
    BY <1>1, <1>10, <1>11, <2>1, <2>2, DiagnoseSound DEF AtPhases
<1>17. CASE ~WantsSamples(e, r) /\ ~WantsKeys(e, r)
  <2>1. Fits(batch.at, r)
    BY <1>8, <1>12, <1>13, <1>14, <1>17 DEF Fits
  <2> QED
    BY <1>1, <1>9, <1>10, <1>11, <1>17, <2>1, AdvanceSound
<1> QED
  BY <1>15, <1>16, <1>17

\* The sample statement of a batch slot keeps the invariant.
LEMMA BatchSamplesSound == SoundInv /\ BatchSamples => Sound'
<1> SUFFICES ASSUME SoundInv, BatchSamples PROVE Sound'
  OBVIOUS
<1> DEFINE e == Exp(batch.at)
<1>1. phase \in AtPhases /\ phase = "batchSamples" /\ TypeInv /\ TypeOK
  BY DEF BatchSamples, AtPhases, SoundInv, TypeInv
<1>2. /\ cur.seg = seg /\ cur.slot = batch.at /\ cur.err = "none" /\ cur.keys = 0
      /\ TotalFits(batch.at, cur.total) /\ CountFits(batch.at, cur.count)
      /\ HasRowDenominator(e) /\ run.sampleCap > 0
  BY <1>1 DEF SoundInv, Sound, CurFits, Counted, Begun
<1>3. PICK n \in Nat : n = Capped(run.sampleCap, Cardinality(Failing(e, seg, rows)))
  BY <1>1, BatchFacts, CountsAreNat, CappedTyped DEF Run
<1>4. PICK r \in Result : r = [cur EXCEPT !.samples = n]
  BY <1>1, <1>3, BatchFacts DEF Result
<1>5. PICK err \in Outcomes(TRUE) :
        /\ cur' = IF err = "none" THEN r ELSE cur
        /\ IF err # "none" THEN FailBatchSlot(cur, err)
           ELSE IF WantsKeys(e, r) THEN UNCHANGED batch /\ Goto("batchKeys")
           ELSE Advance(r)
  BY <1>3, <1>4 DEF BatchSamples
<1>6. SameView /\ UNCHANGED <<run, seg, rows, cache>>
  BY DEF BatchSamples, SameView
<1>7. CacheExact'
  BY <1>6, CacheKept DEF SoundInv, Sound
<1>8. /\ r.seg = seg /\ r.slot = batch.at /\ r.err = "none" /\ r.keys = 0
      /\ r.samples = n /\ r.total = cur.total /\ r.count = cur.count
      /\ cur.count \in Nat
  BY <1>1, <1>2, <1>4, BatchFacts DEF Result
<1>9. SamplesFit(batch.at, n)
  BY <1>2, <1>3, MeasuredFailing DEF SamplesFit
<1>10. ~WantsKeys(e, r) => KeysFit(batch.at, 0)
  BY <1>1, <1>2, <1>8, NoKeysFit
<1>11. CASE err # "none"
  <2>1. err \in Errors
    BY DEF Outcomes, Errors
  <2> QED
    BY <1>1, <1>2, <1>5, <1>6, <1>7, <1>11, <2>1, BatchFacts, FailBatchSlotSound
<1>12. CASE err = "none" /\ WantsKeys(e, r)
  <2>1. /\ Goto("batchKeys") /\ cur' = r /\ batch' = batch
        /\ Exp(batch.at)' = Exp(batch.at) /\ run.keyed
    BY <1>5, <1>6, <1>12 DEF Exp, WantsKeys
  <2>2. CurFits'
    BY <1>2, <1>6, <1>8, <1>9, <1>12, <2>1, TotalKept, CountKept, SamplesKept
    DEF CurFits, Counted, Begun, Goto
  <2> QED
    BY <1>1, <1>6, <1>7, <2>1, <2>2, DiagnoseSound DEF AtPhases
<1>13. CASE err = "none" /\ ~WantsKeys(e, r)
  <2>1. Fits(batch.at, r)
    BY <1>2, <1>8, <1>9, <1>10, <1>13 DEF Fits
  <2> QED
    BY <1>1, <1>5, <1>6, <1>7, <1>13, <2>1, AdvanceSound
<1> QED
  BY <1>11, <1>12, <1>13

\* The failed-key statement of a batch slot keeps the invariant.
LEMMA BatchKeysSound == SoundInv /\ BatchKeys => Sound'
<1> SUFFICES ASSUME SoundInv, BatchKeys PROVE Sound'
  OBVIOUS
<1> DEFINE e == Exp(batch.at)
<1>1. phase \in AtPhases /\ phase = "batchKeys" /\ TypeInv /\ TypeOK
  BY DEF BatchKeys, AtPhases, SoundInv, TypeInv
<1>2. /\ cur.seg = seg /\ cur.slot = batch.at /\ cur.err = "none"
      /\ TotalFits(batch.at, cur.total) /\ CountFits(batch.at, cur.count)
      /\ SamplesFit(batch.at, cur.samples) /\ HasRowDenominator(e) /\ run.keyed
  BY <1>1 DEF SoundInv, Sound, CurFits, Counted, Begun
<1>3. PICK n \in Nat : n = Capped(run.failedKeysCap, Cardinality(Failing(e, seg, rows)))
  BY <1>1, BatchFacts, CountsAreNat, CappedTyped DEF Run
<1>4. PICK r \in Result : r = [cur EXCEPT !.keys = n]
  BY <1>1, <1>3, BatchFacts DEF Result
<1>5. PICK err \in Outcomes(TRUE) :
        IF err # "none" THEN FailBatchSlot(cur, err) ELSE Advance(r)
  BY <1>3, <1>4 DEF BatchKeys
<1>6. SameView /\ UNCHANGED <<run, seg, rows, cache>> /\ err \in Errors
  BY DEF BatchKeys, SameView, Outcomes, Errors
<1>7. CacheExact'
  BY <1>6, CacheKept DEF SoundInv, Sound
<1>8. /\ r.seg = seg /\ r.slot = batch.at /\ r.err = "none" /\ r.keys = n
      /\ r.samples = cur.samples /\ r.total = cur.total /\ r.count = cur.count
  BY <1>1, <1>2, <1>4, BatchFacts DEF Result
<1>9. KeysFit(batch.at, n)
  BY <1>2, <1>3, MeasuredFailing DEF KeysFit
<1>10. Fits(batch.at, r)
  BY <1>2, <1>8, <1>9 DEF Fits
<1>11. CASE err = "none"
  BY <1>1, <1>5, <1>6, <1>7, <1>10, <1>11, AdvanceSound
<1>12. CASE err # "none"
  BY <1>1, <1>2, <1>5, <1>6, <1>7, <1>12, BatchFacts, FailBatchSlotSound
<1> QED
  BY <1>11, <1>12

\* Taking a slot out of an evaluated batch keeps the invariant.
LEMMA TakeFromBatchSound == SoundInv /\ TakeFromBatch => Sound'
<1> SUFFICES ASSUME SoundInv, TakeFromBatch PROVE Sound'
  OBVIOUS
<1>1. /\ TypeInv /\ TypeOK /\ phase = "slot" /\ slot \in 1..NumSlots /\ NumSlots \in Nat
      /\ slot <= batch.hi /\ batch \in Batch /\ seg \in 1..NumSegments
  BY RunTyped DEF TakeFromBatch, SoundInv, TypeInv, TypeOK
<1>2. SameView /\ UNCHANGED <<run, seg, rows, cache, cur, batch>> /\ NumSlots' = NumSlots
  BY DEF TakeFromBatch, SameView, NumSlots
<1>3. CacheExact'
  BY <1>2, CacheKept DEF SoundInv, Sound
<1>4. PICK r \in Result : r = batch.res[slot]
  BY <1>1 DEF Batch
<1>5. PICK err \in Errors : err = IF r.err # "none" THEN r.err ELSE batch.err
  BY <1>1 DEF Batch, Result
<1>6. \/ Abort
      \/ Publish(WithError(r, err))
  BY <1>4, <1>5 DEF TakeFromBatch
<1>7. r.seg = seg /\ r.slot = slot /\ (batch.err = "none" => Fits(slot, r))
  BY <1>1, <1>4 DEF SoundInv, Sound, BatchNamed, BatchFits, Batch
<1>8. ReportFits'
  <2>1. CASE Abort
    BY <1>2, <2>1, ReportAbort DEF Abort, SoundInv, Sound
  <2>2. CASE Publish(WithError(r, err))
    <3>1. SameFigures(WithError(r, err), r) /\ WithError(r, err).err = err
      BY WithErrorKeeps
    <3>2. err = "none" => r.err = "none" /\ batch.err = "none"
      BY <1>5
    <3>3. Fits(slot, WithError(r, err))
      BY <1>7, <3>1, <3>2, FitsSame
    <3> QED
      BY <1>1, <1>2, <2>2, <3>3, ReportPublish DEF Publish, SoundInv, Sound, TypeOK
  <2> QED
    BY <1>6, <2>1, <2>2
<1>9. phase' \in {"slot", "error"} /\ slot' \in {slot, slot + 1}
  BY <1>6 DEF Abort, Publish
<1>10. CurFits'
  BY <1>9 DEF CurFits
<1>11. BatchNamed'
  BY <1>2 DEF SoundInv, Sound, BatchNamed
<1>12. \A k \in slot'..batch.hi : k \in slot..batch.hi
  BY <1>1, <1>9
<1>13. BatchCovers'
  <2>1. \A k : InBatch(k)' = InBatch(k)
    BY <1>2 DEF InBatch, Shareable, Exp, NumSlots
  <2>2. \A k \in slot..batch.hi : InBatch(k)
    BY <1>1 DEF SoundInv, Sound, BatchCovers
  <2> QED
    BY <1>2, <1>9, <1>12, <2>1, <2>2 DEF BatchCovers, SlotPhases, BatchPhases, AtPhases
<1>14. BatchFits'
  <2>1. batch.err = "none" => \A k \in slot..batch.hi : Fits(k, batch.res[k])
    BY <1>1 DEF SoundInv, Sound, BatchFits
  <2>2. batch.err = "none" => \A k \in slot..batch.hi : Fits(k, batch.res[k])'
    BY <1>2, <2>1, FitsKept
  <2> QED
    BY <1>2, <1>9, <1>12, <2>2 DEF BatchFits, AtPhases
<1> QED
  BY <1>3, <1>8, <1>10, <1>11, <1>13, <1>14 DEF Sound

-----------------------------------------------------------------------------
(* The call as a whole.                                                    *)

\* Moving to the next segment keeps the invariant: nothing of the old segment,
\* cache or batch, is left to read.
LEMMA EndSegmentSound == SoundInv /\ EndSegment => Sound'
<1> SUFFICES ASSUME SoundInv, EndSegment PROVE Sound'
  OBVIOUS
<1>1. /\ UNCHANGED <<run, rows, results>> /\ NumSlots' = NumSlots
      /\ Published' = Published /\ NumSlots \in Nat /\ seg \in 1..NumSegments
      /\ phase = "slot"
  BY RunTyped DEF EndSegment, NumSlots, Published, SoundInv, TypeInv, TypeOK
<1>2. CASE LastSegment
  <2>1. /\ phase' = "report" /\ SameView /\ UNCHANGED <<seg, slot, cache, batch>>
    BY <1>2 DEF EndSegment, SameView
  <2>2. CacheExact'
    BY <2>1, CacheKept DEF SoundInv, Sound
  <2>3. BatchNamed'
    BY <1>1, <2>1 DEF SoundInv, Sound, BatchNamed
  <2>4. CurFits' /\ BatchCovers' /\ BatchFits'
    BY <2>1 DEF CurFits, BatchCovers, BatchFits, SlotPhases, BatchPhases, AtPhases
  <2>5. ReportFits'
    BY <1>1, <2>1, ReportKept DEF SoundInv, Sound
  <2> QED
    BY <2>2, <2>3, <2>4, <2>5 DEF Sound
<1>3. CASE ~LastSegment
  <2>1. /\ seg' = seg + 1 /\ slot' = 1 /\ cache' = EmptyCache /\ phase' = "slot"
        /\ batch' = [NoBatch EXCEPT !.res = [k \in 1..NumSlots |-> Blank(seg + 1, k)]]
    BY <1>1, <1>3 DEF EndSegment, SegmentCache
  <2>2. batch'.hi = 0 /\ batch'.res = [k \in 1..NumSlots |-> Blank(seg + 1, k)]
    BY <2>1 DEF NoBatch
  <2>3. CacheExact'
    BY <2>1 DEF CacheExact, EmptyCache
  <2>4. BatchNamed'
    BY <1>1, <2>1, <2>2 DEF BatchNamed, Blank
  <2>5. \A k : k \notin slot'..batch'.hi
    BY <2>1, <2>2
  <2>6. CurFits' /\ BatchCovers' /\ BatchFits'
    BY <2>1, <2>5 DEF CurFits, BatchCovers, BatchFits, SlotPhases, BatchPhases, AtPhases
  <2>7. \A r \in Published : r.slot \in 1..NumSlots /\ r.seg \in 1..seg
    BY DEF SoundInv, Sound, ReportFits
  <2>8. \A r \in Published : r.seg \in 1..(seg + 1) /\ r.seg # seg + 1
    BY <1>1, <2>7
  <2>9. \A i : Exp(i)' = Exp(i) /\ UsesSegmentTotal(i)' = UsesSegmentTotal(i)
    BY <1>1 DEF UsesSegmentTotal, CachesTotal, Exp
  <2>10. ReportMatchesSnapshot'
    BY <1>1, <2>9 DEF SoundInv, Sound, ReportFits, ReportMatchesSnapshot
  <2>11. SameDenominator'
    BY <1>1, <2>9 DEF SoundInv, Sound, ReportFits, SameDenominator
  <2>12. ReportFits'
    BY <1>1, <2>1, <2>7, <2>8, <2>10, <2>11 DEF ReportFits
  <2> QED
    BY <2>3, <2>4, <2>6, <2>12 DEF Sound
<1> QED
  BY <1>2, <1>3

\* Preflight keeps the invariant.
LEMMA PreflightSound == SoundInv /\ Preflight => Sound'
<1> SUFFICES ASSUME SoundInv, Preflight PROVE Sound'
  OBVIOUS
<1>1. /\ SameView /\ UNCHANGED <<cache, batch, results, slot>>
      /\ phase' \in {"slot", "error"} /\ slot > batch.hi
  BY DEF Preflight, SameView, Goto, SoundInv, Sound, BatchCovers
<1>2. CacheExact'
  BY <1>1, CacheKept DEF SoundInv, Sound
<1>3. ReportFits'
  BY <1>1, ReportKept DEF SoundInv, Sound
<1>4. CurFits'
  BY <1>1 DEF CurFits
<1> QED
  BY <1>1, <1>2, <1>3, <1>4, BatchBehind DEF Sound

\* Other sessions change what later statements see, and nothing measured before.
LEMMA OthersSound == SoundInv /\ (Write \/ UNCHANGED vars) => Sound'
<1> SUFFICES ASSUME SoundInv, Write \/ UNCHANGED vars PROVE Sound'
  OBVIOUS
<1>1. UNCHANGED <<run, phase, seg, slot, cache, cur, batch, results>>
  BY DEF Write, vars
<1>2. SameView
  BY DEF Write, vars, SameView
<1>3. NumSlots' = NumSlots /\ \A k : Exp(k)' = Exp(k) /\ InBatch(k)' = InBatch(k)
  BY <1>1 DEF NumSlots, Exp, InBatch, Shareable
<1>4. CacheExact'
  BY <1>1, <1>2, CacheKept DEF SoundInv, Sound
<1>5. ReportFits'
  BY <1>1, <1>2, ReportKept DEF SoundInv, Sound
<1>6. BatchNamed' /\ BatchCovers'
  BY <1>1, <1>3 DEF SoundInv, Sound, BatchNamed, BatchCovers
<1>7. CurFits'
  <2>1. Begun(slot)' = Begun(slot) /\ Begun(batch.at)' = Begun(batch.at)
    BY <1>1 DEF Begun
  <2>2. \A i, t : TotalFits(i, t) => TotalFits(i, t)'
    BY <1>2, TotalKept
  <2>3. \A i, n : SamplesFit(i, n) => SamplesFit(i, n)'
    BY <1>2, SamplesKept
  <2>4. \A i, n : CountFits(i, n) => CountFits(i, n)'
    BY <1>2, CountKept
  <2>5. Counted(slot) => Counted(slot)'
    BY <1>1, <1>3, <2>1, <2>2, <2>4 DEF Counted
  <2>6. Counted(batch.at) => Counted(batch.at)'
    BY <1>1, <1>3, <2>1, <2>2, <2>4 DEF Counted
  <2> QED
    BY <1>1, <2>1, <2>2, <2>3, <2>5, <2>6 DEF SoundInv, Sound, CurFits
<1>8. BatchFits'
  <2>1. \A i, r : Fits(i, r) => Fits(i, r)'
    BY <1>2, FitsKept
  <2>2. \A i, t : TotalFits(i, t) => TotalFits(i, t)'
    BY <1>2, TotalKept
  <2>3. \A i, n : CountFits(i, n) => CountFits(i, n)'
    BY <1>2, CountKept
  <2> QED
    BY <1>1, <2>1, <2>2, <2>3 DEF SoundInv, Sound, BatchFits
<1> QED
  BY <1>4, <1>5, <1>6, <1>7, <1>8 DEF Sound

\* The call starts with nothing measured.
LEMMA InitSound == Init => Sound
<1> SUFFICES ASSUME Init PROVE Sound
  OBVIOUS
<1>1. batch.hi = 0 /\ batch.res = [k \in 1..NumSlots |-> Blank(seg, k)] /\ slot = 1
  BY DEF Init, NoBatch
<1>2. Published = {}
  BY DEF Init, Published
<1>3. CacheExact /\ CurFits
  BY DEF Init, CacheExact, EmptyCache, CurFits
<1>4. BatchNamed
  BY <1>1 DEF BatchNamed, Blank
<1>5. BatchCovers /\ BatchFits
  BY <1>1 DEF Init, BatchCovers, BatchFits, SlotPhases, BatchPhases, AtPhases
<1>6. ReportFits
  BY <1>2 DEF ReportFits, ReportMatchesSnapshot, SameDenominator
<1> QED
  BY <1>3, <1>4, <1>5, <1>6 DEF Sound

\* The types and what the call has measured form an inductive invariant.
LEMMA NextSound == SoundInv /\ [Next]_vars => SoundInv'
<1>1. SoundInv /\ [Next]_vars => TypeInv'
  BY NextTyped DEF SoundInv
<1>2. SoundInv /\ [Next]_vars => Sound'
  BY PreflightSound, RecordIssueSound, BeginSlotSound, LoadTotalSound,
     UseCachedTotalSound, MeasureSound, SamplesSound, KeysSound, BeginBatchSound,
     LoadBatchTotalSound, UseBatchTotalSound, CountBatchSound,
     MeasureBatchSlotSound, BatchSamplesSound, BatchKeysSound, TakeFromBatchSound,
     EndSegmentSound, OthersSound DEF Next, Step, Returned
<1> QED
  BY <1>1, <1>2 DEF SoundInv

\* In every reachable state the invariant holds.
THEOREM ReportSound == Spec => []SoundInv
<1>1. Init => SoundInv
  BY InitTyped, InitSound DEF SoundInv
<1> QED
  BY <1>1, NextSound, PTL DEF Spec

\* Within one view of the table every error-free result is what evaluating its
\* expectation alone on that view gives.
THEOREM SnapshotReport == Spec => []ReportMatchesSnapshot
<1>1. SoundInv => ReportMatchesSnapshot
  BY DEF SoundInv, Sound, ReportFits
<1> QED
  BY <1>1, ReportSound, PTL

\* Whatever other sessions write, results of a segment that share the scoped
\* total report one denominator.
THEOREM OneDenominator == Spec => []SameDenominator
<1>1. SoundInv => SameDenominator
  BY DEF SoundInv, Sound, ReportFits
<1> QED
  BY <1>1, ReportSound, PTL

=============================================================================
