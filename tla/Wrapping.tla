------------------------------ MODULE Wrapping ------------------------------
(***************************************************************************)
(* What the wrappers of one accepted declaration do to its result, on the  *)
(* two paths a result can take.  Sequentially every wrapper calls the one  *)
(* it holds and decorates what comes back, innermost first.  With shared   *)
(* scalar evaluation the chain is walked once, outermost first, into a     *)
(* plan, and the plan decorates the slot's result in an order of its own.  *)
(* The two are run side by side on the same measurement.                   *)
(*                                                                         *)
(* Abstractions: descriptions and tags go with the severity; samples, keys *)
(* and diagnostics are left out.  A percentage is compared exactly.        *)
(***************************************************************************)
EXTENDS Declaration

CONSTANTS
  Decls,    \* declarations, of which the accepted ones are evaluated
  Figures   \* the pairs of a total and a failure count that may be measured

ASSUME DeclsAssumption == Decls \subseteq Decl
ASSUME FiguresAssumption == Figures \subseteq [total: Nat, failed: Nat]

\* Of the errors only whether and when: no figures yet, or figures but then a
\* sample or key statement that failed.
Faults == {"none", "statement", "diagnostic"}

Result ==
  [id: RawIds \cup {Blank}, available: BOOLEAN, total: Nat, failed: Nat,
   success: BOOLEAN, tolerated: BOOLEAN, severity: Severities,
   maxCount: Int, maxPercent: Nat \cup {None}, err: BOOLEAN]

VARIABLES
  decl,      \* the declaration; never changes
  fault,     \* what fails when it is measured; never changes
  figures,   \* what is measured; never changes
  stage,     \* "plan", "unwind" or "published"
  at,        \* the layer the walk, or the unwinding, is at
  plan,      \* sharedScalarPlan under construction
  returned,  \* an error travels next to the result
  res,       \* the Result of the sequential path
  shared     \* the Result of the shared path

vars == <<decl, fault, figures, stage, at, plan, returned, res, shared>>

----------------------------------------------------------------------------
(* Decorating a result.                                                    *)

\* The zero Result of a declaration, as evalPerRow and evalSharedScalarCounts
\* leave it when no figure was measured.
Unmeasured ==
  [id |-> Blank, available |-> FALSE, total |-> 0, failed |-> 0,
   success |-> FALSE, tolerated |-> FALSE, severity |-> "error",
   maxCount |-> None, maxPercent |-> None, err |-> FALSE]

\* perRowResult, and the result of a table-level core, which has no denominator
\* and whose verdict figures.failed stands for.
Measured ==
  [Unmeasured EXCEPT !.available = decl.core \in RowCores,
                     !.total = IF decl.core \in RowCores THEN figures.total ELSE 0,
                     !.failed = IF decl.core \in RowCores THEN figures.failed ELSE 0,
                     !.success = figures.failed = 0]

ApplyMaxFailedCount(r, max) ==
  LET s == [r EXCEPT !.maxCount = max, !.tolerated = FALSE]
  IN IF s.err THEN [s EXCEPT !.success = FALSE]
     ELSE IF ~s.available THEN s
     ELSE [s EXCEPT !.success = s.failed <= max,
                    !.tolerated = s.failed <= max /\ s.failed > 0]

\* The bound reported is that of the rows that pass, subtracted the wrong way.
ApplyPassingPercent(r, max) ==
  LET s == [r EXCEPT !.maxPercent = max - 100, !.tolerated = FALSE]
      clean == s.total = 0 \/ s.failed = 0
      within == s.failed * 100 <= max * s.total
  IN IF s.err THEN [s EXCEPT !.success = FALSE]
     ELSE IF ~s.available THEN s
     ELSE [s EXCEPT !.success = clean \/ within, !.tolerated = ~clean /\ within]

ApplyMaxFailedPercent(r, max) ==
  LET s == [r EXCEPT !.maxPercent = max, !.tolerated = FALSE]
      clean == s.total = 0 \/ s.failed = 0
      within == s.failed * 100 <= max * s.total
  IN IF s.err THEN [s EXCEPT !.success = FALSE]
     ELSE IF ~s.available THEN s
     ELSE [s EXCEPT !.success = clean \/ within, !.tolerated = ~clean /\ within]

ApplyPolicy(r, policy) ==
  LET s == [r EXCEPT !.severity = policy.severity]
  IN IF Rated(policy) THEN ApplyMaxFailedPercent(s, policy.percent) ELSE s

\* applySharedPlanPolicy.
ApplyPlan(r) ==
  LET s == IF plan.policies = {} THEN r
           ELSE ApplyPolicy(r, CHOOSE policy \in plan.policies : TRUE)
  IN IF plan.max = None THEN s ELSE ApplyMaxFailedCount(s, plan.max)

\* A wrapper does not look at the error returned next to the result.
DecorateUnaware(r, layer) ==
  CASE layer.tag = "id" -> [r EXCEPT !.id = layer.id]
    [] layer.tag = "count" -> ApplyMaxFailedCount(r, layer.max)
    [] layer.tag = "policy" -> ApplyPolicy(r, layer)
    [] layer.tag = "when" -> r

\* One wrapper's evaluateSQL on its way back.
Decorate(r, layer) ==
  LET s == [r EXCEPT !.err = r.err \/ returned]
  IN CASE layer.tag = "id" -> [r EXCEPT !.id = layer.id]
       [] layer.tag = "count" -> ApplyMaxFailedCount(s, layer.max)
       [] layer.tag = "policy" -> ApplyPolicy(s, layer)
       [] layer.tag = "when" -> r

----------------------------------------------------------------------------

NoPlan == [shareable |-> TRUE, max |-> None, policies |-> {}]

\* A failed diagnostic needs a failing row, and cores without a denominator
\* send none.
Init ==
  /\ decl \in {d \in Decls : ~OwnFault(d)}
  /\ figures \in Figures /\ fault \in Faults
  /\ fault = "diagnostic" => figures.failed > 0 /\ decl.core \in RowCores
  /\ stage = "plan" /\ at = 1 /\ plan = NoPlan
  /\ returned = FALSE /\ res = Unmeasured /\ shared = Unmeasured

\* sharedScalarPlanFor: an inner wrapper overwrites what an outer one left.
PlanLayer ==
  /\ stage = "plan" /\ at <= Len(decl.layers) /\ plan.shareable
  /\ LET layer == decl.layers[at]
     IN plan' = CASE layer.tag = "count" -> [plan EXCEPT !.max = layer.max]
                  [] layer.tag = "policy" -> [plan EXCEPT !.policies = {layer}]
                  [] layer.tag = "when" -> [plan EXCEPT !.shareable = FALSE]
                  [] layer.tag = "id" -> plan
  /\ at' = at + 1
  /\ UNCHANGED <<decl, fault, figures, stage, returned, res, shared>>

\* The policy is not applied to results that were never measured.
SharedResultBare ==
  LET named == [Unmeasured EXCEPT !.id = ExpectationID(decl)]
      measured == [Measured EXCEPT !.id = ExpectationID(decl)]
  IN CASE fault = "statement" -> [named EXCEPT !.err = TRUE]
       [] fault = "diagnostic" ->
            ApplyPlan([measured EXCEPT !.err = TRUE, !.success = FALSE])
       [] fault = "none" -> ApplyPlan(measured)

\* evalSharedScalarCounts with the same measurement: every result is decorated
\* before anything is sent, and again once it is measured.
SharedResult ==
  LET named == [Unmeasured EXCEPT !.id = ExpectationID(decl)]
      measured == [Measured EXCEPT !.id = ExpectationID(decl)]
  IN CASE fault = "statement" -> [ApplyPlan(named) EXCEPT !.err = TRUE]
       [] fault = "diagnostic" ->
            ApplyPlan([measured EXCEPT !.err = TRUE, !.success = FALSE])
       [] fault = "none" -> ApplyPlan(measured)

\* The core's evaluateSQL.
Measure ==
  /\ stage = "plan" /\ (at > Len(decl.layers) \/ ~plan.shareable)
  /\ plan' = [plan EXCEPT !.shareable = @ /\ decl.core \in {"perRow", "regex"}]
  /\ shared' = SharedResult
  /\ res' = IF fault = "statement" THEN Unmeasured ELSE Measured
  /\ returned' = (fault # "none")
  /\ stage' = "unwind" /\ at' = Len(decl.layers)
  /\ UNCHANGED <<decl, fault, figures>>

Unwind ==
  /\ stage = "unwind" /\ at > 0
  /\ res' = Decorate(res, decl.layers[at])
  /\ at' = at - 1
  /\ UNCHANGED <<decl, fault, figures, stage, plan, returned, shared>>

\* applyPolicyMetadata forgets the count wrapper.
PolicyMetadataOnly(r) ==
  LET policy == decl.layers[Outermost(decl, "policy")]
  IN IF Tagged(decl, "policy") = {} THEN r
     ELSE [r EXCEPT !.severity = policy.severity, !.maxPercent = policy.percent]

\* applyPolicyMetadata: what a slot that is never evaluated says of its wrappers.
PolicyMetadata(r) ==
  LET policy == decl.layers[Outermost(decl, "policy")]
      s == IF Tagged(decl, "count") = {} THEN r
           ELSE [r EXCEPT !.maxCount = decl.layers[Outermost(decl, "count")].max]
  IN IF Tagged(decl, "policy") = {} THEN s
     ELSE [s EXCEPT !.severity = policy.severity, !.maxPercent = policy.percent]

\* configErrorResult, for a slot that something other than its own wrappers
\* keeps from being evaluated: a shared identity, the dialect, or a filter.
ConfigErrorResult ==
  PolicyMetadata([Unmeasured EXCEPT !.id = ExpectationID(decl), !.err = TRUE])

\* ValidateTable under ContinueOnError: an error that was returned is recorded,
\* and a result with an error does not pass.
Recorded(r) ==
  LET s == [r EXCEPT !.err = r.err \/ returned]
  IN [s EXCEPT !.success = r.success /\ ~s.err]

Publish ==
  /\ stage = "unwind" /\ at = 0
  /\ res' = Recorded(res) /\ shared' = Recorded(shared)
  /\ stage' = "published"
  /\ UNCHANGED <<decl, fault, figures, at, plan, returned>>

Published == stage = "published" /\ UNCHANGED vars

Next == PlanLayer \/ Measure \/ Unwind \/ Publish \/ Published

Spec == Init /\ [][Next]_vars

----------------------------------------------------------------------------
(* Properties.                                                             *)

\* Every part of the state has its type.
TypeOK ==
  /\ decl \in Decl /\ fault \in Faults /\ figures \in Figures
  /\ stage \in {"plan", "unwind", "published"}
  /\ at \in 0..(Len(decl.layers) + 1)
  /\ plan.shareable \in BOOLEAN /\ plan.max \in Int /\ plan.policies \subseteq Layer
  /\ returned \in BOOLEAN /\ res \in Result /\ shared \in Result

\* The layers of decl with a tag, wherever they stand.
The(tag) == decl.layers[CHOOSE i \in Tagged(decl, tag) : TRUE]

Excused(r) ==
  \/ Tagged(decl, "count") # {} /\ r.failed <= The("count").max
  \/ /\ Tagged(decl, "policy") # {} /\ Rated(The("policy"))
     /\ r.total = 0 \/ r.failed * 100 <= The("policy").percent * r.total

\* A published result is what its wrappers promise, in whatever order they are
\* nested: the outermost identity; the severity and bound of the one policy and
\* tolerance; an error never passes and is never tolerated; otherwise the
\* failures pass if there are none or the tolerance excuses them, and are then
\* marked, except when the population is empty under a percentage.
WrappersKeepTheirPromise ==
  stage = "published" =>
    /\ res.id = ExpectationID(decl)
    /\ res.severity = IF Tagged(decl, "policy") = {} THEN "error" ELSE The("policy").severity
    /\ res.maxCount = IF Tagged(decl, "count") = {} THEN None ELSE The("count").max
    /\ res.err <=> fault # "none"
    /\ decl.core \in RowCores =>
         res.success <=> ~res.err /\ (res.failed = 0 \/ Excused(res))
    /\ res.tolerated <=>
         /\ res.success /\ res.failed > 0
         /\ Tagged(decl, "count") # {} \/ res.total > 0

\* Shared scalar evaluation publishes the same result, field by field: the plan
\* drops the nesting and applies the policy before the count, and gives the
\* wrappers' metadata to a result before it is known whether it has an error.
\* A slot that preflight keeps from being evaluated is published as one whose
\* first statement failed: the walks that look for the outermost wrapper find
\* what evaluation applies.
SharedPathAgrees ==
  stage = "published" =>
    /\ plan.shareable => shared = res
    /\ fault = "statement" => res = ConfigErrorResult
==============================================================================
