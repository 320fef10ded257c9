--------------------------- MODULE ArgumentBinding ---------------------------
(***************************************************************************)
(* Which value reaches which placeholder of the statements a run sends.    *)
(* Scope, segment, eligibility, expectation, filter and LIMIT each bring   *)
(* placeholders and values of their own; the text and the argument list    *)
(* are put together apart from each other, by rules that differ between    *)
(* dialects that bind by number and dialects that bind in text order.      *)
(*                                                                         *)
(* Abstractions: of a text only its placeholders are kept, in text order,  *)
(* each with the value its author meant it for.  No scope and a scope      *)
(* without placeholders are the same text.  What is counted, and what may  *)
(* fail, is the matter of ValidateRun.                                     *)
(***************************************************************************)
EXTENDS Integers, Sequences

CONSTANTS
  Styles,    \* placeholder styles of the dialects: Numbered, and "question"
  Scopes,    \* run-wide scopes; Absent when WithScope is not given
  Segmented, \* the segment lists a run may be given, <<>> for none
  Rules      \* expectations, and chunks of a shared batch

Numbered == {"dollar", "other"}
Blank == ""

ASSUME StylesAssumption == Styles \subseteq Numbered \cup {"question"}

\* A fragment of SQL its caller wrote: how many ? it has, how many values.
Fragment == [id: STRING, blank: BOOLEAN, slots: Nat, values: Nat]
Absent == [id |-> Blank, blank |-> TRUE, slots |-> 0, values |-> 0]

\* own: the values the expectation binds, the filter of a reference or a
\* reconciliation, the template of a custom count, of which early placeholders
\* stand before the scope marker.  when: eligibility.  chunk: of a shared chunk,
\* the number of values each check binds.
Kinds == {"perRow", "pattern", "unique", "composite", "reference", "completeness", "duplicateRate",
          "frequency", "dominant", "table", "aggregate", "reconcile", "custom", "shared"}
Rule == [kind: Kinds, own: Fragment, early: Nat, when: Fragment, chunk: Seq(Nat)]
NoRule == [kind |-> "table", own |-> Absent, early |-> 0, when |-> Absent, chunk |-> <<>>]

ASSUME InputsAssumption ==
  /\ Scopes \subseteq Fragment
  /\ Segmented \subseteq Seq(Fragment)
  /\ Rules \subseteq Rule

\* sharedScalarPlanFor refuses an eligibility, and no chunk is empty.
ASSUME SharedAssumption ==
  \A r \in Rules : r.kind = "shared" => r.when = Absent /\ r.chunk # <<>>

Owners == {"scope", "segment", "when", "rule", "limit"}
\* nth: which segment, or which check of a chunk.
Value == [of: Owners, nth: Nat, at: Nat]
Slot == [n: Nat, wants: Value]
Trusted == [slots: Seq(Value), values: Seq(Value)]
Predicate == [where: Seq(Slot), args: Seq(Value)]
Statement == [on: {"none", "target", "secondary"}, text: Seq(Slot), args: Seq(Value)]

VARIABLES
  style,      \* how the dialect writes placeholders; never changes
  scope,      \* the run-wide scope; never changes
  segments,   \* the segments; never changes
  phase,      \* what the run does next
  at,         \* the segment under evaluation
  loaded,     \* the segment's total is in the scopedTotal cache
  rule,       \* the expectation, or the shared chunk, under evaluation
  targets,    \* placeholders of the SELECT list of the shared statement
  predArgs,   \* their values, as appended so far
  failPreds,  \* the failure predicate of each check under evaluation
  due,        \* the check whose samples and keys are next
  sent,       \* the last statement sent
  captured    \* the diagnostics of the result under evaluation

vars == <<style, scope, segments, phase, at, loaded, rule, targets, predArgs,
          failPreds, due, sent, captured>>

config == <<style, scope, segments>>

----------------------------------------------------------------------------
(* Authored text and its validation.                                       *)

Own(of, nth, n) == [i \in 1..n |-> [of |-> of, nth |-> nth, at |-> i]]

Trust(of, n, f) == [slots |-> Own(of, n, f.slots), values |-> Own(of, n, f.values)]

\* validateScope, validateEligibility, validateTrustedFilter.
ValidFragment(f) == f.id # Blank /\ ~f.blank /\ f.slots = f.values

Given(f) == f # Absent

MaxSegments == 32

ValidSegments(segs) ==
  /\ Len(segs) \in 1..MaxSegments
  /\ \A i \in DOMAIN segs : ValidFragment(segs[i])
  /\ \A i, j \in DOMAIN segs : segs[i].id = segs[j].id => i = j

ScanTemplateEarly(r) == r.early + r.own.slots = r.own.values

\* scanTrustedCountWithArgs: custom placeholders follow the scope marker.
ScanTemplate(r) == r.early = 0 /\ r.own.slots = r.own.values

Accepted(r) ==
  /\ Given(r.when) => ValidFragment(r.when)
  /\ r.kind \in {"reference", "reconcile"} /\ Given(r.own) => ValidFragment(r.own)
  /\ r.kind = "custom" => ScanTemplate(r)

----------------------------------------------------------------------------
(* Rendering.                                                              *)

Placeholder(n) == IF style = "question" THEN 0 ELSE n

Slots(wants, offset) ==
  [i \in DOMAIN wants |-> [n |-> Placeholder(offset + i), wants |-> wants[i]]]

RenderAt(f, offset) == [where |-> Slots(f.slots, offset), args |-> f.values]

\* composeSegmentScope and composeEffectiveScope.
Conjoin(outer, inner) ==
  [slots |-> outer.slots \o inner.slots, values |-> outer.values \o inner.values]

ActiveScope ==
  IF segments = <<>> THEN Trust("scope", 0, scope)
  ELSE Conjoin(Trust("scope", 0, scope), Trust("segment", at, segments[at]))

EffectiveSuiteOnly == ActiveScope

\* The population of the rule under evaluation.
Effective == Conjoin(ActiveScope, Trust("when", 0, rule.when))

Everywhere == Trust("scope", 0, Absent)
NoPredicate == [where |-> <<>>, args |-> <<>>]

\* argBinder: the n values of an expectation, numbered after the population's.
ScopedArgBinder(pop, nth, n) ==
  [where |-> Slots(Own("rule", nth, n), Len(pop.values)), args |-> Own("rule", nth, n)]

\* The builders bind their values in the order of the placeholders they write.
PerRowPredicate(pop, nth, n) == ScopedArgBinder(pop, nth, n)
PatternPredicate(pop) == ScopedArgBinder(pop, 0, 1)

ComposeRowPredicateWithScope(pop, pred) ==
  [where |-> RenderAt(pop, 0).where \o pred.where,
   args  |-> RenderAt(pop, 0).args \o pred.args]

DuplicateValuePredicateSharing(pop) == RenderAt(pop, 0)

\* The subquery repeats the population, with numbers and values of its own.
DuplicateValuePredicate(pop) == RenderAt(pop, Len(pop.values))
CompositeDuplicatePredicate(pop) == RenderAt(pop, Len(pop.values))

ReferenceOrphanPredicate(pop, own) == RenderAt(Trust("rule", 0, own), Len(pop.values))

FrequencyArgsReadFirst(pop, n) == [ScopedArgBinder(pop, 0, n) EXCEPT !.args = <<>>]

\* The literal binds the value in one field and reads the binder's values in
\* the next; the compiler does so in this order.
FrequencyPredicate(pop, n) == ScopedArgBinder(pop, 0, n)

\* The predicate whose rows the rule counts.
RawPredicate(pop) ==
  CASE rule.kind = "perRow"                      -> PerRowPredicate(pop, 0, rule.own.values)
    [] rule.kind = "pattern"                     -> PatternPredicate(pop)
    [] rule.kind = "composite"                   -> CompositeDuplicatePredicate(pop)
    [] rule.kind = "frequency"                   -> FrequencyPredicate(pop, rule.own.values)
    [] rule.kind \in {"unique", "duplicateRate"} -> DuplicateValuePredicate(pop)
    [] rule.kind = "reference"                   -> ReferenceOrphanPredicate(pop, rule.own)
    [] OTHER                                     -> NoPredicate

\* {{scope}} is replaced in the text; custom placeholders number on from it.
RenderTrustedCount(pop, r) ==
  LET custom == Slots(Own("rule", 0, r.early + r.own.slots), Len(pop.values))
  IN [where |-> SubSeq(custom, 1, r.early) \o RenderAt(pop, 0).where
                  \o SubSeq(custom, r.early + 1, Len(custom)),
      args  |-> pop.values \o Own("rule", 0, r.own.values)]

ShiftNothing(where, delta) == where

\* The $ of a placeholder is looked for in the text, so others stay.
ShiftPositionalPlaceholders(where, delta) ==
  IF style # "dollar" THEN where
  ELSE [i \in DOMAIN where |-> [where[i] EXCEPT !.n = @ + delta]]

----------------------------------------------------------------------------
(* The run.                                                                *)

NoStatement == [on |-> "none", text |-> <<>>, args |-> <<>>]

Send(on, pred) == sent' = [on |-> on, text |-> pred.where, args |-> pred.args]

Capture(where, args) == captured' = [on |-> "target", text |-> where, args |-> args]

Init ==
  /\ style \in Styles /\ scope \in Scopes /\ segments \in Segmented
  /\ phase = "config"
  /\ at = 1
  /\ loaded = FALSE
  /\ rule = NoRule
  /\ targets = <<>> /\ predArgs = <<>> /\ failPreds = <<>>
  /\ due = 0
  /\ sent = NoStatement /\ captured = NoStatement

\* The options are validated before anything is sent.
Configure ==
  /\ phase = "config"
  /\ phase' = IF /\ Given(scope) => ValidFragment(scope)
                 /\ segments # <<>> => ValidSegments(segments)
              THEN "next" ELSE "refused"
  /\ UNCHANGED <<config, at, loaded, rule, targets, predArgs, failPreds, due, sent, captured>>

NextSegment ==
  /\ phase = "next" /\ at < Len(segments)
  /\ at' = at + 1
  /\ loaded' = FALSE
  /\ UNCHANGED <<config, phase, rule, targets, predArgs, failPreds, due, sent, captured>>

Return ==
  /\ phase = "next" /\ at >= Len(segments)
  /\ phase' = "returned"
  /\ UNCHANGED <<config, at, loaded, rule, targets, predArgs, failPreds, due, sent, captured>>

\* Kinds that read the scoped total before anything else.
Totalled == {"perRow", "pattern", "unique", "composite", "reference", "completeness",
             "duplicateRate", "frequency", "dominant"}

\* Preflight has removed the rules that are not accepted.
Evaluate ==
  /\ phase = "next"
  /\ \E r \in Rules :
       /\ Accepted(r)
       /\ rule' = r
       /\ phase' = IF r.kind = "shared" THEN "targets"
                   ELSE IF r.kind \in Totalled THEN "total" ELSE "count"
  /\ targets' = <<>> /\ predArgs' = <<>> /\ failPreds' = <<>>
  /\ due' = 1
  /\ captured' = NoStatement
  /\ UNCHANGED <<config, at, loaded, sent>>

\* One iteration of the loop over the plans of a shared chunk.
AddTarget ==
  /\ phase = "targets"
  /\ Len(failPreds) < Len(rule.chunk)
  /\ LET check == Len(failPreds) + 1
         raw   == PerRowPredicate(Everywhere, check, rule.chunk[check])
         delta == Len(ActiveScope.values) + Len(predArgs)
     IN /\ targets' = targets \o ShiftPositionalPlaceholders(raw.where, delta)
        /\ predArgs' = predArgs \o raw.args
        /\ failPreds' = Append(failPreds, ComposeRowPredicateWithScope(ActiveScope,
                          PerRowPredicate(ActiveScope, check, rule.chunk[check])))
  /\ UNCHANGED <<config, phase, at, loaded, rule, due, sent, captured>>

SharedArgs ==
  IF style = "question" THEN predArgs \o ActiveScope.values
  ELSE ActiveScope.values \o predArgs

\* SELECT comes before WHERE.
SharedStatement ==
  [where |-> targets \o RenderAt(ActiveScope, 0).where, args |-> SharedArgs]

CaptureShared ==
  /\ phase = "targets"
  /\ Len(failPreds) = Len(rule.chunk)
  /\ Capture(SharedStatement.where, SharedStatement.args)
  /\ phase' = "total"
  /\ UNCHANGED <<config, at, loaded, rule, targets, predArgs, failPreds, due, sent>>

\* resolveScopedTotal: sent once a segment, and once more by every rule with
\* eligibility, whose cache is its own.
ResolveScopedTotal ==
  /\ phase = "total"
  /\ IF loaded /\ ~Given(rule.when)
     THEN UNCHANGED <<loaded, sent>>
     ELSE /\ Send("target", ComposeRowPredicateWithScope(Effective, NoPredicate))
          /\ loaded' = (loaded \/ ~Given(rule.when))
  /\ phase' = "count"
  /\ UNCHANGED <<config, at, rule, targets, predArgs, failPreds, due, captured>>

\* Where rows of the target fail, their predicate is kept; they may be none.
CountRows ==
  /\ phase = "count"
  /\ LET pred == ComposeRowPredicateWithScope(Effective, RawPredicate(Effective))
     IN /\ Send("target", pred)
        /\ Capture(pred.where, pred.args)
        /\ failPreds' = <<pred>>
  /\ phase' \in {"samples", "next"}
  /\ UNCHANGED <<config, at, loaded, rule, targets, predArgs, due>>

CountPerRow == rule.kind \in {"perRow", "pattern"} /\ CountRows
CountUnique == rule.kind = "unique" /\ CountRows
CountComposite == rule.kind = "composite" /\ CountRows
CountReference == rule.kind = "reference" /\ CountRows

\* The diagnostics of these take the arguments from countQuery, which has none.
CountShare ==
  /\ phase = "count"
  /\ LET pred == ComposeRowPredicateWithScope(Effective, RawPredicate(Effective))
     IN Send("target", pred) /\ Capture(pred.where, <<>>)
  /\ phase' = "next"
  /\ UNCHANGED <<config, at, loaded, rule, targets, predArgs, failPreds, due>>

CountRate == rule.kind \in {"completeness", "duplicateRate"} /\ CountShare
CountFrequency == rule.kind = "frequency" /\ CountShare

\* The population as a whole.
CountPopulation ==
  /\ phase = "count"
  /\ LET pred == ComposeRowPredicateWithScope(Effective, NoPredicate)
     IN Send("target", pred) /\ Capture(pred.where, pred.args)
  /\ UNCHANGED <<config, at, loaded, rule, targets, predArgs, failPreds, due>>

\* Row counts and distinct counts.
CountTable == rule.kind = "table" /\ CountPopulation /\ phase' = "next"
QueryAggregate == rule.kind = "aggregate" /\ CountPopulation /\ phase' = "next"
QueryDominantCounts == rule.kind = "dominant" /\ CountPopulation /\ phase' = "next"
CountLeft == rule.kind = "reconcile" /\ CountPopulation /\ phase' = "secondary"

\* The right side: the secondary table, under its own filter only.
CountSecondary ==
  /\ phase = "secondary"
  /\ Send("secondary", RenderAt(Trust("rule", 0, rule.own), 0))
  /\ phase' = "next"
  /\ UNCHANGED <<config, at, loaded, rule, targets, predArgs, failPreds, due, captured>>

CountCustom ==
  /\ phase = "count" /\ rule.kind = "custom"
  /\ LET pred == RenderTrustedCount(Effective, rule)
     IN Send("target", pred) /\ Capture(pred.where, pred.args)
  /\ phase' = "next"
  /\ UNCHANGED <<config, at, loaded, rule, targets, predArgs, failPreds, due>>

\* The count of each check decides whether its rows are asked for.
CountShared ==
  /\ phase = "count" /\ rule.kind = "shared"
  /\ Send("target", SharedStatement)
  /\ phase' = "checks"
  /\ UNCHANGED <<config, at, loaded, rule, targets, predArgs, failPreds, due, captured>>

AfterCheckLast ==
  IF due <= Len(failPreds) THEN phase' = "checks" /\ due' = due + 1
  ELSE phase' = "next" /\ UNCHANGED due

AfterCheck ==
  IF due < Len(failPreds) THEN phase' = "checks" /\ due' = due + 1
  ELSE phase' = "next" /\ UNCHANGED due

NextCheck ==
  /\ phase = "checks"
  /\ \/ phase' = "samples" /\ UNCHANGED due
     \/ AfterCheck
  /\ UNCHANGED <<config, at, loaded, rule, targets, predArgs, failPreds, sent, captured>>

LimitArg == [of |-> "limit", nth |-> 0, at |-> 1]

WithLimit(pred) ==
  [where |-> pred.where \o Slots(<<LimitArg>>, Len(pred.args)),
   args  |-> Append(pred.args, LimitArg)]

\* Without a sample cap there is no statement.
QueryColumnSamples ==
  /\ phase = "samples"
  /\ \/ Send("target", WithLimit(failPreds[due]))
     \/ UNCHANGED sent
  /\ phase' = "keys"
  /\ UNCHANGED <<config, at, loaded, rule, targets, predArgs, failPreds, due, captured>>

\* Without key columns there is no statement, without a cap no LIMIT.
QueryFailedKeys ==
  /\ phase = "keys"
  /\ \/ Send("target", WithLimit(failPreds[due]))
     \/ Send("target", failPreds[due])
     \/ UNCHANGED sent
  /\ AfterCheck
  /\ UNCHANGED <<config, at, loaded, rule, targets, predArgs, failPreds, captured>>

\* FailingKeys sends a kept predicate again, as often as the caller likes.
FailingKeys ==
  /\ phase = "returned"
  /\ \E i \in DOMAIN failPreds : Send("target", failPreds[i])
  /\ UNCHANGED <<config, phase, at, loaded, rule, targets, predArgs, failPreds, due, captured>>

Next ==
  \/ Configure \/ NextSegment \/ Return \/ Evaluate
  \/ AddTarget \/ CaptureShared \/ ResolveScopedTotal
  \/ CountPerRow \/ CountUnique \/ CountComposite \/ CountReference
  \/ CountRate \/ CountFrequency
  \/ CountTable \/ QueryAggregate \/ QueryDominantCounts \/ CountLeft \/ CountSecondary
  \/ CountCustom \/ CountShared
  \/ NextCheck \/ QueryColumnSamples \/ QueryFailedKeys
  \/ FailingKeys

Spec == Init /\ [][Next]_vars

----------------------------------------------------------------------------
(* Properties.                                                             *)

Phases == {"config", "refused", "next", "targets", "total", "count", "secondary",
           "checks", "samples", "keys", "returned"}

\* Every variable holds a value of its type, and a row statement is due only
\* for a check whose predicate is at hand.
TypeOK ==
  /\ style \in Styles /\ scope \in Scopes /\ segments \in Segmented
  /\ phase \in Phases
  /\ at \in Nat \ {0}
  /\ loaded \in BOOLEAN
  /\ rule \in Rules \cup {NoRule}
  /\ targets \in Seq(Slot) /\ predArgs \in Seq(Value)
  /\ failPreds \in Seq(Predicate)
  /\ due \in Nat
  /\ phase \in {"samples", "keys"} => due \in DOMAIN failPreds
  /\ sent \in Statement /\ captured \in Statement

\* The place in the argument list from which the i-th placeholder is filled.
Filled(stmt, i) == IF style = "question" THEN i ELSE stmt.text[i].n

Matched(stmt) ==
  \A i \in DOMAIN stmt.text :
    /\ Filled(stmt, i) \in DOMAIN stmt.args
    /\ stmt.args[Filled(stmt, i)] = stmt.text[i].wants

\* Whatever the dialect and however scope, segment, eligibility, subqueries,
\* filters and shared predicates are put together, every placeholder of a
\* statement that is sent is given the value its author meant for it, and no
\* argument is sent that no placeholder reads: a driver refuses those.
PlaceholdersGetTheirValues ==
  /\ Matched(sent)
  /\ \A k \in DOMAIN sent.args : \E i \in DOMAIN sent.text : Filled(sent, i) = k

\* What the texts that narrow the rule's population bind, however composed.
PopulationValues ==
  [of: {"scope"}, nth: {0}, at: 1..scope.slots]
    \cup (IF segments = <<>> THEN {}
          ELSE [of: {"segment"}, nth: {at}, at: 1..segments[at].slots])
    \cup [of: {"when"}, nth: {0}, at: 1..rule.when.slots]

\* Until the report is returned, every statement about the target is held to
\* the whole population of the rule it is sent for: scope, segment and
\* eligibility together.
PopulationHeld ==
  [][sent' # sent /\ sent'.on = "target" /\ phase # "returned" =>
       PopulationValues \subseteq
         {sent'.text[k].wants : k \in DOMAIN sent'.text}]_vars

\* The diagnostics of a result are a statement with the arguments bound to it,
\* as CaptureQueryDiagnostics says.
CapturedWithArguments == Matched(captured)
=============================================================================
