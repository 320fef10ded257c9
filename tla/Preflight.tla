------------------------------ MODULE Preflight ------------------------------
(***************************************************************************)
(* The gate of ValidateTable: every slot of the suite is checked, then     *)
(* five passes over the suite look for slots that this dialect, or a       *)
(* population filter, rules out; then the call is refused, or runs with    *)
(* the slots at fault standing as errors in the report.                    *)
(*                                                                         *)
(* Abstraction: of an issue's error only its cause is kept.                *)
(***************************************************************************)
EXTENDS Declaration, FiniteSets

CONSTANTS
  Suites,   \* the suites a call may be made with
  Dialects  \* the capability sets of the dialects they may be made with

\* What a dialect may be able to do (relation.go, pattern.go,
\* schema_metadata.go, distribution.go).
Capabilities == {"relational", "regex", "nullability", "reportedType", "stdDev"}

ASSUME SuitesAssumption == Suites \subseteq Seq(Decl)
ASSUME DialectsAssumption == Dialects \subseteq SUBSET Capabilities

VARIABLES
  suite,     \* Suite.expectations
  dialect,   \* capabilities of the dialect
  filtered,  \* WithScope or WithSegments was given
  continue,  \* ContinueOnError
  pass,      \* the loop ValidateTable is in: 0, or an index of Passes
  at,        \* the slot the loop is at
  seen,      \* preflightState.seenIDs
  issues,    \* preflightState.issues
  outcome    \* "checking", "refused" or "accepted"

vars == <<suite, dialect, filtered, continue, pass, at, seen, issues, outcome>>

----------------------------------------------------------------------------

\* The capability passes in the order of the code; pass 0 is the check.
Passes == <<"relational", "regex", "metadata", "stdDev", "structural">>

\* Why a pass adds an issue for declaration d.
RuledOut(d, p) ==
  \/ p = "relational" /\ d.core \in {"reference", "composite"} /\ "relational" \notin dialect
  \/ p = "regex" /\ d.core = "regex" /\ "regex" \notin dialect
  \/ p = "metadata" /\ d.core \in {"nullability", "reportedType"} /\ d.core \notin dialect
  \/ p = "stdDev" /\ d.core = "stdDev" /\ "stdDev" \notin dialect
  \/ p = "structural" /\ d.core \in Structural /\ filtered

Causes == {"own", "id"} \cup {Passes[i] : i \in DOMAIN Passes}
Issue(i, cause) == [index |-> i, cause |-> cause]

HasIssueAt(i) == \E k \in DOMAIN issues : issues[k].index = i

\* errAt: the cause of the first issue of slot i.
CauseAt(i) ==
  issues[CHOOSE k \in DOMAIN issues :
           /\ issues[k].index = i
           /\ \A m \in DOMAIN issues : issues[m].index = i => k <= m].cause

Init ==
  /\ suite \in Suites /\ dialect \in Dialects
  /\ filtered \in BOOLEAN /\ continue \in BOOLEAN
  /\ pass = 0 /\ at = 1
  /\ seen = [id \in {} |-> 0]
  /\ issues = <<>>
  /\ outcome = "checking"

\* The index is taken after it has moved on.
RememberNext(id) ==
  seen' = [other \in DOMAIN seen \cup {id} |-> IF other = id THEN at + 1 ELSE seen[other]]

Remember(id) ==
  seen' = [other \in DOMAIN seen \cup {id} |-> IF other = id THEN at ELSE seen[other]]

Own(d) == IF OwnFault(d) THEN <<Issue(at, "own")>> ELSE <<>>
Taken(id) == id # Blank /\ id \in DOMAIN seen

\* The later slot alone is told that an identity is taken.
IssuesOfLater(d) ==
  Own(d) \o (IF Taken(TrimmedID(d)) THEN <<Issue(at, "id")>> ELSE <<>>)

\* The identity is looked at before the slot's own error.
IssuesIdentityFirst(d) ==
  (IF Taken(TrimmedID(d))
     THEN <<Issue(seen[TrimmedID(d)], "id"), Issue(at, "id")>> ELSE <<>>) \o Own(d)

\* The slot's own error, and then its identity, which an earlier slot may hold
\* already; both slots are told, the earlier one again for every further slot.
IssuesOf(d) ==
  Own(d) \o
  (IF Taken(TrimmedID(d))
     THEN <<Issue(seen[TrimmedID(d)], "id"), Issue(at, "id")>> ELSE <<>>)

\* preflightState.check.
Check ==
  /\ pass = 0 /\ at <= Len(suite)
  /\ LET id == TrimmedID(suite[at])
     IN IF id = Blank \/ Taken(id) THEN UNCHANGED seen ELSE Remember(id)
  /\ issues' = issues \o IssuesOf(suite[at])
  /\ at' = at + 1
  /\ UNCHANGED <<suite, dialect, filtered, continue, pass, outcome>>

\* One turn of a capability pass: a slot that has an issue keeps that one.
RuleOut ==
  /\ pass \in DOMAIN Passes /\ at <= Len(suite)
  /\ IF RuledOut(suite[at], Passes[pass]) /\ ~HasIssueAt(at)
       THEN issues' = Append(issues, Issue(at, Passes[pass]))
       ELSE UNCHANGED issues
  /\ at' = at + 1
  /\ UNCHANGED <<suite, dialect, filtered, continue, pass, seen, outcome>>

NextPass ==
  /\ at > Len(suite) /\ pass < Len(Passes)
  /\ pass' = pass + 1 /\ at' = 1
  /\ UNCHANGED <<suite, dialect, filtered, continue, seen, issues, outcome>>

Decide ==
  /\ at > Len(suite) /\ pass = Len(Passes) /\ outcome = "checking"
  /\ outcome' = IF issues # <<>> /\ ~continue THEN "refused" ELSE "accepted"
  /\ UNCHANGED <<suite, dialect, filtered, continue, pass, at, seen, issues>>

\* The gate has been passed, or not.
Decided == outcome # "checking" /\ UNCHANGED vars

Next == Check \/ RuleOut \/ NextPass \/ Decide \/ Decided

Spec == Init /\ [][Next]_vars

----------------------------------------------------------------------------
(* Properties.                                                             *)

Slots == DOMAIN suite

\* Every part of the state has its type; the passes stay within the suite.
TypeOK ==
  /\ suite \in Seq(Decl) /\ dialect \subseteq Capabilities
  /\ filtered \in BOOLEAN /\ continue \in BOOLEAN
  /\ pass \in 0..Len(Passes) /\ at \in 1..(Len(suite) + 1)
  /\ seen \in [DOMAIN seen -> Slots]
  /\ issues \in Seq([index: Slots, cause: Causes])
  /\ outcome \in {"checking", "refused", "accepted"}

SharesID(i) ==
  \E j \in Slots \ {i} :
    TrimmedID(suite[i]) # Blank /\ TrimmedID(suite[j]) = TrimmedID(suite[i])

Rejecting(i) == {p \in DOMAIN Passes : RuledOut(suite[i], Passes[p])}

Misconfigured(i) == ~WellFormed(suite[i]) \/ SharesID(i) \/ Rejecting(i) # {}

\* Before a statement is sent every misconfigured slot is known, and no other:
\* the checks of the wrappers look inwards from where they stand and the passes
\* skip slots, but what is found is what the documentation forbids, whatever
\* the order of wrappers and slots; and one such slot refuses the call unless
\* ContinueOnError was given.
EverySlotJudged ==
  outcome # "checking" =>
    /\ \A i \in Slots : HasIssueAt(i) <=> Misconfigured(i)
    /\ outcome = "refused" <=> ~continue /\ \E i \in Slots : Misconfigured(i)

\* The error a slot is published with under ContinueOnError: its own fault
\* first, then the identity it shares, and only then what the dialect or the
\* filter rules out, although the issue of an identity is also added by a later
\* slot.
CauseByPrecedence ==
  outcome # "checking" =>
    \A i \in Slots : Misconfigured(i) =>
      CauseAt(i) = CASE ~WellFormed(suite[i]) -> "own"
                     [] WellFormed(suite[i]) /\ SharesID(i) -> "id"
                     [] OTHER -> Passes[CHOOSE p \in Rejecting(i) :
                                          \A q \in Rejecting(i) : p <= q]
==============================================================================
