----------------------------- MODULE Declaration -----------------------------
(***************************************************************************)
(* What an expectation handed to NewSuite is: a core and the wrappers      *)
(* around it (WithID, WithMaxFailedCount, WithPolicy, When), outermost     *)
(* first; and what the walks of the wrapper chain find in it.  Each walk   *)
(* of the code is a loop of its own from the outermost wrapper inwards.    *)
(***************************************************************************)
EXTENDS Integers, Sequences

CONSTANTS
  RawIds,  \* the strings given to WithID
  Trim     \* strings.TrimSpace on them: the identity that is compared

Blank == ""
None == -1  \* no percentage: the maxFailedPercent pointer is nil

ASSUME TrimAssumption == Trim \in [RawIds -> STRING]

Severities == {"error", "warning", "info"}

\* valid: the severity and tags are valid, or the eligibility predicate is.
Layer ==
       [tag: {"id"}, id: RawIds]
  \cup [tag: {"count"}, max: Int]
  \cup [tag: {"policy"}, valid: BOOLEAN, severity: Severities, percent: Nat \cup {None}]
  \cup [tag: {"when"}, valid: BOOLEAN]

RowCores == {"perRow", "regex", "unique", "composite", "reference"}
Structural == {"columns", "nullability", "reportedType"}
Cores == RowCores \cup Structural \cup {"stdDev", "table", "nil"}

\* valid: the core's own preflight finds nothing.
Decl == [layers: Seq(Layer), core: Cores, valid: BOOLEAN]

Layers(d) == DOMAIN d.layers
Rated(layer) == layer.tag = "policy" /\ layer.percent # None

\* The layers further in than i.
Inner(d, i) == {d.layers[j] : j \in {k \in Layers(d) : i < k}}

----------------------------------------------------------------------------
(* The configuration errors of one declaration.                            *)

PolicyValid(layer) == layer.valid /\ (Rated(layer) => layer.percent <= 100)

IdFault(d, i) == Trim[d.layers[i].id] = Blank

CountFault(d, i) ==
  \/ d.layers[i].max < 0
  \/ \E layer \in Inner(d, i) : layer.tag = "count" \/ Rated(layer)
  \/ d.core \notin RowCores

\* A rate tolerance does not look for a count tolerance inside it.
PolicyFaultOneTolerance(d, i) ==
  \/ ~PolicyValid(d.layers[i])
  \/ Rated(d.layers[i]) /\ d.core \notin RowCores
  \/ \E layer \in Inner(d, i) : layer.tag = "policy"

PolicyFault(d, i) ==
  \/ ~PolicyValid(d.layers[i])
  \/ /\ Rated(d.layers[i])
     /\ \/ \E layer \in Inner(d, i) : layer.tag = "count"
        \/ d.core \notin RowCores
  \/ \E layer \in Inner(d, i) : layer.tag = "policy"

WhenFault(d, i) ==
  \/ ~d.layers[i].valid
  \/ \E layer \in Inner(d, i) : layer.tag = "when"
  \/ d.core \notin RowCores

LayerFault(d, i) ==
  LET tag == d.layers[i].tag
  IN \/ tag = "id" /\ IdFault(d, i)
     \/ tag = "count" /\ CountFault(d, i)
     \/ tag = "policy" /\ PolicyFault(d, i)
     \/ tag = "when" /\ WhenFault(d, i)

CoreFault(d) == d.core = "nil" \/ ~d.valid

\* preflightExpectation returns the error of the outermost layer that has one.
OwnFault(d) == CoreFault(d) \/ \E i \in Layers(d) : LayerFault(d, i)

----------------------------------------------------------------------------
(* Walks that look for one layer.                                          *)

Tagged(d, tag) == {i \in Layers(d) : d.layers[i].tag = tag}

\* expectationID, policyForExpectation, maxFailedCountForExpectation: the
\* first layer met from outside.
Outermost(d, tag) == CHOOSE i \in Tagged(d, tag) : \A j \in Tagged(d, tag) : i <= j

ExpectationID(d) ==
  IF Tagged(d, "id") = {} THEN Blank ELSE d.layers[Outermost(d, "id")].id

TrimmedID(d) ==
  IF Tagged(d, "id") = {} THEN Blank ELSE Trim[d.layers[Outermost(d, "id")].id]

----------------------------------------------------------------------------
(* What the documentation promises of the wrappers, with no order in it.   *)

Tolerances(d) == {i \in Layers(d) : d.layers[i].tag = "count" \/ Rated(d.layers[i])}

AtMostOne(S) == \A i, j \in S : i = j

WellFormed(d) ==
  /\ ~CoreFault(d)
  /\ \A i \in Layers(d) :
       LET layer == d.layers[i]
       IN /\ layer.tag = "id" => Trim[layer.id] # Blank
          /\ layer.tag = "count" => layer.max >= 0
          /\ layer.tag = "policy" => PolicyValid(layer)
          /\ layer.tag = "when" => layer.valid
          /\ (i \in Tolerances(d) \/ layer.tag = "when") => d.core \in RowCores
  /\ AtMostOne(Tolerances(d))
  /\ AtMostOne(Tagged(d, "policy"))
  /\ AtMostOne(Tagged(d, "when"))
==============================================================================
