---------------------------- MODULE MCPreflight ----------------------------
(***************************************************************************)
(* Small instances of Preflight: short suites of every kind of slot, and   *)
(* suites of one slot with every chain of up to three wrappers.            *)
(***************************************************************************)
EXTENDS Preflight

MCRawIds == {"a", " a", "b", " "}
MCTrim == [raw \in MCRawIds |->
             CASE raw = "b" -> "b" [] raw = " " -> "" [] OTHER -> "a"]

Id(raw) == [tag |-> "id", id |-> raw]
Count(max) == [tag |-> "count", max |-> max]
Policy(percent) == [tag |-> "policy", valid |-> TRUE, severity |-> "error", percent |-> percent]
BadPolicy == [Policy(None) EXCEPT !.valid = FALSE]
WhenLayer(valid) == [tag |-> "when", valid |-> valid]

Declare(layers, core) == [layers |-> layers, core |-> core, valid |-> TRUE]

\* Shared and blank identities, faults of their own, and every capability.
Slot ==
  {Declare(<<>>, "perRow"), Declare(<<Id("a")>>, "regex"),
   Declare(<<Policy(50), Id(" a")>>, "reference"), Declare(<<Id("b")>>, "nullability"),
   Declare(<<Id(" ")>>, "composite"), Declare(<<Count(1), Id("a")>>, "stdDev"),
   Declare(<<Id("b"), Policy(None)>>, "stdDev"), Declare(<<>>, "reportedType"),
   [Declare(<<Id("a")>>, "unique") EXCEPT !.valid = FALSE]}

ShortSuites == UNION {[1..n -> Slot] : n \in 0..3}

Wrappers ==
  {Id("a"), Id(" "), Count(1), Count(-1), Policy(None), Policy(50), Policy(101),
   BadPolicy, WhenLayer(TRUE), WhenLayer(FALSE)}

Chains == UNION {[1..n -> Wrappers] : n \in 0..3}

WrappedSlots ==
  {<<Declare(layers, core)>> : layers \in Chains, core \in {"perRow", "table", "nil"}}

MCSuites == ShortSuites \cup WrappedSlots

\* A dialect that can do everything, and one that can do nothing.
AllOrNothing == {{}, Capabilities}
=============================================================================
