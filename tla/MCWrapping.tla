----------------------------- MODULE MCWrapping -----------------------------
(***************************************************************************)
(* Small instances of Wrapping: every chain of up to four wrappers.        *)
(***************************************************************************)
EXTENDS Wrapping

MCRawIds == {"a", " a", " "}
MCTrim == [raw \in MCRawIds |-> IF raw = " " THEN "" ELSE "a"]

Policy(severity, percent) ==
  [tag |-> "policy", valid |-> TRUE, severity |-> severity, percent |-> percent]

Wrappers ==
  {[tag |-> "id", id |-> "a"], [tag |-> "id", id |-> " a"],
   [tag |-> "count", max |-> 0], [tag |-> "count", max |-> 1],
   Policy("warning", None), Policy("info", 50), [tag |-> "when", valid |-> TRUE]}

MCDecls ==
  {[layers |-> layers, core |-> core, valid |-> TRUE] :
     layers \in UNION {[1..n -> Wrappers] : n \in 0..4}, core \in {"perRow", "unique", "table"}}

\* Below, at and above both bounds, and a stale empty total next to failures.
MCFigures == [total: {0, 2, 3}, failed: 0..2]
=============================================================================
