------------------------- MODULE MCArgumentBinding -------------------------
(***************************************************************************)
(* Small instances of ArgumentBinding: no more than two placeholders from  *)
(* one author, fragments whose arity is wrong among them.                  *)
(***************************************************************************)
EXTENDS ArgumentBinding

Text(id, slots, values) == [id |-> id, blank |-> FALSE, slots |-> slots, values |-> values]
Whole(id, n) == Text(id, n, n)

MCScopes == {Absent, Whole("tenant", 0), Whole("tenant", 1), Whole("tenant", 2),
             Text("tenant", 1, 2), Whole("", 1), [Absent EXCEPT !.id = "tenant", !.values = 1]}

MCSegmented == {<<>>, <<Whole("eu", 1)>>, <<Whole("eu", 2), Whole("us", 1)>>,
                <<Whole("eu", 1), Whole("eu", 1)>>, <<Text("eu", 2, 1)>>}

Plain(kind, own) == [NoRule EXCEPT !.kind = kind, !.own = own]
Chunk(ns) == [NoRule EXCEPT !.kind = "shared", !.chunk = ns]

Whens == {Absent, Whole("open", 1), Text("open", 1, 0)}

Eligible ==
  {[Plain(kind, own) EXCEPT !.when = when] :
     kind \in {"perRow", "pattern", "unique", "composite", "reference"},
     own \in {Absent, Whole("rule", 1), Whole("rule", 2)}, when \in Whens}

MCRules ==
  {r \in Eligible : r.kind \in {"perRow", "reference"} \/ r.own = Absent}
  \cup {Plain(kind, Absent) : kind \in {"completeness", "duplicateRate", "dominant", "table", "aggregate"}}
  \cup {Plain("frequency", own) : own \in {Absent, Whole("value", 1)}}
  \cup {Plain("reconcile", own) : own \in {Absent, Whole("side", 2), Text("side", 2, 1)}}
  \cup {Plain("custom", Whole("count", n)) : n \in 0..2}
  \cup {[Plain("custom", Text("count", 1, 2)) EXCEPT !.early = 1]}
  \cup {Chunk(ns) : ns \in {<<1>>, <<1, 2>>, <<2, 0, 1>>}}

\* A chunk under a scope is enough to see what a custom marker does.
SharedRules == {Chunk(<<1, 1>>)}
ScopeOfOne == {Whole("tenant", 1)}
NoSegments == {<<>>}

\* The rule whose value is the only argument.
ValueShares == {Plain("frequency", Whole("value", 1)), Plain("perRow", Whole("rule", 1))}
=============================================================================
