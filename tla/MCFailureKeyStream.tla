------------------------- MODULE MCFailureKeyStream -------------------------
(***************************************************************************)
(* A small instance of FailureKeyStream: the report of a scoped suite of   *)
(* three expectations, two of one kind and one that has no keys.           *)
(***************************************************************************)
EXTENDS FailureKeyStream

MCRows == 1..3

Retrieval(id, kind, selects) ==
  [id |-> id, kind |-> kind, supported |-> TRUE, scope |-> "tenant", selects |-> selects]

MCPlans ==
  <<Retrieval("age", "between", {1, 2, 3}),
    [Retrieval("size", "row_count", {}) EXCEPT !.supported = FALSE],
    Retrieval("mail", "between", {2})>>

Ask ==
  [by |-> {"index"}, id |-> "age", index |-> 0, kind |-> "between",
   sameTable |-> TRUE, scope |-> "tenant", keyed |-> TRUE, observed |-> TRUE]

\* By every binding: absent, repeated, ambiguous, unsupported, out of range.
Selections ==
  {[Ask EXCEPT !.by = by, !.index = i, !.id = id, !.kind = k] :
     by \in {{}, {"id"}, {"kind"}, {"index"}, {"id", "index"}}, i \in -1..3,
     id \in {"age", "none"}, k \in {"between", "row_count"}}

\* Every combination of table, scope, key columns and observer.
Targets ==
  {[Ask EXCEPT !.index = i, !.sameTable = t, !.scope = s, !.keyed = k, !.observed = o] :
     i \in {0, 1, 2}, t, k, o \in BOOLEAN, s \in {"", "tenant", "other"}}

MCRequests == Selections \cup Targets
=============================================================================
