---------------------------- MODULE MCSqlTemplate ----------------------------
(***************************************************************************)
(* Small instances of SqlTemplate: every short text over a few alphabets,  *)
(* each with the bytes of one lexical convention and what interferes.      *)
(***************************************************************************)
EXTENDS SqlTemplate

Family(kind, bytes, first, second, values, offsets) ==
  [kind |-> kind, bytes |-> bytes, first |-> first, second |-> second,
   values |-> values, offsets |-> offsets]

Alone(bytes, n) == Family("predicate", bytes, 1..n, {0}, {1}, {1})
Joined(bytes, n) == Family("predicate", bytes, 1..n, 1..n, {0, 1}, {0})
Template(bytes, n) == Family("template", bytes, 1..n, {0}, 0..2, {0, 2})

Quoting == {Alone({"single", "backslash", "?", Letter}, 7),
            Alone({"single", "double", "backtick", "backslash", "?"}, 5)}
Comments == {Alone({"/", "*", "?"}, 7),
             Alone({"-", "#", Newline, "single", "/", "*", "?"}, 4)}
Dollars == {Alone({"$", Letter, "?"}, 7), Alone({"$", Letter, Digit, "single", "?"}, 5)}
Operators == {Alone({"?", "@", "|", Blank, "single", "double", Newline}, 4)}
Arities == {Family("predicate", {"single", "?", "-", Blank}, 0..4, {0}, {0, 2}, {0})}

\* Two predicates, unclosed ones among them.
Pairs == {Joined({"single", "$", "?", "-", Letter}, 3), Joined({"/", "*", "?"}, 3)}

\* Markers with what may hide them or stand around them.
Templated == {Template({Target, Scope, "?", "single"}, 5),
              Template({Target, Scope, "?", "/", "*"}, 6),
              Template(Markers \cup {"#", Newline}, 4)}

MCFamilies == Quoting \cup Comments \cup Dollars \cup Operators \cup Arities \cup Pairs
                \cup Templated
=============================================================================
