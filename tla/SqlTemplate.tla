----------------------------- MODULE SqlTemplate -----------------------------
(***************************************************************************)
(* How the SQL texts a caller writes are read: the predicates of scopes,   *)
(* segments, eligibility and filters, and the templates of custom counts.  *)
(* The walk goes byte by byte, calls a handler for every ? and every {{ it *)
(* takes for executable, and leaves literals and comments alone.  A text   *)
(* is walked once to validate it and again, perhaps as part of a longer    *)
(* one, to render it.                                                      *)
(*                                                                         *)
(* Abstractions: one letter stands for the letters and the underscore, one *)
(* digit for the digits, one blank for space, tab and return, "|" for "&"  *)
(* too, and a marker, whose bytes mean nothing in a literal, for one byte. *)
(* A rendered text is the list of what its bytes come from.                *)
(***************************************************************************)
EXTENDS Integers, Sequences, FiniteSetsExt

Target == "{{target}}"
Scope == "{{scope}}"
Markers == {Target, Scope, "{{other}}", "{{"}   \* the last one is never closed
Quotes == {"single", "double", "backtick"}
Letter == "a"
Digit == "1"
Blank == " "
Newline == "newline"
Bytes == Markers \cup Quotes \cup {Letter, Digit, Blank, Newline}
           \cup {"backslash", "$", "#", "-", "/", "*", "?", "@", "|", "(", ")"}

\* Families of texts: the bytes they are made of, how long the first and, in a
\* conjunction, the second is, how many values came with each, and the offset.
CONSTANT Families

\* A template is one text.
ASSUME FamiliesAssumption ==
  /\ Families \subseteq [kind: {"predicate", "template"}, bytes: SUBSET Bytes, first: SUBSET Nat,
                        second: SUBSET Nat, values: SUBSET Nat, offsets: SUBSET Nat]
  /\ \A f \in Families : f.kind = "template" => f.second = {0}

\* A template, or one predicate or two that end up in one; of each text the
\* number of values its caller passed.  offset: what is bound before it.
Job == [kind: {"predicate", "template"}, texts: Seq(Seq(Bytes)), values: Seq(Nat), offset: Nat]

VARIABLES
  job,      \* never changes
  part,     \* the text that is being validated
  walk,     \* "scan", "render", or how it ended: "refused" or "rendered"
  text,     \* the fragment under the walk
  i,        \* its cursor
  inside,   \* the quote that is open, a comment, or None
  depth,    \* of nested block comments
  start,    \* the first byte that is not flushed
  out,      \* the rendered text so far
  count,    \* ? seen by this walk of a predicate, or rendered in a template
  scan      \* trustedCountScan

vars == <<job, part, walk, text, i, inside, depth, start, out, count, scan>>

None == "none"
Zero == [targetCount |-> 0, scopeCount |-> 0, scopeMarkerEnd |-> 0, customSlotCount |-> 0]
Source(from, to) == [k \in 1..(to - from + 1) |-> <<"source", from + k - 1>>]

----------------------------------------------------------------------------
(* Lexical helpers.                                                        *)

At(k) == IF k \in DOMAIN text THEN text[k] ELSE None
Pair(k, a, b) == At(k) = a /\ At(k + 1) = b

TagStart == {Letter}
TagPart == {Letter, Digit}

\* A tag is looked for at every dollar sign.
DollarQuoteAnywhere ==
  {e \in (i + 1)..Len(text) :
     /\ At(i) = "$" /\ At(e) = "$"
     /\ \A k \in (i + 1)..(e - 1) : At(k) \in TagPart
     /\ At(i + 1) \in TagStart \cup {"$"}}

\* Where the delimiter that begins at the cursor ends; empty if none does.
DollarQuoteDelimiterEnd ==
  {e \in (i + 1)..Len(text) :
     /\ At(i) = "$" /\ At(e) = "$"
     /\ At(i - 1) \notin TagPart \cup {"$"}
     /\ \A k \in (i + 1)..(e - 1) : At(k) \in TagPart
     /\ At(i + 1) \in TagStart \cup {"$"}}

UnsupportedQuestionMark ==
  \/ At(i - 1) \in {"@", "?"}
  \/ At(i + 1) \in {"?", "|"}
  \/ \E k \in (i + 1)..Len(text) :
       /\ At(k) \in {"single", "double"}
       /\ \A b \in (i + 1)..(k - 1) : At(b) \in {Blank, Newline}

----------------------------------------------------------------------------
(* Walk.                                                                   *)

Walking == walk \in {"scan", "render"} /\ i <= Len(text)
Executable == Walking /\ inside = None

Refuse ==
  /\ walk' = "refused"
  /\ UNCHANGED <<job, part, text, i, inside, depth, start, out, count, scan>>

\* The cursor moves and nothing is handled.
Pass(to, within, nesting) ==
  /\ i' = to /\ inside' = within /\ depth' = nesting
  /\ UNCHANGED <<job, part, walk, text, start, out, count, scan>>

Skip(n) == Pass(i + n, inside, depth)

\* flush, and the replacement of the byte under the cursor.
Replace(with) ==
  /\ out' = IF walk = "render" THEN out \o Source(start, i - 1) \o <<with>> ELSE out
  /\ start' = i + 1
  /\ i' = i + 1
  /\ UNCHANGED <<job, part, walk, text, inside, depth>>

WalkQuoted ==
  /\ Walking /\ inside \in Quotes
  /\ CASE At(i) = "?" -> Refuse
       [] inside = "single" /\ At(i) = "backslash" /\ i < Len(text) ->
            IF At(i + 1) = "?" THEN Refuse ELSE Skip(2)
       [] At(i) = inside -> IF At(i + 1) = inside THEN Skip(2) ELSE Pass(i + 1, None, 0)
       [] OTHER -> Skip(1)

WalkLineComment ==
  /\ Walking /\ inside = "line"
  /\ CASE At(i) = "?" -> Refuse
       [] At(i) = Newline -> Pass(i + 1, None, 0)
       [] OTHER -> Skip(1)

\* A comment that goes on after its last end.
WalkBlockPastItsEnd ==
  /\ Walking /\ inside = "block"
  /\ CASE At(i) = "?" -> Refuse
       [] Pair(i, "/", "*") -> Pass(i + 2, inside, depth + 1)
       [] Pair(i, "*", "/") -> Pass(i + 2, IF depth = 0 THEN None ELSE inside, depth - 1)
       [] OTHER -> Skip(1)

WalkBlockComment ==
  /\ Walking /\ inside = "block"
  /\ CASE At(i) = "?" -> Refuse
       [] Pair(i, "/", "*") -> Pass(i + 2, inside, depth + 1)
       [] Pair(i, "*", "/") -> Pass(i + 2, IF depth = 1 THEN None ELSE inside, depth - 1)
       [] OTHER -> Skip(1)

\* The whole literal at once; an unclosed one reaches to the end.
WalkDollarQuote ==
  /\ Executable
  /\ \E e \in DollarQuoteDelimiterEnd :
       LET closes == {k \in (e + 1)..(Len(text) - (e - i)) :
                        SubSeq(text, k, k + e - i) = SubSeq(text, i, e)}
           bodyEnd == IF closes = {} THEN Len(text) ELSE Min(closes) - 1
       IN IF \E k \in (e + 1)..bodyEnd : At(k) = "?" THEN Refuse
          ELSE Pass(IF closes = {} THEN Len(text) + 1 ELSE Min(closes) + (e - i) + 1, None, 0)

OpenQuote == Executable /\ At(i) \in Quotes /\ Pass(i + 1, At(i), 0)

OpenLineComment ==
  /\ Executable
  /\ \/ At(i) = "#" /\ Pass(i + 1, "line", 0)
     \/ Pair(i, "-", "-") /\ Pass(i + 2, "line", 0)

OpenBlockComment == Executable /\ Pair(i, "/", "*") /\ Pass(i + 2, "block", 1)

\* Templates only: the handler of predicates knows no markers.
Marked == job.kind = "template" /\ At(i) \in Markers

OnDoubleBrace ==
  /\ Executable /\ Marked
  /\ CASE At(i) = Target ->
            /\ scan' = [scan EXCEPT !.targetCount = @ + 1]
            /\ Replace(<<"table", 0>>) /\ UNCHANGED count
       [] At(i) = Scope ->
            /\ scan' = [scan EXCEPT !.scopeCount = @ + 1, !.scopeMarkerEnd = i + 1]
            /\ Replace(<<"scope", 0>>) /\ UNCHANGED count
       [] OTHER -> Refuse

OnQuestionMark ==
  /\ Executable /\ At(i) = "?"
  /\ CASE UnsupportedQuestionMark -> Refuse
       [] ~UnsupportedQuestionMark /\ job.kind = "predicate" ->
            /\ count' = count + 1
            /\ Replace(<<"placeholder", job.offset + count'>>)
            /\ UNCHANGED scan
       [] OTHER ->
            IF scan.scopeMarkerEnd = 0 \/ i < scan.scopeMarkerEnd THEN Refuse
            ELSE /\ scan' = [scan EXCEPT !.customSlotCount = @ + 1]
                 /\ count' = IF walk = "render" THEN count + 1 ELSE count
                 /\ Replace(<<"placeholder", job.offset + count'>>)

WalkOther ==
  /\ Executable
  /\ DollarQuoteDelimiterEnd = {}
  /\ ~Marked
  /\ At(i) \notin Quotes \cup {"#", "?"}
  /\ ~Pair(i, "-", "-") /\ ~Pair(i, "/", "*")
  /\ Skip(1)

----------------------------------------------------------------------------
(* Around the walk.                                                        *)

Begin(how, fragment) ==
  /\ walk' = how /\ text' = fragment
  /\ i' = 1 /\ inside' = None /\ depth' = 0
  /\ start' = 1 /\ out' = <<>> /\ count' = 0

\* composeSegmentScope and composeEffectiveScope; the letter stands for AND.
Conjunction(texts) ==
  IF Len(texts) = 1 THEN texts[1]
  ELSE <<"(">> \o texts[1] \o <<")", Blank, Letter, Blank, "(">> \o texts[2] \o <<")">>

\* validateScope and its likes refuse a predicate that is blank.
IsBlank(t) == \A k \in DOMAIN t : t[k] \in {Blank, Newline}

Init ==
  /\ \E f \in Families : \E m \in f.first, n \in f.second :
       \E a \in [1..m -> f.bytes], b \in [1..n -> f.bytes] :
         LET texts == IF n = 0 THEN <<a>> ELSE <<a, b>>
         IN job \in [kind: {f.kind}, texts: {texts}, values: [DOMAIN texts -> f.values],
                    offset: f.offsets]
  /\ part = 1
  /\ walk = "scan" /\ text = job.texts[1]
  /\ i = 1 /\ inside = None /\ depth = 0
  /\ start = 1 /\ out = <<>> /\ count = 0
  /\ scan = Zero

Ended == i > Len(text)

\* Each text is validated by itself, before any of them is rendered.
ScannedPredicate ==
  /\ walk = "scan" /\ Ended /\ job.kind = "predicate"
  /\ IF IsBlank(text) \/ count # job.values[part] THEN Refuse
     ELSE /\ IF part < Len(job.texts)
             THEN part' = part + 1 /\ Begin("scan", job.texts[part + 1])
             ELSE UNCHANGED part /\ Begin("render", Conjunction(job.texts))
          /\ UNCHANGED <<job, scan>>

\* scanTrustedCountTemplate; the scan goes on into the second walk.
ScannedTemplate ==
  /\ walk = "scan" /\ Ended /\ job.kind = "template"
  /\ IF /\ scan.targetCount = 1 /\ scan.scopeCount = 1
        /\ scan.customSlotCount = job.values[1]
     THEN Begin("render", text) /\ UNCHANGED <<job, part, scan>>
     ELSE Refuse

Rendered ==
  /\ walk = "render" /\ Ended
  /\ out' = out \o Source(start, Len(text))
  /\ walk' = "rendered"
  /\ UNCHANGED <<job, part, text, i, inside, depth, start, count, scan>>

Next ==
  \/ WalkQuoted \/ WalkLineComment \/ WalkBlockComment \/ WalkDollarQuote
  \/ OpenQuote \/ OpenLineComment \/ OpenBlockComment
  \/ OnDoubleBrace \/ OnQuestionMark \/ WalkOther
  \/ ScannedPredicate \/ ScannedTemplate \/ Rendered

Spec == Init /\ [][Next]_vars

----------------------------------------------------------------------------
(* How a text ought to be read, stated without a cursor: a literal or a    *)
(* comment begins wherever one can begin outside those before it.          *)

Delimiter(t, a, e) ==
  /\ t[a] = "$" /\ t[e] = "$"
  /\ a > 1 => t[a - 1] \notin {Letter, Digit, "$"}
  /\ \A k \in (a + 1)..(e - 1) : t[k] \in {Letter, Digit}
  /\ t[a + 1] # Digit

Delimiters(t, a) == {e \in (a + 1)..Len(t) : Delimiter(t, a, e)}

Begins(t, a, pair) == a < Len(t) /\ t[a] = pair[1] /\ t[a + 1] = pair[2]

Opens(t, a) ==
  \/ t[a] \in Quotes \cup {"#"}
  \/ Begins(t, a, <<"-", "-">>) \/ Begins(t, a, <<"/", "*">>)
  \/ Delimiters(t, a) # {}

\* An odd run of backslashes within the literal stands before the quote.
Escaped(t, a, k) ==
  /\ t[a] = "single"
  /\ Cardinality({b \in (a + 1)..(k - 1) : \A m \in b..(k - 1) : t[m] = "backslash"}) % 2 = 1

\* What byte k makes of the nesting n after the byte before it; paired: that
\* byte ends a pair, and is not the first of the next one.
Nested(t, k, n) ==
  CASE ~n.paired /\ Begins(t, k - 1, <<"/", "*">>) -> [depth |-> n.depth + 1, paired |-> TRUE]
    [] ~n.paired /\ Begins(t, k - 1, <<"*", "/">>) -> [depth |-> n.depth - 1, paired |-> TRUE]
    [] OTHER -> [depth |-> n.depth, paired |-> FALSE]

\* The nesting of the comment that begins at a, after each of its bytes.
Nesting(t, a) ==
  LET n[k \in (a + 1)..Len(t)] ==
        IF k = a + 1 THEN [depth |-> 1, paired |-> TRUE] ELSE Nested(t, k, n[k - 1])
  IN n

\* A doubled quote ends a literal and begins the next: no byte is between.
Closes(t, a) ==
  CASE t[a] \in Quotes -> {k \in (a + 1)..Len(t) : t[k] = t[a] /\ ~Escaped(t, a, k)}
    [] t[a] = "$" -> {k \in (a + 1)..Len(t) :
                        \E e \in Delimiters(t, a) : /\ k - (e - a) > e
                                                    /\ SubSeq(t, k - (e - a), k) = SubSeq(t, a, e)}
    [] t[a] = "/" -> {k \in (a + 2)..Len(t) : Nesting(t, a)[k].depth = 0}
    [] OTHER -> {k \in (a + 1)..Len(t) : t[k] = Newline}

EndOf(t, a) == Min(Closes(t, a) \cup {Len(t)})

Beginnings(t) ==
  LET begins[a \in 1..Len(t)] ==
        Opens(t, a) /\ \A b \in 1..(a - 1) : begins[b] => EndOf(t, b) < a
  IN {a \in 1..Len(t) : begins[a]}

Literal(t) == UNION {a..EndOf(t, a) : a \in Beginnings(t)}

Questions(t) == {k \in DOMAIN t : t[k] = "?"}

\* A JSON operator, or a ? that a string follows.
Operator(t, k) ==
  \/ k > 1 /\ t[k - 1] \in {"@", "?"}
  \/ k < Len(t) /\ t[k + 1] \in {"?", "|"}
  \/ \E m \in (k + 1)..Len(t) : /\ t[m] \in {"single", "double"}
                                /\ \A b \in (k + 1)..(m - 1) : t[b] \in {Blank, Newline}

Clean(t) == \A k \in Questions(t) : k \notin Literal(t) /\ ~Operator(t, k)

PredicateFits(t, values) == ~IsBlank(t) /\ Clean(t) /\ Cardinality(Questions(t)) = values

TemplateFits(t, values) ==
  LET marks == {k \in DOMAIN t \ Literal(t) : t[k] \in Markers}
  IN /\ Clean(t)
     /\ \E target, scope \in marks :
          /\ t[target] = Target /\ t[scope] = Scope
          /\ marks = {target, scope}
          /\ \A k \in Questions(t) : k > scope
     /\ Cardinality(Questions(t)) = values

Fits ==
  IF job.kind = "template" THEN TemplateFits(job.texts[1], job.values[1])
  ELSE /\ \A p \in DOMAIN job.texts : PredicateFits(job.texts[p], job.values[p])
       /\ Clean(Conjunction(job.texts))

\* Everything but its executable placeholders and markers stands as written.
Expected ==
  LET t == Conjunction(job.texts)
      rank(k) == Cardinality({j \in Questions(t) : j <= k})
      executable(k) == job.kind = "template" /\ k \notin Literal(t)
  IN [k \in DOMAIN t |->
        CASE t[k] = "?"                      -> <<"placeholder", job.offset + rank(k)>>
          [] executable(k) /\ t[k] = Target  -> <<"table", 0>>
          [] executable(k) /\ t[k] = Scope   -> <<"scope", 0>>
          [] OTHER                           -> <<"source", k>>]

Bound == Cardinality({k \in DOMAIN out : out[k][1] = "placeholder"})

----------------------------------------------------------------------------
(* Properties.                                                             *)

\* Every variable holds a value of its type; a block comment the walk is in
\* has been opened more often than closed.
TypeOK ==
  /\ job \in Job
  /\ part \in DOMAIN job.texts
  /\ walk \in {"scan", "render", "refused", "rendered"}
  /\ text \in Seq(Bytes)
  /\ i \in 1..(Len(text) + 1) /\ start \in 1..(Len(text) + 1) /\ start <= i
  /\ inside \in Quotes \cup {None, "line", "block"}
  /\ depth \in Nat
  /\ inside = "block" <=> depth > 0
  /\ out \in Seq({"source", "table", "scope", "placeholder"} \X Nat)
  /\ count \in Nat
  /\ scan \in [targetCount: Nat, scopeCount: Nat, scopeMarkerEnd: Nat, customSlotCount: Nat]

\* A text is refused only for what is wrong with it, and one that is rendered
\* says what its caller wrote: no byte of a literal or comment is taken for
\* executable, no placeholder or marker outside of them is missed, and the
\* placeholders are as many as the values, also where two predicates that
\* were validated apart are rendered as one.
RenderedAsRead ==
  /\ walk = "refused" => ~Fits
  /\ walk = "rendered" =>
       /\ Fits /\ out = Expected
       /\ Bound = FoldFunction(+, 0, job.values)
=============================================================================
