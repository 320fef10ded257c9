------------------------- MODULE SqlTemplate_proofs -------------------------
(***************************************************************************)
(* Every text is read as it ought to be, whatever its bytes and its length *)
(* are: the handlers are called for all that is executable and for nothing *)
(* else, so that what is refused has something wrong with it and what is   *)
(* rendered has its placeholders and markers replaced and stands as written*)
(* otherwise.                                                              *)
(*                                                                         *)
(* SqlTemplate states how a text ought to be read without a cursor, by two *)
(* recursive functions over its bytes: where literals begin, and how deep  *)
(* block comments are nested.  They are first shown to be what their       *)
(* equations say.  Then the cursor: ReadInv says in which literal it is,   *)
(* how deep, what has been counted up to it and what has been flushed; for *)
(* each kind of byte a lemma about texts (QuotedByte, BlockByte, ...) says *)
(* where the next byte is, and a lemma about the walk (ReadQuoted, ...)    *)
(* that the step keeps ReadInv.                                            *)
(***************************************************************************)
EXTENDS SqlTemplate, SequenceTheorems, FiniteSetTheorems, WellFoundedInduction, TLAPS

-----------------------------------------------------------------------------
(* Types.                                                                  *)

\* A set of numbers has a least one.
LEMMA LeastNumber ==
  ASSUME NEW K \in SUBSET Nat, K # {}
  PROVE  \E n \in K : \A m \in K : n <= m
<1>1. PICK n \in K : \A m \in K : <<m, n>> \notin OpToRel(<, Nat)
  BY WFMin, NatLessThanWellFounded, Zenon
<1>2. \A m \in K : ~(m < n)
  BY <1>1, Zenon DEF OpToRel
<1>3. \A m \in K : n <= m
  BY <1>2
<1> QED
  BY <1>3

\* Min of a set of numbers is in it, and none of them is less.
LEMMA MinRule ==
  ASSUME NEW K \in SUBSET Nat, K # {}
  PROVE  Min(K) \in K /\ \A m \in K : Min(K) <= m
  BY LeastNumber, Zenon DEF Min

\* Where a type says what a job is: one text, or two of a predicate.
JobShape ==
  /\ job.kind \in {"predicate", "template"}
  /\ Len(job.texts) \in {1, 2}
  /\ job.kind = "template" => Len(job.texts) = 1
  /\ DOMAIN job.values = DOMAIN job.texts

\* Every job the families give rise to has this shape.
LEMMA InitJob == Init => job \in Job /\ JobShape
<1> SUFFICES ASSUME Init PROVE job \in Job /\ JobShape
  OBVIOUS
<1>1. PICK f \in Families :
        \E m \in f.first, n \in f.second :
          \E a \in [1..m -> f.bytes], b \in [1..n -> f.bytes] :
            LET texts == IF n = 0 THEN <<a>> ELSE <<a, b>>
            IN job \in [kind: {f.kind}, texts: {texts}, values: [DOMAIN texts -> f.values],
                       offset: f.offsets]
  BY DEF Init
<1>a. PICK m \in f.first, n \in f.second :
        \E a \in [1..m -> f.bytes], b \in [1..n -> f.bytes] :
            LET texts == IF n = 0 THEN <<a>> ELSE <<a, b>>
            IN job \in [kind: {f.kind}, texts: {texts}, values: [DOMAIN texts -> f.values],
                       offset: f.offsets]
  BY <1>1
<1>2. PICK a \in [1..m -> f.bytes], b \in [1..n -> f.bytes] :
            LET texts == IF n = 0 THEN <<a>> ELSE <<a, b>>
            IN job \in [kind: {f.kind}, texts: {texts}, values: [DOMAIN texts -> f.values],
                       offset: f.offsets]
  BY <1>a
<1> DEFINE texts == IF n = 0 THEN <<a>> ELSE <<a, b>>
<1>3. job \in [kind: {f.kind}, texts: {texts}, values: [DOMAIN texts -> f.values],
              offset: f.offsets]
  BY <1>2
<1>4. /\ f.kind \in {"predicate", "template"} /\ f.bytes \subseteq Bytes
      /\ f.first \subseteq Nat /\ f.second \subseteq Nat
      /\ f.values \subseteq Nat /\ f.offsets \subseteq Nat
      /\ f.kind = "template" => f.second = {0}
  BY FamiliesAssumption
<1>5. a \in Seq(Bytes) /\ b \in Seq(Bytes)
  <2>1. m \in Nat /\ n \in Nat /\ a \in [1..m -> Bytes] /\ b \in [1..n -> Bytes]
    BY <1>4
  <2> QED
    BY <2>1
<1>6. texts \in Seq(Seq(Bytes)) /\ Len(texts) = IF n = 0 THEN 1 ELSE 2
  BY <1>5
<1>7. [DOMAIN texts -> f.values] \subseteq Seq(Nat)
  <2>1. DOMAIN texts = 1..(IF n = 0 THEN 1 ELSE 2)
    BY <1>6, LenProperties
  <2> QED
    BY <2>1, <1>4
<1>8. /\ job.kind = f.kind /\ job.texts = texts /\ job.offset \in Nat
      /\ job.values \in [DOMAIN texts -> f.values]
  BY <1>3, <1>4
<1>9. job = [kind |-> job.kind, texts |-> job.texts, values |-> job.values, offset |-> job.offset]
  BY <1>3
<1> QED
  BY <1>4, <1>6, <1>7, <1>8, <1>9 DEF Job, JobShape

\* Two texts and what joins them are one text again.
LEMMA ConjunctionTyped ==
  ASSUME job \in Job, JobShape
  PROVE  Conjunction(job.texts) \in Seq(Bytes)
<1>1. job.texts \in Seq(Seq(Bytes)) /\ Len(job.texts) \in {1, 2}
  BY DEF Job, JobShape
<1>2. CASE Len(job.texts) = 1
  BY <1>1, <1>2 DEF Conjunction
<1>3. CASE Len(job.texts) = 2
  <2>1. job.texts[1] \in Seq(Bytes) /\ job.texts[2] \in Seq(Bytes)
    BY <1>1, <1>3
  <2>2. <<"(">> \in Seq(Bytes) /\ <<")", Blank, Letter, Blank, "(">> \in Seq(Bytes) /\ <<")">> \in Seq(Bytes)
    BY DEF Bytes, Blank, Letter
  <2> QED
    BY <1>3, <2>1, <2>2 DEF Conjunction
<1> QED
  BY <1>1, <1>2, <1>3

Marks == {"source", "table", "scope", "placeholder"} \X Nat

\* A stretch of the source.
LEMMA SourceTyped ==
  ASSUME NEW from \in Nat \ {0}, NEW to \in Nat, from <= to + 1
  PROVE  /\ Source(from, to) \in Seq(Marks)
         /\ Len(Source(from, to)) = to - from + 1
         /\ \A k \in 1..(to - from + 1) : Source(from, to)[k] = <<"source", from + k - 1>>
<1>1. to - from + 1 \in Nat
  OBVIOUS
<1>2. \A k \in 1..(to - from + 1) : <<"source", from + k - 1>> \in Marks
  BY DEF Marks
<1> QED
  BY <1>1, <1>2 DEF Source

\* The types, with the shape of the job that the cursors rest on.
TypeInv == TypeOK /\ JobShape

\* A walk begins with every variable of its type.
LEMMA TypeInit == Init => TypeInv
<1> SUFFICES ASSUME Init PROVE TypeInv
  OBVIOUS
<1>1. job \in Job /\ JobShape
  BY InitJob
<1>2. job.texts \in Seq(Seq(Bytes)) /\ Len(job.texts) >= 1
  <2>1. job.texts \in Seq(Seq(Bytes))
    BY <1>1 DEF Job
  <2>2. Len(job.texts) = 1 \/ Len(job.texts) = 2
    BY <1>1 DEF JobShape
  <2> QED
    BY <2>1, <2>2
<1>3. text \in Seq(Bytes) /\ part \in DOMAIN job.texts
  BY <1>2 DEF Init
<1>4. scan \in [targetCount: Nat, scopeCount: Nat, scopeMarkerEnd: Nat, customSlotCount: Nat]
  BY DEF Init, Zero
<1> QED
  BY <1>1, <1>3, <1>4 DEF Init, TypeInv, TypeOK, None, Quotes

\* No step of a walk, and none around it, leaves the types.
LEMMA TypeStep == TypeInv /\ [Next]_vars => TypeInv'
<1> SUFFICES ASSUME TypeInv, [Next]_vars PROVE TypeInv'
  OBVIOUS
<1> USE DEF TypeInv
<1>0. /\ job \in Job /\ part \in DOMAIN job.texts
      /\ walk \in {"scan", "render", "refused", "rendered"}
      /\ text \in Seq(Bytes) /\ Len(text) \in Nat
      /\ i \in 1..(Len(text) + 1) /\ start \in 1..(Len(text) + 1) /\ start <= i
      /\ inside \in Quotes \cup {None, "line", "block"}
      /\ depth \in Nat
      /\ inside = "block" <=> depth > 0
      /\ out \in Seq(Marks)
      /\ count \in Nat
      /\ scan \in [targetCount: Nat, scopeCount: Nat, scopeMarkerEnd: Nat, customSlotCount: Nat]
  BY DEF TypeOK, Marks
<1>s. /\ scan.targetCount \in Nat /\ scan.scopeCount \in Nat /\ scan.customSlotCount \in Nat
      /\ scan \in [targetCount: Nat, scopeCount: Nat, scopeMarkerEnd: Nat, customSlotCount: Nat]
  BY <1>0
<1>r. CASE Refuse
  BY <1>r DEF Refuse, TypeOK, JobShape
<1>p. ASSUME NEW to, NEW within, NEW nesting, Pass(to, within, nesting),
             to \in i..(Len(text) + 1), within \in Quotes \cup {None, "line", "block"},
             nesting \in Nat, within = "block" <=> nesting > 0
      PROVE  TypeInv'
  BY <1>0, <1>p DEF Pass, TypeOK, JobShape, Marks
<1>q. /\ i <= Len(text) => i + 1 \in i..(Len(text) + 1)
      /\ i + 1 <= Len(text) => i + 2 \in i..(Len(text) + 1)
  BY <1>0
<1>a. \A k \in Int : At(k) # None => k \in 1..Len(text)
  BY <1>0 DEF At
<1>1. CASE WalkQuoted
  <2> USE <1>1 DEF WalkQuoted, Walking, Skip, Quotes
  <2>1. i \in Int /\ i <= Len(text) /\ inside \in Quotes /\ depth \in Nat
    BY <1>0
  <2>2. CASE Skip(1)
    BY <2>1, <2>2, <1>0, <1>p
  <2>3. CASE Skip(2) /\ i < Len(text)
    BY <2>1, <2>3, <1>0, <1>p
  <2>4. CASE Pass(i + 1, None, 0)
    BY <2>1, <2>4, <1>0, <1>p DEF None
  <2>5. At(i + 1) = inside => i < Len(text)
    BY <2>1, <1>a, <1>0 DEF None
  <2> QED
    BY <2>1, <2>2, <2>3, <2>4, <2>5, <1>r
<1>2. CASE WalkLineComment
  <2>1. i \in Int /\ i <= Len(text) /\ inside = "line" /\ depth \in Nat
    BY <1>0, <1>2 DEF WalkLineComment, Walking
  <2>2. CASE Pass(i + 1, "line", depth) /\ ~(depth > 0)
    BY <2>1, <2>2, <1>q, <1>p
  <2>3. CASE Pass(i + 1, None, 0)
    BY <2>1, <2>3, <1>q, <1>p DEF None
  <2>4. ~(depth > 0)
    BY <2>1, <1>0
  <2> QED
    BY <2>1, <2>2, <2>3, <2>4, <1>2, <1>r DEF WalkLineComment, Skip
<1>3. CASE WalkBlockComment
  <2>1. i \in Int /\ i <= Len(text) /\ inside = "block" /\ depth \in Nat /\ depth > 0
    BY <1>0, <1>3 DEF WalkBlockComment, Walking
  <2>2. CASE Pass(i + 1, "block", depth)
    BY <2>1, <2>2, <1>q, <1>p
  <2>3. CASE Pair(i, "/", "*") /\ Pass(i + 2, inside, depth + 1)
    <3>1. i + 1 <= Len(text)
      BY <2>1, <2>3, <1>a DEF Pair, None
    <3>2. i + 2 \in i..(Len(text) + 1) /\ depth + 1 \in Nat /\ depth + 1 > 0
      BY <3>1, <2>1, <1>0
    <3> QED
      BY <3>2, <2>1, <2>3, <1>p
  <2>4. CASE Pair(i, "*", "/") /\ Pass(i + 2, IF depth = 1 THEN None ELSE inside, depth - 1)
    <3>1. i + 1 <= Len(text)
      BY <2>1, <2>4, <1>a DEF Pair, None
    <3>2. i + 2 \in i..(Len(text) + 1) /\ depth - 1 \in Nat
      BY <3>1, <2>1, <1>0
    <3>3. CASE depth = 1
      <4>1. Pass(i + 2, None, depth - 1)
        BY <2>4, <3>3
      <4> QED
        BY <4>1, <3>2, <3>3, <1>p DEF None
    <3>4. CASE depth # 1
      <4>1. Pass(i + 2, inside, depth - 1) /\ depth - 1 > 0
        BY <2>1, <2>4, <3>4
      <4> QED
        BY <4>1, <3>2, <2>1, <1>p
    <3> QED
      BY <3>3, <3>4
  <2> QED
    BY <2>1, <2>2, <2>3, <2>4, <1>3, <1>r DEF WalkBlockComment, Skip
<1>4. CASE WalkDollarQuote
  <2>1. PICK e \in DollarQuoteDelimiterEnd :
       LET closes == {k \in (e + 1)..(Len(text) - (e - i)) :
                        SubSeq(text, k, k + e - i) = SubSeq(text, i, e)}
           bodyEnd == IF closes = {} THEN Len(text) ELSE Min(closes) - 1
       IN IF \E k \in (e + 1)..bodyEnd : At(k) = "?" THEN Refuse
          ELSE Pass(IF closes = {} THEN Len(text) + 1 ELSE Min(closes) + (e - i) + 1, None, 0)
    BY <1>4 DEF WalkDollarQuote
  <2> DEFINE closes == {k \in (e + 1)..(Len(text) - (e - i)) :
                          SubSeq(text, k, k + e - i) = SubSeq(text, i, e)}
             to == IF closes = {} THEN Len(text) + 1 ELSE Min(closes) + (e - i) + 1
  <2>2. Refuse \/ Pass(to, None, 0)
    BY <2>1
  <2>3. e \in (i + 1)..Len(text)
    BY DEF DollarQuoteDelimiterEnd
  <2>4. to \in i..(Len(text) + 1)
    <3>0. e \in Int /\ e > i /\ e <= Len(text)
      BY <2>3, <1>0
    <3>1. closes \in SUBSET Nat /\ \A k \in closes : k \in (e + 1)..(Len(text) - (e - i))
      BY <3>0, <1>0
    <3> HIDE DEF closes
    <3>2. closes # {} => Min(closes) \in closes
      BY <3>1, MinRule
    <3>3. CASE closes = {}
      BY <3>3, <1>0
    <3>4. CASE closes # {}
      <4>1. Min(closes) \in (e + 1)..(Len(text) - (e - i))
        BY <3>1, <3>2, <3>4
      <4>2. Min(closes) + (e - i) + 1 \in i..(Len(text) + 1)
        BY <4>1, <3>0, <1>0
      <4> QED
        BY <4>2, <3>4
    <3> QED
      BY <3>3, <3>4
  <2> HIDE DEF to
  <2> QED
    BY <2>2, <2>4, <1>r, <1>p, <1>0 DEF None
<1>5. CASE OpenQuote
  <2>1. i <= Len(text) /\ At(i) \in Quotes /\ Pass(i + 1, At(i), 0)
    BY <1>5 DEF OpenQuote, Executable, Walking
  <2> QED
    BY <2>1, <1>0, <1>p DEF Quotes
<1>6. CASE OpenLineComment
  <2>1. /\ i <= Len(text)
        /\ Pass(i + 1, "line", 0) \/ (At(i + 1) = "-" /\ Pass(i + 2, "line", 0))
    BY <1>6 DEF OpenLineComment, Executable, Walking, Pair
  <2>2. At(i + 1) = "-" => i + 1 <= Len(text)
    BY <1>0, <1>a DEF None
  <2>3. CASE Pass(i + 1, "line", 0)
    BY <2>1, <2>3, <1>0, <1>p
  <2>4. CASE At(i + 1) = "-" /\ Pass(i + 2, "line", 0)
    BY <2>2, <2>4, <1>0, <1>p
  <2> QED
    BY <2>1, <2>3, <2>4
<1>7. CASE OpenBlockComment
  <2>1. i <= Len(text) /\ At(i + 1) = "*" /\ Pass(i + 2, "block", 1)
    BY <1>7 DEF OpenBlockComment, Executable, Walking, Pair
  <2>2. i + 1 <= Len(text)
    BY <2>1, <1>0, <1>a DEF None
  <2>3. i + 2 \in i..(Len(text) + 1)
    BY <2>2, <1>0
  <2> QED
    BY <2>1, <2>3, <1>p
<1>w. ASSUME NEW with \in Marks, Replace(with), i <= Len(text),
             count' \in Nat,
             scan' \in [targetCount: Nat, scopeCount: Nat, scopeMarkerEnd: Nat, customSlotCount: Nat]
      PROVE  TypeInv'
  <2>0. start \in Nat \ {0} /\ i - 1 \in Nat /\ start <= (i - 1) + 1
    BY <1>0
  <2>1. Source(start, i - 1) \in Seq(Marks)
    BY <2>0, SourceTyped
  <2>2. <<with>> \in Seq(Marks)
    OBVIOUS
  <2>3. out \o Source(start, i - 1) \in Seq(Marks)
    BY <2>1, <1>0, ConcatProperties
  <2>4. out \o Source(start, i - 1) \o <<with>> \in Seq(Marks)
    BY <2>2, <2>3, ConcatProperties
  <2>5. out' \in Seq(Marks)
    BY <2>4, <1>0, <1>w DEF Replace
  <2>6. i' = i + 1 /\ start' = i + 1 /\ UNCHANGED <<job, part, walk, text, inside, depth>>
    BY <1>w DEF Replace
  <2> QED
    BY <2>5, <2>6, <1>0, <1>w DEF TypeOK, JobShape, Marks
<1>8. CASE OnDoubleBrace
  <2>1. i \in Nat /\ i <= Len(text)
    BY <1>0, <1>8 DEF OnDoubleBrace, Executable, Walking
  <2>2. <<"table", 0>> \in Marks /\ <<"scope", 0>> \in Marks
    BY DEF Marks
  <2>3. CASE /\ scan' = [scan EXCEPT !.targetCount = @ + 1]
             /\ Replace(<<"table", 0>>) /\ UNCHANGED count
    <3>1. scan' \in [targetCount: Nat, scopeCount: Nat, scopeMarkerEnd: Nat, customSlotCount: Nat]
      BY <2>1, <2>3, <1>s
    <3>2. count' \in Nat
      BY <2>3, <1>0
    <3> QED
      BY <3>1, <3>2, <2>1, <2>2, <2>3, <1>w
  <2>4. CASE /\ scan' = [scan EXCEPT !.scopeCount = @ + 1, !.scopeMarkerEnd = i + 1]
             /\ Replace(<<"scope", 0>>) /\ UNCHANGED count
    <3>1. scan' \in [targetCount: Nat, scopeCount: Nat, scopeMarkerEnd: Nat, customSlotCount: Nat]
      BY <2>1, <2>4, <1>s, i + 1 \in Nat, scan.scopeCount + 1 \in Nat
    <3>2. count' \in Nat
      BY <2>4, <1>0
    <3> QED
      BY <3>1, <3>2, <2>1, <2>2, <2>4, <1>w
  <2> QED
    BY <2>3, <2>4, <1>8, <1>r DEF OnDoubleBrace
<1>9. CASE OnQuestionMark
  <2>1. i \in Nat /\ i <= Len(text)
    BY <1>0, <1>9 DEF OnQuestionMark, Executable, Walking
  <2>2. job.offset \in Nat
    BY <1>0 DEF Job
  <2>3. CASE /\ count' = count + 1
             /\ Replace(<<"placeholder", job.offset + count'>>)
             /\ UNCHANGED scan
    <3>1. <<"placeholder", job.offset + count'>> \in Marks /\ count' \in Nat
      <4>1. count' \in Nat
        BY <2>3, <1>0
      <4>2. job.offset + count' \in Nat
        BY <2>2, <4>1
      <4> QED
        BY <4>1, <4>2 DEF Marks
    <3> QED
      BY <3>1, <2>1, <2>3, <1>w, <1>0
  <2>4. CASE /\ scan' = [scan EXCEPT !.customSlotCount = @ + 1]
             /\ count' = IF walk = "render" THEN count + 1 ELSE count
             /\ Replace(<<"placeholder", job.offset + count'>>)
    <3>1. <<"placeholder", job.offset + count'>> \in Marks /\ count' \in Nat
      <4>1. count' \in Nat
        BY <2>4, <1>0
      <4>2. job.offset + count' \in Nat
        BY <2>2, <4>1
      <4> QED
        BY <4>1, <4>2 DEF Marks
    <3>2. scan' \in [targetCount: Nat, scopeCount: Nat, scopeMarkerEnd: Nat, customSlotCount: Nat]
      BY <2>4, <1>s
    <3> QED
      BY <3>1, <3>2, <2>1, <2>4, <1>w
  <2> QED
    BY <2>3, <2>4, <1>9, <1>r DEF OnQuestionMark
<1>10. CASE WalkOther
  BY <1>10, <1>0, <1>p DEF WalkOther, Executable, Walking, Skip, None
<1>b. ASSUME NEW how \in {"scan", "render"}, NEW fragment \in Seq(Bytes), Begin(how, fragment),
             part' \in DOMAIN job.texts, UNCHANGED <<job, scan>>
      PROVE  TypeInv'
  <2>1. text' \in Seq(Bytes) /\ Len(text') \in Nat
    BY <1>b DEF Begin
  <2> QED
    BY <2>1, <1>0, <1>b DEF Begin, TypeOK, JobShape, None, Quotes
<1>c. /\ job.texts \in Seq(Seq(Bytes)) /\ Len(job.texts) \in Nat
      /\ DOMAIN job.texts = 1..Len(job.texts)
  <2>1. job.texts \in Seq(Seq(Bytes))
    BY <1>0 DEF Job
  <2> QED
    BY <2>1, LenProperties
<1>11. CASE ScannedPredicate
  <2>1. CASE part < Len(job.texts) /\ part' = part + 1 /\ Begin("scan", job.texts[part + 1])
               /\ UNCHANGED <<job, scan>>
    <3>1. part + 1 \in DOMAIN job.texts
      <4>1. part \in 1..Len(job.texts)
        BY <1>0, <1>c
      <4>2. part + 1 \in 1..Len(job.texts)
        BY <4>1, <2>1, <1>c
      <4> QED
        BY <4>2, <1>c
    <3>2. job.texts[part + 1] \in Seq(Bytes)
      BY <3>1, <1>c
    <3> QED
      BY <3>1, <3>2, <2>1, <1>b
  <2>2. CASE UNCHANGED part /\ Begin("render", Conjunction(job.texts)) /\ UNCHANGED <<job, scan>>
    BY <2>2, <1>0, <1>b, ConjunctionTyped
  <2> QED
    BY <2>1, <2>2, <1>11, <1>r DEF ScannedPredicate
<1>12. CASE ScannedTemplate
  BY <1>12, <1>0, <1>b, <1>r DEF ScannedTemplate
<1>13. CASE Rendered
  <2>0. start \in Nat \ {0} /\ Len(text) \in Nat /\ start <= Len(text) + 1
    BY <1>0
  <2>1. Source(start, Len(text)) \in Seq(Marks)
    BY <2>0, SourceTyped
  <2>2. out \o Source(start, Len(text)) \in Seq(Marks)
    BY <2>1, <1>0, ConcatProperties
  <2> QED
    BY <2>2, <1>0, <1>13 DEF Rendered, TypeOK, JobShape, Marks
<1>14. CASE UNCHANGED vars
  BY <1>14 DEF vars, TypeOK, JobShape
<1> QED
  BY <1>1, <1>2, <1>3, <1>4, <1>5, <1>6, <1>7, <1>8, <1>9, <1>10, <1>11, <1>12, <1>13, <1>14 DEF Next

\* Every variable keeps its type, whatever the texts are.
THEOREM TypeCorrect == Spec => []TypeOK
<1>1. TypeInv => TypeOK
  BY DEF TypeInv
<1> QED
  BY <1>1, TypeInit, TypeStep, PTL DEF Spec

-----------------------------------------------------------------------------
(* Literals and comments: where one begins, and where it ends.             *)

\* What closes a literal comes after what opens it.
LEMMA ClosesLater ==
  ASSUME NEW t \in Seq(Bytes), NEW a \in 1..Len(t)
  PROVE  Closes(t, a) \subseteq (a + 1)..Len(t)
<1>1. (a + 2)..Len(t) \subseteq (a + 1)..Len(t)
  OBVIOUS
<1> QED
  BY <1>1 DEF Closes

\* Nothing closes the literal that begins at a before the byte k.
NoClose(t, a, k) == \A c \in (a + 1)..(k - 1) : c \notin Closes(t, a)

\* The end of a literal is the first byte that closes it, or the end of the text.
LEMMA EndRule ==
  ASSUME NEW t \in Seq(Bytes), NEW a \in 1..Len(t)
  PROVE  /\ EndOf(t, a) \in a..Len(t)
         /\ EndOf(t, a) \in Closes(t, a) \cup {Len(t)}
         /\ \A c \in Closes(t, a) : EndOf(t, a) <= c
<1> DEFINE K == Closes(t, a) \cup {Len(t)}
<1>1. K \in SUBSET (a..Len(t)) /\ K # {} /\ K \in SUBSET Nat
  BY ClosesLater
<1>2. Min(K) \in K /\ \A c \in K : Min(K) <= c
  <2> HIDE DEF K
  <2> QED
    BY <1>1, MinRule
<1> QED
  BY <1>1, <1>2 DEF EndOf

\* A byte that comes after an opening and before what closes it is not past the end.
LEMMA NotEnded ==
  ASSUME NEW t \in Seq(Bytes), NEW a \in 1..Len(t), NEW k \in 1..Len(t), a < k, NoClose(t, a, k)
  PROVE  k <= EndOf(t, a)
<1>1. EndOf(t, a) \in a..Len(t) /\ EndOf(t, a) \in Closes(t, a) \cup {Len(t)}
  BY EndRule
<1>2. CASE EndOf(t, a) = Len(t)
  BY <1>2
<1>3. CASE EndOf(t, a) \in Closes(t, a)
  <2>1. EndOf(t, a) \in (a + 1)..Len(t)
    BY <1>3, ClosesLater
  <2>2. ~(EndOf(t, a) \in (a + 1)..(k - 1))
    BY <1>3 DEF NoClose
  <2> QED
    BY <2>1, <2>2
<1> QED
  BY <1>1, <1>2, <1>3

\* Where a literal is closed for the first time, it ends.
LEMMA EndsAt ==
  ASSUME NEW t \in Seq(Bytes), NEW a \in 1..Len(t), NEW k \in Closes(t, a), NoClose(t, a, k)
  PROVE  EndOf(t, a) = k
<1>1. k \in (a + 1)..Len(t)
  BY ClosesLater
<1>2. EndOf(t, a) <= k /\ EndOf(t, a) \in a..Len(t)
  BY EndRule
<1>3. k <= EndOf(t, a)
  BY <1>1, NotEnded
<1> QED
  BY <1>1, <1>2, <1>3

\* Beginnings is what its equation says: the literals of a text can be found
\* one after the other.
LEMMA BeginningsRule ==
  ASSUME NEW t \in Seq(Bytes)
  PROVE  /\ Beginnings(t) \subseteq 1..Len(t)
         /\ \A a \in 1..Len(t) :
              a \in Beginnings(t) <=>
                Opens(t, a) /\ \A b \in Beginnings(t) : b < a => EndOf(t, b) < a
<1> DEFINE Holds(B, a) == Opens(t, a) /\ \A b \in B : b < a => EndOf(t, b) < a
           Right(B, m) == \A a \in 1..m : a \in B <=> Holds(B, a)
           Wrong == {m \in Nat : m <= Len(t) /\ ~\E B \in SUBSET (1..m) : Right(B, m)}
<1>0. Len(t) \in Nat
  OBVIOUS
<1>1. Wrong = {}
  <2> SUFFICES ASSUME Wrong # {} PROVE FALSE
    OBVIOUS
  <2>1. PICK m \in Wrong : \A k \in Wrong : m <= k
    <3>1. Wrong \in SUBSET Nat
      OBVIOUS
    <3> HIDE DEF Wrong
    <3> QED
      BY <3>1, LeastNumber
  <2>2. m \in Nat /\ m <= Len(t) /\ ~\E B \in SUBSET (1..m) : Right(B, m)
    OBVIOUS
  <2>3. m # 0
    <3> SUFFICES ASSUME m = 0 PROVE FALSE
      OBVIOUS
    <3>1. {} \in SUBSET (1..m) /\ Right({}, m)
      OBVIOUS
    <3> QED
      BY <2>2, <3>1
  <2>4. m - 1 \in Nat /\ m - 1 <= Len(t) /\ m - 1 \notin Wrong
    <3>1. m \in Nat /\ m <= Len(t)
      BY <2>2
    <3>2. m - 1 \in Nat /\ m - 1 <= Len(t) /\ ~(m <= m - 1)
      BY <3>1, <2>3, <1>0
    <3> HIDE DEF Wrong
    <3> QED
      BY <3>2, <2>1
  <2>5. PICK B \in SUBSET (1..(m - 1)) : Right(B, m - 1)
    BY <2>4
  <2> DEFINE C == IF Holds(B, m) THEN B \cup {m} ELSE B
  <2>6. C \in SUBSET (1..m)
    BY <2>2, <2>3
  <2>7. ASSUME NEW a \in 1..m PROVE a \in C <=> Holds(C, a)
    <3>1. \A b \in 1..m : b < a => (b \in C <=> b \in B)
      BY <2>2
    <3>2. Holds(C, a) <=> Holds(B, a)
      <4>1. ASSUME NEW b \in C, b < a PROVE b \in B
        BY <4>1, <2>6, <3>1
      <4>2. ASSUME NEW b \in B, b < a PROVE b \in C
        BY <4>2
      <4> HIDE DEF C
      <4> QED
        BY <4>1, <4>2
    <3>3. CASE a = m
      <4>1. m \notin B
        BY <2>2, <2>3
      <4>2. a \in C <=> Holds(B, m)
        BY <3>3, <4>1
      <4> QED
        BY <4>2, <3>2, <3>3
    <3>4. CASE a # m
      <4>1. a \in 1..(m - 1)
        BY <2>2, <3>4
      <4>2. a \in B <=> Holds(B, a)
        BY <2>5, <4>1
      <4>3. a \in C <=> a \in B
        BY <3>4
      <4> QED
        BY <4>2, <4>3, <3>2
    <3> QED
      BY <3>3, <3>4
  <2>8. Right(C, m)
    <3> HIDE DEF C, Holds
    <3> QED
      BY <2>7
  <2> HIDE DEF C, Right
  <2> QED
    BY <2>2, <2>6, <2>8
<1>2. PICK B \in SUBSET (1..Len(t)) : Right(B, Len(t))
  BY <1>0, <1>1
<1> DEFINE F(g) == [a \in 1..Len(t) |->
                      Opens(t, a) /\ \A b \in 1..(a - 1) : g[b] => EndOf(t, b) < a]
           h == [a \in 1..Len(t) |-> a \in B]
           begins == CHOOSE g : g = F(g)
<1>3. h = F(h)
  <2>1. ASSUME NEW a \in 1..Len(t)
        PROVE  (a \in B) = (Opens(t, a) /\ \A b \in 1..(a - 1) : h[b] => EndOf(t, b) < a)
    <3>1. \A b \in 1..(a - 1) : b \in 1..Len(t) /\ h[b] = (b \in B)
      OBVIOUS
    <3>2. \A b \in B : b < a <=> b \in 1..(a - 1)
      OBVIOUS
    <3>3. a \in B <=> Holds(B, a)
      BY <1>2
    <3>4. (\A b \in 1..(a - 1) : h[b] => EndOf(t, b) < a) <=> (\A b \in B : b < a => EndOf(t, b) < a)
      <4> HIDE DEF h
      <4> QED
        BY <3>1, <3>2, Zenon
    <3>5. (a \in B) <=> (Opens(t, a) /\ \A b \in 1..(a - 1) : h[b] => EndOf(t, b) < a)
      <4> HIDE DEF h
      <4> QED
        BY <3>3, <3>4, Zenon
    <3> HIDE DEF h
    <3> QED
      BY <3>5
  <2> QED
    BY <2>1, Zenon
<1>4. begins = F(begins)
  <2> HIDE DEF F, h
  <2> QED
    BY <1>3, Zenon
<1>5. Beginnings(t) = {a \in 1..Len(t) : begins[a]}
  BY Zenon DEF Beginnings
<1>6. \A a \in 1..Len(t) :
        begins[a] = (Opens(t, a) /\ \A b \in 1..(a - 1) : begins[b] => EndOf(t, b) < a)
  <2> HIDE DEF begins
  <2> QED
    BY <1>4, Zenon
<1> HIDE DEF begins
<1>7. ASSUME NEW a \in 1..Len(t)
      PROVE  a \in Beginnings(t) <=>
               Opens(t, a) /\ \A b \in Beginnings(t) : b < a => EndOf(t, b) < a
  <2>1. a \in Beginnings(t) <=> (Opens(t, a) /\ \A b \in 1..(a - 1) : begins[b] => EndOf(t, b) < a)
    BY <1>5, <1>6, Zenon
  <2>2. \A b \in 1..(a - 1) : b \in 1..Len(t) /\ b < a
    OBVIOUS
  <2>3. \A b \in 1..Len(t) : b < a => b \in 1..(a - 1)
    OBVIOUS
  <2>4. (\A b \in 1..(a - 1) : begins[b] => EndOf(t, b) < a)
          <=> (\A b \in Beginnings(t) : b < a => EndOf(t, b) < a)
    BY <1>5, <2>2, <2>3, Zenon
  <2> QED
    BY <2>1, <2>4, Zenon
<1> QED
  BY <1>5, <1>7, Zenon

Levels == [depth: Int, paired: BOOLEAN]
Opened == [depth |-> 1, paired |-> TRUE]

\* A byte makes a nesting of a nesting.
LEMMA NestedTyped ==
  ASSUME NEW t, NEW k, NEW n \in Levels
  PROVE  Nested(t, k, n) \in Levels
  BY DEF Nested, Levels

\* Nesting is what its equation says.
LEMMA NestingRule ==
  ASSUME NEW t \in Seq(Bytes), NEW a \in 1..Len(t), NEW k \in (a + 1)..Len(t)
  PROVE  /\ Nesting(t, a)[k] = IF k = a + 1 THEN Opened ELSE Nested(t, k, Nesting(t, a)[k - 1])
         /\ Nesting(t, a)[k] \in Levels
<1> DEFINE Up(g, j) == IF j = a + 1 THEN Opened ELSE Nested(t, j, g[j - 1])
           Right(g, m) == \A j \in (a + 1)..m : g[j] = Up(g, j)
           Wrong == {m \in Nat : m <= Len(t) /\ ~\E g \in [(a + 1)..m -> Levels] : Right(g, m)}
<1>0. Len(t) \in Nat /\ Opened \in Levels
  BY DEF Opened, Levels
<1>1. Wrong = {}
  <2> SUFFICES ASSUME Wrong # {} PROVE FALSE
    OBVIOUS
  <2>1. PICK m \in Wrong : \A j \in Wrong : m <= j
    <3>1. Wrong \in SUBSET Nat
      OBVIOUS
    <3> HIDE DEF Wrong
    <3> QED
      BY <3>1, LeastNumber
  <2>2. m \in Nat /\ m <= Len(t) /\ ~\E g \in [(a + 1)..m -> Levels] : Right(g, m)
    OBVIOUS
  <2>3. m > a
    <3> SUFFICES ASSUME m <= a PROVE FALSE
      BY <2>2
    <3> DEFINE g == [j \in (a + 1)..m |-> Opened]
    <3>1. g \in [(a + 1)..m -> Levels]
      BY <1>0
    <3>2. Right(g, m)
      BY <2>2
    <3> QED
      BY <2>2, <3>1, <3>2
  <2>4. PICK g \in [(a + 1)..(m - 1) -> Levels] : Right(g, m - 1)
    <3>1. m - 1 \in Nat /\ m - 1 <= Len(t) /\ ~(m <= m - 1)
      BY <1>0, <2>2, <2>3
    <3>2. m - 1 \notin Wrong
      <4> HIDE DEF Wrong
      <4> QED
        BY <2>1, <3>1
    <3> QED
      BY <3>1, <3>2
  <2> DEFINE h == [j \in (a + 1)..m |-> IF j = m THEN Up(g, m) ELSE g[j]]
  <2>5. h \in [(a + 1)..m -> Levels]
    <3>1. Up(g, m) \in Levels
      <4>1. m # a + 1 => m - 1 \in (a + 1)..(m - 1)
        BY <2>2, <2>3
      <4> QED
        BY <4>1, <1>0, NestedTyped
    <3>2. \A j \in (a + 1)..m : j # m => g[j] \in Levels
      BY <2>2, <2>3
    <3> HIDE DEF Up
    <3> QED
      BY <3>1, <3>2
  <2>6. ASSUME NEW j \in (a + 1)..m PROVE h[j] = Up(h, j)
    <3>1. j # a + 1 => j - 1 \in (a + 1)..(m - 1) /\ h[j - 1] = g[j - 1]
      BY <2>2, <2>3
    <3>2. Up(h, j) = Up(g, j)
      <4> HIDE DEF h
      <4> QED
        BY <3>1
    <3>3. j # m => j \in (a + 1)..(m - 1)
      BY <2>2
    <3>4. h[j] = Up(g, j)
      <4>1. CASE j = m
        BY <4>1
      <4>2. CASE j # m
        BY <3>3, <4>2, <2>4
      <4> QED
        BY <4>1, <4>2
    <3> QED
      BY <3>2, <3>4
  <2> HIDE DEF h, Up
  <2> QED
    BY <2>2, <2>5, <2>6
<1>2. PICK g \in [(a + 1)..Len(t) -> Levels] : Right(g, Len(t))
  <2>1. Len(t) \notin Wrong /\ Len(t) <= Len(t)
    <3> HIDE DEF Wrong
    <3> QED
      BY <1>0, <1>1
  <2> HIDE DEF Right
  <2> QED
    BY <2>1, <1>0
<1> DEFINE F(f) == [j \in (a + 1)..Len(t) |-> Up(f, j)]
           n == CHOOSE f : f = F(f)
<1>3. g = F(g)
  <2> HIDE DEF Up
  <2> QED
    BY <1>2
<1>4. n = F(n)
  <2> HIDE DEF F
  <2> QED
    BY <1>3, Zenon
<1>5. Nesting(t, a) = n
  BY Zenon DEF Nesting, Opened
<1>6. \A j \in (a + 1)..Len(t) : n[j] = Up(n, j)
  <2> HIDE DEF n, Up
  <2> QED
    BY <1>4, Zenon
<1> DEFINE Odd == {j \in Nat : j \in (a + 1)..Len(t) /\ n[j] \notin Levels}
<1>7. Odd = {}
  <2> HIDE DEF n
  <2> SUFFICES ASSUME Odd # {} PROVE FALSE
    OBVIOUS
  <2>1. PICK m \in Odd : \A j \in Odd : m <= j
    <3>1. Odd \in SUBSET Nat
      OBVIOUS
    <3> HIDE DEF Odd
    <3> QED
      BY <3>1, LeastNumber
  <2>2. m \in Nat /\ m \in (a + 1)..Len(t) /\ n[m] \notin Levels /\ n[m] = Up(n, m)
    BY <1>6
  <2>3. m # a + 1
    BY <1>0, <2>2
  <2>4. m - 1 \in Nat /\ m - 1 \in (a + 1)..Len(t) /\ ~(m <= m - 1)
    BY <2>2, <2>3
  <2>5. m - 1 \notin Odd
    <3> HIDE DEF Odd
    <3> QED
      BY <2>1, <2>4
  <2>6. n[m - 1] \in Levels
    BY <2>4, <2>5
  <2> QED
    BY <2>2, <2>3, <2>6, NestedTyped
<1> HIDE DEF n
<1>8. k \in Nat
  OBVIOUS
<1> QED
  BY <1>5, <1>6, <1>7, <1>8

\* No literal or comment reaches from before the byte k to it.
Outside(t, k) == \A b \in Beginnings(t) : b < k => EndOf(t, b) < k

\* A text begins outside of literals and comments.
LEMMA OutsideAtStart ==
  ASSUME NEW t \in Seq(Bytes)
  PROVE  Outside(t, 1)
  BY BeginningsRule DEF Outside

\* What can open a literal does so, outside of the others.
LEMMA BeginsHere ==
  ASSUME NEW t \in Seq(Bytes), NEW k \in 1..Len(t), Outside(t, k), Opens(t, k)
  PROVE  k \in Beginnings(t)
  BY BeginningsRule DEF Outside

\* A byte outside that opens nothing is no part of a literal.
LEMMA StaysOutside ==
  ASSUME NEW t \in Seq(Bytes), NEW k \in 1..Len(t), Outside(t, k), ~Opens(t, k)
  PROVE  k \notin Literal(t) /\ Outside(t, k + 1)
<1>1. Beginnings(t) \subseteq 1..Len(t) /\ k \notin Beginnings(t)
  BY BeginningsRule
<1>2. \A b \in Beginnings(t) : EndOf(t, b) \in b..Len(t)
  BY <1>1, EndRule
<1>3. ASSUME NEW b \in Beginnings(t) PROVE k \notin b..EndOf(t, b)
  <2>1. b \in 1..Len(t) /\ b # k /\ EndOf(t, b) \in b..Len(t)
    BY <1>1, <1>2
  <2> QED
    BY <2>1 DEF Outside
<1>4. Outside(t, k + 1)
  BY <1>1, <1>2 DEF Outside
<1> QED
  BY <1>3, <1>4 DEF Literal

\* Every byte from the first of a literal to its end is part of it.
LEMMA InLiteral ==
  ASSUME NEW t, NEW a \in Beginnings(t), NEW k \in a..EndOf(t, a)
  PROVE  k \in Literal(t)
  BY DEF Literal

\* A literal does not begin within another.
LEMMA OutsideAfter ==
  ASSUME NEW t \in Seq(Bytes), NEW a \in Beginnings(t)
  PROVE  Outside(t, EndOf(t, a) + 1)
<1>1. Beginnings(t) \subseteq 1..Len(t)
  BY BeginningsRule
<1>2. EndOf(t, a) \in a..Len(t) /\ a \in 1..Len(t)
  BY <1>1, EndRule
<1>3. ASSUME NEW b \in Beginnings(t), b < EndOf(t, a) + 1 PROVE EndOf(t, b) < EndOf(t, a) + 1
  <2>1. b \in 1..Len(t) /\ EndOf(t, b) \in b..Len(t)
    BY <1>1, EndRule
  <2>2. CASE b < a
    <3>1. EndOf(t, b) < a
      BY <2>2, <1>2, BeginningsRule
    <3> QED
      BY <3>1, <2>1, <1>2
  <2>3. CASE b = a
    BY <2>3, <1>2
  <2>4. CASE b > a
    <3>1. EndOf(t, a) < b
      BY <2>1, <2>4, BeginningsRule
    <3> QED
      BY <3>1, <2>1, <1>2, <1>3
  <2> QED
    BY <2>1, <2>2, <2>3, <2>4, <1>2
<1> QED
  BY <1>3 DEF Outside

\* The run of backslashes before the byte k of the literal that begins at a.
Run(t, a, k) == {b \in (a + 1)..(k - 1) : \A m \in b..(k - 1) : t[m] = "backslash"}

\* A run of backslashes can be counted ...
LEMMA RunTyped ==
  ASSUME NEW t, NEW a \in Nat, NEW k \in Nat
  PROVE  IsFiniteSet(Run(t, a, k)) /\ Cardinality(Run(t, a, k)) \in Nat
<1>1. IsFiniteSet(Run(t, a, k))
  <2>1. Run(t, a, k) \subseteq (a + 1)..(k - 1) /\ IsFiniteSet((a + 1)..(k - 1))
    BY FS_Interval DEF Run
  <2> QED
    BY <2>1, FS_Subset
<1> QED
  BY <1>1, FS_CardinalityType

\* ... it ends with any other byte ...
LEMMA RunEnds ==
  ASSUME NEW t, NEW a \in Nat, NEW k \in Nat, a < k, t[k] # "backslash"
  PROVE  Run(t, a, k + 1) = {}
  BY DEF Run

\* ... and one backslash more makes it longer by one.
LEMMA RunGrows ==
  ASSUME NEW t, NEW a \in Nat, NEW k \in Nat, a < k, t[k] = "backslash"
  PROVE  Cardinality(Run(t, a, k + 1)) = Cardinality(Run(t, a, k)) + 1
<1>1. ASSUME NEW b \in (a + 1)..(k + 1 - 1)
      PROVE  (\A m \in b..(k + 1 - 1) : t[m] = "backslash")
               <=> b = k \/ (b \in (a + 1)..(k - 1) /\ \A m \in b..(k - 1) : t[m] = "backslash")
  <2>1. \A m \in Int : m \in b..(k + 1 - 1) <=> m = k \/ m \in b..(k - 1)
    OBVIOUS
  <2>2. b = k \/ b \in (a + 1)..(k - 1)
    OBVIOUS
  <2>3. b = k => b..(k - 1) = {}
    OBVIOUS
  <2> QED
    BY <2>1, <2>2, <2>3
<1>2. Run(t, a, k + 1) = Run(t, a, k) \cup {k}
  <2>1. k \in (a + 1)..(k + 1 - 1) /\ (a + 1)..(k - 1) \subseteq (a + 1)..(k + 1 - 1)
    OBVIOUS
  <2> QED
    BY <1>1, <2>1 DEF Run
<1>3. k \notin Run(t, a, k)
  BY DEF Run
<1> QED
  BY <1>2, <1>3, RunTyped, FS_AddElement

-----------------------------------------------------------------------------
(* Where the cursor of a walk is, in terms of literals and comments.       *)

\* The cursor k is within the literal or comment of kind q that begins at a,
\* d deep if it is a block comment.
Within(t, a, k, q, d) ==
  /\ a \in Beginnings(t) /\ a < k /\ NoClose(t, a, k)
  /\ q \in Quotes => t[a] = q /\ ~Escaped(t, a, k)
  /\ q = "line" => t[a] = "#" \/ Begins(t, a, <<"-", "-">>)
  /\ q = "block" =>
       /\ Begins(t, a, <<"/", "*">>) /\ a + 1 < k /\ Nesting(t, a)[k - 1].depth = d
       /\ \/ Nesting(t, a)[k - 1].paired
          \/ ~Begins(t, k - 1, <<"/", "*">>) /\ ~Begins(t, k - 1, <<"*", "/">>)

Where(t, k, q, d) ==
  /\ q = None => Outside(t, k)
  /\ q # None /\ k <= Len(t) => \E a \in Beginnings(t) : Within(t, a, k, q, d)

\* A cursor within a literal is on one of its bytes.
LEMMA WithinLiteral ==
  ASSUME NEW t \in Seq(Bytes), NEW k \in 1..Len(t), NEW a, NEW q, NEW d, Within(t, a, k, q, d)
  PROVE  /\ a \in 1..Len(t) /\ a < k /\ k <= EndOf(t, a)
         /\ k \in Literal(t)
<1>1. a \in 1..Len(t) /\ a < k /\ NoClose(t, a, k) /\ a \in Beginnings(t)
  BY BeginningsRule DEF Within
<1>2. k <= EndOf(t, a) /\ EndOf(t, a) \in a..Len(t)
  BY <1>1, NotEnded, EndRule
<1>3. k \in a..EndOf(t, a)
  BY <1>1, <1>2
<1> QED
  BY <1>1, <1>2, <1>3, InLiteral

\* One byte more that does not close.
LEMMA StillOpen ==
  ASSUME NEW t, NEW a \in Nat, NEW k \in Nat, a < k, NoClose(t, a, k), k \notin Closes(t, a)
  PROVE  NoClose(t, a, k + 1)
<1>1. ASSUME NEW c \in (a + 1)..(k + 1 - 1) PROVE c \notin Closes(t, a)
  <2>1. c = k \/ c \in (a + 1)..(k - 1)
    OBVIOUS
  <2> QED
    BY <2>1 DEF NoClose
<1> QED
  BY <1>1 DEF NoClose

\* What closes a quoted literal is the same quote, not escaped.
LEMMA ClosesOfQuote ==
  ASSUME NEW t, NEW a, t[a] \in Quotes
  PROVE  Closes(t, a) = {c \in (a + 1)..Len(t) : t[c] = t[a] /\ ~Escaped(t, a, c)}
<1>1. t[a] \notin {"$", "/"}
  BY DEF Quotes
<1> QED
  BY <1>1, Zenon DEF Closes

\* No backslash escapes nothing.
LEMMA NoneEscaped == Cardinality({}) % 2 # 1
<1>1. Cardinality({}) = 0
  BY FS_EmptySet
<1> QED
  BY <1>1

\* A quote is escaped by the run of backslashes before it.
LEMMA EscapedByRun ==
  ASSUME NEW t, NEW a, NEW k
  PROVE  Escaped(t, a, k) <=> t[a] = "single" /\ Cardinality(Run(t, a, k)) % 2 = 1
  BY DEF Escaped, Run

\* A byte of a quoted literal that neither closes it nor escapes the next.
LEMMA QuotedByte ==
  ASSUME NEW t \in Seq(Bytes), NEW k \in 1..Len(t), NEW a, NEW q \in Quotes, NEW d,
         Within(t, a, k, q, d), t[k] # q,
         t[k] = "backslash" /\ q = "single" => k = Len(t)
  PROVE  Where(t, k + 1, q, d)
<1>1. a \in 1..Len(t) /\ a < k /\ t[a] = q /\ NoClose(t, a, k) /\ a \in Beginnings(t)
  BY WithinLiteral DEF Within
<1>2. CASE k = Len(t)
  BY <1>2 DEF Where, Quotes, None
<1>3. CASE k # Len(t)
  <2>1. k \notin Closes(t, a)
    BY <1>1, ClosesOfQuote
  <2>2. NoClose(t, a, k + 1)
    BY <1>1, <2>1, StillOpen
  <2>3. ~Escaped(t, a, k + 1)
    <3>1. CASE q = "single"
      <4>1. Run(t, a, k + 1) = {}
        BY <1>1, <1>3, <3>1, RunEnds
      <4> QED
        BY <4>1, EscapedByRun, NoneEscaped
    <3>2. CASE q # "single"
      BY <1>1, <3>2, EscapedByRun
    <3> QED
      BY <3>1, <3>2
  <2>4. Within(t, a, k + 1, q, d)
    BY <1>1, <2>2, <2>3 DEF Within, Quotes
  <2> QED
    BY <1>1, <2>4 DEF Where, Quotes, None
<1> QED
  BY <1>2, <1>3

\* A backslash and the byte it escapes.
LEMMA EscapedByte ==
  ASSUME NEW t \in Seq(Bytes), NEW k \in 1..Len(t), NEW a, NEW d,
         Within(t, a, k, "single", d), t[k] = "backslash", k < Len(t)
  PROVE  Where(t, k + 2, "single", d) /\ k + 1 \in Literal(t)
<1>1. a \in 1..Len(t) /\ a < k /\ t[a] = "single" /\ NoClose(t, a, k) /\ ~Escaped(t, a, k)
  BY WithinLiteral DEF Within, Quotes
<1>2. k \notin Closes(t, a)
  BY <1>1, ClosesOfQuote DEF Quotes
<1>3. NoClose(t, a, k + 1)
  BY <1>1, <1>2, StillOpen
<1> DEFINE c == Cardinality(Run(t, a, k))
<1>4. c \in Nat /\ c % 2 # 1
  <2>1. Cardinality(Run(t, a, k)) \in Nat
    BY <1>1, RunTyped
  <2>2. Cardinality(Run(t, a, k)) % 2 # 1
    BY <1>1, EscapedByRun, Zenon
  <2> QED
    BY <2>1, <2>2
<1>5. Cardinality(Run(t, a, k + 1)) = c + 1
  BY <1>1, RunGrows
<1>6. Escaped(t, a, k + 1)
  <2>1. (c + 1) % 2 = 1
    <3> HIDE DEF c
    <3> QED
      BY <1>4
  <2> QED
    BY <2>1, <1>1, <1>5, EscapedByRun
<1>7. k + 1 \notin Closes(t, a)
  BY <1>1, <1>6, ClosesOfQuote DEF Quotes
<1>8. NoClose(t, a, k + 2)
  <2>1. NoClose(t, a, k + 1 + 1) /\ k + 1 + 1 = k + 2
    BY <1>1, <1>3, <1>7, StillOpen
  <2> QED
    BY <2>1
<1>9. ~Escaped(t, a, k + 2)
  <2>1. k + 1 \in Nat /\ a < k + 1 /\ a \in Nat /\ k + 1 + 1 = k + 2
    BY <1>1
  <2>2. CASE t[k + 1] = "backslash"
    <3>1. Cardinality(Run(t, a, k + 2)) = c + 1 + 1
      <4>1. Cardinality(Run(t, a, k + 1 + 1)) = Cardinality(Run(t, a, k + 1)) + 1
        BY <2>1, <2>2, RunGrows
      <4> QED
        BY <2>1, <4>1, <1>5
    <3>2. (c + 1 + 1) % 2 # 1
      <4> HIDE DEF c
      <4> QED
        BY <1>4
    <3> QED
      BY <3>1, <3>2, EscapedByRun
  <2>3. CASE t[k + 1] # "backslash"
    <3>1. Run(t, a, k + 2) = {}
      <4>1. Run(t, a, k + 1 + 1) = {}
        BY <2>1, <2>3, RunEnds
      <4> QED
        BY <2>1, <4>1
    <3> QED
      BY <3>1, EscapedByRun, NoneEscaped
  <2> QED
    BY <2>2, <2>3
<1>10. Within(t, a, k + 2, "single", d)
  <2>1. a \in Beginnings(t) /\ a < k + 2
    BY <1>1 DEF Within
  <2> QED
    BY <1>1, <1>8, <1>9, <2>1 DEF Within, Quotes
<1>11. k + 1 \in Literal(t)
  <2>1. k + 1 \in 1..Len(t) /\ a < k + 1
    BY <1>1
  <2>2. k + 1 <= EndOf(t, a)
    BY <1>1, <1>3, <2>1, NotEnded
  <2>3. k + 1 \in a..EndOf(t, a)
    BY <1>1, <2>1, <2>2, EndRule
  <2> QED
    BY <2>3, InLiteral DEF Within
<1> QED
  BY <1>10, <1>11 DEF Where, None, Within

\* The quote closes the literal; if another follows, that begins the next.
LEMMA QuoteCloses ==
  ASSUME NEW t \in Seq(Bytes), NEW k \in 1..Len(t), NEW a, NEW q \in Quotes, NEW d,
         Within(t, a, k, q, d), t[k] = q
  PROVE  /\ Where(t, k + 1, None, 0)
         /\ k < Len(t) /\ t[k + 1] = q => Where(t, k + 2, q, d) /\ k + 1 \in Literal(t)
<1>1. a \in 1..Len(t) /\ a < k /\ t[a] = q /\ NoClose(t, a, k) /\ ~Escaped(t, a, k)
  BY WithinLiteral DEF Within
<1>2. k \in Closes(t, a)
  <2>1. k \in (a + 1)..Len(t)
    BY <1>1
  <2> QED
    BY <2>1, <1>1, ClosesOfQuote
<1>3. EndOf(t, a) = k
  BY <1>1, <1>2, EndsAt
<1>4. Outside(t, k + 1)
  BY <1>3, OutsideAfter DEF Within
<1>5. ASSUME k < Len(t), t[k + 1] = q PROVE Where(t, k + 2, q, d) /\ k + 1 \in Literal(t)
  <2>1. k + 1 \in 1..Len(t)
    BY <1>5
  <2>2. k + 1 \in Beginnings(t)
    BY <1>4, <1>5, <2>1, BeginsHere DEF Opens
  <2>3. NoClose(t, k + 1, k + 2)
    BY DEF NoClose
  <2>4. ~Escaped(t, k + 1, k + 2)
    <3>1. Run(t, k + 1, k + 2) = {}
      BY DEF Run
    <3> QED
      BY <3>1, EscapedByRun, NoneEscaped
  <2>5. Within(t, k + 1, k + 2, q, d)
    BY <1>5, <2>2, <2>3, <2>4 DEF Within, Quotes
  <2>6. k + 1 \in (k + 1)..EndOf(t, k + 1)
    BY <2>1, EndRule
  <2> QED
    BY <2>2, <2>5, <2>6, InLiteral DEF Where, Quotes, None
<1> QED
  BY <1>4, <1>5 DEF Where

\* A byte of a comment up to the end of the line.
LEMMA LineByte ==
  ASSUME NEW t \in Seq(Bytes), NEW k \in 1..Len(t), NEW a, NEW d, Within(t, a, k, "line", d)
  PROVE  Where(t, k + 1, IF t[k] = Newline THEN None ELSE "line", d)
<1>1. a \in 1..Len(t) /\ a < k /\ NoClose(t, a, k) /\ t[a] \in {"#", "-"} /\ a \in Beginnings(t)
  BY WithinLiteral DEF Within, Begins
<1>2. Closes(t, a) = {c \in (a + 1)..Len(t) : t[c] = Newline}
  <2>1. t[a] \notin Quotes \cup {"$", "/"}
    BY <1>1 DEF Quotes
  <2> QED
    BY <2>1 DEF Closes
<1>3. CASE t[k] = Newline
  <2>1. k \in (a + 1)..Len(t)
    BY <1>1
  <2>2. EndOf(t, a) = k
    BY <1>1, <1>2, <1>3, <2>1, EndsAt
  <2> QED
    BY <1>1, <1>3, <2>2, OutsideAfter DEF Where, None
<1>4. CASE t[k] # Newline
  <2>1. NoClose(t, a, k + 1)
    BY <1>1, <1>2, <1>4, StillOpen
  <2>2. Within(t, a, k + 1, "line", d)
    BY <1>1, <2>1 DEF Within, Quotes
  <2> QED
    BY <1>1, <1>4, <2>2 DEF Where, None
<1> QED
  BY <1>3, <1>4

\* What a pair that begins with the byte k makes of the nesting.
LEMMA NestedPair ==
  ASSUME NEW t, NEW k \in Nat, NEW n \in Levels, ~n.paired
  PROVE  /\ Begins(t, k, <<"/", "*">>) => Nested(t, k + 1, n) = [depth |-> n.depth + 1, paired |-> TRUE]
         /\ Begins(t, k, <<"*", "/">>) => Nested(t, k + 1, n) = [depth |-> n.depth - 1, paired |-> TRUE]
<1>1. k + 1 - 1 = k
  OBVIOUS
<1>2. ~Begins(t, k, <<"/", "*">>) \/ ~Begins(t, k, <<"*", "/">>)
  BY DEF Begins
<1>3. /\ Begins(t, k + 1 - 1, <<"/", "*">>) <=> Begins(t, k, <<"/", "*">>)
      /\ Begins(t, k + 1 - 1, <<"*", "/">>) <=> Begins(t, k, <<"*", "/">>)
  BY <1>1
<1> QED
  BY <1>2, <1>3 DEF Nested

\* One byte, or a pair, of a block comment that is d deep.
LEMMA BlockByte ==
  ASSUME NEW t \in Seq(Bytes), NEW k \in 1..Len(t), NEW a, NEW d \in Nat \ {0},
         Within(t, a, k, "block", d)
  PROVE  /\ ~Begins(t, k, <<"/", "*">>) /\ ~Begins(t, k, <<"*", "/">>) => Where(t, k + 1, "block", d)
         /\ Begins(t, k, <<"/", "*">>) => Where(t, k + 2, "block", d + 1)
         /\ Begins(t, k, <<"*", "/">>) =>
              Where(t, k + 2, IF d = 1 THEN None ELSE "block", d - 1)
<1>1. /\ a \in 1..Len(t) /\ a + 1 < k /\ NoClose(t, a, k) /\ a \in Beginnings(t)
      /\ Begins(t, a, <<"/", "*">>)
      /\ Nesting(t, a)[k - 1].depth = d
      /\ \/ Nesting(t, a)[k - 1].paired
         \/ ~Begins(t, k - 1, <<"/", "*">>) /\ ~Begins(t, k - 1, <<"*", "/">>)
  BY WithinLiteral DEF Within, Quotes
<1> DEFINE N(m) == Nesting(t, a)[m]
<1>2. Closes(t, a) = {c \in (a + 2)..Len(t) : N(c).depth = 0}
  <2>1. t[a] = "/" /\ t[a] \notin Quotes \cup {"$"}
    BY <1>1 DEF Begins, Quotes
  <2> QED
    BY <2>1 DEF Closes
<1>n. \A j \in (a + 1)..Len(t) : j # a + 1 => N(j) = Nested(t, j, N(j - 1))
  BY <1>1, NestingRule
<1>3. N(k) = [depth |-> d, paired |-> FALSE]
  <2>1. k \in (a + 1)..Len(t) /\ k # a + 1
    BY <1>1
  <2>2. N(k) = Nested(t, k, N(k - 1))
    BY <2>1, <1>n
  <2> QED
    BY <1>1, <2>2 DEF Nested
<1>4. k \notin Closes(t, a)
  BY <1>2, <1>3
<1>5. NoClose(t, a, k + 1)
  BY <1>1, <1>4, StillOpen
<1>6. ASSUME ~Begins(t, k, <<"/", "*">>), ~Begins(t, k, <<"*", "/">>)
      PROVE  Where(t, k + 1, "block", d)
  <2>1. k + 1 - 1 = k /\ a < k + 1 /\ a + 1 < k + 1
    BY <1>1
  <2>2. N(k + 1 - 1).depth = d
    BY <1>3, <2>1
  <2>3. Within(t, a, k + 1, "block", d)
    BY <1>1, <1>5, <1>6, <2>1, <2>2 DEF Within, Quotes
  <2> QED
    BY <1>1, <2>3 DEF Where, None
<1>7. ASSUME NEW e \in Nat, k < Len(t), N(k + 1) = [depth |-> e, paired |-> TRUE]
      PROVE  /\ e = 0 => Where(t, k + 2, None, e)
             /\ e # 0 => Where(t, k + 2, "block", e)
  <2>1. CASE e = 0
    <3>1. k + 1 \in Closes(t, a)
      <4>1. k + 1 \in (a + 2)..Len(t)
        BY <1>1, <1>7
      <4> QED
        BY <4>1, <1>2, <1>7, <2>1
    <3>2. EndOf(t, a) = k + 1
      BY <1>1, <1>5, <3>1, EndsAt
    <3>3. Outside(t, k + 1 + 1) /\ k + 1 + 1 = k + 2
      BY <1>1, <3>2, OutsideAfter
    <3> QED
      BY <2>1, <3>3 DEF Where
  <2>2. CASE e # 0
    <3>1. k + 1 \notin Closes(t, a)
      BY <1>2, <1>7, <2>2
    <3>2. k + 1 \in Nat /\ a \in Nat /\ a < k + 1
      BY <1>1
    <3>3. NoClose(t, a, k + 1 + 1) /\ k + 1 + 1 = k + 2
      BY <1>5, <3>1, <3>2, StillOpen
    <3>4. k + 2 - 1 = k + 1 /\ a < k + 2 /\ a + 1 < k + 2
      BY <1>1
    <3>5. N(k + 2 - 1).depth = e /\ N(k + 2 - 1).paired
      BY <1>7, <3>4
    <3>6. Within(t, a, k + 2, "block", e)
      BY <1>1, <3>3, <3>4, <3>5 DEF Within, Quotes
    <3> QED
      BY <1>1, <2>2, <3>6 DEF Where, None
  <2> QED
    BY <2>1, <2>2
<1>8. ASSUME k < Len(t)
      PROVE  /\ Begins(t, k, <<"/", "*">>) => N(k + 1) = [depth |-> d + 1, paired |-> TRUE]
             /\ ~Begins(t, k, <<"/", "*">>) /\ Begins(t, k, <<"*", "/">>) =>
                  N(k + 1) = [depth |-> d - 1, paired |-> TRUE]
  <2>1. k + 1 \in (a + 1)..Len(t) /\ k + 1 # a + 1 /\ k + 1 - 1 = k
    BY <1>1, <1>8
  <2>2. N(k + 1) = Nested(t, k + 1, N(k))
    BY <2>1, <1>n
  <2>3. N(k).depth = d /\ ~N(k).paired /\ N(k) \in Levels
    BY <1>3 DEF Levels
  <2> HIDE DEF N
  <2> QED
    BY <2>2, <2>3, NestedPair
<1>9. ASSUME Begins(t, k, <<"/", "*">>) PROVE Where(t, k + 2, "block", d + 1)
  <2>1. k < Len(t)
    BY <1>9 DEF Begins
  <2>2. N(k + 1) = [depth |-> d + 1, paired |-> TRUE]
    BY <1>8, <1>9, <2>1
  <2>3. d + 1 \in Nat /\ d + 1 # 0
    OBVIOUS
  <2> QED
    BY <1>7, <2>1, <2>2, <2>3
<1>10. ASSUME Begins(t, k, <<"*", "/">>)
       PROVE  Where(t, k + 2, IF d = 1 THEN None ELSE "block", d - 1)
  <2>1. k < Len(t) /\ ~Begins(t, k, <<"/", "*">>)
    BY <1>10 DEF Begins
  <2>2. N(k + 1) = [depth |-> d - 1, paired |-> TRUE]
    BY <1>8, <1>10, <2>1
  <2>3. d - 1 \in Nat /\ (d - 1 = 0 <=> d = 1)
    OBVIOUS
  <2> QED
    BY <1>7, <2>1, <2>2, <2>3
<1> QED
  BY <1>6, <1>9, <1>10

\* What opens a literal or a comment outside.
LEMMA Opening ==
  ASSUME NEW t \in Seq(Bytes), NEW k \in 1..Len(t), Outside(t, k)
  PROVE  /\ t[k] \in Quotes => Where(t, k + 1, t[k], 0)
         /\ t[k] = "#" => Where(t, k + 1, "line", 0)
         /\ Begins(t, k, <<"-", "-">>) => Where(t, k + 2, "line", 0)
         /\ Begins(t, k, <<"/", "*">>) => Where(t, k + 2, "block", 1)
<1>1. NoClose(t, k, k + 1)
  BY DEF NoClose
<1>2. ASSUME t[k] \in Quotes PROVE Where(t, k + 1, t[k], 0)
  <2>1. k \in Beginnings(t)
    BY <1>2, BeginsHere DEF Opens
  <2>2. ~Escaped(t, k, k + 1)
    <3>1. Run(t, k, k + 1) = {}
      BY DEF Run
    <3> QED
      BY <3>1, EscapedByRun, NoneEscaped
  <2>3. Within(t, k, k + 1, t[k], 0)
    BY <1>1, <1>2, <2>1, <2>2 DEF Within, Quotes
  <2> QED
    BY <1>2, <2>1, <2>3 DEF Where, Quotes, None
<1>3. ASSUME t[k] = "#" PROVE Where(t, k + 1, "line", 0)
  <2>1. k \in Beginnings(t)
    BY <1>3, BeginsHere DEF Opens
  <2>2. Within(t, k, k + 1, "line", 0)
    BY <1>1, <1>3, <2>1 DEF Within, Quotes
  <2> QED
    BY <2>1, <2>2 DEF Where, None
<1>4. ASSUME Begins(t, k, <<"-", "-">>) PROVE Where(t, k + 2, "line", 0)
  <2>1. k \in Beginnings(t)
    BY <1>4, BeginsHere DEF Opens
  <2>2. t[k] = "-" /\ t[k + 1] = "-"
    BY <1>4 DEF Begins
  <2>3. k + 1 \notin Closes(t, k)
    <3>1. t[k] \notin Quotes \cup {"$", "/"}
      BY <2>2 DEF Quotes
    <3>2. Closes(t, k) = {c \in (k + 1)..Len(t) : t[c] = Newline}
      BY <3>1 DEF Closes
    <3> QED
      BY <2>2, <3>2 DEF Newline
  <2>4. NoClose(t, k, k + 2)
    <3>1. NoClose(t, k, k + 1 + 1) /\ k + 1 + 1 = k + 2
      BY <1>1, <2>3, StillOpen
    <3> QED
      BY <3>1
  <2>5. Within(t, k, k + 2, "line", 0)
    BY <1>4, <2>1, <2>4 DEF Within, Quotes
  <2> QED
    BY <2>1, <2>5 DEF Where, None
<1>5. ASSUME Begins(t, k, <<"/", "*">>) PROVE Where(t, k + 2, "block", 1)
  <2>1. k \in Beginnings(t)
    BY <1>5, BeginsHere DEF Opens
  <2>2. t[k] = "/" /\ k < Len(t)
    BY <1>5 DEF Begins
  <2>3. k + 1 \notin Closes(t, k)
    <3>1. t[k] \notin Quotes \cup {"$"}
      BY <2>2 DEF Quotes
    <3>2. Closes(t, k) = {c \in (k + 2)..Len(t) : Nesting(t, k)[c].depth = 0}
      BY <2>2, <3>1 DEF Closes
    <3> QED
      BY <3>2
  <2>4. NoClose(t, k, k + 2)
    <3>1. NoClose(t, k, k + 1 + 1) /\ k + 1 + 1 = k + 2
      BY <1>1, <2>3, StillOpen
    <3> QED
      BY <3>1
  <2>5. Nesting(t, k)[k + 1] = Opened
    <3>1. k + 1 \in (k + 1)..Len(t)
      BY <2>2
    <3> QED
      BY <3>1, NestingRule
  <2>6. Nesting(t, k)[k + 2 - 1].depth = 1 /\ Nesting(t, k)[k + 2 - 1].paired
    <3>1. k + 2 - 1 = k + 1
      OBVIOUS
    <3> QED
      BY <2>5, <3>1 DEF Opened
  <2>7. Within(t, k, k + 2, "block", 1)
    BY <1>5, <2>1, <2>4, <2>6 DEF Within, Quotes
  <2> QED
    BY <2>1, <2>7 DEF Where, None
<1> QED
  BY <1>2, <1>3, <1>4, <1>5

\* A dollar-quoted literal, whose delimiter ends at e, is read at once.
DollarCloses(t, k, e) ==
  {c \in (e + 1)..(Len(t) - (e - k)) : SubSeq(t, c, c + e - k) = SubSeq(t, k, e)}

DollarEnd(t, k, e) ==
  LET closes == DollarCloses(t, k, e)
  IN IF closes = {} THEN Len(t) ELSE Min(closes) + (e - k)

\* At most one delimiter of a dollar quote begins at a byte.
LEMMA OneDelimiter ==
  ASSUME NEW t \in Seq(Bytes), NEW k \in 1..Len(t),
         NEW e \in Delimiters(t, k), NEW f \in Delimiters(t, k)
  PROVE  e = f
<1>1. /\ e \in (k + 1)..Len(t) /\ f \in (k + 1)..Len(t) /\ t[e] = "$" /\ t[f] = "$"
      /\ \A c \in (k + 1)..(e - 1) : t[c] \in {Letter, Digit}
      /\ \A c \in (k + 1)..(f - 1) : t[c] \in {Letter, Digit}
  BY DEF Delimiters, Delimiter
<1>2. ~(e < f) /\ ~(f < e)
  BY <1>1 DEF Letter, Digit
<1> QED
  BY <1>1, <1>2

\* A delimiter outside begins a literal that ends with the next occurrence of it.
LEMMA DollarQuoted ==
  ASSUME NEW t \in Seq(Bytes), NEW k \in 1..Len(t), Outside(t, k), NEW e \in Delimiters(t, k)
  PROVE  /\ k \in Beginnings(t)
         /\ EndOf(t, k) = DollarEnd(t, k, e)
<1>1. t[k] = "$" /\ e \in (k + 1)..Len(t)
  BY DEF Delimiters, Delimiter
<1>2. k \in Beginnings(t)
  BY BeginsHere DEF Opens
<1> DEFINE C == DollarCloses(t, k, e)
<1>3. Closes(t, k) = {c \in (k + 1)..Len(t) : \E f \in Delimiters(t, k) :
                         c - (f - k) > f /\ SubSeq(t, c - (f - k), c) = SubSeq(t, k, f)}
  <2>1. t[k] \notin Quotes
    BY <1>1 DEF Quotes
  <2> QED
    BY <1>1, <2>1 DEF Closes
<1>4. Closes(t, k) = {c \in (k + 1)..Len(t) :
                         c - (e - k) > e /\ SubSeq(t, c - (e - k), c) = SubSeq(t, k, e)}
  <2>1. \A f \in Delimiters(t, k) : f = e
    BY OneDelimiter
  <2> QED
    BY <1>3, <2>1
<1>5. ASSUME NEW c \in C PROVE c + (e - k) \in Closes(t, k)
  <2>1. c \in (e + 1)..(Len(t) - (e - k)) /\ SubSeq(t, c, c + e - k) = SubSeq(t, k, e)
    BY DEF DollarCloses
  <2>2. /\ c + (e - k) \in (k + 1)..Len(t) /\ (c + (e - k)) - (e - k) = c /\ c > e
        /\ c + e - k = c + (e - k)
    BY <1>1, <2>1
  <2>3. SubSeq(t, (c + (e - k)) - (e - k), c + (e - k)) = SubSeq(t, k, e)
    BY <2>1, <2>2
  <2>4. (c + (e - k)) - (e - k) > e
    BY <2>2
  <2> QED
    BY <1>4, <2>2, <2>3, <2>4, Zenon
<1>6. ASSUME NEW c \in Closes(t, k) PROVE c - (e - k) \in C
  <2>1. c \in (k + 1)..Len(t) /\ c - (e - k) > e /\ SubSeq(t, c - (e - k), c) = SubSeq(t, k, e)
    BY <1>4
  <2>2. c - (e - k) \in (e + 1)..(Len(t) - (e - k)) /\ (c - (e - k)) + e - k = c
    BY <1>1, <2>1
  <2> QED
    BY <2>1, <2>2 DEF DollarCloses
<1>7. C \in SUBSET Nat
  BY <1>1 DEF DollarCloses
<1>8. EndOf(t, k) \in Closes(t, k) \cup {Len(t)} /\ EndOf(t, k) \in k..Len(t)
      /\ \A c \in Closes(t, k) : EndOf(t, k) <= c
  BY EndRule
<1>9. CASE C = {}
  <2>1. Closes(t, k) = {}
    BY <1>6, <1>9
  <2> QED
    BY <1>2, <1>8, <1>9, <2>1 DEF DollarEnd
<1>10. CASE C # {}
  <2> DEFINE m == Min(C)
  <2>1. m \in C /\ \A c \in C : m <= c
    <3> HIDE DEF C
    <3> QED
      BY <1>7, <1>10, MinRule
  <2>2. m \in Nat /\ m + (e - k) \in Closes(t, k)
    BY <1>5, <1>7, <2>1
  <2>3. EndOf(t, k) \in Closes(t, k)
    <3>1. EndOf(t, k) <= m + (e - k) /\ m + (e - k) <= Len(t)
      BY <1>8, <2>2, ClosesLater
    <3> HIDE DEF m
    <3> QED
      BY <1>1, <1>8, <2>2, <3>1
  <2>4. m <= EndOf(t, k) - (e - k)
    BY <1>6, <2>1, <2>3
  <2>5. EndOf(t, k) <= m + (e - k)
    BY <1>8, <2>2
  <2>6. EndOf(t, k) = m + (e - k)
    BY <1>1, <1>8, <2>2, <2>4, <2>5
  <2> QED
    BY <1>2, <1>10, <2>6 DEF DollarEnd
<1> QED
  BY <1>9, <1>10

\* The bytes of a part of a text.
LEMMA PartOfText ==
  ASSUME NEW t \in Seq(Bytes), NEW m \in Nat \ {0}, NEW n \in Nat, n <= Len(t),
         NEW j \in 1..(n - m + 1)
  PROVE  SubSeq(t, m, n)[j] = t[m + j - 1]
<1>1. \A b \in m..n : t[b] \in Bytes
  OBVIOUS
<1> QED
  BY <1>1, SubSeqProperties

\* A placeholder in a dollar-quoted literal is in its body.
LEMMA DollarBody ==
  ASSUME NEW t \in Seq(Bytes), NEW k \in 1..Len(t), NEW e \in Delimiters(t, k),
         NEW c \in k..DollarEnd(t, k, e), t[c] = "?"
  PROVE  c \in (e + 1)..(IF DollarCloses(t, k, e) = {} THEN Len(t) ELSE Min(DollarCloses(t, k, e)) - 1)
<1>1. /\ t[k] = "$" /\ t[e] = "$" /\ e \in (k + 1)..Len(t)
      /\ \A b \in (k + 1)..(e - 1) : t[b] \in {Letter, Digit}
  BY DEF Delimiters, Delimiter
<1>2. \A b \in k..e : t[b] # "?"
  <2> TAKE b \in k..e
  <2>1. b = k \/ b = e \/ b \in (k + 1)..(e - 1)
    BY <1>1
  <2> QED
    BY <1>1, <2>1 DEF Letter, Digit
<1>3. CASE DollarCloses(t, k, e) = {}
  BY <1>1, <1>2, <1>3 DEF DollarEnd
<1>4. CASE DollarCloses(t, k, e) # {}
  <2> DEFINE C == DollarCloses(t, k, e)
             m == Min(C)
  <2>1. C \in SUBSET Nat
    BY <1>1 DEF DollarCloses
  <2>2. m \in C
    <3>1. C # {}
      BY <1>4
    <3> HIDE DEF C
    <3> QED
      BY <3>1, <2>1, MinRule
  <2>3. m \in (e + 1)..(Len(t) - (e - k)) /\ SubSeq(t, m, m + e - k) = SubSeq(t, k, e)
    BY <2>2 DEF DollarCloses
  <2>4. c \in k..(m + (e - k))
    BY <1>4 DEF DollarEnd
  <2> HIDE DEF m
  <2>5. ~(c >= m)
    <3> SUFFICES ASSUME c >= m PROVE FALSE
      OBVIOUS
    <3> DEFINE j == c - m + 1
    <3>0. m \in Nat /\ e \in Nat /\ m + e - k \in Nat /\ m + e - k <= Len(t) /\ m <= m + e - k
      BY <1>1, <2>3
    <3>1. j \in 1..(e - k + 1) /\ c \in Int
      BY <1>1, <2>3, <2>4
    <3>2. SubSeq(t, m, m + e - k)[j] = t[m + j - 1]
      <4>1. j \in 1..((m + e - k) - m + 1) /\ m \in Nat \ {0}
        BY <3>0, <3>1, <1>1, <2>3
      <4> HIDE DEF j
      <4> QED
        BY <3>0, <4>1, PartOfText
    <3>3. SubSeq(t, k, e)[j] = t[k + j - 1]
      <4>1. e \in Nat /\ e <= Len(t) /\ k \in Nat \ {0}
        BY <1>1
      <4> HIDE DEF j
      <4> QED
        BY <3>1, <4>1, PartOfText
    <3>4. m + j - 1 = c /\ k + j - 1 \in k..e
      BY <3>0, <3>1, <1>1
    <3> QED
      BY <1>2, <2>3, <3>2, <3>3, <3>4
  <2>6. c \in (e + 1)..(m - 1)
    BY <1>1, <1>2, <2>3, <2>4, <2>5
  <2> QED
    BY <1>4, <2>6 DEF m
<1> QED
  BY <1>3, <1>4

-----------------------------------------------------------------------------
(* What a walk has established so far.                                     *)

SeenTo(t, k) == {c \in Questions(t) : c < k}
MarksTo(t, k, m) == {c \in DOMAIN t \ Literal(t) : t[c] = m /\ c < k}
CleanTo(t, k) == \A c \in Questions(t) : c < k => c \notin Literal(t) /\ ~Operator(t, c)

\* The text is the one whose turn it is, and those before it fit.
OfJob ==
  /\ walk = "scan" /\ job.kind = "predicate" =>
       /\ text = job.texts[part]
       /\ \A p \in DOMAIN job.texts : p < part => PredicateFits(job.texts[p], job.values[p])
  /\ job.kind = "template" => text = job.texts[1]
  /\ walk = "render" =>
       /\ text = Conjunction(job.texts)
       /\ job.kind = "predicate" =>
            \A p \in DOMAIN job.texts : PredicateFits(job.texts[p], job.values[p])
       /\ job.kind = "template" => TemplateFits(job.texts[1], job.values[1])

\* The cursor is in the literal or comment the walk takes it to be in.
Position == Where(text, i, inside, depth) /\ CleanTo(text, i)

SlotsCounted == walk = "render" \/ job.kind = "predicate" => count = Cardinality(SeenTo(text, i))

MarkersScanned ==
  walk = "scan" /\ job.kind = "template" =>
    /\ scan.targetCount = Cardinality(MarksTo(text, i, Target))
    /\ scan.scopeCount = Cardinality(MarksTo(text, i, Scope))
    /\ scan.customSlotCount = Cardinality(SeenTo(text, i))
    /\ \A c \in DOMAIN text \ Literal(text) :
         c < i /\ text[c] \in Markers => text[c] \in {Target, Scope}
    /\ scan.scopeMarkerEnd = 0 => MarksTo(text, i, Scope) = {}
    /\ scan.scopeMarkerEnd # 0 => scan.scopeMarkerEnd - 1 \in MarksTo(text, i, Scope)
    /\ \A c \in SeenTo(text, i) : \E s \in MarksTo(text, i, Scope) : s < c

\* In the second walk of a template the scan still knows where the scope is.
ScopeKnown ==
  walk = "render" /\ job.kind = "template" =>
    scan.scopeMarkerEnd - 1 \in MarksTo(text, Len(text) + 1, Scope)

\* What is flushed is as expected, and what is not yet is to stand as written.
RenderedSoFar ==
  walk = "render" =>
    /\ Len(out) = start - 1
    /\ \A k \in 1..(start - 1) : out[k] = Expected[k]
    /\ \A k \in start..(i - 1) : Expected[k] = <<"source", k>>

WalkInv ==
  /\ OfJob /\ Position /\ SlotsCounted /\ MarkersScanned /\ ScopeKnown /\ RenderedSoFar

ReadInv ==
  /\ TypeInv /\ RenderedAsRead
  /\ walk \in {"scan", "render"} => WalkInv

-----------------------------------------------------------------------------
(* Counting.                                                               *)

\* What is seen of a text can be counted.
LEMMA SeenFinite ==
  ASSUME NEW t \in Seq(Bytes), NEW k, NEW m
  PROVE  /\ IsFiniteSet(Questions(t)) /\ IsFiniteSet(SeenTo(t, k)) /\ IsFiniteSet(MarksTo(t, k, m))
         /\ Cardinality(SeenTo(t, k)) \in Nat /\ Cardinality(MarksTo(t, k, m)) \in Nat
<1>1. DOMAIN t = 1..Len(t) /\ Len(t) \in Nat
  OBVIOUS
<1>2. IsFiniteSet(DOMAIN t)
  BY <1>1, FS_Interval
<1>3. Questions(t) \subseteq DOMAIN t /\ SeenTo(t, k) \subseteq DOMAIN t /\ MarksTo(t, k, m) \subseteq DOMAIN t
  BY DEF Questions, SeenTo, MarksTo
<1>4. IsFiniteSet(Questions(t)) /\ IsFiniteSet(SeenTo(t, k)) /\ IsFiniteSet(MarksTo(t, k, m))
  BY <1>2, <1>3, FS_Subset
<1> QED
  BY <1>4, FS_CardinalityType

\* One placeholder more.
LEMMA SeenOneMore ==
  ASSUME NEW t \in Seq(Bytes), NEW k \in 1..Len(t)
  PROVE  /\ t[k] # "?" => SeenTo(t, k + 1) = SeenTo(t, k)
         /\ t[k] = "?" => /\ SeenTo(t, k + 1) = SeenTo(t, k) \cup {k}
                          /\ Cardinality(SeenTo(t, k + 1)) = Cardinality(SeenTo(t, k)) + 1
                          /\ Cardinality(SeenTo(t, k + 1)) = Cardinality({j \in Questions(t) : j <= k})
<1>1. DOMAIN t = 1..Len(t) /\ Questions(t) \subseteq Int
  BY DEF Questions
<1>2. \A c \in Questions(t) : c < k + 1 <=> c < k \/ c = k
  BY <1>1
<1>3. t[k] # "?" => SeenTo(t, k + 1) = SeenTo(t, k)
  BY <1>2 DEF SeenTo, Questions
<1>4. ASSUME t[k] = "?"
      PROVE  /\ SeenTo(t, k + 1) = SeenTo(t, k) \cup {k}
             /\ Cardinality(SeenTo(t, k + 1)) = Cardinality(SeenTo(t, k)) + 1
             /\ Cardinality(SeenTo(t, k + 1)) = Cardinality({j \in Questions(t) : j <= k})
  <2>1. k \in Questions(t)
    BY <1>1, <1>4 DEF Questions
  <2>2. SeenTo(t, k + 1) = SeenTo(t, k) \cup {k}
    BY <1>2, <2>1 DEF SeenTo
  <2>4. k \notin SeenTo(t, k)
    BY DEF SeenTo
  <2>3. SeenTo(t, k + 1) = {j \in Questions(t) : j <= k}
    BY <1>1 DEF SeenTo
  <2> QED
    BY <2>2, <2>3, <2>4, SeenFinite, FS_AddElement
<1> QED
  BY <1>3, <1>4

\* One marker more.
LEMMA MarksOneMore ==
  ASSUME NEW t \in Seq(Bytes), NEW k \in 1..Len(t), NEW m
  PROVE  /\ t[k] # m \/ k \in Literal(t) => MarksTo(t, k + 1, m) = MarksTo(t, k, m)
         /\ t[k] = m /\ k \notin Literal(t) =>
              /\ MarksTo(t, k + 1, m) = MarksTo(t, k, m) \cup {k}
              /\ Cardinality(MarksTo(t, k + 1, m)) = Cardinality(MarksTo(t, k, m)) + 1
<1>1. DOMAIN t = 1..Len(t) /\ \A c \in DOMAIN t : c < k + 1 <=> c < k \/ c = k
  OBVIOUS
<1>2. t[k] # m \/ k \in Literal(t) => MarksTo(t, k + 1, m) = MarksTo(t, k, m)
  BY <1>1 DEF MarksTo
<1>3. ASSUME t[k] = m, k \notin Literal(t)
      PROVE  /\ MarksTo(t, k + 1, m) = MarksTo(t, k, m) \cup {k}
             /\ Cardinality(MarksTo(t, k + 1, m)) = Cardinality(MarksTo(t, k, m)) + 1
  <2>1. MarksTo(t, k + 1, m) = MarksTo(t, k, m) \cup {k} /\ k \notin MarksTo(t, k, m)
    BY <1>1, <1>3 DEF MarksTo
  <2> QED
    BY <2>1, SeenFinite, FS_AddElement
<1> QED
  BY <1>2, <1>3

\* Nothing is seen where there is nothing to see.
LEMMA NothingSeen ==
  ASSUME NEW t \in Seq(Bytes), NEW k \in Nat, NEW l \in Nat, k <= l, NEW m,
         \A c \in DOMAIN t : k <= c /\ c < l => t[c] # "?"
  PROVE  /\ SeenTo(t, l) = SeenTo(t, k)
         /\ (\A c \in DOMAIN t : k <= c /\ c < l => t[c] # m \/ c \in Literal(t))
              => MarksTo(t, l, m) = MarksTo(t, k, m)
<1>1. DOMAIN t = 1..Len(t) /\ \A c \in DOMAIN t : c < l <=> c < k \/ (k <= c /\ c < l)
  OBVIOUS
<1> QED
  BY <1>1 DEF SeenTo, MarksTo, Questions

\* At the end of a text all of it is seen ...
LEMMA SeenAll ==
  ASSUME NEW t \in Seq(Bytes), NEW m
  PROVE  /\ SeenTo(t, Len(t) + 1) = Questions(t)
         /\ MarksTo(t, Len(t) + 1, m) = {c \in DOMAIN t \ Literal(t) : t[c] = m}
         /\ CleanTo(t, Len(t) + 1) <=> Clean(t)
<1>1. DOMAIN t = 1..Len(t) /\ \A c \in DOMAIN t : c < Len(t) + 1
  OBVIOUS
<1>2. Questions(t) \subseteq DOMAIN t
  BY DEF Questions
<1> QED
  BY <1>1, <1>2 DEF SeenTo, MarksTo, CleanTo, Clean

\* ... and at its start nothing is.
LEMMA SeenNone ==
  ASSUME NEW t \in Seq(Bytes), NEW m
  PROVE  /\ SeenTo(t, 1) = {} /\ MarksTo(t, 1, m) = {} /\ CleanTo(t, 1)
         /\ Cardinality({}) = 0
<1>1. DOMAIN t = 1..Len(t) /\ \A c \in DOMAIN t : ~(c < 1)
  OBVIOUS
<1>2. Questions(t) \subseteq DOMAIN t
  BY DEF Questions
<1> QED
  BY <1>1, <1>2, FS_EmptySet DEF SeenTo, MarksTo, CleanTo

\* A set with one element.
LEMMA OneElement ==
  ASSUME NEW S, IsFiniteSet(S), Cardinality(S) = 1
  PROVE  \E x : S = {x}
  BY FS_Singleton

-----------------------------------------------------------------------------
(* Refusals.                                                               *)

\* The words of the walk and of the reading for a placeholder that is none.
LEMMA OperatorRead ==
  ASSUME text \in Seq(Bytes), i \in 1..Len(text)
  PROVE  UnsupportedQuestionMark <=> Operator(text, i)
<1>1. DOMAIN text = 1..Len(text)
  OBVIOUS
<1>2. At(i - 1) \in {"@", "?"} <=> i > 1 /\ text[i - 1] \in {"@", "?"}
  BY <1>1 DEF At, None
<1>3. At(i + 1) \in {"?", "|"} <=> i < Len(text) /\ text[i + 1] \in {"?", "|"}
  BY <1>1 DEF At, None
<1>4. \A m \in (i + 1)..Len(text) : At(m) = text[m] /\ \A b \in (i + 1)..(m - 1) : At(b) = text[b]
  BY <1>1 DEF At
<1> QED
  BY <1>2, <1>3, <1>4 DEF UnsupportedQuestionMark, Operator

\* A text that is not clean does not fit, whichever walk it is in.
LEMMA UncleanUnfit ==
  ASSUME TypeInv, walk \in {"scan", "render"}, OfJob, ~Clean(text)
  PROVE  ~Fits
<1>1. part \in DOMAIN job.texts /\ job.kind \in {"predicate", "template"}
  BY DEF TypeInv, TypeOK, JobShape
<1>2. CASE job.kind = "template"
  BY <1>2 DEF Fits, TemplateFits, OfJob
<1>3. CASE job.kind = "predicate" /\ walk = "scan"
  BY <1>1, <1>3 DEF Fits, PredicateFits, OfJob
<1>4. CASE job.kind = "predicate" /\ walk = "render"
  BY <1>4 DEF Fits, OfJob
<1> QED
  BY <1>1, <1>2, <1>3, <1>4

\* Nothing that is said of a job changes while the job does not.
LEMMA FitsUnmoved == ASSUME job' = job PROVE Fits' <=> Fits
  BY DEF Fits

\* Nor does what is expected of it.
LEMMA ExpectedUnmoved == ASSUME job' = job PROVE Expected' = Expected
  BY DEF Expected

\* A text that does not fit may be refused.
LEMMA RefusalRight ==
  ASSUME ReadInv, Refuse, ~Fits, TypeInv'
  PROVE  ReadInv'
<1>1. walk' = "refused" /\ job' = job
  BY DEF Refuse
<1> QED
  BY <1>1, FitsUnmoved DEF ReadInv, RenderedAsRead

\* A placeholder in a literal.
LEMMA LiteralRefused ==
  ASSUME ReadInv, walk \in {"scan", "render"}, Refuse, TypeInv',
         NEW c \in DOMAIN text, text[c] = "?", c \in Literal(text)
  PROVE  ReadInv'
<1>1. ~Clean(text)
  BY DEF Clean, Questions
<1> QED
  BY <1>1, UncleanUnfit, RefusalRight DEF ReadInv, WalkInv

-----------------------------------------------------------------------------
(* The walk moves on.                                                      *)

\* A byte that the walk of this job passes by, in a literal or out of it.
Passed(k) ==
  /\ text[k] # "?"
  /\ text[k] \in Markers => job.kind = "predicate" \/ k \in Literal(text)

\* What a byte that is passed by is expected to be rendered as.
LEMMA PassedAsWritten ==
  ASSUME ReadInv, walk = "render", NEW k \in DOMAIN text, Passed(k)
  PROVE  Expected[k] = <<"source", k>>
<1>1. text = Conjunction(job.texts)
  BY DEF ReadInv, WalkInv, OfJob
<1>2. Target \in Markers /\ Scope \in Markers
  BY DEF Markers
<1> QED
  BY <1>1, <1>2 DEF Expected, Passed

\* A cursor that passes by bytes that mean nothing, and is where it takes itself to
\* be, keeps the invariant.
LEMMA PassKeeps ==
  ASSUME ReadInv, Walking, NEW to \in (i + 1)..(Len(text) + 1), NEW within, NEW nesting,
         Pass(to, within, nesting), TypeInv', Where(text, to, within, nesting),
         \A k \in i..(to - 1) : Passed(k)
  PROVE  ReadInv'
<1>1. /\ walk \in {"scan", "render"} /\ WalkInv /\ TypeInv
      /\ text \in Seq(Bytes) /\ i \in 1..Len(text) /\ Len(text) \in Nat
      /\ DOMAIN text = 1..Len(text) /\ start \in 1..(Len(text) + 1) /\ start <= i
  <2>1. text \in Seq(Bytes) /\ i \in 1..(Len(text) + 1) /\ start \in 1..(Len(text) + 1) /\ start <= i
    BY DEF ReadInv, TypeInv, TypeOK
  <2> QED
    BY <2>1 DEF ReadInv, Walking
<1>2. /\ i' = to /\ inside' = within /\ depth' = nesting
      /\ UNCHANGED <<job, part, walk, text, start, out, count, scan>>
  BY DEF Pass
<1>3. \A c \in DOMAIN text : i <= c /\ c < to => Passed(c) /\ c \in i..(to - 1)
  BY <1>1
<1>4. /\ to \in Nat /\ i \in Nat /\ i <= to
  BY <1>1
<1>5. SeenTo(text, to) = SeenTo(text, i)
  BY <1>1, <1>3, <1>4, NothingSeen DEF Passed
<1>6. job.kind = "template" =>
        /\ MarksTo(text, to, Target) = MarksTo(text, i, Target)
        /\ MarksTo(text, to, Scope) = MarksTo(text, i, Scope)
  <2> SUFFICES ASSUME job.kind = "template", NEW m \in {Target, Scope}
               PROVE  MarksTo(text, to, m) = MarksTo(text, i, m)
    OBVIOUS
  <2>1. m \in Markers
    BY DEF Markers
  <2>2. \A c \in DOMAIN text : i <= c /\ c < to => text[c] # "?" /\ (text[c] # m \/ c \in Literal(text))
    BY <1>3, <2>1 DEF Passed
  <2> QED
    BY <1>1, <1>4, <2>2, NothingSeen
<1>7. OfJob'
  BY <1>1, <1>2 DEF WalkInv, OfJob
<1>8. Position'
  <2>1. CleanTo(text, to)
    <3> SUFFICES ASSUME NEW c \in Questions(text), c < to
                 PROVE  c \notin Literal(text) /\ ~Operator(text, c)
      BY DEF CleanTo
    <3>1. c \in DOMAIN text /\ text[c] = "?"
      BY DEF Questions
    <3>2. c < i
      BY <1>1, <1>3, <3>1 DEF Passed
    <3> QED
      BY <1>1, <3>2 DEF WalkInv, Position, CleanTo
  <2> QED
    BY <1>2, <2>1 DEF Position
<1>9. SlotsCounted'
  BY <1>1, <1>2, <1>5 DEF WalkInv, SlotsCounted
<1>10. MarkersScanned'
  <2> SUFFICES ASSUME walk = "scan", job.kind = "template"
               PROVE  MarkersScanned'
    BY <1>2 DEF MarkersScanned
  <2>1. MarkersScanned
    BY <1>1 DEF WalkInv
  <2>2. ASSUME NEW c \in DOMAIN text \ Literal(text), c < to, text[c] \in Markers
        PROVE  text[c] \in {Target, Scope}
    <3>1. c < i
      BY <1>1, <1>3, <2>2 DEF Passed
    <3> QED
      BY <2>1, <2>2, <3>1 DEF MarkersScanned
  <2> QED
    BY <1>2, <1>5, <1>6, <2>1, <2>2 DEF MarkersScanned
<1>11. ScopeKnown'
  BY <1>1, <1>2 DEF WalkInv, ScopeKnown
<1>12. RenderedSoFar'
  <2> SUFFICES ASSUME walk = "render"
               PROVE  \A k \in start..(to - 1) : Expected[k] = <<"source", k>>
    BY <1>1, <1>2, ExpectedUnmoved DEF WalkInv, RenderedSoFar
  <2> TAKE k \in start..(to - 1)
  <2>1. CASE k < i
    <3>1. k \in start..(i - 1)
      BY <1>1, <2>1
    <3> QED
      BY <1>1, <3>1 DEF WalkInv, RenderedSoFar
  <2>2. CASE k >= i
    <3>1. k \in DOMAIN text /\ Passed(k)
      BY <1>1, <2>2
    <3> QED
      BY <3>1, PassedAsWritten
  <2> QED
    BY <1>1, <2>1, <2>2
<1>13. RenderedAsRead'
  BY <1>1, <1>2 DEF RenderedAsRead
<1> QED
  BY <1>7, <1>8, <1>9, <1>10, <1>11, <1>12, <1>13 DEF ReadInv, WalkInv

\* What the invariant says of the byte under the cursor.
LEMMA UnderCursor ==
  ASSUME ReadInv, Walking
  PROVE  /\ text \in Seq(Bytes) /\ i \in 1..Len(text) /\ Len(text) \in Nat /\ DOMAIN text = 1..Len(text)
         /\ walk \in {"scan", "render"} /\ WalkInv /\ TypeInv
         /\ At(i) = text[i] /\ (i < Len(text) => At(i + 1) = text[i + 1])
         /\ (i = Len(text) => At(i + 1) = None)
         /\ (i < Len(text) => i + 1 \in DOMAIN text) /\ (i < Len(text) \/ i = Len(text))
         /\ Where(text, i, inside, depth)
         /\ inside = None => Outside(text, i)
         /\ inside # None => \E a \in Beginnings(text) : Within(text, a, i, inside, depth)
         /\ inside # None => i \in Literal(text)
<1>1. text \in Seq(Bytes) /\ i \in 1..(Len(text) + 1)
  BY DEF ReadInv, TypeInv, TypeOK
<1>2. i \in 1..Len(text) /\ Len(text) \in Nat /\ DOMAIN text = 1..Len(text)
  BY <1>1 DEF Walking
<1>3. walk \in {"scan", "render"} /\ WalkInv /\ TypeInv
  BY DEF ReadInv, Walking
<1>4. Where(text, i, inside, depth)
  BY <1>3 DEF WalkInv, Position
<1>5. At(i) = text[i] /\ (i < Len(text) => At(i + 1) = text[i + 1])
      /\ (i = Len(text) => At(i + 1) = None)
  <2>1. i \in DOMAIN text /\ (i < Len(text) => i + 1 \in DOMAIN text)
    BY <1>2
  <2>2. i = Len(text) => i + 1 \notin DOMAIN text
    BY <1>2
  <2> QED
    BY <2>1, <2>2, Zenon DEF At
<1>8. (i < Len(text) => i + 1 \in DOMAIN text) /\ (i < Len(text) \/ i = Len(text))
  <2>1. \A n \in Nat : \A k \in 1..n : (k < n => k + 1 \in 1..n) /\ (k < n \/ k = n)
    OBVIOUS
  <2> QED
    BY <1>2, <2>1, Zenon
<1>6. inside # None => \E a \in Beginnings(text) : Within(text, a, i, inside, depth)
  BY <1>2, <1>4 DEF Where
<1>7. inside # None => i \in Literal(text)
  BY <1>1, <1>2, <1>6, WithinLiteral
<1> QED
  BY <1>1, <1>2, <1>3, <1>4, <1>5, <1>6, <1>7, <1>8 DEF Where

\* One byte is passed by.
LEMMA PassOne ==
  ASSUME ReadInv, Walking, NEW within, NEW nesting, Pass(i + 1, within, nesting), TypeInv',
         Where(text, i + 1, within, nesting), Passed(i)
  PROVE  ReadInv'
<1>1. i \in 1..Len(text) /\ Len(text) \in Nat
  BY UnderCursor
<1> DEFINE to == i + 1
<1>2. to \in (i + 1)..(Len(text) + 1)
  BY <1>1
<1>3. \A k \in i..(to - 1) : Passed(k)
  <2>1. \A k \in i..(to - 1) : k = i
    BY <1>1
  <2> QED
    BY <2>1
<1>4. Pass(to, within, nesting) /\ Where(text, to, within, nesting)
  OBVIOUS
<1> HIDE DEF to
<1> QED
  BY <1>2, <1>3, <1>4, PassKeeps

\* Two bytes are passed by.
LEMMA PassTwo ==
  ASSUME ReadInv, Walking, i < Len(text), NEW within, NEW nesting, Pass(i + 2, within, nesting),
         TypeInv', Where(text, i + 2, within, nesting), Passed(i), Passed(i + 1)
  PROVE  ReadInv'
<1>1. i \in 1..Len(text) /\ Len(text) \in Nat
  BY UnderCursor
<1> DEFINE to == i + 2
<1>2. to \in (i + 1)..(Len(text) + 1)
  BY <1>1
<1>3. \A k \in i..(to - 1) : Passed(k)
  <2>1. \A k \in i..(to - 1) : k = i \/ k = i + 1
    BY <1>1
  <2> QED
    BY <2>1
<1>4. Pass(to, within, nesting) /\ Where(text, to, within, nesting)
  OBVIOUS
<1> HIDE DEF to
<1> QED
  BY <1>2, <1>3, <1>4, PassKeeps

\* A pair under the cursor, in the words of the reading.
LEMMA PairRead ==
  ASSUME ReadInv, Walking, NEW a, NEW b, b # None
  PROVE  Pair(i, a, b) <=> Begins(text, i, <<a, b>>)
  BY UnderCursor DEF Pair, Begins

\* Every step in a quoted literal keeps the invariant: an escaped byte, a doubled
\* quote, the quote that closes it, and any other byte.
LEMMA ReadQuoted == ReadInv /\ WalkQuoted /\ TypeInv' => ReadInv'
<1> SUFFICES ASSUME ReadInv, WalkQuoted, TypeInv' PROVE ReadInv'
  OBVIOUS
<1>1. Walking /\ inside \in Quotes /\ inside # None
  BY DEF WalkQuoted, Quotes, None
<1>2. /\ text \in Seq(Bytes) /\ i \in 1..Len(text) /\ DOMAIN text = 1..Len(text)
      /\ walk \in {"scan", "render"} /\ At(i) = text[i] /\ i \in Literal(text)
      /\ Len(text) \in Nat
      /\ i < Len(text) => At(i + 1) = text[i + 1]
      /\ i = Len(text) => At(i + 1) = None
  BY <1>1, UnderCursor
<1>n. (i < Len(text) => i + 1 \in DOMAIN text) /\ (i < Len(text) \/ i = Len(text))
  BY <1>1, UnderCursor
<1>3. PICK a \in Beginnings(text) : Within(text, a, i, inside, depth)
  BY <1>1, UnderCursor
<1>4. CASE text[i] = "?"
  <2>1. Refuse
    BY <1>1, <1>2, <1>4 DEF WalkQuoted, Quotes
  <2> QED
    BY <1>2, <1>4, <2>1, LiteralRefused
<1>5. CASE inside = "single" /\ text[i] = "backslash" /\ i < Len(text)
  <2>1. Where(text, i + 2, "single", depth) /\ i + 1 \in Literal(text)
    BY <1>2, <1>3, <1>5, EscapedByte
  <2>2. i + 1 \in DOMAIN text /\ At(i + 1) = text[i + 1]
    BY <1>2, <1>5, <1>n, Zenon
  <2>3. IF At(i + 1) = "?" THEN Refuse ELSE Skip(2)
    BY <1>1, <1>2, <1>5 DEF WalkQuoted
  <2>4. CASE text[i + 1] = "?"
    BY <1>2, <2>1, <2>2, <2>3, <2>4, LiteralRefused
  <2>5. CASE text[i + 1] # "?"
    <3>1. Pass(i + 2, inside, depth)
      BY <2>2, <2>3, <2>5 DEF Skip
    <3>2. Passed(i) /\ Passed(i + 1)
      BY <1>2, <1>5, <2>1, <2>5 DEF Passed
    <3>3. Where(text, i + 2, inside, depth)
      BY <1>5, <2>1
    <3> QED
      BY <1>1, <1>5, <3>1, <3>2, <3>3, PassTwo
  <2> QED
    BY <2>4, <2>5
<1>6. CASE text[i] = inside
  <2>1. /\ Where(text, i + 1, None, 0)
        /\ i < Len(text) /\ text[i + 1] = inside => Where(text, i + 2, inside, depth) /\ i + 1 \in Literal(text)
    BY <1>1, <1>2, <1>3, <1>6, QuoteCloses
  <2>2. text[i] # "?" /\ Passed(i)
    BY <1>1, <1>2, <1>6 DEF Quotes, Passed
  <2>3. IF At(i + 1) = inside THEN Skip(2) ELSE Pass(i + 1, None, 0)
    BY <1>1, <1>2, <1>6, <2>2 DEF WalkQuoted, Quotes
  <2>4. CASE At(i + 1) = inside
    <3>1. i < Len(text) /\ text[i + 1] = inside
      BY <1>1, <1>2, <1>n, <2>4, Zenon
    <3>2. Pass(i + 2, inside, depth)
      BY <2>3, <2>4 DEF Skip
    <3>3. Passed(i + 1) /\ Where(text, i + 2, inside, depth)
      BY <1>1, <2>1, <3>1 DEF Passed, Quotes
    <3> QED
      BY <1>1, <2>2, <3>1, <3>2, <3>3, PassTwo
  <2>5. CASE At(i + 1) # inside
    <3>1. Pass(i + 1, None, 0) /\ Where(text, i + 1, None, 0)
      BY <2>1, <2>3, <2>5
    <3> QED
      BY <1>1, <2>2, <3>1, PassOne
  <2> QED
    BY <2>4, <2>5
<1>7. CASE /\ text[i] # "?" /\ text[i] # inside
           /\ ~(inside = "single" /\ text[i] = "backslash" /\ i < Len(text))
  <2>1. Where(text, i + 1, inside, depth)
    <3>1. text[i] = "backslash" /\ inside = "single" => i = Len(text)
      BY <1>n, <1>7, Zenon
    <3> QED
      BY <1>1, <1>2, <1>3, <1>7, <3>1, QuotedByte
  <2>2. Pass(i + 1, inside, depth)
    BY <1>1, <1>2, <1>7 DEF WalkQuoted, Skip
  <2>3. Passed(i)
    BY <1>2, <1>7 DEF Passed
  <2> QED
    BY <1>1, <2>1, <2>2, <2>3, PassOne
<1> QED
  BY <1>4, <1>5, <1>6, <1>7

\* Every step in a comment up to the end of the line keeps the invariant.
LEMMA ReadLineComment == ReadInv /\ WalkLineComment /\ TypeInv' => ReadInv'
<1> SUFFICES ASSUME ReadInv, WalkLineComment, TypeInv' PROVE ReadInv'
  OBVIOUS
<1>1. Walking /\ inside = "line" /\ inside # None
  BY DEF WalkLineComment, None
<1>2. /\ text \in Seq(Bytes) /\ i \in 1..Len(text) /\ DOMAIN text = 1..Len(text)
      /\ walk \in {"scan", "render"} /\ At(i) = text[i] /\ i \in Literal(text)
  BY <1>1, UnderCursor
<1>3. PICK a \in Beginnings(text) : Within(text, a, i, "line", depth)
  BY <1>1, UnderCursor
<1>4. CASE text[i] = "?"
  <2>1. Refuse
    BY <1>1, <1>2, <1>4 DEF WalkLineComment, Newline
  <2> QED
    BY <1>2, <1>4, <2>1, LiteralRefused
<1>5. CASE text[i] # "?"
  <2>1. Where(text, i + 1, IF text[i] = Newline THEN None ELSE "line", depth)
    BY <1>2, <1>3, LineByte
  <2>2. Passed(i)
    BY <1>2, <1>5 DEF Passed
  <2>4. CASE text[i] = Newline
    <3>1. Pass(i + 1, None, 0)
      BY <1>1, <1>2, <1>5, <2>4 DEF WalkLineComment
    <3>2. Where(text, i + 1, None, 0)
      BY <2>1, <2>4 DEF Where
    <3> QED
      BY <1>1, <2>2, <3>1, <3>2, PassOne
  <2>5. CASE text[i] # Newline
    <3>1. Pass(i + 1, "line", depth)
      BY <1>1, <1>2, <1>5, <2>5 DEF WalkLineComment, Skip
    <3>2. Where(text, i + 1, "line", depth)
      BY <2>1, <2>5
    <3> QED
      BY <1>1, <2>2, <3>1, <3>2, PassOne
  <2> QED
    BY <2>4, <2>5
<1> QED
  BY <1>4, <1>5

\* Every step in a block comment keeps the invariant, however deep it is nested.
LEMMA ReadBlockComment == ReadInv /\ WalkBlockComment /\ TypeInv' => ReadInv'
<1> SUFFICES ASSUME ReadInv, WalkBlockComment, TypeInv' PROVE ReadInv'
  OBVIOUS
<1>1. Walking /\ inside = "block" /\ inside # None
  BY DEF WalkBlockComment, None
<1>2. /\ text \in Seq(Bytes) /\ i \in 1..Len(text) /\ DOMAIN text = 1..Len(text)
      /\ walk \in {"scan", "render"} /\ At(i) = text[i] /\ i \in Literal(text)
  BY <1>1, UnderCursor
<1>3. PICK a \in Beginnings(text) : Within(text, a, i, "block", depth)
  BY <1>1, UnderCursor
<1>4. depth \in Nat \ {0}
  BY <1>1 DEF ReadInv, TypeInv, TypeOK
<1>5. /\ Pair(i, "/", "*") <=> Begins(text, i, <<"/", "*">>)
      /\ Pair(i, "*", "/") <=> Begins(text, i, <<"*", "/">>)
  BY <1>1, PairRead DEF None
<1>6. CASE text[i] = "?"
  <2>1. Refuse
    BY <1>1, <1>2, <1>6 DEF WalkBlockComment, Pair
  <2> QED
    BY <1>2, <1>6, <2>1, LiteralRefused
<1>p. ASSUME Begins(text, i, <<"/", "*">>) \/ Begins(text, i, <<"*", "/">>)
      PROVE  i < Len(text) /\ Passed(i) /\ Passed(i + 1) /\ text[i] # "?"
  <2>1. i < Len(text) /\ text[i] \in {"/", "*"} /\ text[i + 1] \in {"/", "*"}
    BY <1>p DEF Begins
  <2>2. "/" \notin Markers /\ "*" \notin Markers
    BY DEF Markers, Target, Scope
  <2> QED
    BY <2>1, <2>2, Zenon DEF Passed
<1>7. CASE Begins(text, i, <<"/", "*">>)
  <2>1. Where(text, i + 2, "block", depth + 1)
    BY <1>2, <1>3, <1>4, <1>7, BlockByte
  <2>2. Pass(i + 2, "block", depth + 1)
    BY <1>1, <1>2, <1>5, <1>7, <1>p DEF WalkBlockComment, Begins
  <2> QED
    BY <1>1, <1>7, <1>p, <2>1, <2>2, PassTwo
<1>8. CASE Begins(text, i, <<"*", "/">>)
  <2> DEFINE q == IF depth = 1 THEN None ELSE inside
  <2>1. Where(text, i + 2, q, depth - 1)
    BY <1>1, <1>2, <1>3, <1>4, <1>8, BlockByte
  <2>2. Pass(i + 2, q, depth - 1)
    BY <1>1, <1>2, <1>5, <1>8, <1>p DEF WalkBlockComment, Begins
  <2> HIDE DEF q
  <2> QED
    BY <1>1, <1>8, <1>p, <2>1, <2>2, PassTwo
<1>9. CASE /\ text[i] # "?"
           /\ ~Begins(text, i, <<"/", "*">>) /\ ~Begins(text, i, <<"*", "/">>)
  <2>1. Where(text, i + 1, "block", depth)
    BY <1>2, <1>3, <1>4, <1>9, BlockByte
  <2>2. Pass(i + 1, "block", depth)
    BY <1>1, <1>2, <1>5, <1>9 DEF WalkBlockComment, Skip
  <2>3. Passed(i)
    BY <1>2, <1>9 DEF Passed
  <2> QED
    BY <1>1, <2>1, <2>2, <2>3, PassOne
<1> QED
  BY <1>6, <1>7, <1>8, <1>9

\* The delimiter of a dollar quote, in the words of the reading.
LEMMA DelimitersRead ==
  ASSUME text \in Seq(Bytes), i \in 1..Len(text)
  PROVE  DollarQuoteDelimiterEnd = Delimiters(text, i)
<1>1. DOMAIN text = 1..Len(text)
  OBVIOUS
<1>2. At(i) = text[i] /\ \A k \in i..Len(text) : At(k) = text[k]
  BY <1>1 DEF At
<1>3. At(i - 1) \notin TagPart \cup {"$"} <=> (i > 1 => text[i - 1] \notin {Letter, Digit, "$"})
  <2>1. CASE i > 1
    <3>1. i - 1 \in DOMAIN text
      BY <1>1, <2>1
    <3> QED
      BY <2>1, <3>1 DEF At, TagPart
  <2>2. CASE ~(i > 1)
    <3>1. i - 1 \notin DOMAIN text
      BY <1>1, <2>2
    <3> QED
      BY <2>2, <3>1 DEF At, TagPart, None, Letter, Digit
  <2> QED
    BY <2>1, <2>2
<1>4. ASSUME NEW e \in (i + 1)..Len(text)
      PROVE  /\ At(i) = "$" /\ At(e) = "$"
             /\ At(i - 1) \notin TagPart \cup {"$"}
             /\ \A k \in (i + 1)..(e - 1) : At(k) \in TagPart
             /\ At(i + 1) \in TagStart \cup {"$"}
             <=> Delimiter(text, i, e)
  <2>1. At(e) = text[e] /\ At(i + 1) = text[i + 1] /\ \A k \in (i + 1)..(e - 1) : At(k) = text[k]
    BY <1>2
  <2>2. e = i + 1 \/ i + 1 \in (i + 1)..(e - 1)
    OBVIOUS
  <2>3. (\A k \in (i + 1)..(e - 1) : At(k) \in TagPart)
          <=> \A k \in (i + 1)..(e - 1) : text[k] \in {Letter, Digit}
    BY <2>1 DEF TagPart
  <2>4. ASSUME text[e] = "$", \A k \in (i + 1)..(e - 1) : text[k] \in {Letter, Digit}
        PROVE  At(i + 1) \in TagStart \cup {"$"} <=> text[i + 1] # Digit
    <3>1. text[i + 1] \in {Letter, Digit, "$"}
      BY <2>2, <2>4
    <3> QED
      BY <2>1, <3>1 DEF TagStart, Letter, Digit
  <2> QED
    BY <1>2, <1>3, <2>1, <2>3, <2>4, Zenon DEF Delimiter
<1> QED
  BY <1>4 DEF DollarQuoteDelimiterEnd, Delimiters

\* A dollar-quoted literal is passed by in one step that keeps the invariant.
LEMMA ReadDollarQuote == ReadInv /\ WalkDollarQuote /\ TypeInv' => ReadInv'
<1> SUFFICES ASSUME ReadInv, WalkDollarQuote, TypeInv' PROVE ReadInv'
  OBVIOUS
<1>1. Walking /\ inside = None
  BY DEF WalkDollarQuote, Executable
<1>2. /\ text \in Seq(Bytes) /\ i \in 1..Len(text) /\ DOMAIN text = 1..Len(text)
      /\ walk \in {"scan", "render"} /\ Outside(text, i) /\ Len(text) \in Nat
  BY <1>1, UnderCursor
<1>3. PICK e \in Delimiters(text, i) :
        LET closes == {k \in (e + 1)..(Len(text) - (e - i)) :
                         SubSeq(text, k, k + e - i) = SubSeq(text, i, e)}
            bodyEnd == IF closes = {} THEN Len(text) ELSE Min(closes) - 1
        IN IF \E k \in (e + 1)..bodyEnd : At(k) = "?" THEN Refuse
           ELSE Pass(IF closes = {} THEN Len(text) + 1 ELSE Min(closes) + (e - i) + 1, None, 0)
  BY <1>2, DelimitersRead DEF WalkDollarQuote
<1> DEFINE closes == DollarCloses(text, i, e)
           bodyEnd == IF closes = {} THEN Len(text) ELSE Min(closes) - 1
           to == IF closes = {} THEN Len(text) + 1 ELSE Min(closes) + (e - i) + 1
           end == DollarEnd(text, i, e)
<1>4. IF \E k \in (e + 1)..bodyEnd : At(k) = "?" THEN Refuse ELSE Pass(to, None, 0)
  BY <1>3 DEF DollarCloses
<1>5. e \in (i + 1)..Len(text)
  BY DEF Delimiters
<1>6. i \in Beginnings(text) /\ EndOf(text, i) = end /\ end \in i..Len(text)
  BY <1>2, DollarQuoted, EndRule
<1>7. to = end + 1 /\ bodyEnd <= end /\ bodyEnd \in Int
  <2>1. CASE closes = {}
    BY <1>2, <2>1 DEF DollarEnd
  <2>2. CASE closes # {}
    <3>1. closes \in SUBSET Nat
      BY <1>2, <1>5 DEF DollarCloses
    <3>2. Min(closes) \in Nat
      <4> HIDE DEF closes
      <4> QED
        BY <2>2, <3>1, MinRule
    <3>3. to = Min(closes) + (e - i) + 1 /\ bodyEnd = Min(closes) - 1 /\ end = Min(closes) + (e - i)
      BY <2>2 DEF DollarEnd
    <3> HIDE DEF closes, to, bodyEnd, end
    <3> QED
      BY <1>2, <1>5, <3>2, <3>3
  <2> QED
    BY <2>1, <2>2
<1>8. \A k \in i..end : k \in DOMAIN text /\ k \in Literal(text) /\ At(k) = text[k]
  <2>1. \A k \in i..end : k \in DOMAIN text
    BY <1>2, <1>6
  <2> QED
    BY <1>6, <2>1, InLiteral DEF At
<1>9. \A k \in i..end : text[k] = "?" => k \in (e + 1)..bodyEnd
  BY <1>2, DollarBody
<1> HIDE DEF bodyEnd, to, closes, end
<1>10. CASE \E k \in (e + 1)..bodyEnd : At(k) = "?"
  <2>1. PICK k \in (e + 1)..bodyEnd : At(k) = "?"
    BY <1>10
  <2>2. k \in i..end
    BY <1>2, <1>5, <1>6, <1>7
  <2>3. Refuse
    BY <1>4, <1>10
  <2> QED
    BY <1>2, <1>8, <2>1, <2>2, <2>3, LiteralRefused
<1>11. CASE ~\E k \in (e + 1)..bodyEnd : At(k) = "?"
  <2>1. Pass(to, None, 0)
    BY <1>4, <1>11
  <2>2. \A k \in i..end : Passed(k)
    BY <1>8, <1>9, <1>11 DEF Passed
  <2>3. to \in (i + 1)..(Len(text) + 1) /\ \A k \in i..(to - 1) : k \in i..end
    BY <1>2, <1>6, <1>7
  <2>4. Where(text, to, None, 0)
    BY <1>6, <1>7, <1>2, OutsideAfter DEF Where
  <2>5. \A k \in i..(to - 1) : Passed(k)
    BY <2>2, <2>3, Zenon
  <2> QED
    BY <1>1, <2>1, <2>3, <2>4, <2>5, PassKeeps
<1> QED
  BY <1>10, <1>11

\* What opens a literal or a comment is no placeholder and no marker.
LEMMA OpeningPassed ==
  ASSUME NEW k, text[k] \in Quotes \cup {"#", "-", "/", "*"}
  PROVE  Passed(k)
<1>1. text[k] # "?" /\ text[k] \notin Markers
  BY DEF Quotes, Markers, Target, Scope
<1> QED
  BY <1>1 DEF Passed

\* Opening a quoted literal or a comment keeps the invariant.
LEMMA ReadOpening ==
  ReadInv /\ (OpenQuote \/ OpenLineComment \/ OpenBlockComment) /\ TypeInv' => ReadInv'
<1> SUFFICES ASSUME ReadInv, OpenQuote \/ OpenLineComment \/ OpenBlockComment, TypeInv'
             PROVE  ReadInv'
  OBVIOUS
<1>1. Walking /\ inside = None
  BY DEF OpenQuote, OpenLineComment, OpenBlockComment, Executable
<1>2. /\ text \in Seq(Bytes) /\ i \in 1..Len(text) /\ Outside(text, i)
      /\ At(i) = text[i]
  BY <1>1, UnderCursor
<1>3. /\ Pair(i, "-", "-") <=> Begins(text, i, <<"-", "-">>)
      /\ Pair(i, "/", "*") <=> Begins(text, i, <<"/", "*">>)
  BY <1>1, PairRead DEF None
<1>4. CASE text[i] \in Quotes /\ Pass(i + 1, text[i], 0)
  <2>1. Where(text, i + 1, text[i], 0) /\ Passed(i)
    BY <1>2, <1>4, Opening, OpeningPassed
  <2> QED
    BY <1>1, <1>4, <2>1, PassOne
<1>5. CASE text[i] = "#" /\ Pass(i + 1, "line", 0)
  <2>1. Where(text, i + 1, "line", 0) /\ Passed(i)
    BY <1>2, <1>5, Opening, OpeningPassed
  <2> QED
    BY <1>1, <1>5, <2>1, PassOne
<1>6. CASE Begins(text, i, <<"-", "-">>) /\ Pass(i + 2, "line", 0)
  <2>1. Where(text, i + 2, "line", 0) /\ i < Len(text) /\ Passed(i) /\ Passed(i + 1)
    BY <1>2, <1>6, Opening, OpeningPassed DEF Begins
  <2> QED
    BY <1>1, <1>6, <2>1, PassTwo
<1>7. CASE Begins(text, i, <<"/", "*">>) /\ Pass(i + 2, "block", 1)
  <2>1. Where(text, i + 2, "block", 1) /\ i < Len(text) /\ Passed(i) /\ Passed(i + 1)
    BY <1>2, <1>7, Opening, OpeningPassed DEF Begins
  <2> QED
    BY <1>1, <1>7, <2>1, PassTwo
<1> QED
  BY <1>2, <1>3, <1>4, <1>5, <1>6, <1>7 DEF OpenQuote, OpenLineComment, OpenBlockComment

\* A byte that opens nothing and for which no handler is called keeps the invariant.
LEMMA ReadOther == ReadInv /\ WalkOther /\ TypeInv' => ReadInv'
<1> SUFFICES ASSUME ReadInv, WalkOther, TypeInv' PROVE ReadInv'
  OBVIOUS
<1>1. /\ Walking /\ inside = None /\ DollarQuoteDelimiterEnd = {} /\ ~Marked
      /\ At(i) \notin Quotes \cup {"#", "?"} /\ ~Pair(i, "-", "-") /\ ~Pair(i, "/", "*")
      /\ Pass(i + 1, inside, depth)
  BY DEF WalkOther, Executable, Skip
<1>2. /\ text \in Seq(Bytes) /\ i \in 1..Len(text) /\ Outside(text, i) /\ At(i) = text[i]
      /\ TypeInv
  BY <1>1, UnderCursor
<1>3. /\ ~Begins(text, i, <<"-", "-">>)
      /\ ~Begins(text, i, <<"/", "*">>)
  BY <1>1, PairRead DEF None
<1>4. ~Opens(text, i)
  BY <1>1, <1>2, <1>3, DelimitersRead DEF Opens
<1>5. Where(text, i + 1, inside, depth)
  BY <1>1, <1>2, <1>4, StaysOutside DEF Where
<1>6. Passed(i)
  BY <1>1, <1>2 DEF Passed, Marked, TypeInv, JobShape
<1> QED
  BY <1>1, <1>5, <1>6, PassOne

-----------------------------------------------------------------------------
(* What a handler replaces.                                                *)

\* What a handler is called for opens nothing, so that it is in no literal.
LEMMA HandledOutside ==
  ASSUME ReadInv, Executable, text[i] \in Markers \cup {"?"}
  PROVE  i \notin Literal(text) /\ Outside(text, i + 1)
<1>1. Walking /\ inside = None
  BY DEF Executable
<1>2. text \in Seq(Bytes) /\ i \in 1..Len(text) /\ Outside(text, i)
  BY <1>1, UnderCursor
<1>3. text[i] \notin Quotes \cup {"#", "-", "/", "$"}
  BY DEF Markers, Quotes, Target, Scope
<1>4. ~Opens(text, i)
  BY <1>3 DEF Opens, Begins, Delimiters, Delimiter
<1> QED
  BY <1>2, <1>4, StaysOutside

\* What a replaced byte leaves of the invariant to the handler.
LEMMA ReplaceKeeps ==
  ASSUME ReadInv, Executable, text[i] \in Markers \cup {"?"},
         text[i] = "?" => ~Operator(text, i),
         NEW with, Replace(with), walk = "render" => with = Expected[i],
         TypeInv', SlotsCounted', MarkersScanned', ScopeKnown'
  PROVE  ReadInv'
<1>1. Walking /\ inside = None
  BY DEF Executable
<1>2. /\ text \in Seq(Bytes) /\ i \in 1..Len(text) /\ DOMAIN text = 1..Len(text)
      /\ walk \in {"scan", "render"} /\ WalkInv /\ TypeInv
  BY <1>1, UnderCursor
<1>3. /\ out' = IF walk = "render" THEN out \o Source(start, i - 1) \o <<with>> ELSE out
      /\ start' = i + 1 /\ i' = i + 1
      /\ UNCHANGED <<job, part, walk, text, inside, depth>>
  BY DEF Replace
<1>4. i \notin Literal(text) /\ Outside(text, i + 1)
  BY HandledOutside
<1>5. OfJob'
  BY <1>2, <1>3 DEF WalkInv, OfJob
<1>6. Position'
  <2>1. Where(text, i + 1, inside, depth)
    BY <1>1, <1>4 DEF Where
  <2>2. ASSUME NEW c \in Questions(text), c < i + 1
        PROVE  c \notin Literal(text) /\ ~Operator(text, c)
    <3>1. c \in DOMAIN text /\ text[c] = "?"
      BY DEF Questions
    <3>2. c < i \/ c = i
      BY <1>2, <2>2, <3>1
    <3> QED
      BY <1>2, <1>4, <3>1, <3>2 DEF WalkInv, Position, CleanTo
  <2>3. CleanTo(text, i + 1)
    BY <2>2 DEF CleanTo
  <2> QED
    BY <1>3, <2>1, <2>3 DEF Position
<1>7. RenderedSoFar'
  <2> SUFFICES ASSUME walk = "render"
               PROVE  /\ Len(out') = i
                      /\ \A k \in 1..i : out'[k] = Expected[k]
    <3>1. start' - 1 = i /\ \A k \in start'..(i' - 1) : FALSE
      BY <1>2, <1>3
    <3>2. walk' = "render" => Len(out') = start' - 1
      BY <1>3, <3>1
    <3>3. walk' = "render" => \A k \in 1..(start' - 1) : out'[k] = Expected'[k]
      BY <1>3, <3>1, ExpectedUnmoved
    <3> QED
      BY <3>1, <3>2, <3>3 DEF RenderedSoFar
  <2>1. /\ start \in 1..(Len(text) + 1) /\ start <= i /\ out \in Seq(Marks) /\ start \in Nat \ {0}
    BY <1>2 DEF TypeInv, TypeOK, Marks
  <2>2. /\ Len(out) = start - 1
        /\ \A k \in 1..(start - 1) : out[k] = Expected[k]
        /\ \A k \in start..(i - 1) : Expected[k] = <<"source", k>>
    BY <1>2 DEF WalkInv, RenderedSoFar
  <2> DEFINE src == Source(start, i - 1)
             ex == Expected
  <2>3. /\ src \in Seq(Marks) /\ Len(src) = i - start
        /\ \A k \in 1..(i - start) : src[k] = <<"source", start + k - 1>>
    <3>1. i - 1 \in Nat /\ start <= (i - 1) + 1 /\ (i - 1) - start + 1 = i - start
      BY <1>2, <2>1
    <3> QED
      BY <2>1, <3>1, SourceTyped
  <2>4. out' = out \o src \o <<with>> /\ with = ex[i]
    BY <1>3
  <2> HIDE DEF src, ex
  <2> DEFINE all == out \o src
  <2>5. /\ all \in Seq(Marks) /\ Len(all) = i - 1
        /\ \A k \in 1..(i - 1) : all[k] = ex[k]
    <3>1. all \in Seq(Marks) /\ Len(all) = Len(out) + Len(src)
          /\ \A k \in 1..Len(all) : all[k] = IF k <= Len(out) THEN out[k] ELSE src[k - Len(out)]
      BY <2>1, <2>3, ConcatProperties
    <3> HIDE DEF all
    <3>2. Len(all) = i - 1
      BY <1>2, <2>1, <2>2, <2>3, <3>1
    <3>3. ASSUME NEW k \in 1..(i - 1) PROVE all[k] = ex[k]
      <4>1. CASE k < start
        <5>1. k \in 1..(start - 1) /\ k <= Len(out) /\ k \in 1..Len(all)
          BY <2>1, <2>2, <3>2, <4>1
        <5> QED
          BY <5>1, <2>2, <3>1 DEF ex
      <4>2. CASE ~(k < start)
        <5> DEFINE j == k - Len(out)
        <5>1. k \in start..(i - 1) /\ ~(k <= Len(out)) /\ k \in 1..Len(all)
              /\ j \in 1..(i - start) /\ start + j - 1 = k
          BY <1>2, <2>1, <2>2, <3>2, <4>2
        <5>2. all[k] = src[j]
          BY <5>1, <3>1
        <5>3. src[j] = <<"source", start + j - 1>>
          <6> HIDE DEF j
          <6> QED
            BY <5>1, <2>3
        <5> QED
          BY <5>1, <5>2, <5>3, <2>2 DEF ex
      <4> QED
        BY <4>1, <4>2
    <3> QED
      BY <3>1, <3>2, <3>3
  <2> HIDE DEF all
  <2>6. out' = Append(all, with)
    BY <2>4, <2>5 DEF all
  <2>7. Len(out') = i /\ out'[i] = with /\ \A k \in 1..(i - 1) : out'[k] = all[k]
    BY <1>2, <2>5, <2>6
  <2>8. \A k \in 1..i : k \in 1..(i - 1) \/ k = i
    BY <1>2
  <2> QED
    BY <2>4, <2>5, <2>7, <2>8, Zenon DEF ex
<1>8. RenderedAsRead'
  BY <1>2, <1>3 DEF RenderedAsRead
<1> QED
  BY <1>5, <1>6, <1>7, <1>8 DEF ReadInv, WalkInv

\* A template that fits is the text of its walks.
LEMMA TemplateRead ==
  ASSUME ReadInv, Walking, job.kind = "template"
  PROVE  /\ text = job.texts[1]
         /\ Fits => TemplateFits(text, job.values[1])
         /\ walk = "render" => TemplateFits(text, job.values[1]) /\ text = Conjunction(job.texts)
  BY DEF ReadInv, WalkInv, Walking, OfJob, Fits

\* In a template that fits nothing but one target and one scope is marked, and
\* its placeholders come after the scope.
LEMMA FittingMarks ==
  ASSUME NEW t, NEW v, TemplateFits(t, v)
  PROVE  \E s \in DOMAIN t \ Literal(t) :
           /\ t[s] = Scope
           /\ \A k \in DOMAIN t \ Literal(t) :
                /\ t[k] \in Markers => t[k] \in {Target, Scope}
                /\ t[k] = Scope => k = s
           /\ \A k \in Questions(t) : k > s
<1> DEFINE marks == {k \in DOMAIN t \ Literal(t) : t[k] \in Markers}
<1>1. PICK target \in marks, scope \in marks :
        /\ t[target] = Target /\ t[scope] = Scope
        /\ marks = {target, scope}
        /\ \A k \in Questions(t) : k > scope
  BY DEF TemplateFits
<1>2. Scope \in Markers /\ Target # Scope
  BY DEF Markers, Target, Scope
<1>3. \A k \in DOMAIN t \ Literal(t) : t[k] \in Markers => k = target \/ k = scope
  BY <1>1
<1>4. scope \in DOMAIN t \ Literal(t)
  OBVIOUS
<1> HIDE DEF marks
<1> QED
  BY <1>1, <1>2, <1>3, <1>4

\* Where a placeholder of a template stands, in the words of the reading.
LEMMA ExpectedHere ==
  ASSUME ReadInv, Executable, walk = "render", text[i] \in Markers \cup {"?"}
  PROVE  /\ text[i] = "?" =>
              Expected[i] = <<"placeholder", job.offset + Cardinality(SeenTo(text, i + 1))>>
         /\ text[i] = Target /\ job.kind = "template" => Expected[i] = <<"table", 0>>
         /\ text[i] = Scope /\ job.kind = "template" => Expected[i] = <<"scope", 0>>
<1>1. Walking
  BY DEF Executable
<1>2. /\ text \in Seq(Bytes) /\ i \in 1..Len(text) /\ DOMAIN text = 1..Len(text) /\ WalkInv
  BY <1>1, UnderCursor
<1>3. text = Conjunction(job.texts)
  BY <1>2 DEF WalkInv, OfJob
<1>4. i \notin Literal(text)
  BY HandledOutside
<1> DEFINE rank(k) == Cardinality({j \in Questions(text) : j <= k})
           executable(k) == job.kind = "template" /\ k \notin Literal(text)
<1>5. Expected[i] = CASE text[i] = "?"                         -> <<"placeholder", job.offset + rank(i)>>
                      [] executable(i) /\ text[i] = Target  -> <<"table", 0>>
                      [] executable(i) /\ text[i] = Scope   -> <<"scope", 0>>
                      [] OTHER                              -> <<"source", i>>
  BY <1>2, <1>3 DEF Expected
<1>6. text[i] = "?" => rank(i) = Cardinality(SeenTo(text, i + 1))
  BY <1>2, SeenOneMore
<1> HIDE DEF rank
<1> QED
  BY <1>4, <1>5, <1>6 DEF Target, Scope

\* A marker the walk takes for executable is counted, or is one too many kinds.
LEMMA ReadDoubleBrace == ReadInv /\ OnDoubleBrace /\ TypeInv' => ReadInv'
<1> SUFFICES ASSUME ReadInv, OnDoubleBrace, TypeInv' PROVE ReadInv'
  OBVIOUS
<1>1. Executable /\ Walking /\ job.kind = "template" /\ At(i) \in Markers
  BY DEF OnDoubleBrace, Executable, Marked
<1>2. /\ text \in Seq(Bytes) /\ i \in 1..Len(text) /\ DOMAIN text = 1..Len(text)
      /\ walk \in {"scan", "render"} /\ WalkInv /\ TypeInv /\ At(i) = text[i]
  BY <1>1, UnderCursor
<1>3. text[i] \in Markers /\ text[i] # "?"
  BY <1>1, <1>2 DEF Markers, Target, Scope
<1>4. i \notin Literal(text) /\ i \in DOMAIN text \ Literal(text)
  BY <1>1, <1>2, <1>3, HandledOutside
<1>5. Target # Scope
  BY DEF Target, Scope
<1>6. SeenTo(text, i + 1) = SeenTo(text, i)
  BY <1>2, <1>3, SeenOneMore
<1>7. ASSUME UNCHANGED <<job, walk, text, count>>, i' = i + 1 PROVE SlotsCounted'
  BY <1>2, <1>6, <1>7 DEF WalkInv, SlotsCounted
<1>8. \A c \in DOMAIN text \ Literal(text) : c < i + 1 => c < i \/ c = i
  BY <1>2
<1>9. scan \in [targetCount: Nat, scopeCount: Nat, scopeMarkerEnd: Nat, customSlotCount: Nat]
  BY <1>2 DEF TypeInv, TypeOK
<1>10. CASE text[i] = Target
  <2>1. /\ scan' = [scan EXCEPT !.targetCount = @ + 1]
        /\ Replace(<<"table", 0>>) /\ UNCHANGED count
    BY <1>2, <1>5, <1>10 DEF OnDoubleBrace
  <2>2. i' = i + 1 /\ UNCHANGED <<job, walk, text, count>>
    BY <2>1 DEF Replace
  <2>3. /\ scan'.targetCount = scan.targetCount + 1 /\ scan'.scopeCount = scan.scopeCount
        /\ scan'.scopeMarkerEnd = scan.scopeMarkerEnd
        /\ scan'.customSlotCount = scan.customSlotCount
    BY <2>1, <1>9
  <2>4. /\ Cardinality(MarksTo(text, i + 1, Target)) = Cardinality(MarksTo(text, i, Target)) + 1
        /\ MarksTo(text, i + 1, Scope) = MarksTo(text, i, Scope)
    BY <1>2, <1>4, <1>5, <1>10, MarksOneMore
  <2>5. MarkersScanned'
    <3> SUFFICES ASSUME walk = "scan" PROVE MarkersScanned'
      BY <2>2 DEF MarkersScanned
    <3>1. MarkersScanned
      BY <1>2 DEF WalkInv
    <3>2. \A c \in DOMAIN text \ Literal(text) :
            c < i + 1 /\ text[c] \in Markers => text[c] \in {Target, Scope}
      BY <1>1, <1>8, <1>10, <3>1 DEF MarkersScanned
    <3> QED
      BY <1>1, <1>6, <2>2, <2>3, <2>4, <3>1, <3>2 DEF MarkersScanned
  <2>6. ScopeKnown'
    BY <1>2, <2>2, <2>3 DEF WalkInv, ScopeKnown
  <2>7. walk = "render" => <<"table", 0>> = Expected[i]
    BY <1>1, <1>3, <1>10, ExpectedHere
  <2>8. SlotsCounted'
    BY <1>7, <2>2
  <2> QED
    BY <1>1, <1>3, <2>1, <2>5, <2>6, <2>7, <2>8, ReplaceKeeps
<1>11. CASE text[i] = Scope
  <2>1. /\ scan' = [scan EXCEPT !.scopeCount = @ + 1, !.scopeMarkerEnd = i + 1]
        /\ Replace(<<"scope", 0>>) /\ UNCHANGED count
    BY <1>2, <1>5, <1>11 DEF OnDoubleBrace
  <2>2. i' = i + 1 /\ UNCHANGED <<job, walk, text, count>>
    BY <2>1 DEF Replace
  <2>3. /\ scan'.targetCount = scan.targetCount /\ scan'.scopeCount = scan.scopeCount + 1
        /\ scan'.scopeMarkerEnd = i + 1
        /\ scan'.customSlotCount = scan.customSlotCount
    BY <2>1, <1>9
  <2>4. /\ Cardinality(MarksTo(text, i + 1, Scope)) = Cardinality(MarksTo(text, i, Scope)) + 1
        /\ MarksTo(text, i + 1, Scope) = MarksTo(text, i, Scope) \cup {i}
        /\ MarksTo(text, i + 1, Target) = MarksTo(text, i, Target)
    BY <1>2, <1>4, <1>5, <1>11, MarksOneMore
  <2>n. i + 1 # 0 /\ i + 1 - 1 = i /\ i < Len(text) + 1
    BY <1>2
  <2>e. scan'.scopeMarkerEnd # 0 /\ scan'.scopeMarkerEnd - 1 = i
    <3> DEFINE e == scan'.scopeMarkerEnd
    <3>1. e = i + 1 /\ i \in Int /\ i > 0
      BY <2>3, <1>2
    <3> HIDE DEF e
    <3>2. e # 0 /\ e - 1 = i
      BY <3>1
    <3> QED
      BY <3>2 DEF e
  <2>5. MarkersScanned'
    <3> SUFFICES ASSUME walk = "scan" PROVE MarkersScanned'
      BY <2>2 DEF MarkersScanned
    <3>1. MarkersScanned
      BY <1>2 DEF WalkInv
    <3>2. \A c \in DOMAIN text \ Literal(text) :
            c < i + 1 /\ text[c] \in Markers => text[c] \in {Target, Scope}
      BY <1>1, <1>8, <1>11, <3>1 DEF MarkersScanned
    <3>3. scan'.scopeMarkerEnd # 0 /\ scan'.scopeMarkerEnd - 1 \in MarksTo(text, i + 1, Scope)
      <4>1. scan'.scopeMarkerEnd # 0 /\ scan'.scopeMarkerEnd - 1 = i
        BY <2>e
      <4> QED
        BY <2>4, <4>1
    <3>4. \A c \in SeenTo(text, i + 1) : \E s \in MarksTo(text, i + 1, Scope) : s < c
      BY <1>1, <1>6, <2>4, <3>1 DEF MarkersScanned
    <3>5. /\ scan'.targetCount = Cardinality(MarksTo(text, i + 1, Target))
          /\ scan'.scopeCount = Cardinality(MarksTo(text, i + 1, Scope))
          /\ scan'.customSlotCount = Cardinality(SeenTo(text, i + 1))
      BY <1>1, <1>6, <2>3, <2>4, <3>1 DEF MarkersScanned
    <3> QED
      BY <2>2, <3>2, <3>3, <3>4, <3>5 DEF MarkersScanned
  <2>6. ScopeKnown'
    <3>1. i \in MarksTo(text, Len(text) + 1, Scope)
      BY <1>4, <1>11, <2>n DEF MarksTo
    <3>2. scan'.scopeMarkerEnd - 1 = i
      BY <2>e
    <3> QED
      BY <2>2, <3>1, <3>2, Zenon DEF ScopeKnown
  <2>7. walk = "render" => <<"scope", 0>> = Expected[i]
    BY <1>1, <1>3, <1>11, ExpectedHere
  <2>8. SlotsCounted'
    BY <1>7, <2>2
  <2> QED
    BY <1>1, <1>3, <2>1, <2>5, <2>6, <2>7, <2>8, ReplaceKeeps
<1>12. CASE text[i] # Target /\ text[i] # Scope
  <2>1. Refuse
    BY <1>2, <1>12 DEF OnDoubleBrace
  <2>2. ~TemplateFits(text, job.values[1])
    BY <1>3, <1>4, <1>12, FittingMarks
  <2>3. ~Fits
    BY <1>1, <2>2, TemplateRead
  <2> QED
    BY <2>1, <2>3, RefusalRight
<1> QED
  BY <1>10, <1>11, <1>12

\* A placeholder the walk takes for executable is counted, or it may not stand
\* where it does.
LEMMA ReadQuestionMark == ReadInv /\ OnQuestionMark /\ TypeInv' => ReadInv'
<1> SUFFICES ASSUME ReadInv, OnQuestionMark, TypeInv' PROVE ReadInv'
  OBVIOUS
<1>1. Executable /\ Walking /\ At(i) = "?"
  BY DEF OnQuestionMark, Executable
<1>2. /\ text \in Seq(Bytes) /\ i \in 1..Len(text) /\ DOMAIN text = 1..Len(text)
      /\ walk \in {"scan", "render"} /\ WalkInv /\ TypeInv /\ At(i) = text[i]
  BY <1>1, UnderCursor
<1>3. /\ text[i] = "?" /\ text[i] \in Markers \cup {"?"} /\ i \in Questions(text)
      /\ text[i] # Target /\ text[i] # Scope /\ text[i] \notin Markers
  BY <1>1, <1>2 DEF Questions, Target, Scope, Markers
<1>4. i \notin Literal(text)
  BY <1>1, <1>3, HandledOutside
<1>5. /\ SeenTo(text, i + 1) = SeenTo(text, i) \cup {i}
      /\ Cardinality(SeenTo(text, i + 1)) = Cardinality(SeenTo(text, i)) + 1
  BY <1>2, <1>3, SeenOneMore
<1>6. \A m \in {Target, Scope} : MarksTo(text, i + 1, m) = MarksTo(text, i, m)
  BY <1>2, <1>3, MarksOneMore
<1>7. CASE UnsupportedQuestionMark
  <2>1. Refuse
    BY <1>7 DEF OnQuestionMark
  <2>2. ~Clean(text)
    BY <1>2, <1>3, <1>7, OperatorRead DEF Clean
  <2> QED
    BY <1>2, <2>1, <2>2, UncleanUnfit, RefusalRight DEF WalkInv
<1>8. ASSUME ~UnsupportedQuestionMark, Replace(<<"placeholder", job.offset + count'>>),
             walk = "render" \/ job.kind = "predicate" => count' = count + 1,
             MarkersScanned', ScopeKnown'
      PROVE  ReadInv'
  <2>1. ~Operator(text, i)
    BY <1>2, <1>8, OperatorRead
  <2>2. UNCHANGED <<job, walk, text>> /\ i' = i + 1
    BY <1>8 DEF Replace
  <2>3. walk = "render" \/ job.kind = "predicate" => count' = Cardinality(SeenTo(text, i + 1))
    BY <1>2, <1>5, <1>8 DEF WalkInv, SlotsCounted
  <2>4. SlotsCounted'
    BY <2>2, <2>3 DEF SlotsCounted
  <2>5. walk = "render" => <<"placeholder", job.offset + count'>> = Expected[i]
    BY <1>1, <1>3, <2>3, ExpectedHere
  <2> QED
    BY <1>1, <1>3, <1>8, <2>1, <2>4, <2>5, ReplaceKeeps
<1>9. CASE ~UnsupportedQuestionMark /\ job.kind = "predicate"
  <2>1. /\ count' = count + 1 /\ UNCHANGED scan
        /\ Replace(<<"placeholder", job.offset + count'>>)
    BY <1>9 DEF OnQuestionMark
  <2>2. MarkersScanned' /\ ScopeKnown'
    BY <1>9, <2>1 DEF Replace, MarkersScanned, ScopeKnown
  <2> QED
    BY <1>8, <1>9, <2>1, <2>2
<1>10. CASE ~UnsupportedQuestionMark /\ job.kind # "predicate"
  <2>0. job.kind = "template"
    BY <1>2, <1>10 DEF TypeInv, JobShape
  <2> DEFINE s == scan.scopeMarkerEnd
  <2>s. s \in Nat /\ scan \in [targetCount: Nat, scopeCount: Nat, scopeMarkerEnd: Nat, customSlotCount: Nat]
    BY <1>2 DEF TypeInv, TypeOK
  <2>1. IF s = 0 \/ i < s THEN Refuse
        ELSE /\ scan' = [scan EXCEPT !.customSlotCount = @ + 1]
             /\ count' = IF walk = "render" THEN count + 1 ELSE count
             /\ Replace(<<"placeholder", job.offset + count'>>)
    BY <1>10 DEF OnQuestionMark
  <2>2. MarkersScanned /\ ScopeKnown
    BY <1>2 DEF WalkInv
  <2>3. CASE s = 0 \/ i < s
    <3>1. SUFFICES ASSUME Fits PROVE FALSE
      BY <2>1, <2>3, RefusalRight
    <3>2. TemplateFits(text, job.values[1])
      BY <1>1, <2>0, <3>1, TemplateRead
    <3>3. PICK scope \in DOMAIN text \ Literal(text) :
            /\ text[scope] = Scope
            /\ \A k \in DOMAIN text \ Literal(text) : text[k] = Scope => k = scope
            /\ \A k \in Questions(text) : k > scope
      BY <3>2, FittingMarks
    <3>4. scope < i /\ scope \in MarksTo(text, i, Scope) /\ scope \in 1..Len(text)
      BY <1>2, <1>3, <3>3 DEF MarksTo
    <3>5. s # 0 /\ s - 1 = scope
      <4>1. CASE walk = "scan"
        <5>1. s # 0 /\ s - 1 \in MarksTo(text, i, Scope)
          BY <2>0, <2>2, <3>4, <4>1 DEF MarkersScanned
        <5> HIDE DEF s
        <5> QED
          BY <5>1, <3>3 DEF MarksTo
      <4>2. CASE walk = "render"
        <5>1. s - 1 \in MarksTo(text, Len(text) + 1, Scope)
          BY <2>0, <2>2, <4>2 DEF ScopeKnown
        <5> HIDE DEF s
        <5>2. s - 1 = scope
          BY <5>1, <3>3 DEF MarksTo
        <5> QED
          BY <5>2, <3>4, <2>s
      <4> QED
        BY <1>2, <4>1, <4>2
    <3> HIDE DEF s
    <3> QED
      BY <1>2, <2>3, <2>s, <3>4, <3>5
  <2>4. CASE ~(s = 0 \/ i < s)
    <3>1. /\ scan' = [scan EXCEPT !.customSlotCount = @ + 1]
          /\ count' = IF walk = "render" THEN count + 1 ELSE count
          /\ Replace(<<"placeholder", job.offset + count'>>)
      BY <2>1, <2>4
    <3>2. /\ scan'.targetCount = scan.targetCount /\ scan'.scopeCount = scan.scopeCount
          /\ scan'.scopeMarkerEnd = s
          /\ scan'.customSlotCount = scan.customSlotCount + 1
      BY <2>s, <3>1
    <3>3. i' = i + 1 /\ UNCHANGED <<job, walk, text>>
      BY <3>1 DEF Replace
    <3>4. MarkersScanned'
      <4> SUFFICES ASSUME walk = "scan" PROVE MarkersScanned'
        BY <3>3 DEF MarkersScanned
      <4>1. s - 1 \in MarksTo(text, i, Scope) /\ s - 1 < i
        <5>1. s - 1 \in MarksTo(text, i, Scope)
          BY <2>0, <2>2, <2>4 DEF MarkersScanned
        <5> QED
          BY <5>1 DEF MarksTo
      <4>2. \A c \in SeenTo(text, i + 1) : \E m \in MarksTo(text, i, Scope) : m < c
        BY <1>5, <2>0, <2>2, <4>1 DEF MarkersScanned
      <4>3. \A c \in DOMAIN text \ Literal(text) : c < i + 1 => c < i \/ c = i
        BY <1>2
      <4>4. \A c \in DOMAIN text \ Literal(text) :
              c < i + 1 /\ text[c] \in Markers => text[c] \in {Target, Scope}
        BY <1>3, <2>0, <2>2, <4>3 DEF MarkersScanned
      <4>5. /\ scan'.targetCount = Cardinality(MarksTo(text, i + 1, Target))
            /\ scan'.scopeCount = Cardinality(MarksTo(text, i + 1, Scope))
            /\ scan'.customSlotCount = Cardinality(SeenTo(text, i + 1))
            /\ scan'.scopeMarkerEnd = 0 => MarksTo(text, i + 1, Scope) = {}
            /\ scan'.scopeMarkerEnd # 0 => scan'.scopeMarkerEnd - 1 \in MarksTo(text, i + 1, Scope)
        BY <1>5, <1>6, <2>0, <2>2, <3>2 DEF MarkersScanned
      <4>6. \A c \in SeenTo(text, i + 1) : \E m \in MarksTo(text, i + 1, Scope) : m < c
        BY <1>6, <4>2
      <4> QED
        BY <3>3, <4>4, <4>5, <4>6 DEF MarkersScanned
    <3>5. ScopeKnown'
      BY <2>2, <3>2, <3>3 DEF ScopeKnown
    <3> QED
      BY <1>8, <1>10, <2>0, <3>1, <3>4, <3>5
  <2> QED
    BY <2>3, <2>4
<1> QED
  BY <1>7, <1>9, <1>10

-----------------------------------------------------------------------------
(* Around the walk.                                                        *)

\* At the end of a text all of it has been seen.
LEMMA AtTheEnd ==
  ASSUME ReadInv, walk \in {"scan", "render"}, Ended
  PROVE  /\ text \in Seq(Bytes) /\ i = Len(text) + 1 /\ WalkInv /\ TypeInv
         /\ DOMAIN text = 1..Len(text) /\ Len(text) \in Nat
         /\ SeenTo(text, i) = Questions(text) /\ Clean(text)
         /\ \A m : MarksTo(text, i, m) = {c \in DOMAIN text \ Literal(text) : text[c] = m}
<1>1. text \in Seq(Bytes) /\ i \in 1..(Len(text) + 1) /\ WalkInv /\ TypeInv
  BY DEF ReadInv, TypeInv, TypeOK
<1>2. DOMAIN text = 1..Len(text) /\ Len(text) \in Nat
  BY <1>1
<1>3. i = Len(text) + 1
  <2>1. i > Len(text)
    BY DEF Ended
  <2> QED
    BY <1>1, <1>2, <2>1
<1>4. CleanTo(text, Len(text) + 1)
  BY <1>1, <1>3 DEF WalkInv, Position
<1> QED
  BY <1>1, <1>2, <1>3, <1>4, SeenAll

\* A walk begins with nothing seen.
LEMMA BeginKeeps ==
  ASSUME ReadInv, NEW how \in {"scan", "render"}, NEW fragment \in Seq(Bytes), Begin(how, fragment),
         how = "scan" => job.kind = "predicate",
         UNCHANGED <<job, scan>>, TypeInv', OfJob', ScopeKnown'
  PROVE  ReadInv'
<1>1. /\ walk' = how /\ text' = fragment /\ i' = 1 /\ inside' = None /\ depth' = 0
      /\ start' = 1 /\ out' = <<>> /\ count' = 0
  BY DEF Begin
<1>2. Position'
  <2>1. Where(fragment, 1, None, 0)
    BY OutsideAtStart DEF Where
  <2> QED
    BY <1>1, <2>1, SeenNone DEF Position
<1>3. SlotsCounted'
  <2>1. Cardinality(SeenTo(fragment, 1)) = 0
    BY SeenNone
  <2> QED
    BY <1>1, <2>1 DEF SlotsCounted
<1>4. MarkersScanned'
  BY <1>1 DEF MarkersScanned
<1>5. RenderedSoFar'
  <2>1. Len(<<>>) = 1 - 1 /\ (\A k \in 1..(1 - 1) : FALSE)
    OBVIOUS
  <2> QED
    BY <1>1, <2>1 DEF RenderedSoFar
<1>6. RenderedAsRead'
  BY <1>1 DEF RenderedAsRead
<1> QED
  BY <1>2, <1>3, <1>4, <1>5, <1>6 DEF ReadInv, WalkInv

\* A predicate is validated by itself.
LEMMA ReadScannedPredicate == ReadInv /\ ScannedPredicate /\ TypeInv' => ReadInv'
<1> SUFFICES ASSUME ReadInv, ScannedPredicate, TypeInv' PROVE ReadInv'
  OBVIOUS
<1>1. walk = "scan" /\ Ended /\ job.kind = "predicate"
  BY DEF ScannedPredicate
<1>2. /\ text \in Seq(Bytes) /\ WalkInv /\ TypeInv /\ Clean(text)
      /\ SeenTo(text, i) = Questions(text)
  BY <1>1, AtTheEnd
<1>3. count = Cardinality(Questions(text))
  BY <1>1, <1>2 DEF WalkInv, SlotsCounted
<1>4. /\ text = job.texts[part]
      /\ \A p \in DOMAIN job.texts : p < part => PredicateFits(job.texts[p], job.values[p])
  BY <1>1, <1>2 DEF WalkInv, OfJob
<1>5. job \in Job /\ JobShape /\ part \in DOMAIN job.texts
  BY <1>2 DEF TypeInv, TypeOK
<1>6. /\ job.texts \in Seq(Seq(Bytes)) /\ DOMAIN job.texts = 1..Len(job.texts)
      /\ Len(job.texts) \in Nat
  <2>1. job.texts \in Seq(Seq(Bytes))
    BY <1>5 DEF Job
  <2> QED
    BY <2>1, LenProperties
<1>7. CASE IsBlank(text) \/ count # job.values[part]
  <2>1. Refuse
    BY <1>7 DEF ScannedPredicate
  <2>2. ~PredicateFits(job.texts[part], job.values[part])
    BY <1>3, <1>4, <1>7 DEF PredicateFits
  <2>3. ~Fits
    BY <1>1, <1>5, <2>2 DEF Fits
  <2> QED
    BY <2>1, <2>3, RefusalRight
<1>8. CASE ~(IsBlank(text) \/ count # job.values[part])
  <2>1. PredicateFits(job.texts[part], job.values[part])
    BY <1>2, <1>3, <1>4, <1>8 DEF PredicateFits
  <2>2. CASE part < Len(job.texts)
    <3>1. part' = part + 1 /\ Begin("scan", job.texts[part + 1]) /\ UNCHANGED <<job, scan>>
      BY <1>8, <2>2 DEF ScannedPredicate
    <3>2. part + 1 \in DOMAIN job.texts
      BY <1>5, <1>6, <2>2
    <3>3. job.texts[part + 1] \in Seq(Bytes)
      BY <1>6, <3>2
    <3>4. \A p \in DOMAIN job.texts : p < part + 1 => p < part \/ p = part
      <4>1. \A p, q \in 1..Len(job.texts) : p < q + 1 => p < q \/ p = q
        OBVIOUS
      <4> QED
        BY <1>5, <1>6, <4>1, Zenon
    <3>5. walk' = "scan" /\ text' = job.texts[part + 1]
      BY <3>1 DEF Begin
    <3>6. OfJob'
      BY <1>1, <1>4, <2>1, <3>1, <3>4, <3>5 DEF OfJob
    <3>7. ScopeKnown'
      BY <3>5 DEF ScopeKnown
    <3> QED
      BY <1>1, <3>1, <3>3, <3>6, <3>7, BeginKeeps
  <2>3. CASE ~(part < Len(job.texts))
    <3>1. part' = part /\ Begin("render", Conjunction(job.texts)) /\ UNCHANGED <<job, scan>>
      BY <1>8, <2>3 DEF ScannedPredicate
    <3>2. Conjunction(job.texts) \in Seq(Bytes)
      BY <1>5, ConjunctionTyped
    <3>3. \A p \in DOMAIN job.texts : p < part \/ p = part
      BY <1>5, <1>6, <2>3
    <3>4. walk' = "render" /\ text' = Conjunction(job.texts)
      BY <3>1 DEF Begin
    <3>5. OfJob'
      BY <1>1, <1>4, <2>1, <3>1, <3>3, <3>4 DEF OfJob
    <3>6. ScopeKnown'
      BY <1>1, <3>1 DEF ScopeKnown
    <3> QED
      BY <1>1, <3>1, <3>2, <3>5, <3>6, BeginKeeps
  <2> QED
    BY <2>2, <2>3
<1> QED
  BY <1>7, <1>8

\* What the scan of a template has counted is all there is to it.
LEMMA ReadScannedTemplate == ReadInv /\ ScannedTemplate /\ TypeInv' => ReadInv'
<1> SUFFICES ASSUME ReadInv, ScannedTemplate, TypeInv' PROVE ReadInv'
  OBVIOUS
<1>1. walk = "scan" /\ Ended /\ job.kind = "template"
  BY DEF ScannedTemplate
<1>2. /\ text \in Seq(Bytes) /\ WalkInv /\ TypeInv /\ Clean(text) /\ i = Len(text) + 1
      /\ DOMAIN text = 1..Len(text) /\ Len(text) \in Nat
      /\ SeenTo(text, i) = Questions(text)
      /\ \A m : MarksTo(text, i, m) = {c \in DOMAIN text \ Literal(text) : text[c] = m}
  BY <1>1, AtTheEnd
<1> DEFINE targets == {c \in DOMAIN text \ Literal(text) : text[c] = Target}
           scopes == {c \in DOMAIN text \ Literal(text) : text[c] = Scope}
           marks == {k \in DOMAIN text \ Literal(text) : text[k] \in Markers}
           v == job.values[1]
<1>3. /\ scan.targetCount = Cardinality(targets) /\ scan.scopeCount = Cardinality(scopes)
      /\ scan.customSlotCount = Cardinality(Questions(text))
      /\ \A c \in marks : text[c] \in {Target, Scope}
      /\ scan.scopeMarkerEnd = 0 => scopes = {}
      /\ scan.scopeMarkerEnd # 0 => scan.scopeMarkerEnd - 1 \in scopes
      /\ \A c \in Questions(text) : \E s \in scopes : s < c
  <2>1. MarkersScanned /\ \A c \in DOMAIN text : c < i
    BY <1>2 DEF WalkInv
  <2> QED
    BY <1>1, <1>2, <2>1 DEF MarkersScanned
<1>4. IsFiniteSet(targets) /\ IsFiniteSet(scopes)
  <2>1. targets = MarksTo(text, i, Target) /\ scopes = MarksTo(text, i, Scope)
    BY <1>2
  <2> HIDE DEF targets, scopes
  <2> QED
    BY <1>2, <2>1, SeenFinite
<1>5. text = job.texts[1] /\ job \in Job /\ JobShape
  BY <1>1, <1>2 DEF WalkInv, OfJob, TypeInv, TypeOK
<1>6. Conjunction(job.texts) = text
  BY <1>1, <1>5 DEF Conjunction, JobShape
<1>7. TemplateFits(text, v) <=>
        Cardinality(targets) = 1 /\ Cardinality(scopes) = 1 /\ Cardinality(Questions(text)) = v
  <2>0. Target \in Markers /\ Scope \in Markers /\ Target # Scope
    BY DEF Markers, Target, Scope
  <2>1. ASSUME TemplateFits(text, v)
        PROVE  Cardinality(targets) = 1 /\ Cardinality(scopes) = 1 /\ Cardinality(Questions(text)) = v
    <3>1. PICK target \in marks, scope \in marks :
            text[target] = Target /\ text[scope] = Scope /\ marks = {target, scope}
      BY <2>1 DEF TemplateFits
    <3>2. targets = {target} /\ scopes = {scope}
      BY <2>0, <3>1
    <3>3. Cardinality({target}) = 1 /\ Cardinality({scope}) = 1
      BY FS_Singleton
    <3> QED
      BY <2>1, <3>2, <3>3 DEF TemplateFits
  <2>2. ASSUME Cardinality(targets) = 1, Cardinality(scopes) = 1, Cardinality(Questions(text)) = v
        PROVE  TemplateFits(text, v)
    <3>1. (\E x : targets = {x}) /\ \E x : scopes = {x}
      <4> HIDE DEF targets, scopes
      <4> QED
        BY <1>4, <2>2, OneElement
    <3>2. PICK target : targets = {target}
      BY <3>1
    <3>3. PICK scope : scopes = {scope}
      BY <3>1
    <3>4. /\ target \in marks /\ scope \in marks
          /\ text[target] = Target /\ text[scope] = Scope
      BY <2>0, <3>2, <3>3
    <3>5. marks = {target, scope}
      BY <1>3, <3>2, <3>3, <3>4
    <3>6. \A k \in Questions(text) : k > scope
      <4>1. \A k \in Questions(text) : scope < k
        BY <1>3, <3>3
      <4> QED
        BY <4>1
    <3> HIDE DEF targets, scopes
    <3> QED
      BY <1>2, <2>2, <3>4, <3>5, <3>6 DEF TemplateFits
  <2> QED
    BY <2>1, <2>2
<1> HIDE DEF marks, v
<1>8. CASE scan.targetCount = 1 /\ scan.scopeCount = 1 /\ scan.customSlotCount = job.values[1]
  <2>1. Begin("render", text) /\ UNCHANGED <<job, part, scan>>
    BY <1>8 DEF ScannedTemplate
  <2>2. walk' = "render" /\ text' = text
    BY <2>1 DEF Begin
  <2>3. TemplateFits(text, job.values[1])
    BY <1>3, <1>7, <1>8 DEF v
  <2>4. OfJob'
    BY <1>1, <1>5, <1>6, <2>1, <2>2, <2>3 DEF OfJob
  <2>5. scan.scopeMarkerEnd - 1 \in MarksTo(text, Len(text) + 1, Scope)
    <3>1. scopes # {}
      <4>1. Cardinality(scopes) = 1 /\ Cardinality({}) = 0
        BY <1>3, <1>8, FS_EmptySet
      <4> HIDE DEF scopes
      <4> QED
        BY <4>1
    <3>2. scan.scopeMarkerEnd - 1 \in scopes
      BY <1>3, <3>1
    <3> QED
      BY <1>2, <3>2
  <2>6. ScopeKnown'
    BY <2>1, <2>2, <2>5 DEF ScopeKnown
  <2> QED
    BY <1>2, <2>1, <2>4, <2>6, BeginKeeps
<1>9. CASE ~(scan.targetCount = 1 /\ scan.scopeCount = 1 /\ scan.customSlotCount = job.values[1])
  <2>1. Refuse
    BY <1>9 DEF ScannedTemplate
  <2>2. ~TemplateFits(text, job.values[1])
    BY <1>3, <1>7, <1>9 DEF v
  <2>3. ~Fits
    BY <1>1, <1>5, <2>2 DEF Fits
  <2> QED
    BY <2>1, <2>3, RefusalRight
<1> QED
  BY <1>8, <1>9

\* A job begins with nothing seen.
LEMMA ReadInit == Init => ReadInv
<1> SUFFICES ASSUME Init PROVE ReadInv
  OBVIOUS
<1>1. TypeInv
  BY TypeInit
<1>2. /\ part = 1 /\ walk = "scan" /\ text = job.texts[1] /\ i = 1 /\ inside = None /\ depth = 0
      /\ start = 1 /\ out = <<>> /\ count = 0 /\ scan = Zero
  BY DEF Init
<1>3. text \in Seq(Bytes) /\ job \in Job /\ JobShape
  BY <1>1 DEF TypeInv, TypeOK
<1>4. OfJob
  <2>1. job.texts \in Seq(Seq(Bytes))
    BY <1>3 DEF Job
  <2>2. \A p \in DOMAIN job.texts : ~(p < 1)
    BY <2>1
  <2> QED
    BY <1>2, <2>2 DEF OfJob
<1>5. Position
  <2>1. Where(text, 1, None, 0)
    BY <1>3, OutsideAtStart DEF Where
  <2> QED
    BY <1>2, <1>3, <2>1, SeenNone DEF Position
<1>6. SlotsCounted
  <2>1. Cardinality(SeenTo(text, 1)) = 0
    BY <1>3, SeenNone
  <2> QED
    BY <1>2, <2>1 DEF SlotsCounted
<1>7. MarkersScanned
  <2>1. /\ scan.targetCount = 0 /\ scan.scopeCount = 0 /\ scan.scopeMarkerEnd = 0
        /\ scan.customSlotCount = 0
    BY <1>2 DEF Zero
  <2>2. /\ SeenTo(text, 1) = {} /\ Cardinality({}) = 0
        /\ \A m : MarksTo(text, 1, m) = {}
    BY <1>3, SeenNone
  <2>3. \A c \in DOMAIN text : ~(c < 1)
    BY <1>3
  <2> QED
    BY <1>2, <2>1, <2>2, <2>3 DEF MarkersScanned
<1>8. ScopeKnown /\ RenderedSoFar /\ RenderedAsRead
  BY <1>2 DEF ScopeKnown, RenderedSoFar, RenderedAsRead
<1> QED
  BY <1>1, <1>4, <1>5, <1>6, <1>7, <1>8 DEF ReadInv, WalkInv

-----------------------------------------------------------------------------
(* The placeholders of a rendered text.                                    *)

\* A set shifted by a number has as many elements.
LEMMA Shifted ==
  ASSUME NEW S \in SUBSET Int, IsFiniteSet(S), NEW d \in Int
  PROVE  /\ IsFiniteSet({k + d : k \in S})
         /\ Cardinality({k + d : k \in S}) = Cardinality(S)
<1> DEFINE T == {k + d : k \in S}
           f == [k \in S |-> k + d]
<1>1. f \in Bijection(S, T)
  <2>1. f \in [S -> T]
    OBVIOUS
  <2>2. \A a, b \in S : f[a] = f[b] => a = b
    <3> TAKE a, b \in S
    <3>1. a \in Int /\ b \in Int /\ f[a] = a + d /\ f[b] = b + d
      OBVIOUS
    <3> HIDE DEF f
    <3> QED
      BY <3>1
  <2>3. \A y \in T : \E x \in S : f[x] = y
    OBVIOUS
  <2> HIDE DEF f, T
  <2> QED
    BY <2>1, <2>2, <2>3 DEF Bijection, Injection, Surjection, IsInjective
<1>2. ExistsBijection(S, T)
  BY <1>1 DEF ExistsBijection
<1> QED
  BY <1>2, FS_Bijection

\* The placeholders of two predicates are those of their conjunction.
LEMMA ConjoinedQuestions ==
  ASSUME NEW texts \in Seq(Seq(Bytes)), Len(texts) = 2
  PROVE  Cardinality(Questions(Conjunction(texts)))
           = Cardinality(Questions(texts[1])) + Cardinality(Questions(texts[2]))
<1> DEFINE a == texts[1]
           b == texts[2]
           m == Len(a)
           n == Len(b)
           open == <<"(">>
           and == <<")", Blank, Letter, Blank, "(">>
           close == <<")">>
<1>1. a \in Seq(Bytes) /\ b \in Seq(Bytes) /\ m \in Nat /\ n \in Nat
  OBVIOUS
<1>2. /\ open \in Seq(Bytes) /\ Len(open) = 1
      /\ and \in Seq(Bytes) /\ Len(and) = 5
      /\ close \in Seq(Bytes) /\ Len(close) = 1
  <2>0. "(" \in Bytes /\ ")" \in Bytes /\ Blank \in Bytes /\ Letter \in Bytes
    BY DEF Bytes, Blank, Letter
  <2>1. open \in Seq(Bytes) /\ and \in Seq(Bytes) /\ close \in Seq(Bytes)
    BY <2>0
  <2>2. Len(open) = 1 /\ Len(and) = 5 /\ Len(close) = 1
    OBVIOUS
  <2> QED
    BY <2>1, <2>2
<1>3. /\ \A k \in 1..1 : open[k] # "?"
      /\ \A k \in 1..5 : and[k] # "?"
      /\ \A k \in 1..1 : close[k] # "?"
  BY DEF Blank, Letter
<1>4. Conjunction(texts) = open \o a \o and \o b \o close
  BY DEF Conjunction
<1> HIDE DEF a, b, m, n, open, and, close
\* Joining two texts moves the placeholders of the second.
<1>5. ASSUME NEW s \in Seq(Bytes), NEW t \in Seq(Bytes)
      PROVE  /\ s \o t \in Seq(Bytes) /\ Len(s \o t) = Len(s) + Len(t)
             /\ Cardinality(Questions(s \o t)) = Cardinality(Questions(s)) + Cardinality(Questions(t))
  <2>0. /\ Len(s) \in Nat /\ Len(t) \in Nat /\ DOMAIN s = 1..Len(s) /\ DOMAIN t = 1..Len(t)
    OBVIOUS
  <2>1. /\ s \o t \in Seq(Bytes) /\ Len(s \o t) = Len(s) + Len(t)
        /\ \A k \in 1..(Len(s) + Len(t)) :
             (s \o t)[k] = IF k <= Len(s) THEN s[k] ELSE t[k - Len(s)]
    BY ConcatProperties
  <2> DEFINE c == s \o t
             q == Len(s)
             S == Questions(s)
             T == Questions(t)
             U == {k + q : k \in T}
  <2>2. DOMAIN c = 1..(q + Len(t)) /\ \A k \in 1..(q + Len(t)) : c[k] = IF k <= q THEN s[k] ELSE t[k - q]
    BY <2>1, LenProperties
  <2>3. S \in SUBSET (1..q) /\ T \in SUBSET (1..Len(t)) /\ T \in SUBSET Int
    BY <2>0 DEF Questions
  <2>4. IsFiniteSet(S) /\ IsFiniteSet(T) /\ Cardinality(S) \in Nat /\ Cardinality(T) \in Nat
    BY SeenFinite, FS_CardinalityType
  <2>5. IsFiniteSet(U) /\ Cardinality(U) = Cardinality(T)
    <3>1. q \in Int
      BY <2>0
    <3> HIDE DEF q, T
    <3> QED
      BY <2>3, <2>4, <3>1, Shifted
  <2>6. Questions(c) = S \cup U
    <3>1. ASSUME NEW k \in Questions(c) PROVE k \in S \cup U
      <4>1. k \in 1..(q + Len(t)) /\ c[k] = "?"
        BY <2>2 DEF Questions
      <4>2. CASE k <= q
        <5>1. s[k] = "?" /\ k \in 1..q
          BY <2>2, <4>1, <4>2
        <5> QED
          BY <2>0, <5>1 DEF Questions
      <4>3. CASE ~(k <= q)
        <5>1. t[k - q] = "?" /\ k - q \in 1..Len(t) /\ (k - q) + q = k
          <6> HIDE DEF c
          <6> QED
            BY <2>0, <2>2, <4>1, <4>3
        <5>2. k - q \in T
          BY <2>0, <5>1 DEF Questions
        <5> QED
          BY <5>1, <5>2
      <4> QED
        BY <4>2, <4>3
    <3>2. ASSUME NEW k \in S PROVE k \in Questions(c)
      <4>1. k \in 1..q /\ s[k] = "?"
        BY <2>0 DEF Questions
      <4>2. k \in 1..(q + Len(t)) /\ k <= q
        BY <2>0, <4>1
      <4>3. c[k] = "?"
        BY <2>2, <4>1, <4>2
      <4> QED
        BY <2>2, <4>2, <4>3 DEF Questions
    <3>3. ASSUME NEW j \in T PROVE j + q \in Questions(c)
      <4>1. j \in 1..Len(t) /\ t[j] = "?"
        BY <2>0 DEF Questions
      <4>2. j + q \in 1..(q + Len(t)) /\ ~(j + q <= q) /\ (j + q) - q = j
        BY <2>0, <4>1
      <4>3. c[j + q] = "?"
        <5> HIDE DEF c, q
        <5> QED
          BY <2>2, <4>1, <4>2
      <4> QED
        BY <2>2, <4>2, <4>3 DEF Questions
    <3> HIDE DEF c, S, T
    <3> QED
      BY <3>1, <3>2, <3>3
  <2>7. S \cap U = {}
    <3> SUFFICES ASSUME NEW j \in T, j + q \in S PROVE FALSE
      OBVIOUS
    <3>1. j \in 1..Len(t) /\ j + q \in 1..q
      BY <2>3
    <3> QED
      BY <2>0, <3>1
  <2>8. Cardinality(S \cup U) = Cardinality(S) + Cardinality(U)
    <3>1. Cardinality({}) = 0
      BY FS_EmptySet
    <3>2. Cardinality(S \cup U) = Cardinality(S) + Cardinality(U) - Cardinality(S \cap U)
      <4> HIDE DEF S, U
      <4> QED
        BY <2>4, <2>5, FS_Union
    <3>3. \A x, y \in Nat : x + y - 0 = x + y
      OBVIOUS
    <3> HIDE DEF S, T, U
    <3> QED
      BY <2>4, <2>5, <2>7, <3>1, <3>2, <3>3, Zenon
  <2> QED
    BY <2>1, <2>5, <2>6, <2>8
<1>6. ASSUME NEW t \in Seq(Bytes), \A k \in 1..Len(t) : t[k] # "?"
      PROVE  Cardinality(Questions(t)) = 0
  <2>1. Questions(t) = {}
    BY <1>6 DEF Questions
  <2> QED
    BY <2>1, FS_EmptySet
<1>7. \A t \in Seq(Bytes) : Cardinality(Questions(t)) \in Nat
  BY SeenFinite, FS_CardinalityType
<1> DEFINE Q(t) == Cardinality(Questions(t))
<1>8. Q(open) = 0 /\ Q(and) = 0 /\ Q(close) = 0
  BY <1>2, <1>3, <1>6
<1>9. /\ open \o a \in Seq(Bytes) /\ Q(open \o a) = Q(open) + Q(a)
  BY <1>1, <1>2, <1>5
<1>10. /\ open \o a \o and \in Seq(Bytes) /\ Q(open \o a \o and) = Q(open \o a) + Q(and)
  BY <1>2, <1>5, <1>9
<1>11. /\ open \o a \o and \o b \in Seq(Bytes)
       /\ Q(open \o a \o and \o b) = Q(open \o a \o and) + Q(b)
  BY <1>1, <1>5, <1>10
<1>12. Q(open \o a \o and \o b \o close) = Q(open \o a \o and \o b) + Q(close)
  BY <1>2, <1>5, <1>11
<1>13. Q(a) \in Nat /\ Q(b) \in Nat
  BY <1>1, <1>7
<1>14. Q(open \o a \o and \o b \o close) = Q(a) + Q(b)
  <2> HIDE DEF Q
  <2> QED
    BY <1>8, <1>9, <1>10, <1>11, <1>12, <1>13
<1> QED
  BY <1>4, <1>14 DEF a, b

\* The sum of one number, or of two.
LEMMA SumOfValues ==
  ASSUME NEW v \in Seq(Nat), Len(v) = 1 \/ Len(v) = 2
  PROVE  FoldFunction(+, 0, v) = IF Len(v) = 1 THEN v[1] ELSE v[1] + v[2]
<1> DEFINE D == DOMAIN v
           F(g) == [s \in SUBSET D |->
                      IF s = {} THEN 0 ELSE LET x == CHOOSE y \in s : TRUE IN v[x] + g[s \ {x}]]
           sum == CHOOSE g : g = F(g)
           one(k) == IF k \in D THEN v[k] ELSE 0
           h == [s \in SUBSET D |-> (IF 1 \in s THEN v[1] ELSE 0) + (IF 2 \in s THEN v[2] ELSE 0)]
<1>1. FoldFunction(+, 0, v) = sum[D]
  BY Zenon DEF FoldFunction, FoldFunctionOnSet, MapThenFoldSet
<1>2. /\ D = 1..Len(v) /\ (1 \in D => v[1] \in Nat) /\ (2 \in D => v[2] \in Nat)
      /\ \A k \in D : k = 1 \/ k = 2
  OBVIOUS
<1> HIDE DEF D
<1>3. h = F(h)
  <2>1. ASSUME NEW s \in SUBSET D
        PROVE  h[s] = IF s = {} THEN 0 ELSE LET x == CHOOSE y \in s : TRUE IN v[x] + h[s \ {x}]
    <3>1. CASE s = {}
      BY <3>1
    <3>2. CASE s # {}
      <4> DEFINE x == CHOOSE y \in s : TRUE
      <4>1. x \in s
        BY <3>2
      <4>2. s \ {x} \in SUBSET D /\ x \in D
        BY <4>1
      <4>3. x = 1 \/ x = 2
        BY <1>2, <4>2
      <4> HIDE DEF x
      <4>4. h[s] = v[x] + h[s \ {x}]
        <5>1. CASE x = 1
          BY <1>2, <4>1, <4>2, <5>1
        <5>2. CASE x = 2
          BY <1>2, <4>1, <4>2, <5>2
        <5> QED
          BY <4>3, <5>1, <5>2
      <4> QED
        BY <3>2, <4>4 DEF x
    <3> QED
      BY <3>1, <3>2
  <2> HIDE DEF h
  <2>2. DOMAIN h = SUBSET D /\ h = [s \in SUBSET D |-> h[s]]
    BY DEF h
  <2> QED
    BY <2>1, <2>2, Zenon
<1>4. sum = F(sum)
  <2> HIDE DEF F, h
  <2> QED
    BY <1>3, Zenon
<1>5. \A s \in SUBSET D :
        sum[s] = IF s = {} THEN 0 ELSE LET x == CHOOSE y \in s : TRUE IN v[x] + sum[s \ {x}]
  <2> HIDE DEF sum
  <2> QED
    BY <1>4, Zenon
<1> HIDE DEF sum, h
<1>6. sum[{}] = 0
  <2>1. {} \in SUBSET D
    OBVIOUS
  <2> QED
    BY <1>5, <2>1
<1>7. \A k \in D : sum[{k}] = v[k]
  <2> TAKE k \in D
  <2>1. {k} \in SUBSET D /\ {k} # {} /\ (CHOOSE y \in {k} : TRUE) = k
    OBVIOUS
  <2>2. sum[{k}] = v[k] + sum[{k} \ {k}]
    BY <1>5, <2>1
  <2>3. {k} \ {k} = {}
    OBVIOUS
  <2>4. v[k] \in Nat
    BY <1>2
  <2>5. sum[{k}] = v[k] + 0
    BY <1>6, <2>2, <2>3, Zenon
  <2> QED
    BY <2>4, <2>5
<1>o. Len(v) = 2 => Len(v) # 1
  OBVIOUS
<1>8. CASE Len(v) = 1
  <2>1. D = {1} /\ 1 \in D
    BY <1>2, <1>8
  <2> QED
    BY <1>1, <1>7, <1>8, <2>1
<1>9. CASE Len(v) = 2
  <2>1. D = {1, 2} /\ 1 \in D /\ 2 \in D
    BY <1>2, <1>9
  <2> DEFINE x == CHOOSE y \in D : TRUE
  <2>2. x = 1 \/ x = 2
    BY <2>1
  <2>3. sum[D] = v[x] + sum[D \ {x}]
    <3>1. D \in SUBSET D /\ D # {}
      BY <2>1
    <3> QED
      BY <1>5, <3>1
  <2> HIDE DEF x
  <2>v. v[1] \in Nat /\ v[2] \in Nat /\ v[1] + v[2] = v[2] + v[1]
    BY <1>2, <2>1
  <2>4. CASE x = 1
    <3>1. D \ {x} = {2}
      BY <2>1, <2>4
    <3>2. sum[D] = v[1] + v[2]
      BY <1>7, <2>1, <2>3, <2>4, <3>1
    <3> QED
      BY <1>1, <1>9, <1>o, <3>2, Zenon
  <2>5. CASE x = 2
    <3>1. D \ {x} = {1}
      BY <2>1, <2>5
    <3>2. sum[D] = v[2] + v[1]
      BY <1>7, <2>1, <2>3, <2>5, <3>1
    <3> QED
      BY <1>1, <1>9, <1>o, <2>v, <3>2, Zenon
  <2> QED
    BY <2>2, <2>4, <2>5
<1> QED
  BY <1>8, <1>9

\* What is rendered holds a placeholder for every one of its text.
LEMMA PlaceholdersExpected ==
  ASSUME NEW t, t = Conjunction(job.texts)
  PROVE  \A k \in DOMAIN t : Expected[k][1] = "placeholder" <=> t[k] = "?"
<1> TAKE k \in DOMAIN t
<1> DEFINE rank(c) == Cardinality({j \in Questions(t) : j <= c})
           executable(c) == job.kind = "template" /\ c \notin Literal(t)
<1>1. Expected[k] = CASE t[k] = "?"                      -> <<"placeholder", job.offset + rank(k)>>
                      [] executable(k) /\ t[k] = Target  -> <<"table", 0>>
                      [] executable(k) /\ t[k] = Scope   -> <<"scope", 0>>
                      [] OTHER                           -> <<"source", k>>
  BY DEF Expected
<1> HIDE DEF rank, executable
<1>2. CASE t[k] = "?"
  <2>1. Expected[k] = <<"placeholder", job.offset + rank(k)>>
    BY <1>1, <1>2 DEF Target, Scope
  <2> QED
    BY <1>2, <2>1
<1>3. CASE t[k] # "?"
  <2>1. \/ Expected[k] = <<"table", 0>> \/ Expected[k] = <<"scope", 0>>
        \/ Expected[k] = <<"source", k>>
    BY <1>1, <1>3 DEF Target, Scope
  <2> QED
    BY <1>3, <2>1
<1> QED
  BY <1>2, <1>3

\* Values are as many as the placeholders of a job that fits.
LEMMA FittingValues ==
  ASSUME job \in Job, JobShape, Fits
  PROVE  Cardinality(Questions(Conjunction(job.texts))) = FoldFunction(+, 0, job.values)
<1>1. /\ job.texts \in Seq(Seq(Bytes)) /\ job.values \in Seq(Nat)
      /\ Len(job.texts) = 1 \/ Len(job.texts) = 2
      /\ DOMAIN job.values = DOMAIN job.texts
      /\ job.kind = "template" => Len(job.texts) = 1
      /\ job.kind \in {"predicate", "template"}
  BY DEF Job, JobShape
<1>2. /\ Len(job.values) = Len(job.texts) /\ DOMAIN job.texts = 1..Len(job.texts)
      /\ Len(job.texts) = 2 => Len(job.texts) # 1
  <2>1. /\ DOMAIN job.texts = 1..Len(job.texts) /\ Len(job.texts) \in Nat
        /\ DOMAIN job.values = 1..Len(job.values) /\ Len(job.values) \in Nat
    BY <1>1, LenProperties
  <2>2. \A m, n \in Nat : 1..m = 1..n => m = n
    <3> TAKE m, n \in Nat
    <3> HAVE 1..m = 1..n
    <3>1. \A k \in Int : k \in 1..m <=> k \in 1..n
      OBVIOUS
    <3>2. m <= n
      BY <3>1
    <3>3. n <= m
      BY <3>1
    <3> QED
      BY <3>2, <3>3
  <2>3. Len(job.values) = Len(job.texts)
    BY <1>1, <2>1, <2>2, Zenon
  <2>4. Len(job.texts) = 2 => Len(job.texts) # 1
    OBVIOUS
  <2> QED
    BY <2>1, <2>3, <2>4
<1>3. FoldFunction(+, 0, job.values)
        = IF Len(job.values) = 1 THEN job.values[1] ELSE job.values[1] + job.values[2]
  BY <1>1, <1>2, SumOfValues
<1>4. \A p \in DOMAIN job.texts : Cardinality(Questions(job.texts[p])) = job.values[p]
  <2>1. CASE job.kind = "template"
    <3>0. DOMAIN job.texts = 1..1
      BY <1>1, <1>2, <2>1, Zenon
    <3>1. \A p \in DOMAIN job.texts : p = 1
      BY <3>0
    <3> QED
      BY <2>1, <3>1 DEF Fits, TemplateFits
  <2>2. CASE job.kind = "predicate"
    BY <2>2 DEF Fits, PredicateFits
  <2> QED
    BY <1>1, <2>1, <2>2
<1>5. CASE Len(job.texts) = 1
  <2>1. Conjunction(job.texts) = job.texts[1] /\ 1 \in DOMAIN job.texts
    BY <1>2, <1>5 DEF Conjunction
  <2> QED
    BY <1>2, <1>3, <1>4, <1>5, <2>1, Zenon
<1>6. CASE Len(job.texts) = 2
  <2>1. 1 \in DOMAIN job.texts /\ 2 \in DOMAIN job.texts
    BY <1>2, <1>6
  <2>2. Cardinality(Questions(Conjunction(job.texts)))
          = Cardinality(Questions(job.texts[1])) + Cardinality(Questions(job.texts[2]))
    BY <1>1, <1>6, ConjoinedQuestions
  <2> QED
    BY <1>2, <1>3, <1>4, <1>6, <2>1, <2>2, Zenon
<1> QED
  BY <1>1, <1>5, <1>6

\* Nor does the number of its values.
LEMMA ValuesUnmoved ==
  ASSUME job' = job
  PROVE  FoldFunction(+, 0, job.values)' = FoldFunction(+, 0, job.values)
  BY Zenon DEF FoldFunction, FoldFunctionOnSet, MapThenFoldSet

\* What is flushed at the end completes the expected text.
LEMMA ReadRendered == ReadInv /\ Rendered /\ TypeInv' => ReadInv'
<1> SUFFICES ASSUME ReadInv, Rendered, TypeInv' PROVE ReadInv'
  OBVIOUS
<1>1. /\ walk = "render" /\ Ended /\ walk' = "rendered" /\ out' = out \o Source(start, Len(text))
      /\ UNCHANGED <<job, text>>
  BY DEF Rendered
<1>2. /\ text \in Seq(Bytes) /\ WalkInv /\ TypeInv /\ Clean(text) /\ i = Len(text) + 1
      /\ DOMAIN text = 1..Len(text) /\ Len(text) \in Nat
  BY <1>1, AtTheEnd
<1>3. /\ text = Conjunction(job.texts) /\ job \in Job /\ JobShape
      /\ job.kind = "predicate" =>
           \A p \in DOMAIN job.texts : PredicateFits(job.texts[p], job.values[p])
      /\ job.kind = "template" => TemplateFits(job.texts[1], job.values[1])
  BY <1>1, <1>2 DEF WalkInv, OfJob, TypeInv, TypeOK
<1>4. Fits
  <2>1. job.kind = "template" \/ job.kind = "predicate"
    BY <1>3 DEF JobShape
  <2> QED
    BY <1>2, <1>3, <2>1 DEF Fits
<1>5. /\ start \in 1..(Len(text) + 1) /\ start \in Nat \ {0} /\ out \in Seq(Marks)
      /\ Len(out) = start - 1
      /\ \A k \in 1..(start - 1) : out[k] = Expected[k]
      /\ \A k \in start..Len(text) : Expected[k] = <<"source", k>>
  <2>1. start \in 1..(Len(text) + 1) /\ out \in Seq(Marks)
    BY <1>2 DEF TypeInv, TypeOK, Marks
  <2>2. i - 1 = Len(text)
    BY <1>2
  <2>3. /\ Len(out) = start - 1
        /\ \A k \in 1..(start - 1) : out[k] = Expected[k]
        /\ \A k \in start..(i - 1) : Expected[k] = <<"source", k>>
    BY <1>1, <1>2 DEF WalkInv, RenderedSoFar
  <2> QED
    BY <2>1, <2>2, <2>3
<1> DEFINE src == Source(start, Len(text))
           all == out \o src
           n == Len(text)
           ex == Expected
<1>6. /\ src \in Seq(Marks) /\ Len(src) = n - start + 1
      /\ \A k \in 1..(n - start + 1) : src[k] = <<"source", start + k - 1>>
  <2>1. start <= n + 1
    BY <1>5
  <2> QED
    BY <1>2, <1>5, <2>1, SourceTyped
<1> HIDE DEF src
<1>7. all \in Seq(Marks) /\ Len(all) = Len(out) + Len(src)
      /\ \A k \in 1..Len(all) : all[k] = IF k <= Len(out) THEN out[k] ELSE src[k - Len(out)]
  <2>1. out \in Seq(Marks) /\ src \in Seq(Marks)
    BY <1>5, <1>6
  <2> QED
    BY <2>1, ConcatProperties
<1> HIDE DEF all, ex, n
<1>n. n \in Nat
  BY <1>2 DEF n
<1>8. Len(all) = n
  BY <1>n, <1>5, <1>6, <1>7
<1>9. ASSUME NEW k \in 1..n PROVE all[k] = ex[k]
  <2>1. CASE k < start
    <3>1. k \in 1..(start - 1) /\ k <= Len(out) /\ k \in 1..Len(all)
      BY <1>n, <1>5, <1>8, <2>1
    <3> QED
      BY <3>1, <1>5, <1>7 DEF ex
  <2>2. CASE ~(k < start)
    <3> DEFINE j == k - Len(out)
    <3>1. k \in start..n /\ ~(k <= Len(out)) /\ k \in 1..Len(all)
          /\ j \in 1..(n - start + 1) /\ start + j - 1 = k
      BY <1>n, <1>5, <1>8, <2>2
    <3>2. all[k] = src[j]
      BY <3>1, <1>7
    <3>3. src[j] = <<"source", start + j - 1>>
      <4> HIDE DEF j
      <4> QED
        BY <3>1, <1>6
    <3>4. ex[k] = <<"source", k>>
      BY <3>1, <1>5 DEF ex, n
    <3> QED
      BY <3>1, <3>2, <3>3, <3>4
  <2> QED
    BY <2>1, <2>2
<1>10. all = ex
  <2>1. DOMAIN all = 1..n /\ all = [k \in 1..n |-> all[k]]
    <3>1. DOMAIN all = 1..n
      BY <1>7, <1>8, LenProperties
    <3>2. all \in [1..Len(all) -> Marks]
      BY <1>7, LenProperties
    <3> QED
      BY <1>8, <3>1, <3>2
  <2>2. ex = [k \in 1..n |-> ex[k]]
    <3>1. DOMAIN Conjunction(job.texts) = 1..n
      BY <1>2, <1>3 DEF n
    <3> QED
      BY <3>1 DEF ex, Expected
  <2> QED
    BY <1>9, <2>1, <2>2
<1>11. out' = Expected
  BY <1>1, <1>10 DEF all, src, ex
<1>12. Bound' = Cardinality(Questions(text))
  <2>1. DOMAIN out' = 1..n
    BY <1>7, <1>8, <1>10, <1>11, LenProperties DEF ex
  <2>2. \A k \in 1..n : out'[k][1] = "placeholder" <=> text[k] = "?"
    BY <1>2, <1>3, <1>11, PlaceholdersExpected DEF n
  <2>3. {k \in DOMAIN out' : out'[k][1] = "placeholder"} = Questions(text)
    BY <1>2, <2>1, <2>2 DEF Questions, n
  <2> QED
    BY <2>3 DEF Bound
<1>13. Bound' = FoldFunction(+, 0, job.values)
  BY <1>3, <1>4, <1>12, FittingValues
<1>14. RenderedAsRead'
  BY <1>1, <1>4, <1>11, <1>13, FitsUnmoved, ExpectedUnmoved, ValuesUnmoved DEF RenderedAsRead
<1> QED
  BY <1>1, <1>14 DEF ReadInv

\* Every step keeps the invariant.
LEMMA ReadStep == ReadInv /\ [Next]_vars => ReadInv'
<1> SUFFICES ASSUME ReadInv, [Next]_vars PROVE ReadInv'
  OBVIOUS
<1>1. TypeInv'
  BY TypeStep DEF ReadInv
<1>2. CASE UNCHANGED vars
  <2>1. UNCHANGED <<job, part, walk, text, i, inside, depth, start, out, count, scan>>
    BY <1>2 DEF vars
  <2>2. walk' \in {"scan", "render"} => WalkInv'
    <3>1. walk \in {"scan", "render"} => WalkInv
      BY DEF ReadInv
    <3>2. /\ OfJob' <=> OfJob
          /\ Position' <=> Position
          /\ SlotsCounted' <=> SlotsCounted
          /\ MarkersScanned' <=> MarkersScanned
          /\ ScopeKnown' <=> ScopeKnown
      BY <2>1 DEF OfJob, Position, SlotsCounted, MarkersScanned, ScopeKnown
    <3>3. RenderedSoFar' <=> RenderedSoFar
      BY <2>1, ExpectedUnmoved DEF RenderedSoFar
    <3> QED
      BY <2>1, <3>1, <3>2, <3>3 DEF WalkInv
  <2>3. RenderedAsRead'
    <3>1. Bound' = Bound
      BY <2>1 DEF Bound
    <3> QED
      BY <2>1, <3>1, FitsUnmoved, ExpectedUnmoved, ValuesUnmoved DEF ReadInv, RenderedAsRead
  <2> QED
    BY <1>1, <2>2, <2>3 DEF ReadInv
<1> QED
  BY <1>1, <1>2, ReadQuoted, ReadLineComment, ReadBlockComment, ReadDollarQuote, ReadOpening,
     ReadDoubleBrace, ReadQuestionMark, ReadOther, ReadScannedPredicate, ReadScannedTemplate,
     ReadRendered DEF Next

\* Every text is read as it ought to be.
THEOREM RenderedRight == Spec => []RenderedAsRead
<1>1. ReadInv => RenderedAsRead
  BY DEF ReadInv
<1> QED
  BY <1>1, ReadInit, ReadStep, PTL DEF Spec
==============================================================================
