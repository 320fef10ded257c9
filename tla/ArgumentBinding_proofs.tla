----------------------- MODULE ArgumentBinding_proofs -----------------------
(***************************************************************************)
(* Every placeholder gets its value, for all scopes, segments, rules and   *)
(* chunks.  The argument is one of numbering: a text rendered after an     *)
(* offset, put behind a text with that many values, reads as if it had     *)
(* been rendered in one piece (SlotsConcat).  So every predicate that is   *)
(* composed with its population is numbered from one, and the SELECT list  *)
(* of a shared chunk, moved check by check, is numbered after the          *)
(* population whatever the number of checks.                               *)
(*                                                                         *)
(* BindInv is the inductive invariant.  The statement that was sent says   *)
(* nothing of the next one: that one is made of the kept predicates, sent  *)
(* again for samples and keys, and of the SELECT list and its values,      *)
(* which grow in steps of their own.                                       *)
(***************************************************************************)
EXTENDS ArgumentBinding, SequenceTheorems, TLAPS

-----------------------------------------------------------------------------
(* Numbering.                                                              *)

\* A function on an initial segment of the naturals is a sequence.
LEMMA SequenceIntro ==
  ASSUME NEW S, NEW n \in Nat, NEW f \in [1..n -> S]
  PROVE  f \in Seq(S) /\ Len(f) = n /\ DOMAIN f = 1..n
OBVIOUS

\* The values one author brings.
LEMMA OwnFacts ==
  ASSUME NEW of \in Owners, NEW nth \in Nat, NEW n \in Nat
  PROVE  /\ Own(of, nth, n) \in Seq(Value) /\ Len(Own(of, nth, n)) = n
         /\ \A i \in 1..n : Own(of, nth, n)[i] = [of |-> of, nth |-> nth, at |-> i]
<1>1. Own(of, nth, n) \in [1..n -> Value]
  BY DEF Own, Value
<1> QED
  BY <1>1, SequenceIntro DEF Own

\* The placeholders written for some values, numbered after an offset.
LEMMA SlotsFacts ==
  ASSUME NEW wants \in Seq(Value), NEW offset \in Nat
  PROVE  /\ Slots(wants, offset) \in Seq(Slot)
         /\ Len(Slots(wants, offset)) = Len(wants)
         /\ \A i \in 1..Len(wants) :
              Slots(wants, offset)[i] = [n |-> Placeholder(offset + i), wants |-> wants[i]]
<1>1. DOMAIN wants = 1..Len(wants) /\ Len(wants) \in Nat /\ \A i \in 1..Len(wants) : wants[i] \in Value
  BY LenProperties, ElementOfSeq
<1>2. \A i \in 1..Len(wants) : [n |-> Placeholder(offset + i), wants |-> wants[i]] \in Slot
  BY <1>1 DEF Placeholder, Slot
<1>3. Slots(wants, offset) \in [1..Len(wants) -> Slot]
  BY <1>1, <1>2 DEF Slots
<1> QED
  BY <1>1, <1>3, SequenceIntro DEF Slots

\* Texts rendered one after the other are the text rendered at once, when the
\* second is numbered after the first.
LEMMA SlotsConcat ==
  ASSUME NEW a \in Seq(Value), NEW b \in Seq(Value), NEW offset \in Nat
  PROVE  Slots(a \o b, offset) = Slots(a, offset) \o Slots(b, offset + Len(a))
<1> DEFINE whole == Slots(a \o b, offset)
           left == Slots(a, offset)
           right == Slots(b, offset + Len(a))
<1>0. Len(a) \in Nat /\ Len(b) \in Nat /\ offset + Len(a) \in Nat
  BY LenProperties
<1>1. /\ a \o b \in Seq(Value) /\ Len(a \o b) = Len(a) + Len(b)
      /\ \A i \in 1..(Len(a) + Len(b)) :
           (a \o b)[i] = IF i <= Len(a) THEN a[i] ELSE b[i - Len(a)]
  BY ConcatProperties
<1>2. /\ left \in Seq(Slot) /\ Len(left) = Len(a)
      /\ \A i \in 1..Len(a) : left[i] = [n |-> Placeholder(offset + i), wants |-> a[i]]
  BY SlotsFacts
<1>3. /\ right \in Seq(Slot) /\ Len(right) = Len(b)
      /\ \A i \in 1..Len(b) :
           right[i] = [n |-> Placeholder(offset + Len(a) + i), wants |-> b[i]]
  BY <1>0, SlotsFacts
<1>4. /\ whole \in Seq(Slot) /\ Len(whole) = Len(a) + Len(b)
      /\ \A i \in 1..(Len(a) + Len(b)) :
           whole[i] = [n |-> Placeholder(offset + i), wants |-> (a \o b)[i]]
  <2> DEFINE c == a \o b
  <2>1. c \in Seq(Value) /\ Len(c) = Len(a) + Len(b)
    BY <1>1
  <2> HIDE DEF c
  <2>2. /\ Slots(c, offset) \in Seq(Slot) /\ Len(Slots(c, offset)) = Len(c)
        /\ \A i \in 1..Len(c) :
             Slots(c, offset)[i] = [n |-> Placeholder(offset + i), wants |-> c[i]]
    BY <2>1, SlotsFacts
  <2> QED
    BY <2>1, <2>2 DEF c
<1> HIDE DEF whole, left, right
<1>5. /\ left \o right \in Seq(Slot) /\ Len(left \o right) = Len(a) + Len(b)
      /\ \A i \in 1..(Len(a) + Len(b)) :
           (left \o right)[i] = IF i <= Len(a) THEN left[i] ELSE right[i - Len(a)]
  <2>1. left \in Seq(Slot) /\ right \in Seq(Slot) /\ Len(left) = Len(a) /\ Len(right) = Len(b)
    BY <1>2, <1>3
  <2>2. /\ left \o right \in Seq(Slot)
        /\ Len(left \o right) = Len(left) + Len(right)
        /\ \A i \in 1..(Len(left) + Len(right)) :
             (left \o right)[i] = IF i <= Len(left) THEN left[i] ELSE right[i - Len(left)]
    BY <2>1, ConcatProperties
  <2> QED
    BY <2>1, <2>2
<1>6. ASSUME NEW i \in 1..(Len(a) + Len(b)) PROVE whole[i] = (left \o right)[i]
  <2>1. CASE i <= Len(a)
    BY <2>1, <1>0, <1>1, <1>2, <1>4, <1>5
  <2>2. CASE ~(i <= Len(a))
    <3>1. i - Len(a) \in 1..Len(b) /\ offset + Len(a) + (i - Len(a)) = offset + i
      BY <2>2, <1>0
    <3>2. (left \o right)[i] = right[i - Len(a)] /\ (a \o b)[i] = b[i - Len(a)]
      BY <2>2, <1>1, <1>5
    <3>3. right[i - Len(a)] = [n |-> Placeholder(offset + i), wants |-> b[i - Len(a)]]
      BY <3>1, <1>3
    <3> QED
      BY <3>2, <3>3, <1>4
  <2> QED
    BY <2>1, <2>2
<1>7. whole = left \o right
  BY <1>4, <1>5, <1>6, SeqEqual
<1> QED
  BY <1>7 DEF whole, left, right
\* A text whose placeholders mean the values it brings, in the same order.
Balanced(pop) == pop.values \in Seq(Value) /\ pop.slots = pop.values

\* A predicate whose placeholders mean its arguments, numbered after an offset.
Aligned(pred, offset) ==
  /\ pred \in Predicate
  /\ pred.where = Slots(pred.args, offset)

\* A fragment with as many placeholders as values is balanced.
LEMMA TrustBalanced ==
  ASSUME NEW of \in Owners, NEW n \in Nat, NEW f, f.values \in Nat, f.slots = f.values
  PROVE  Balanced(Trust(of, n, f))
<1>2. Own(of, n, f.values) \in Seq(Value)
  BY OwnFacts
<1> QED
  BY <1>2 DEF Trust, Balanced

\* So are two of them together.
LEMMA ConjoinBalanced ==
  ASSUME NEW p, NEW q, Balanced(p), Balanced(q)
  PROVE  Balanced(Conjoin(p, q))
<1>1. p.values \o q.values \in Seq(Value)
  BY ConcatProperties DEF Balanced
<1> QED
  BY <1>1 DEF Balanced, Conjoin

\* RenderAt numbers after the offset it is given.
LEMMA RenderAligned ==
  ASSUME NEW pop, Balanced(pop), NEW offset \in Nat
  PROVE  Aligned(RenderAt(pop, offset), offset)
<1>1. Slots(pop.values, offset) \in Seq(Slot)
  BY SlotsFacts DEF Balanced
<1> QED
  BY <1>1 DEF Aligned, RenderAt, Balanced, Predicate

\* argBinder numbers after the values of the population.
LEMMA BinderAligned ==
  ASSUME NEW pop, Balanced(pop), NEW nth \in Nat, NEW n \in Nat
  PROVE  Aligned(ScopedArgBinder(pop, nth, n), Len(pop.values))
<1>1. Own("rule", nth, n) \in Seq(Value) /\ Len(pop.values) \in Nat
  BY OwnFacts, LenProperties DEF Balanced, Owners
<1>2. Slots(Own("rule", nth, n), Len(pop.values)) \in Seq(Slot)
  BY <1>1, SlotsFacts
<1> QED
  BY <1>1, <1>2 DEF Aligned, ScopedArgBinder, Predicate

\* Nothing is aligned anywhere.
LEMMA NothingAligned ==
  ASSUME NEW offset \in Nat
  PROVE  Aligned(NoPredicate, offset) /\ Slots(<<>>, offset) = <<>>
<1>1. <<>> \in Seq(Value) /\ <<>> \in Seq(Slot) /\ Len(<<>>) = 0
  BY EmptySeq
<1>2. Slots(<<>>, offset) \in Seq(Slot) /\ Len(Slots(<<>>, offset)) = 0
  BY <1>1, SlotsFacts
<1>3. Slots(<<>>, offset) = <<>>
  BY <1>1, <1>2, SeqEqual
<1> QED
  BY <1>1, <1>3 DEF Aligned, NoPredicate, Predicate

\* A predicate numbered after its population, composed with it, is numbered from
\* one.
LEMMA ComposeAligned ==
  ASSUME NEW pop, Balanced(pop), NEW pred, Aligned(pred, Len(pop.values))
  PROVE  /\ Aligned(ComposeRowPredicateWithScope(pop, pred), 0)
         /\ ComposeRowPredicateWithScope(pop, pred).args = pop.values \o pred.args
<1>1. /\ pop.values \in Seq(Value) /\ pred.args \in Seq(Value) /\ pred.where \in Seq(Slot)
      /\ Slots(pop.values, 0) \in Seq(Slot)
  BY SlotsFacts DEF Balanced, Aligned, Predicate
<1>2. Len(pop.values) \in Nat /\ 0 + Len(pop.values) = Len(pop.values)
  BY <1>1, LenProperties
<1>3. Slots(pop.values \o pred.args, 0) = Slots(pop.values, 0) \o pred.where
  <2>1. Slots(pop.values \o pred.args, 0)
          = Slots(pop.values, 0) \o Slots(pred.args, 0 + Len(pop.values))
    BY <1>1, SlotsConcat
  <2> QED
    BY <1>2, <2>1 DEF Aligned
<1>4. pop.values \o pred.args \in Seq(Value) /\ Slots(pop.values, 0) \o pred.where \in Seq(Slot)
  BY <1>1, ConcatProperties
<1>5. ComposeRowPredicateWithScope(pop, pred) =
        [where |-> Slots(pop.values, 0) \o pred.where, args |-> pop.values \o pred.args]
  BY DEF ComposeRowPredicateWithScope, RenderAt, Balanced
<1> QED
  BY <1>3, <1>4, <1>5 DEF Aligned, Predicate

\* LIMIT binds one argument more.
LEMMA LimitAligned ==
  ASSUME NEW pred, Aligned(pred, 0)
  PROVE  Aligned(WithLimit(pred), 0) /\ WithLimit(pred).args = pred.args \o <<LimitArg>>
<1>1. /\ pred.args \in Seq(Value) /\ pred.where = Slots(pred.args, 0)
      /\ pred.where \in Seq(Slot) /\ LimitArg \in Value
  BY DEF Aligned, Predicate, LimitArg, Value, Owners
<1>2. <<LimitArg>> \in Seq(Value) /\ Len(pred.args) \in Nat /\ 0 + Len(pred.args) = Len(pred.args)
  BY <1>1, LenProperties
<1>3. Append(pred.args, LimitArg) = pred.args \o <<LimitArg>>
  BY <1>1, AppendIsConcat
<1>4. Slots(pred.args \o <<LimitArg>>, 0) = pred.where \o Slots(<<LimitArg>>, Len(pred.args))
  <2>1. Slots(pred.args \o <<LimitArg>>, 0)
          = Slots(pred.args, 0) \o Slots(<<LimitArg>>, 0 + Len(pred.args))
    BY <1>1, <1>2, SlotsConcat
  <2> QED
    BY <1>1, <1>2, <2>1
<1>5. pred.args \o <<LimitArg>> \in Seq(Value)
  BY <1>1, <1>2, ConcatProperties
<1>6. Slots(pred.args \o <<LimitArg>>, 0) \in Seq(Slot)
  BY <1>5, SlotsFacts
<1> QED
  BY <1>3, <1>4, <1>5, <1>6 DEF Aligned, Predicate, WithLimit

\* What a driver needs of a statement.
Bound(stmt) ==
  /\ Matched(stmt)
  /\ \A k \in DOMAIN stmt.args : \E i \in DOMAIN stmt.text : Filled(stmt, i) = k

\* A statement made of a predicate numbered from one is fully bound, whether the
\* driver fills by number or in text order.
LEMMA AlignedBound ==
  ASSUME NEW pred, Aligned(pred, 0), NEW on
  PROVE  Bound([on |-> on, text |-> pred.where, args |-> pred.args])
<1>1. pred.args \in Seq(Value) /\ pred.where = Slots(pred.args, 0)
  BY DEF Aligned, Predicate
<1>2. /\ DOMAIN pred.args = 1..Len(pred.args) /\ Len(pred.args) \in Nat
      /\ pred.where \in Seq(Slot) /\ Len(pred.where) = Len(pred.args)
      /\ \A i \in 1..Len(pred.args) :
           pred.where[i] = [n |-> Placeholder(0 + i), wants |-> pred.args[i]]
  BY <1>1, LenProperties, SlotsFacts
<1>3. DOMAIN pred.where = 1..Len(pred.args)
  BY <1>2, LenProperties
<1>4. ASSUME NEW i \in 1..Len(pred.args)
      PROVE  /\ pred.where[i].wants = pred.args[i]
             /\ style # "question" => pred.where[i].n = i
  <2>1. pred.where[i] = [n |-> Placeholder(0 + i), wants |-> pred.args[i]]
    BY <1>2
  <2>2. style # "question" => Placeholder(0 + i) = i
    BY <1>2 DEF Placeholder
  <2> QED
    BY <2>1, <2>2
<1> QED
  BY <1>2, <1>3, <1>4 DEF Bound, Matched, Filled


-----------------------------------------------------------------------------
(* Accepted options and rules.                                             *)

\* What Evaluate lets through, and the rule before the first.
RuleInv == rule \in Rules \cup {NoRule} /\ Accepted(rule)

\* What Configure lets through.
Configured ==
  phase \notin {"config", "refused"} =>
    /\ scope.slots = scope.values
    /\ segments # <<>> =>
         /\ at \in DOMAIN segments
         /\ \A i \in DOMAIN segments : segments[i].slots = segments[i].values

\* What the proofs need of an accepted rule.
LEMMA RuleTyped ==
  ASSUME RuleInv
  PROVE  /\ rule.own.values \in Nat /\ rule.when.values \in Nat
         /\ rule.chunk \in Seq(Nat) /\ rule.kind \in Kinds
         /\ rule.when.slots = rule.when.values
         /\ rule.kind \in {"reference", "reconcile", "custom"} => rule.own.slots = rule.own.values
         /\ rule.kind = "custom" => rule.early = 0
<1>1. CASE rule \in Rules
  <2>1. rule \in Rule
    BY <1>1, InputsAssumption
  <2>2. rule.own \in Fragment /\ rule.when \in Fragment
        /\ rule.chunk \in Seq(Nat) /\ rule.kind \in Kinds
    BY <2>1 DEF Rule
  <2>3. rule.own.values \in Nat /\ rule.when.values \in Nat
    BY <2>2 DEF Fragment
  <2>4. Absent.slots = Absent.values
    BY DEF Absent
  <2>5. rule.when.slots = rule.when.values
    BY <2>4 DEF RuleInv, Accepted, Given, ValidFragment
  <2>6. rule.kind \in {"reference", "reconcile"} => rule.own.slots = rule.own.values
    BY <2>4 DEF RuleInv, Accepted, Given, ValidFragment
  <2>7. rule.kind = "custom" => rule.early = 0 /\ rule.own.slots = rule.own.values
    BY DEF RuleInv, Accepted, ScanTemplate
  <2> QED
    BY <2>2, <2>3, <2>5, <2>6, <2>7
<1>2. CASE rule = NoRule
  <2>1. <<>> \in Seq(Nat)
    BY EmptySeq
  <2> QED
    BY <1>2, <2>1 DEF NoRule, Absent, Kinds
<1> QED
  BY <1>1, <1>2 DEF RuleInv

\* The scope of the segment under evaluation is balanced once it is accepted.
LEMMA ActiveBalanced ==
  ASSUME scope \in Scopes, segments \in Segmented, Configured, at \in Nat \ {0},
         phase \notin {"config", "refused"}
  PROVE  Balanced(ActiveScope)
<1>1. /\ scope.values \in Nat /\ scope.slots = scope.values
      /\ segments \in Seq(Fragment)
  BY InputsAssumption DEF Configured, Fragment
<1>2. Balanced(Trust("scope", 0, scope))
  BY <1>1, TrustBalanced DEF Owners
<1>3. CASE segments = <<>>
  BY <1>2, <1>3 DEF ActiveScope
<1>4. CASE segments # <<>>
  <2>1. at \in DOMAIN segments /\ segments[at].slots = segments[at].values
    BY <1>4 DEF Configured
  <2>2. segments[at].values \in Nat
    <3>1. segments[at] \in Fragment
      BY <1>1, <2>1, LenProperties, ElementOfSeq
    <3> QED
      BY <3>1 DEF Fragment
  <2>3. Balanced(Trust("segment", at, segments[at]))
    BY <2>1, <2>2, TrustBalanced DEF Owners
  <2> QED
    BY <1>2, <1>4, <2>3, ConjoinBalanced DEF ActiveScope
<1> QED
  BY <1>3, <1>4

\* And so is the population of the rule.
LEMMA EffectiveBalanced ==
  ASSUME Balanced(ActiveScope), RuleInv
  PROVE  Balanced(Effective)
<1>1. Balanced(Trust("when", 0, rule.when))
  BY RuleTyped, TrustBalanced DEF Owners
<1> QED
  BY <1>1, ConjoinBalanced DEF Effective

\* Whatever the kind of the rule, its predicate is numbered after the population.
LEMMA RawAligned ==
  ASSUME RuleInv, NEW pop, Balanced(pop)
  PROVE  Aligned(RawPredicate(pop), Len(pop.values))
<1>0. Len(pop.values) \in Nat
  BY LenProperties DEF Balanced
<1>1. rule.own.values \in Nat
  BY RuleTyped
<1>2. /\ Aligned(ScopedArgBinder(pop, 0, rule.own.values), Len(pop.values))
      /\ Aligned(ScopedArgBinder(pop, 0, 1), Len(pop.values))
      /\ Aligned(RenderAt(pop, Len(pop.values)), Len(pop.values))
      /\ Aligned(NoPredicate, Len(pop.values))
  BY <1>0, <1>1, BinderAligned, RenderAligned, NothingAligned
<1>3. rule.kind = "reference" =>
        Aligned(ReferenceOrphanPredicate(pop, rule.own), Len(pop.values))
  <2>1. rule.kind = "reference" => Balanced(Trust("rule", 0, rule.own))
    BY <1>1, RuleTyped, TrustBalanced DEF Owners
  <2> QED
    BY <1>0, <2>1, RenderAligned DEF ReferenceOrphanPredicate
<1> QED
  BY <1>2, <1>3
  DEF RawPredicate, PerRowPredicate, PatternPredicate, CompositeDuplicatePredicate,
      FrequencyPredicate, DuplicateValuePredicate

\* A template whose own placeholders follow the scope marker is numbered from one.
LEMMA CustomAligned ==
  ASSUME RuleInv, rule.kind = "custom", NEW pop, Balanced(pop)
  PROVE  /\ Aligned(RenderTrustedCount(pop, rule), 0)
         /\ \E rest \in Seq(Value) : RenderTrustedCount(pop, rule).args = pop.values \o rest
<1> DEFINE own == Own("rule", 0, rule.own.values)
           custom == Slots(own, Len(pop.values))
<1>1. /\ rule.early = 0 /\ rule.own.slots = rule.own.values /\ rule.own.values \in Nat
      /\ rule.early + rule.own.slots = rule.own.values
  BY RuleTyped
<1>2. /\ own \in Seq(Value) /\ pop.values \in Seq(Value)
      /\ Len(pop.values) \in Nat /\ 0 + Len(pop.values) = Len(pop.values)
  <2>0. rule.own.values \in Nat /\ "rule" \in Owners
    BY <1>1 DEF Owners
  <2>1. own \in Seq(Value)
    BY <2>0, OwnFacts
  <2>2. pop.values \in Seq(Value)
    BY DEF Balanced
  <2>3. Len(pop.values) \in Nat
    BY <2>2, LenProperties
  <2> QED
    BY <2>1, <2>2, <2>3
<1>3. custom \in Seq(Slot)
  BY <1>2, SlotsFacts
<1> HIDE DEF own, custom
<1>4. SubSeq(custom, 1, 0) = <<>> /\ SubSeq(custom, 1, Len(custom)) = custom
  BY <1>3, SubSeqEmpty, SubSeqFull
<1>5. RenderTrustedCount(pop, rule) =
        [where |-> <<>> \o Slots(pop.values, 0) \o custom, args |-> pop.values \o own]
  <2>1. RenderAt(pop, 0).where = Slots(pop.values, 0) /\ rule.early + 1 = 1
    BY <1>1 DEF RenderAt, Balanced
  <2>2. Slots(Own("rule", 0, rule.early + rule.own.slots), Len(pop.values)) = custom
    BY <1>1 DEF custom, own
  <2>3. RenderTrustedCount(pop, rule) =
          [where |-> SubSeq(custom, 1, rule.early) \o RenderAt(pop, 0).where
                       \o SubSeq(custom, rule.early + 1, Len(custom)),
           args  |-> pop.values \o own]
    BY <2>2 DEF RenderTrustedCount, own
  <2> QED
    BY <1>1, <1>4, <2>1, <2>3
<1>6. Slots(pop.values, 0) \in Seq(Slot)
  BY <1>2, SlotsFacts
<1>7. <<>> \o Slots(pop.values, 0) = Slots(pop.values, 0)
  BY <1>6, ConcatEmptySeq
<1>8. Slots(pop.values \o own, 0) = Slots(pop.values, 0) \o custom
  <2>1. Slots(pop.values \o own, 0) = Slots(pop.values, 0) \o Slots(own, 0 + Len(pop.values))
    BY <1>2, SlotsConcat
  <2> QED
    BY <1>2, <2>1 DEF custom
<1>9. pop.values \o own \in Seq(Value) /\ Slots(pop.values, 0) \o custom \in Seq(Slot)
  BY <1>2, <1>3, <1>6, ConcatProperties
<1>10. RenderTrustedCount(pop, rule) =
         [where |-> Slots(pop.values \o own, 0), args |-> pop.values \o own]
  BY <1>5, <1>7, <1>8
<1>11. Aligned(RenderTrustedCount(pop, rule), 0)
  <2>1. Slots(pop.values \o own, 0) \in Seq(Slot)
    BY <1>8, <1>9
  <2> QED
    BY <1>9, <1>10, <2>1 DEF Aligned, Predicate
<1>12. own \in Seq(Value) /\ RenderTrustedCount(pop, rule).args = pop.values \o own
  BY <1>2, <1>10
<1> QED
  BY <1>11, <1>12

\* The shared statement, whose SELECT list comes first.
LEMMA SharedBound ==
  ASSUME style \in Styles, style # "other", Balanced(ActiveScope), predArgs \in Seq(Value),
         targets = Slots(predArgs, Len(ActiveScope.values)), NEW on
  PROVE  Bound([on |-> on, text |-> SharedStatement.where, args |-> SharedStatement.args])
<1> DEFINE pop == ActiveScope.values
           a == Len(pop)
           b == Len(predArgs)
           text == targets \o Slots(pop, 0)
<1>1. pop \in Seq(Value) /\ a \in Nat /\ b \in Nat
  BY LenProperties DEF Balanced
<1>2. /\ targets \in Seq(Slot) /\ Len(targets) = b
      /\ \A i \in 1..b : targets[i] = [n |-> Placeholder(a + i), wants |-> predArgs[i]]
  BY <1>1, SlotsFacts
<1>3. /\ Slots(pop, 0) \in Seq(Slot) /\ Len(Slots(pop, 0)) = a
      /\ \A i \in 1..a : Slots(pop, 0)[i] = [n |-> Placeholder(0 + i), wants |-> pop[i]]
  BY <1>1, SlotsFacts
<1>4. SharedStatement = [where |-> text, args |-> SharedArgs]
  BY DEF SharedStatement, RenderAt, Balanced
<1> HIDE DEF pop, a, b
<1>5. /\ text \in Seq(Slot) /\ DOMAIN text = 1..(a + b)
      /\ \A i \in 1..(a + b) :
           text[i] = IF i <= b THEN targets[i] ELSE Slots(pop, 0)[i - b]
  <2>1. /\ text \in Seq(Slot) /\ Len(text) = Len(targets) + Len(Slots(pop, 0))
        /\ \A i \in 1..(Len(targets) + Len(Slots(pop, 0))) :
             text[i] = IF i <= Len(targets) THEN targets[i] ELSE Slots(pop, 0)[i - Len(targets)]
    <3>1. targets \in Seq(Slot) /\ Slots(pop, 0) \in Seq(Slot)
      BY <1>2, <1>3
    <3> QED
      BY <3>1, ConcatProperties
  <2> HIDE DEF text
  <2>2. DOMAIN text = 1..Len(text)
    <3>1. text \in Seq(Slot)
      BY <2>1
    <3> QED
      BY <3>1, LenProperties
  <2>3. Len(targets) + Len(Slots(pop, 0)) = a + b
    <3>1. Len(targets) = b /\ Len(Slots(pop, 0)) = a /\ a \in Nat /\ b \in Nat
      BY <1>1, <1>2, <1>3
    <3> QED
      BY <3>1
  <2> QED
    BY <1>2, <2>1, <2>2, <2>3
<1> HIDE DEF text
<1>6. CASE style = "question"
  <2>1. SharedArgs = predArgs \o pop
    BY <1>6 DEF SharedArgs, pop
  <2>2. /\ predArgs \o pop \in Seq(Value) /\ Len(predArgs \o pop) = b + a
        /\ \A i \in 1..(b + a) :
             (predArgs \o pop)[i] = IF i <= b THEN predArgs[i] ELSE pop[i - b]
    BY <1>1, ConcatProperties DEF a, b
  <2>3. DOMAIN (predArgs \o pop) = 1..(a + b)
    <3>1. DOMAIN (predArgs \o pop) = 1..Len(predArgs \o pop)
      BY <2>2, LenProperties
    <3> QED
      BY <1>1, <2>2, <3>1
  <2>4. ASSUME NEW i \in 1..(a + b)
        PROVE  text[i].wants = (predArgs \o pop)[i]
    <3>1. CASE i <= b
      <4>1. i \in 1..b
        BY <1>1, <3>1
      <4>2. text[i] = targets[i]
        BY <1>5, <3>1
      <4>4. (predArgs \o pop)[i] = predArgs[i]
        BY <1>1, <2>2, <3>1
      <4>3. targets[i] = [n |-> Placeholder(a + i), wants |-> predArgs[i]]
        BY <1>2, <4>1
      <4> QED
        BY <4>2, <4>3, <4>4
    <3>2. CASE ~(i <= b)
      <4>1. i - b \in 1..a
        BY <1>1, <3>2
      <4>2. Slots(pop, 0)[i - b] = [n |-> Placeholder(0 + (i - b)), wants |-> pop[i - b]]
        BY <1>3, <4>1
      <4>3. text[i] = Slots(pop, 0)[i - b]
        BY <1>5, <3>2
      <4>4. (predArgs \o pop)[i] = pop[i - b]
        BY <1>1, <2>2, <3>2
      <4> QED
        BY <4>2, <4>3, <4>4
    <3> QED
      BY <3>1, <3>2
  <2> QED
    BY <1>4, <1>5, <1>6, <2>1, <2>3, <2>4 DEF Bound, Matched, Filled
<1>7. CASE style # "question"
  <2>1. SharedArgs = pop \o predArgs
    BY <1>7 DEF SharedArgs, pop
  <2>2. /\ pop \o predArgs \in Seq(Value) /\ Len(pop \o predArgs) = a + b
        /\ \A i \in 1..(a + b) :
             (pop \o predArgs)[i] = IF i <= a THEN pop[i] ELSE predArgs[i - a]
    BY <1>1, ConcatProperties DEF a, b
  <2>3. DOMAIN (pop \o predArgs) = 1..(a + b)
    <3>1. DOMAIN (pop \o predArgs) = 1..Len(pop \o predArgs)
      BY <2>2, LenProperties
    <3> QED
      BY <2>2, <3>1
  <2>4. \A n \in Nat : Placeholder(n) = n
    BY <1>7 DEF Placeholder
  <2>5. ASSUME NEW i \in 1..b
        PROVE  /\ i \in 1..(a + b) /\ a + i \in 1..(a + b)
               /\ text[i].n = a + i /\ text[i].wants = (pop \o predArgs)[a + i]
    <3>1. i \in 1..(a + b) /\ a + i \in 1..(a + b) /\ a + i \in Nat /\ i <= b
          /\ ~(a + i <= a) /\ (a + i) - a = i
      BY <1>1
    <3>2. text[i] = [n |-> a + i, wants |-> predArgs[i]]
      BY <1>2, <1>5, <2>4, <3>1
    <3>3. (pop \o predArgs)[a + i] = predArgs[i]
      BY <2>2, <3>1
    <3> QED
      BY <3>1, <3>2, <3>3
  <2>6. ASSUME NEW i \in 1..a
        PROVE  /\ b + i \in 1..(a + b) /\ i \in 1..(a + b)
               /\ text[b + i].n = i /\ text[b + i].wants = (pop \o predArgs)[i]
    <3>1. b + i \in 1..(a + b) /\ i \in 1..(a + b) /\ i \in Nat /\ 0 + i = i /\ i <= a
          /\ ~(b + i <= b) /\ (b + i) - b = i
      BY <1>1
    <3>2. text[b + i] = Slots(pop, 0)[i]
      BY <1>5, <3>1
    <3>3. Slots(pop, 0)[i] = [n |-> i, wants |-> pop[i]]
      BY <1>3, <2>4, <3>1
    <3>4. (pop \o predArgs)[i] = pop[i]
      BY <2>2, <3>1
    <3> QED
      BY <3>1, <3>2, <3>3, <3>4
  <2>7. ASSUME NEW i \in 1..(a + b)
        PROVE  /\ text[i].n \in 1..(a + b)
               /\ (pop \o predArgs)[text[i].n] = text[i].wants
    <3>1. CASE i <= b
      <4>1. i \in 1..b
        BY <1>1, <3>1
      <4> QED
        BY <2>5, <4>1
    <3>2. CASE ~(i <= b)
      <4>1. i - b \in 1..a /\ b + (i - b) = i
        BY <1>1, <3>2
      <4>2. PICK j \in 1..a : i = b + j
        BY <4>1
      <4> QED
        BY <2>6, <4>2
    <3> QED
      BY <3>1, <3>2
  <2>8. ASSUME NEW k \in 1..(a + b)
        PROVE  \E i \in 1..(a + b) : text[i].n = k
    <3>1. CASE k <= a
      <4>1. k \in 1..a
        BY <1>1, <3>1
      <4> QED
        BY <2>6, <4>1
    <3>2. CASE ~(k <= a)
      <4>1. k - a \in 1..b /\ a + (k - a) = k
        BY <1>1, <3>2
      <4> QED
        BY <2>5, <4>1
    <3> QED
      BY <3>1, <3>2
  <2> QED
    BY <1>4, <1>5, <1>7, <2>1, <2>3, <2>7, <2>8 DEF Bound, Matched, Filled
<1> QED
  BY <1>6, <1>7


-----------------------------------------------------------------------------
(* The population.                                                         *)

\* Every value of S is among the arguments.
Carried(args, S) == \A v \in S : \E k \in 1..Len(args) : args[k] = v

\* What either list carries, both together carry.
LEMMA CarriedConcat ==
  ASSUME NEW a \in Seq(Value), NEW b \in Seq(Value), NEW S, Carried(a, S) \/ Carried(b, S)
  PROVE  Carried(a \o b, S)
<1>1. Len(a) \in Nat /\ Len(b) \in Nat
  BY LenProperties
<1>2. /\ Len(a \o b) = Len(a) + Len(b)
      /\ \A i \in 1..(Len(a) + Len(b)) :
           (a \o b)[i] = IF i <= Len(a) THEN a[i] ELSE b[i - Len(a)]
  BY ConcatProperties
<1> SUFFICES ASSUME NEW v \in S PROVE \E k \in 1..Len(a \o b) : (a \o b)[k] = v
  BY DEF Carried
<1>3. CASE Carried(a, S)
  <2>1. PICK k \in 1..Len(a) : a[k] = v
    BY <1>3 DEF Carried
  <2>2. k \in 1..(Len(a) + Len(b)) /\ k <= Len(a)
    BY <1>1
  <2> QED
    BY <1>2, <2>1, <2>2
<1>4. CASE Carried(b, S)
  <2>1. PICK k \in 1..Len(b) : b[k] = v
    BY <1>4 DEF Carried
  <2>2. PICK j \in 1..(Len(a) + Len(b)) : ~(j <= Len(a)) /\ j - Len(a) = k
    <3>1. Len(a) + k \in 1..(Len(a) + Len(b)) /\ ~(Len(a) + k <= Len(a))
          /\ (Len(a) + k) - Len(a) = k
      BY <1>1
    <3> QED
      BY <3>1
  <2> QED
    BY <1>2, <2>1, <2>2
<1> QED
  BY <1>3, <1>4

\* An author's values carry themselves.
LEMMA OwnCarried ==
  ASSUME NEW of \in Owners, NEW n \in Nat, NEW m \in Nat
  PROVE  Carried(Own(of, n, m), [of: {of}, nth: {n}, at: 1..m])
<1> SUFFICES ASSUME NEW v \in [of: {of}, nth: {n}, at: 1..m]
             PROVE  \E k \in 1..Len(Own(of, n, m)) : Own(of, n, m)[k] = v
  BY DEF Carried
<1>1. PICK k \in 1..m : v = [of |-> of, nth |-> n, at |-> k]
  <2>1. v = [of |-> of, nth |-> n, at |-> v.at]
    OBVIOUS
  <2> QED
    BY <2>1
<1>2. Len(Own(of, n, m)) = m /\ Own(of, n, m)[k] = [of |-> of, nth |-> n, at |-> k]
  BY OwnFacts
<1> QED
  BY <1>1, <1>2

\* The values of the scope, the segment and the eligibility are those of the
\* population of the rule; without eligibility, those of scope and segment.
LEMMA PopulationCarried ==
  ASSUME scope \in Scopes, segments \in Segmented, Configured, at \in Nat \ {0},
         phase \notin {"config", "refused"}, RuleInv
  PROVE  /\ Carried(Effective.values, PopulationValues)
         /\ rule.when = Absent => Carried(ActiveScope.values, PopulationValues)
<1> DEFINE scoped == Own("scope", 0, scope.values)
           cut == Own("segment", at, segments[at].values)
           fit == Own("when", 0, rule.when.values)
           Scoped == [of: {"scope"}, nth: {0}, at: 1..scope.slots]
           Cut == [of: {"segment"}, nth: {at}, at: 1..segments[at].slots]
           Fit == [of: {"when"}, nth: {0}, at: 1..rule.when.slots]
           Active == IF segments = <<>> THEN Scoped ELSE Scoped \cup Cut
<1>1. /\ scope.values \in Nat /\ scope.slots = scope.values
      /\ segments \in Seq(Fragment)
  BY InputsAssumption DEF Configured, Fragment
<1>2. scoped \in Seq(Value) /\ Carried(scoped, Scoped)
  BY <1>1, OwnFacts, OwnCarried DEF Owners
<1>3. rule.when.values \in Nat /\ rule.when.slots = rule.when.values
  BY RuleTyped
<1>4. fit \in Seq(Value) /\ Carried(fit, Fit)
  BY <1>3, OwnFacts, OwnCarried DEF Owners
<1>5. segments # <<>> => cut \in Seq(Value) /\ Carried(cut, Cut)
  <2> SUFFICES ASSUME segments # <<>> PROVE cut \in Seq(Value) /\ Carried(cut, Cut)
    OBVIOUS
  <2>1. at \in DOMAIN segments /\ segments[at].slots = segments[at].values
    BY DEF Configured
  <2>2. segments[at] \in Fragment
    BY <1>1, <2>1, LenProperties, ElementOfSeq
  <2>3. segments[at].values \in Nat
    BY <2>2 DEF Fragment
  <2> QED
    BY <2>1, <2>3, OwnFacts, OwnCarried DEF Owners
<1>6. PopulationValues = Active \cup Fit
  BY DEF PopulationValues
<1>7. ActiveScope.values = IF segments = <<>> THEN scoped ELSE scoped \o cut
  BY DEF ActiveScope, Trust, Conjoin
<1>8. Effective.values = ActiveScope.values \o fit
  BY DEF Effective, Conjoin, Trust
<1>9. rule.when = Absent => Fit = {}
  <2>1. rule.when = Absent => rule.when.slots = 0
    BY DEF Absent
  <2> QED
    BY <2>1
<1> HIDE DEF scoped, cut, fit, Scoped, Cut, Fit
<1>10. ActiveScope.values \in Seq(Value) /\ Carried(ActiveScope.values, Active)
  <2>1. CASE segments = <<>>
    BY <1>2, <1>7, <2>1
  <2>2. CASE segments # <<>>
    <3>1. scoped \o cut \in Seq(Value)
      BY <1>2, <1>5, <2>2, ConcatProperties
    <3>2. Carried(scoped \o cut, Scoped) /\ Carried(scoped \o cut, Cut)
      BY <1>2, <1>5, <2>2, CarriedConcat
    <3>3. Carried(scoped \o cut, Scoped \cup Cut)
      BY <3>2 DEF Carried
    <3> QED
      BY <1>7, <2>2, <3>1, <3>3
  <2> QED
    BY <2>1, <2>2
<1> HIDE DEF Active
<1>11. Carried(Effective.values, Active) /\ Carried(Effective.values, Fit)
  BY <1>4, <1>8, <1>10, CarriedConcat
<1>12. Carried(Effective.values, PopulationValues)
  BY <1>6, <1>11 DEF Carried
<1>13. rule.when = Absent => PopulationValues = Active
  BY <1>6, <1>9
<1> QED
  BY <1>10, <1>12, <1>13

\* A text holds what its arguments carry.
LEMMA AlignedHeld ==
  ASSUME NEW pred, Aligned(pred, 0), NEW S, Carried(pred.args, S)
  PROVE  S \subseteq {pred.where[k].wants : k \in DOMAIN pred.where}
<1>1. pred.args \in Seq(Value) /\ pred.where = Slots(pred.args, 0)
  BY DEF Aligned, Predicate
<1>2. /\ pred.where \in Seq(Slot) /\ Len(pred.where) = Len(pred.args)
      /\ \A i \in 1..Len(pred.args) :
           pred.where[i] = [n |-> Placeholder(0 + i), wants |-> pred.args[i]]
  BY <1>1, SlotsFacts
<1>3. DOMAIN pred.where = 1..Len(pred.args)
  BY <1>2, LenProperties
<1>4. ASSUME NEW i \in 1..Len(pred.args) PROVE pred.where[i].wants = pred.args[i]
  <2>1. pred.where[i] = [n |-> Placeholder(0 + i), wants |-> pred.args[i]]
    BY <1>2
  <2> QED
    BY <2>1
<1> QED
  BY <1>3, <1>4 DEF Carried

\* The statement of a shared chunk holds what its scope carries.
LEMMA SharedHeld ==
  ASSUME Balanced(ActiveScope), targets \in Seq(Slot), NEW S, Carried(ActiveScope.values, S)
  PROVE  /\ SharedStatement.where \in Seq(Slot)
         /\ S \subseteq {SharedStatement.where[k].wants : k \in DOMAIN SharedStatement.where}
<1> DEFINE pop == ActiveScope.values
           tail == Slots(pop, 0)
           text == targets \o tail
<1>1. pop \in Seq(Value) /\ Len(pop) \in Nat /\ Len(targets) \in Nat
  BY LenProperties DEF Balanced
<1>2. /\ tail \in Seq(Slot) /\ Len(tail) = Len(pop)
      /\ \A i \in 1..Len(pop) : tail[i] = [n |-> Placeholder(0 + i), wants |-> pop[i]]
  BY <1>1, SlotsFacts
<1>3. SharedStatement.where = text
  BY DEF SharedStatement, RenderAt, Balanced
<1> HIDE DEF pop, tail
<1>4. /\ text \in Seq(Slot) /\ Len(text) = Len(targets) + Len(tail)
      /\ \A i \in 1..(Len(targets) + Len(tail)) :
           text[i] = IF i <= Len(targets) THEN targets[i] ELSE tail[i - Len(targets)]
  <2>1. targets \in Seq(Slot) /\ tail \in Seq(Slot)
    BY <1>2
  <2> QED
    BY <2>1, ConcatProperties
<1> HIDE DEF text
<1>5. DOMAIN text = 1..Len(text)
  BY <1>4, LenProperties
<1>6. ASSUME NEW v \in S PROVE \E k \in DOMAIN text : text[k].wants = v
  <2>1. PICK i \in 1..Len(pop) : pop[i] = v
    BY DEF Carried, pop
  <2>2. tail[i].wants = v
    <3>1. tail[i] = [n |-> Placeholder(0 + i), wants |-> pop[i]]
      BY <1>2
    <3> QED
      BY <2>1, <3>1
  <2>3. PICK j \in 1..(Len(targets) + Len(tail)) : ~(j <= Len(targets)) /\ j - Len(targets) = i
    <3>1. Len(targets) + i \in 1..(Len(targets) + Len(tail))
          /\ ~(Len(targets) + i <= Len(targets)) /\ (Len(targets) + i) - Len(targets) = i
      BY <1>1, <1>2
    <3> QED
      BY <3>1
  <2>4. text[j] = tail[i] /\ j \in DOMAIN text
    BY <1>4, <1>5, <2>3
  <2> QED
    BY <2>2, <2>4
<1> QED
  BY <1>3, <1>4, <1>6


-----------------------------------------------------------------------------
(* The run.                                                                *)

\* A rule, or a shared chunk, is under evaluation.
Evaluating == {"targets", "total", "count", "secondary", "checks", "samples", "keys"}

\* The check under evaluation has a predicate when its rows are asked for.
DueInv ==
  /\ phase \in {"targets", "total", "count"} => due = 1
  /\ phase = "checks" => due \in DOMAIN failPreds
  /\ phase \in {"total", "count"} /\ rule.kind = "shared" => failPreds # <<>>
  /\ phase = "targets" => rule.kind = "shared"
  /\ phase = "config" => at = 1
  /\ phase = "secondary" => rule.kind = "reconcile"

\* A kept predicate numbers its placeholders from one, and holds the rows to the
\* population of the rule it was kept for.
Kept(pred) ==
  /\ Aligned(pred, 0)
  /\ phase \in Evaluating => Carried(pred.args, PopulationValues)

\* Types, accepted options, an accepted rule, and predicates fit to be sent.
BaseInv ==
  /\ TypeOK
  /\ Configured
  /\ RuleInv
  /\ DueInv
  /\ \A i \in DOMAIN failPreds : Kept(failPreds[i])

\* The options never change.
LEMMA ConfigKept == [Next]_vars => UNCHANGED <<style, scope, segments>>
BY DEF Next, vars, config, Configure, NextSegment, Return, Evaluate, AddTarget, CaptureShared,
       ResolveScopedTotal, CountPerRow, CountUnique, CountComposite, CountReference, CountRows,
       CountRate, CountFrequency, CountShare, CountTable, QueryAggregate, QueryDominantCounts,
       CountLeft, CountPopulation, CountSecondary, CountCustom, CountShared, NextCheck,
       QueryColumnSamples, QueryFailedKeys, FailingKeys

\* What BaseInv says once the options are accepted.
LEMMA Accepting ==
  ASSUME BaseInv, phase \notin {"config", "refused"}
  PROVE  /\ Balanced(ActiveScope) /\ Balanced(Effective)
         /\ Carried(Effective.values, PopulationValues)
         /\ rule.when = Absent => Carried(ActiveScope.values, PopulationValues)
<1>1. /\ scope \in Scopes /\ segments \in Segmented /\ at \in Nat \ {0}
      /\ Configured /\ RuleInv
  BY DEF BaseInv, TypeOK
<1> QED
  BY <1>1, ActiveBalanced, EffectiveBalanced, PopulationCarried

\* A rule that shares its chunk has no eligibility.
LEMMA SharedRule ==
  ASSUME RuleInv, rule.kind = "shared"
  PROVE  rule.when = Absent /\ rule.chunk # <<>>
<1>1. NoRule.kind # "shared"
  BY DEF NoRule
<1> QED
  BY <1>1, SharedAssumption DEF RuleInv

\* A predicate composed with the population is one to keep.
LEMMA ComposedKept ==
  ASSUME NEW pop, Balanced(pop), Carried(pop.values, PopulationValues),
         NEW pred, Aligned(pred, Len(pop.values))
  PROVE  Kept(ComposeRowPredicateWithScope(pop, pred))
<1>1. pop.values \in Seq(Value) /\ pred.args \in Seq(Value)
  BY DEF Balanced, Aligned, Predicate
<1>2. Carried(pop.values \o pred.args, PopulationValues)
  BY <1>1, CarriedConcat
<1> QED
  BY <1>2, ComposeAligned DEF Kept

\* The three predicates of a rule's own population.
LEMMA RuleKept ==
  ASSUME BaseInv, phase \notin {"config", "refused"}
  PROVE  /\ Kept(ComposeRowPredicateWithScope(Effective, RawPredicate(Effective)))
         /\ Kept(ComposeRowPredicateWithScope(Effective, NoPredicate))
         /\ rule.kind = "custom" => Kept(RenderTrustedCount(Effective, rule))
<1>1. /\ Balanced(Effective) /\ Carried(Effective.values, PopulationValues)
      /\ RuleInv /\ Effective.values \in Seq(Value)
  BY Accepting DEF BaseInv, Balanced
<1>2. /\ Aligned(RawPredicate(Effective), Len(Effective.values))
      /\ Aligned(NoPredicate, Len(Effective.values))
  BY <1>1, RawAligned, NothingAligned, LenProperties
<1>3. rule.kind = "custom" => Kept(RenderTrustedCount(Effective, rule))
  <2> SUFFICES ASSUME rule.kind = "custom" PROVE Kept(RenderTrustedCount(Effective, rule))
    OBVIOUS
  <2>1. PICK rest \in Seq(Value) : RenderTrustedCount(Effective, rule).args = Effective.values \o rest
    BY <1>1, CustomAligned
  <2>2. Carried(Effective.values \o rest, PopulationValues)
    BY <1>1, CarriedConcat
  <2> QED
    BY <1>1, <2>1, <2>2, CustomAligned DEF Kept
<1> QED
  BY <1>1, <1>2, <1>3, ComposedKept

\* The row statements of a kept predicate.
LEMMA RowsKept ==
  ASSUME NEW pred, Kept(pred)
  PROVE  Kept(WithLimit(pred))
<1>1. pred.args \in Seq(Value) /\ <<LimitArg>> \in Seq(Value)
  <2>1. LimitArg \in Value
    BY DEF LimitArg, Value, Owners
  <2> QED
    BY <2>1 DEF Kept, Aligned, Predicate
<1>2. phase \in Evaluating => Carried(pred.args \o <<LimitArg>>, PopulationValues)
  BY <1>1, CarriedConcat DEF Kept
<1> QED
  BY <1>2, LimitAligned DEF Kept

\* A statement of a predicate that is kept, or could be.
Sends(on) == \E pred : Kept(pred) /\ Send(on, pred)

\* Whatever is sent is a kept predicate, the secondary table's own filter, or
\* the statement of a shared chunk.
LEMMA SendStep ==
  ASSUME BaseInv, [Next]_vars
  PROVE  \/ UNCHANGED sent
         \/ Sends("target") /\ phase \in Evaluating \cup {"returned"}
         \/ /\ phase = "secondary"
            /\ \E pred : Aligned(pred, 0) /\ Send("secondary", pred)
         \/ CountShared
<1>1. CASE ResolveScopedTotal \/ CountTable \/ QueryAggregate \/ QueryDominantCounts \/ CountLeft
  <2>1. phase \in {"total", "count"}
    BY <1>1 DEF ResolveScopedTotal, CountTable, QueryAggregate, QueryDominantCounts, CountLeft,
                CountPopulation
  <2>2. Kept(ComposeRowPredicateWithScope(Effective, NoPredicate))
    BY <2>1, RuleKept
  <2> QED
    BY <1>1, <2>1, <2>2
    DEF ResolveScopedTotal, CountTable, QueryAggregate, QueryDominantCounts, CountLeft,
        CountPopulation, Sends, Evaluating
<1>2. CASE CountPerRow \/ CountUnique \/ CountComposite \/ CountReference \/ CountRate \/ CountFrequency
  <2>1. phase = "count"
    BY <1>2 DEF CountPerRow, CountUnique, CountComposite, CountReference, CountRows, CountRate,
                CountFrequency, CountShare
  <2>2. Kept(ComposeRowPredicateWithScope(Effective, RawPredicate(Effective)))
    BY <2>1, RuleKept
  <2> QED
    BY <1>2, <2>1, <2>2
    DEF CountPerRow, CountUnique, CountComposite, CountReference, CountRows, CountRate,
        CountFrequency, CountShare, Sends, Evaluating
<1>3. CASE CountCustom
  <2>1. phase = "count" /\ rule.kind = "custom"
    BY <1>3 DEF CountCustom
  <2>2. Kept(RenderTrustedCount(Effective, rule))
    BY <2>1, RuleKept
  <2> QED
    BY <1>3, <2>1, <2>2 DEF CountCustom, Sends, Evaluating
<1>4. CASE CountSecondary
  <2>1. phase = "secondary"
    BY <1>4 DEF CountSecondary
  <2>2. Aligned(RenderAt(Trust("rule", 0, rule.own), 0), 0)
    <3>1. rule.own.values \in Nat /\ rule.own.slots = rule.own.values
      BY <2>1, RuleTyped DEF BaseInv, DueInv
    <3>2. Balanced(Trust("rule", 0, rule.own))
      BY <3>1, TrustBalanced DEF Owners
    <3> QED
      BY <3>2, RenderAligned
  <2> QED
    BY <1>4, <2>1, <2>2 DEF CountSecondary
<1>5. CASE QueryColumnSamples \/ QueryFailedKeys
  <2>1. phase \in {"samples", "keys"}
    BY <1>5 DEF QueryColumnSamples, QueryFailedKeys
  <2>2. Kept(failPreds[due])
    BY <2>1 DEF BaseInv, TypeOK
  <2>3. Kept(WithLimit(failPreds[due]))
    BY <2>2, RowsKept
  <2> QED
    BY <1>5, <2>1, <2>2, <2>3 DEF QueryColumnSamples, QueryFailedKeys, Sends, Evaluating
<1>6. CASE FailingKeys
  <2>1. phase = "returned"
    BY <1>6 DEF FailingKeys
  <2> QED
    BY <1>6, <2>1 DEF FailingKeys, BaseInv, Sends, Evaluating
<1>7. CASE UNCHANGED sent
  BY <1>7
<1> QED
  BY <1>1, <1>2, <1>3, <1>4, <1>5, <1>6, <1>7
  DEF Next, vars, Configure, NextSegment, Return, Evaluate, AddTarget, CaptureShared, NextCheck


\* A predicate numbers its placeholders the same way after any step.
LEMMA StyleKept ==
  ASSUME style' = style, NEW pred, NEW offset
  PROVE  Aligned(pred, offset)' <=> Aligned(pred, offset)
BY DEF Aligned, Slots, Placeholder

\* A kept predicate stays one, unless another rule or segment begins.
LEMMA KeptOn ==
  ASSUME [Next]_vars, UNCHANGED <<at, rule>> \/ phase' \notin Evaluating,
         phase \in Evaluating \/ phase' \notin Evaluating, NEW pred, Kept(pred)
  PROVE  Kept(pred)'
<1>1. UNCHANGED <<style, scope, segments>>
  BY ConfigKept
<1>2. Aligned(pred, 0)'
  BY <1>1, StyleKept DEF Kept
<1>3. CASE phase' \notin Evaluating
  BY <1>2, <1>3 DEF Kept
<1>4. CASE phase' \in Evaluating
  <2>1. PopulationValues' = PopulationValues
    BY <1>1, <1>4 DEF PopulationValues
  <2>2. Carried(pred.args, PopulationValues)'
    BY <1>4, <2>1 DEF Kept, Carried
  <2> QED
    BY <1>2, <2>2 DEF Kept
<1> QED
  BY <1>3, <1>4

\* The predicates that are kept are those kept before, none, or one more.
LEMMA KeepStep ==
  ASSUME BaseInv, [Next]_vars
  PROVE  \/ UNCHANGED failPreds
         \/ failPreds' = <<>>
         \/ \E pred : Kept(pred) /\ phase \in Evaluating /\ UNCHANGED <<at, rule>>
                      /\ (failPreds' = Append(failPreds, pred) \/ failPreds' = <<pred>>)
<1>1. CASE AddTarget
  <2> DEFINE check == Len(failPreds) + 1
             pred == ComposeRowPredicateWithScope(ActiveScope,
                       PerRowPredicate(ActiveScope, check, rule.chunk[check]))
  <2>1. /\ phase = "targets" /\ Len(failPreds) < Len(rule.chunk)
        /\ failPreds' = Append(failPreds, pred) /\ UNCHANGED <<at, rule>>
    BY <1>1 DEF AddTarget
  <2>2. RuleInv /\ rule.chunk \in Seq(Nat) /\ failPreds \in Seq(Predicate)
    BY RuleTyped DEF BaseInv, TypeOK
  <2>3. Len(failPreds) \in Nat /\ Len(rule.chunk) \in Nat
    BY <2>2, LenProperties
  <2>4. check \in Nat /\ check \in 1..Len(rule.chunk)
    BY <2>1, <2>3
  <2>5. rule.chunk[check] \in Nat
    BY <2>2, <2>4, ElementOfSeq
  <2>6. rule.kind = "shared"
    BY <2>1 DEF BaseInv, DueInv
  <2>7. Balanced(ActiveScope) /\ Carried(ActiveScope.values, PopulationValues)
    BY <2>1, <2>2, <2>6, Accepting, SharedRule
  <2>8. Aligned(PerRowPredicate(ActiveScope, check, rule.chunk[check]), Len(ActiveScope.values))
    BY <2>4, <2>5, <2>7, BinderAligned DEF PerRowPredicate
  <2>9. Kept(pred)
    BY <2>7, <2>8, ComposedKept
  <2> QED
    BY <2>1, <2>9 DEF Evaluating
<1>2. CASE CountPerRow \/ CountUnique \/ CountComposite \/ CountReference
  <2> DEFINE pred == ComposeRowPredicateWithScope(Effective, RawPredicate(Effective))
  <2>1. phase = "count" /\ failPreds' = <<pred>> /\ UNCHANGED <<at, rule>>
    BY <1>2 DEF CountPerRow, CountUnique, CountComposite, CountReference, CountRows
  <2>2. Kept(pred)
    BY <2>1, RuleKept
  <2> QED
    BY <2>1, <2>2 DEF Evaluating
<1>3. CASE UNCHANGED failPreds \/ failPreds' = <<>>
  BY <1>3
<1> QED
  BY <1>1, <1>2, <1>3
  DEF Next, vars, Configure, NextSegment, Return, Evaluate, CaptureShared, ResolveScopedTotal,
      CountRate, CountFrequency, CountShare, CountTable, QueryAggregate, QueryDominantCounts,
      CountLeft, CountPopulation, CountSecondary, CountCustom, CountShared, NextCheck,
      QueryColumnSamples, QueryFailedKeys, FailingKeys

\* Where the run goes; the segment and the rule change only between rules.
LEMMA PhaseStep ==
  ASSUME BaseInv, [Next]_vars
  PROVE  \/ UNCHANGED <<at, rule>> /\ (phase \in Evaluating \/ phase' \notin Evaluating)
         \/ NextSegment /\ phase' = "next"
         \/ Evaluate /\ phase' \in {"targets", "total", "count"}
BY DEF Next, vars, config, Configure, NextSegment, Return, Evaluate, AddTarget, CaptureShared,
       ResolveScopedTotal, CountPerRow, CountUnique, CountComposite, CountReference, CountRows,
       CountRate, CountFrequency, CountShare, CountTable, QueryAggregate, QueryDominantCounts,
       CountLeft, CountPopulation, CountSecondary, CountCustom, CountShared, NextCheck,
       AfterCheck, QueryColumnSamples, QueryFailedKeys, FailingKeys, Evaluating

\* The predicates at hand stay fit to be sent.
LEMMA KeptStep ==
  ASSUME BaseInv, [Next]_vars
  PROVE  /\ failPreds' \in Seq(Predicate)
         /\ (\A i \in DOMAIN failPreds : Kept(failPreds[i]))'
<1>1. failPreds \in Seq(Predicate) /\ \A i \in DOMAIN failPreds : Kept(failPreds[i])
  BY DEF BaseInv, TypeOK
<1>2. CASE failPreds' = <<>>
  <2>1. <<>> \in Seq(Predicate) /\ DOMAIN <<>> = {}
    BY EmptySeq
  <2> QED
    BY <1>2, <2>1
<1>3. CASE Evaluate
  BY <1>2, <1>3 DEF Evaluate
<1>4. CASE ~Evaluate
  <2>1. UNCHANGED <<at, rule>> \/ phase' \notin Evaluating
    BY <1>4, PhaseStep DEF Evaluating
  <2>2. phase \in Evaluating \/ phase' \notin Evaluating
    BY <1>4, PhaseStep DEF Evaluating
  <2>3. \A pred : Kept(pred) => Kept(pred)'
    BY <2>1, <2>2, KeptOn
  <2>4. CASE UNCHANGED failPreds
    <3>1. \A i \in DOMAIN failPreds : Kept(failPreds[i])'
      <4> SUFFICES ASSUME NEW i \in DOMAIN failPreds PROVE Kept(failPreds[i])'
        OBVIOUS
      <4>1. PICK pred : pred = failPreds[i] /\ pred = failPreds'[i]
        BY <2>4
      <4>2. Kept(pred)'
        BY <1>1, <2>3, <4>1
      <4> QED
        BY <4>1, <4>2 DEF Kept
    <3> QED
      BY <1>1, <2>4, <3>1
  <2>5. ASSUME NEW pred, Kept(pred), failPreds' = <<pred>> \/ failPreds' = Append(failPreds, pred)
        PROVE  /\ failPreds' \in Seq(Predicate)
               /\ \A i \in DOMAIN failPreds' : failPreds'[i] = pred \/ \E j \in DOMAIN failPreds :
                                                 failPreds'[i] = failPreds[j]
    <3>1. pred \in Predicate
      BY <2>5 DEF Kept, Aligned
    <3>2. CASE failPreds' = <<pred>>
      BY <3>1, <3>2
    <3>3. CASE failPreds' = Append(failPreds, pred)
      <4>1. /\ failPreds' \in Seq(Predicate) /\ Len(failPreds') = Len(failPreds) + 1
            /\ \A i \in 1..Len(failPreds) : failPreds'[i] = failPreds[i]
            /\ failPreds'[Len(failPreds) + 1] = pred
        BY <1>1, <3>1, <3>3, AppendProperties
      <4>2. /\ DOMAIN failPreds = 1..Len(failPreds) /\ Len(failPreds) \in Nat
            /\ DOMAIN failPreds' = 1..Len(failPreds')
        BY <1>1, <4>1, LenProperties
      <4>3. \A i \in DOMAIN failPreds' : i \in 1..Len(failPreds) \/ i = Len(failPreds) + 1
        BY <4>1, <4>2
      <4> QED
        BY <4>1, <4>2, <4>3
    <3> QED
      BY <2>5, <3>2, <3>3
  <2>6. ASSUME NEW pred, Kept(pred), failPreds' = <<pred>> \/ failPreds' = Append(failPreds, pred),
               NEW i \in DOMAIN failPreds'
        PROVE  Kept(failPreds[i])'
    <3>1. PICK q : q = failPreds'[i] /\ Kept(q)
      BY <1>1, <2>5, <2>6
    <3>2. Kept(q)'
      BY <2>3, <3>1
    <3> QED
      BY <3>1, <3>2 DEF Kept
  <2> QED
    BY <1>2, <2>4, <2>5, <2>6, KeepStep
<1> QED
  BY <1>3, <1>4


\* Only accepted options get past Configure, and the segments are walked in order.
LEMMA ConfiguredStep == BaseInv /\ [Next]_vars => Configured'
<1> SUFFICES ASSUME BaseInv, [Next]_vars PROVE Configured'
  OBVIOUS
<1>1. /\ UNCHANGED <<style, scope, segments>>
      /\ scope \in Scopes /\ segments \in Seq(Fragment) /\ at \in Nat \ {0} /\ Configured
  BY ConfigKept, InputsAssumption DEF BaseInv, TypeOK
<1>2. DOMAIN segments = 1..Len(segments) /\ Len(segments) \in Nat
  BY <1>1, LenProperties
<1>3. CASE Configure
  <2>1. /\ Given(scope) => ValidFragment(scope)
        /\ segments # <<>> => ValidSegments(segments)
        /\ UNCHANGED at
        \/ phase' = "refused"
    BY <1>3 DEF Configure
  <2>2. at = 1
    BY <1>3 DEF Configure, BaseInv, DueInv
  <2>3. Absent.slots = Absent.values
    BY DEF Absent
  <2>4. scope.slots = scope.values \/ phase' = "refused"
    BY <2>1, <2>3 DEF Given, ValidFragment
  <2>5. \/ phase' = "refused" \/ segments = <<>>
        \/ 1 \in DOMAIN segments /\ \A i \in DOMAIN segments : segments[i].slots = segments[i].values
    BY <1>2, <2>1 DEF ValidSegments, ValidFragment
  <2>6. UNCHANGED at
    BY <1>3 DEF Configure
  <2> QED
    BY <1>1, <2>2, <2>4, <2>5, <2>6 DEF Configured
<1>4. CASE NextSegment
  <2>1. at' = at + 1 /\ at < Len(segments) /\ phase = "next"
    BY <1>4 DEF NextSegment
  <2>2. at' \in DOMAIN segments
    BY <1>1, <1>2, <2>1
  <2> QED
    BY <1>1, <2>1, <2>2 DEF Configured
<1>5. CASE UNCHANGED at /\ (phase \in {"config", "refused"} => phase' \in {"config", "refused"})
  BY <1>1, <1>5 DEF Configured
<1> QED
  BY <1>3, <1>4, <1>5
  DEF Next, vars, Return, Evaluate, AddTarget, CaptureShared, ResolveScopedTotal, CountPerRow,
      CountUnique, CountComposite, CountReference, CountRows, CountRate, CountFrequency,
      CountShare, CountTable, QueryAggregate, QueryDominantCounts, CountLeft, CountPopulation,
      CountSecondary, CountCustom, CountShared, NextCheck, QueryColumnSamples, QueryFailedKeys,
      FailingKeys

\* Only accepted rules are evaluated.
LEMMA RuleStep == BaseInv /\ [Next]_vars => RuleInv'
<1> SUFFICES ASSUME BaseInv, [Next]_vars PROVE RuleInv'
  OBVIOUS
<1>1. CASE Evaluate
  BY <1>1 DEF Evaluate, RuleInv, Accepted, Given, ValidFragment, ScanTemplate
<1>2. CASE UNCHANGED rule
  BY <1>2 DEF BaseInv, RuleInv, Accepted, Given, ValidFragment, ScanTemplate
<1> QED
  BY <1>1, <1>2, PhaseStep DEF NextSegment

\* After a check there is another one, or none.
LEMMA AfterCheckStep ==
  ASSUME failPreds \in Seq(Predicate), due \in DOMAIN failPreds, AfterCheck, UNCHANGED failPreds
  PROVE  \/ phase' = "next" /\ due' \in Nat
         \/ phase' = "checks" /\ due' \in DOMAIN failPreds'
<1>1. DOMAIN failPreds = 1..Len(failPreds) /\ Len(failPreds) \in Nat
  BY LenProperties
<1> QED
  BY <1>1 DEF AfterCheck

\* The control of the run, and the check that is due.
LEMMA DueStep ==
  ASSUME BaseInv, [Next]_vars
  PROVE  /\ DueInv' /\ due' \in Nat /\ phase' \in Phases /\ loaded' \in BOOLEAN
         /\ at' \in Nat \ {0}
         /\ phase' \in {"samples", "keys"} => due' \in DOMAIN failPreds'
<1>1. /\ phase \in Phases /\ due \in Nat /\ loaded \in BOOLEAN /\ at \in Nat \ {0}
      /\ failPreds \in Seq(Predicate)
      /\ phase \in {"samples", "keys"} => due \in DOMAIN failPreds
      /\ DueInv /\ RuleInv
  BY DEF BaseInv, TypeOK
<1>2. DOMAIN failPreds = 1..Len(failPreds) /\ Len(failPreds) \in Nat
  BY <1>1, LenProperties
<1>3. CASE Configure
  <2>1. phase' \in {"next", "refused"} /\ UNCHANGED <<at, loaded, due, rule, failPreds>>
    BY <1>3 DEF Configure
  <2> QED
    BY <1>1, <2>1 DEF DueInv, Phases
<1>16. CASE NextSegment \/ Return
  <2>1. phase' \in {"next", "returned"} /\ UNCHANGED <<due, rule, failPreds>>
        /\ loaded' \in BOOLEAN /\ at' \in {at, at + 1}
    BY <1>1, <1>16 DEF NextSegment, Return
  <2> QED
    BY <1>1, <2>1 DEF DueInv, Phases
<1>4. CASE Evaluate
  BY <1>1, <1>4 DEF Evaluate, DueInv, Phases, Totalled
<1>5. CASE AddTarget
  BY <1>1, <1>5 DEF AddTarget, DueInv
<1>6. CASE CaptureShared
  <2>1. rule.chunk \in Seq(Nat) /\ rule.chunk # <<>>
    BY <1>1, <1>6, RuleTyped, SharedRule DEF CaptureShared, DueInv
  <2>2. failPreds # <<>>
    <3>1. Len(rule.chunk) # 0
      BY <2>1, EmptySeq
    <3> QED
      BY <1>6, <3>1, EmptySeq DEF CaptureShared
  <2> QED
    BY <1>1, <1>6, <2>2 DEF CaptureShared, DueInv, Phases
<1>7. CASE ResolveScopedTotal
  BY <1>1, <1>7 DEF ResolveScopedTotal, DueInv, Phases
<1>8. CASE CountPerRow \/ CountUnique \/ CountComposite \/ CountReference
  <2>1. \E pred : failPreds' = <<pred>>
    BY <1>8 DEF CountPerRow, CountUnique, CountComposite, CountReference, CountRows
  <2>2. 1 \in DOMAIN failPreds'
    BY <2>1
  <2>3. due' = 1 /\ phase' \in {"samples", "next"} /\ UNCHANGED <<at, loaded, rule>>
    BY <1>1, <1>8 DEF CountPerRow, CountUnique, CountComposite, CountReference, CountRows, DueInv
  <2> QED
    BY <1>1, <2>2, <2>3 DEF DueInv, Phases
<1>9. CASE CountRate \/ CountFrequency \/ CountTable \/ QueryAggregate \/ QueryDominantCounts
           \/ CountSecondary \/ CountCustom
  <2>1. phase' = "next" /\ UNCHANGED <<at, loaded, due, rule>>
    BY <1>9 DEF CountRate, CountFrequency, CountShare, CountTable, QueryAggregate,
                QueryDominantCounts, CountPopulation, CountSecondary, CountCustom
  <2> QED
    BY <1>1, <2>1 DEF DueInv, Phases
<1>10. CASE CountLeft
  BY <1>1, <1>10 DEF CountLeft, CountPopulation, DueInv, Phases
<1>11. CASE CountShared
  <2>1. due = 1 /\ failPreds # <<>>
    BY <1>1, <1>11 DEF CountShared, DueInv
  <2>2. due \in DOMAIN failPreds
    BY <1>1, <1>2, <2>1, EmptySeq
  <2> QED
    BY <1>1, <1>11, <2>2 DEF CountShared, DueInv, Phases
<1>12. CASE NextCheck
  <2>1. due \in DOMAIN failPreds /\ UNCHANGED <<at, loaded, failPreds, rule>>
    BY <1>1, <1>12 DEF NextCheck, DueInv
  <2>2. \/ phase' = "samples" /\ UNCHANGED due
        \/ phase' = "next" /\ due' \in Nat
        \/ phase' = "checks" /\ due' \in DOMAIN failPreds'
    BY <1>1, <1>12, <2>1, AfterCheckStep DEF NextCheck
  <2> QED
    BY <1>1, <1>2, <2>1, <2>2 DEF DueInv, Phases
<1>13. CASE QueryColumnSamples
  BY <1>1, <1>13 DEF QueryColumnSamples, DueInv, Phases
<1>14. CASE QueryFailedKeys
  <2>1. due \in DOMAIN failPreds /\ UNCHANGED <<at, loaded, failPreds, rule>> /\ AfterCheck
    BY <1>1, <1>14 DEF QueryFailedKeys
  <2>2. \/ phase' = "next" /\ due' \in Nat
        \/ phase' = "checks" /\ due' \in DOMAIN failPreds'
    BY <1>1, <2>1, AfterCheckStep
  <2> QED
    BY <1>1, <1>2, <2>1, <2>2 DEF DueInv, Phases
<1>15. CASE FailingKeys \/ UNCHANGED vars
  BY <1>1, <1>15 DEF FailingKeys, vars, DueInv
<1> QED
  BY <1>3, <1>4, <1>5, <1>6, <1>7, <1>8, <1>9, <1>10, <1>11, <1>12, <1>13, <1>14, <1>15, <1>16 DEF Next

\* The statement a kept or aligned predicate makes has its type.
LEMMA StatementTyped ==
  ASSUME NEW pred \in Predicate, NEW on \in {"none", "target", "secondary"}
  PROVE  [on |-> on, text |-> pred.where, args |-> pred.args] \in Statement
BY DEF Predicate, Statement

\* So has the statement of a shared chunk.
LEMMA SharedTyped ==
  ASSUME Balanced(ActiveScope), targets \in Seq(Slot), predArgs \in Seq(Value)
  PROVE  SharedStatement \in Predicate
<1>1. /\ ActiveScope.values \in Seq(Value) /\ ActiveScope.slots = ActiveScope.values
      /\ Slots(ActiveScope.values, 0) \in Seq(Slot)
  BY SlotsFacts DEF Balanced
<1>2. targets \o Slots(ActiveScope.values, 0) \in Seq(Slot)
  BY <1>1, ConcatProperties
<1>3. /\ predArgs \o ActiveScope.values \in Seq(Value)
      /\ ActiveScope.values \o predArgs \in Seq(Value)
  BY <1>1, ConcatProperties
<1> QED
  BY <1>1, <1>2, <1>3 DEF SharedStatement, SharedArgs, RenderAt, Predicate

\* What is sent, and what is captured, is a statement.
LEMMA StatementStep ==
  ASSUME BaseInv, [Next]_vars
  PROVE  sent' \in Statement /\ captured' \in Statement
<1>1. /\ sent \in Statement /\ captured \in Statement
      /\ targets \in Seq(Slot) /\ predArgs \in Seq(Value)
  BY DEF BaseInv, TypeOK
<1>2. phase \in {"targets", "count"} => SharedStatement \in Predicate
  BY <1>1, Accepting, SharedTyped
<1>3. sent' \in Statement
  <2>1. ASSUME Sends("target") PROVE sent' \in Statement
    BY <2>1, StatementTyped DEF Sends, Send, Kept, Aligned
  <2>2. ASSUME NEW pred, Aligned(pred, 0), Send("secondary", pred) PROVE sent' \in Statement
    BY <2>2, StatementTyped DEF Send, Aligned
  <2>3. CASE CountShared
    BY <1>2, <2>3, StatementTyped DEF CountShared, Send
  <2> QED
    BY <1>1, <2>1, <2>2, <2>3, SendStep
<1>4. captured' \in Statement
  <2>1. NoStatement \in Statement
    BY EmptySeq DEF NoStatement, Statement
  <2>2. CASE CaptureShared
    BY <1>2, <2>2, StatementTyped DEF CaptureShared, Capture
  <2>3. CASE Evaluate
    BY <2>1, <2>3 DEF Evaluate
  <2>4. ASSUME NEW pred, Kept(pred), Capture(pred.where, pred.args) \/ Capture(pred.where, <<>>)
        PROVE  captured' \in Statement
    <3>1. pred.where \in Seq(Slot) /\ pred.args \in Seq(Value) /\ <<>> \in Seq(Value)
      BY <2>4, EmptySeq DEF Kept, Aligned, Predicate
    <3>2. PICK args \in Seq(Value) :
            captured' = [on |-> "target", text |-> pred.where, args |-> args]
      BY <2>4, <3>1 DEF Capture
    <3> QED
      BY <3>1, <3>2 DEF Statement
  <2>5. CASE CountTable \/ QueryAggregate \/ QueryDominantCounts \/ CountLeft
    <3>1. phase = "count"
      BY <2>5 DEF CountTable, QueryAggregate, QueryDominantCounts, CountLeft, CountPopulation
    <3> QED
      BY <2>4, <2>5, <3>1, RuleKept
      DEF CountTable, QueryAggregate, QueryDominantCounts, CountLeft, CountPopulation
  <2>6. CASE CountPerRow \/ CountUnique \/ CountComposite \/ CountReference \/ CountRate \/ CountFrequency
    <3>1. phase = "count"
      BY <2>6 DEF CountPerRow, CountUnique, CountComposite, CountReference, CountRows, CountRate,
                  CountFrequency, CountShare
    <3> QED
      BY <2>4, <2>6, <3>1, RuleKept
      DEF CountPerRow, CountUnique, CountComposite, CountReference, CountRows, CountRate,
          CountFrequency, CountShare
  <2>7. CASE CountCustom
    BY <2>4, <2>7, RuleKept DEF CountCustom
  <2>8. CASE UNCHANGED captured
    BY <1>1, <2>8
  <2> QED
    BY <2>2, <2>3, <2>5, <2>6, <2>7, <2>8
    DEF Next, vars, Configure, NextSegment, Return, AddTarget, ResolveScopedTotal,
        CountSecondary, CountShared, NextCheck, QueryColumnSamples, QueryFailedKeys, FailingKeys
<1> QED
  BY <1>3, <1>4


\* A dialect that numbers its placeholders with $ has them renumbered, and one
\* that does not number them has nothing to renumber; any other keeps numbers
\* that belong elsewhere.
LEMMA ShiftFacts ==
  ASSUME style \in Styles, NEW wants \in Seq(Value), NEW delta \in Nat
  PROVE  /\ ShiftPositionalPlaceholders(Slots(wants, 0), delta) \in Seq(Slot)
         /\ style # "other" =>
              ShiftPositionalPlaceholders(Slots(wants, 0), delta) = Slots(wants, delta)
<1> DEFINE fresh == Slots(wants, 0)
           moved == ShiftPositionalPlaceholders(fresh, delta)
<1>1. /\ fresh \in Seq(Slot) /\ Len(fresh) = Len(wants) /\ Len(wants) \in Nat
      /\ \A i \in 1..Len(wants) : fresh[i] = [n |-> Placeholder(0 + i), wants |-> wants[i]]
  BY SlotsFacts, LenProperties
<1>2. /\ Slots(wants, delta) \in Seq(Slot) /\ Len(Slots(wants, delta)) = Len(wants)
      /\ \A i \in 1..Len(wants) :
           Slots(wants, delta)[i] = [n |-> Placeholder(delta + i), wants |-> wants[i]]
  BY SlotsFacts
<1> HIDE DEF fresh
<1>3. CASE style = "dollar"
  <2>1. DOMAIN fresh = 1..Len(wants)
    BY <1>1, LenProperties
  <2>2. ASSUME NEW i \in 1..Len(wants)
        PROVE  [fresh[i] EXCEPT !.n = @ + delta] = Slots(wants, delta)[i]
    <3>1. fresh[i] = [n |-> i, wants |-> wants[i]]
      BY <1>1, <1>3 DEF Placeholder
    <3>2. Slots(wants, delta)[i] = [n |-> delta + i, wants |-> wants[i]]
      BY <1>2, <1>3 DEF Placeholder
    <3>3. [fresh[i] EXCEPT !.n = @ + delta] = [n |-> i + delta, wants |-> wants[i]]
      BY <3>1
    <3>4. i + delta = delta + i
      BY <1>1
    <3> QED
      BY <3>2, <3>3, <3>4
  <2>3. moved = [i \in 1..Len(wants) |-> Slots(wants, delta)[i]]
    BY <1>3, <2>1, <2>2 DEF ShiftPositionalPlaceholders
  <2>4. moved = Slots(wants, delta)
    <3>1. Slots(wants, delta) \in [1..Len(wants) -> Slot]
      BY <1>2, LenProperties
    <3> QED
      BY <2>3, <3>1
  <2> QED
    BY <1>2, <2>4 DEF fresh
<1>4. CASE style = "question"
  <2>1. \A i \in 1..Len(wants) : fresh[i] = Slots(wants, delta)[i]
    BY <1>1, <1>2, <1>4 DEF Placeholder
  <2>2. fresh = Slots(wants, delta)
    BY <1>1, <1>2, <2>1, SeqEqual
  <2> QED
    BY <1>1, <1>4, <2>2 DEF ShiftPositionalPlaceholders, fresh
<1>5. CASE style = "other"
  BY <1>1, <1>5 DEF ShiftPositionalPlaceholders, fresh
<1> QED
  BY <1>3, <1>4, <1>5, StylesAssumption DEF Numbered

\* The SELECT list of a shared chunk numbers its placeholders after the
\* population's, which are bound in front of them.
ShareBound ==
  style # "other" /\ phase \in {"targets", "total", "count"} =>
    targets = Slots(predArgs, Len(ActiveScope.values))

\* What one more check brings.
LEMMA TargetStep ==
  ASSUME BaseInv, AddTarget
  PROVE  \E own \in Seq(Value) :
           LET offset == Len(ActiveScope.values) + Len(predArgs)
               shifted == ShiftPositionalPlaceholders(Slots(own, 0), offset)
           IN /\ offset \in Nat /\ shifted \in Seq(Slot)
              /\ predArgs' = predArgs \o own /\ targets' = targets \o shifted
              /\ style # "other" => shifted = Slots(own, offset)
<1> DEFINE check == Len(failPreds) + 1
           own == Own("rule", check, rule.chunk[check])
           offset == Len(ActiveScope.values) + Len(predArgs)
<1>1. /\ phase = "targets" /\ Len(failPreds) < Len(rule.chunk)
      /\ targets' = targets \o ShiftPositionalPlaceholders(
                       PerRowPredicate(Everywhere, check, rule.chunk[check]).where, offset)
      /\ predArgs' = predArgs \o PerRowPredicate(Everywhere, check, rule.chunk[check]).args
  BY DEF AddTarget
<1>2. /\ rule.chunk \in Seq(Nat) /\ failPreds \in Seq(Predicate)
      /\ predArgs \in Seq(Value) /\ style \in Styles
  BY RuleTyped DEF BaseInv, TypeOK
<1>3. Len(failPreds) \in Nat /\ Len(rule.chunk) \in Nat /\ Len(predArgs) \in Nat
  BY <1>2, LenProperties
<1>4. check \in Nat /\ check \in 1..Len(rule.chunk)
  BY <1>1, <1>3
<1>5. rule.chunk[check] \in Nat
  BY <1>2, <1>4, ElementOfSeq
<1>6. own \in Seq(Value)
  BY <1>4, <1>5, OwnFacts DEF Owners
<1>7. Len(Everywhere.values) = 0
  <2>1. Absent.values = 0
    BY DEF Absent
  <2>2. Len(Own("scope", 0, 0)) = 0
    BY OwnFacts DEF Owners
  <2> QED
    BY <2>1, <2>2 DEF Everywhere, Trust
<1>8. PerRowPredicate(Everywhere, check, rule.chunk[check]) = [where |-> Slots(own, 0), args |-> own]
  BY <1>7 DEF PerRowPredicate, ScopedArgBinder
<1>9. Len(ActiveScope.values) \in Nat
  BY <1>1, Accepting, LenProperties DEF Balanced
<1>10. offset \in Nat
  BY <1>3, <1>9
<1> HIDE DEF own, offset, check
<1>11. /\ ShiftPositionalPlaceholders(Slots(own, 0), offset) \in Seq(Slot)
       /\ style # "other" =>
            ShiftPositionalPlaceholders(Slots(own, 0), offset) = Slots(own, offset)
  BY <1>2, <1>6, <1>10, ShiftFacts
<1>12. /\ predArgs' = predArgs \o own
       /\ targets' = targets \o ShiftPositionalPlaceholders(Slots(own, 0), offset)
  <2>1. /\ PerRowPredicate(Everywhere, check, rule.chunk[check]).where = Slots(own, 0)
        /\ PerRowPredicate(Everywhere, check, rule.chunk[check]).args = own
    BY <1>8
  <2> QED
    BY <1>1, <2>1
<1> QED
  BY <1>6, <1>10, <1>11, <1>12 DEF offset

\* The SELECT list and its values are sequences.
LEMMA TargetsTyped ==
  ASSUME BaseInv, [Next]_vars
  PROVE  targets' \in Seq(Slot) /\ predArgs' \in Seq(Value)
<1>1. targets \in Seq(Slot) /\ predArgs \in Seq(Value)
  BY DEF BaseInv, TypeOK
<1>2. CASE AddTarget
  <2>1. PICK own \in Seq(Value), shifted \in Seq(Slot) :
          predArgs' = predArgs \o own /\ targets' = targets \o shifted
    BY <1>2, TargetStep
  <2> QED
    BY <1>1, <2>1, ConcatProperties
<1>3. CASE Evaluate
  BY <1>3, EmptySeq DEF Evaluate
<1>4. CASE UNCHANGED <<targets, predArgs>>
  BY <1>1, <1>4
<1> QED
  BY <1>2, <1>3, <1>4
  DEF Next, vars, Configure, NextSegment, Return, CaptureShared, ResolveScopedTotal, CountPerRow,
      CountUnique, CountComposite, CountReference, CountRows, CountRate, CountFrequency,
      CountShare, CountTable, QueryAggregate, QueryDominantCounts, CountLeft, CountPopulation,
      CountSecondary, CountCustom, CountShared, NextCheck, QueryColumnSamples, QueryFailedKeys,
      FailingKeys

\* Every step keeps the base.
LEMMA NextBase == BaseInv /\ [Next]_vars => BaseInv'
<1> SUFFICES ASSUME BaseInv, [Next]_vars PROVE BaseInv'
  OBVIOUS
<1>1. /\ style' \in Styles /\ scope' \in Scopes /\ segments' \in Segmented
  BY ConfigKept DEF BaseInv, TypeOK
<1>2. Configured' /\ RuleInv'
  BY ConfiguredStep, RuleStep
<1>3. TypeOK'
  BY <1>1, <1>2, DueStep, KeptStep, StatementStep, TargetsTyped DEF TypeOK, RuleInv
<1> QED
  BY <1>2, <1>3, DueStep, KeptStep DEF BaseInv

\* And it holds at first.
LEMMA InitBase == Init => BaseInv
<1> SUFFICES ASSUME Init PROVE BaseInv
  OBVIOUS
<1>1. /\ style \in Styles /\ scope \in Scopes /\ segments \in Segmented
      /\ phase = "config" /\ at = 1 /\ loaded = FALSE /\ rule = NoRule
      /\ targets = <<>> /\ predArgs = <<>> /\ failPreds = <<>> /\ due = 0
      /\ sent = NoStatement /\ captured = NoStatement
  BY DEF Init
<1>2. /\ NoStatement \in Statement /\ <<>> \in Seq(Slot) /\ <<>> \in Seq(Value)
      /\ <<>> \in Seq(Predicate)
  BY EmptySeq DEF NoStatement, Statement
<1>3. TypeOK
  <2>1. phase \in Phases /\ (phase \in {"samples", "keys"} => due \in DOMAIN failPreds)
    <3>1. phase = "config"
      BY <1>1
    <3> QED
      BY <3>1 DEF Phases
  <2>2. loaded \in BOOLEAN
    BY <1>1, Zenon
  <2>3. at \in Nat \ {0} /\ due \in Nat
    BY <1>1
  <2>4. rule \in Rules \cup {NoRule}
    BY <1>1, Zenon
  <2>5. /\ targets \in Seq(Slot) /\ predArgs \in Seq(Value) /\ failPreds \in Seq(Predicate)
        /\ sent \in Statement /\ captured \in Statement
    BY <1>1, <1>2
  <2>6. style \in Styles /\ scope \in Scopes /\ segments \in Segmented
    BY <1>1
  <2> QED
    BY <2>1, <2>2, <2>3, <2>4, <2>5, <2>6 DEF TypeOK
<1>4. RuleInv
  BY <1>1 DEF RuleInv, NoRule, Accepted, Given, Absent
<1>5. Configured /\ DueInv /\ \A i \in DOMAIN failPreds : Kept(failPreds[i])
  BY <1>1 DEF Configured, DueInv
<1> QED
  BY <1>3, <1>4, <1>5 DEF BaseInv

\* Every variable keeps its type, and rows are asked for only of a check whose
\* predicate is at hand.
THEOREM BindingTyped == Spec => []TypeOK
<1>1. BaseInv => TypeOK
  BY DEF BaseInv
<1> QED
  BY <1>1, InitBase, NextBase, PTL DEF Spec

\* The SELECT list stays numbered after the population, check after check.
LEMMA ShareBoundStep == BaseInv /\ ShareBound /\ [Next]_vars => ShareBound'
<1> SUFFICES ASSUME BaseInv, ShareBound, [Next]_vars PROVE ShareBound'
  OBVIOUS
<1>1. UNCHANGED <<style, scope, segments>>
  BY ConfigKept
<1>2. \A w, o : Slots(w, o)' = Slots(w, o)
  BY <1>1 DEF Slots, Placeholder
<1>3. CASE AddTarget
  <2> SUFFICES ASSUME style # "other" PROVE targets' = Slots(predArgs, Len(ActiveScope.values))'
    BY <1>1 DEF ShareBound
  <2> DEFINE base == Len(ActiveScope.values)
  <2>1. phase = "targets" /\ UNCHANGED at /\ predArgs \in Seq(Value)
    BY <1>3 DEF AddTarget, BaseInv, TypeOK
  <2>2. ActiveScope' = ActiveScope
    BY <1>1, <2>1 DEF ActiveScope
  <2>3. PICK own \in Seq(Value) :
          /\ predArgs' = predArgs \o own
          /\ targets' = targets \o Slots(own, base + Len(predArgs))
    BY <1>3, TargetStep
  <2>4. base \in Nat /\ targets = Slots(predArgs, base)
    BY <2>1, Accepting, LenProperties DEF Balanced, ShareBound
  <2> HIDE DEF base
  <2>5. Slots(predArgs \o own, base) = targets \o Slots(own, base + Len(predArgs))
    BY <2>1, <2>3, <2>4, SlotsConcat
  <2>6. Slots(predArgs, Len(ActiveScope.values))' = Slots(predArgs', base)
    BY <1>1, <2>2 DEF Slots, Placeholder, base
  <2> QED
    BY <2>3, <2>5, <2>6
<1>4. CASE Evaluate
  <2>1. targets' = <<>> /\ predArgs' = <<>> /\ UNCHANGED at /\ phase = "next"
    BY <1>4 DEF Evaluate
  <2>2. ActiveScope' = ActiveScope
    BY <1>1, <2>1 DEF ActiveScope
  <2>3. Len(ActiveScope.values) \in Nat
    BY <2>1, Accepting, LenProperties DEF Balanced
  <2>4. Slots(<<>>, Len(ActiveScope.values)) = <<>>
    BY <2>3, NothingAligned
  <2> QED
    BY <1>1, <2>1, <2>2, <2>4 DEF ShareBound, Slots, Placeholder
<1>5. CASE /\ UNCHANGED <<targets, predArgs, at>>
           /\ phase' \in {"targets", "total", "count"} => phase \in {"targets", "total", "count"}
  <2>1. ActiveScope' = ActiveScope
    BY <1>1, <1>5 DEF ActiveScope
  <2> QED
    BY <1>1, <1>5, <2>1 DEF ShareBound, Slots, Placeholder
<1>6. CASE NextSegment
  BY <1>6 DEF NextSegment, ShareBound
<1> QED
  BY <1>3, <1>4, <1>5, <1>6
  DEF Next, vars, Configure, Return, CaptureShared, ResolveScopedTotal, CountPerRow,
      CountUnique, CountComposite, CountReference, CountRows, CountRate, CountFrequency,
      CountShare, CountTable, QueryAggregate, QueryDominantCounts, CountLeft, CountPopulation,
      CountSecondary, CountCustom, CountShared, NextCheck, AfterCheck, QueryColumnSamples,
      QueryFailedKeys, FailingKeys

\* A statement is bound the same way after a step of the run.
LEMMA BoundStep ==
  ASSUME BaseInv, ShareBound, style # "other", Bound(sent), [Next]_vars
  PROVE  Bound(sent)'
<1>1. style' = style
  BY ConfigKept
<1>2. \A stmt : Bound(stmt) => Matched(stmt)
  BY DEF Bound
<1>3. ASSUME NEW stmt, sent' = stmt, Bound(stmt)
      PROVE  Bound(sent)'
  BY <1>1, <1>3 DEF Bound, Matched, Filled
<1>4. ASSUME Sends("target") PROVE Bound(sent)'
  BY <1>3, <1>4, AlignedBound DEF Sends, Send, Kept
<1>5. ASSUME NEW pred, Aligned(pred, 0), Send("secondary", pred) PROVE Bound(sent)'
  BY <1>3, <1>5, AlignedBound DEF Send
<1>6. CASE CountShared
  <2>1. phase = "count" /\ sent' = [on |-> "target", text |-> SharedStatement.where,
                                    args |-> SharedStatement.args]
    BY <1>6 DEF CountShared, Send
  <2>2. /\ style \in Styles /\ predArgs \in Seq(Value) /\ Balanced(ActiveScope)
        /\ targets = Slots(predArgs, Len(ActiveScope.values))
    BY <2>1, Accepting DEF BaseInv, TypeOK, ShareBound
  <2> QED
    BY <1>3, <2>1, <2>2, SharedBound
<1>7. CASE UNCHANGED sent
  BY <1>3, <1>7
<1> QED
  BY <1>4, <1>5, <1>6, <1>7, SendStep

\* The inductive invariant: what is sent is bound, for predicates and a SELECT
\* list that are numbered as they will be.
BindInv == BaseInv /\ ShareBound /\ (style # "other" => Bound(sent))

\* Every step keeps it.
LEMMA NextBind == BindInv /\ [Next]_vars => BindInv'
<1> SUFFICES ASSUME BindInv, [Next]_vars PROVE BindInv'
  OBVIOUS
<1>1. style' = style
  BY ConfigKept
<1> QED
  BY <1>1, NextBase, ShareBoundStep, BoundStep DEF BindInv

\* And it holds before anything is sent.
LEMMA InitBind == Init => BindInv
<1> SUFFICES ASSUME Init PROVE BindInv
  OBVIOUS
<1>1. phase = "config" /\ sent = NoStatement
  BY DEF Init
<1>2. DOMAIN NoStatement.text = {} /\ DOMAIN NoStatement.args = {}
  BY DEF NoStatement
<1> QED
  BY <1>1, <1>2, InitBase DEF BindInv, ShareBound, Bound, Matched

\* For every scope, segment list, expectation and shared chunk: in the dialects
\* the package ships, every placeholder of a statement that is sent is given the
\* value its author meant for it, and every argument has a placeholder.
THEOREM ValuesBound ==
  ASSUME "other" \notin Styles
  PROVE  Spec => []PlaceholdersGetTheirValues
<1>1. BindInv => PlaceholdersGetTheirValues
  BY DEF BindInv, BaseInv, TypeOK, Bound, PlaceholdersGetTheirValues
<1> QED
  BY <1>1, InitBind, NextBind, PTL DEF Spec

\* What PopulationHeld says of one step.
HoldsPopulation ==
  sent' # sent /\ sent'.on = "target" /\ phase # "returned" =>
    PopulationValues \subseteq {sent'.text[k].wants : k \in DOMAIN sent'.text}

\* A step sends about the target only what holds to the population.
LEMMA HoldsStep == BaseInv /\ [Next]_vars => HoldsPopulation
<1> SUFFICES ASSUME BaseInv, [Next]_vars, sent' # sent, sent'.on = "target", phase # "returned"
             PROVE  PopulationValues \subseteq {sent'.text[k].wants : k \in DOMAIN sent'.text}
  BY DEF HoldsPopulation
<1>1. CASE Sends("target") /\ phase \in Evaluating \cup {"returned"}
  <2>1. PICK pred : Kept(pred) /\ Send("target", pred)
    BY <1>1 DEF Sends
  <2>2. phase \in Evaluating
    BY <1>1
  <2>3. PopulationValues \subseteq {pred.where[k].wants : k \in DOMAIN pred.where}
    BY <2>1, <2>2, AlignedHeld DEF Kept
  <2>4. sent'.text = pred.where
    BY <2>1 DEF Send
  <2> QED
    BY <2>3, <2>4
<1>2. CASE CountShared
  <2>1. phase = "count" /\ rule.kind = "shared" /\ sent'.text = SharedStatement.where
    BY <1>2 DEF CountShared, Send
  <2>2. /\ Balanced(ActiveScope) /\ targets \in Seq(Slot)
        /\ Carried(ActiveScope.values, PopulationValues)
    BY <2>1, Accepting, SharedRule DEF BaseInv, TypeOK
  <2> QED
    BY <2>1, <2>2, SharedHeld
<1>3. ASSUME NEW pred, Send("secondary", pred) PROVE FALSE
  BY <1>3 DEF Send
<1> QED
  BY <1>1, <1>2, <1>3, SendStep

\* Until the report is returned, every statement about the target is held to
\* scope, segment and eligibility together.
THEOREM PopulationKept == Spec => PopulationHeld
<1>1. BaseInv /\ [Next]_vars => [HoldsPopulation]_vars
  BY HoldsStep
<1> QED
  BY <1>1, InitBase, NextBase, PTL DEF Spec, PopulationHeld, HoldsPopulation

==============================================================================
