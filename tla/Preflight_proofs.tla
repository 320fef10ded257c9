-------------------------- MODULE Preflight_proofs --------------------------
(***************************************************************************)
(* Preflight finds exactly the misconfigured slots, for every suite,       *)
(* dialect and way of wrapping.                                            *)
(*                                                                         *)
(* WrapperOrder is the lemma about one declaration: the faults found by    *)
(* walks that look inwards are those an order-free reading finds.          *)
(* JudgeInv is the inductive invariant: at slot at of pass pass the slots  *)
(* with an issue are those at fault as far as the loops have come, and     *)
(* seen holds the identities of the slots before at.  Ranked adds to it    *)
(* that the first issue of a slot has the cause the slot is published      *)
(* with: an issue that comes later is always of a lower rank.              *)
(***************************************************************************)
EXTENDS Preflight, SequenceTheorems, TLAPS

\* The fields a layer has.
LEMMA LayerFields ==
  ASSUME NEW d \in Decl, NEW i \in Layers(d)
  PROVE  /\ d.layers[i] \in Layer
         /\ d.layers[i].tag = "count" => d.layers[i].max \in Int
  <1>1. d.layers[i] \in Layer
    BY DEF Decl, Layers
  <1> QED
    BY <1>1 DEF Layer

\* Inner in terms of positions.
LEMMA InnerPosition ==
  ASSUME NEW d, NEW i, NEW layer
  PROVE  layer \in Inner(d, i) <=> \E j \in Layers(d) : i < j /\ layer = d.layers[j]
  BY DEF Inner

\* Two layers that exclude each other are found from the outer one.
LEMMA PairFound ==
  ASSUME NEW d \in Decl, NEW i \in Layers(d), NEW j \in Layers(d), i # j,
         \/ i \in Tolerances(d) /\ j \in Tolerances(d)
         \/ i \in Tagged(d, "policy") /\ j \in Tagged(d, "policy")
         \/ i \in Tagged(d, "when") /\ j \in Tagged(d, "when")
  PROVE  LayerFault(d, i) \/ LayerFault(d, j)
<1>0. i \in Int /\ j \in Int
  BY DEF Decl, Layers
<1>1. CASE i < j
  <2>1. d.layers[j] \in Inner(d, i)
    BY <1>1, InnerPosition
  <2> QED
    BY <2>1 DEF LayerFault, CountFault, PolicyFault, WhenFault, Tolerances, Tagged, Rated
<1>2. CASE j < i
  <2>1. d.layers[i] \in Inner(d, j)
    BY <1>2, InnerPosition
  <2> QED
    BY <2>1 DEF LayerFault, CountFault, PolicyFault, WhenFault, Tolerances, Tagged, Rated
<1> QED
  BY <1>0, <1>1, <1>2

\* What one layer's check finds is forbidden whatever the order.
LEMMA FaultForbidden ==
  ASSUME NEW d \in Decl, NEW i \in Layers(d), LayerFault(d, i)
  PROVE  ~WellFormed(d)
<1> USE InnerPosition, LayerFields DEF Tolerances, Tagged, Rated
<1>0. i \in Int /\ Layers(d) \subseteq Int
  BY DEF Decl, Layers
<1>1. CASE d.layers[i].tag = "id" /\ IdFault(d, i)
  BY <1>1 DEF WellFormed, IdFault
<1>2. CASE d.layers[i].tag = "count" /\ CountFault(d, i)
  <2>1. CASE d.layers[i].max < 0 \/ d.core \notin RowCores
    BY <1>2, <2>1 DEF WellFormed
  <2>2. CASE \E layer \in Inner(d, i) : layer.tag = "count" \/ Rated(layer)
    <3>1. PICK j \in Layers(d) : i < j /\ j \in Tolerances(d)
      BY <2>2
    <3> QED
      BY <1>0, <1>2, <3>1 DEF WellFormed, AtMostOne
  <2> QED
    BY <1>2, <2>1, <2>2 DEF CountFault
<1>3. CASE d.layers[i].tag = "policy" /\ PolicyFault(d, i)
  <2>1. CASE ~PolicyValid(d.layers[i]) \/ (Rated(d.layers[i]) /\ d.core \notin RowCores)
    BY <1>3, <2>1 DEF WellFormed
  <2>2. CASE Rated(d.layers[i]) /\ \E layer \in Inner(d, i) : layer.tag = "count"
    <3>1. PICK j \in Layers(d) : i < j /\ j \in Tolerances(d)
      BY <2>2
    <3> QED
      BY <1>0, <1>3, <2>2, <3>1 DEF WellFormed, AtMostOne
  <2>3. CASE \E layer \in Inner(d, i) : layer.tag = "policy"
    <3>1. PICK j \in Layers(d) : i < j /\ j \in Tagged(d, "policy")
      BY <2>3
    <3> QED
      BY <1>0, <1>3, <3>1 DEF WellFormed, AtMostOne
  <2> QED
    BY <1>3, <2>1, <2>2, <2>3 DEF PolicyFault
<1>4. CASE d.layers[i].tag = "when" /\ WhenFault(d, i)
  <2>1. CASE ~d.layers[i].valid \/ d.core \notin RowCores
    BY <1>4, <2>1 DEF WellFormed
  <2>2. CASE \E layer \in Inner(d, i) : layer.tag = "when"
    <3>1. PICK j \in Layers(d) : i < j /\ j \in Tagged(d, "when")
      BY <2>2
    <3> QED
      BY <1>0, <1>4, <3>1 DEF WellFormed, AtMostOne
  <2> QED
    BY <1>4, <2>1, <2>2 DEF WhenFault
<1> QED
  BY <1>1, <1>2, <1>3, <1>4 DEF LayerFault

\* The checks of withid.go, expectation.go, policy.go and eligibility.go find a
\* fault in a declaration exactly when the order-free reading of the
\* documentation forbids it: how the wrappers are nested does not matter.
THEOREM WrapperOrder == \A d \in Decl : OwnFault(d) <=> ~WellFormed(d)
<1> SUFFICES ASSUME NEW d \in Decl PROVE OwnFault(d) <=> ~WellFormed(d)
  OBVIOUS
<1>1. OwnFault(d) => ~WellFormed(d)
  BY FaultForbidden DEF OwnFault, WellFormed
<1>2. ASSUME ~CoreFault(d), \A i \in Layers(d) : ~LayerFault(d, i)
      PROVE  WellFormed(d)
  <2>1. ASSUME NEW i \in Layers(d)
        PROVE  LET layer == d.layers[i]
               IN /\ layer.tag = "id" => Trim[layer.id] # Blank
                  /\ layer.tag = "count" => layer.max >= 0
                  /\ layer.tag = "policy" => PolicyValid(layer)
                  /\ layer.tag = "when" => layer.valid
                  /\ (i \in Tolerances(d) \/ layer.tag = "when") => d.core \in RowCores
    BY <1>2, <2>1, LayerFields
    DEF LayerFault, IdFault, CountFault, PolicyFault, WhenFault, Tolerances, Rated
  <2>2. AtMostOne(Tolerances(d))
    BY <1>2, PairFound DEF AtMostOne, Tolerances
  <2>3. AtMostOne(Tagged(d, "policy")) /\ AtMostOne(Tagged(d, "when"))
    BY <1>2, PairFound DEF AtMostOne, Tagged
  <2> QED
    BY <1>2, <2>1, <2>2, <2>3 DEF WellFormed
<1> QED
  BY <1>1, <1>2 DEF OwnFault

----------------------------------------------------------------------------
(* The loops.                                                              *)

IssueType == [index: Slots, cause: Causes]

\* Some entry of a list of issues is about slot i.
Names(list, i) == \E k \in DOMAIN list : list[k].index = i

\* Slot i is at fault as far as the loops have come.
SharesBefore(i) ==
  \E j \in Slots \ {i} :
    j < at /\ TrimmedID(suite[i]) # Blank /\ TrimmedID(suite[j]) = TrimmedID(suite[i])

Known(i) ==
  IF pass = 0
    THEN i < at /\ (OwnFault(suite[i]) \/ SharesBefore(i))
    ELSE \/ OwnFault(suite[i]) \/ SharesID(i)
         \/ \E q \in DOMAIN Passes :
              RuledOut(suite[i], Passes[q]) /\ (q < pass \/ (q = pass /\ i < at))

\* seen holds the identities of the slots before at.
Seen ==
  pass = 0 =>
    /\ \A j \in Slots :
         j < at /\ TrimmedID(suite[j]) # Blank => TrimmedID(suite[j]) \in DOMAIN seen
    /\ \A id \in DOMAIN seen : seen[id] < at /\ TrimmedID(suite[seen[id]]) = id

Judged == \A i \in Slots : HasIssueAt(i) <=> Known(i)

Settled ==
  outcome # "checking" =>
    /\ at > Len(suite) /\ pass = Len(Passes)
    /\ outcome = "refused" <=> issues # <<>> /\ ~continue

JudgeInv == TypeOK /\ Seen /\ Judged /\ Settled

\* There are five capability passes.
LEMMA PassCount == Len(Passes) = 5 /\ DOMAIN Passes = 1..5
  BY DEF Passes

\* Slots are numbered from one.
LEMMA SlotRange == TypeOK => Slots = 1..Len(suite) /\ Len(suite) \in Nat
  BY DEF TypeOK, Slots

\* An issue of two lists put together is an issue of either.
LEMMA Joined ==
  ASSUME NEW S, NEW s \in Seq(S), NEW t \in Seq(S), NEW i
  PROVE  Names(s \o t, i) <=> Names(s, i) \/ Names(t, i)
<1>1. /\ Len(s) \in Nat /\ DOMAIN s = 1..Len(s)
      /\ Len(t) \in Nat /\ DOMAIN t = 1..Len(t)
      /\ Len(s \o t) = Len(s) + Len(t)
      /\ DOMAIN (s \o t) = 1..(Len(s) + Len(t))
      /\ \A k \in 1..(Len(s) + Len(t)) :
           (s \o t)[k] = IF k <= Len(s) THEN s[k] ELSE t[k - Len(s)]
  BY ConcatProperties, LenProperties
<1>2. ASSUME Names(s, i) PROVE Names(s \o t, i)
  BY <1>1, <1>2 DEF Names
<1>3. ASSUME Names(t, i) PROVE Names(s \o t, i)
  <2>1. PICK k \in 1..Len(t) : t[k].index = i
    BY <1>1, <1>3 DEF Names
  <2>2. /\ k + Len(s) \in 1..(Len(s) + Len(t))
        /\ ~(k + Len(s) <= Len(s)) /\ k + Len(s) - Len(s) = k
    BY <1>1
  <2>3. (s \o t)[k + Len(s)] = t[k]
    BY <1>1, <2>2
  <2> QED
    BY <1>1, <2>1, <2>2, <2>3 DEF Names
<1>4. ASSUME Names(s \o t, i) PROVE Names(s, i) \/ Names(t, i)
  <2>1. PICK k \in 1..(Len(s) + Len(t)) : (s \o t)[k].index = i
    BY <1>1, <1>4 DEF Names
  <2>2. CASE k <= Len(s)
    BY <1>1, <2>1, <2>2 DEF Names
  <2>3. CASE ~(k <= Len(s))
    <3>1. k - Len(s) \in 1..Len(t) /\ (s \o t)[k] = t[k - Len(s)]
      BY <1>1, <2>3
    <3> QED
      BY <1>1, <2>1, <3>1 DEF Names
  <2> QED
    BY <2>2, <2>3
<1> QED
  BY <1>2, <1>3, <1>4

\* What one turn of the check adds.
LEMMA AddedIssues ==
  ASSUME TypeOK, Seen, pass = 0, at <= Len(suite)
  PROVE  /\ at \in Slots
         /\ IssuesOf(suite[at]) \in Seq(IssueType)
         /\ \A i \in Slots :
              Names(IssuesOf(suite[at]), i) <=>
                \/ i = at /\ OwnFault(suite[at])
                \/ Taken(TrimmedID(suite[at])) /\ i \in {at, seen[TrimmedID(suite[at])]}
<1> DEFINE d == suite[at]
           id == TrimmedID(d)
           twice == IF Taken(id) THEN <<Issue(seen[id], "id"), Issue(at, "id")>> ELSE <<>>
<1>1. at \in Slots
  BY SlotRange DEF TypeOK
<1>2. /\ Own(d) \in Seq(IssueType)
      /\ \A i : Names(Own(d), i) <=> i = at /\ OwnFault(d)
  <2> HIDE DEF d
  <2>1. Issue(at, "own") \in IssueType /\ Issue(at, "own").index = at
    BY <1>1 DEF Issue, IssueType, Causes
  <2>2. CASE OwnFault(d)
    BY <2>1, <2>2 DEF Own, Names
  <2>3. CASE ~OwnFault(d)
    BY <2>3 DEF Own, Names
  <2> QED
    BY <2>2, <2>3
<1>3. /\ twice \in Seq(IssueType)
      /\ \A i : Names(twice, i) <=> Taken(id) /\ i \in {at, seen[id]}
  <2>1. CASE Taken(id)
    <3>1. seen[id] \in Slots
      BY <2>1 DEF Taken, TypeOK
    <3> HIDE DEF id
    <3>2. /\ Issue(seen[id], "id") \in IssueType /\ Issue(at, "id") \in IssueType
          /\ Issue(seen[id], "id").index = seen[id] /\ Issue(at, "id").index = at
      BY <1>1, <3>1 DEF Issue, IssueType, Causes
    <3> QED
      BY <2>1, <3>2 DEF Names
  <2>2. CASE ~Taken(id)
    BY <2>2 DEF Names
  <2> QED
    BY <2>1, <2>2
<1>4. IssuesOf(d) = Own(d) \o twice
  BY DEF IssuesOf
<1> HIDE DEF d, id, twice
<1>5. Own(d) \o twice \in Seq(IssueType)
  BY <1>2, <1>3, ConcatProperties
<1>6. \A i : Names(Own(d) \o twice, i) <=> Names(Own(d), i) \/ Names(twice, i)
  BY <1>2, <1>3, Joined
<1>7. \A i : Names(IssuesOf(d), i) <=>
              \/ i = at /\ OwnFault(d)
              \/ Taken(id) /\ i \in {at, seen[id]}
  BY <1>2, <1>3, <1>4, <1>6
<1> QED
  BY <1>1, <1>4, <1>5, <1>7 DEF d, id

\* The loop over the suite's own faults and identities keeps the invariant.
LEMMA CheckStep ==
  ASSUME JudgeInv, Check
  PROVE  JudgeInv'
<1> DEFINE d == suite[at]
           id == TrimmedID(d)
<1>1. /\ pass = 0 /\ at \in Slots /\ at' = at + 1 /\ outcome = "checking"
      /\ UNCHANGED <<suite, dialect, filtered, continue, pass, outcome>>
      /\ issues' = issues \o IssuesOf(d)
      /\ Slots = 1..Len(suite) /\ Len(suite) \in Nat
  BY AddedIssues, SlotRange, PassCount DEF Check, JudgeInv, Settled
<1>2. IF id = Blank \/ Taken(id) THEN seen' = seen ELSE Remember(id)
  BY DEF Check
<1>3. TypeOK'
  <2>1. issues' \in Seq(IssueType)
    BY <1>1, AddedIssues, ConcatProperties DEF JudgeInv, TypeOK, Check, IssueType
  <2>2. seen' \in [DOMAIN seen' -> Slots]
    <3>1. CASE id = Blank \/ Taken(id)
      BY <1>2, <3>1 DEF JudgeInv, TypeOK
    <3>2. CASE ~(id = Blank \/ Taken(id))
      <4> HIDE DEF id
      <4> QED
        BY <1>1, <1>2, <3>2 DEF JudgeInv, TypeOK, Remember
    <3> QED
      BY <3>1, <3>2
  <2> QED
    BY <1>1, <2>1, <2>2 DEF JudgeInv, TypeOK, Slots, IssueType
<1>4. Seen'
  <2> SUFFICES /\ \A j \in Slots :
                     j < at + 1 /\ TrimmedID(suite[j]) # Blank
                       => TrimmedID(suite[j]) \in DOMAIN seen'
               /\ \A other \in DOMAIN seen' :
                     seen'[other] < at + 1 /\ TrimmedID(suite[seen'[other]]) = other
    BY <1>1 DEF Seen, Slots
  <2>0. at \in Int /\ \A j \in Slots : j \in Int /\ (j < at + 1 => j < at \/ j = at)
    BY <1>1
  <2>1. CASE id = Blank \/ Taken(id)
    BY <1>1, <1>2, <2>0, <2>1 DEF JudgeInv, Seen, TypeOK, Taken
  <2>2. CASE ~(id = Blank \/ Taken(id))
    <3> HIDE DEF id
    <3>1. /\ DOMAIN seen' = DOMAIN seen \cup {id}
          /\ seen'[id] = at
          /\ \A other \in DOMAIN seen : other # id => seen'[other] = seen[other]
      BY <1>2, <2>2 DEF Remember
    <3> QED
      BY <1>1, <2>0, <3>1 DEF JudgeInv, Seen, TypeOK, id
  <2> QED
    BY <2>1, <2>2
<1>5. Judged'
  <2> SUFFICES ASSUME NEW i \in Slots PROVE HasIssueAt(i)' <=> Known(i)'
    BY <1>1 DEF Judged, Slots
  <2>1. HasIssueAt(i)' <=> HasIssueAt(i) \/ Names(IssuesOf(d), i)
    <3>1. issues \in Seq(IssueType) /\ IssuesOf(d) \in Seq(IssueType)
      BY <1>1, AddedIssues DEF JudgeInv, TypeOK, IssueType, Check
    <3> QED
      <4>1. Names(issues \o IssuesOf(d), i) <=> Names(issues, i) \/ Names(IssuesOf(d), i)
        BY <3>1, Joined
      <4>2. HasIssueAt(i) <=> Names(issues, i)
        BY DEF HasIssueAt, Names
      <4>3. HasIssueAt(i)' <=> Names(issues', i)
        BY DEF HasIssueAt, Names
      <4> QED
        BY <1>1, <4>1, <4>2, <4>3
  <2>2. HasIssueAt(i) <=> i < at /\ (OwnFault(suite[i]) \/ SharesBefore(i))
    BY <1>1 DEF JudgeInv, Judged, Known
  <2>3. Names(IssuesOf(d), i) <=>
          \/ i = at /\ OwnFault(d)
          \/ Taken(id) /\ i \in {at, seen[id]}
    BY <1>1, AddedIssues DEF JudgeInv, Check
  <2>4. Known(i)' <=> i < at + 1 /\ (OwnFault(suite[i]) \/ SharesBefore(i)')
    BY <1>1 DEF Known
  <2>5. SharesBefore(i)' <=>
          \E j \in Slots \ {i} :
            /\ j < at + 1 /\ TrimmedID(suite[i]) # Blank
            /\ TrimmedID(suite[j]) = TrimmedID(suite[i])
    BY <1>1 DEF SharesBefore, Slots
  <2>6. Taken(id) <=> id # Blank /\ \E j \in Slots : j < at /\ TrimmedID(suite[j]) = id
    BY <1>1 DEF JudgeInv, Seen, Taken, TypeOK
  <2>7. Taken(id) => seen[id] \in Slots /\ seen[id] < at /\ TrimmedID(suite[seen[id]]) = id
    BY <1>1 DEF JudgeInv, Seen, Taken, TypeOK
  <2>8. at \in Int /\ \A j \in Slots : j \in Int
    BY <1>1
  <2> HIDE DEF id
  <2>9. CASE i = at
    <3>1. SharesBefore(i)' <=> Taken(id)
      BY <2>5, <2>6, <2>8, <2>9 DEF id
    <3> QED
      BY <2>1, <2>2, <2>3, <2>4, <2>8, <2>9, <3>1
  <2>10. CASE i > at
    BY <2>1, <2>2, <2>3, <2>4, <2>7, <2>8, <2>10
  <2>11. CASE i < at
    <3>1. SharesBefore(i)' <=>
            \/ SharesBefore(i)
            \/ TrimmedID(suite[i]) # Blank /\ id = TrimmedID(suite[i])
      BY <1>1, <2>5, <2>8, <2>11 DEF SharesBefore, id
    <3>2. (TrimmedID(suite[i]) # Blank /\ id = TrimmedID(suite[i]))
            => SharesBefore(i) \/ (Taken(id) /\ i = seen[id])
      BY <2>6, <2>7, <2>8, <2>11 DEF SharesBefore
    <3>3. (Taken(id) /\ i = seen[id]) => SharesBefore(i)'
      BY <2>6, <2>7, <3>1
    <3> QED
      BY <2>1, <2>2, <2>3, <2>4, <2>8, <2>11, <3>1, <3>2, <3>3
  <2> QED
    BY <2>8, <2>9, <2>10, <2>11
<1>6. Settled'
  BY <1>1 DEF Settled
<1> QED
  BY <1>3, <1>4, <1>5, <1>6 DEF JudgeInv

\* One turn of a capability pass keeps it.
LEMMA RuleOutStep ==
  ASSUME JudgeInv, RuleOut
  PROVE  JudgeInv'
<1> DEFINE adds == RuledOut(suite[at], Passes[pass]) /\ ~HasIssueAt(at)
<1>1. /\ pass \in 1..5 /\ pass # 0 /\ at \in Slots /\ at' = at + 1 /\ outcome = "checking"
      /\ UNCHANGED <<suite, dialect, filtered, continue, pass, seen, outcome>>
      /\ IF adds THEN issues' = Append(issues, Issue(at, Passes[pass])) ELSE issues' = issues
      /\ Slots = 1..Len(suite) /\ Len(suite) \in Nat
      /\ issues \in Seq(IssueType)
  BY SlotRange, PassCount DEF RuleOut, JudgeInv, Settled, TypeOK, IssueType
<1>2. Issue(at, Passes[pass]) \in IssueType /\ Issue(at, Passes[pass]).index = at
  BY <1>1, PassCount DEF Issue, IssueType, Causes
<1> HIDE DEF adds
<1>3. TypeOK'
  <2>1. issues' \in Seq(IssueType)
    BY <1>1, <1>2
  <2> QED
    BY <1>1, <2>1, PassCount DEF JudgeInv, TypeOK, Slots, IssueType
<1>4. Seen' /\ Settled'
  BY <1>1 DEF Seen, Settled
<1>5. Judged'
  <2> SUFFICES ASSUME NEW i \in Slots PROVE HasIssueAt(i)' <=> Known(i)'
    BY <1>1 DEF Judged, Slots
  <2>1. HasIssueAt(i)' <=> HasIssueAt(i) \/ (adds /\ i = at)
    <3>1. CASE adds
      <4> DEFINE new == <<Issue(at, Passes[pass])>>
      <4>1. issues' = issues \o new
        BY <1>1, <1>2, <3>1
      <4>2. new \in Seq(IssueType)
        BY <1>2
      <4>3. Names(new, i) <=> i = at
        BY <1>2 DEF Names
      <4> HIDE DEF new
      <4>4. Names(issues \o new, i) <=> Names(issues, i) \/ Names(new, i)
        BY <1>1, <4>2, Joined
      <4>5. HasIssueAt(i)' <=> Names(issues', i)
        BY DEF HasIssueAt, Names
      <4>6. HasIssueAt(i) <=> Names(issues, i)
        BY DEF HasIssueAt, Names
      <4> QED
        BY <3>1, <4>1, <4>3, <4>4, <4>5, <4>6
    <3>2. CASE ~adds
      BY <1>1, <3>2 DEF HasIssueAt
    <3> QED
      BY <3>1, <3>2
  <2>2. HasIssueAt(i) <=>
          \/ OwnFault(suite[i]) \/ SharesID(i)
          \/ \E q \in 1..5 :
               RuledOut(suite[i], Passes[q]) /\ (q < pass \/ (q = pass /\ i < at))
    BY <1>1, PassCount DEF JudgeInv, Judged, Known
  <2>3. \A q : RuledOut(suite[i], Passes[q])' <=> RuledOut(suite[i], Passes[q])
    BY <1>1 DEF RuledOut, Passes
  <2>4. SharesID(i)' <=> SharesID(i)
    BY <1>1 DEF SharesID, Slots
  <2>5. Known(i)' <=>
          \/ OwnFault(suite[i]) \/ SharesID(i)
          \/ \E q \in 1..5 :
               RuledOut(suite[i], Passes[q]) /\ (q < pass \/ (q = pass /\ i < at + 1))
    BY <1>1, <2>3, <2>4, PassCount DEF Known
  <2>6. i \in Int /\ at \in Int
    BY <1>1
  <2>7. CASE i # at
    BY <2>1, <2>2, <2>5, <2>6, <2>7
  <2>8. CASE i = at
    <3>1. (\E q \in 1..5 :
             RuledOut(suite[i], Passes[q]) /\ (q < pass \/ (q = pass /\ i < at + 1)))
          <=> \/ RuledOut(suite[i], Passes[pass])
              \/ \E q \in 1..5 : RuledOut(suite[i], Passes[q]) /\ q < pass
      BY <1>1, <2>6, <2>8
    <3> QED
      BY <2>1, <2>2, <2>5, <2>6, <2>8, <3>1 DEF adds
  <2> QED
    BY <2>7, <2>8
<1> QED
  BY <1>3, <1>4, <1>5 DEF JudgeInv

\* So does going on to the next pass.
LEMMA NextPassStep ==
  ASSUME JudgeInv, NextPass
  PROVE  JudgeInv'
<1>1. /\ pass \in 0..4 /\ pass' = pass + 1 /\ at > Len(suite) /\ at' = 1
      /\ UNCHANGED <<suite, dialect, filtered, continue, seen, issues, outcome>>
      /\ Slots = 1..Len(suite) /\ Len(suite) \in Nat /\ outcome = "checking" /\ at \in Int
  BY SlotRange, PassCount DEF NextPass, JudgeInv, Settled, TypeOK
<1>2. TypeOK' /\ Seen' /\ Settled'
  BY <1>1, PassCount DEF JudgeInv, TypeOK, Seen, Settled, Slots
<1>3. Judged'
  <2> SUFFICES ASSUME NEW i \in Slots PROVE HasIssueAt(i) <=> Known(i)'
    BY <1>1 DEF Judged, Slots, HasIssueAt
  <2>1. i \in Int /\ i < at /\ ~(i < 1) /\ \A j \in Slots : j \in Int /\ j < at
    BY <1>1
  <2>2. Known(i)' <=>
          \/ OwnFault(suite[i]) \/ SharesID(i)
          \/ \E q \in 1..5 : RuledOut(suite[i], Passes[q]) /\ q < pass + 1
    <3>1. \A q : RuledOut(suite[i], Passes[q])' <=> RuledOut(suite[i], Passes[q])
      BY <1>1 DEF RuledOut, Passes
    <3>2. SharesID(i)' <=> SharesID(i)
      BY <1>1 DEF SharesID, Slots
    <3> QED
      BY <1>1, <2>1, <3>1, <3>2, PassCount DEF Known
  <2>3. CASE pass = 0
    <3>1. SharesBefore(i) <=> SharesID(i)
      BY <2>1 DEF SharesBefore, SharesID
    <3>2. HasIssueAt(i) <=> OwnFault(suite[i]) \/ SharesID(i)
      BY <2>1, <2>3, <3>1 DEF JudgeInv, Judged, Known
    <3> QED
      BY <2>2, <2>3, <3>2
  <2>4. CASE pass # 0
    <3>1. HasIssueAt(i) <=>
            \/ OwnFault(suite[i]) \/ SharesID(i)
            \/ \E q \in 1..5 : RuledOut(suite[i], Passes[q]) /\ (q < pass \/ q = pass)
      BY <2>1, <2>4, PassCount DEF JudgeInv, Judged, Known
    <3> QED
      BY <1>1, <2>2, <3>1
  <2> QED
    BY <2>3, <2>4
<1> QED
  BY <1>2, <1>3 DEF JudgeInv

\* And the decision that ends preflight.
LEMMA DecideStep ==
  ASSUME JudgeInv, Decide
  PROVE  JudgeInv'
<1>1. /\ at > Len(suite) /\ pass = Len(Passes) /\ pass = 5
      /\ outcome' = IF issues # <<>> /\ ~continue THEN "refused" ELSE "accepted"
      /\ UNCHANGED <<suite, dialect, filtered, continue, pass, at, seen, issues>>
  BY PassCount DEF Decide
<1>2. TypeOK' /\ Seen' /\ Settled'
  BY <1>1 DEF JudgeInv, TypeOK, Seen, Settled, Slots
<1>3. Judged'
  <2> SUFFICES ASSUME NEW i \in Slots PROVE HasIssueAt(i) <=> Known(i)'
    BY <1>1 DEF Judged, Slots, HasIssueAt
  <2>1. Known(i)' <=> Known(i)
    BY <1>1 DEF Known, RuledOut, SharesID, SharesBefore, Slots, Passes
  <2> QED
    BY <2>1 DEF JudgeInv, Judged
<1> QED
  BY <1>2, <1>3 DEF JudgeInv

\* What preflight has found so far is what the loops that lie behind find.
THEOREM JudgeInductive == Spec => []JudgeInv
<1>1. Init => JudgeInv
  <2> SUFFICES ASSUME Init PROVE JudgeInv
    OBVIOUS
  <2>1. TypeOK
    BY SuitesAssumption, DialectsAssumption, PassCount DEF Init, TypeOK, Slots
  <2>2. Seen /\ Settled
    BY <2>1, SlotRange DEF Init, Seen, Settled
  <2>3. Judged
    BY <2>1, SlotRange DEF Init, Judged, Known, HasIssueAt
  <2> QED
    BY <2>1, <2>2, <2>3 DEF JudgeInv
<1>2. JudgeInv /\ [Next]_vars => JudgeInv'
  <2> SUFFICES ASSUME JudgeInv, [Next]_vars PROVE JudgeInv'
    OBVIOUS
  <2>1. CASE Check
    BY <2>1, CheckStep
  <2>2. CASE RuleOut
    BY <2>2, RuleOutStep
  <2>3. CASE NextPass
    BY <2>3, NextPassStep
  <2>4. CASE Decide
    BY <2>4, DecideStep
  <2>5. CASE Decided \/ UNCHANGED vars
    <3>1. UNCHANGED vars
      BY <2>5 DEF Decided
    <3> QED
      BY <3>1 DEF vars, JudgeInv, TypeOK, Seen, Judged, Settled, Known, HasIssueAt,
                  RuledOut, SharesID, SharesBefore, Slots, Passes, IssueType
  <2> QED
    BY <2>1, <2>2, <2>3, <2>4, <2>5 DEF Next
<1> QED
  BY <1>1, <1>2, PTL DEF Spec

\* Every reachable state of preflight is well typed.
THEOREM PreflightTypes == Spec => []TypeOK
<1>1. JudgeInv => TypeOK
  BY DEF JudgeInv
<1> QED
  BY <1>1, JudgeInductive, PTL

\* Before the first statement the slots with an issue are the misconfigured
\* ones, and the call is refused exactly when there is one and ContinueOnError
\* was not given (suite.go:231-298).
THEOREM SlotsJudged == Spec => []EverySlotJudged
<1>1. JudgeInv => EverySlotJudged
  <2> SUFFICES ASSUME JudgeInv, outcome # "checking"
               PROVE  /\ \A i \in Slots : HasIssueAt(i) <=> Misconfigured(i)
                      /\ outcome = "refused" <=> ~continue /\ \E i \in Slots : Misconfigured(i)
    BY DEF EverySlotJudged
  <2>1. /\ pass = 5 /\ at > Len(suite) /\ at \in Int
        /\ outcome = "refused" <=> issues # <<>> /\ ~continue
        /\ Slots = 1..Len(suite) /\ Len(suite) \in Nat
        /\ issues \in Seq(IssueType)
    BY SlotRange, PassCount DEF JudgeInv, Settled, TypeOK, IssueType
  <2>2. ASSUME NEW i \in Slots
        PROVE  HasIssueAt(i) <=> Misconfigured(i)
    <3>1. suite[i] \in Decl
      BY <2>1 DEF JudgeInv, TypeOK
    <3>2. HasIssueAt(i) <=>
            \/ OwnFault(suite[i]) \/ SharesID(i)
            \/ \E q \in 1..5 : RuledOut(suite[i], Passes[q])
      BY <2>1, PassCount DEF JudgeInv, Judged, Known
    <3>3. Rejecting(i) # {} <=> \E q \in 1..5 : RuledOut(suite[i], Passes[q])
      BY PassCount DEF Rejecting
    <3> QED
      BY <3>1, <3>2, <3>3, WrapperOrder DEF Misconfigured
  <2>3. issues # <<>> <=> \E i \in Slots : HasIssueAt(i)
    <3>1. ASSUME issues # <<>> PROVE \E i \in Slots : HasIssueAt(i)
      <4>1. 1 \in DOMAIN issues /\ issues[1] \in IssueType
        BY <2>1, <3>1, EmptySeq
      <4> QED
        BY <4>1 DEF HasIssueAt, IssueType
    <3> QED
      BY <3>1 DEF HasIssueAt
  <2> QED
    BY <2>1, <2>2, <2>3
<1> QED
  BY <1>1, JudgeInductive, PTL

----------------------------------------------------------------------------
(* Which issue comes first.                                                *)

\* Entry k of a list of issues is the first about slot i.
First(list, i, k) ==
  /\ k \in DOMAIN list /\ list[k].index = i
  /\ \A m \in DOMAIN list : m < k => list[m].index # i

\* The cause with which slot i is to be published.
Deserved(i, cause) ==
  \/ cause = "own" /\ OwnFault(suite[i])
  \/ cause = "id" /\ ~OwnFault(suite[i]) /\ SharesID(i)
  \/ \E p \in 1..5 :
       /\ cause = Passes[p] /\ ~OwnFault(suite[i]) /\ ~SharesID(i)
       /\ RuledOut(suite[i], Passes[p])
       /\ \A q \in 1..5 : q < p => ~RuledOut(suite[i], Passes[q])

\* Every slot with an issue has a first one, and that one is deserved.
Ranked ==
  \A i \in Slots :
    /\ HasIssueAt(i) => \E k : First(issues, i, k)
    /\ \A k : First(issues, i, k) => Deserved(i, issues[k].cause)

\* The first issue of two lists put together is that of the first list, or if
\* that has none that of the second.
LEMMA FirstJoined ==
  ASSUME NEW S, NEW s \in Seq(S), NEW t \in Seq(S), NEW i
  PROVE  /\ \A k : First(s \o t, i, k) =>
              \/ First(s, i, k) /\ (s \o t)[k] = s[k]
              \/ ~Names(s, i) /\ \E j : First(t, i, j) /\ (s \o t)[k] = t[j]
         /\ (\E k : First(s, i, k)) => \E k : First(s \o t, i, k)
         /\ ~Names(s, i) /\ (\E j : First(t, i, j)) => \E k : First(s \o t, i, k)
<1>1. /\ Len(s) \in Nat /\ DOMAIN s = 1..Len(s)
      /\ Len(t) \in Nat /\ DOMAIN t = 1..Len(t)
      /\ DOMAIN (s \o t) = 1..(Len(s) + Len(t))
      /\ \A k \in 1..(Len(s) + Len(t)) :
           (s \o t)[k] = IF k <= Len(s) THEN s[k] ELSE t[k - Len(s)]
  <2>1. s \o t \in Seq(S) /\ Len(s \o t) = Len(s) + Len(t)
    BY ConcatProperties
  <2>2. DOMAIN (s \o t) = 1..Len(s \o t)
    BY <2>1, LenProperties
  <2> QED
    BY <2>1, <2>2, ConcatProperties, LenProperties
<1>2. \A m \in 1..Len(s) : m \in 1..(Len(s) + Len(t)) /\ (s \o t)[m] = s[m]
  BY <1>1
<1>3. \A m \in 1..Len(t) :
        m + Len(s) \in 1..(Len(s) + Len(t)) /\ (s \o t)[m + Len(s)] = t[m]
  <2> SUFFICES ASSUME NEW m \in 1..Len(t)
               PROVE  m + Len(s) \in 1..(Len(s) + Len(t)) /\ (s \o t)[m + Len(s)] = t[m]
    OBVIOUS
  <2>1. /\ m + Len(s) \in 1..(Len(s) + Len(t)) /\ ~(m + Len(s) <= Len(s))
        /\ m + Len(s) - Len(s) = m
    BY <1>1
  <2> QED
    BY <1>1, <2>1
<1>4. ASSUME NEW k, First(s \o t, i, k)
      PROVE  \/ First(s, i, k) /\ (s \o t)[k] = s[k]
             \/ ~Names(s, i) /\ \E j : First(t, i, j) /\ (s \o t)[k] = t[j]
  <2>1. /\ k \in 1..(Len(s) + Len(t)) /\ (s \o t)[k].index = i
        /\ \A m \in 1..(Len(s) + Len(t)) : m < k => (s \o t)[m].index # i
    BY <1>1, <1>4 DEF First
  <2>2. CASE k <= Len(s)
    <3>1. k \in 1..Len(s)
      BY <1>1, <2>1, <2>2
    <3> QED
      BY <1>1, <1>2, <2>1, <3>1 DEF First
  <2>3. CASE ~(k <= Len(s))
    <3>1. PICK j \in 1..Len(t) : k = j + Len(s)
      <4>1. k - Len(s) \in 1..Len(t) /\ k = (k - Len(s)) + Len(s)
        BY <1>1, <2>1, <2>3
      <4> QED
        BY <4>1
    <3>2. (s \o t)[k] = t[j]
      BY <1>3, <3>1
    <3>3. ~Names(s, i)
      <4> SUFFICES ASSUME NEW m \in 1..Len(s) PROVE s[m].index # i
        BY <1>1 DEF Names
      <4>1. m < k
        BY <1>1, <2>1, <2>3
      <4> QED
        BY <1>2, <2>1, <4>1
    <3>4. First(t, i, j)
      <4> SUFFICES ASSUME NEW m \in 1..Len(t), m < j PROVE t[m].index # i
        BY <1>1, <2>1, <3>1, <3>2 DEF First
      <4>1. m + Len(s) < k
        BY <1>1, <3>1
      <4> QED
        BY <1>3, <2>1, <4>1
    <3> QED
      BY <3>2, <3>3, <3>4
  <2> QED
    BY <2>2, <2>3
<1>5. ASSUME NEW k, First(s, i, k) PROVE First(s \o t, i, k)
  <2>1. k \in 1..Len(s) /\ s[k].index = i /\ \A m \in 1..Len(s) : m < k => s[m].index # i
    BY <1>1, <1>5 DEF First
  <2> SUFFICES ASSUME NEW m \in 1..(Len(s) + Len(t)), m < k PROVE (s \o t)[m].index # i
    BY <1>1, <1>2, <2>1 DEF First
  <2>2. m \in 1..Len(s)
    BY <1>1, <2>1
  <2> QED
    BY <1>2, <2>1, <2>2
<1>6. ASSUME NEW j, First(t, i, j), ~Names(s, i) PROVE First(s \o t, i, j + Len(s))
  <2>1. j \in 1..Len(t) /\ t[j].index = i /\ \A m \in 1..Len(t) : m < j => t[m].index # i
    BY <1>1, <1>6 DEF First
  <2> SUFFICES ASSUME NEW m \in 1..(Len(s) + Len(t)), m < j + Len(s) PROVE (s \o t)[m].index # i
    BY <1>1, <1>3, <2>1 DEF First
  <2>2. CASE m <= Len(s)
    <3>1. m \in 1..Len(s)
      BY <1>1, <2>2
    <3> QED
      BY <1>1, <1>2, <1>6, <3>1 DEF Names
  <2>3. CASE ~(m <= Len(s))
    <3>1. m - Len(s) \in 1..Len(t) /\ m - Len(s) < j /\ (s \o t)[m] = t[m - Len(s)]
      BY <1>1, <2>1, <2>3
    <3> QED
      BY <2>1, <3>1
  <2> QED
    BY <2>2, <2>3
<1> QED
  BY <1>4, <1>5, <1>6

\* A list that deserves its first issues keeps doing so when it grows by one
\* whose own first issues, about slots it does not name yet, are deserved.
LEMMA RankedGrows ==
  ASSUME JudgeInv, Ranked, NEW new \in Seq(IssueType), issues' = issues \o new,
         UNCHANGED <<suite, dialect, filtered>>,
         \A i \in Slots : Names(new, i) => \E j : First(new, i, j),
         \A i \in Slots : ~HasIssueAt(i) =>
           \A j : First(new, i, j) => Deserved(i, new[j].cause)
  PROVE  Ranked'
<1> SUFFICES ASSUME NEW i \in Slots
             PROVE  /\ HasIssueAt(i)' => \E k : First(issues', i, k)
                    /\ \A k : First(issues', i, k) => Deserved(i, issues[k].cause)'
  BY DEF Ranked, Slots, First
<1>1. issues \in Seq(IssueType) /\ (HasIssueAt(i) <=> Names(issues, i))
  BY DEF JudgeInv, TypeOK, IssueType, HasIssueAt, Names
<1>2. HasIssueAt(i)' <=> Names(issues, i) \/ Names(new, i)
  <2>1. HasIssueAt(i)' <=> Names(issues', i)
    BY DEF HasIssueAt, Names
  <2> QED
    BY <1>1, <2>1, Joined
<1>3. HasIssueAt(i)' => \E k : First(issues \o new, i, k)
  <2>1. CASE Names(issues, i)
    <3>1. \E k : First(issues, i, k)
      BY <1>1, <2>1 DEF Ranked
    <3> QED
      BY <1>1, <3>1, FirstJoined
  <2>2. CASE ~Names(issues, i)
    BY <1>1, <1>2, <2>2, FirstJoined
  <2> QED
    BY <2>1, <2>2
<1>4. ASSUME NEW k, First(issues \o new, i, k)
      PROVE  Deserved(i, (issues \o new)[k].cause)
  <2>1. \/ First(issues, i, k) /\ (issues \o new)[k] = issues[k]
        \/ ~Names(issues, i) /\ \E j : First(new, i, j) /\ (issues \o new)[k] = new[j]
    BY <1>1, <1>4, FirstJoined
  <2> QED
    BY <1>1, <2>1 DEF Ranked
<1>5. ASSUME NEW cause, Deserved(i, cause) PROVE Deserved(i, cause)'
  BY <1>5 DEF Deserved, RuledOut, SharesID, Slots, Passes
<1>6. ASSUME NEW k, First(issues', i, k) PROVE Deserved(i, issues[k].cause)'
  <2>1. PICK cause : cause = (issues \o new)[k].cause /\ cause = issues'[k].cause
    OBVIOUS
  <2>2. Deserved(i, cause)'
    BY <1>4, <1>5, <1>6, <2>1
  <2> QED
    BY <2>1, <2>2 DEF Deserved
<1> QED
  BY <1>3, <1>6

\* What one turn of the check adds is deserved: the slot's own fault before the
\* identity, and for the earlier slot only if it has no issue yet.
LEMMA CheckRanked ==
  ASSUME JudgeInv, Ranked, Check
  PROVE  Ranked'
<1> DEFINE d == suite[at]
           id == TrimmedID(d)
           own == Own(d)
           twice == IF Taken(id) THEN <<Issue(seen[id], "id"), Issue(at, "id")>> ELSE <<>>
<1>1. /\ pass = 0 /\ at \in Slots /\ Slots = 1..Len(suite) /\ Len(suite) \in Nat
      /\ issues' = issues \o IssuesOf(d) /\ IssuesOf(d) = own \o twice
      /\ UNCHANGED <<suite, dialect, filtered>>
  BY AddedIssues, SlotRange, PassCount DEF Check, JudgeInv, IssuesOf
<1>2. Taken(id) => /\ seen[id] \in Slots /\ seen[id] < at /\ seen[id] # at
                   /\ id # Blank /\ TrimmedID(suite[seen[id]]) = id
  BY <1>1 DEF JudgeInv, Seen, Taken, TypeOK
<1>3. /\ own \in Seq(IssueType)
      /\ \A i : Names(own, i) <=> OwnFault(d) /\ i = at
      /\ \A i, j : First(own, i, j) => own[j].cause = "own"
      /\ \A i : Names(own, i) => First(own, i, 1)
  <2> HIDE DEF d
  <2>1. /\ Issue(at, "own") \in IssueType /\ Issue(at, "own").index = at
        /\ Issue(at, "own").cause = "own"
    BY <1>1 DEF Issue, IssueType, Causes
  <2>2. CASE OwnFault(d)
    BY <2>1, <2>2 DEF Own, Names, First
  <2>3. CASE ~OwnFault(d)
    BY <2>3 DEF Own, Names, First
  <2> QED
    BY <2>2, <2>3
<1>4. /\ twice \in Seq(IssueType)
      /\ \A i : Names(twice, i) => Taken(id) /\ i \in {at, seen[id]}
      /\ \A i, j : First(twice, i, j) => twice[j].cause = "id" /\ Names(twice, i)
      /\ \A i : Names(twice, i) => \E j : First(twice, i, j)
  <2> HIDE DEF id
  <2>1. CASE Taken(id)
    <3> DEFINE a == Issue(seen[id], "id")
               b == Issue(at, "id")
    <3>1. /\ a \in IssueType /\ b \in IssueType
          /\ a.index = seen[id] /\ b.index = at /\ a.cause = "id" /\ b.cause = "id"
          /\ seen[id] # at
      BY <1>1, <1>2, <2>1 DEF Issue, IssueType, Causes
    <3>2. twice = <<a, b>>
      BY <2>1
    <3> HIDE DEF a, b, twice
    <3>3. twice \in Seq(IssueType) /\ DOMAIN twice = 1..2 /\ twice[1] = a /\ twice[2] = b
      BY <3>1, <3>2
    <3>4. First(twice, seen[id], 1) /\ First(twice, at, 2)
      <4>1. \A m \in 1..2 : m = 1 \/ m = 2
        OBVIOUS
      <4> QED
        BY <3>1, <3>3, <4>1 DEF First
    <3>5. \A m \in 1..2 : m = 1 \/ m = 2
      OBVIOUS
    <3> QED
      BY <2>1, <3>1, <3>3, <3>4, <3>5 DEF Names, First
  <2>2. CASE ~Taken(id)
    BY <2>2 DEF Names, First
  <2> QED
    BY <2>1, <2>2
<1> HIDE DEF own, twice
<1>5. own \o twice \in Seq(IssueType)
  BY <1>3, <1>4, ConcatProperties
<1>6. ASSUME NEW i \in Slots, Names(own \o twice, i) PROVE \E j : First(own \o twice, i, j)
  <2>1. Names(own, i) \/ Names(twice, i)
    BY <1>3, <1>4, <1>6, Joined
  <2>2. CASE Names(own, i)
    <3>1. \E j : First(own, i, j)
      BY <1>3, <2>2
    <3> QED
      BY <1>3, <1>4, <3>1, FirstJoined
  <2>3. CASE ~Names(own, i)
    <3>1. \E j : First(twice, i, j)
      BY <1>4, <2>1, <2>3
    <3> QED
      BY <1>3, <1>4, <2>3, <3>1, FirstJoined
  <2> QED
    BY <2>2, <2>3
<1>7. ASSUME NEW i \in Slots, ~HasIssueAt(i), NEW k, First(own \o twice, i, k)
      PROVE  Deserved(i, (own \o twice)[k].cause)
  <2>1. \/ First(own, i, k) /\ (own \o twice)[k] = own[k]
        \/ ~Names(own, i) /\ \E j : First(twice, i, j) /\ (own \o twice)[k] = twice[j]
    BY <1>3, <1>4, <1>7, FirstJoined
  <2>2. CASE First(own, i, k) /\ (own \o twice)[k] = own[k]
    <3>1. Names(own, i) /\ own[k].cause = "own"
      BY <1>3, <2>2 DEF First, Names
    <3> QED
      BY <1>3, <2>2, <3>1 DEF Deserved
  <2>3. CASE ~Names(own, i) /\ \E j : First(twice, i, j) /\ (own \o twice)[k] = twice[j]
    <3>1. (own \o twice)[k].cause = "id" /\ Taken(id) /\ i \in {at, seen[id]}
      BY <1>4, <2>3
    <3>2. ~OwnFault(suite[i])
      <4>1. CASE i = at
        BY <1>3, <2>3, <4>1
      <4>2. CASE i # at
        <5>1. i < at /\ ~Known(i)
          BY <1>2, <1>7, <3>1, <4>2 DEF JudgeInv, Judged
        <5> QED
          BY <1>1, <5>1 DEF Known
      <4> QED
        BY <4>1, <4>2
    <3>3. SharesID(i)
      BY <1>1, <1>2, <3>1 DEF SharesID
    <3> QED
      BY <3>1, <3>2, <3>3 DEF Deserved
  <2> QED
    BY <2>1, <2>2, <2>3
<1> QED
  BY <1>1, <1>5, <1>6, <1>7, RankedGrows

\* A pass adds an issue only to a slot that has none.
LEMMA RuleOutRanked ==
  ASSUME JudgeInv, Ranked, RuleOut
  PROVE  Ranked'
<1> DEFINE new == <<Issue(at, Passes[pass])>>
<1>1. /\ pass \in 1..5 /\ pass # 0 /\ at \in Slots /\ at \in Int
      /\ UNCHANGED <<suite, dialect, filtered>>
      /\ issues \in Seq(IssueType)
  BY SlotRange, PassCount DEF RuleOut, JudgeInv, TypeOK, IssueType
<1>2. /\ Issue(at, Passes[pass]) \in IssueType /\ Issue(at, Passes[pass]).index = at
      /\ Issue(at, Passes[pass]).cause = Passes[pass]
  BY <1>1, PassCount DEF Issue, IssueType, Causes
<1>3. CASE UNCHANGED issues
  BY <1>1, <1>3
  DEF Ranked, Slots, First, HasIssueAt, Deserved, RuledOut, SharesID, Passes
<1>4. CASE /\ RuledOut(suite[at], Passes[pass]) /\ ~HasIssueAt(at)
           /\ issues' = Append(issues, Issue(at, Passes[pass]))
  <2>1. issues' = issues \o new /\ new \in Seq(IssueType)
    BY <1>1, <1>2, <1>4
  <2>2. \A i, j : First(new, i, j) => i = at /\ new[j].cause = Passes[pass]
    BY <1>2 DEF First
  <2>3. \A i : Names(new, i) => First(new, i, 1)
    BY <1>2 DEF First, Names
  <2>4. Deserved(at, Passes[pass])
    <3>1. ~Known(at)
      BY <1>1, <1>4 DEF JudgeInv, Judged
    <3>2. /\ ~OwnFault(suite[at]) /\ ~SharesID(at)
          /\ \A q \in 1..5 : q < pass => ~RuledOut(suite[at], Passes[q])
      BY <1>1, <3>1, PassCount DEF Known
    <3> QED
      BY <1>1, <1>4, <3>2 DEF Deserved
  <2> HIDE DEF new
  <2> QED
    BY <1>1, <2>1, <2>2, <2>3, <2>4, RankedGrows
<1> QED
  BY <1>3, <1>4 DEF RuleOut

\* A slot under ContinueOnError is published with its own fault, or else the
\* identity it shares, or else the first pass that rules it out
\* (suite.go:231-298, 387).
THEOREM CauseRanked == Spec => []CauseByPrecedence
<1>1. Init => Ranked
  BY DEF Init, Ranked, HasIssueAt, First
<1>2. JudgeInv /\ Ranked /\ [Next]_vars => Ranked'
  <2> SUFFICES ASSUME JudgeInv, Ranked, [Next]_vars PROVE Ranked'
    OBVIOUS
  <2>1. CASE UNCHANGED <<suite, dialect, filtered, issues>>
    BY <2>1 DEF Ranked, Slots, First, HasIssueAt, Deserved, RuledOut, SharesID, Passes
  <2> QED
    BY <2>1, CheckRanked, RuleOutRanked DEF Next, NextPass, Decide, Decided, vars
<1>3. JudgeInv /\ Ranked => CauseByPrecedence
  <2> SUFFICES ASSUME JudgeInv, Ranked, outcome # "checking", NEW i \in Slots, Misconfigured(i)
               PROVE  CauseAt(i) = CASE ~WellFormed(suite[i]) -> "own"
                                     [] WellFormed(suite[i]) /\ SharesID(i) -> "id"
                                     [] OTHER -> Passes[CHOOSE p \in Rejecting(i) :
                                                          \A q \in Rejecting(i) : p <= q]
    BY DEF CauseByPrecedence
  <2>1. /\ pass = 5 /\ at > Len(suite) /\ at \in Int
        /\ Slots = 1..Len(suite) /\ Len(suite) \in Nat
        /\ issues \in Seq(IssueType)
    BY SlotRange, PassCount DEF JudgeInv, Settled, TypeOK, IssueType
  <2>2. OwnFault(suite[i]) <=> ~WellFormed(suite[i])
    <3>1. suite[i] \in Decl
      BY <2>1 DEF JudgeInv, TypeOK
    <3> QED
      BY <3>1, WrapperOrder
  <2>3. Rejecting(i) = {p \in 1..5 : RuledOut(suite[i], Passes[p])}
    BY PassCount DEF Rejecting
  <2>4. HasIssueAt(i)
    BY <2>1, <2>2, <2>3, PassCount DEF JudgeInv, Judged, Known, Misconfigured
  <2>5. PICK k : First(issues, i, k)
    BY <2>4 DEF Ranked
  <2>6. CauseAt(i) = issues[k].cause
    <3>1. DOMAIN issues = 1..Len(issues) /\ Len(issues) \in Nat
      BY <2>1, LenProperties
    <3>2. /\ k \in DOMAIN issues /\ issues[k].index = i
          /\ \A m \in DOMAIN issues : issues[m].index = i => k <= m
      BY <2>5, <3>1 DEF First
    <3>3. \A l \in DOMAIN issues :
            issues[l].index = i /\ (\A m \in DOMAIN issues : issues[m].index = i => l <= m)
              => l = k
      BY <3>1, <3>2
    <3>4. k = CHOOSE l \in DOMAIN issues :
                /\ issues[l].index = i
                /\ \A m \in DOMAIN issues : issues[m].index = i => l <= m
      BY <3>2, <3>3
    <3> QED
      BY <3>4 DEF CauseAt
  <2>7. Deserved(i, issues[k].cause)
    BY <2>5 DEF Ranked
  <2>8. CASE OwnFault(suite[i])
    BY <2>2, <2>6, <2>7, <2>8 DEF Deserved
  <2>9. CASE ~OwnFault(suite[i]) /\ SharesID(i)
    BY <2>2, <2>6, <2>7, <2>9 DEF Deserved
  <2>10. CASE ~OwnFault(suite[i]) /\ ~SharesID(i)
    <3>1. PICK p \in 1..5 :
            /\ issues[k].cause = Passes[p] /\ RuledOut(suite[i], Passes[p])
            /\ \A q \in 1..5 : q < p => ~RuledOut(suite[i], Passes[q])
      BY <2>7, <2>10 DEF Deserved
    <3>2. p \in Rejecting(i) /\ \A q \in Rejecting(i) : p <= q
      BY <2>3, <3>1
    <3>3. \A l \in Rejecting(i) : (\A q \in Rejecting(i) : l <= q) => l = p
      BY <2>3, <3>2
    <3>4. p = CHOOSE l \in Rejecting(i) : \A q \in Rejecting(i) : l <= q
      BY <3>2, <3>3
    <3> QED
      BY <2>2, <2>6, <2>10, <3>1, <3>4
  <2> QED
    BY <2>8, <2>9, <2>10
<1> QED
  BY <1>1, <1>2, <1>3, JudgeInductive, PTL DEF Spec
=============================================================================
