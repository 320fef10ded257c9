--------------------------- MODULE Wrapping_proofs ---------------------------
(***************************************************************************)
(* What is published of an accepted declaration is what its wrappers       *)
(* promise, on either path, for every chain of wrappers of any depth and   *)
(* for every measurement.                                                  *)
(*                                                                         *)
(* An accepted declaration has one layer of each kind that counts, and one *)
(* tolerance at most (Accepted).  So a result that is decorated by a part  *)
(* of the chain is known from that part as a set (Decorated), and a plan   *)
(* from the part that was walked (Planned): the order does not matter,     *)
(* except to the identity.                                                 *)
(***************************************************************************)
EXTENDS Wrapping, SequenceTheorems, WellFoundedInduction, TLAPS

----------------------------------------------------------------------------
(* The declaration.                                                        *)

Typed ==
  /\ decl \in Decls /\ ~OwnFault(decl)
  /\ figures \in Figures /\ fault \in Faults
  /\ fault = "diagnostic" => figures.failed > 0 /\ decl.core \in RowCores
  /\ stage \in {"plan", "unwind", "published"}
  /\ at \in 0..(Len(decl.layers) + 1) /\ (stage = "plan" => at > 0)
  /\ (stage = "unwind" => at <= Len(decl.layers)) /\ (stage = "published" => at = 0)

\* The layers of a declaration.
LEMMA DeclShape ==
  ASSUME NEW d \in Decl
  PROVE  /\ Layers(d) = 1..Len(d.layers) /\ Len(d.layers) \in Nat
         /\ \A i \in Layers(d) : d.layers[i] \in Layer
         /\ d.core \in Cores
<1>1. d.layers \in Seq(Layer) /\ d.core \in Cores
  BY DEF Decl
<1>2. DOMAIN d.layers = 1..Len(d.layers) /\ Len(d.layers) \in Nat
  BY <1>1, LenProperties
<1> QED
  BY <1>1, <1>2, LenProperties DEF Layers

\* The layers of each kind.
LEMMA LayerShape ==
  ASSUME NEW l \in Layer
  PROVE  /\ l.tag \in {"id", "count", "policy", "when"}
         /\ l.tag = "id" => l.id \in RawIds
         /\ l.tag = "count" => l.max \in Int
         /\ l.tag = "policy" => l.severity \in Severities /\ l.percent \in Nat \cup {None}
<1> QED
  BY DEF Layer

\* What preflight accepts has one tolerance, one policy and one predicate at
\* most, tolerances only over rows, and no negative maximum.
LEMMA Accepted ==
  ASSUME NEW d \in Decl, ~OwnFault(d)
  PROVE  /\ \A i \in Tagged(d, "count") :
              /\ d.layers[i].max \in Nat /\ d.core \in RowCores
              /\ \A j \in Tagged(d, "count") : i = j
              /\ \A j \in Tagged(d, "policy") : ~Rated(d.layers[j])
         /\ \A i, j \in Tagged(d, "policy") : i = j
         /\ \A i \in Tagged(d, "policy") : Rated(d.layers[i]) => d.core \in RowCores
<1>1. /\ Layers(d) = 1..Len(d.layers) /\ Len(d.layers) \in Nat
      /\ \A i \in Layers(d) : d.layers[i] \in Layer
  BY DeclShape
<1>2. \A i \in Layers(d) : ~LayerFault(d, i)
  BY DEF OwnFault
<1>3. \A i, j \in Layers(d) : i < j => d.layers[j] \in Inner(d, i)
  BY DEF Inner
<1>4. ASSUME NEW i \in Tagged(d, "count")
      PROVE  /\ d.layers[i].max \in Nat /\ d.core \in RowCores
             /\ \A j \in Layers(d) :
                  i < j => d.layers[j].tag # "count" /\ ~Rated(d.layers[j])
  <2>1. i \in Layers(d) /\ d.layers[i].tag = "count"
    BY DEF Tagged
  <2>2. ~CountFault(d, i)
    BY <1>2, <2>1 DEF LayerFault
  <2>3. d.layers[i].max \in Int
    BY <1>1, <2>1, LayerShape
  <2> QED
    BY <1>3, <2>1, <2>2, <2>3 DEF CountFault
<1>5. ASSUME NEW i \in Tagged(d, "policy")
      PROVE  /\ \A j \in Layers(d) : i < j => d.layers[j].tag # "policy"
             /\ Rated(d.layers[i]) =>
                  /\ d.core \in RowCores
                  /\ \A j \in Layers(d) : i < j => d.layers[j].tag # "count"
  <2>1. i \in Layers(d) /\ d.layers[i].tag = "policy"
    BY DEF Tagged
  <2>2. ~PolicyFault(d, i)
    BY <1>2, <2>1 DEF LayerFault
  <2> QED
    BY <1>3, <2>1, <2>2 DEF PolicyFault
<1>6. \A i, j \in Tagged(d, "count") : i = j
  BY <1>1, <1>4 DEF Tagged
<1>7. \A i, j \in Tagged(d, "policy") : i = j
  BY <1>1, <1>5 DEF Tagged
<1>8. ASSUME NEW i \in Tagged(d, "count"), NEW j \in Tagged(d, "policy"), Rated(d.layers[j])
      PROVE  FALSE
  <2>1. i \in Nat /\ j \in Nat /\ i \in Layers(d) /\ j \in Layers(d)
    BY <1>1 DEF Tagged
  <2>2. i # j
    BY DEF Tagged
  <2>3. CASE i < j
    BY <1>4, <1>8, <2>1, <2>3
  <2>4. CASE j < i
    <3>1. d.layers[i].tag = "count"
      BY DEF Tagged
    <3> QED
      BY <1>5, <1>8, <2>1, <2>4, <3>1
  <2> QED
    BY <2>1, <2>2, <2>3, <2>4
<1> QED
  BY <1>4, <1>5, <1>6, <1>7, <1>8

----------------------------------------------------------------------------
(* A result decorated by some of the layers.                               *)

Has(S, tag) == S \cap Tagged(decl, tag) # {}
HasRate(S) == Has(S, "policy") /\ Rated(The("policy"))

\* The result that decorating starts from.
Fresh == IF fault = "statement" THEN Unmeasured ELSE Measured

\* What the tolerance among the layers of S makes of the figures.
Passes(S) ==
  IF Has(S, "count") THEN Fresh.failed <= The("count").max
  ELSE IF HasRate(S)
    THEN \/ Fresh.total = 0 \/ Fresh.failed = 0
         \/ Fresh.failed * 100 <= The("policy").percent * Fresh.total
  ELSE figures.failed = 0

Tolerates(S) ==
  IF Has(S, "count") THEN Fresh.failed <= The("count").max /\ Fresh.failed > 0
  ELSE /\ HasRate(S)
       /\ ~(Fresh.total = 0 \/ Fresh.failed = 0)
       /\ Fresh.failed * 100 <= The("policy").percent * Fresh.total

\* The identity is that of the outermost layer of S that has one.
NamedBy(r, S) ==
  \/ ~Has(S, "id") /\ r.id = Blank
  \/ \E i \in S \cap Tagged(decl, "id") :
       r.id = decl.layers[i].id /\ \A j \in S \cap Tagged(decl, "id") : i <= j

\* A result is a record of these fields.
Shape(r) ==
  /\ r = [id |-> r.id, available |-> r.available, total |-> r.total, failed |-> r.failed,
          success |-> r.success, tolerated |-> r.tolerated, severity |-> r.severity,
          maxCount |-> r.maxCount, maxPercent |-> r.maxPercent, err |-> r.err]
  /\ r.available \in BOOLEAN /\ r.success \in BOOLEAN
  /\ r.tolerated \in BOOLEAN /\ r.err \in BOOLEAN

\* All of a result but its identity and its error.
Described(r, S) ==
  /\ Shape(r)
  /\ r.available = Fresh.available /\ r.total = Fresh.total /\ r.failed = Fresh.failed
  /\ r.severity = (IF Has(S, "policy") THEN The("policy").severity ELSE "error")
  /\ r.maxCount = (IF Has(S, "count") THEN The("count").max ELSE None)
  /\ r.maxPercent = (IF HasRate(S) THEN The("policy").percent ELSE None)
  /\ r.success <=> fault = "none" /\ Passes(S)
  /\ r.tolerated <=> fault = "none" /\ Tolerates(S)

Decorated(r, S) ==
  /\ Described(r, S) /\ NamedBy(r, S)
  /\ r.err <=> fault # "none" /\ (Has(S, "count") \/ Has(S, "policy"))

\* The one layer of a kind is the one that The finds.
LEMMA TheOne ==
  ASSUME NEW tag, \A i, j \in Tagged(decl, tag) : i = j, NEW i \in Tagged(decl, tag)
  PROVE  The(tag) = decl.layers[i]
<1>1. (CHOOSE k \in Tagged(decl, tag) : TRUE) = i
  OBVIOUS
<1> QED
  BY <1>1 DEF The

\* What is there before any wrapper has decorated it.
LEMMA FreshShape ==
  ASSUME Typed
  PROVE  /\ Fresh = [id |-> Blank, available |-> Fresh.available, total |-> Fresh.total,
                     failed |-> Fresh.failed, success |-> Fresh.success, tolerated |-> FALSE,
                     severity |-> "error", maxCount |-> None, maxPercent |-> None, err |-> FALSE]
         /\ Fresh.available \in BOOLEAN /\ Fresh.success \in BOOLEAN
         /\ Fresh.total \in Nat /\ Fresh.failed \in Nat
         /\ fault # "statement" => (Fresh.available <=> decl.core \in RowCores)
         /\ fault = "statement" => Fresh = Unmeasured
         /\ Fresh.success <=> fault = "none" /\ figures.failed = 0
         /\ Fresh.available => Fresh.failed = figures.failed /\ Fresh.total = figures.total
         /\ ~Fresh.available => Fresh.failed = 0
<1>1. figures.total \in Nat /\ figures.failed \in Nat
  BY FiguresAssumption DEF Typed
<1>2. CASE fault = "statement"
  BY <1>2 DEF Fresh, Unmeasured
<1>3. CASE fault # "statement"
  <2>1. Fresh = [id |-> Blank, available |-> decl.core \in RowCores,
                 total |-> IF decl.core \in RowCores THEN figures.total ELSE 0,
                 failed |-> IF decl.core \in RowCores THEN figures.failed ELSE 0,
                 success |-> figures.failed = 0, tolerated |-> FALSE,
                 severity |-> "error", maxCount |-> None, maxPercent |-> None, err |-> FALSE]
    BY <1>3 DEF Fresh, Measured, Unmeasured
  <2>2. fault = "none" \/ (fault = "diagnostic" /\ figures.failed > 0)
    BY <1>3 DEF Typed, Faults
  <2>3. /\ Fresh.available = (decl.core \in RowCores)
        /\ Fresh.total = IF decl.core \in RowCores THEN figures.total ELSE 0
        /\ Fresh.failed = IF decl.core \in RowCores THEN figures.failed ELSE 0
        /\ Fresh.success = (figures.failed = 0)
    BY <2>1
  <2>4. Fresh = [id |-> Blank, available |-> Fresh.available, total |-> Fresh.total,
                 failed |-> Fresh.failed, success |-> Fresh.success, tolerated |-> FALSE,
                 severity |-> "error", maxCount |-> None, maxPercent |-> None, err |-> FALSE]
    BY <2>1, <2>3
  <2>5. Fresh.available \in BOOLEAN /\ Fresh.success \in BOOLEAN
    BY <2>3
  <2>6. (Fresh.success <=> figures.failed = 0) /\ (Fresh.available <=> decl.core \in RowCores)
    BY <2>3, Zenon
  <2>7. Fresh.success <=> fault = "none" /\ figures.failed = 0
    BY <1>1, <2>2, <2>6
  <2> QED
    BY <1>1, <1>3, <2>3, <2>4, <2>5, <2>6, <2>7
<1> QED
  BY <1>2, <1>3

\* No layer has decorated a fresh result.
LEMMA FreshDecorated ==
  ASSUME Typed
  PROVE  Decorated(Fresh, {})
<1>1. \A tag : ~Has({}, tag)
  BY DEF Has
<1>2. ~HasRate({})
  BY <1>1 DEF HasRate
<1> DEFINE r == Fresh
<1>3. /\ r = [id |-> Blank, available |-> r.available, total |-> r.total,
              failed |-> r.failed, success |-> r.success, tolerated |-> FALSE,
              severity |-> "error", maxCount |-> None, maxPercent |-> None, err |-> FALSE]
      /\ r.success \in BOOLEAN
      /\ r.success <=> fault = "none" /\ figures.failed = 0
  BY FreshShape
<1>4. /\ r.id = Blank /\ r.tolerated = FALSE /\ r.severity = "error" /\ r.maxCount = None
      /\ r.maxPercent = None /\ r.err = FALSE
  BY <1>3
<1>5. Described(r, {})
  <2>0. Fresh.available \in BOOLEAN
    BY FreshShape
  <2>1. Passes({}) <=> figures.failed = 0
    BY <1>1, <1>2 DEF Passes
  <2>2. ~Tolerates({})
    BY <1>1, <1>2 DEF Tolerates
  <2> HIDE DEF r
  <2>3. r = [id |-> r.id, available |-> r.available, total |-> r.total, failed |-> r.failed,
             success |-> r.success, tolerated |-> r.tolerated, severity |-> r.severity,
             maxCount |-> r.maxCount, maxPercent |-> r.maxPercent, err |-> r.err]
    BY <1>3
  <2>4. r.available = Fresh.available /\ r.total = Fresh.total /\ r.failed = Fresh.failed
    BY DEF r
  <2> QED
    BY <1>1, <1>2, <1>3, <1>4, <2>0, <2>1, <2>2, <2>3, <2>4 DEF Described, Shape
<1>6. NamedBy(r, {})
  BY <1>1, <1>4 DEF NamedBy
<1> HIDE DEF r
<1>7. Decorated(r, {})
  BY <1>1, <1>4, <1>5, <1>6 DEF Decorated
<1> QED
  BY <1>7 DEF r
\* What a count tolerance changes of a result.
LEMMA CountFields ==
  ASSUME NEW r, Shape(r), NEW max
  PROVE  LET x == ApplyMaxFailedCount(r, max)
         IN /\ Shape(x) /\ x.id = r.id /\ x.available = r.available /\ x.total = r.total
            /\ x.failed = r.failed /\ x.severity = r.severity /\ x.maxPercent = r.maxPercent
            /\ x.maxCount = max /\ x.err = r.err
            /\ x.success <=> ~r.err /\ (IF r.available THEN r.failed <= max ELSE r.success)
            /\ x.tolerated <=> ~r.err /\ r.available /\ r.failed <= max /\ r.failed > 0
<1> DEFINE s == [r EXCEPT !.maxCount = max, !.tolerated = FALSE]
<1> DEFINE x == ApplyMaxFailedCount(r, max)
<1>1. s = [id |-> r.id, available |-> r.available, total |-> r.total, failed |-> r.failed,
           success |-> r.success, tolerated |-> FALSE, severity |-> r.severity,
           maxCount |-> max, maxPercent |-> r.maxPercent, err |-> r.err]
  <2> DEFINE t == [r EXCEPT !.maxCount = max]
  <2>1. t = [id |-> r.id, available |-> r.available, total |-> r.total, failed |-> r.failed,
             success |-> r.success, tolerated |-> r.tolerated, severity |-> r.severity,
             maxCount |-> max, maxPercent |-> r.maxPercent, err |-> r.err]
    BY DEF Shape
  <2>2. s = [t EXCEPT !.tolerated = FALSE]
    OBVIOUS
  <2> HIDE DEF t, s
  <2> QED
    BY <2>1, <2>2
<1>2. x = IF s.err THEN [s EXCEPT !.success = FALSE]
          ELSE IF ~s.available THEN s
          ELSE [s EXCEPT !.success = s.failed <= max,
                         !.tolerated = s.failed <= max /\ s.failed > 0]
  BY DEF ApplyMaxFailedCount
<1> HIDE DEF s, x
<1>3. CASE r.err
  <2>1. x = [id |-> r.id, available |-> r.available, total |-> r.total, failed |-> r.failed,
             success |-> FALSE, tolerated |-> FALSE, severity |-> r.severity,
             maxCount |-> max, maxPercent |-> r.maxPercent, err |-> r.err]
    BY <1>1, <1>2, <1>3
  <2>2. Shape(x)
    BY <2>1 DEF Shape
  <2> QED
    BY <1>3, <2>1, <2>2 DEF x
<1>4. CASE ~r.err /\ ~r.available
  <2>1. x = s
    BY <1>1, <1>2, <1>4
  <2>2. Shape(x)
    BY <1>1, <2>1 DEF Shape
  <2> QED
    BY <1>1, <1>4, <2>1, <2>2 DEF x
<1>5. CASE ~r.err /\ r.available
  <2> DEFINE b == r.failed <= max
  <2> DEFINE c == r.failed <= max /\ r.failed > 0
  <2>0. b \in BOOLEAN /\ c \in BOOLEAN
    OBVIOUS
  <2>1. x = [id |-> r.id, available |-> r.available, total |-> r.total, failed |-> r.failed,
             success |-> b, tolerated |-> c, severity |-> r.severity,
             maxCount |-> max, maxPercent |-> r.maxPercent, err |-> r.err]
    BY <1>1, <1>2, <1>5
  <2> HIDE DEF b, c
  <2>2. Shape(x)
    BY <2>0, <2>1 DEF Shape
  <2>3. (x.success <=> b) /\ (x.tolerated <=> c)
    BY <2>0, <2>1
  <2> QED
    BY <1>5, <2>1, <2>2, <2>3 DEF x, b, c
<1> QED
  BY <1>3, <1>4, <1>5 DEF Shape

\* What a policy changes of a result.
LEMMA PolicyFields ==
  ASSUME NEW r, Shape(r), NEW p, p.tag = "policy", p.percent \in Nat \cup {None}
  PROVE  LET x == ApplyPolicy(r, p)
             clean == r.total = 0 \/ r.failed = 0
             within == r.failed * 100 <= p.percent * r.total
         IN /\ Shape(x) /\ x.id = r.id /\ x.available = r.available /\ x.total = r.total
            /\ x.failed = r.failed /\ x.severity = p.severity /\ x.maxCount = r.maxCount
            /\ x.maxPercent = (IF Rated(p) THEN p.percent ELSE r.maxPercent)
            /\ x.err = r.err
            /\ x.success <=> IF ~Rated(p) THEN r.success
                             ELSE ~r.err /\ (IF r.available THEN clean \/ within ELSE r.success)
            /\ x.tolerated <=> IF ~Rated(p) THEN r.tolerated
                               ELSE ~r.err /\ r.available /\ ~clean /\ within
<1> DEFINE x == ApplyPolicy(r, p)
<1> DEFINE t == [r EXCEPT !.severity = p.severity]
<1> DEFINE clean == r.total = 0 \/ r.failed = 0
<1> DEFINE within == r.failed * 100 <= p.percent * r.total
<1>1. t = [id |-> r.id, available |-> r.available, total |-> r.total, failed |-> r.failed,
           success |-> r.success, tolerated |-> r.tolerated, severity |-> p.severity,
           maxCount |-> r.maxCount, maxPercent |-> r.maxPercent, err |-> r.err]
  BY DEF Shape
<1>2. CASE ~Rated(p)
  <2>1. x = t
    BY <1>2 DEF ApplyPolicy
  <2> HIDE DEF t, x
  <2>2. Shape(x)
    BY <1>1, <2>1 DEF Shape
  <2> QED
    BY <1>1, <1>2, <2>1, <2>2 DEF x
<1>3. CASE Rated(p)
  <2> DEFINE s == [t EXCEPT !.maxPercent = p.percent, !.tolerated = FALSE]
  <2>1. x = IF s.err THEN [s EXCEPT !.success = FALSE]
            ELSE IF ~s.available THEN s
            ELSE [s EXCEPT !.success = (s.total = 0 \/ s.failed = 0)
                                       \/ s.failed * 100 <= p.percent * s.total,
                           !.tolerated = ~(s.total = 0 \/ s.failed = 0)
                                         /\ s.failed * 100 <= p.percent * s.total]
    BY <1>3 DEF ApplyPolicy, ApplyMaxFailedPercent
  <2> HIDE DEF t
  <2>2. s = [id |-> r.id, available |-> r.available, total |-> r.total, failed |-> r.failed,
             success |-> r.success, tolerated |-> FALSE, severity |-> p.severity,
             maxCount |-> r.maxCount, maxPercent |-> p.percent, err |-> r.err]
    <3> DEFINE u == [t EXCEPT !.maxPercent = p.percent]
    <3>1. u = [id |-> r.id, available |-> r.available, total |-> r.total, failed |-> r.failed,
               success |-> r.success, tolerated |-> r.tolerated, severity |-> p.severity,
               maxCount |-> r.maxCount, maxPercent |-> p.percent, err |-> r.err]
      BY <1>1
    <3>2. s = [u EXCEPT !.tolerated = FALSE]
      OBVIOUS
    <3> HIDE DEF u, s
    <3> QED
      BY <3>1, <3>2
  <2> HIDE DEF s, x
  <2>3. CASE r.err
    <3>1. x = [id |-> r.id, available |-> r.available, total |-> r.total, failed |-> r.failed,
               success |-> FALSE, tolerated |-> FALSE, severity |-> p.severity,
               maxCount |-> r.maxCount, maxPercent |-> p.percent, err |-> r.err]
      BY <2>1, <2>2, <2>3
    <3>2. Shape(x)
      BY <3>1 DEF Shape
    <3> QED
      BY <1>3, <2>3, <3>1, <3>2 DEF x
  <2>4. CASE ~r.err /\ ~r.available
    <3>1. x = s
      BY <2>1, <2>2, <2>4
    <3>2. Shape(x)
      BY <2>2, <3>1 DEF Shape
    <3> QED
      BY <1>3, <2>2, <2>4, <3>1, <3>2 DEF x
  <2>5. CASE ~r.err /\ r.available
    <3> DEFINE b == clean \/ within
    <3> DEFINE c == ~clean /\ within
    <3>0. b \in BOOLEAN /\ c \in BOOLEAN
      OBVIOUS
    <3>1. x = [s EXCEPT !.success = b, !.tolerated = c]
      BY <2>1, <2>2, <2>5
    <3> HIDE DEF b, c
    <3>2. x = [id |-> r.id, available |-> r.available, total |-> r.total, failed |-> r.failed,
               success |-> b, tolerated |-> c, severity |-> p.severity,
               maxCount |-> r.maxCount, maxPercent |-> p.percent, err |-> r.err]
      BY <2>2, <3>1
    <3>3. Shape(x)
      BY <3>0, <3>2 DEF Shape
    <3>4. (x.success <=> b) /\ (x.tolerated <=> c)
      BY <3>0, <3>2
    <3> QED
      BY <1>3, <2>5, <3>2, <3>3, <3>4 DEF x, b, c
  <2> QED
    BY <2>3, <2>4, <2>5 DEF Shape
<1> QED
  BY <1>2, <1>3
\* One more layer, further out than those that are done.
LEMMA HasMore ==
  ASSUME NEW S \in SUBSET Layers(decl), NEW i \in Layers(decl), NEW tag
  PROVE  Has(S \cup {i}, tag) <=> Has(S, tag) \/ decl.layers[i].tag = tag
<1> QED
  BY DEF Has, Tagged

\* A layer without identity, further out, does not change who names the result.
LEMMA NameStays ==
  ASSUME NEW S \in SUBSET Layers(decl), NEW i \in Layers(decl), decl.layers[i].tag # "id",
         NEW r, NEW x, x.id = r.id, NamedBy(r, S)
  PROVE  NamedBy(x, S \cup {i})
<1>1. (S \cup {i}) \cap Tagged(decl, "id") = S \cap Tagged(decl, "id")
  BY DEF Tagged
<1> QED
  BY <1>1 DEF NamedBy, Has

\* A wrapper that comes back adds its layer to those that have decorated.
LEMMA DecoratesOn ==
  ASSUME Typed, NEW S \in SUBSET Layers(decl), NEW i \in Layers(decl), \A j \in S : i < j,
         NEW r, Decorated(r, S), returned <=> fault # "none"
  PROVE  Decorated(Decorate(r, decl.layers[i]), S \cup {i})
<1> DEFINE layer == decl.layers[i]
<1> DEFINE T == S \cup {i}
<1> DEFINE s == [r EXCEPT !.err = r.err \/ returned]
<1>1. decl \in Decl /\ ~OwnFault(decl)
  BY DeclsAssumption DEF Typed
<1>2. layer \in Layer /\ i \in Int /\ i \notin S
  BY <1>1, DeclShape
<1>3. /\ layer.tag \in {"id", "count", "policy", "when"}
      /\ layer.tag = "count" => layer.max \in Int
      /\ layer.tag = "policy" => layer.severity \in Severities /\ layer.percent \in Nat \cup {None}
  BY <1>2, LayerShape
<1>4. \A tag : Has(T, tag) <=> Has(S, tag) \/ layer.tag = tag
  BY HasMore
<1>5. Shape(r) /\ Described(r, S) /\ NamedBy(r, S)
      /\ (r.err <=> fault # "none" /\ (Has(S, "count") \/ Has(S, "policy")))
  BY DEF Decorated, Described
<1>6. /\ Shape(s) /\ s.id = r.id /\ s.available = r.available /\ s.total = r.total
      /\ s.failed = r.failed /\ s.success = r.success /\ s.tolerated = r.tolerated
      /\ s.severity = r.severity /\ s.maxCount = r.maxCount /\ s.maxPercent = r.maxPercent
      /\ (s.err <=> fault # "none")
  <2> DEFINE b == r.err \/ returned
  <2>1. b \in BOOLEAN /\ (b <=> fault # "none")
    BY <1>5
  <2>2. s = [r EXCEPT !.err = b]
    OBVIOUS
  <2> HIDE DEF b, s
  <2>3. s = [id |-> r.id, available |-> r.available, total |-> r.total, failed |-> r.failed,
             success |-> r.success, tolerated |-> r.tolerated, severity |-> r.severity,
             maxCount |-> r.maxCount, maxPercent |-> r.maxPercent, err |-> b]
    BY <1>5, <2>2 DEF Shape
  <2>4. Shape(s)
    BY <1>5, <2>1, <2>3 DEF Shape
  <2>5. s.err <=> b
    BY <2>1, <2>3
  <2> QED
    BY <2>1, <2>3, <2>4, <2>5
<1>7. /\ Fresh.available \in BOOLEAN /\ Fresh.total \in Nat /\ Fresh.failed \in Nat
      /\ figures.failed \in Nat
      /\ fault = "none" => (Fresh.available <=> decl.core \in RowCores)
  BY FreshShape, FiguresAssumption DEF Typed
<1> HIDE DEF layer, T, s
<1>8. CASE layer.tag = "id"
  <2> DEFINE x == [r EXCEPT !.id = layer.id]
  <2>1. Decorate(r, layer) = x
    BY <1>8 DEF Decorate
  <2>2. x = [id |-> layer.id, available |-> r.available, total |-> r.total, failed |-> r.failed,
             success |-> r.success, tolerated |-> r.tolerated, severity |-> r.severity,
             maxCount |-> r.maxCount, maxPercent |-> r.maxPercent, err |-> r.err]
    BY <1>5 DEF Shape
  <2> HIDE DEF x
  <2>3. Shape(x)
    BY <1>5, <2>2 DEF Shape
  <2>4. /\ Has(T, "count") <=> Has(S, "count")
        /\ Has(T, "policy") <=> Has(S, "policy")
    BY <1>4, <1>8
  <2>5. /\ HasRate(T) <=> HasRate(S)
        /\ Passes(T) <=> Passes(S)
        /\ Tolerates(T) <=> Tolerates(S)
    BY <2>4 DEF HasRate, Passes, Tolerates
  <2>6. Described(x, T)
    BY <1>5, <2>2, <2>3, <2>4, <2>5 DEF Described
  <2>7. NamedBy(x, T)
    <3>1. i \in T \cap Tagged(decl, "id")
      BY <1>8 DEF T, layer, Tagged
    <3>2. \A j \in T \cap Tagged(decl, "id") : i <= j
      <4>1. \A j \in S : j \in Int
        BY <1>1, DeclShape
      <4> QED
        BY <1>2, <4>1 DEF T
    <3> QED
      BY <2>2, <3>1, <3>2 DEF NamedBy, layer
  <2>8. Decorated(x, T)
    BY <1>5, <2>2, <2>4, <2>6, <2>7 DEF Decorated
  <2> QED
    BY <2>1, <2>8 DEF T, layer
<1>9. CASE layer.tag = "when"
  <2>1. Decorate(r, layer) = r
    BY <1>9 DEF Decorate
  <2>2. /\ Has(T, "count") <=> Has(S, "count")
        /\ Has(T, "policy") <=> Has(S, "policy")
    BY <1>4, <1>9
  <2>3. /\ HasRate(T) <=> HasRate(S)
        /\ Passes(T) <=> Passes(S)
        /\ Tolerates(T) <=> Tolerates(S)
    BY <2>2 DEF HasRate, Passes, Tolerates
  <2>4. Described(r, T)
    BY <1>5, <2>2, <2>3 DEF Described
  <2>5. NamedBy(r, T)
    BY <1>5, <1>9, NameStays DEF T, layer
  <2>6. Decorated(r, T)
    BY <1>5, <2>2, <2>4, <2>5 DEF Decorated
  <2> QED
    BY <2>1, <2>6 DEF T, layer
<1>10. CASE layer.tag = "count"
  <2> DEFINE x == ApplyMaxFailedCount(s, layer.max)
  <2>1. Decorate(r, layer) = x
    BY <1>10 DEF Decorate, s
  <2>2. i \in Tagged(decl, "count")
    BY <1>10 DEF Tagged, layer
  <2>3. /\ \A j \in Tagged(decl, "count") : i = j
        /\ \A j \in Tagged(decl, "policy") : ~Rated(decl.layers[j])
        /\ decl.core \in RowCores
    BY <1>1, <2>2, Accepted
  <2>4. The("count") = layer
    BY <2>2, <2>3, TheOne DEF layer
  <2>5. Has(T, "count") /\ ~Has(S, "count") /\ (Has(T, "policy") <=> Has(S, "policy"))
    BY <1>2, <1>4, <1>10, <2>3 DEF Has
  <2>6. ~HasRate(S) /\ ~HasRate(T)
    <3>1. Has(S, "policy") => ~Rated(The("policy"))
      <4> SUFFICES ASSUME NEW j \in S \cap Tagged(decl, "policy") PROVE ~Rated(The("policy"))
        BY DEF Has
      <4>1. The("policy") = decl.layers[j]
        BY <1>1, Accepted, TheOne
      <4> QED
        BY <2>3, <4>1
    <3> QED
      BY <2>5, <3>1 DEF HasRate
  <2>7. /\ Shape(x) /\ x.id = s.id /\ x.available = s.available /\ x.total = s.total
        /\ x.failed = s.failed /\ x.severity = s.severity /\ x.maxPercent = s.maxPercent
        /\ x.maxCount = layer.max /\ x.err = s.err
        /\ x.success <=> ~s.err /\ (IF s.available THEN s.failed <= layer.max ELSE s.success)
        /\ x.tolerated <=> ~s.err /\ s.available /\ s.failed <= layer.max /\ s.failed > 0
    BY <1>6, CountFields
  <2> HIDE DEF x
  <2>8. /\ r.available = Fresh.available /\ r.total = Fresh.total /\ r.failed = Fresh.failed
        /\ r.severity = (IF Has(S, "policy") THEN The("policy").severity ELSE "error")
        /\ r.maxPercent = (IF HasRate(S) THEN The("policy").percent ELSE None)
    BY <1>5 DEF Described
  <2>9. /\ x.success <=> fault = "none" /\ Fresh.failed <= layer.max
        /\ x.tolerated <=> fault = "none" /\ Fresh.failed <= layer.max /\ Fresh.failed > 0
    BY <1>6, <1>7, <2>3, <2>7, <2>8
  <2>10. /\ Passes(T) <=> Fresh.failed <= layer.max
         /\ Tolerates(T) <=> Fresh.failed <= layer.max /\ Fresh.failed > 0
    BY <2>4, <2>5 DEF Passes, Tolerates
  <2>11. Described(x, T)
    BY <1>6, <2>4, <2>5, <2>6, <2>7, <2>8, <2>9, <2>10 DEF Described
  <2>12. NamedBy(x, T)
    BY <1>5, <1>6, <1>10, <2>7, NameStays DEF T, layer
  <2>13. Decorated(x, T)
    BY <1>6, <2>5, <2>7, <2>11, <2>12 DEF Decorated
  <2> QED
    BY <2>1, <2>13 DEF T, layer
<1>11. CASE layer.tag = "policy"
  <2> DEFINE x == ApplyPolicy(s, layer)
  <2>1. Decorate(r, layer) = x
    BY <1>11 DEF Decorate, s
  <2>2. i \in Tagged(decl, "policy")
    BY <1>11 DEF Tagged, layer
  <2>3. /\ \A j \in Tagged(decl, "policy") : i = j
        /\ Rated(layer) => decl.core \in RowCores /\ Tagged(decl, "count") = {}
    BY <1>1, <2>2, Accepted DEF layer
  <2>4. The("policy") = layer
    BY <2>2, <2>3, TheOne DEF layer
  <2>5. Has(T, "policy") /\ ~Has(S, "policy") /\ (Has(T, "count") <=> Has(S, "count"))
    BY <1>2, <1>4, <1>11, <2>3 DEF Has
  <2>6. ~HasRate(S) /\ (HasRate(T) <=> Rated(layer))
    BY <2>4, <2>5 DEF HasRate
  <2>7. LET clean == s.total = 0 \/ s.failed = 0
            within == s.failed * 100 <= layer.percent * s.total
        IN /\ Shape(x) /\ x.id = s.id /\ x.available = s.available /\ x.total = s.total
           /\ x.failed = s.failed /\ x.severity = layer.severity /\ x.maxCount = s.maxCount
           /\ x.maxPercent = (IF Rated(layer) THEN layer.percent ELSE s.maxPercent)
           /\ x.err = s.err
           /\ x.success <=> IF ~Rated(layer) THEN s.success
                            ELSE ~s.err /\ (IF s.available THEN clean \/ within ELSE s.success)
           /\ x.tolerated <=> IF ~Rated(layer) THEN s.tolerated
                              ELSE ~s.err /\ s.available /\ ~clean /\ within
    BY <1>3, <1>6, <1>11, PolicyFields
  <2> HIDE DEF x
  <2>8. /\ r.available = Fresh.available /\ r.total = Fresh.total /\ r.failed = Fresh.failed
        /\ r.maxCount = (IF Has(S, "count") THEN The("count").max ELSE None)
        /\ r.maxPercent = (IF HasRate(S) THEN The("policy").percent ELSE None)
        /\ (r.success <=> fault = "none" /\ Passes(S))
        /\ (r.tolerated <=> fault = "none" /\ Tolerates(S))
    BY <1>5 DEF Described
  <2>9. /\ x.success <=> fault = "none" /\ Passes(T)
        /\ x.tolerated <=> fault = "none" /\ Tolerates(T)
    <3>1. CASE ~Rated(layer)
      <4>1. /\ Passes(T) <=> Passes(S)
            /\ Tolerates(T) <=> Tolerates(S)
        BY <2>5, <2>6, <3>1 DEF Passes, Tolerates
      <4>2. (x.success <=> s.success) /\ (x.tolerated <=> s.tolerated)
        BY <2>7, <3>1
      <4> QED
        BY <1>6, <2>8, <4>1, <4>2
    <3>2. CASE Rated(layer)
      <4>1. ~Has(T, "count")
        BY <2>3, <3>2 DEF Has
      <4> DEFINE clean == Fresh.total = 0 \/ Fresh.failed = 0
      <4> DEFINE within == Fresh.failed * 100 <= layer.percent * Fresh.total
      <4>2. /\ Passes(T) <=> clean \/ within
            /\ Tolerates(T) <=> ~clean /\ within
        BY <2>4, <2>6, <3>2, <4>1 DEF Passes, Tolerates
      <4>3. /\ x.success <=> ~s.err /\ (IF s.available THEN clean \/ within ELSE s.success)
            /\ x.tolerated <=> ~s.err /\ s.available /\ ~clean /\ within
        BY <1>6, <2>7, <2>8, <3>2
      <4> HIDE DEF clean, within
      <4>4. s.available = Fresh.available /\ (s.err <=> fault # "none")
        BY <1>6, <2>8
      <4> QED
        BY <1>7, <2>3, <3>2, <4>2, <4>3, <4>4
    <3> QED
      BY <3>1, <3>2
  <2>10. x.maxPercent = IF HasRate(T) THEN The("policy").percent ELSE None
    BY <1>6, <2>4, <2>6, <2>7, <2>8
  <2>11. Described(x, T)
    BY <1>6, <2>4, <2>5, <2>7, <2>8, <2>9, <2>10 DEF Described
  <2>12. NamedBy(x, T)
    BY <1>5, <1>6, <1>11, <2>7, NameStays DEF T, layer
  <2>13. Decorated(x, T)
    BY <1>6, <2>5, <2>7, <2>11, <2>12 DEF Decorated
  <2> QED
    BY <2>1, <2>13 DEF T, layer
<1> QED
  BY <1>3, <1>8, <1>9, <1>10, <1>11
----------------------------------------------------------------------------
(* The shared path.                                                        *)

\* What the plan holds of the layers that were walked.
PlannedFrom(S) ==
  /\ plan.max = (IF Has(S, "count") THEN The("count").max ELSE None)
  /\ plan.policies = (IF Has(S, "policy") THEN {The("policy")} ELSE {})

\* A whole plan makes of a bare result what all the layers would.
LEMMA PlanDecorates ==
  ASSUME Typed, decl.core \in RowCores, NEW S, S = Layers(decl), PlannedFrom(S),
         NEW r, Shape(r),
         r.available = Fresh.available, r.total = Fresh.total, r.failed = Fresh.failed,
         r.severity = "error", r.maxCount = None, r.maxPercent = None, ~r.tolerated,
         r.success <=> fault = "none" /\ figures.failed = 0,
         r.err <=> fault = "diagnostic"
  PROVE  Described(ApplyPlan(r), S) /\ ApplyPlan(r).id = r.id /\ ApplyPlan(r).err = r.err
<1> DEFINE p == The("policy")
<1> DEFINE c == The("count")
<1> DEFINE t == IF Has(S, "policy") THEN ApplyPolicy(r, p) ELSE r
<1> DEFINE x == ApplyPlan(r)
<1>1. decl \in Decl /\ ~OwnFault(decl)
  BY DeclsAssumption DEF Typed
<1>2. ASSUME Has(S, "policy")
      PROVE  /\ p.tag = "policy" /\ p.percent \in Nat \cup {None}
             /\ Rated(p) => Tagged(decl, "count") = {}
  <2>1. PICK i \in Tagged(decl, "policy") : TRUE
    BY <1>2 DEF Has
  <2>2. p = decl.layers[i]
    BY <1>1, Accepted, TheOne
  <2>3. i \in Layers(decl) /\ decl.layers[i].tag = "policy"
    BY DEF Tagged
  <2>4. decl.layers[i] \in Layer
    BY <1>1, <2>3, DeclShape
  <2>5. Rated(decl.layers[i]) => Tagged(decl, "count") = {}
    BY <1>1, Accepted
  <2> QED
    BY <2>2, <2>3, <2>4, <2>5, LayerShape
<1>3. ASSUME Has(S, "count")
      PROVE  c.max \in Nat
  <2>1. PICK i \in Tagged(decl, "count") : TRUE
    BY <1>3 DEF Has
  <2>2. c = decl.layers[i]
    BY <1>1, Accepted, TheOne
  <2> QED
    BY <1>1, <2>2, Accepted
<1>4. /\ Fresh.available \in BOOLEAN /\ Fresh.total \in Nat /\ Fresh.failed \in Nat
      /\ figures.failed \in Nat
      /\ fault = "none" => Fresh.available
      /\ fault \in Faults
      /\ fault = "statement" => ~Fresh.available
  <2>1. fault = "statement" => Fresh.available = FALSE
    BY DEF Fresh, Unmeasured
  <2> QED
    BY <2>1, FreshShape, FiguresAssumption DEF Typed
<1> HIDE DEF p, c, t, x
<1>5. t = IF plan.policies = {} THEN r ELSE ApplyPolicy(r, CHOOSE policy \in plan.policies : TRUE)
  BY DEF PlannedFrom, t, p
<1>6. x = IF plan.max = None THEN t ELSE ApplyMaxFailedCount(t, plan.max)
  BY <1>5 DEF ApplyPlan, x
<1>7. x = IF Has(S, "count") THEN ApplyMaxFailedCount(t, c.max) ELSE t
  BY <1>3, <1>6 DEF PlannedFrom, None, c
<1>8. HasRate(S) <=> Has(S, "policy") /\ Rated(p)
  BY DEF HasRate, p
<1> DEFINE clean == Fresh.total = 0 \/ Fresh.failed = 0
<1> DEFINE within == Fresh.failed * 100 <= p.percent * Fresh.total
<1>9. /\ Shape(t) /\ t.id = r.id /\ t.available = Fresh.available /\ t.total = Fresh.total
      /\ t.failed = Fresh.failed /\ t.err = r.err /\ t.maxCount = None
      /\ t.severity = (IF Has(S, "policy") THEN p.severity ELSE "error")
      /\ t.maxPercent = (IF HasRate(S) THEN p.percent ELSE None)
      /\ t.success <=> IF HasRate(S) THEN fault = "none" /\ (clean \/ within)
                       ELSE fault = "none" /\ figures.failed = 0
      /\ t.tolerated <=> HasRate(S) /\ fault = "none" /\ ~clean /\ within
  <2>1. CASE ~Has(S, "policy")
    BY <1>8, <2>1 DEF t
  <2>2. CASE Has(S, "policy")
    <3>1. /\ Shape(t) /\ t.id = r.id /\ t.available = r.available /\ t.total = r.total
          /\ t.failed = r.failed /\ t.severity = p.severity /\ t.maxCount = r.maxCount
          /\ t.maxPercent = (IF Rated(p) THEN p.percent ELSE r.maxPercent)
          /\ t.err = r.err
          /\ t.success <=> IF ~Rated(p) THEN r.success
                           ELSE ~r.err /\ (IF r.available THEN clean \/ within ELSE r.success)
          /\ t.tolerated <=> IF ~Rated(p) THEN r.tolerated
                             ELSE ~r.err /\ r.available /\ ~clean /\ within
      BY <1>2, <2>2, PolicyFields DEF t
    <3> HIDE DEF clean, within
    <3>2. CASE ~Rated(p)
      BY <1>8, <2>2, <3>1, <3>2
    <3>3. CASE Rated(p)
      <4>1. t.success <=> fault = "none" /\ (clean \/ within)
        BY <1>4, <3>1, <3>3 DEF Faults
      <4>2. t.tolerated <=> fault = "none" /\ ~clean /\ within
        BY <1>4, <3>1, <3>3 DEF Faults
      <4> QED
        BY <1>8, <2>2, <3>1, <3>3, <4>1, <4>2
    <3> QED
      BY <3>2, <3>3
  <2> QED
    BY <2>1, <2>2
<1>10. CASE ~Has(S, "count")
  <2>1. x = t
    BY <1>7, <1>10
  <2>2. /\ Passes(S) <=> IF HasRate(S) THEN clean \/ within ELSE figures.failed = 0
        /\ Tolerates(S) <=> HasRate(S) /\ ~clean /\ within
    BY <1>10 DEF Passes, Tolerates, p
  <2> HIDE DEF clean, within
  <2>3. /\ t.success <=> fault = "none" /\ Passes(S)
        /\ t.tolerated <=> fault = "none" /\ Tolerates(S)
    BY <1>9, <2>2
  <2>4. Described(t, S)
    BY <1>9, <1>10, <2>3 DEF Described, p
  <2> QED
    BY <1>9, <2>1, <2>4 DEF x
<1>11. CASE Has(S, "count")
  <2>1. x = ApplyMaxFailedCount(t, c.max)
    BY <1>7, <1>11
  <2>2. ~HasRate(S)
    BY <1>2, <1>8, <1>11 DEF Has
  <2>3. /\ Shape(x) /\ x.id = t.id /\ x.available = t.available /\ x.total = t.total
        /\ x.failed = t.failed /\ x.severity = t.severity /\ x.maxPercent = t.maxPercent
        /\ x.maxCount = c.max /\ x.err = t.err
        /\ x.success <=> ~t.err /\ (IF t.available THEN t.failed <= c.max ELSE t.success)
        /\ x.tolerated <=> ~t.err /\ t.available /\ t.failed <= c.max /\ t.failed > 0
    BY <1>9, <2>1, CountFields
  <2>4. /\ Passes(S) <=> Fresh.failed <= c.max
        /\ Tolerates(S) <=> Fresh.failed <= c.max /\ Fresh.failed > 0
    BY <1>11 DEF Passes, Tolerates, c
  <2>5. /\ t.available = Fresh.available /\ t.failed = Fresh.failed /\ (t.err <=> fault = "diagnostic")
        /\ (t.success => fault = "none")
    BY <1>9, <2>2
  <2>6. /\ x.success <=> fault = "none" /\ Passes(S)
        /\ x.tolerated <=> fault = "none" /\ Tolerates(S)
    BY <1>4, <2>3, <2>4, <2>5 DEF Faults
  <2>7. Described(x, S)
    BY <1>9, <1>11, <2>2, <2>3, <2>6 DEF Described, p, c
  <2> QED
    BY <1>9, <2>3, <2>7 DEF x
<1> QED
  BY <1>10, <1>11

\* A result with another identity, error or verdict.
LEMMA WithField ==
  ASSUME NEW r, Shape(r)
  PROVE  /\ \A v, x : x = [r EXCEPT !.id = v] =>
              x = [id |-> v, available |-> r.available, total |-> r.total, failed |-> r.failed,
                   success |-> r.success, tolerated |-> r.tolerated, severity |-> r.severity,
                   maxCount |-> r.maxCount, maxPercent |-> r.maxPercent, err |-> r.err]
         /\ \A v, x : x = [r EXCEPT !.err = v] =>
              x = [id |-> r.id, available |-> r.available, total |-> r.total, failed |-> r.failed,
                   success |-> r.success, tolerated |-> r.tolerated, severity |-> r.severity,
                   maxCount |-> r.maxCount, maxPercent |-> r.maxPercent, err |-> v]
         /\ \A v, x : x = [r EXCEPT !.success = v] =>
              x = [id |-> r.id, available |-> r.available, total |-> r.total, failed |-> r.failed,
                   success |-> v, tolerated |-> r.tolerated, severity |-> r.severity,
                   maxCount |-> r.maxCount, maxPercent |-> r.maxPercent, err |-> r.err]
<1>1. \A v : [r EXCEPT !.id = v] =
              [id |-> v, available |-> r.available, total |-> r.total, failed |-> r.failed,
               success |-> r.success, tolerated |-> r.tolerated, severity |-> r.severity,
               maxCount |-> r.maxCount, maxPercent |-> r.maxPercent, err |-> r.err]
  BY DEF Shape
<1>2. \A v : [r EXCEPT !.err = v] =
              [id |-> r.id, available |-> r.available, total |-> r.total, failed |-> r.failed,
               success |-> r.success, tolerated |-> r.tolerated, severity |-> r.severity,
               maxCount |-> r.maxCount, maxPercent |-> r.maxPercent, err |-> v]
  BY DEF Shape
<1>3. \A v : [r EXCEPT !.success = v] =
              [id |-> r.id, available |-> r.available, total |-> r.total, failed |-> r.failed,
               success |-> v, tolerated |-> r.tolerated, severity |-> r.severity,
               maxCount |-> r.maxCount, maxPercent |-> r.maxPercent, err |-> r.err]
  BY DEF Shape
<1> QED
  BY <1>1, <1>2, <1>3

\* The result of the shared path.
LEMMA SharedDecorated ==
  ASSUME Typed, decl.core \in RowCores, NEW S, S = Layers(decl), PlannedFrom(S)
  PROVE  /\ Described(SharedResult, S) /\ SharedResult.id = ExpectationID(decl)
         /\ SharedResult.err <=> fault # "none"
<1> DEFINE id == ExpectationID(decl)
<1> DEFINE named == [Fresh EXCEPT !.id = id]
<1>1. /\ Fresh = [id |-> Blank, available |-> Fresh.available, total |-> Fresh.total,
                  failed |-> Fresh.failed, success |-> Fresh.success, tolerated |-> FALSE,
                  severity |-> "error", maxCount |-> None, maxPercent |-> None, err |-> FALSE]
      /\ Fresh.available \in BOOLEAN /\ Fresh.success \in BOOLEAN
      /\ Fresh.success <=> fault = "none" /\ figures.failed = 0
  BY FreshShape
<1> HIDE DEF id
<1>0. Shape(Fresh)
  <2> DEFINE f == Fresh
  <2>1. f.tolerated = FALSE /\ f.err = FALSE /\ f.id = Blank /\ f.severity = "error"
        /\ f.maxCount = None /\ f.maxPercent = None
    BY <1>1
  <2> HIDE DEF f
  <2>2. f = [id |-> f.id, available |-> f.available, total |-> f.total, failed |-> f.failed,
             success |-> f.success, tolerated |-> f.tolerated, severity |-> f.severity,
             maxCount |-> f.maxCount, maxPercent |-> f.maxPercent, err |-> f.err]
    BY <1>1, <2>1 DEF f
  <2>3. Shape(f)
    BY <1>1, <2>1, <2>2 DEF Shape, f
  <2> QED
    BY <2>3 DEF f
<1>2. named = [id |-> id, available |-> Fresh.available, total |-> Fresh.total,
               failed |-> Fresh.failed, success |-> Fresh.success, tolerated |-> FALSE,
               severity |-> "error", maxCount |-> None, maxPercent |-> None, err |-> FALSE]
  <2>1. \A x : x = [Fresh EXCEPT !.id = id] =>
          x = [id |-> id, available |-> Fresh.available, total |-> Fresh.total,
               failed |-> Fresh.failed, success |-> Fresh.success,
               tolerated |-> Fresh.tolerated, severity |-> Fresh.severity,
               maxCount |-> Fresh.maxCount, maxPercent |-> Fresh.maxPercent, err |-> Fresh.err]
    BY <1>0, WithField
  <2>2. Fresh.tolerated = FALSE /\ Fresh.err = FALSE /\ Fresh.severity = "error"
        /\ Fresh.maxCount = None /\ Fresh.maxPercent = None
    BY <1>1
  <2> QED
    BY <2>1, <2>2
<1> HIDE DEF named
<1>3. Shape(named)
  BY <1>1, <1>2 DEF Shape
<1>4. fault \in Faults
  BY DEF Typed
<1>5. CASE fault = "none"
  <2>1. SharedResult = ApplyPlan(named)
    BY <1>5 DEF SharedResult, Fresh, named, id
  <2>2. /\ Described(ApplyPlan(named), S) /\ ApplyPlan(named).id = named.id
        /\ ApplyPlan(named).err = named.err
    BY <1>1, <1>2, <1>3, <1>5, PlanDecorates
  <2> QED
    BY <1>2, <1>5, <2>1, <2>2 DEF id
<1>6. CASE fault = "diagnostic"
  <2> DEFINE r == [named EXCEPT !.err = TRUE, !.success = FALSE]
  <2>1. SharedResult = ApplyPlan(r)
    BY <1>6 DEF SharedResult, Fresh, named, id
  <2>2. r = [id |-> id, available |-> Fresh.available, total |-> Fresh.total,
             failed |-> Fresh.failed, success |-> FALSE, tolerated |-> FALSE,
             severity |-> "error", maxCount |-> None, maxPercent |-> None, err |-> TRUE]
    <3> DEFINE u == [named EXCEPT !.err = TRUE]
    <3>1. u = [id |-> id, available |-> Fresh.available, total |-> Fresh.total,
               failed |-> Fresh.failed, success |-> Fresh.success, tolerated |-> FALSE,
               severity |-> "error", maxCount |-> None, maxPercent |-> None, err |-> TRUE]
      <4>1. u = [id |-> named.id, available |-> named.available, total |-> named.total,
                 failed |-> named.failed, success |-> named.success,
                 tolerated |-> named.tolerated, severity |-> named.severity,
                 maxCount |-> named.maxCount, maxPercent |-> named.maxPercent, err |-> TRUE]
        BY <1>3, WithField
      <4> HIDE DEF u
      <4> QED
        BY <1>2, <4>1
    <3>2. r = [u EXCEPT !.success = FALSE]
      OBVIOUS
    <3> HIDE DEF u, r
    <3> QED
      BY <3>1, <3>2
  <2> HIDE DEF r
  <2>3. Shape(r)
    BY <1>1, <2>2 DEF Shape
  <2>4. /\ Described(ApplyPlan(r), S) /\ ApplyPlan(r).id = r.id
        /\ ApplyPlan(r).err = r.err
    BY <1>6, <2>2, <2>3, PlanDecorates
  <2> QED
    BY <1>6, <2>1, <2>2, <2>4 DEF id
<1>7. CASE fault = "statement"
  <2> DEFINE t == ApplyPlan(named)
  <2> DEFINE x == [t EXCEPT !.err = TRUE]
  <2>1. SharedResult = x
    BY <1>7 DEF SharedResult, Fresh, named, id
  <2>2. Described(t, S) /\ t.id = named.id
    BY <1>1, <1>2, <1>3, <1>7, PlanDecorates
  <2> HIDE DEF t
  <2>3. Shape(t)
    BY <2>2 DEF Described
  <2>4. x = [id |-> t.id, available |-> t.available, total |-> t.total, failed |-> t.failed,
             success |-> t.success, tolerated |-> t.tolerated, severity |-> t.severity,
             maxCount |-> t.maxCount, maxPercent |-> t.maxPercent, err |-> TRUE]
    BY <2>3, WithField
  <2> HIDE DEF x
  <2>5. Shape(x)
    BY <2>3, <2>4 DEF Shape
  <2>6. Described(x, S)
    BY <2>2, <2>4, <2>5 DEF Described
  <2> QED
    BY <1>2, <1>7, <2>1, <2>2, <2>4, <2>6 DEF id
<1> QED
  BY <1>4, <1>5, <1>6, <1>7 DEF Faults
----------------------------------------------------------------------------
(* The invariant.                                                          *)

\* The layers that the walk has passed.
Walked == IF stage = "plan" THEN {i \in Layers(decl) : i < at} ELSE Layers(decl)

\* The layers that have decorated the sequential result.
Done == {i \in Layers(decl) : i > at}

Policies == {l \in Layer : l.tag = "policy"}

Planned ==
  /\ plan = [shareable |-> plan.shareable, max |-> plan.max, policies |-> plan.policies]
  /\ plan.shareable \in BOOLEAN /\ plan.max \in Int /\ plan.policies \subseteq Policies
  /\ plan.shareable => PlannedFrom(Walked)
  /\ plan.shareable /\ stage # "plan" => decl.core \in {"perRow", "regex"}

\* The result of either path once nothing is left to be done to it.
Complete(r) ==
  /\ Described(r, Layers(decl)) /\ r.id = ExpectationID(decl)
  /\ r.err <=> fault # "none"

WrapInv ==
  /\ Typed /\ Planned
  /\ stage = "plan" => returned = FALSE /\ res = Unmeasured /\ shared = Unmeasured
  /\ stage # "plan" => returned = (fault # "none")
  /\ stage # "plan" /\ plan.shareable => Complete(shared)
  /\ stage = "unwind" => Decorated(res, Done)
  /\ stage = "published" => Complete(res)

\* Who names the result in the end is the outermost identity.
LEMMA NamedOutermost ==
  ASSUME decl \in Decl, NEW r, NamedBy(r, Layers(decl))
  PROVE  r.id = ExpectationID(decl)
<1>1. Layers(decl) \cap Tagged(decl, "id") = Tagged(decl, "id")
  BY DEF Tagged
<1>2. CASE Tagged(decl, "id") = {}
  BY <1>1, <1>2 DEF NamedBy, Has, ExpectationID
<1>3. CASE Tagged(decl, "id") # {}
  <2>1. PICK i \in Tagged(decl, "id") :
          r.id = decl.layers[i].id /\ \A j \in Tagged(decl, "id") : i <= j
    BY <1>1, <1>3 DEF NamedBy, Has
  <2>2. \A j \in Tagged(decl, "id") : j \in Int
    BY DeclShape DEF Tagged
  <2>3. \A k \in Tagged(decl, "id") : (\A j \in Tagged(decl, "id") : k <= j) => k = i
    BY <2>1, <2>2
  <2>4. Outermost(decl, "id") = i
    BY <2>1, <2>3 DEF Outermost
  <2> QED
    BY <1>3, <2>1, <2>4 DEF ExpectationID
<1> QED
  BY <1>2, <1>3

\* Recording changes nothing of a result that is complete but for its error.
LEMMA RecordedComplete ==
  ASSUME Typed, returned = (fault # "none"), NEW r, Described(r, Layers(decl)),
         r.id = ExpectationID(decl), r.err => fault # "none"
  PROVE  Complete(Recorded(r))
<1> DEFINE e == r.err \/ returned
<1> DEFINE s == [r EXCEPT !.err = e]
<1> DEFINE v == r.success /\ ~s.err
<1> DEFINE x == [s EXCEPT !.success = v]
<1>1. Recorded(r) = x
  BY DEF Recorded
<1>2. Shape(r) /\ (r.success => fault = "none")
  BY DEF Described
<1>3. e \in BOOLEAN /\ (e <=> fault # "none")
  BY <1>2 DEF Shape
<1>4. v \in BOOLEAN
  OBVIOUS
<1>5. v <=> r.success /\ ~s.err
  OBVIOUS
<1> HIDE DEF e, v, x
<1>6. s = [id |-> r.id, available |-> r.available, total |-> r.total, failed |-> r.failed,
           success |-> r.success, tolerated |-> r.tolerated, severity |-> r.severity,
           maxCount |-> r.maxCount, maxPercent |-> r.maxPercent, err |-> e]
  BY <1>2, WithField
<1>7. x = [s EXCEPT !.success = v]
  BY DEF x
<1> HIDE DEF s
<1>8. Shape(s)
  BY <1>2, <1>3, <1>6 DEF Shape
<1>9. x = [id |-> s.id, available |-> s.available, total |-> s.total, failed |-> s.failed,
           success |-> v, tolerated |-> s.tolerated, severity |-> s.severity,
           maxCount |-> s.maxCount, maxPercent |-> s.maxPercent, err |-> s.err]
  BY <1>7, <1>8, WithField
<1>10. Shape(x)
  BY <1>4, <1>8, <1>9 DEF Shape
<1>11. (s.err <=> fault # "none") /\ (v <=> r.success)
  BY <1>2, <1>3, <1>5, <1>6
<1>12. (x.success <=> r.success) /\ (x.tolerated <=> r.tolerated) /\ (x.err <=> fault # "none")
  BY <1>6, <1>9, <1>11
<1>13. /\ x.id = r.id /\ x.available = r.available /\ x.total = r.total /\ x.failed = r.failed
       /\ x.severity = r.severity /\ x.maxCount = r.maxCount /\ x.maxPercent = r.maxPercent
  BY <1>6, <1>9
<1>14. Described(x, Layers(decl))
  BY <1>10, <1>12, <1>13 DEF Described
<1> QED
  BY <1>1, <1>12, <1>13, <1>14 DEF Complete

\* The invariant holds at the start, and every step keeps it.
LEMMA WrapInit == Init => WrapInv
<1> SUFFICES ASSUME Init PROVE WrapInv
  OBVIOUS
<1>1. decl \in Decls /\ ~OwnFault(decl) /\ decl \in Decl
  BY DeclsAssumption DEF Init
<1>2. Len(decl.layers) \in Nat /\ Layers(decl) = 1..Len(decl.layers)
  BY <1>1, DeclShape
<1>3. Typed
  BY <1>1, <1>2 DEF Init, Typed
<1>4. Walked = {}
  BY <1>2 DEF Walked, Init
<1>5. plan = [shareable |-> TRUE, max |-> None, policies |-> {}]
  BY DEF Init, NoPlan
<1>6. PlannedFrom({})
  BY <1>5 DEF PlannedFrom, Has
<1>7. Planned
  BY <1>4, <1>5, <1>6 DEF Planned, None, Init
<1> QED
  BY <1>3, <1>7 DEF Init, WrapInv

\* A step of the walk adds one layer to what the plan knows.
LEMMA PlanLayerKeeps ==
  ASSUME WrapInv, PlanLayer
  PROVE  WrapInv'
<1> DEFINE layer == decl.layers[at]
<1>1. /\ stage = "plan" /\ at <= Len(decl.layers) /\ plan.shareable /\ at' = at + 1
      /\ UNCHANGED <<decl, fault, figures, stage, returned, res, shared>>
  BY DEF PlanLayer
<1>2. Typed /\ Planned /\ decl \in Decl /\ ~OwnFault(decl)
  BY DeclsAssumption DEF WrapInv, Typed
<1>3. Len(decl.layers) \in Nat /\ Layers(decl) = 1..Len(decl.layers) /\ at \in Layers(decl)
      /\ at \in Nat
  BY <1>1, <1>2, DeclShape DEF Typed
<1>4. Typed'
  BY <1>1, <1>2, <1>3 DEF Typed
<1>5. Walked' = Walked \cup {at} /\ Walked \subseteq Layers(decl) /\ at \notin Walked
  BY <1>1, <1>3 DEF Walked, Layers
<1>6. \A tag : Has(Walked \cup {at}, tag) <=> Has(Walked, tag) \/ layer.tag = tag
  BY <1>3, <1>5, HasMore
<1>7. layer \in Layer
  BY <1>2, <1>3, DeclShape
<1>8. \A tag : layer.tag = tag => at \in Tagged(decl, tag)
  BY <1>3 DEF Tagged
<1>9. plan' = CASE layer.tag = "count" -> [plan EXCEPT !.max = layer.max]
                [] layer.tag = "policy" -> [plan EXCEPT !.policies = {layer}]
                [] layer.tag = "when" -> [plan EXCEPT !.shareable = FALSE]
                [] layer.tag = "id" -> plan
  BY DEF PlanLayer
<1>10. /\ plan = [shareable |-> plan.shareable, max |-> plan.max, policies |-> plan.policies]
       /\ plan.shareable \in BOOLEAN /\ plan.max \in Int /\ plan.policies \subseteq Policies
       /\ PlannedFrom(Walked)
  BY <1>1, <1>2 DEF Planned
<1> DEFINE S == Walked
<1> DEFINE T == Walked \cup {at}
<1> HIDE DEF layer, S, T
<1>11. /\ S = Walked /\ T = Walked \cup {at}
       /\ plan.max = (IF Has(S, "count") THEN The("count").max ELSE None)
       /\ plan.policies = (IF Has(S, "policy") THEN {The("policy")} ELSE {})
  BY <1>10 DEF PlannedFrom, S, T
<1>12. /\ plan' = [shareable |-> plan'.shareable, max |-> plan'.max, policies |-> plan'.policies]
       /\ plan'.shareable \in BOOLEAN /\ plan'.max \in Int /\ plan'.policies \subseteq Policies
       /\ plan'.shareable =>
            /\ plan'.max = (IF Has(T, "count") THEN The("count").max ELSE None)
            /\ plan'.policies = (IF Has(T, "policy") THEN {The("policy")} ELSE {})
  <2>1. CASE layer.tag = "count"
    <3>1. The("count") = layer
      BY <1>2, <1>8, <2>1, Accepted, TheOne DEF layer
    <3>2. plan' = [plan EXCEPT !.max = layer.max]
      BY <1>9, <2>1
    <3>3. plan' = [shareable |-> plan.shareable, max |-> layer.max, policies |-> plan.policies]
      BY <1>10, <3>2
    <3>4. layer.max \in Int
      BY <1>7, <2>1, LayerShape
    <3>5. Has(T, "count") /\ (Has(T, "policy") <=> Has(S, "policy"))
      BY <1>6, <1>11, <2>1
    <3> QED
      BY <1>10, <1>11, <3>1, <3>3, <3>4, <3>5
  <2>2. CASE layer.tag = "policy"
    <3>1. The("policy") = layer
      BY <1>2, <1>8, <2>2, Accepted, TheOne DEF layer
    <3>2. plan' = [plan EXCEPT !.policies = {layer}]
      BY <1>9, <2>2
    <3>3. plan' = [shareable |-> plan.shareable, max |-> plan.max, policies |-> {layer}]
      BY <1>10, <3>2
    <3>4. layer \in Policies
      BY <1>7, <2>2 DEF Policies
    <3>5. Has(T, "policy") /\ (Has(T, "count") <=> Has(S, "count"))
      BY <1>6, <1>11, <2>2
    <3> QED
      BY <1>10, <1>11, <3>1, <3>3, <3>4, <3>5
  <2>3. CASE layer.tag = "when"
    <3>1. plan' = [plan EXCEPT !.shareable = FALSE]
      BY <1>9, <2>3
    <3>2. plan' = [shareable |-> FALSE, max |-> plan.max, policies |-> plan.policies]
      BY <1>10, <3>1
    <3> QED
      BY <1>10, <3>2
  <2>4. CASE layer.tag = "id"
    <3>1. plan' = plan
      BY <1>9, <2>4
    <3>2. (Has(T, "policy") <=> Has(S, "policy")) /\ (Has(T, "count") <=> Has(S, "count"))
      BY <1>6, <1>11, <2>4
    <3> QED
      BY <1>10, <1>11, <3>1, <3>2
  <2> QED
    BY <1>7, <2>1, <2>2, <2>3, <2>4, LayerShape
<1>13. Planned'
  <2>1. plan'.shareable => PlannedFrom(Walked)'
    BY <1>1, <1>5, <1>11, <1>12 DEF PlannedFrom, Has, The, Tagged
  <2> QED
    BY <1>1, <1>12, <2>1 DEF Planned
<1> QED
  BY <1>1, <1>4, <1>13 DEF WrapInv

\* The shared path is complete as soon as it is measured.
LEMMA MeasureKeeps ==
  ASSUME WrapInv, Measure
  PROVE  WrapInv'
<1>1. /\ stage = "plan" /\ stage' = "unwind" /\ at' = Len(decl.layers)
      /\ (at > Len(decl.layers) \/ ~plan.shareable)
      /\ plan' = [plan EXCEPT !.shareable = @ /\ decl.core \in {"perRow", "regex"}]
      /\ shared' = SharedResult
      /\ res' = (IF fault = "statement" THEN Unmeasured ELSE Measured)
      /\ returned' = (fault # "none")
      /\ UNCHANGED <<decl, fault, figures>>
  BY DEF Measure
<1>2. Typed /\ Planned /\ decl \in Decl
  BY DeclsAssumption DEF WrapInv, Typed
<1>3. Len(decl.layers) \in Nat /\ Layers(decl) = 1..Len(decl.layers)
  BY <1>2, DeclShape
<1>4. Typed'
  BY <1>1, <1>2, <1>3 DEF Typed
<1> DEFINE b == plan.shareable /\ decl.core \in {"perRow", "regex"}
<1>5. b \in BOOLEAN
  OBVIOUS
<1>6. plan' = [shareable |-> b, max |-> plan.max, policies |-> plan.policies]
  <2>1. plan' = [plan EXCEPT !.shareable = b]
    BY <1>1
  <2>2. plan = [shareable |-> plan.shareable, max |-> plan.max, policies |-> plan.policies]
    BY <1>2 DEF Planned
  <2> HIDE DEF b
  <2> QED
    BY <2>1, <2>2
<1>7. b <=> plan.shareable /\ decl.core \in {"perRow", "regex"}
  OBVIOUS
<1> HIDE DEF b
<1>8. /\ plan'.max = plan.max /\ plan'.policies = plan.policies
      /\ plan'.shareable = b
  BY <1>6
<1>9. Walked' = Layers(decl)
  BY <1>1 DEF Walked, Layers
<1>10. b => PlannedFrom(Layers(decl))
  <2>1. b => Walked = Layers(decl)
    BY <1>1, <1>2, <1>3, <1>7 DEF Walked, Typed
  <2>2. b => PlannedFrom(Walked)
    BY <1>2, <1>7 DEF Planned
  <2> QED
    BY <2>1, <2>2
<1>11. Planned'
  <2>1. plan'.shareable => PlannedFrom(Walked)'
    BY <1>1, <1>8, <1>9, <1>10 DEF PlannedFrom, Has, The, Tagged, Layers
  <2>2. /\ plan' = [shareable |-> plan'.shareable, max |-> plan'.max, policies |-> plan'.policies]
        /\ plan'.shareable \in BOOLEAN /\ plan'.max \in Int /\ plan'.policies \subseteq Policies
    BY <1>2, <1>5, <1>6 DEF Planned
  <2>3. plan'.shareable => decl' .core \in {"perRow", "regex"}
    BY <1>1, <1>7, <1>8
  <2> QED
    BY <2>1, <2>2, <2>3 DEF Planned
<1>12. b => Complete(shared)'
  <2> SUFFICES ASSUME b PROVE Complete(shared)'
    OBVIOUS
  <2>1. decl.core \in RowCores
    BY <1>7 DEF RowCores
  <2>2. /\ Described(SharedResult, Layers(decl)) /\ SharedResult.id = ExpectationID(decl)
        /\ SharedResult.err <=> fault # "none"
    BY <1>2, <1>10, <2>1, SharedDecorated
  <2>3. Complete(SharedResult)
    BY <2>2 DEF Complete
  <2>4. PICK c : c = SharedResult
    OBVIOUS
  <2>5. Complete(c)'
    <3>1. Complete(c)
      BY <2>3, <2>4
    <3> QED
      BY <1>1, <3>1 DEF Complete, Described, Fresh, Measured, Passes, Tolerates, Has, HasRate, The
  <2> QED
    BY <1>1, <2>4, <2>5 DEF Complete, Described
<1>13. Decorated(res, Done)'
  <2>1. Done' = {}
    BY <1>1, <1>3 DEF Done, Layers
  <2>2. Decorated(Fresh, {})
    BY <1>2, FreshDecorated
  <2>3. PICK c : c = Fresh
    OBVIOUS
  <2>4. res' = c
    BY <1>1, <2>3 DEF Fresh
  <2>5. Decorated(c, {})'
    <3>1. Decorated(c, {})
      BY <2>2, <2>3
    <3> QED
      BY <1>1, <3>1 DEF Decorated, NamedBy, Described, Fresh, Measured, Passes, Tolerates, Has, HasRate, The
  <2> QED
    BY <2>1, <2>4, <2>5 DEF Decorated, NamedBy, Described, Passes, Tolerates, Has, HasRate
<1> QED
  BY <1>1, <1>4, <1>8, <1>11, <1>12, <1>13 DEF WrapInv
\* What a step keeps that moves neither the declaration nor the plan.
LEMMA PlannedStays ==
  ASSUME Planned, UNCHANGED <<decl, plan>>, stage # "plan", stage' # "plan"
  PROVE  Planned'
<1>1. Walked' = Walked
  BY DEF Walked, Layers
<1>2. PlannedFrom(Walked) => PlannedFrom(Walked)'
  BY <1>1 DEF PlannedFrom, Has, The, Tagged, Layers
<1> QED
  BY <1>2 DEF Planned

\* What does not change stays complete.
LEMMA CompleteStays ==
  ASSUME UNCHANGED <<decl, fault, figures>>, NEW c, Complete(c)
  PROVE  Complete(c)'
<1> QED
  BY DEF Complete, Described, Fresh, Measured, Passes, Tolerates, Has, HasRate, The

\* A wrapper on its way back.
LEMMA UnwindKeeps ==
  ASSUME WrapInv, Unwind
  PROVE  WrapInv'
<1>1. /\ stage = "unwind" /\ stage' = "unwind" /\ at > 0 /\ at' = at - 1
      /\ res' = Decorate(res, decl.layers[at])
      /\ UNCHANGED <<decl, fault, figures, plan, returned, shared>>
  BY DEF Unwind
<1>2. Typed /\ Planned /\ decl \in Decl
  BY DeclsAssumption DEF WrapInv, Typed
<1>3. Len(decl.layers) \in Nat /\ Layers(decl) = 1..Len(decl.layers) /\ at \in Layers(decl)
  BY <1>1, <1>2, DeclShape DEF Typed
<1>4. Typed'
  BY <1>1, <1>2, <1>3 DEF Typed
<1>5. Planned'
  BY <1>1, <1>2, PlannedStays
<1>6. plan'.shareable => Complete(shared)'
  <2> SUFFICES ASSUME plan.shareable PROVE Complete(shared)'
    BY <1>1
  <2>1. PICK c : c = shared
    OBVIOUS
  <2>2. Complete(c)
    BY <1>1, <2>1 DEF WrapInv
  <2>3. Complete(c)'
    BY <1>1, <2>2, CompleteStays
  <2> QED
    BY <1>1, <2>1, <2>3 DEF Complete, Described
<1>7. Decorated(res, Done)'
  <2>1. Done \in SUBSET Layers(decl) /\ \A j \in Done : at < j
    BY <1>3 DEF Done
  <2>2. Decorated(res, Done) /\ (returned <=> fault # "none")
    BY <1>1 DEF WrapInv
  <2>3. Decorated(Decorate(res, decl.layers[at]), Done \cup {at})
    BY <1>2, <1>3, <2>1, <2>2, DecoratesOn
  <2>4. PICK c : c = Decorate(res, decl.layers[at])
    OBVIOUS
  <2>5. PICK S : S = Done \cup {at}
    OBVIOUS
  <2>6. Decorated(c, S)'
    <3>1. Decorated(c, S)
      BY <2>3, <2>4, <2>5
    <3> QED
      BY <1>1, <3>1 DEF Decorated, NamedBy, Described, Fresh, Measured, Passes, Tolerates, Has, HasRate, The
  <2>7. Done' = S
    BY <1>1, <1>3, <2>5 DEF Done, Layers
  <2> QED
    BY <1>1, <2>4, <2>6, <2>7 DEF Decorated, NamedBy, Described, Passes, Tolerates, Has, HasRate
<1> QED
  BY <1>1, <1>4, <1>5, <1>6, <1>7 DEF WrapInv

\* Recording completes both results.
LEMMA PublishKeeps ==
  ASSUME WrapInv, Publish
  PROVE  WrapInv'
<1>1. /\ stage = "unwind" /\ stage' = "published" /\ at = 0 /\ at' = 0
      /\ res' = Recorded(res) /\ shared' = Recorded(shared)
      /\ UNCHANGED <<decl, fault, figures, plan, returned>>
  BY DEF Publish
<1>2. Typed /\ Planned /\ decl \in Decl /\ returned = (fault # "none")
  BY <1>1, DeclsAssumption DEF WrapInv, Typed
<1>3. Len(decl.layers) \in Nat /\ Layers(decl) = 1..Len(decl.layers)
  BY <1>2, DeclShape
<1>4. Typed'
  BY <1>1, <1>2, <1>3 DEF Typed
<1>5. Planned'
  BY <1>1, <1>2, PlannedStays
<1>6. plan'.shareable => Complete(shared)'
  <2> SUFFICES ASSUME plan.shareable PROVE Complete(shared)'
    BY <1>1
  <2>1. Complete(shared)
    BY <1>1 DEF WrapInv
  <2>2. Complete(Recorded(shared))
    BY <1>2, <2>1, RecordedComplete DEF Complete
  <2>3. PICK c : c = Recorded(shared)
    OBVIOUS
  <2>4. Complete(c)'
    BY <1>1, <2>2, <2>3, CompleteStays
  <2> QED
    BY <1>1, <2>3, <2>4 DEF Complete, Described
<1>7. Complete(res)'
  <2>1. Done = Layers(decl)
    BY <1>1, <1>3 DEF Done
  <2>2. Decorated(res, Layers(decl))
    BY <1>1, <2>1 DEF WrapInv
  <2>3. /\ Described(res, Layers(decl)) /\ NamedBy(res, Layers(decl))
        /\ res.err => fault # "none"
    BY <2>2 DEF Decorated
  <2>4. res.id = ExpectationID(decl)
    BY <1>2, <2>3, NamedOutermost
  <2>5. Complete(Recorded(res))
    BY <1>2, <2>3, <2>4, RecordedComplete
  <2>6. PICK c : c = Recorded(res)
    OBVIOUS
  <2>7. Complete(c)'
    BY <1>1, <2>5, <2>6, CompleteStays
  <2> QED
    BY <1>1, <2>6, <2>7 DEF Complete, Described
<1> QED
  BY <1>1, <1>2, <1>4, <1>5, <1>6, <1>7 DEF WrapInv

\* Every step keeps the invariant.
LEMMA WrapStep == WrapInv /\ [Next]_vars => WrapInv'
<1> SUFFICES ASSUME WrapInv, [Next]_vars PROVE WrapInv'
  OBVIOUS
<1>1. CASE PlanLayer
  BY <1>1, PlanLayerKeeps
<1>2. CASE Measure
  BY <1>2, MeasureKeeps
<1>3. CASE Unwind
  BY <1>3, UnwindKeeps
<1>4. CASE Publish
  BY <1>4, PublishKeeps
<1>5. CASE UNCHANGED vars
  <2>1. UNCHANGED <<decl, fault, figures, stage, at, plan, returned, res, shared>>
    BY <1>5 DEF vars
  <2>2. Typed'
    BY <2>1 DEF WrapInv, Typed
  <2>3. Walked' = Walked /\ Done' = Done
    BY <2>1 DEF Walked, Done, Layers
  <2>4. Planned'
    BY <2>1, <2>3 DEF WrapInv, Planned, PlannedFrom, Has, The, Tagged
  <2>5. \A c : Complete(c) => Complete(c)'
    BY <2>1, CompleteStays
  <2>6. stage # "plan" /\ plan.shareable => Complete(shared)'
    <3>1. PICK c : c = shared
      OBVIOUS
    <3> QED
      BY <2>1, <2>5, <3>1 DEF WrapInv, Complete, Described
  <2>7. stage = "published" => Complete(res)'
    <3>1. PICK c : c = res
      OBVIOUS
    <3> QED
      BY <2>1, <2>5, <3>1 DEF WrapInv, Complete, Described
  <2>8. stage = "unwind" => Decorated(res, Done)'
    <3>1. Passes(Done)' = Passes(Done) /\ Tolerates(Done)' = Tolerates(Done)
      BY <2>1, <2>3 DEF Passes, Tolerates, Fresh, Measured, Has, HasRate, The, Tagged
    <3>2. Fresh' = Fresh /\ HasRate(Done)' = HasRate(Done)
      BY <2>1, <2>3 DEF Fresh, Measured, Has, HasRate, The, Tagged
    <3>3. \A tag : Has(Done, tag)' = Has(Done, tag) /\ The(tag)' = The(tag)
      BY <2>1, <2>3 DEF Has, The, Tagged
    <3> QED
      BY <2>1, <2>3, <3>1, <3>2, <3>3 DEF WrapInv, Decorated, Described, NamedBy, Tagged
  <2> QED
    BY <2>1, <2>2, <2>4, <2>6, <2>7, <2>8 DEF WrapInv
<1> QED
  BY <1>1, <1>2, <1>3, <1>4, <1>5 DEF Next, Published

\* The invariant of both paths.
LEMMA WrapInvariant == Spec => []WrapInv
<1> QED
  BY WrapInit, WrapStep, PTL DEF Spec

----------------------------------------------------------------------------
(* What is published.                                                      *)

\* A complete result is what its wrappers promise.
LEMMA PromiseFollows == WrapInv => WrappersKeepTheirPromise
<1> SUFFICES ASSUME WrapInv, stage = "published"
             PROVE  /\ res.id = ExpectationID(decl)
                    /\ res.severity = IF Tagged(decl, "policy") = {} THEN "error"
                                      ELSE The("policy").severity
                    /\ res.maxCount = IF Tagged(decl, "count") = {} THEN None ELSE The("count").max
                    /\ res.err <=> fault # "none"
                    /\ decl.core \in RowCores =>
                         res.success <=> ~res.err /\ (res.failed = 0 \/ Excused(res))
                    /\ res.tolerated <=>
                         /\ res.success /\ res.failed > 0
                         /\ Tagged(decl, "count") # {} \/ res.total > 0
  BY DEF WrappersKeepTheirPromise
<1> DEFINE S == Layers(decl)
<1>1. Typed /\ Complete(res) /\ decl \in Decl /\ ~OwnFault(decl)
  BY DeclsAssumption DEF WrapInv, Typed
<1>2. \A tag : Has(S, tag) <=> Tagged(decl, tag) # {}
  BY DEF Has, Tagged
<1>3. /\ res.total = Fresh.total /\ res.failed = Fresh.failed
      /\ res.severity = (IF Has(S, "policy") THEN The("policy").severity ELSE "error")
      /\ res.maxCount = (IF Has(S, "count") THEN The("count").max ELSE None)
      /\ (res.success <=> fault = "none" /\ Passes(S))
      /\ (res.tolerated <=> fault = "none" /\ Tolerates(S))
      /\ res.id = ExpectationID(decl)
      /\ (res.err <=> fault # "none")
  BY <1>1 DEF Complete, Described
<1>4. /\ Fresh.total \in Nat /\ Fresh.failed \in Nat /\ figures.failed \in Nat
      /\ fault = "none" /\ decl.core \in RowCores => Fresh.failed = figures.failed
      /\ fault = "none" /\ Fresh.failed > 0 => Fresh.failed = figures.failed
  BY <1>1, FreshShape, FiguresAssumption DEF Typed
<1>5. ASSUME Has(S, "count")
      PROVE  The("count").max \in Nat /\ ~HasRate(S) /\ ~(Has(S, "policy") /\ Rated(The("policy")))
  <2>1. PICK i \in Tagged(decl, "count") : TRUE
    BY <1>5 DEF Has
  <2>2. The("count") = decl.layers[i]
    BY <1>1, Accepted, TheOne
  <2>3. Has(S, "policy") => ~Rated(The("policy"))
    <3> SUFFICES ASSUME NEW j \in Tagged(decl, "policy") PROVE ~Rated(The("policy"))
      BY <1>2
    <3>1. The("policy") = decl.layers[j]
      BY <1>1, Accepted, TheOne
    <3> QED
      BY <1>1, <3>1, Accepted
  <2> QED
    BY <1>1, <2>2, <2>3, Accepted DEF HasRate
<1> HIDE DEF S
<1> DEFINE within == res.failed * 100 <= The("policy").percent * res.total
<1>6. Excused(res) <=> \/ Has(S, "count") /\ res.failed <= The("count").max
                       \/ HasRate(S) /\ (res.total = 0 \/ within)
  BY <1>2 DEF Excused, HasRate
<1>7. /\ Passes(S) <=> IF Has(S, "count") THEN res.failed <= The("count").max
                       ELSE IF HasRate(S) THEN res.total = 0 \/ res.failed = 0 \/ within
                       ELSE figures.failed = 0
      /\ Tolerates(S) <=> IF Has(S, "count")
                          THEN res.failed <= The("count").max /\ res.failed > 0
                          ELSE HasRate(S) /\ ~(res.total = 0 \/ res.failed = 0) /\ within
  BY <1>3 DEF Passes, Tolerates
<1> HIDE DEF within
<1>8. decl.core \in RowCores => (res.success <=> ~res.err /\ (res.failed = 0 \/ Excused(res)))
  BY <1>3, <1>4, <1>5, <1>6, <1>7
<1>9. res.tolerated <=>
        /\ res.success /\ res.failed > 0
        /\ Has(S, "count") \/ res.total > 0
  BY <1>3, <1>4, <1>5, <1>7
<1> QED
  BY <1>2, <1>3, <1>8, <1>9

\* A published result is what its wrappers promise, in whatever order they are
\* nested (policy.go:101-181, expectation.go:142-160, 232-241).
THEOREM WrappersKept == Spec => []WrappersKeepTheirPromise
<1> QED
  BY WrapInvariant, PromiseFollows, PTL
\* Two complete results are one.
LEMMA CompleteIsUnique ==
  ASSUME NEW r, NEW s, Complete(r), Complete(s)
  PROVE  r = s
<1>1. Shape(r) /\ Shape(s)
  BY DEF Complete, Described
<1>2. /\ r.id = s.id /\ r.available = s.available /\ r.total = s.total /\ r.failed = s.failed
      /\ r.severity = s.severity /\ r.maxCount = s.maxCount /\ r.maxPercent = s.maxPercent
  BY DEF Complete, Described
<1>3. /\ r.success <=> s.success
      /\ r.tolerated <=> s.tolerated
      /\ r.err <=> s.err
  BY DEF Complete, Described
<1>4. r.success = s.success /\ r.tolerated = s.tolerated /\ r.err = s.err
  BY <1>1, <1>3 DEF Shape
<1> QED
  BY <1>1, <1>2, <1>4 DEF Shape

\* The outermost layer of a tag that only one layer has is that layer.
LEMMA OneOutermost ==
  ASSUME decl \in Decl, NEW tag,
         \A i, j \in Tagged(decl, tag) : i = j, Tagged(decl, tag) # {}
  PROVE  decl.layers[Outermost(decl, tag)] = The(tag)
<1>1. PICK i \in Tagged(decl, tag) : TRUE
  OBVIOUS
<1>2. i \in Int
  BY DeclShape DEF Tagged
<1>3. \A j \in Tagged(decl, tag) : j = i /\ i <= j
  BY <1>2
<1> DEFINE First(k) == \A j \in Tagged(decl, tag) : k <= j
<1>3a. First(i) /\ \A k \in Tagged(decl, tag) : First(k) => k = i
  BY <1>3
<1> HIDE DEF First
<1>3b. (CHOOSE k \in Tagged(decl, tag) : First(k)) = i
  BY <1>3a
<1>4. Outermost(decl, tag) = i
  BY <1>3b DEF Outermost, First
<1>5. The(tag) = decl.layers[i]
  BY <1>1, TheOne
<1> QED
  BY <1>4, <1>5

\* A result that is given the metadata of a policy.
LEMMA WithMetadata ==
  ASSUME NEW s, Shape(s), NEW v, NEW w, NEW x,
         x = [s EXCEPT !.severity = v, !.maxPercent = w]
  PROVE  x = [id |-> s.id, available |-> s.available, total |-> s.total, failed |-> s.failed,
              success |-> s.success, tolerated |-> s.tolerated, severity |-> v,
              maxCount |-> s.maxCount, maxPercent |-> w, err |-> s.err]
<1> DEFINE u == [s EXCEPT !.severity = v]
<1>1. u = [id |-> s.id, available |-> s.available, total |-> s.total, failed |-> s.failed,
           success |-> s.success, tolerated |-> s.tolerated, severity |-> v,
           maxCount |-> s.maxCount, maxPercent |-> s.maxPercent, err |-> s.err]
  BY DEF Shape
<1>2. x = [u EXCEPT !.maxPercent = w]
  OBVIOUS
<1> HIDE DEF u
<1> QED
  BY <1>1, <1>2

\* What preflight publishes of a slot it rules out is complete for a declaration
\* whose first statement fails.
LEMMA ConfigErrorComplete ==
  ASSUME Typed, fault = "statement"
  PROVE  Complete(ConfigErrorResult)
<1> DEFINE S == Layers(decl)
<1> DEFINE id == ExpectationID(decl)
<1> DEFINE r == [Unmeasured EXCEPT !.id = id, !.err = TRUE]
<1> DEFINE c == decl.layers[Outermost(decl, "count")]
<1> DEFINE p == decl.layers[Outermost(decl, "policy")]
<1> DEFINE s == IF Tagged(decl, "count") = {} THEN r ELSE [r EXCEPT !.maxCount = c.max]
<1> DEFINE x == IF Tagged(decl, "policy") = {} THEN s
                ELSE [s EXCEPT !.severity = p.severity, !.maxPercent = p.percent]
<1>1. decl \in Decl /\ ~OwnFault(decl)
  BY DeclsAssumption DEF Typed
<1>2. ConfigErrorResult = x
  BY DEF ConfigErrorResult, PolicyMetadata
<1>3. \A tag : Has(S, tag) <=> Tagged(decl, tag) # {}
  BY DEF Has, Tagged
<1>4. ASSUME NEW tag, \A i, j \in Tagged(decl, tag) : i = j, Tagged(decl, tag) # {}
      PROVE  decl.layers[Outermost(decl, tag)] = The(tag)
  BY <1>1, <1>4, OneOutermost
<1>5. Tagged(decl, "count") # {} => c = The("count")
  BY <1>1, <1>4, Accepted
<1>6. /\ Tagged(decl, "policy") # {} => p = The("policy")
      /\ Tagged(decl, "policy") # {} => (Rated(p) <=> p.percent # None)
  <2>1. Tagged(decl, "policy") # {} => p = The("policy")
    BY <1>1, <1>4, Accepted
  <2>2. ASSUME NEW i \in Tagged(decl, "policy") PROVE Rated(decl.layers[i]) <=> decl.layers[i].percent # None
    BY DEF Rated, Tagged
  <2>3. ASSUME NEW i \in Tagged(decl, "policy") PROVE The("policy") = decl.layers[i]
    BY <1>1, Accepted, TheOne
  <2> QED
    BY <2>1, <2>2, <2>3
<1> HIDE DEF id, c, p
<1>7. r = [id |-> id, available |-> FALSE, total |-> 0, failed |-> 0,
           success |-> FALSE, tolerated |-> FALSE, severity |-> "error",
           maxCount |-> None, maxPercent |-> None, err |-> TRUE]
  <2> DEFINE z == Unmeasured
  <2> DEFINE u == [z EXCEPT !.id = id]
  <2>1. z = [id |-> Blank, available |-> FALSE, total |-> 0, failed |-> 0,
             success |-> FALSE, tolerated |-> FALSE, severity |-> "error",
             maxCount |-> None, maxPercent |-> None, err |-> FALSE]
    BY DEF Unmeasured
  <2>2. r = [u EXCEPT !.err = TRUE]
    OBVIOUS
  <2>3. u = [z EXCEPT !.id = id]
    OBVIOUS
  <2> HIDE DEF z, u, r
  <2>4. Shape(z)
    BY <2>1 DEF Shape
  <2>5. u = [id |-> id, available |-> z.available, total |-> z.total, failed |-> z.failed,
             success |-> z.success, tolerated |-> z.tolerated, severity |-> z.severity,
             maxCount |-> z.maxCount, maxPercent |-> z.maxPercent, err |-> z.err]
    BY <2>3, <2>4, WithField
  <2>6. Shape(u)
    BY <2>1, <2>5 DEF Shape
  <2>7. r = [id |-> u.id, available |-> u.available, total |-> u.total, failed |-> u.failed,
             success |-> u.success, tolerated |-> u.tolerated, severity |-> u.severity,
             maxCount |-> u.maxCount, maxPercent |-> u.maxPercent, err |-> TRUE]
    BY <2>2, <2>6, WithField
  <2> QED
    BY <2>1, <2>5, <2>7
<1> HIDE DEF r
<1> DEFINE max == IF Tagged(decl, "count") = {} THEN None ELSE c.max
<1> DEFINE severity == IF Tagged(decl, "policy") = {} THEN "error" ELSE p.severity
<1> DEFINE percent == IF Tagged(decl, "policy") = {} THEN None ELSE p.percent
<1>8. s = [id |-> id, available |-> FALSE, total |-> 0, failed |-> 0,
           success |-> FALSE, tolerated |-> FALSE, severity |-> "error",
           maxCount |-> max, maxPercent |-> None, err |-> TRUE]
  BY <1>7
<1> HIDE DEF s, max
<1>8a. Shape(s)
  BY <1>8 DEF Shape
<1>9. x = [id |-> id, available |-> FALSE, total |-> 0, failed |-> 0,
           success |-> FALSE, tolerated |-> FALSE, severity |-> severity,
           maxCount |-> max, maxPercent |-> percent, err |-> TRUE]
  <2>1. CASE Tagged(decl, "policy") = {}
    BY <1>8, <2>1
  <2>2. CASE Tagged(decl, "policy") # {}
    <3>1. x = [s EXCEPT !.severity = p.severity, !.maxPercent = p.percent]
      BY <2>2
    <3>2. severity = p.severity /\ percent = p.percent
      BY <2>2
    <3> HIDE DEF x, severity, percent
    <3>3. x = [id |-> s.id, available |-> s.available, total |-> s.total, failed |-> s.failed,
               success |-> s.success, tolerated |-> s.tolerated, severity |-> p.severity,
               maxCount |-> s.maxCount, maxPercent |-> p.percent, err |-> s.err]
      BY <1>8a, <3>1, WithMetadata
    <3> QED
      BY <1>8, <3>2, <3>3
  <2> QED
    BY <2>1, <2>2
<1> HIDE DEF x, severity, percent
<1>10. Shape(x)
  BY <1>9 DEF Shape
<1>11. Fresh.available = FALSE /\ Fresh.total = 0 /\ Fresh.failed = 0
  BY DEF Fresh, Unmeasured
<1>12. /\ max = (IF Has(S, "count") THEN The("count").max ELSE None)
       /\ severity = (IF Has(S, "policy") THEN The("policy").severity ELSE "error")
  BY <1>3, <1>5, <1>6 DEF max, severity
<1>13. percent = (IF HasRate(S) THEN The("policy").percent ELSE None)
  BY <1>3, <1>6 DEF percent, HasRate
<1> HIDE DEF S
<1>14. x.success = FALSE /\ x.tolerated = FALSE /\ x.err = TRUE /\ x.available = FALSE
       /\ x.total = 0 /\ x.failed = 0 /\ x.id = id /\ x.maxCount = max
       /\ x.severity = severity /\ x.maxPercent = percent
  BY <1>9
<1>15. Described(x, S)
  BY <1>10, <1>11, <1>12, <1>13, <1>14 DEF Described
<1> QED
  BY <1>2, <1>14, <1>15 DEF Complete, S, id

\* Two complete results are one, however they were made.
LEMMA PathsFollow == WrapInv => SharedPathAgrees
<1> SUFFICES ASSUME WrapInv, stage = "published"
             PROVE  /\ plan.shareable => shared = res
                    /\ fault = "statement" => res = ConfigErrorResult
  BY DEF SharedPathAgrees
<1>1. Typed /\ Complete(res) /\ (plan.shareable => Complete(shared))
  BY DEF WrapInv
<1> QED
  BY <1>1, CompleteIsUnique, ConfigErrorComplete

\* Shared scalar evaluation publishes what sequential evaluation does, and a slot
\* that preflight rules out is published as one whose first statement failed
\* (shared_scalar.go:38-73, 144-188, 339-347; meta.go:124-144; policy.go:296-322).
THEOREM PathsAgree == Spec => []SharedPathAgrees
<1> QED
  BY WrapInvariant, PathsFollow, PTL

----------------------------------------------------------------------------
(* Types.                                                                  *)

\* A result in terms of its fields.
LEMMA ResultFields ==
  ASSUME NEW r
  PROVE  r \in Result <=>
           /\ Shape(r) /\ r.id \in RawIds \cup {Blank} /\ r.total \in Nat /\ r.failed \in Nat
           /\ r.severity \in Severities /\ r.maxCount \in Int /\ r.maxPercent \in Nat \cup {None}
<1>1. r \in Result =>
           /\ Shape(r) /\ r.id \in RawIds \cup {Blank} /\ r.total \in Nat /\ r.failed \in Nat
           /\ r.severity \in Severities /\ r.maxCount \in Int /\ r.maxPercent \in Nat \cup {None}
  BY DEF Result, Shape
<1>2. ASSUME Shape(r), r.id \in RawIds \cup {Blank}, r.total \in Nat, r.failed \in Nat,
             r.severity \in Severities, r.maxCount \in Int, r.maxPercent \in Nat \cup {None}
      PROVE  r \in Result
  BY <1>2 DEF Result, Shape
<1> QED
  BY <1>1, <1>2

\* A set of numbers has a least one.
LEMMA LeastNumber ==
  ASSUME NEW K \in SUBSET Nat, K # {}
  PROVE  \E i \in K : \A j \in K : i <= j
<1>1. PICK i \in K : \A j \in K : <<j, i>> \notin OpToRel(<, Nat)
  BY WFMin, NatLessThanWellFounded, Zenon
<1>2. \A j \in K : ~(j < i)
  BY <1>1, Zenon DEF OpToRel
<1>3. \A j \in K : i <= j
  BY <1>2
<1> QED
  BY <1>3

\* The identity of a declaration is one it was given, or blank.
LEMMA NameTyped ==
  ASSUME NEW d \in Decl
  PROVE  ExpectationID(d) \in RawIds \cup {Blank}
<1> SUFFICES ASSUME Tagged(d, "id") # {}
             PROVE  d.layers[Outermost(d, "id")].id \in RawIds
  BY DEF ExpectationID
<1> DEFINE K == Tagged(d, "id")
<1>1. K \subseteq Layers(d) /\ Layers(d) \subseteq Nat
  BY DeclShape DEF Tagged
<1>2. PICK i \in K : \A j \in K : i <= j
  <2>1. K \subseteq Nat /\ K # {}
    BY <1>1
  <2> HIDE DEF K
  <2> QED
    BY <2>1, LeastNumber
<1>3. Outermost(d, "id") \in K
  BY <1>2 DEF Outermost
<1>4. d.layers[Outermost(d, "id")] \in Layer /\ d.layers[Outermost(d, "id")].tag = "id"
  BY <1>1, <1>3, DeclShape DEF Tagged
<1> QED
  BY <1>4, LayerShape

\* A result that some of the layers have decorated has its type.
LEMMA DescribedTyped ==
  ASSUME Typed, NEW r, NEW S, Described(r, S), r.id \in RawIds \cup {Blank}
  PROVE  r \in Result
<1>1. decl \in Decl /\ ~OwnFault(decl)
  BY DeclsAssumption DEF Typed
<1>2. ASSUME NEW tag \in {"count", "policy"}, Has(S, tag)
      PROVE  The(tag) \in Layer /\ The(tag).tag = tag
  <2>1. PICK i \in Tagged(decl, tag) : TRUE
    BY <1>2 DEF Has
  <2>2. The(tag) = decl.layers[i]
    BY <1>1, <2>1, Accepted, TheOne
  <2> QED
    BY <1>1, <2>2, DeclShape DEF Tagged
<1>3. Shape(r) /\ r.total \in Nat /\ r.failed \in Nat
  BY FreshShape DEF Described
<1>4. r.severity \in Severities
  <2>1. Has(S, "policy") => The("policy").severity \in Severities
    BY <1>2, LayerShape
  <2> QED
    BY <2>1 DEF Described, Severities
<1>5. r.maxCount \in Int
  <2>1. Has(S, "count") => The("count").max \in Int
    BY <1>2, LayerShape
  <2> QED
    BY <2>1 DEF Described, None
<1>6. r.maxPercent \in Nat \cup {None}
  <2>1. Has(S, "policy") => The("policy").percent \in Nat \cup {None}
    BY <1>2, LayerShape
  <2> QED
    BY <2>1 DEF Described, HasRate
<1> QED
  BY <1>3, <1>4, <1>5, <1>6, ResultFields

\* A plan's decorations, an error and recording keep a result's type, whatever
\* plan was made.
LEMMA PlanTyped ==
  ASSUME Planned, NEW r \in Result
  PROVE  ApplyPlan(r) \in Result
<1> DEFINE p == CHOOSE policy \in plan.policies : TRUE
<1> DEFINE s == IF plan.policies = {} THEN r ELSE ApplyPolicy(r, p)
<1>1. ApplyPlan(r) = IF plan.max = None THEN s ELSE ApplyMaxFailedCount(s, plan.max)
  BY DEF ApplyPlan
<1>2. s \in Result
  <2>1. CASE plan.policies = {}
    BY <2>1
  <2>2. CASE plan.policies # {}
    <3>1. p \in Layer /\ p.tag = "policy"
      BY <2>2 DEF Planned, Policies
    <3> HIDE DEF p
    <3>2. p.severity \in Severities /\ p.percent \in Nat \cup {None}
      BY <3>1, LayerShape
    <3>3. PICK x : x = ApplyPolicy(r, p)
      OBVIOUS
    <3>4. /\ Shape(x) /\ x.id = r.id /\ x.total = r.total /\ x.failed = r.failed
          /\ x.severity = p.severity /\ x.maxCount = r.maxCount
          /\ x.maxPercent = (IF Rated(p) THEN p.percent ELSE r.maxPercent)
      BY <3>1, <3>2, <3>3, PolicyFields, ResultFields
    <3>5. x \in Result
      BY <3>2, <3>4, ResultFields
    <3> QED
      BY <2>2, <3>3, <3>5
  <2> QED
    BY <2>1, <2>2
<1> HIDE DEF s
<1>3. CASE plan.max # None
  <2>1. plan.max \in Int
    BY DEF Planned
  <2>2. PICK x : x = ApplyMaxFailedCount(s, plan.max)
    OBVIOUS
  <2>3. /\ Shape(x) /\ x.id = s.id /\ x.total = s.total /\ x.failed = s.failed
        /\ x.severity = s.severity /\ x.maxPercent = s.maxPercent /\ x.maxCount = plan.max
    BY <1>2, <2>2, CountFields, ResultFields
  <2>4. x \in Result
    BY <1>2, <2>1, <2>3, ResultFields
  <2> QED
    BY <1>1, <1>3, <2>2, <2>4
<1> QED
  BY <1>1, <1>2, <1>3

\* Another identity, error or verdict keeps the type of a result.
LEMMA WithTyped ==
  ASSUME NEW r \in Result, NEW n \in RawIds \cup {Blank}, NEW b \in BOOLEAN
  PROVE  /\ [r EXCEPT !.id = n] \in Result
         /\ [r EXCEPT !.err = b] \in Result
         /\ [r EXCEPT !.success = b] \in Result
<1> QED
  BY DEF Result

\* So does recording.
LEMMA RecordedTyped ==
  ASSUME NEW r \in Result, returned \in BOOLEAN
  PROVE  Recorded(r) \in Result
<1> DEFINE e == r.err \/ returned
<1> DEFINE s == [r EXCEPT !.err = e]
<1> DEFINE v == r.success /\ ~s.err
<1>1. Recorded(r) = [s EXCEPT !.success = v]
  BY DEF Recorded
<1>2. e \in BOOLEAN /\ v \in BOOLEAN /\ Blank \in RawIds \cup {Blank}
  OBVIOUS
<1> HIDE DEF e, v
<1>3. s \in Result
  BY <1>2, WithTyped
<1> HIDE DEF s
<1> QED
  BY <1>1, <1>2, <1>3, WithTyped

\* The result of the shared path, before and after it is known to be used.
LEMMA SharedTyped ==
  ASSUME Typed, Planned
  PROVE  SharedResult \in Result
<1> DEFINE id == ExpectationID(decl)
<1> DEFINE named == [Unmeasured EXCEPT !.id = id]
<1> DEFINE measured == [Measured EXCEPT !.id = id]
<1>1. id \in RawIds \cup {Blank}
  BY DeclsAssumption, NameTyped DEF Typed
<1>2. figures.total \in Nat /\ figures.failed \in Nat
  BY FiguresAssumption DEF Typed
<1>3. Unmeasured \in Result
  BY DEF Unmeasured, Result, Severities, None
<1>4. Measured \in Result
  <2> DEFINE b == decl.core \in RowCores
  <2> DEFINE t == IF decl.core \in RowCores THEN figures.total ELSE 0
  <2> DEFINE f == IF decl.core \in RowCores THEN figures.failed ELSE 0
  <2> DEFINE c == figures.failed = 0
  <2>1. b \in BOOLEAN /\ t \in Nat /\ f \in Nat /\ c \in BOOLEAN
    BY <1>2
  <2>2. Measured = [Unmeasured EXCEPT !.available = b, !.total = t, !.failed = f, !.success = c]
    BY DEF Measured
  <2> HIDE DEF b, t, f, c
  <2> QED
    BY <1>3, <2>1, <2>2 DEF Result
<1> HIDE DEF id
<1>5. named \in Result /\ measured \in Result
  BY <1>1, <1>3, <1>4, WithTyped
<1>6. /\ fault = "statement" => SharedResult = [ApplyPlan(named) EXCEPT !.err = TRUE]
      /\ fault = "diagnostic" =>
           SharedResult = ApplyPlan([measured EXCEPT !.err = TRUE, !.success = FALSE])
      /\ fault = "none" => SharedResult = ApplyPlan(measured)
  <2>1. fault = "statement" => SharedResult = [ApplyPlan(named) EXCEPT !.err = TRUE]
    BY DEF SharedResult, id
  <2>2. fault = "diagnostic" =>
          SharedResult = ApplyPlan([measured EXCEPT !.err = TRUE, !.success = FALSE])
    BY DEF SharedResult, id
  <2>3. fault = "none" => SharedResult = ApplyPlan(measured)
    BY DEF SharedResult, id
  <2> QED
    BY <2>1, <2>2, <2>3
<1> HIDE DEF named, measured
<1>7. CASE fault = "none"
  BY <1>5, <1>6, <1>7, PlanTyped
<1>8. CASE fault = "diagnostic"
  <2> DEFINE u == [measured EXCEPT !.err = TRUE]
  <2> DEFINE w == [u EXCEPT !.success = FALSE]
  <2>1. u \in Result
    BY <1>1, <1>5, WithTyped
  <2>2. [measured EXCEPT !.err = TRUE, !.success = FALSE] = w
    OBVIOUS
  <2> HIDE DEF u
  <2>3. w \in Result
    BY <1>1, <2>1, WithTyped
  <2> HIDE DEF w
  <2> QED
    BY <1>6, <1>8, <2>2, <2>3, PlanTyped
<1>9. CASE fault = "statement"
  <2>1. ApplyPlan(named) \in Result
    BY <1>5, PlanTyped
  <2> QED
    BY <1>1, <1>6, <1>9, <2>1, WithTyped
<1> QED
  BY <1>7, <1>8, <1>9 DEF Typed, Faults

\* Both results have their type; what is not published of them included.
SharedIsTyped == stage # "plan" => shared \in Result

\* Every step keeps the type of the shared result.
LEMMA SharedStep ==
  ASSUME WrapInv, SharedIsTyped, [Next]_vars
  PROVE  SharedIsTyped'
<1>1. Typed /\ Planned /\ (stage # "plan" => returned \in BOOLEAN)
  BY DEF WrapInv
<1>2. CASE Measure
  BY <1>1, <1>2, SharedTyped DEF Measure, SharedIsTyped, Result
<1>3. CASE Publish
  <2>1. stage # "plan" /\ shared \in Result /\ shared' = Recorded(shared)
    BY <1>3 DEF Publish, SharedIsTyped
  <2>2. Recorded(shared) \in Result
    BY <1>1, <2>1, RecordedTyped
  <2> QED
    BY <2>1, <2>2 DEF SharedIsTyped, Result
<1>4. CASE PlanLayer
  BY <1>4 DEF PlanLayer, SharedIsTyped, Result
<1>5. CASE Unwind
  BY <1>5 DEF Unwind, SharedIsTyped, Result
<1>6. CASE UNCHANGED vars \/ Published
  BY <1>6 DEF vars, Published, SharedIsTyped, Result
<1> QED
  BY <1>2, <1>3, <1>4, <1>5, <1>6 DEF Next

\* The invariant gives every variable its type.
LEMMA TypesFollow == WrapInv /\ SharedIsTyped => TypeOK
<1> SUFFICES ASSUME WrapInv, SharedIsTyped PROVE TypeOK
  OBVIOUS
<1>1. /\ Typed /\ Planned
      /\ stage = "plan" => returned = FALSE /\ res = Unmeasured /\ shared = Unmeasured
      /\ stage # "plan" => returned \in BOOLEAN
  BY DEF WrapInv
<1>2. /\ decl \in Decl /\ fault \in Faults /\ figures \in Figures
      /\ stage \in {"plan", "unwind", "published"}
      /\ at \in 0..(Len(decl.layers) + 1)
  BY <1>1, DeclsAssumption DEF Typed
<1>3. plan.shareable \in BOOLEAN /\ plan.max \in Int /\ plan.policies \subseteq Layer
  BY <1>1 DEF Planned, Policies
<1>4. Unmeasured \in Result
  BY DEF Unmeasured, Result, Severities, None
<1>5. shared \in Result
  BY <1>1, <1>4 DEF SharedIsTyped
<1>6. res \in Result
  <2>1. CASE stage = "plan"
    BY <1>1, <1>4, <2>1
  <2>2. CASE stage = "unwind"
    <3>1. Described(res, Done) /\ NamedBy(res, Done)
      BY <2>2 DEF WrapInv, Decorated
    <3>2. res.id \in RawIds \cup {Blank}
      <4>1. CASE res.id = Blank
        BY <4>1
      <4>2. CASE res.id # Blank
        <5>1. PICK i \in Tagged(decl, "id") : res.id = decl.layers[i].id
          BY <3>1, <4>2 DEF NamedBy
        <5> QED
          BY <1>2, <5>1, DeclShape, LayerShape DEF Tagged
      <4> QED
        BY <4>1, <4>2
    <3> QED
      BY <1>1, <3>1, <3>2, DescribedTyped
  <2>3. CASE stage = "published"
    <3>1. Described(res, Layers(decl)) /\ res.id = ExpectationID(decl)
      BY <2>3 DEF WrapInv, Complete
    <3> QED
      BY <1>1, <1>2, <3>1, NameTyped, DescribedTyped
  <2> QED
    BY <1>2, <2>1, <2>2, <2>3
<1>7. returned \in BOOLEAN
  BY <1>1
<1> QED
  BY <1>2, <1>3, <1>5, <1>6, <1>7 DEF TypeOK

\* Every part of the state has its type, the result of the shared path included
\* where the plan turns out not to be shareable (policy.go:11-25, 147-170;
\* shared_scalar.go:38-73, 144-188).
THEOREM WrappingTyped == Spec => []TypeOK
<1>1. Init => SharedIsTyped
  BY DEF Init, SharedIsTyped
<1>2. WrapInv /\ SharedIsTyped /\ [Next]_vars => SharedIsTyped'
  BY SharedStep
<1>3. WrapInv /\ SharedIsTyped => TypeOK
  BY TypesFollow
<1> QED
  BY <1>1, <1>2, <1>3, WrapInvariant, PTL DEF Spec
=============================================================================
