------------------------------ MODULE StepsProofs ------------------------------
(***************************************************************************)
(* What holds of Steps for any plans, harnesses and users: Kahn's          *)
(* algorithm orders a workflow exactly when it can be ordered, resolve     *)
(* grants only what is lawful, and a run dispatches only what it planned.  *)
(***************************************************************************)
EXTENDS Steps, FiniteSetTheorems, SequenceTheorems, WellFoundedInduction, TLAPS

-----------------------------------------------------------------------------
(* Numbers *)

LEMMA Least ==
  ASSUME NEW S \in SUBSET Nat, S # {}
  PROVE  \E n \in S : \A m \in S : n <= m
<1> DEFINE R == {ss \in Nat \X Nat : ss[1] < ss[2]}
<1>1. IsWellFoundedOn(R, Nat)
  BY NatLessThanWellFounded DEF OpToRel
<1>2. PICK n \in S : \A m \in S : <<m, n>> \notin R
  <2> HIDE DEF R
  <2> QED BY <1>1, WFMin
<1>3. \A m \in S : ~(m < n)
  BY <1>2
<1> QED BY <1>3

(* Induction, for a set of numbers. *)
LEMMA AllNumbers ==
  ASSUME NEW S, 0 \in S, \A n \in Nat : n \in S => n + 1 \in S
  PROVE  Nat \subseteq S
<1> SUFFICES ASSUME Nat \ S # {} PROVE FALSE
  OBVIOUS
<1>1. PICK n \in Nat \ S : \A m \in Nat \ S : n <= m
  BY Least
<1>2. n # 0 /\ n - 1 \in Nat
  BY <1>1
<1>3. n - 1 \in S
  BY <1>1, <1>2
<1>4. (n - 1) + 1 \in S
  BY <1>2, <1>3
<1> QED BY <1>1, <1>2, <1>4

LEMMA PartOfInterval ==
  ASSUME NEW n \in Nat, NEW set \in SUBSET (1..n)
  PROVE  IsFiniteSet(set) /\ Cardinality(set) \in Nat
<1>1. IsFiniteSet(1..n)
  BY FS_Interval
<1>2. IsFiniteSet(set)
  BY <1>1, FS_Subset
<1> QED BY <1>2, FS_CardinalityType

LEMMA IntervalCount == ASSUME NEW m \in Nat PROVE IsFiniteSet(1..m) /\ Cardinality(1..m) = m
  BY FS_Interval

(* As many different numbers as there are, or as are listed. *)
LEMMA Onto ==
  ASSUME NEW m \in Nat, NEW set, IsFiniteSet(set), NEW f \in [1..m -> set], IsInjective(f)
  PROVE  /\ m <= Cardinality(set)
         /\ m = Cardinality(set) <=> \A k \in set : \E i \in 1..m : f[i] = k
<1>1. Cardinality(set) \in Nat
  BY FS_CardinalityType
<1>2. f \in Injection(1..m, set)
  BY DEF Injection
<1>3. f \in Surjection(1..m, set) <=> \A k \in set : \E i \in 1..m : f[i] = k
  BY DEF Surjection
<1>4. Cardinality(1..m) = m
  BY IntervalCount
<1> QED BY <1>1, <1>2, <1>3, <1>4, FS_Injection

(* A set of steps has a list. *)
IsList(q, set) == /\ q \in [1..Cardinality(set) -> set]
                  /\ \A i, k \in 1..Cardinality(set) : i < k => q[i] < q[k]

LEMMA ListExists == \A n \in Nat : \A set \in SUBSET (1..n) : \E q : IsList(q, set)
<1> DEFINE S == {n \in Nat : \A set \in SUBSET (1..n) : \E q : IsList(q, set)}
<1>1. 0 \in S
  <2>1. ASSUME NEW set \in SUBSET (1..0) PROVE IsList(<<>>, set)
    <3>1. set = {}
      OBVIOUS
    <3>2. Cardinality({}) = 0
      BY FS_EmptySet
    <3> QED BY <3>1, <3>2 DEF IsList
  <2> QED BY <2>1
<1>2. ASSUME NEW n \in Nat, n \in S PROVE n + 1 \in S
  <2> SUFFICES ASSUME NEW set \in SUBSET (1..(n + 1)) PROVE \E q : IsList(q, set)
    OBVIOUS
  <2>1. CASE n + 1 \notin set
    <3>1. set \in SUBSET (1..n)
      BY <2>1
    <3> QED BY <1>2, <3>1
  <2>2. CASE n + 1 \in set
    <3> DEFINE rest == set \ {n + 1}
               c == Cardinality(rest)
    <3>1. rest \in SUBSET (1..n) /\ IsFiniteSet(rest) /\ set = rest \union {n + 1} /\ n + 1 \notin rest
      <4>1. rest \in SUBSET (1..n)
        BY <2>2
      <4> QED BY <2>2, <4>1, PartOfInterval
    <3>2. c \in Nat /\ Cardinality(set) = c + 1
      BY <3>1, FS_AddElement, FS_CardinalityType
    <3>3. PICK q : IsList(q, rest)
      BY <1>2, <3>1
    <3> DEFINE p == [i \in 1..(c + 1) |-> IF i <= c THEN q[i] ELSE n + 1]
    <3>4. \A i \in 1..c : q[i] \in rest /\ q[i] \in 1..n
      BY <3>1, <3>3 DEF IsList
    <3>5. \A i, k \in 1..c : i < k => q[i] < q[k]
      BY <3>3 DEF IsList
    <3> HIDE DEF c, rest
    <3>6. p \in [1..(c + 1) -> set]
      BY <3>1, <3>2, <3>4
    <3>7. ASSUME NEW i \in 1..(c + 1), NEW k \in 1..(c + 1), i < k PROVE p[i] < p[k]
      <4>1. CASE k <= c
        <5>1. i \in 1..c /\ k \in 1..c /\ p[i] = q[i] /\ p[k] = q[k]
          BY <3>2, <3>7, <4>1
        <5> QED BY <3>5, <3>7, <5>1
      <4>2. CASE k = c + 1
        <5>1. i \in 1..c /\ p[i] = q[i] /\ p[k] = n + 1
          BY <3>2, <3>7, <4>2
        <5>2. q[i] \in 1..n
          BY <3>4, <5>1
        <5> QED BY <5>1, <5>2
      <4> QED BY <3>2, <4>1, <4>2
    <3> HIDE DEF p
    <3>8. IsList(p, set)
      BY <3>2, <3>6, <3>7 DEF IsList
    <3> QED BY <3>8
  <2> QED BY <2>1, <2>2
<1>3. Nat \subseteq S
  <2> HIDE DEF S
  <2> QED BY <1>1, <1>2, AllNumbers
<1> QED BY <1>3

LEMMA ListedAll ==
  ASSUME NEW n \in Nat, NEW set \in SUBSET (1..n)
  PROVE  /\ Listed(set) \in Seq(1..n) /\ ToSet(Listed(set)) = set
         /\ \A i, k \in 1..Len(Listed(set)) : Listed(set)[i] = Listed(set)[k] => i = k
<1> DEFINE q == Listed(set)
           c == Cardinality(set)
<1>1. IsFiniteSet(set) /\ c \in Nat
  BY PartOfInterval
<1>2. IsList(q, set)
  <2>1. \E p \in [1..c -> set] : \A i, k \in 1..c : i < k => p[i] < p[k]
    BY ListExists DEF IsList
  <2> QED BY <2>1 DEF IsList, Listed
<1> HIDE DEF q
<1>3. q \in [1..c -> set] /\ \A i, k \in 1..c : i < k => q[i] < q[k]
  BY <1>2 DEF IsList
<1>4. \A i \in 1..c : q[i] \in set /\ q[i] \in 1..n
  BY <1>3
<1>5. \A i, k \in 1..c : q[i] = q[k] => i = k
  <2> SUFFICES ASSUME NEW i \in 1..c, NEW k \in 1..c, q[i] = q[k], i # k PROVE FALSE
    OBVIOUS
  <2> HIDE DEF c
  <2>1. q[i] \in Nat /\ q[k] \in Nat /\ i \in Nat /\ k \in Nat
    BY <1>1, <1>4
  <2>2. i < k \/ k < i
    BY <2>1
  <2> QED BY <1>3, <2>1, <2>2
<1>6. \A k \in set : \E i \in 1..c : q[i] = k
  <2>1. IsInjective(q)
    BY <1>3, <1>5 DEF IsInjective
  <2>2. q \in [1..c -> set]
    BY <1>3
  <2>3. Cardinality(set) \in Nat
    BY <1>1
  <2> QED BY <1>1, <2>1, <2>2, <2>3, Onto
<1> HIDE DEF c
<1>7. q \in Seq(1..n) /\ Len(q) = c /\ DOMAIN q = 1..c
  <2>1. q \in [1..c -> 1..n]
    BY <1>3
  <2> QED BY <1>1, <2>1
<1>8. ToSet(q) = set
  BY <1>4, <1>6, <1>7 DEF ToSet
<1> QED BY <1>5, <1>7, <1>8 DEF q

-----------------------------------------------------------------------------
(* Kahn's algorithm *)

(* The rounds follow one another. *)
LEMMA RoundsUnfold ==
  ASSUME NEW steps, Len(steps) \in Nat
  PROVE  Rounds(steps) = [n \in 0..Len(steps) |->
                            IF n = 0 THEN Start(steps) ELSE Round(steps, Rounds(steps)[n - 1])]
<1> DEFINE Grows(g, n) == g = [k \in 0..n |-> IF k = 0 THEN Start(steps) ELSE Round(steps, g[k - 1])]
           S == {n \in Nat : \E g : Grows(g, n)}
<1>1. 0 \in S
  <2> DEFINE g == [k \in 0..0 |-> Start(steps)]
  <2>1. Grows(g, 0)
    OBVIOUS
  <2> QED BY <2>1
<1>2. ASSUME NEW n \in Nat, n \in S PROVE n + 1 \in S
  <2>1. PICK g : Grows(g, n)
    BY <1>2
  <2> DEFINE h == [k \in 0..(n + 1) |-> IF k <= n THEN g[k] ELSE Round(steps, g[n])]
  <2>2. \A k \in 0..(n + 1) : h[k] = IF k = 0 THEN Start(steps) ELSE Round(steps, h[k - 1])
    <3> SUFFICES ASSUME NEW k \in 0..(n + 1)
                 PROVE  h[k] = IF k = 0 THEN Start(steps) ELSE Round(steps, h[k - 1])
      OBVIOUS
    <3>1. CASE k <= n
      <4>1. k \in 0..n /\ h[k] = g[k] /\ (k # 0 => h[k - 1] = g[k - 1])
        BY <3>1
      <4>2. g[k] = IF k = 0 THEN Start(steps) ELSE Round(steps, g[k - 1])
        BY <2>1, <4>1
      <4> QED BY <4>1, <4>2
    <3>2. CASE k = n + 1
      <4>1. h[k] = Round(steps, g[n]) /\ h[k - 1] = g[n] /\ k # 0
        BY <3>2
      <4> QED BY <4>1
    <3> QED BY <3>1, <3>2
  <2>3. h = [k \in 0..(n + 1) |-> h[k]]
    OBVIOUS
  <2> HIDE DEF h
  <2>4. Grows(h, n + 1)
    BY <2>2, <2>3
  <2> QED BY <2>4
<1>3. Len(steps) \in S
  <2> HIDE DEF S
  <2> QED BY <1>1, <1>2, AllNumbers
<1>4. \E g : Grows(g, Len(steps))
  BY <1>3
<1>5. Rounds(steps) = CHOOSE g : Grows(g, Len(steps))
  BY DEF Rounds
<1> HIDE DEF Grows
<1>6. Grows(Rounds(steps), Len(steps))
  BY <1>4, <1>5
<1> QED BY <1>6 DEF Grows

(* Steps with an id each, and lists of needs. *)
Distinct(s) == \A i, k \in 1..Len(s) : s[i] = s[k] => i = k
Workable(steps) == /\ IsSequence(steps) /\ ~Duplicate(steps)
                   /\ \A s \in ToSet(steps) : IsSequence(s.needs)

LEMMA DistinctAppend ==
  ASSUME NEW S, NEW s \in Seq(S), NEW x \in S, Distinct(s), x \notin ToSet(s)
  PROVE  /\ Append(s, x) \in Seq(S) /\ Distinct(Append(s, x))
         /\ ToSet(Append(s, x)) = ToSet(s) \union {x}
<1>1. /\ Len(s) \in Nat /\ DOMAIN s = 1..Len(s)
      /\ Append(s, x) \in Seq(S) /\ Len(Append(s, x)) = Len(s) + 1
      /\ DOMAIN Append(s, x) = 1..(Len(s) + 1)
      /\ \A i \in 1..Len(s) : Append(s, x)[i] = s[i]
      /\ Append(s, x)[Len(s) + 1] = x
  OBVIOUS
<1>2. ToSet(Append(s, x)) = ToSet(s) \union {x}
  BY <1>1 DEF ToSet
<1>3. \A i \in 1..Len(s) : s[i] # x
  BY <1>1 DEF ToSet
<1>4. Distinct(Append(s, x))
  BY <1>1, <1>3 DEF Distinct
<1> QED BY <1>1, <1>2, <1>4

LEMMA DistinctTail ==
  ASSUME NEW S, NEW s \in Seq(S), s # <<>>, Distinct(s)
  PROVE  /\ Head(s) \in S /\ Head(s) \in ToSet(s)
         /\ Tail(s) \in Seq(S) /\ Distinct(Tail(s)) /\ ToSet(Tail(s)) = ToSet(s) \ {Head(s)}
<1>1. /\ Len(s) \in Nat \ {0} /\ DOMAIN s = 1..Len(s) /\ Head(s) = s[1] /\ Head(s) \in S
      /\ Tail(s) \in Seq(S) /\ Len(Tail(s)) = Len(s) - 1
  BY HeadTailProperties, EmptySeq
<1>2. DOMAIN Tail(s) = 1..(Len(s) - 1) /\ \A i \in 1..(Len(s) - 1) : Tail(s)[i] = s[i + 1]
  BY <1>1, HeadTailProperties
<1>3. Head(s) \in ToSet(s)
  BY <1>1 DEF ToSet
<1>4. Distinct(Tail(s))
  BY <1>1, <1>2 DEF Distinct
<1>5. \A i \in 1..(Len(s) - 1) : s[i + 1] \in ToSet(s) /\ s[i + 1] # Head(s)
  BY <1>1 DEF ToSet, Distinct
<1>6. ASSUME NEW x \in ToSet(s), x # Head(s) PROVE x \in ToSet(Tail(s))
  <2>1. PICK i \in 1..Len(s) : x = s[i]
    BY <1>1 DEF ToSet
  <2>2. i # 1 /\ i - 1 \in 1..(Len(s) - 1) /\ x = s[(i - 1) + 1]
    BY <1>1, <1>6, <2>1
  <2>3. x = Tail(s)[i - 1]
    BY <1>2, <2>2
  <2> QED BY <1>2, <2>2, <2>3 DEF ToSet
<1>7. ToSet(Tail(s)) \subseteq ToSet(s) \ {Head(s)}
  BY <1>2, <1>5 DEF ToSet
<1> QED BY <1>1, <1>3, <1>4, <1>6, <1>7

LEMMA DistinctConcat ==
  ASSUME NEW S, NEW s \in Seq(S), NEW t \in Seq(S), Distinct(s), Distinct(t),
         ToSet(s) \intersect ToSet(t) = {}
  PROVE  /\ s \o t \in Seq(S) /\ Distinct(s \o t) /\ ToSet(s \o t) = ToSet(s) \union ToSet(t)
<1>1. /\ Len(s) \in Nat /\ DOMAIN s = 1..Len(s) /\ Len(t) \in Nat /\ DOMAIN t = 1..Len(t)
      /\ s \o t \in Seq(S) /\ Len(s \o t) = Len(s) + Len(t) /\ DOMAIN (s \o t) = 1..(Len(s) + Len(t))
  BY ConcatProperties
<1>2. /\ \A i \in 1..Len(s) : (s \o t)[i] = s[i]
      /\ \A i \in 1..Len(t) : (s \o t)[Len(s) + i] = t[i]
  BY <1>1
<1>3. \A i \in 1..(Len(s) + Len(t)) : i \in 1..Len(s) \/ \E k \in 1..Len(t) : i = Len(s) + k
  <2> SUFFICES ASSUME NEW i \in 1..(Len(s) + Len(t)), i \notin 1..Len(s)
               PROVE  \E k \in 1..Len(t) : i = Len(s) + k
    OBVIOUS
  <2>1. i - Len(s) \in 1..Len(t) /\ i = Len(s) + (i - Len(s))
    BY <1>1
  <2> QED BY <2>1
<1>4. \A i \in 1..Len(s), k \in 1..Len(t) : s[i] # t[k]
  BY <1>1 DEF ToSet
<1>5. \A i \in 1..Len(s) : i \in 1..(Len(s) + Len(t))
  BY <1>1
<1>6. \A k \in 1..Len(t) : Len(s) + k \in 1..(Len(s) + Len(t))
  BY <1>1
<1>7. ToSet(s \o t) \subseteq ToSet(s) \union ToSet(t)
  BY <1>1, <1>2, <1>3, SMTT(20) DEF ToSet
<1>8. ToSet(s) \subseteq ToSet(s \o t) /\ ToSet(t) \subseteq ToSet(s \o t)
  BY <1>1, <1>2, <1>5, <1>6, ZenonT(60) DEF ToSet
<1>9. ASSUME NEW i \in 1..(Len(s) + Len(t)), NEW k \in 1..(Len(s) + Len(t)), (s \o t)[i] = (s \o t)[k]
      PROVE  i = k
  <2>1. CASE i \in 1..Len(s) /\ k \in 1..Len(s)
    <3>1. s[i] = s[k]
      BY <1>2, <1>9, <2>1
    <3> QED BY <2>1, <3>1 DEF Distinct
  <2>2. CASE i \in 1..Len(s) /\ k \notin 1..Len(s)
    <3>1. PICK m \in 1..Len(t) : k = Len(s) + m
      BY <1>3, <2>2
    <3>2. s[i] = t[m]
      BY <1>2, <1>9, <2>2, <3>1
    <3> QED BY <1>4, <2>2, <3>2
  <2>3. CASE i \notin 1..Len(s) /\ k \in 1..Len(s)
    <3>1. PICK m \in 1..Len(t) : i = Len(s) + m
      BY <1>3, <2>3
    <3>2. s[k] = t[m]
      BY <1>2, <1>9, <2>3, <3>1
    <3> QED BY <1>4, <2>3, <3>2
  <2>4. CASE i \notin 1..Len(s) /\ k \notin 1..Len(s)
    <3>1. PICK m \in 1..Len(t) : i = Len(s) + m
      BY <1>3, <2>4
    <3>2. PICK n \in 1..Len(t) : k = Len(s) + n
      BY <1>3, <2>4
    <3>3. t[m] = t[n]
      BY <1>2, <1>9, <3>1, <3>2
    <3>4. m = n
      BY <3>3 DEF Distinct
    <3> QED BY <3>1, <3>2, <3>4
  <2> QED BY <2>1, <2>2, <2>3, <2>4
<1>10. Distinct(s \o t)
  BY <1>1, <1>9 DEF Distinct
<1> QED BY <1>1, <1>7, <1>8, <1>10

LEMMA WorkableSteps ==
  ASSUME NEW steps, Workable(steps)
  PROVE  /\ Len(steps) \in Nat /\ DOMAIN steps = 1..Len(steps)
         /\ \A k \in 1..Len(steps) : /\ Len(steps[k].needs) \in Nat
                                     /\ DOMAIN steps[k].needs = 1..Len(steps[k].needs)
         /\ \A i, k \in 1..Len(steps) : steps[i].id = steps[k].id => i = k
<1>1. steps \in Seq(ToSet(steps))
  BY DEF Workable, IsSequence
<1>2. Len(steps) \in Nat /\ DOMAIN steps = 1..Len(steps)
  BY <1>1
<1>3. ASSUME NEW k \in 1..Len(steps)
      PROVE  Len(steps[k].needs) \in Nat /\ DOMAIN steps[k].needs = 1..Len(steps[k].needs)
  <2>1. steps[k] \in ToSet(steps)
    BY <1>2 DEF ToSet
  <2>2. steps[k].needs \in Seq(ToSet(steps[k].needs))
    BY <2>1 DEF Workable, IsSequence
  <2> QED BY <2>2
<1>4. \A i, k \in 1..Len(steps) : steps[i].id = steps[k].id => i = k
  BY <1>2 DEF Workable, Duplicate
<1> QED BY <1>2, <1>3, <1>4

(* What the rounds keep: ordered and ready are the steps whose needs are    *)
(* all ordered, each once, and incoming counts the needs that are not.      *)
IdsOf(steps, ordered) == {steps[ordered[m]].id : m \in 1..Len(ordered)}
Missing(step, ids) == {d \in 1..Len(step.needs) : step.needs[d] \notin ids}
Earlier(steps, ordered) ==
    \A m \in 1..Len(ordered) : \A d \in 1..Len(steps[ordered[m]].needs) :
       \E e \in 1..(m - 1) : steps[ordered[e]].id = steps[ordered[m]].needs[d]
KahnInv(steps, state) ==
    /\ state.ordered \in Seq(1..Len(steps)) /\ Distinct(state.ordered)
    /\ state.ready \in Seq(1..Len(steps)) /\ Distinct(state.ready)
    /\ ToSet(state.ordered) \intersect ToSet(state.ready) = {}
    /\ \A k \in 1..Len(steps) :
          /\ state.incoming[k] = Cardinality(Missing(steps[k], IdsOf(steps, state.ordered)))
          /\ state.incoming[k] = 0 <=> k \in ToSet(state.ordered) \union ToSet(state.ready)
    /\ Earlier(steps, state.ordered)

LEMMA MissingCount ==
  ASSUME NEW step, NEW ids, Len(step.needs) \in Nat
  PROVE  /\ IsFiniteSet(Missing(step, ids)) /\ Cardinality(Missing(step, ids)) \in Nat
         /\ Cardinality(Missing(step, ids)) = 0 <=> Missing(step, ids) = {}
<1>1. Missing(step, ids) \in SUBSET (1..Len(step.needs))
  BY DEF Missing
<1>2. IsFiniteSet(Missing(step, ids)) /\ Cardinality(Missing(step, ids)) \in Nat
  BY <1>1, PartOfInterval
<1> QED BY <1>2, FS_EmptySet

LEMMA KahnStart == ASSUME NEW steps, Workable(steps) PROVE KahnInv(steps, Start(steps))
<1> DEFINE N == Len(steps)
           free == {i \in DOMAIN steps : Incoming(steps)[i] = 0}
<1>1. N \in Nat /\ DOMAIN steps = 1..N
  BY WorkableSteps
<1>2. free \in SUBSET (1..N)
  BY <1>1
<1>3. /\ Start(steps).ordered = <<>> /\ Start(steps).ready = Listed(free)
      /\ \A k \in 1..N : Start(steps).incoming[k] = Len(steps[k].needs)
  BY <1>1 DEF Start, Incoming
<1>4. /\ Listed(free) \in Seq(1..N) /\ ToSet(Listed(free)) = free /\ Distinct(Listed(free))
  BY <1>1, <1>2, ListedAll DEF Distinct
<1>5. ToSet(<<>>) = {} /\ Distinct(<<>>) /\ <<>> \in Seq(1..N) /\ IdsOf(steps, <<>>) = {}
  BY DEF ToSet, Distinct, IdsOf
<1>6. ASSUME NEW k \in 1..N
      PROVE  /\ Len(steps[k].needs) = Cardinality(Missing(steps[k], {}))
             /\ Len(steps[k].needs) = 0 <=> k \in free
  <2>1. Len(steps[k].needs) \in Nat
    BY WorkableSteps
  <2>2. Missing(steps[k], {}) = 1..Len(steps[k].needs)
    BY DEF Missing
  <2>3. Cardinality(1..Len(steps[k].needs)) = Len(steps[k].needs)
    BY <2>1, IntervalCount
  <2>4. Incoming(steps)[k] = Len(steps[k].needs)
    BY <1>1 DEF Incoming
  <2> QED BY <1>1, <2>2, <2>3, <2>4
<1>7. Earlier(steps, <<>>)
  BY DEF Earlier
<1> HIDE DEF free
<1> QED BY <1>3, <1>4, <1>5, <1>6, <1>7 DEF KahnInv

(* A need that is no longer missing is an edge gone. *)
LEMMA OneLessMissing ==
  ASSUME NEW step, Len(step.needs) \in Nat, DOMAIN step.needs = 1..Len(step.needs),
         NEW ids, NEW id, id \notin ids
  PROVE  Cardinality(Missing(step, ids \union {id})) = Cardinality(Missing(step, ids)) - Edges(step, id)
<1> DEFINE edges == {k \in DOMAIN step.needs : step.needs[k] = id}
<1>1. IsFiniteSet(Missing(step, ids))
  BY MissingCount
<1>2. Missing(step, ids \union {id}) = Missing(step, ids) \ edges
  BY DEF Missing
<1>3. Missing(step, ids) \intersect edges = edges
  BY DEF Missing
<1> HIDE DEF edges
<1>4. Cardinality(Missing(step, ids) \ edges) = Cardinality(Missing(step, ids)) - Cardinality(edges)
  BY <1>1, <1>3, FS_Difference, ZenonT(60)
<1> QED BY <1>2, <1>4 DEF Edges, edges

LEMMA KahnRound ==
  ASSUME NEW steps, Workable(steps), NEW state, KahnInv(steps, state)
  PROVE  /\ KahnInv(steps, Round(steps, state))
         /\ state.ready = <<>> => Round(steps, state) = state
         /\ state.ready # <<>> => Len(Round(steps, state).ordered) = Len(state.ordered) + 1
<1>1. CASE state.ready = <<>>
  BY <1>1 DEF Round
<1>2. CASE state.ready # <<>>
  <2> DEFINE N == Len(steps)
             i == Head(state.ready)
             ids == IdsOf(steps, state.ordered)
             left == [k \in DOMAIN steps |-> state.incoming[k] - Edges(steps[k], steps[i].id)]
             freed == {k \in DOMAIN steps : state.incoming[k] > 0 /\ left[k] <= 0}
             ordered == Append(state.ordered, i)
             ready == Tail(state.ready) \o Listed(freed)
  <2>1. /\ N \in Nat /\ DOMAIN steps = 1..N
        /\ state.ordered \in Seq(1..N) /\ state.ready \in Seq(1..N) /\ state.ready # <<>>
        /\ Distinct(state.ordered) /\ Distinct(state.ready)
        /\ ToSet(state.ordered) \intersect ToSet(state.ready) = {}
    BY <1>2, WorkableSteps DEF KahnInv
  <2>2. Round(steps, state) = [incoming |-> left, ordered |-> ordered, ready |-> ready]
    BY <1>2 DEF Round
  <2>3. ASSUME NEW k \in 1..N
        PROVE  /\ state.incoming[k] = Cardinality(Missing(steps[k], ids)) /\ state.incoming[k] \in Nat
               /\ state.incoming[k] = 0 <=> k \in ToSet(state.ordered) \union ToSet(state.ready)
    <3>1. /\ state.incoming[k] = Cardinality(Missing(steps[k], ids))
          /\ state.incoming[k] = 0 <=> k \in ToSet(state.ordered) \union ToSet(state.ready)
      BY DEF KahnInv
    <3>2. Len(steps[k].needs) \in Nat
      BY WorkableSteps
    <3> QED BY <3>1, <3>2, MissingCount
  <2>4. /\ i \in 1..N /\ i \in ToSet(state.ready)
        /\ Tail(state.ready) \in Seq(1..N) /\ Distinct(Tail(state.ready))
        /\ ToSet(Tail(state.ready)) = ToSet(state.ready) \ {i}
    BY <2>1, DistinctTail
  <2>5. i \notin ToSet(state.ordered)
    BY <2>1, <2>4
  <2>6. ordered \in Seq(1..N) /\ Distinct(ordered) /\ ToSet(ordered) = ToSet(state.ordered) \union {i}
    BY <2>1, <2>4, <2>5, DistinctAppend
  <2>7. /\ Len(state.ordered) \in Nat /\ Len(ordered) = Len(state.ordered) + 1
        /\ DOMAIN state.ordered = 1..Len(state.ordered)
        /\ \A m \in 1..Len(state.ordered) : ordered[m] = state.ordered[m] /\ state.ordered[m] \in 1..N
        /\ ordered[Len(ordered)] = i
    BY <2>1, <2>4
  <2>8. steps[i].id \notin ids
    <3>1. \A m \in 1..Len(state.ordered) : state.ordered[m] # i
      BY <2>5, <2>7 DEF ToSet
    <3>2. \A m \in 1..Len(state.ordered) : steps[state.ordered[m]].id # steps[i].id
      BY <2>4, <2>7, <3>1, WorkableSteps
    <3> QED BY <3>2 DEF IdsOf
  <2>9. IdsOf(steps, ordered) = ids \union {steps[i].id}
    <3>1. ASSUME NEW x \in IdsOf(steps, ordered) PROVE x \in ids \union {steps[i].id}
      <4>1. PICK m \in 1..Len(ordered) : x = steps[ordered[m]].id
        BY DEF IdsOf
      <4>2. m \in 1..Len(state.ordered) \/ m = Len(ordered)
        BY <2>7
      <4> QED BY <2>7, <4>1, <4>2 DEF IdsOf
    <3>2. ASSUME NEW x \in ids PROVE x \in IdsOf(steps, ordered)
      <4>1. PICK m \in 1..Len(state.ordered) : x = steps[state.ordered[m]].id
        BY DEF IdsOf
      <4>2. m \in 1..Len(ordered) /\ ordered[m] = state.ordered[m]
        BY <2>7
      <4> QED BY <4>1, <4>2 DEF IdsOf
    <3>3. steps[i].id \in IdsOf(steps, ordered)
      <4>1. Len(ordered) \in 1..Len(ordered)
        BY <2>7
      <4> QED BY <2>7, <4>1 DEF IdsOf
    <3> QED BY <3>1, <3>2, <3>3
  <2>10. ASSUME NEW k \in 1..N
         PROVE  left[k] = Cardinality(Missing(steps[k], IdsOf(steps, ordered))) /\ left[k] \in Nat
    <3>1. Len(steps[k].needs) \in Nat /\ DOMAIN steps[k].needs = 1..Len(steps[k].needs)
      BY WorkableSteps
    <3>2. left[k] = state.incoming[k] - Edges(steps[k], steps[i].id)
      BY <2>1
    <3>3. Cardinality(Missing(steps[k], ids \union {steps[i].id}))
              = Cardinality(Missing(steps[k], ids)) - Edges(steps[k], steps[i].id)
      BY <2>8, <3>1, OneLessMissing
    <3>4. Cardinality(Missing(steps[k], IdsOf(steps, ordered))) \in Nat
      BY <3>1, MissingCount
    <3> QED BY <2>3, <2>9, <3>2, <3>3, <3>4
  <2>11. ASSUME NEW k \in 1..N, state.incoming[k] = 0
         PROVE  left[k] = 0 /\ Missing(steps[k], ids) = {}
    <3>1. Len(steps[k].needs) \in Nat
      BY WorkableSteps
    <3>2. Missing(steps[k], ids) = {}
      BY <2>3, <2>11, <3>1, MissingCount
    <3>3. Missing(steps[k], IdsOf(steps, ordered)) = {}
      BY <2>9, <3>2 DEF Missing
    <3>4. Cardinality(Missing(steps[k], IdsOf(steps, ordered))) = 0
      BY <3>3, FS_EmptySet
    <3> QED BY <2>10, <3>2, <3>4
  <2>12. freed \in SUBSET (1..N) /\ \A k \in 1..N : k \in freed <=> (state.incoming[k] # 0 /\ left[k] = 0)
    <3>1. freed \in SUBSET (1..N)
      BY <2>1
    <3>2. ASSUME NEW k \in 1..N PROVE k \in freed <=> (state.incoming[k] # 0 /\ left[k] = 0)
      <4>1. state.incoming[k] \in Nat /\ left[k] \in Nat
        BY <2>3, <2>10
      <4> HIDE DEF left
      <4> QED BY <2>1, <4>1
    <3> HIDE DEF freed, left
    <3> QED BY <3>1, <3>2
  <2> HIDE DEF freed, left
  <2>13. Listed(freed) \in Seq(1..N) /\ ToSet(Listed(freed)) = freed /\ Distinct(Listed(freed))
    BY <2>1, <2>12, ListedAll DEF Distinct
  <2>14. freed \intersect (ToSet(state.ordered) \union ToSet(state.ready)) = {}
    BY <2>3, <2>12
  <2>15. /\ ready \in Seq(1..N) /\ Distinct(ready)
         /\ ToSet(ready) = (ToSet(state.ready) \ {i}) \union freed
    <3>1. ToSet(Tail(state.ready)) \intersect ToSet(Listed(freed)) = {}
      BY <2>4, <2>13, <2>14
    <3> QED BY <2>4, <2>13, <3>1, DistinctConcat
  <2>16. ToSet(ordered) \intersect ToSet(ready) = {}
    BY <2>1, <2>4, <2>6, <2>14, <2>15
  <2>17. ASSUME NEW k \in 1..N PROVE left[k] = 0 <=> k \in ToSet(ordered) \union ToSet(ready)
    <3>1. ToSet(ordered) \union ToSet(ready) = ToSet(state.ordered) \union ToSet(state.ready) \union freed
      BY <2>4, <2>6, <2>15
    <3>2. CASE state.incoming[k] = 0
      BY <2>3, <2>11, <3>1, <3>2
    <3>3. CASE state.incoming[k] # 0
      BY <2>3, <2>12, <3>1, <3>3
    <3> QED BY <3>2, <3>3
  <2>18. Earlier(steps, ordered)
    <3> SUFFICES ASSUME NEW m \in 1..Len(ordered), NEW d \in 1..Len(steps[ordered[m]].needs)
                 PROVE  \E e \in 1..(m - 1) : steps[ordered[e]].id = steps[ordered[m]].needs[d]
      BY DEF Earlier
    <3>1. CASE m \in 1..Len(state.ordered)
      <4>1. ordered[m] = state.ordered[m]
        BY <2>7, <3>1
      <4>2. PICK e \in 1..(m - 1) : steps[state.ordered[e]].id = steps[state.ordered[m]].needs[d]
        BY <3>1, <4>1 DEF KahnInv, Earlier
      <4>3. e \in 1..Len(state.ordered)
        BY <2>7, <3>1
      <4> QED BY <2>7, <4>1, <4>2, <4>3
    <3>2. CASE m = Len(ordered)
      <4>1. ordered[m] = i /\ m - 1 = Len(state.ordered)
        BY <2>7, <3>2
      <4>2. state.incoming[i] = 0
        BY <2>3, <2>4
      <4>3. Missing(steps[i], ids) = {}
        BY <2>4, <2>11, <4>2
      <4>4. steps[i].needs[d] \in ids
        BY <4>1, <4>3 DEF Missing
      <4>5. PICK e \in 1..Len(state.ordered) : steps[i].needs[d] = steps[state.ordered[e]].id
        BY <4>4 DEF IdsOf
      <4> QED BY <2>7, <4>1, <4>5
    <3> QED BY <2>7, <3>1, <3>2, SMTT(20)
  <2>19. KahnInv(steps, [incoming |-> left, ordered |-> ordered, ready |-> ready])
    <3> HIDE DEF ordered, ready
    <3> QED BY <2>6, <2>10, <2>15, <2>16, <2>17, <2>18 DEF KahnInv
  <2> QED BY <1>2, <2>2, <2>7, <2>19
<1> QED BY <1>1, <1>2

(* After as many rounds as there are steps no step is ready. *)
Ordered(steps) == Rounds(steps)[Len(steps)].ordered

LEMMA KahnEnd ==
  ASSUME NEW steps, Workable(steps)
  PROVE  /\ Ordered(steps) \in Seq(1..Len(steps)) /\ Distinct(Ordered(steps))
         /\ Len(Ordered(steps)) = Len(steps) <=> \A k \in 1..Len(steps) : k \in ToSet(Ordered(steps))
         /\ Earlier(steps, Ordered(steps))
         /\ \A k \in 1..Len(steps) :
               Missing(steps[k], IdsOf(steps, Ordered(steps))) = {} => k \in ToSet(Ordered(steps))
<1> DEFINE N == Len(steps)
           S == {n \in Nat : n <= N =>
                   /\ KahnInv(steps, Rounds(steps)[n])
                   /\ Len(Rounds(steps)[n].ordered) = n \/ Rounds(steps)[n].ready = <<>>}
<1>1. N \in Nat
  BY WorkableSteps
<1>2. \A n \in 0..N : Rounds(steps)[n] = IF n = 0 THEN Start(steps)
                                         ELSE Round(steps, Rounds(steps)[n - 1])
  BY <1>1, RoundsUnfold
<1>3. 0 \in S
  <2>1. Rounds(steps)[0] = Start(steps)
    BY <1>1, <1>2
  <2>2. Len(Start(steps).ordered) = 0
    BY DEF Start
  <2> QED BY <2>1, <2>2, KahnStart
<1>4. ASSUME NEW n \in Nat, n \in S PROVE n + 1 \in S
  <2> SUFFICES ASSUME n + 1 <= N
               PROVE  /\ KahnInv(steps, Rounds(steps)[n + 1])
                      /\ \/ Len(Rounds(steps)[n + 1].ordered) = n + 1
                         \/ Rounds(steps)[n + 1].ready = <<>>
    OBVIOUS
  <2> DEFINE state == Rounds(steps)[n]
  <2>1. Rounds(steps)[n + 1] = Round(steps, state)
    <3>1. n + 1 \in 0..N /\ n + 1 # 0 /\ (n + 1) - 1 = n
      BY <1>1
    <3> QED BY <1>2, <3>1
  <2>2. KahnInv(steps, state) /\ (Len(state.ordered) = n \/ state.ready = <<>>)
    BY <1>1, <1>4
  <2> HIDE DEF state
  <2>3. /\ KahnInv(steps, Round(steps, state))
        /\ state.ready = <<>> => Round(steps, state) = state
        /\ state.ready # <<>> => Len(Round(steps, state).ordered) = Len(state.ordered) + 1
    BY <2>2, KahnRound
  <2> QED BY <2>1, <2>2, <2>3
<1>5. Nat \subseteq S
  <2> HIDE DEF S
  <2> QED BY <1>3, <1>4, AllNumbers
<1> DEFINE state == Rounds(steps)[N]
<1>6. KahnInv(steps, state) /\ (Len(state.ordered) = N \/ state.ready = <<>>)
  BY <1>1, <1>5
<1>7. state.ordered = Ordered(steps)
  BY DEF Ordered
<1> HIDE DEF state, S
<1>8. /\ state.ordered \in Seq(1..N) /\ Distinct(state.ordered)
      /\ state.ready \in Seq(1..N) /\ ToSet(state.ordered) \intersect ToSet(state.ready) = {}
  BY <1>6 DEF KahnInv
<1>9. Len(state.ordered) = N <=> \A k \in 1..N : k \in ToSet(state.ordered)
  <2>1. /\ Len(state.ordered) \in Nat /\ DOMAIN state.ordered = 1..Len(state.ordered)
        /\ state.ordered \in [1..Len(state.ordered) -> 1..N]
    BY <1>1, <1>8
  <2>2. IsInjective(state.ordered)
    BY <1>8, <2>1 DEF IsInjective, Distinct
  <2>3. IsFiniteSet(1..N) /\ Cardinality(1..N) = N
    BY <1>1, IntervalCount
  <2>4. Len(state.ordered) = N <=> \A k \in 1..N : \E i \in 1..Len(state.ordered) : state.ordered[i] = k
    <3> DEFINE m == Len(state.ordered)
               f == state.ordered
    <3>1. m \in Nat /\ f \in [1..m -> 1..N] /\ IsInjective(f)
      BY <2>1, <2>2
    <3> HIDE DEF m, f, N
    <3> DEFINE set == 1..N
    <3>2. IsFiniteSet(set) /\ Cardinality(set) = N /\ f \in [1..m -> set]
      BY <2>3, <3>1
    <3>3. m = N <=> \A k \in set : \E i \in 1..m : f[i] = k
      <4> HIDE DEF set
      <4>1. m = Cardinality(set) <=> \A k \in set : \E i \in 1..m : f[i] = k
        <5>1. ASSUME m = Cardinality(set) PROVE \A k \in set : \E i \in 1..m : f[i] = k
          BY <3>1, <3>2, <5>1, Onto
        <5>2. ASSUME \A k \in set : \E i \in 1..m : f[i] = k PROVE m = Cardinality(set)
          BY <3>1, <3>2, <5>2, Onto, ZenonT(60)
        <5> QED BY <5>1, <5>2
      <4>2. Cardinality(set) = N
        BY <3>2
      <4> QED BY <4>1, <4>2
    <3> QED BY <3>3 DEF m, f
  <2> QED BY <2>1, <2>4 DEF ToSet
<1>10. \A k \in 1..N : k \notin ToSet(state.ready)
  <2>1. CASE Len(state.ordered) = N
    BY <1>8, <1>9, <2>1
  <2>2. CASE state.ready = <<>>
    BY <2>2 DEF ToSet
  <2> QED BY <1>6, <2>1, <2>2
<1>11. ASSUME NEW k \in 1..N, Missing(steps[k], IdsOf(steps, state.ordered)) = {}
       PROVE  k \in ToSet(state.ordered)
  <2>1. state.incoming[k] = 0
    BY <1>6, <1>11, FS_EmptySet DEF KahnInv
  <2>2. k \in ToSet(state.ordered) \union ToSet(state.ready)
    BY <1>6, <2>1 DEF KahnInv
  <2> QED BY <1>10, <2>2
<1>12. Earlier(steps, state.ordered)
  BY <1>6 DEF KahnInv
<1> QED BY <1>7, <1>8, <1>9, <1>11, <1>12

LEMMA TopoSteps ==
  ASSUME NEW steps, Workable(steps)
  PROVE  /\ Len(Ordered(steps)) \in Nat
         /\ Len(Topo(steps)) = Len(Ordered(steps)) /\ DOMAIN Topo(steps) = 1..Len(Ordered(steps))
         /\ \A n \in 1..Len(Ordered(steps)) : /\ Ordered(steps)[n] \in 1..Len(steps)
                                              /\ Topo(steps)[n] = steps[Ordered(steps)[n]]
         /\ Topo(steps) \in Seq(ToSet(steps))
<1>1. Ordered(steps) \in Seq(1..Len(steps))
  BY KahnEnd
<1>2. Len(Ordered(steps)) \in Nat /\ \A n \in 1..Len(Ordered(steps)) : Ordered(steps)[n] \in 1..Len(steps)
  BY <1>1
<1>3. Topo(steps) = [n \in 1..Len(Ordered(steps)) |-> steps[Ordered(steps)[n]]]
  BY DEF Topo, Ordered
<1>4. \A n \in 1..Len(Ordered(steps)) : steps[Ordered(steps)[n]] \in ToSet(steps)
  BY <1>2, WorkableSteps DEF ToSet
<1>5. Topo(steps) \in [1..Len(Ordered(steps)) -> ToSet(steps)]
  BY <1>3, <1>4
<1> QED BY <1>2, <1>3, <1>5

(* What an order of the steps is. *)
LEMMA OrderOf ==
  ASSUME NEW steps, Workable(steps), NEW t \in Orders(steps)
  PROVE  \E f \in [1..Len(steps) -> 1..Len(steps)] :
            /\ IsInjective(f) /\ DOMAIN t = 1..Len(steps)
            /\ \A i \in 1..Len(steps) : t[i] = steps[f[i]]
            /\ \A k \in 1..Len(steps) : \E i \in 1..Len(steps) : f[i] = k
<1> DEFINE N == Len(steps)
<1>1. N \in Nat /\ DOMAIN steps = 1..N
  BY WorkableSteps
<1>2. PICK f \in [1..N -> 1..N] : IsInjective(f) /\ t = [i \in 1..N |-> steps[f[i]]]
  BY <1>1 DEF Orders
<1>3. IsFiniteSet(1..N) /\ Cardinality(1..N) = N
  BY <1>1, IntervalCount
<1>4. \A k \in 1..N : \E i \in 1..N : f[i] = k
  <2> HIDE DEF N
  <2> DEFINE set == 1..N
  <2>1. IsFiniteSet(set) /\ Cardinality(set) = N /\ f \in [1..N -> set] /\ IsInjective(f)
    BY <1>2, <1>3
  <2>2. \A k \in set : \E i \in 1..N : f[i] = k
    <3> HIDE DEF set
    <3> QED BY <1>1, <2>1, Onto, SMTT(20)
  <2> QED BY <2>2
<1> QED BY <1>2, <1>4

(* What Kahn's algorithm orders comes after all it needs (_topo).           *)
THEOREM TopoRespects == ASSUME NEW steps, Workable(steps) PROVE Respects(Topo(steps))
<1> DEFINE o == Ordered(steps)
<1>1. /\ Len(o) \in Nat /\ DOMAIN Topo(steps) = 1..Len(o)
      /\ \A n \in 1..Len(o) : o[n] \in 1..Len(steps) /\ Topo(steps)[n] = steps[o[n]]
  BY TopoSteps
<1>2. Earlier(steps, o)
  BY KahnEnd
<1> HIDE DEF o
<1>3. ASSUME NEW i \in 1..Len(o), NEW need \in ToSet(Topo(steps)[i].needs)
      PROVE  \E k \in 1..(i - 1) : Topo(steps)[k].id = need
  <2>1. PICK d \in 1..Len(steps[o[i]].needs) : need = steps[o[i]].needs[d]
    BY <1>1, <1>3, WorkableSteps DEF ToSet
  <2>2. PICK e \in 1..(i - 1) : steps[o[e]].id = need
    BY <1>2, <2>1 DEF Earlier
  <2>3. e \in 1..Len(o)
    BY <1>1
  <2> QED BY <1>1, <2>2, <2>3
<1> QED BY <1>1, <1>3 DEF Respects

(* If it orders as many steps as there are, it orders each of them (_topo). *)
THEOREM TopoOrders ==
  ASSUME NEW steps, Workable(steps), Len(Topo(steps)) = Len(steps)
  PROVE  Topo(steps) \in Orders(steps)
<1> DEFINE o == Ordered(steps)
<1>1. o \in Seq(1..Len(steps)) /\ Distinct(o) /\ Len(o) = Len(steps)
  BY KahnEnd, TopoSteps
<1>2. DOMAIN steps = 1..Len(steps) /\ Len(steps) \in Nat
  BY WorkableSteps
<1>3. Topo(steps) = [n \in DOMAIN steps |-> steps[o[n]]]
  BY <1>1, <1>2 DEF Topo, Ordered
<1> HIDE DEF o
<1>4. o \in [DOMAIN steps -> DOMAIN steps] /\ DOMAIN o = 1..Len(o)
  BY <1>1, <1>2
<1>5. IsInjective(o)
  BY <1>1, <1>4 DEF IsInjective, Distinct
<1> QED BY <1>3, <1>4, <1>5 DEF Orders

(* If there is an order that respects the needs it orders all steps: the    *)
(* "cycle" it raises for is one (_topo).                                    *)
THEOREM TopoComplete ==
  ASSUME NEW steps, Workable(steps), NEW t \in Orders(steps), Respects(t)
  PROVE  Len(Topo(steps)) = Len(steps)
<1> DEFINE N == Len(steps)
           o == Ordered(steps)
<1>1. PICK f \in [1..N -> 1..N] :
           /\ DOMAIN t = 1..N /\ \A i \in 1..N : t[i] = steps[f[i]]
           /\ \A k \in 1..N : \E i \in 1..N : f[i] = k
  BY OrderOf
<1>2. /\ N \in Nat /\ DOMAIN steps = 1..N
      /\ \A k \in 1..N : Len(steps[k].needs) \in Nat /\ DOMAIN steps[k].needs = 1..Len(steps[k].needs)
  BY WorkableSteps
<1>3. /\ o \in Seq(1..N) /\ Len(o) = N <=> \A k \in 1..N : k \in ToSet(o)
      /\ \A k \in 1..N : Missing(steps[k], IdsOf(steps, o)) = {} => k \in ToSet(o)
  BY KahnEnd
<1> HIDE DEF o
<1> DEFINE P == {p \in 1..N : f[p] \notin ToSet(o)}
<1>4. P = {}
  <2> SUFFICES ASSUME P # {} PROVE FALSE
    OBVIOUS
  <2>1. PICK p \in P : \A q \in P : p <= q
    <3>1. P \in SUBSET Nat
      OBVIOUS
    <3> HIDE DEF P
    <3> QED BY <3>1, Least
  <2>2. p \in 1..N /\ f[p] \in 1..N /\ f[p] \notin ToSet(o)
    BY <1>1
  <2>3. ASSUME NEW d \in 1..Len(steps[f[p]].needs) PROVE steps[f[p]].needs[d] \in IdsOf(steps, o)
    <3>1. steps[f[p]].needs[d] \in ToSet(t[p].needs)
      BY <1>1, <1>2, <2>2, ZenonT(60) DEF ToSet
    <3>2. PICK k \in 1..(p - 1) : t[k].id = steps[f[p]].needs[d]
      <4>1. p \in DOMAIN t
        BY <1>1, <2>2
      <4> QED BY <3>1, <4>1 DEF Respects
    <3>3. k \in 1..N /\ ~(p <= k)
      <4> HIDE DEF N
      <4> QED BY <1>2, <2>2
    <3>4. f[k] \in ToSet(o)
      BY <2>1, <3>3
    <3>5. PICK m \in 1..Len(o) : f[k] = o[m]
      <4>1. DOMAIN o = 1..Len(o)
        BY <1>3
      <4> QED BY <3>4, <4>1 DEF ToSet
    <3>6. t[k] = steps[f[k]]
      BY <1>1, <3>3
    <3>7. steps[o[m]].id = steps[f[p]].needs[d]
      BY <3>2, <3>5, <3>6
    <3> QED BY <3>7 DEF IdsOf
  <2>4. Missing(steps[f[p]], IdsOf(steps, o)) = {}
    BY <2>3 DEF Missing
  <2> QED BY <1>3, <2>2, <2>4
<1>5. \A k \in 1..N : k \in ToSet(o)
  BY <1>1, <1>4
<1> QED BY <1>3, <1>5, TopoSteps DEF o

(* A need that is no step's id cannot be respected. *)
LEMMA UnknownNeedUnmet ==
  ASSUME NEW steps, Workable(steps), UnknownNeed(steps), NEW t \in Orders(steps)
  PROVE  ~Respects(t)
<1> DEFINE N == Len(steps)
<1>1. PICK f \in [1..N -> 1..N] :
           /\ DOMAIN t = 1..N /\ \A i \in 1..N : t[i] = steps[f[i]]
           /\ \A k \in 1..N : \E i \in 1..N : f[i] = k
  BY OrderOf
<1>2. N \in Nat /\ DOMAIN steps = 1..N
  BY WorkableSteps
<1>3. PICK j \in 1..N : ToSet(steps[j].needs) \ {s.id : s \in ToSet(steps)} # {}
  BY <1>2 DEF UnknownNeed, ToSet
<1>4. PICK need \in ToSet(steps[j].needs) : \A m \in 1..N : steps[m].id # need
  BY <1>2, <1>3 DEF ToSet
<1>5. PICK i \in 1..N : f[i] = j
  BY <1>1
<1> SUFFICES ASSUME Respects(t) PROVE FALSE
  OBVIOUS
<1>6. PICK k \in 1..(i - 1) : t[k].id = need
  BY <1>1, <1>4, <1>5 DEF Respects
<1>7. k \in 1..N /\ f[k] \in 1..N
  <2> HIDE DEF N
  <2> QED BY <1>2
<1> QED BY <1>1, <1>4, <1>6, <1>7

-----------------------------------------------------------------------------
(* resolve *)

LEMMA ChecksPairs ==
  ASSUME NEW profile, NEW agent, NEW account, NEW h, NEW u
  PROVE  /\ DOMAIN Checks(profile, agent, account, h, u) = 1..16
         /\ \A i \in 1..16 : Checks(profile, agent, account, h, u)[i][2]
                                \in {"denied", "unknown", "unreachable", "broken"}
  BY DEF Checks

LEMMA ResolveOk ==
  ASSUME NEW profile, NEW agent, NEW account, NEW h, NEW u
  PROVE  /\ Resolve(profile, agent, account, h, u)
               \in {"ok", "denied", "unknown", "unreachable", "broken"}
         /\ Resolve(profile, agent, account, h, u) = "ok"
               => \A i \in 1..16 : Checks(profile, agent, account, h, u)[i][1]
         /\ Resolve(profile, agent, account, h, u) # "ok"
               => \E i \in 1..16 : /\ ~Checks(profile, agent, account, h, u)[i][1]
                                   /\ Resolve(profile, agent, account, h, u)
                                        = Checks(profile, agent, account, h, u)[i][2]
<1> DEFINE checks == Checks(profile, agent, account, h, u)
           F == {i \in 1..16 : ~checks[i][1]}
           first == CHOOSE i \in DOMAIN checks : ~checks[i][1] /\ \A k \in 1..(i - 1) : ~~checks[k][1]
<1>1. DOMAIN checks = 1..16 /\ \A i \in 1..16 : checks[i][2] \in {"denied", "unknown", "unreachable", "broken"}
  BY ChecksPairs
<1>2. Resolve(profile, agent, account, h, u) =
        IF \A i \in DOMAIN checks : ~~checks[i][1] THEN "ok" ELSE checks[first][2]
  BY DEF Resolve
<1> HIDE DEF checks, first
<1>3. CASE F = {}
  <2>1. \A i \in 1..16 : checks[i][1]
    BY <1>3
  <2>2. Resolve(profile, agent, account, h, u) = "ok"
    BY <1>1, <1>2, <2>1
  <2> QED BY <2>1, <2>2 DEF checks
<1>4. CASE F # {}
  <2>1. PICK i \in F : \A k \in F : i <= k
    <3>1. F \in SUBSET Nat
      OBVIOUS
    <3> HIDE DEF F
    <3> QED BY <1>4, <3>1, Least
  <2>2. \A k \in 1..(i - 1) : checks[k][1]
    BY <2>1
  <2>3. \E n \in DOMAIN checks : ~checks[n][1] /\ \A k \in 1..(n - 1) : ~~checks[k][1]
    BY <1>1, <2>1, <2>2
  <2>4. first \in 1..16 /\ ~checks[first][1]
    BY <1>1, <2>3 DEF first
  <2>5. Resolve(profile, agent, account, h, u) = checks[first][2]
    BY <1>1, <1>2, <2>1
  <2>6. Resolve(profile, agent, account, h, u) \in {"denied", "unknown", "unreachable", "broken"}
    BY <1>1, <2>4, <2>5
  <2> QED BY <2>4, <2>5, <2>6 DEF checks
<1> QED BY <1>3, <1>4

(* What resolve grants is lawful, by the rules as the documents state them, *)
(* for any harness, user, overrides and account (resolve).                  *)
THEOREM ResolveIsLawful ==
  ASSUME NEW profile, NEW agent, NEW account, NEW h, NEW u,
         h.state \in {"file", "missing", "unreachable", "broken"},
         u.state \in {"file", "unreachable", "broken"},
         Resolve(profile, agent, account, h, u) = "ok"
  PROVE  Lawful(agent, account, h, u)
<1> DEFINE checks == Checks(profile, agent, account, h, u)
           id == IF agent # None THEN agent ELSE h.default
<1>1. \A i \in 1..16 : checks[i][1]
  BY ResolveOk
<1>2. /\ checks[1][1] /\ checks[2][1] /\ checks[3][1] /\ checks[4][1] /\ checks[5][1] /\ checks[6][1]
      /\ checks[8][1] /\ checks[10][1] /\ checks[12][1] /\ checks[13][1] /\ checks[15][1]
  BY <1>1
<1>3. u.state # "unreachable" /\ u.state # "broken"
  BY <1>2 DEF Checks
<1>4. h.state # "unreachable" /\ h.state # "broken" /\ h.state # "missing"
  BY <1>2 DEF Checks
<1>5. SandboxAllows(h) /\ ~(h.classification = "customer" /\ h.profile = "personal")
  BY <1>2 DEF Checks
<1>6. id \notin h.deny /\ (h.profile \in DOMAIN u.seats => id \in u.seats[h.profile]) /\ id \in h.commands
  BY <1>2 DEF Checks
<1>7. account = None \/ AccountAllowed(account, id, h, u)
  BY <1>2 DEF Checks
<1> HIDE DEF checks
<1>8. CustomerRule(account, h, u)
  BY <1>5, <1>7 DEF CustomerRule, SandboxAllows, AccountAllowed, Personal
<1>9. SeatRule(id, account, h, u)
  BY <1>6, <1>7 DEF SeatRule, AccountAllowed, SecretPresent
<1> QED BY <1>3, <1>4, <1>8, <1>9 DEF Lawful

-----------------------------------------------------------------------------
(* The runner *)

(* LawfulReading, of any readings and order. *)
ReadIn(rs, steps, purpose, i, agent) ==
    \E r \in rs :
       /\ r.purpose = purpose /\ r.step = i /\ r.agent = agent
       /\ Lawful(agent, steps[i].account, HarnessOf[r.harness], User)
       /\ purpose = "plan" => LET allow == HarnessOf[r.harness].functions
                              IN allow # {} => ToSet(steps[i].functions) \subseteq allow

PlannedIn(rs, steps, i) ==
    /\ ReadIn(rs, steps, "plan", i, steps[i].agent)
    /\ \A a \in ToSet(steps[i].subagents) : ReadIn(rs, steps, "sub", i, a)

OrderInv ==
    /\ at = "load" => order = <<>> /\ next = 1
    /\ order # <<>> => /\ Len(order) = Len(plan.steps)
                       /\ \A i, k \in 1..Len(order) : order[i].id = order[k].id => i = k
    /\ NeedsFirst

PlanInv ==
    /\ at \in {"load", "plan", "subs", "refused"} => sent = 0
    /\ at \in {"plan", "subs"} => \A i \in 1..(next - 1) : PlannedIn(readings, order, i)
    /\ at = "subs" => /\ ReadIn(readings, order, "plan", next, order[next].agent)
                      /\ \A a \in ToSet(order[next].subagents) :
                            a \in ToSet(subs) \/ ReadIn(readings, order, "sub", next, a)
    /\ at \in {"dispatch", "send"} \/ sent > 0 => \A i \in 1..Len(order) : PlannedIn(readings, order, i)
    /\ \A i \in 1..sent : ReadIn(readings, order, "dispatch", i, order[i].agent)
    /\ at = "send" => ReadIn(readings, order, "dispatch", next, order[next].agent)

AuditInv == (at # "raised" => audited = {} /\ silent = "none") /\ ShortRunExplained

Inv == plan \in Plans /\ TypeOK /\ OrderInv /\ PlanInv /\ AuditInv

LEMMA PlansWorkable ==
  ASSUME NEW p \in Plans
  PROVE  /\ p.kind \in {"workflow", "pipeline"} /\ IsSequence(p.steps)
         /\ ~Duplicate(p.steps) => Workable(p.steps)
         /\ \A s \in ToSet(p.steps) : IsSequence(s.subagents)
  BY StepsAssumption DEF Workable

LEMMA Readings ==
  ASSUME NEW rs, NEW more, rs \subseteq more, NEW steps
  PROVE  /\ \A purpose, i, agent : ReadIn(rs, steps, purpose, i, agent) => ReadIn(more, steps, purpose, i, agent)
         /\ \A i : PlannedIn(rs, steps, i) => PlannedIn(more, steps, i)
<1>1. \A purpose, i, agent : ReadIn(rs, steps, purpose, i, agent) => ReadIn(more, steps, purpose, i, agent)
  BY DEF ReadIn
<1> QED BY <1>1 DEF PlannedIn

(* A reading that resolves is a lawful one. *)
LEMMA ReadingLawful ==
  ASSUME NEW rs, NEW steps, NEW purpose, NEW i, NEW agent, NEW name \in Editable,
         Resolve(None, agent, steps[i].account, HarnessOf[name], User) = "ok",
         purpose = "plan" => \A f \in ToSet(steps[i].functions) : FunctionAllowed(f, HarnessOf[name])
  PROVE  ReadIn(rs \union {[purpose |-> purpose, step |-> i, agent |-> agent, harness |-> name]},
                steps, purpose, i, agent)
<1>1. Lawful(agent, steps[i].account, HarnessOf[name], User)
  BY ResolveIsLawful, StepsAssumption
<1>2. purpose = "plan" => LET allow == HarnessOf[name].functions
                          IN allow # {} => ToSet(steps[i].functions) \subseteq allow
  <2> SUFFICES ASSUME purpose = "plan", HarnessOf[name].functions # {},
                      NEW f \in ToSet(steps[i].functions)
               PROVE  f \in HarnessOf[name].functions
    OBVIOUS
  <2>1. FunctionAllowed(f, HarnessOf[name])
    OBVIOUS
  <2> QED BY <2>1 DEF FunctionAllowed
<1> DEFINE r == [purpose |-> purpose, step |-> i, agent |-> agent, harness |-> name]
<1>3. r \in rs \union {r} /\ r.purpose = purpose /\ r.step = i /\ r.agent = agent /\ r.harness = name
  OBVIOUS
<1> QED BY <1>1, <1>2, <1>3 DEF ReadIn

LEMMA SubagentsLeft ==
  ASSUME NEW s, IsSequence(s), s # <<>>
  PROVE  /\ Len(s) \in Nat \ {0} /\ IsSequence(Tail(s)) /\ Head(s) \in ToSet(s)
         /\ Tail(s) = <<>> <=> Len(s) = 1
         /\ \A a \in ToSet(s) : a = Head(s) \/ a \in ToSet(Tail(s))
<1>1. s \in Seq(ToSet(s))
  BY DEF IsSequence
<1>2. /\ Len(s) \in Nat \ {0} /\ DOMAIN s = 1..Len(s) /\ Head(s) = s[1]
      /\ Tail(s) \in Seq(ToSet(s)) /\ Len(Tail(s)) = Len(s) - 1
  BY <1>1, HeadTailProperties, EmptySeq
<1>3. DOMAIN Tail(s) = 1..(Len(s) - 1) /\ \A i \in 1..(Len(s) - 1) : Tail(s)[i] = s[i + 1]
  BY <1>1, <1>2, HeadTailProperties
<1>4. IsSequence(Tail(s))
  <2> DEFINE r == Tail(s)
  <2>1. r \in Seq(ToSet(s)) /\ Len(r) \in Nat /\ DOMAIN r = 1..Len(r)
    BY <1>2, <1>3
  <2> HIDE DEF r
  <2>2. \A i \in 1..Len(r) : r[i] \in ToSet(r)
    BY <2>1 DEF ToSet
  <2>3. r \in Seq(ToSet(r))
    BY <2>1, <2>2
  <2> QED BY <2>3 DEF IsSequence, r
<1>5. ASSUME NEW a \in ToSet(s), a # Head(s) PROVE a \in ToSet(Tail(s))
  <2>1. PICK i \in 1..Len(s) : a = s[i]
    BY <1>2 DEF ToSet
  <2>2. i # 1 /\ i - 1 \in 1..(Len(s) - 1) /\ a = s[(i - 1) + 1]
    BY <1>2, <1>5, <2>1
  <2>3. a = Tail(s)[i - 1]
    BY <1>3, <2>2
  <2> QED BY <1>3, <2>2, <2>3 DEF ToSet
<1>6. Head(s) \in ToSet(s)
  BY <1>2 DEF ToSet
<1>7. Tail(s) = <<>> <=> Len(s) = 1
  BY <1>2, EmptySeq
<1> QED BY <1>2, <1>4, <1>5, <1>6, <1>7

Running == {"plan", "subs", "dispatch", "send"}

LEMMA AtWork ==
  ASSUME Inv, at \in Running
  PROVE  /\ Len(order) \in Nat /\ order # <<>> /\ next \in 1..Len(order)
         /\ DOMAIN order = 1..Len(order) /\ order[next] \in ToSet(plan.steps)
         /\ IsSequence(order[next].subagents) /\ harness \in Editable /\ audited = {} /\ silent = "none"
         /\ \A i \in 1..Len(order) : order[i].id = order[next].id => i = next
         /\ sent \in 0..(next - 1)
<1>1. /\ order \in Seq(ToSet(plan.steps)) /\ next \in 1..Len(order) /\ harness \in Editable
      /\ sent \in 0..Len(order) /\ (at \in {"dispatch", "send"} => sent = next - 1)
  BY DEF Inv, TypeOK, Running
<1>2. Len(order) \in Nat /\ DOMAIN order = 1..Len(order) /\ order[next] \in ToSet(plan.steps)
  BY <1>1
<1>3. order # <<>>
  BY <1>1, <1>2
<1>4. IsSequence(order[next].subagents)
  BY <1>2, PlansWorkable DEF Inv
<1>5. audited = {} /\ silent = "none" /\ (at \in {"plan", "subs"} => sent = 0)
  BY DEF Inv, AuditInv, PlanInv, Running
<1>6. \A i \in 1..Len(order) : order[i].id = order[next].id => i = next
  BY <1>1, <1>3 DEF Inv, OrderInv
<1>7. sent \in 0..(next - 1)
  BY <1>1, <1>2, <1>5 DEF Running
<1> QED BY <1>1, <1>2, <1>3, <1>4, <1>5, <1>6, <1>7

LEMMA OrderKept ==
  ASSUME Inv, UNCHANGED <<plan, order>>, at' \notin {"load", "refused"}
  PROVE  (plan \in Plans /\ OrderInv)'
  BY DEF Inv, OrderInv, NeedsFirst

(* The run stops at a step: what it raises is audited under the step's id,  *)
(* or it is the store's, the harness's or the user's configuration.        *)
LEMMA StopsShort ==
  ASSUME Inv, at \in Running, at' = "raised",
         UNCHANGED <<plan, harness, edits, torn, order, next, subs, sent>>, readings \subseteq readings',
         silent' \in {"none", "log", "text"},
         \/ audited' = {order[next].id}
         \/ audited' = {} /\ (torn \/ User.state # "file" \/ silent' # "none")
         \/ /\ audited' = {}
            /\ \E r \in readings' : r.step = next /\ HarnessOf[r.harness].state \in {"unreachable", "broken"}
  PROVE  Inv'
<1>1. /\ Len(order) \in Nat /\ order # <<>> /\ next \in 1..Len(order)
      /\ order[next] \in ToSet(plan.steps) /\ sent \in 0..(next - 1)
      /\ \A i \in 1..Len(order) : order[i].id = order[next].id => i = next
  BY AtWork
<1>2. (plan \in Plans /\ OrderInv)'
  BY OrderKept
<1>3. TypeOK'
  <2>1. audited' \subseteq {s.id : s \in ToSet(plan.steps)}
    BY <1>1
  <2> QED BY <2>1 DEF Inv, TypeOK, Ended
<1>4. PlanInv'
  BY Readings DEF Inv, PlanInv
<1>5. AuditInv'
  <2>1. \A i \in 1..sent : order[i].id # order[next].id
    BY <1>1
  <2>2. audited' = {order[next].id} => \A i \in 1..sent : order[i].id \notin audited'
    BY <2>1
  <2> QED BY <2>2 DEF AuditInv, ShortRunExplained
<1> QED BY <1>2, <1>3, <1>4, <1>5 DEF Inv

LEMMA WhatIsRaised ==
  ASSUME Inv, at \in Running, NEW agent, Outcome(agent) \in {"unreachable", "broken"}
  PROVE  User.state # "file" \/ HarnessOf[harness].state \in {"unreachable", "broken"}
<1> DEFINE checks == Checks(None, agent, order[next].account, HarnessOf[harness], User)
<1>1. PICK i \in 1..16 : ~checks[i][1] /\ Outcome(agent) = checks[i][2]
  BY ResolveOk DEF Outcome
<1>2. i \in 1..4
  BY <1>1 DEF Checks
<1>3. CASE i = 1
  BY <1>1, <1>3 DEF Checks
<1>4. CASE i = 2
  BY <1>1, <1>4 DEF Checks
<1>5. CASE i = 3
  BY <1>1, <1>5 DEF Checks
<1>6. CASE i = 4
  BY <1>1, <1>6 DEF Checks
<1> QED BY <1>2, <1>3, <1>4, <1>5, <1>6

(* A step that is not granted. *)
LEMMA NotGranted ==
  ASSUME Inv, at \in Running, NEW purpose, NEW agent, Reads(purpose, agent),
         Outcome(agent) \in {"unreachable", "broken"}
  PROVE  \/ User.state # "file"
         \/ \E r \in readings' : r.step = next /\ HarnessOf[r.harness].state \in {"unreachable", "broken"}
<1>1. User.state # "file" \/ HarnessOf[harness].state \in {"unreachable", "broken"}
  BY WhatIsRaised
<1> DEFINE r == [purpose |-> purpose, step |-> next, agent |-> agent, harness |-> harness]
<1>2. r \in readings' /\ r.step = next /\ r.harness = harness
  BY DEF Reads
<1> QED BY <1>1, <1>2

LEMMA Loaded ==
  ASSUME NEW p \in Plans, ~Duplicate(p.steps),
         p.kind = "workflow" => ~WorkflowRefused(p.steps),
         NEW o, o = IF p.kind = "workflow" THEN Topo(p.steps) ELSE p.steps
  PROVE  /\ o \in Seq(ToSet(p.steps)) /\ Len(o) = Len(p.steps) /\ Len(o) \in Nat
         /\ p.steps # <<>> => 1 \in 1..Len(o)
         /\ p.steps = <<>> => o = <<>>
         /\ \A i, k \in 1..Len(o) : o[i].id = o[k].id => i = k
         /\ p.kind = "workflow" => o \in Orders(p.steps) /\ Respects(o)
<1> DEFINE steps == p.steps
<1>1. Workable(steps) /\ IsSequence(steps)
  BY PlansWorkable
<1>2. /\ Len(steps) \in Nat /\ steps \in Seq(ToSet(steps))
      /\ \A i, k \in 1..Len(steps) : steps[i].id = steps[k].id => i = k
  BY <1>1, WorkableSteps DEF IsSequence
<1>3. CASE p.kind = "workflow"
  <2> DEFINE f == Ordered(steps)
  <2>1. Len(Topo(steps)) = Len(steps)
    BY <1>3 DEF WorkflowRefused
  <2>2. /\ Len(f) = Len(steps) /\ Topo(steps) \in Seq(ToSet(steps))
        /\ \A n \in 1..Len(f) : f[n] \in 1..Len(steps) /\ Topo(steps)[n] = steps[f[n]]
    BY <1>1, <2>1, TopoSteps
  <2>3. \A i, k \in 1..Len(f) : f[i] = f[k] => i = k
    BY <1>1, KahnEnd DEF Distinct
  <2>4. Topo(steps) \in Orders(steps) /\ Respects(Topo(steps))
    BY <1>1, <2>1, TopoOrders, TopoRespects
  <2> HIDE DEF f
  <2>5. ASSUME NEW i \in 1..Len(steps), NEW k \in 1..Len(steps), Topo(steps)[i].id = Topo(steps)[k].id
        PROVE  i = k
    <3>1. /\ i \in 1..Len(f) /\ k \in 1..Len(f) /\ f[i] \in 1..Len(steps) /\ f[k] \in 1..Len(steps)
          /\ steps[f[i]].id = steps[f[k]].id
      BY <2>2, <2>5
    <3>2. f[i] = f[k]
      BY <1>2, <3>1
    <3> QED BY <2>3, <3>1, <3>2
  <2>6. steps # <<>> => Len(steps) # 0
    BY <1>2, EmptySeq
  <2>7. steps = <<>> => Topo(steps) = <<>>
    BY <2>1, <2>2, EmptySeq
  <2> QED BY <1>2, <1>3, <2>1, <2>2, <2>4, <2>5, <2>6, <2>7
<1>4. CASE p.kind # "workflow"
  <2>1. steps # <<>> => Len(steps) # 0
    BY <1>2, EmptySeq
  <2> QED BY <1>2, <1>4, <2>1
<1> QED BY <1>3, <1>4

LEMMA RefusedRightly ==
  ASSUME NEW p \in Plans, ~Parses(p.steps) \/ WorkflowRefused(p.steps)
  PROVE  \/ Duplicate(p.steps) \/ ~Parses(p.steps)
         \/ ~\E t \in Orders(p.steps) : Respects(t)
<1> SUFFICES ASSUME ~Duplicate(p.steps), Parses(p.steps), NEW t \in Orders(p.steps), Respects(t) PROVE FALSE
  OBVIOUS
<1>1. Workable(p.steps)
  BY PlansWorkable
<1>2. UnknownNeed(p.steps) \/ Len(Topo(p.steps)) # Len(p.steps)
  BY DEF WorkflowRefused
<1> QED BY <1>1, <1>2, TopoComplete, UnknownNeedUnmet

LEMMA LoadKeeps == ASSUME Inv, Load PROVE Inv'
<1>1. /\ plan' = plan /\ plan \in Plans /\ at = "load" /\ order = <<>> /\ next = 1 /\ sent = 0 /\ audited = {} /\ silent = "none"
      /\ UNCHANGED <<harness, edits, torn, next, subs, sent, audited, silent, readings>>
  BY DEF Inv, OrderInv, PlanInv, AuditInv, Load, Still
<1>2. Len(<<>>) = 0 /\ <<>> \in Seq(ToSet(plan.steps))
  OBVIOUS
<1>3. CASE order' = order /\ at' \in {"done", "raised"}
  <2>1. TypeOK'
    BY <1>1, <1>2, <1>3 DEF Inv, TypeOK, Ended
  <2>2. OrderInv'
    BY <1>1, <1>3 DEF OrderInv, NeedsFirst
  <2>3. PlanInv'
    BY <1>1, <1>3 DEF PlanInv
  <2>4. AuditInv'
    BY <1>1, <1>2, <1>3 DEF AuditInv, ShortRunExplained
  <2> QED BY <1>1, <2>1, <2>2, <2>3, <2>4 DEF Inv
<1>4. CASE /\ order' = order /\ at' = "refused"
           /\ plan.kind = "workflow" => ~Parses(plan.steps) \/ WorkflowRefused(plan.steps)
  <2>1. TypeOK'
    BY <1>1, <1>2, <1>4 DEF Inv, TypeOK, Ended
  <2>2. OrderInv'
    BY <1>1, <1>4, RefusedRightly DEF OrderInv, NeedsFirst
  <2>3. PlanInv'
    BY <1>1, <1>4 DEF PlanInv
  <2>4. AuditInv'
    BY <1>1, <1>2, <1>4 DEF AuditInv, ShortRunExplained
  <2> QED BY <1>1, <2>1, <2>2, <2>3, <2>4 DEF Inv
<1>5. CASE /\ ~Duplicate(plan.steps) /\ (plan.kind = "workflow" => ~WorkflowRefused(plan.steps))
           /\ order' = IF plan.kind = "workflow" THEN Topo(plan.steps) ELSE plan.steps
           /\ at' = IF plan.steps = <<>> THEN "done" ELSE "plan"
  <2> DEFINE o == IF plan.kind = "workflow" THEN Topo(plan.steps) ELSE plan.steps
  <2>1. /\ order' = o /\ o \in Seq(ToSet(plan.steps)) /\ Len(o) = Len(plan.steps) /\ Len(o) \in Nat
        /\ plan.steps # <<>> => 1 \in 1..Len(o)
        /\ plan.steps = <<>> => o = <<>>
        /\ \A i, k \in 1..Len(o) : o[i].id = o[k].id => i = k
        /\ plan.kind = "workflow" => o \in Orders(plan.steps) /\ Respects(o)
    BY <1>1, <1>5, Loaded
  <2> HIDE DEF o
  <2>2. (at' = "done" /\ Len(o) = 0) \/ (at' = "plan" /\ 1 \in 1..Len(o))
    <3>1. CASE plan.steps = <<>>
      <4>1. at' = "done"
        BY <1>5, <3>1
      <4>2. Len(o) = 0
        BY <1>2, <2>1, <3>1
      <4> QED BY <4>1, <4>2
    <3>2. CASE plan.steps # <<>>
      BY <1>5, <2>1, <3>2
    <3> QED BY <3>1, <3>2
  <2>3. TypeOK'
    BY <1>1, <2>1, <2>2 DEF Inv, TypeOK, Ended
  <2>4. OrderInv'
    BY <1>1, <2>1, <2>2 DEF OrderInv, NeedsFirst
  <2>5. PlanInv'
    BY <1>1, <2>1, <2>2 DEF PlanInv
  <2>6. AuditInv'
    BY <1>1, <1>2, <2>1, <2>2 DEF AuditInv, ShortRunExplained
  <2> QED BY <1>1, <2>3, <2>4, <2>5, <2>6 DEF Inv
<1>6. plan.kind \in {"workflow", "pipeline"} /\ (WorkflowRefused(plan.steps) <=>
           Duplicate(plan.steps) \/ UnknownNeed(plan.steps) \/ Len(Topo(plan.steps)) # Len(plan.steps))
  BY <1>1, PlansWorkable DEF WorkflowRefused
<1> QED BY <1>3, <1>4, <1>5, <1>6 DEF Load, PipelineRefused

LEMMA Advances ==
  ASSUME Inv, at \in {"plan", "subs"}, Advance("plan", "dispatch", next),
         UNCHANGED <<plan, harness, edits, torn, order, sent, audited, silent>>,
         IsSequence(subs'), readings \subseteq readings', PlannedIn(readings', order, next)
  PROVE  Inv'
<1>1. /\ Len(order) \in Nat /\ order # <<>> /\ next \in 1..Len(order) /\ audited = {} /\ silent = "none"
  BY AtWork DEF Running
<1>2. sent = 0
  BY DEF Inv, PlanInv
<1>3. \A i \in 1..(next - 1) : PlannedIn(readings', order, i)
  BY Readings DEF Inv, PlanInv
<1>4. \A i \in 1..next : PlannedIn(readings', order, i)
  BY <1>1, <1>3
<1>5. \/ at' = "plan" /\ next < Len(order) /\ next' = next + 1
      \/ at' = "dispatch" /\ next = Len(order) /\ next' = 1
  BY <1>1 DEF Advance
<1>6. (plan \in Plans /\ OrderInv)'
  BY <1>5, OrderKept
<1>7. TypeOK'
  <2>1. next' \in 1..Len(order') /\ at' \in {"plan", "dispatch"} /\ (at' = "dispatch" => sent' = next' - 1)
    BY <1>1, <1>2, <1>5
  <2> QED BY <2>1 DEF Inv, TypeOK
<1>8. PlanInv'
  <2>1. at' = "plan" => \A i \in 1..(next' - 1) : PlannedIn(readings', order, i)
    BY <1>1, <1>4, <1>5
  <2>2. at' = "dispatch" => \A i \in 1..Len(order) : PlannedIn(readings', order, i)
    BY <1>4, <1>5
  <2> QED BY <1>2, <1>5, <2>1, <2>2 DEF PlanInv
<1>9. AuditInv'
  BY <1>1, <1>5 DEF AuditInv, ShortRunExplained
<1> QED BY <1>6, <1>7, <1>8, <1>9 DEF Inv

LEMMA RaisedStops ==
  ASSUME Inv, at \in Running, NEW purpose, NEW agent, Reads(purpose, agent),
         \/ Denied
         \/ Outcome(agent) \in {"unreachable", "broken"} /\ Quiet /\ UNCHANGED subs /\ Fails("raised"),
         UNCHANGED <<order, sent>>, Still
  PROVE  Inv'
<1>1. readings \subseteq readings' /\ audited = {} /\ silent = "none"
  BY AtWork DEF Reads
<1>2. at' = "raised" /\ UNCHANGED <<plan, harness, edits, torn, order, next, subs, sent>>
  BY DEF Denied, Fails, Still
<1>3. CASE Denied
  <2>1. \/ audited' = {order[next].id} /\ silent' = "none"
        \/ audited' = {} /\ silent' = "log"
    BY <1>1, <1>3 DEF Denied
  <2> QED BY <1>1, <1>2, <2>1, StopsShort
<1>4. CASE Outcome(agent) \in {"unreachable", "broken"} /\ Quiet
  <2>1. \/ User.state # "file"
        \/ \E r \in readings' : r.step = next /\ HarnessOf[r.harness].state \in {"unreachable", "broken"}
    BY <1>4, NotGranted
  <2>2. audited' = {} /\ silent' = "none"
    BY <1>1, <1>4 DEF Quiet
  <2> QED BY <1>1, <1>2, <2>1, <2>2, StopsShort
<1> QED BY <1>3, <1>4

LEMMA PlanStepKeeps == ASSUME Inv, PlanStep PROVE Inv'
<1> DEFINE step == order[next]
           outcome == Outcome(step.agent)
           bound == \A f \in ToSet(step.functions) : FunctionAllowed(f, HarnessOf[harness])
<1>1. at = "plan" /\ Reads("plan", step.agent) /\ UNCHANGED <<order, sent>> /\ Still
  BY DEF PlanStep
<1>2. at \in Running
  BY <1>1 DEF Running
<1>3. /\ IsSequence(step.subagents) /\ harness \in Editable /\ audited = {} /\ silent = "none"
      /\ next \in 1..Len(order) /\ order # <<>>
  BY <1>2, AtWork
<1>4. readings \subseteq readings' /\ UNCHANGED <<plan, harness, edits, torn>>
  BY <1>1 DEF Reads, Still
<1>5. CASE Denied \/ Raised(outcome)
  <2>1. \/ Denied
        \/ outcome \in {"unreachable", "broken"} /\ Quiet /\ UNCHANGED subs /\ Fails("raised")
    BY <1>5 DEF Raised
  <2> HIDE DEF step, outcome
  <2> QED BY <1>1, <1>2, <2>1, RaisedStops DEF outcome
<1>6. ASSUME outcome = "ok", bound PROVE ReadIn(readings', order, "plan", next, step.agent)
  <2>1. Resolve(None, step.agent, step.account, HarnessOf[harness], User) = "ok"
    BY <1>6 DEF Outcome
  <2>2. readings' = readings \union {[purpose |-> "plan", step |-> next, agent |-> step.agent,
                                      harness |-> harness]}
    BY <1>1 DEF Reads
  <2> QED BY <1>3, <1>6, <2>1, <2>2, ReadingLawful
<1>7. CASE /\ outcome = "ok" /\ bound /\ subs' = step.subagents /\ Quiet
           /\ step.subagents # <<>> /\ at' = "subs" /\ UNCHANGED next
  <2>1. ReadIn(readings', order, "plan", next, step.agent)
    BY <1>6, <1>7
  <2>2. (plan \in Plans /\ OrderInv)'
    BY <1>1, <1>4, <1>7, OrderKept
  <2>3. TypeOK'
    BY <1>1, <1>3, <1>4, <1>7 DEF Inv, TypeOK, Quiet
  <2>4. PlanInv'
    <3>1. sent = 0 /\ \A i \in 1..(next - 1) : PlannedIn(readings', order, i)
      BY <1>1, <1>4, Readings DEF Inv, PlanInv
    <3>2. \A a \in ToSet(step.subagents) : a \in ToSet(subs')
      BY <1>7
    <3> QED BY <1>1, <1>7, <2>1, <3>1, <3>2 DEF PlanInv
  <2>5. AuditInv'
    BY <1>3, <1>7 DEF AuditInv, ShortRunExplained, Quiet
  <2> QED BY <2>2, <2>3, <2>4, <2>5 DEF Inv
<1>8. CASE /\ outcome = "ok" /\ bound /\ subs' = step.subagents /\ Quiet
           /\ step.subagents = <<>> /\ Advance("plan", "dispatch", next)
  <2>1. ReadIn(readings', order, "plan", next, step.agent)
    BY <1>6, <1>8
  <2>2. ToSet(step.subagents) = {}
    BY <1>8 DEF ToSet
  <2>3. PlannedIn(readings', order, next)
    BY <2>1, <2>2 DEF PlannedIn
  <2>4. at \in {"plan", "subs"} /\ IsSequence(subs')
    BY <1>1, <1>3, <1>8
  <2> QED BY <1>1, <1>4, <1>8, <2>3, <2>4, Advances DEF Quiet
<1> QED BY <1>5, <1>7, <1>8 DEF PlanStep

LEMMA PlanSubagentKeeps == ASSUME Inv, PlanSubagent PROVE Inv'
<1> DEFINE agent == Head(subs)
           outcome == Outcome(agent)
<1>1. at = "subs" /\ Reads("sub", agent) /\ UNCHANGED <<order, sent>> /\ Still
  BY DEF PlanSubagent
<1>2. at \in Running
  BY <1>1 DEF Running
<1>3. harness \in Editable /\ audited = {} /\ silent = "none" /\ next \in 1..Len(order) /\ order # <<>>
  BY <1>2, AtWork
<1>4. readings \subseteq readings' /\ UNCHANGED <<plan, harness, edits, torn>>
  BY <1>1 DEF Reads, Still
<1>5. IsSequence(subs) /\ subs # <<>>
  BY <1>1 DEF Inv, TypeOK, Quiet
<1>6. /\ Len(subs) \in Nat \ {0} /\ IsSequence(Tail(subs)) /\ (Tail(subs) = <<>> <=> Len(subs) = 1)
      /\ \A a \in ToSet(subs) : a = agent \/ a \in ToSet(Tail(subs))
  BY <1>5, SubagentsLeft
<1>7. CASE Raised(outcome)
  <2>1. \/ Denied
        \/ outcome \in {"unreachable", "broken"} /\ Quiet /\ UNCHANGED subs /\ Fails("raised")
    BY <1>7 DEF Raised
  <2> HIDE DEF agent, outcome
  <2> QED BY <1>1, <1>2, <2>1, RaisedStops DEF outcome
<1>8. CASE outcome = "ok" /\ subs' = Tail(subs) /\ Quiet
           /\ IF Len(subs) > 1 THEN at' = "subs" /\ UNCHANGED next ELSE Advance("plan", "dispatch", next)
  <2>1. ReadIn(readings', order, "sub", next, agent)
    <3>1. Resolve(None, agent, order[next].account, HarnessOf[harness], User) = "ok"
      BY <1>8 DEF Outcome
    <3>2. readings' = readings \union {[purpose |-> "sub", step |-> next, agent |-> agent,
                                        harness |-> harness]}
      BY <1>1 DEF Reads
    <3> QED BY <1>3, <3>1, <3>2, ReadingLawful
  <2>2. /\ ReadIn(readings', order, "plan", next, order[next].agent)
        /\ \A a \in ToSet(order[next].subagents) :
              a \in ToSet(subs) \/ ReadIn(readings', order, "sub", next, a)
        /\ sent = 0 /\ \A i \in 1..(next - 1) : PlannedIn(readings', order, i)
    BY <1>1, <1>4, Readings DEF Inv, PlanInv
  <2>3. \A a \in ToSet(order[next].subagents) :
           a \in ToSet(subs') \/ ReadIn(readings', order, "sub", next, a)
    <3> HIDE DEF agent
    <3> QED BY <1>6, <1>8, <2>1, <2>2
  <2>4. CASE Len(subs) > 1
    <3>1. (plan \in Plans /\ OrderInv)'
      BY <1>1, <1>4, <1>8, <2>4, OrderKept
    <3>2. TypeOK'
      BY <1>1, <1>3, <1>4, <1>6, <1>8, <2>4, SMTT(20) DEF Inv, TypeOK, Quiet
    <3>3. PlanInv'
      BY <1>1, <1>8, <2>2, <2>3, <2>4 DEF PlanInv
    <3>4. AuditInv'
      BY <1>3, <1>8, <2>4 DEF AuditInv, ShortRunExplained, Quiet
    <3> QED BY <3>1, <3>2, <3>3, <3>4 DEF Inv
  <2>5. CASE ~(Len(subs) > 1)
    <3>1. ToSet(subs') = {}
      BY <1>6, <1>8, <2>5 DEF ToSet
    <3>2. PlannedIn(readings', order, next)
      BY <2>2, <2>3, <3>1 DEF PlannedIn
    <3>3. at \in {"plan", "subs"} /\ IsSequence(subs') /\ Advance("plan", "dispatch", next)
      BY <1>1, <1>6, <1>8, <2>5
    <3> QED BY <1>1, <1>4, <1>8, <3>2, <3>3, Advances DEF Quiet
  <2> QED BY <2>4, <2>5
<1> QED BY <1>7, <1>8 DEF PlanSubagent

LEMMA DispatchResolveKeeps == ASSUME Inv, DispatchResolve PROVE Inv'
<1> DEFINE agent == order[next].agent
           outcome == Outcome(agent)
<1>1. at = "dispatch" /\ Reads("dispatch", agent) /\ UNCHANGED <<order, sent>> /\ Still
  BY DEF DispatchResolve
<1>2. at \in Running
  BY <1>1 DEF Running
<1>3. harness \in Editable /\ audited = {} /\ silent = "none" /\ next \in 1..Len(order) /\ order # <<>>
  BY <1>2, AtWork
<1>4. readings \subseteq readings' /\ UNCHANGED <<plan, harness, edits, torn>>
  BY <1>1 DEF Reads, Still
<1>5. CASE Denied \/ (outcome = "broken" /\ Quiet /\ UNCHANGED subs /\ Fails("raised"))
  <2> HIDE DEF agent, outcome
  <2> QED BY <1>1, <1>2, <1>5, RaisedStops DEF outcome
<1>6. CASE outcome = "ok" /\ at' = "send" /\ Quiet /\ UNCHANGED <<subs, next>>
  <2>1. ReadIn(readings', order, "dispatch", next, agent)
    <3>1. Resolve(None, agent, order[next].account, HarnessOf[harness], User) = "ok"
      BY <1>6 DEF Outcome
    <3>2. readings' = readings \union {[purpose |-> "dispatch", step |-> next, agent |-> agent,
                                        harness |-> harness]}
      BY <1>1 DEF Reads
    <3> QED BY <1>3, <3>1, <3>2, ReadingLawful
  <2>2. /\ \A i \in 1..Len(order) : PlannedIn(readings', order, i)
        /\ \A i \in 1..sent : ReadIn(readings', order, "dispatch", i, order[i].agent)
    BY <1>1, <1>4, Readings DEF Inv, PlanInv
  <2>3. (plan \in Plans /\ OrderInv)'
    BY <1>1, <1>4, <1>6, OrderKept
  <2>4. TypeOK'
    BY <1>1, <1>3, <1>4, <1>6 DEF Inv, TypeOK, Quiet
  <2>5. PlanInv'
    BY <1>1, <1>6, <2>1, <2>2 DEF PlanInv
  <2>6. AuditInv'
    BY <1>3, <1>6 DEF AuditInv, ShortRunExplained, Quiet
  <2> QED BY <2>3, <2>4, <2>5, <2>6 DEF Inv
<1> QED BY <1>5, <1>6 DEF DispatchResolve

LEMMA DispatchSendKeeps == ASSUME Inv, DispatchSend PROVE Inv'
<1>1. at = "send" /\ UNCHANGED <<order, readings, plan, harness, edits, torn>>
  BY DEF DispatchSend, Still
<1>2. at \in Running
  BY <1>1 DEF Running
<1>3. /\ Len(order) \in Nat /\ next \in 1..Len(order) /\ order # <<>> /\ audited = {}
      /\ silent = "none" /\ sent = next - 1
  BY <1>1, <1>2, AtWork DEF Inv, TypeOK, Quiet
<1>4. CASE /\ at' = "raised" /\ UNCHANGED <<next, subs, sent>>
           /\ silent' \in {"none", "log", "text"}
           /\ audited' = {order[next].id} \/ (audited' = {} /\ (torn \/ silent' # "none"))
  BY <1>1, <1>2, <1>4, StopsShort
<1>5. CASE Quiet /\ UNCHANGED subs /\ sent' = next /\ Advance("dispatch", "done", next)
  <2>1. \/ at' = "dispatch" /\ next < Len(order) /\ next' = next + 1
        \/ at' = "done" /\ next = Len(order) /\ next' = 1
    BY <1>3, <1>5 DEF Advance
  <2>2. /\ \A i \in 1..Len(order) : PlannedIn(readings, order, i)
        /\ \A i \in 1..sent : ReadIn(readings, order, "dispatch", i, order[i].agent)
        /\ ReadIn(readings, order, "dispatch", next, order[next].agent)
    BY <1>1 DEF Inv, PlanInv
  <2>3. \A i \in 1..next : ReadIn(readings, order, "dispatch", i, order[i].agent)
    <3>1. \A i \in 1..next : i \in 1..sent \/ i = next
      BY <1>3
    <3> QED BY <2>2, <3>1
  <2>4. (plan \in Plans /\ OrderInv)'
    BY <1>1, <2>1, OrderKept
  <2>5. TypeOK'
    <3>1. /\ next' \in 1..Len(order) /\ at' \in {"dispatch", "done"}
          /\ (at' = "dispatch" => sent' = next' - 1) /\ sent' \in 0..Len(order)
      BY <1>3, <1>5, <2>1
    <3> QED BY <1>1, <1>5, <3>1 DEF Inv, TypeOK, Ended, Quiet
  <2>6. PlanInv'
    BY <1>1, <1>5, <2>1, <2>2, <2>3 DEF PlanInv
  <2>7. AuditInv'
    BY <1>1, <1>3, <1>5, <2>1 DEF AuditInv, ShortRunExplained, Quiet
  <2> QED BY <2>4, <2>5, <2>6, <2>7 DEF Inv
<1> QED BY <1>3, <1>4, <1>5 DEF DispatchSend, Denied, Fails, Quiet

LEMMA EditKeeps == ASSUME Inv, Edit PROVE Inv'
<1>1. /\ UNCHANGED <<plan, torn, at, order, next, subs, sent, audited, silent, readings>>
      /\ harness' \in Editable /\ edits' \in 0..MaxEdits /\ at \notin Ended
  BY StepsAssumption DEF Edit, Inv, TypeOK
<1>2. TypeOK'
  BY <1>1 DEF Inv, TypeOK
<1>3. (plan \in Plans /\ OrderInv /\ PlanInv)'
  BY <1>1 DEF Inv, OrderInv, NeedsFirst, PlanInv
<1>4. AuditInv'
  BY <1>1 DEF Inv, AuditInv, ShortRunExplained, Ended
<1> QED BY <1>2, <1>3, <1>4 DEF Inv

LEMMA InitInv == ASSUME Init PROVE Inv
<1>1. /\ plan \in Plans /\ harness \in Editable /\ edits = 0 /\ torn \in BOOLEAN
      /\ at = "load" /\ order = <<>> /\ next = 1 /\ subs = <<>> /\ sent = 0
      /\ audited = {} /\ silent = "none" /\ readings = {}
  BY DEF Init
<1>2. <<>> \in Seq(ToSet(plan.steps)) /\ Len(<<>>) = 0 /\ IsSequence(<<>>)
  BY DEF IsSequence
<1>3. TypeOK
  BY <1>1, <1>2, StepsAssumption DEF TypeOK, Ended
<1>4. OrderInv /\ PlanInv /\ AuditInv
  BY <1>1 DEF OrderInv, NeedsFirst, PlanInv, AuditInv, ShortRunExplained
<1> QED BY <1>1, <1>3, <1>4 DEF Inv

LEMMA NextKeeps == ASSUME Inv, [Next]_vars PROVE Inv'
<1>1. CASE Next
  BY <1>1, LoadKeeps, PlanStepKeeps, PlanSubagentKeeps, DispatchResolveKeeps, DispatchSendKeeps, EditKeeps
     DEF Next
<1>2. CASE UNCHANGED vars
  <2>1. UNCHANGED <<plan, harness, edits, torn, at, order, next, subs, sent, audited, silent, readings>>
    BY <1>2 DEF vars
  <2>2. TypeOK'
    BY <2>1 DEF Inv, TypeOK
  <2>3. (plan \in Plans /\ OrderInv /\ PlanInv)'
    BY <2>1 DEF Inv, OrderInv, NeedsFirst, PlanInv
  <2>4. AuditInv'
    BY <2>1 DEF Inv, AuditInv, ShortRunExplained
  <2> QED BY <2>2, <2>3, <2>4 DEF Inv
<1> QED BY <1>1, <1>2

LEMMA SentIsPlanned == ASSUME Inv PROVE AllowedWhenSent
<1> SUFFICES ASSUME sent > 0 PROVE AllowedWhenSent
  BY DEF AllowedWhenSent
<1>1. /\ \A i \in 1..Len(order) : PlannedIn(readings, order, i)
      /\ \A i \in 1..sent : ReadIn(readings, order, "dispatch", i, order[i].agent)
  BY DEF Inv, PlanInv
<1>2. \A purpose, i, agent : LawfulReading(purpose, i, agent) <=> ReadIn(readings, order, purpose, i, agent)
  BY DEF LawfulReading, ReadIn
<1> QED BY <1>1, <1>2 DEF AllowedWhenSent, PlannedIn

(* What the runner keeps from step to step, in a run on an edited harness   *)
(* (run_policy_steps, dispatch).                                            *)
THEOREM StepsInv == Spec => []Inv
<1>1. Init => Inv
  BY InitInv
<1>2. Inv /\ [Next]_vars => Inv'
  BY NextKeeps
<1> QED BY <1>1, <1>2, PTL DEF Spec

(* The variables of the runner keep their types. *)
THEOREM StepsTypeOK == Spec => []TypeOK
<1>1. Inv => TypeOK
  BY DEF Inv
<1> QED BY <1>1, StepsInv, PTL

(* Every step of a workflow is dispatched after all it needs, and one that  *)
(* is refused cannot be ordered (_topo, load_workflow, run_workflow).      *)
THEOREM StepsNeedsFirst == Spec => []NeedsFirst
<1>1. Inv => NeedsFirst
  BY DEF Inv, OrderInv
<1> QED BY <1>1, StepsInv, PTL

(* Once a step has a message every step has been planned lawfully, in the  *)
(* harness as it was then (run_policy_steps).                               *)
THEOREM StepsAllowedWhenSent == Spec => []AllowedWhenSent
<1>1. Inv => AllowedWhenSent
  BY SentIsPlanned
<1> QED BY <1>1, StepsInv, PTL

(* A run that stops short says where, unless a file could not be read, the  *)
(* audit log not be written or a text not be sent (_deny, TaskMessage, and  *)
(* the handlers of run_policy_steps and dispatch).                          *)
THEOREM StepsShortRunExplained == Spec => []ShortRunExplained
<1>1. Inv => ShortRunExplained
  BY DEF Inv, AuditInv
<1> QED BY <1>1, StepsInv, PTL
=============================================================================
