---- MODULE PatternDiscovery_proofs ----
(***************************************************************************)
(* What promoted patterns rest on, that they stay promoted and that the    *)
(* graph and the scorer know them (PatternDiscovery), for all sets of      *)
(* features, any number of phases, any table size and any threshold.       *)
(*                                                                         *)
(* The core is arithmetic: sets of at most six features that overlap by    *)
(* four fifths are nested (Nested), so that a merge asks for nothing that  *)
(* was not seen in one event.  Of the table, the invariant needs that no   *)
(* two patterns are equally old, so that there is a weakest one.           *)
(***************************************************************************)
EXTENDS PatternDiscovery, FiniteSetTheorems, SequenceTheorems, TLAPS

----------------------------------------------------------------------------
(* Finite sets                                                             *)

\* A finite set has a minimal element.
LEMMA Minimal ==
    ASSUME NEW S, IsFiniteSet(S), S # {}, NEW R,
           \A x \in S : <<x, x>> \notin R,
           \A x, y, z \in S : <<x, y>> \in R /\ <<y, z>> \in R => <<x, z>> \in R
    PROVE  \E x \in S : \A y \in S : <<y, x>> \notin R
<1> DEFINE Below(x) == {y \in S : <<y, x>> \in R}
           F == {Below(x) : x \in S}
<1>1. IsWellFoundedOn(StrictSubsetOrdering(S), SUBSET S)
  BY FS_StrictSubsetOrderingWellFounded, FS_FiniteSubsetsOfFinite
<1>2. F \subseteq SUBSET S /\ F # {}
  <2>1. \A x \in S : Below(x) \in SUBSET S
    OBVIOUS
  <2>2. PICK x \in S : TRUE
    OBVIOUS
  <2>3. Below(x) \in F
    OBVIOUS
  <2> HIDE DEF Below
  <2>4. \A T \in F : T \in SUBSET S
    BY <2>1
  <2> QED
    BY <2>3, <2>4
<1> HIDE DEF F
<1>3. PICK T \in F : \A U \in F : ~ (<<U, T>> \in StrictSubsetOrdering(S))
  BY <1>1, <1>2, WFMin
<1>4. PICK x \in S : T = Below(x)
  BY <1>3 DEF F
<1>5. ASSUME NEW y \in S, <<y, x>> \in R PROVE FALSE
  <2>1. Below(y) \subseteq Below(x) /\ y \in Below(x) /\ y \notin Below(y)
    BY <1>5
  <2>2. <<Below(y), Below(x)>> \in StrictSubsetOrdering(S)
    BY <2>1 DEF StrictSubsetOrdering
  <2>3. Below(y) \in F
    BY DEF F
  <2> QED
    BY <1>3, <1>4, <2>2, <2>3
<1> QED
  BY <1>5

LEMMA MaxNat ==
    ASSUME NEW S \in SUBSET Nat, IsFiniteSet(S), S # {}
    PROVE  Max(S) \in S /\ \A y \in S : Max(S) >= y
<1> DEFINE R == {p \in S \X S : p[1] > p[2]}
<1>1. \A x, y \in S : <<x, y>> \in R <=> x > y
  OBVIOUS
<1> HIDE DEF R
<1>2. \A x, y, z \in S : x > y /\ y > z => x > z
  OBVIOUS
<1>3. \A x \in S : ~ (x > x)
  OBVIOUS
<1>4. \E x \in S : \A y \in S : <<y, x>> \notin R
  BY <1>1, <1>2, <1>3, Minimal
<1>6. \A x, y \in S : ~ (y > x) => x >= y
  OBVIOUS
<1>5. \E x \in S : \A y \in S : x >= y
  BY <1>1, <1>4, <1>6
<1> QED
  BY <1>5 DEF Max

LEMMA FirstIn ==
    ASSUME NEW n \in Nat, NEW I \in SUBSET (1..n), I # {}
    PROVE  First(I) \in I
<1> DEFINE R == {p \in I \X I : p[1] < p[2]}
<1>1. IsFiniteSet(I)
  <2>1. IsFiniteSet(1..n)
    BY FS_Interval
  <2> QED
    BY <2>1, FS_Subset
<1>2. \A x, y \in I : <<x, y>> \in R <=> x < y
  OBVIOUS
<1> HIDE DEF R
<1>3. \A x, y, z \in I : x < y /\ y < z => x < z
  OBVIOUS
<1>4. \A x \in I : ~ (x < x)
  OBVIOUS
<1>5. \E x \in I : \A y \in I : <<y, x>> \notin R
  BY <1>1, <1>2, <1>3, <1>4, Minimal
<1>7. \A x, y \in I : ~ (y < x) => x <= y
  OBVIOUS
<1>6. \E x \in I : \A y \in I : x <= y
  BY <1>2, <1>5, <1>7
<1> QED
  BY <1>6 DEF First

\* Sets of at most six features that overlap by four fifths are nested.
LEMMA Nested ==
    ASSUME NEW A \in Signatures, NEW B \in Signatures, Overlaps(A, B)
    PROVE  A \cup B \in {A, B}
<1>1. /\ IsFiniteSet(A) /\ Cardinality(A) \in Nat /\ Cardinality(A) <= 6
      /\ IsFiniteSet(B) /\ Cardinality(B) \in Nat /\ Cardinality(B) <= 6
  BY SizeAssumption DEF SizeAssumption
<1>2. /\ IsFiniteSet(A \cap B) /\ Cardinality(A \cap B) \in Nat
      /\ Cardinality(A \cup B) = Cardinality(A) + Cardinality(B) - Cardinality(A \cap B)
  BY <1>1, FS_Intersection, FS_Union, FS_CardinalityType
<1>3. ASSUME ~ (A \subseteq B), ~ (B \subseteq A) PROVE FALSE
  <2>1. Cardinality(A \cap B) < Cardinality(A)
    <3>1. /\ Cardinality(A \cap B) <= Cardinality(A)
          /\ Cardinality(A) = Cardinality(A \cap B) => A = A \cap B
      BY <1>1, FS_Subset
    <3>2. A # A \cap B
      BY <1>3
    <3> QED
      BY <1>1, <1>2, <3>1, <3>2
  <2>2. Cardinality(A \cap B) < Cardinality(B)
    <3>1. /\ Cardinality(A \cap B) <= Cardinality(B)
          /\ Cardinality(B) = Cardinality(A \cap B) => B = A \cap B
      BY <1>1, FS_Subset
    <3>2. B # A \cap B
      BY <1>3
    <3> QED
      BY <1>1, <1>2, <3>1, <3>2
  <2>3. 5 * Cardinality(A \cap B) >= 4 * Cardinality(A \cup B)
    BY DEF Overlaps
  <2> QED
    BY <1>1, <1>2, <2>1, <2>2, <2>3
<1> QED
  BY <1>3

----------------------------------------------------------------------------
(* Patterns                                                                *)

\* A pattern asks for what one event had, and is promoted by its count.
Good == {p \in Pattern : p.features \in p.events /\ (p.promoted <=> p.count >= MinConfirmations)}

Distinct(t) == \A i, j \in DOMAIN t : i # j => t[i].born # t[j].born

Tables == {t \in Seq(Good) : Distinct(t)}

LEMMA GoodFacts ==
    ASSUME NEW p \in Good
    PROVE  /\ p \in Pattern /\ p.features \in p.events /\ p.events \subseteq Signatures
           /\ p.count \in Nat \ {0} /\ p.backed \in Nat /\ p.kind \in Kinds
           /\ p.named \in Signatures /\ p.born \in Nat
<1>1. p \in Pattern /\ p.features \in p.events
  BY DEF Good
<1>2. p.events \subseteq Signatures /\ p.kind \in Kinds /\ p.named \in Signatures
  BY <1>1 DEF Pattern
<1>3. p.count \in Nat \ {0} /\ p.backed \in Nat /\ p.born \in Nat
  BY <1>1 DEF Pattern
<1> QED
  BY <1>1, <1>2, <1>3

LEMMA TableFacts ==
    ASSUME NEW t \in Tables
    PROVE  /\ t \in Seq(Good) /\ Len(t) \in Nat /\ DOMAIN t = 1..Len(t)
           /\ \A i \in DOMAIN t : t[i] \in Good /\ t[i].born \in Nat
           /\ Patterns(t) \subseteq Good /\ Distinct(t)
<1>1. t \in Seq(Good) /\ Distinct(t)
  BY DEF Tables
<1>2. Len(t) \in Nat /\ DOMAIN t = 1..Len(t) /\ t \in [1..Len(t) -> Good]
  BY <1>1, LenProperties
<1>3. ASSUME NEW i \in DOMAIN t PROVE t[i] \in Good
  <2>1. i \in 1..Len(t)
    BY <1>2
  <2> QED
    BY <1>1, <2>1, ElementOfSeq
<1>4. \A p \in Good : p.born \in Nat
  BY GoodFacts
<1>5. Patterns(t) \subseteq Good
  BY <1>3 DEF Patterns
<1> QED
  BY <1>1, <1>2, <1>3, <1>4, <1>5

\* Only a pattern of the kind its verdict can hit is hit.
LEMMA HitFacts ==
    ASSUME NEW t \in Tables, NEW src \in Sources, Hits(t, src) # {}
    PROVE  LET i == First(Hits(t, src)) IN
           /\ i \in DOMAIN t /\ Overlaps(src.features, t[i].features)
           /\ src.verdict = "dismiss" => t[i].kind = "suppressed"
<1>1. Len(t) \in Nat /\ DOMAIN t = 1..Len(t)
  BY TableFacts
<1>2. Hits(t, src) \subseteq 1..Len(t)
  BY <1>1 DEF Hits
<1>3. First(Hits(t, src)) \in Hits(t, src)
  BY <1>1, <1>2, FirstIn
<1> QED
  BY <1>3 DEF Hits

\* A strengthened pattern keeps its key and its age, and has one more verdict.
LEMMA StrengthenedGood ==
    ASSUME NEW p \in Good, NEW src \in Sources, Overlaps(src.features, p.features)
    PROVE  LET q == Strengthened(p, src) IN
           /\ q \in Good /\ KeyOf(q) = KeyOf(p) /\ q.born = p.born
           /\ p.promoted => q.promoted
           /\ q.count = p.count + 1
           /\ src.again = FALSE /\ src.verdict = Way(p) => q.backed = p.backed + 1
<1> DEFINE q == Strengthened(p, src)
<1>1. /\ p \in Pattern /\ p.features \in p.events /\ p.events \subseteq Signatures
      /\ p.count \in Nat \ {0} /\ p.backed \in Nat /\ p.kind \in Kinds /\ p.named \in Signatures
      /\ p.born \in Nat
  BY GoodFacts
<1>2. src.features \in Signatures
  BY DEF Sources, Signatures
<1>3. p.features \in Signatures
  BY <1>1
<1>4. p.features \cup src.features \in {p.features, src.features}
  BY <1>2, <1>3, Nested
<1>5. /\ q.kind = p.kind /\ q.named = p.named /\ q.born = p.born /\ q.count = p.count + 1
      /\ q.features = p.features \cup src.features
      /\ q.events = p.events \cup {src.features}
  BY <1>1 DEF Strengthened, Pattern
<1>6. q.backed = IF src.again \/ src.verdict # Way(p) THEN p.backed ELSE p.backed + 1
  BY <1>1 DEF Strengthened, Pattern
<1>7. q.promoted = (p.promoted \/ p.count + 1 >= MinConfirmations)
  BY <1>1 DEF Strengthened, Pattern
<1>8. q.promoted \in BOOLEAN
  BY <1>7
<1>9. q \in Pattern
  <2>1. q.features \in SUBSET UNION Signatures
    BY <1>2, <1>3, <1>4, <1>5
  <2>2. q.events \in SUBSET Signatures /\ q.count \in Nat \ {0} /\ q.backed \in Nat
    BY <1>1, <1>2, <1>5, <1>6
  <2> DEFINE f  == q.features
             b  == q.backed
             pr == q.promoted
             ev == q.events
  <2>3. q = [p EXCEPT !.count = p.count + 1, !.features = f, !.promoted = pr, !.backed = b,
                      !.events = ev]
    BY <1>1 DEF Strengthened, Pattern
  <2>4. /\ f \in SUBSET UNION Signatures /\ b \in Nat /\ pr \in BOOLEAN /\ ev \in SUBSET Signatures
        /\ p.count + 1 \in Nat \ {0}
    BY <1>1, <1>8, <2>1, <2>2
  <2> HIDE DEF f, b, pr, ev, q
  <2> QED
    BY <1>1, <2>3, <2>4 DEF Pattern
<1>10. q.features \in q.events
  BY <1>1, <1>4, <1>5
<1>11. q.promoted <=> q.count >= MinConfirmations
  <2>1. p.promoted <=> p.count >= MinConfirmations
    BY DEF Good
  <2>2. p.count >= MinConfirmations => p.count + 1 >= MinConfirmations
    BY <1>1, NatAssumption DEF NatAssumption
  <2>3. q.promoted <=> (p.promoted \/ p.count + 1 >= MinConfirmations)
    BY <1>7
  <2> HIDE DEF q
  <2> QED
    BY <1>5, <2>1, <2>2, <2>3
<1>12. q \in Good
  BY <1>9, <1>10, <1>11 DEF Good
<1>13. KeyOf(q) = KeyOf(p)
  BY <1>5 DEF KeyOf
<1>14. p.promoted => q.promoted
  BY <1>7
<1>15. src.again = FALSE /\ src.verdict = Way(p) => q.backed = p.backed + 1
  BY <1>6
<1> HIDE DEF q
<1>16. /\ q \in Good /\ KeyOf(q) = KeyOf(p) /\ q.born = p.born
       /\ p.promoted => q.promoted
       /\ q.count = p.count + 1
       /\ src.again = FALSE /\ src.verdict = Way(p) => q.backed = p.backed + 1
  BY <1>5, <1>12, <1>13, <1>14, <1>15
<1> QED
  BY <1>16 DEF q

\* A candidate is younger than every pattern of the table.
LEMMA CandidateGood ==
    ASSUME NEW t \in Tables, NEW src \in Sources
    PROVE  LET c == Candidate(t, src) IN
           /\ c \in Good /\ ~ c.promoted /\ c.count = 1 /\ c.backed = 1
           /\ \A i \in DOMAIN t : t[i].born # c.born
<1> DEFINE B == {0} \cup {p.born : p \in Patterns(t)}
           c == Candidate(t, src)
<1>1. B \in SUBSET Nat /\ B # {}
  BY TableFacts DEF Patterns
<1>2. IsFiniteSet(B)
  <2>1. IsFiniteSet(DOMAIN t)
    BY TableFacts, FS_Interval
  <2>2. {p.born : p \in Patterns(t)} = {t[i].born : i \in DOMAIN t}
    BY DEF Patterns
  <2>3. IsFiniteSet({t[i].born : i \in DOMAIN t})
    <3> DEFINE T == {t[i].born : i \in DOMAIN t}
               f == [i \in DOMAIN t |-> t[i].born]
    <3>1. f \in Surjection(DOMAIN t, T)
      BY DEF Surjection
    <3> HIDE DEF f, T
    <3>2. IsFiniteSet(T)
      BY <2>1, <3>1, FS_Surjection
    <3> QED
      BY <3>2 DEF T
  <2>4. IsFiniteSet({0})
    BY FS_Singleton
  <2> QED
    BY <2>2, <2>3, <2>4, FS_Union
<1>3. Max(B) \in Nat /\ \A b \in B : Max(B) >= b
  BY <1>1, <1>2, MaxNat
<1>4. c.born = Max(B) + 1
  BY DEF Candidate
<1>5. \A i \in DOMAIN t : t[i].born \in B
  BY DEF Patterns
<1>6. c.born \in Nat /\ \A i \in DOMAIN t : t[i].born # c.born
  <2> DEFINE m == Max(B)
  <2>1. m \in Nat /\ c.born = m + 1
    BY <1>3, <1>4
  <2>2. ASSUME NEW i \in DOMAIN t PROVE t[i].born \in Nat /\ m >= t[i].born
    BY <1>1, <1>3, <1>5
  <2> HIDE DEF m, B
  <2>3. c.born \in Nat
    BY <2>1
  <2>4. ASSUME NEW i \in DOMAIN t PROVE t[i].born # c.born
    BY <2>1, <2>2
  <2> QED
    BY <2>3, <2>4
<1>7. src.features \in Signatures
  BY DEF Sources, Signatures
<1>8. /\ c.kind \in Kinds /\ c.named = src.features /\ c.features = src.features /\ c.count = 1
      /\ c.promoted = FALSE /\ c.backed = 1 /\ c.events = {src.features}
  BY DEF Candidate, Kinds
<1>9. c = [kind |-> c.kind, named |-> c.named, features |-> c.features, count |-> c.count,
           born |-> c.born, promoted |-> c.promoted, backed |-> c.backed, events |-> c.events]
  BY DEF Candidate
<1> HIDE DEF c
<1>10. c \in Pattern
  <2>1. c.features \in SUBSET UNION Signatures /\ c.events \in SUBSET Signatures
    BY <1>7, <1>8
  <2>2. c.count \in Nat \ {0} /\ c.backed \in Nat
    BY <1>8
  <2>3. c.promoted \in BOOLEAN
    BY <1>8
  <2> QED
    BY <1>6, <1>7, <1>8, <1>9, <2>1, <2>2, <2>3 DEF Pattern
<1>11. ~ (c.count >= MinConfirmations)
  BY <1>8, NatAssumption DEF NatAssumption
<1>12. c \in Good
  BY <1>8, <1>10, <1>11 DEF Good
<1>13. /\ c \in Good /\ ~ c.promoted /\ c.count = 1 /\ c.backed = 1
       /\ \A i \in DOMAIN t : t[i].born # c.born
  BY <1>6, <1>8, <1>12
<1> QED
  BY <1>13 DEF c

----------------------------------------------------------------------------
(* Tables                                                                  *)

\* A table with patterns has a weakest one.
LEMMA WeakestIn ==
    ASSUME NEW t \in Tables, DOMAIN t # {}
    PROVE  Weakest(t) \in DOMAIN t /\ \A j \in DOMAIN t \ {Weakest(t)} : Weaker(t[Weakest(t)], t[j])
<1> DEFINE D == DOMAIN t
           R == {p \in D \X D : Weaker(t[p[1]], t[p[2]])}
<1>1. IsFiniteSet(D)
  BY TableFacts, FS_Interval
<1>2. \A i, j \in D : <<i, j>> \in R <=> Weaker(t[i], t[j])
  OBVIOUS
<1>3. \A i \in D : t[i].count \in Nat /\ t[i].born \in Nat
  BY TableFacts, GoodFacts
<1>4. \A i, j \in D : i # j => t[i].born # t[j].born
  BY TableFacts DEF Distinct
<1> HIDE DEF R, D
<1>5. \A i \in D : ~ Weaker(t[i], t[i])
  BY <1>3 DEF Weaker
<1>6. \A i, j, k \in D : Weaker(t[i], t[j]) /\ Weaker(t[j], t[k]) => Weaker(t[i], t[k])
  BY <1>3 DEF Weaker
<1>7. \A i, j \in D : i # j => Weaker(t[i], t[j]) \/ Weaker(t[j], t[i])
  BY <1>3, <1>4 DEF Weaker
<1>8. D # {}
  BY DEF D
<1>9. \E i \in D : \A j \in D : <<j, i>> \notin R
  BY <1>1, <1>2, <1>5, <1>6, <1>8, Minimal
<1>10. \E i \in D : \A j \in D \ {i} : Weaker(t[i], t[j])
  BY <1>2, <1>7, <1>9
<1> QED
  BY <1>10 DEF Weakest, D

\* One pattern goes, the others stay.
LEMMA WithoutTable ==
    ASSUME NEW t \in Tables, NEW i \in DOMAIN t
    PROVE  /\ Without(t, i) \in Tables
           /\ Patterns(Without(t, i)) \subseteq Patterns(t)
           /\ \A j \in DOMAIN t \ {i} : t[j] \in Patterns(Without(t, i))
<1> DEFINE n == Len(t)
           a == SubSeq(t, 1, i - 1)
           b == SubSeq(t, i + 1, n)
           u == a \o b
<1>1. t \in Seq(Good) /\ n \in Nat /\ DOMAIN t = 1..n /\ i \in 1..n
  BY TableFacts
<1>2. \A k \in 1..n : t[k] \in Good
  BY TableFacts
<1> HIDE DEF n
<1>3. a \in Seq(Good) /\ Len(a) = i - 1 /\ \A k \in 1..(i - 1) : a[k] = t[k]
  <2>1. \A k \in 1..(i - 1) : t[k] \in Good
    BY <1>1, <1>2
  <2>2. /\ a \in Seq(Good) /\ Len(a) = IF 1 <= i - 1 THEN (i - 1) - 1 + 1 ELSE 0
        /\ \A k \in 1..((i - 1) - 1 + 1) : a[k] = t[1 + k - 1]
    BY <1>1, <2>1, SubSeqProperties
  <2> QED
    BY <1>1, <2>2
<1>4. b \in Seq(Good) /\ Len(b) = n - i /\ \A k \in 1..(n - i) : b[k] = t[i + k]
  <2>1. \A k \in (i + 1)..n : t[k] \in Good
    BY <1>1, <1>2
  <2>2. /\ b \in Seq(Good) /\ Len(b) = IF i + 1 <= n THEN n - (i + 1) + 1 ELSE 0
        /\ \A k \in 1..(n - (i + 1) + 1) : b[k] = t[(i + 1) + k - 1]
    BY <1>1, <2>1, SubSeqProperties
  <2> QED
    BY <1>1, <2>2
<1> HIDE DEF a, b
<1>5. /\ u \in Seq(Good) /\ Len(u) = n - 1
      /\ \A k \in 1..(n - 1) : u[k] = IF k < i THEN t[k] ELSE t[k + 1]
  <2>1. /\ u \in Seq(Good) /\ Len(u) = (i - 1) + (n - i)
        /\ \A k \in 1..((i - 1) + (n - i)) : u[k] = IF k <= i - 1 THEN a[k] ELSE b[k - (i - 1)]
    <3>1. a \in Seq(Good) /\ b \in Seq(Good) /\ Len(a) = i - 1 /\ Len(b) = n - i
      BY <1>3, <1>4
    <3>2. /\ u \in Seq(Good) /\ Len(u) = Len(a) + Len(b)
          /\ \A k \in 1..(Len(a) + Len(b)) : u[k] = IF k <= Len(a) THEN a[k] ELSE b[k - Len(a)]
      BY <3>1, ConcatProperties
    <3> QED
      BY <3>1, <3>2
  <2>2. ASSUME NEW k \in 1..(n - 1) PROVE u[k] = IF k < i THEN t[k] ELSE t[k + 1]
    <3>1. CASE k < i
      BY <1>1, <1>3, <2>1, <3>1
    <3>2. CASE ~ (k < i)
      <4>1. k - (i - 1) \in 1..(n - i) /\ i + (k - (i - 1)) = k + 1
        BY <1>1, <3>2
      <4>2. u[k] = b[k - (i - 1)]
        BY <1>1, <2>1, <3>2
      <4>3. b[k - (i - 1)] = t[k + 1]
        BY <1>4, <4>1
      <4> QED
        BY <3>2, <4>2, <4>3
    <3> QED
      BY <3>1, <3>2
  <2> QED
    BY <1>1, <2>1, <2>2
<1> HIDE DEF u
<1>6. DOMAIN u = 1..(n - 1)
  BY <1>1, <1>5
<1>7. Distinct(u)
  <2> SUFFICES ASSUME NEW k \in 1..(n - 1), NEW m \in 1..(n - 1), k # m
               PROVE  u[k].born # u[m].born
    BY <1>6 DEF Distinct
  <2>1. \A x, y \in 1..n : x # y => t[x].born # t[y].born
    BY <1>1, TableFacts DEF Distinct
  <2> DEFINE At(x) == IF x < i THEN x ELSE x + 1
  <2>2. At(k) \in 1..n /\ At(m) \in 1..n /\ At(k) # At(m)
    BY <1>1
  <2>3. u[k] = t[At(k)] /\ u[m] = t[At(m)]
    BY <1>5
  <2> HIDE DEF At
  <2> QED
    BY <2>1, <2>2, <2>3
<1>8. Patterns(u) \subseteq Patterns(t)
  <2>1. ASSUME NEW k \in 1..(n - 1) PROVE u[k] \in Patterns(t)
    <3>1. \E x \in 1..n : u[k] = t[x]
      BY <1>1, <1>5
    <3> QED
      BY <1>1, <3>1 DEF Patterns
  <2> QED
    BY <1>6, <2>1 DEF Patterns
<1>9. ASSUME NEW j \in 1..n, j # i PROVE t[j] \in Patterns(u)
  <2>1. CASE j < i
    <3>1. j \in 1..(n - 1) /\ u[j] = t[j]
      BY <1>1, <1>5, <2>1
    <3> QED
      BY <1>6, <3>1 DEF Patterns
  <2>2. CASE ~ (j < i)
    <3>1. j - 1 \in 1..(n - 1) /\ ~ (j - 1 < i) /\ (j - 1) + 1 = j
      BY <1>1, <1>9, <2>2
    <3>2. u[j - 1] = t[j]
      BY <1>5, <3>1
    <3> QED
      BY <1>6, <3>1, <3>2 DEF Patterns
  <2> QED
    BY <2>1, <2>2
<1>10. Without(t, i) = u
  BY DEF Without, u, a, b, n
<1>11. u \in Tables
  BY <1>5, <1>7 DEF Tables
<1> QED
  BY <1>1, <1>8, <1>9, <1>10, <1>11

\* Room is made by the weakest pattern, if it is made.
LEMMA RoomTable ==
    ASSUME NEW t \in Tables
    PROVE  /\ Room(t) \in Tables /\ Patterns(Room(t)) \subseteq Patterns(t)
           /\ ~ Full(t) => Room(t) = t
           /\ Full(t) => /\ Weakest(t) \in DOMAIN t
                         /\ \A j \in DOMAIN t \ {Weakest(t)} :
                              t[j] \in Patterns(Room(t)) /\ Weaker(t[Weakest(t)], t[j])
<1>1. CASE ~ Full(t)
  BY <1>1 DEF Room
<1>2. CASE Full(t)
  <2>1. DOMAIN t # {}
    BY <1>2, TableFacts, NatAssumption DEF Full, NatAssumption
  <2> QED
    BY <1>2, <2>1, WeakestIn, WithoutTable DEF Room
<1> QED
  BY <1>1, <1>2

\* A pattern takes the place of one with its key, or comes last.
LEMMA PutTable ==
    ASSUME NEW t \in Tables, NEW p \in Good, \A i \in DOMAIN t : t[i].born # p.born
    PROVE  /\ Put(t, p) \in Tables /\ p \in Patterns(Put(t, p))
           /\ Patterns(Put(t, p)) \subseteq Patterns(t) \cup {p}
           /\ \A q \in Patterns(t) : q \in Patterns(Put(t, p)) \/ KeyOf(q) = KeyOf(p)
<1> DEFINE n == Len(t)
<1>1. /\ t \in Seq(Good) /\ n \in Nat /\ DOMAIN t = 1..n
      /\ \A x, y \in 1..n : x # y => t[x].born # t[y].born
  BY TableFacts DEF Distinct
<1>2. CASE Same(t, p) = {}
  <2> DEFINE u == Append(t, p)
  <2>1. Put(t, p) = u
    BY <1>2 DEF Put
  <2>2. /\ u \in Seq(Good) /\ DOMAIN u = 1..(n + 1) /\ u[n + 1] = p
        /\ \A x \in 1..n : u[x] = t[x]
    BY <1>1, AppendProperties
  <2> HIDE DEF u, n
  <2>3. Distinct(u)
    <3> SUFFICES ASSUME NEW x \in 1..(n + 1), NEW y \in 1..(n + 1), x # y
                 PROVE  u[x].born # u[y].born
      BY <2>2 DEF Distinct
    <3>1. \A z \in 1..n : u[z].born # u[n + 1].born
      BY <1>1, <2>2
    <3>2. \A z \in 1..(n + 1) : z \in 1..n \/ z = n + 1
      BY <1>1
    <3> QED
      BY <1>1, <2>2, <3>1, <3>2
  <2>4. 1..n \subseteq 1..(n + 1) /\ n + 1 \in 1..(n + 1) /\ 1..(n + 1) = 1..n \cup {n + 1}
    BY <1>1
  <2>5. p \in Patterns(u) /\ Patterns(t) \subseteq Patterns(u)
    BY <1>1, <2>2, <2>4 DEF Patterns
  <2>6. Patterns(u) \subseteq Patterns(t) \cup {p}
    BY <1>1, <2>2, <2>4 DEF Patterns
  <2> QED
    BY <2>1, <2>2, <2>3, <2>5, <2>6 DEF Tables
<1>3. CASE Same(t, p) # {}
  <2> DEFINE i == First(Same(t, p))
             u == [t EXCEPT ![i] = p]
  <2>1. i \in 1..n /\ KeyOf(t[i]) = KeyOf(p)
    <3>1. Same(t, p) \subseteq 1..n
      BY <1>1 DEF Same
    <3>2. i \in Same(t, p)
      BY <1>1, <1>3, <3>1, FirstIn
    <3> QED
      BY <1>1, <3>2 DEF Same
  <2>2. Put(t, p) = u
    BY <1>3 DEF Put
  <2> HIDE DEF i
  <2>3. /\ u \in Seq(Good) /\ DOMAIN u = 1..n
        /\ \A x \in 1..n : u[x] = IF x = i THEN p ELSE t[x]
    BY <1>1, <2>1, ExceptSeq
  <2> HIDE DEF u, n
  <2>4. Distinct(u)
    <3> SUFFICES ASSUME NEW x \in 1..n, NEW y \in 1..n, x # y PROVE u[x].born # u[y].born
      BY <2>3 DEF Distinct
    <3> QED
      BY <1>1, <2>3
  <2>5. p \in Patterns(u) /\ \A x \in 1..n \ {i} : t[x] \in Patterns(u)
    BY <2>1, <2>3 DEF Patterns
  <2>6. Patterns(u) \subseteq Patterns(t) \cup {p}
    BY <1>1, <2>3 DEF Patterns
  <2>7. \A q \in Patterns(t) : q \in Patterns(u) \/ KeyOf(q) = KeyOf(p)
    BY <1>1, <2>1, <2>5 DEF Patterns
  <2> QED
    BY <2>2, <2>3, <2>4, <2>5, <2>6, <2>7 DEF Tables
<1> QED
  BY <1>2, <1>3

\* What one analysis does: a hit changes one pattern, otherwise a candidate is put.
LEMMA Analysis ==
    ASSUME NEW t \in Tables, NEW src \in Sources
    PROVE  \/ \E i \in DOMAIN t :
                /\ Overlaps(src.features, t[i].features)
                /\ src.verdict = "dismiss" => t[i].kind = "suppressed"
                /\ Analysed(t, src) = [t EXCEPT ![i] = Strengthened(t[i], src)]
                /\ Undone(t, src) = (IF src.again THEN {"repeated"} ELSE {})
                                     \cup (IF src.verdict # Way(t[i]) THEN {"mixed"} ELSE {})
           \/ /\ Analysed(t, src) = Put(Room(t), Candidate(t, src))
              /\ Undone(t, src) =
                   (IF Full(t) /\ t[Weakest(t)].promoted THEN {"evicted"} ELSE {})
                   \cup (IF \E i \in Same(Room(t), Candidate(t, src)) : Room(t)[i].promoted
                           THEN {"collided"} ELSE {})
<1>1. CASE Hits(t, src) # {}
  BY <1>1, HitFacts DEF Analysed, Undone
<1>2. CASE Hits(t, src) = {}
  BY <1>2 DEF Analysed, Undone
<1> QED
  BY <1>1, <1>2

LEMMA StrengthenedTable ==
    ASSUME NEW t \in Tables, NEW src \in Sources, NEW i \in DOMAIN t,
           Overlaps(src.features, t[i].features)
    PROVE  LET q == Strengthened(t[i], src)
               u == [t EXCEPT ![i] = q]
           IN  /\ u \in Tables /\ DOMAIN u = DOMAIN t
               /\ \A j \in DOMAIN t : u[j] = IF j = i THEN q ELSE t[j]
               /\ Patterns(u) \subseteq Patterns(t) \cup {q}
<1> DEFINE q == Strengthened(t[i], src)
           u == [t EXCEPT ![i] = q]
           n == Len(t)
<1>1. t \in Seq(Good) /\ n \in Nat /\ DOMAIN t = 1..n /\ t[i] \in Good /\ Distinct(t)
  BY TableFacts
<1>2. q \in Good /\ q.born = t[i].born
  BY <1>1, StrengthenedGood
<1> HIDE DEF q
<1>3. u \in Seq(Good) /\ DOMAIN u = 1..n /\ \A j \in 1..n : u[j] = IF j = i THEN q ELSE t[j]
  BY <1>1, <1>2, ExceptSeq
<1> HIDE DEF u, n
<1>4. \A j \in 1..n : u[j].born = t[j].born
  BY <1>2, <1>3
<1>5. Distinct(u)
  BY <1>1, <1>3, <1>4 DEF Distinct
<1>6. Patterns(u) \subseteq Patterns(t) \cup {q}
  BY <1>1, <1>3 DEF Patterns
<1>7. /\ u \in Tables /\ DOMAIN u = DOMAIN t
      /\ \A j \in DOMAIN t : u[j] = IF j = i THEN q ELSE t[j]
      /\ Patterns(u) \subseteq Patterns(t) \cup {q}
  BY <1>1, <1>3, <1>5, <1>6 DEF Tables
<1> QED
  BY <1>7 DEF u, q

\* What a put does to a table that has made room.
LEMMA CandidateTable ==
    ASSUME NEW t \in Tables, NEW src \in Sources
    PROVE  LET c == Candidate(t, src)
               u == Put(Room(t), c)
           IN  /\ u \in Tables /\ c \in Patterns(u) /\ Patterns(u) \subseteq Patterns(t) \cup {c}
               /\ \A q \in Patterns(Room(t)) : q \in Patterns(u) \/ KeyOf(q) = KeyOf(c)
<1> DEFINE c == Candidate(t, src)
           r == Room(t)
<1>1. r \in Tables /\ Patterns(r) \subseteq Patterns(t)
  BY RoomTable
<1>2. c \in Good /\ \A i \in DOMAIN t : t[i].born # c.born
  BY CandidateGood
<1> HIDE DEF c, r
<1>3. \A i \in DOMAIN r : r[i].born # c.born
  BY <1>1, <1>2 DEF Patterns
<1>4. /\ Put(r, c) \in Tables /\ c \in Patterns(Put(r, c))
      /\ Patterns(Put(r, c)) \subseteq Patterns(r) \cup {c}
      /\ \A q \in Patterns(r) : q \in Patterns(Put(r, c)) \/ KeyOf(q) = KeyOf(c)
  BY <1>1, <1>2, <1>3, PutTable
<1>5. Patterns(Put(r, c)) \subseteq Patterns(t) \cup {c}
  BY <1>1, <1>4
<1> QED
  BY <1>4, <1>5 DEF c, r

LEMMA AnalysedTable ==
    ASSUME NEW t \in Tables, NEW src \in Sources
    PROVE  Analysed(t, src) \in Tables
  BY Analysis, StrengthenedTable, CandidateTable

LEMMA EmptyTable == <<>> \in Tables /\ Patterns(<<>>) = {} /\ Promoted(<<>>) = {}
<1>1. <<>> \in Seq(Good) /\ DOMAIN <<>> = {}
  BY EmptySeq, LenProperties
<1>2. Patterns(<<>>) = {} /\ Distinct(<<>>)
  BY <1>1 DEF Patterns, Distinct
<1>3. Promoted(<<>>) = {}
  BY <1>2 DEF Promoted
<1> QED
  BY <1>1, <1>2, <1>3 DEF Tables

----------------------------------------------------------------------------
(* Types                                                                   *)

Shapes ==
    /\ table \in [Engines -> Tables] /\ file \in {None, Torn} \cup Tables
    /\ at \in [Engines -> {"off", "idle", "analysed", "writing"}]
    /\ primed \subseteq Key /\ nodes \subseteq Key
    /\ judged \in [Engines -> Nat] /\ current \subseteq Engines
    /\ causes \subseteq Causes

LEMMA LoadedTable == Shapes => Loaded \in Tables
  BY EmptyTable DEF Shapes, Loaded

LEMMA PromotedKeys ==
    ASSUME NEW t \in Tables
    PROVE  Promoted(t) \subseteq Key
<1>1. \A p \in Good : KeyOf(p) \in Key
  BY GoodFacts DEF KeyOf, Key
<1> QED
  BY <1>1, TableFacts DEF Promoted

LEMMA UndoneCauses ==
    ASSUME NEW t, NEW src
    PROVE  Undone(t, src) \subseteq Causes
<1>1. {"repeated", "mixed", "evicted", "collided"} \subseteq Causes
  BY DEF Causes
<1>2. CASE Hits(t, src) # {}
  BY <1>1, <1>2 DEF Undone
<1>3. CASE Hits(t, src) = {}
  BY <1>1, <1>3 DEF Undone
<1> QED
  BY <1>2, <1>3

LEMMA ShapesInit == Init => Shapes
<1> SUFFICES ASSUME Init PROVE Shapes
  OBVIOUS
<1>1. table \in [Engines -> Tables] /\ file \in {None, Torn} \cup Tables
  BY EmptyTable DEF Init
<1>2. at \in [Engines -> {"off", "idle", "analysed", "writing"}] /\ judged \in [Engines -> Nat]
  BY DEF Init
<1> QED
  BY <1>1, <1>2 DEF Init, Shapes, Engines

LEMMA ShapesStep == Shapes /\ [Next]_vars => Shapes'
<1> SUFFICES ASSUME Shapes, [Next]_vars PROVE Shapes'
  OBVIOUS
<1>1. table' \in [Engines -> Tables]
  <2>1. \/ UNCHANGED table
        \/ \E e \in Engines : \/ \E src \in Sources : table' = [table EXCEPT ![e] = Analysed(table[e], src)]
                              \/ table' = [table EXCEPT ![e] = Loaded]
                              \/ table' = [table EXCEPT ![e] = <<>>]
        \/ table' = [e \in Engines |-> IF e = Server THEN Loaded ELSE <<>>]
    BY DEF Next, Judge, Open, Write, SaveFails, PhaseBegins, PhaseEnds, Crash, PriorsReplaced, vars
  <2> QED
    BY <2>1, AnalysedTable, LoadedTable, EmptyTable DEF Shapes
<1>2. file' \in {None, Torn} \cup Tables
  <2>1. file' = file \/ file' = Torn \/ \E e \in Engines : file' = table[e]
    BY DEF Next, Judge, Open, Write, SaveFails, PhaseBegins, PhaseEnds, Crash, PriorsReplaced, vars
  <2> QED
    BY <2>1 DEF Shapes
<1>3. at' \in [Engines -> {"off", "idle", "analysed", "writing"}]
  <2>1. \/ UNCHANGED at
        \/ \E e \in Engines, s \in {"off", "idle", "analysed", "writing"} : at' = [at EXCEPT ![e] = s]
        \/ at' = [e \in Engines |-> IF e = Server THEN "idle" ELSE "off"]
    BY DEF Next, Judge, Open, Write, SaveFails, PhaseBegins, PhaseEnds, Crash, PriorsReplaced, vars
  <2> QED
    BY <2>1 DEF Shapes
<1>4. primed' \subseteq Key /\ nodes' \subseteq Key
  <2>1. ASSUME NEW src \in Sources, Judge(Server, src)
        PROVE  primed' \subseteq Key /\ nodes' \subseteq Key
    <3> DEFINE K == Promoted(Analysed(table[Server], src)) \ Promoted(table[Server])
    <3>1. K \subseteq Key
      BY AnalysedTable, PromotedKeys DEF Shapes, Engines
    <3>2. Promote(K, src.verdict)
      BY <2>1 DEF Judge
    <3> HIDE DEF K
    <3> QED
      BY <3>1, <3>2 DEF Promote, Shapes
  <2>2. ASSUME PriorsReplaced PROVE primed' \subseteq Key /\ nodes' \subseteq Key
    BY <2>2 DEF PriorsReplaced, Shapes
  <2>3. UNCHANGED promotions \/ PriorsReplaced \/ \E src \in Sources : Judge(Server, src)
    BY DEF Next, Judge, Open, Write, SaveFails, PhaseBegins, PhaseEnds, Crash, vars
  <2> QED
    BY <2>1, <2>2, <2>3 DEF promotions, Shapes
<1>5. judged' \in [Engines -> Nat]
  <2>1. UNCHANGED judged \/ \E e \in Engines : judged' = [judged EXCEPT ![e] = @ + 1]
    BY DEF Next, Judge, Open, Write, SaveFails, PhaseBegins, PhaseEnds, Crash, PriorsReplaced, vars
  <2> QED
    BY <2>1 DEF Shapes
<1>6. current' \subseteq Engines
  <2>1. UNCHANGED current \/ \E e \in Engines : current' = {e} \/ current' = current \cup {e}
    BY DEF Next, Judge, Open, Write, SaveFails, PhaseBegins, PhaseEnds, Crash, PriorsReplaced, vars,
           Engines
  <2> QED
    BY <2>1 DEF Shapes
<1>7. causes' \subseteq Causes
  <2>1. ASSUME NEW e \in Engines, NEW src \in Sources, Judge(e, src) PROVE causes' \subseteq Causes
    BY <2>1, UndoneCauses DEF Judge, Happened, Shapes, Causes
  <2>2. \/ UNCHANGED causes \/ \E e \in Engines, src \in Sources : Judge(e, src)
        \/ \E C \in SUBSET Causes : causes' = causes \cup C
    BY DEF Next, Open, Write, SaveFails, PhaseBegins, PhaseEnds, Crash, PriorsReplaced, vars,
           Happened, Unread, Causes
  <2> QED
    BY <2>1, <2>2 DEF Shapes
<1> QED
  BY <1>1, <1>2, <1>3, <1>4, <1>5, <1>6, <1>7 DEF Shapes

LEMMA ShapesType == Shapes => TypeOK
<1> SUFFICES ASSUME Shapes PROVE TypeOK
  OBVIOUS
<1>1. \A t \in Tables : t \in Seq(Pattern)
  BY SeqMonotonic DEF Tables, Good
<1>2. table \in [Engines -> Seq(Pattern)]
  BY <1>1 DEF Shapes
<1>3. file \in {None, Torn} \cup Seq(Pattern)
  BY <1>1 DEF Shapes
<1> QED
  BY <1>2, <1>3 DEF Shapes, TypeOK

\* Tables, file and graph keep the shapes the code gives them.
THEOREM TypeCorrect == Spec => []TypeOK
<1> QED
  BY ShapesInit, ShapesStep, ShapesType, PTL DEF Spec

----------------------------------------------------------------------------
(* Verdicts behind a promotion                                             *)

Backed(t) == \A p \in Patterns(t) : p.backed >= p.count

AllBacked ==
    Spared({"repeated", "mixed"}) => (\A e \in Engines : Backed(table[e])) /\ Backed(Loaded)

LEMMA CausesGrow == [Next]_vars => causes \subseteq causes'
  BY DEF Next, Judge, Open, Write, SaveFails, PhaseBegins, PhaseEnds, Crash, PriorsReplaced, vars, Happened

LEMMA AnalysedBacked ==
    ASSUME NEW t \in Tables, NEW src \in Sources, Backed(t),
           Undone(t, src) \cap {"repeated", "mixed"} = {}
    PROVE  Backed(Analysed(t, src))
<1>1. ASSUME NEW i \in DOMAIN t, Overlaps(src.features, t[i].features),
             Analysed(t, src) = [t EXCEPT ![i] = Strengthened(t[i], src)],
             Undone(t, src) = (IF src.again THEN {"repeated"} ELSE {})
                              \cup (IF src.verdict # Way(t[i]) THEN {"mixed"} ELSE {})
      PROVE  Backed(Analysed(t, src))
  <2> DEFINE q == Strengthened(t[i], src)
  <2>1. src.again \in BOOLEAN
    BY DEF Sources
  <2>2. src.again = FALSE /\ src.verdict = Way(t[i])
    BY <1>1, <2>1
  <2>3. t[i] \in Good /\ t[i].backed >= t[i].count
    BY TableFacts DEF Backed, Patterns
  <2>4. q.count = t[i].count + 1 /\ q.backed = t[i].backed + 1
    BY <1>1, <2>2, <2>3, StrengthenedGood
  <2>5. t[i].count \in Nat /\ t[i].backed \in Nat
    BY <2>3, GoodFacts
  <2>6. q.backed >= q.count
    BY <2>3, <2>4, <2>5
  <2>7. Patterns(Analysed(t, src)) \subseteq Patterns(t) \cup {q}
    BY <1>1, StrengthenedTable
  <2> QED
    BY <2>6, <2>7 DEF Backed
<1>2. ASSUME Analysed(t, src) = Put(Room(t), Candidate(t, src))
      PROVE  Backed(Analysed(t, src))
  <2> DEFINE c == Candidate(t, src)
  <2>1. c.backed = 1 /\ c.count = 1
    BY CandidateGood
  <2>2. Patterns(Analysed(t, src)) \subseteq Patterns(t) \cup {c}
    BY <1>2, CandidateTable
  <2> HIDE DEF c
  <2>3. c.backed >= c.count
    BY <2>1
  <2> QED
    BY <2>2, <2>3 DEF Backed
<1> QED
  BY <1>1, <1>2, Analysis

LEMMA BackedStep == Shapes /\ AllBacked /\ [Next]_vars => AllBacked'
<1> SUFFICES ASSUME Shapes, AllBacked, [Next]_vars, Spared({"repeated", "mixed"})'
             PROVE  (\A e \in Engines : Backed(table[e])') /\ Backed(Loaded)'
  BY DEF AllBacked
<1>1. (\A e \in Engines : Backed(table[e])) /\ Backed(Loaded) /\ Backed(<<>>)
  BY CausesGrow, EmptyTable DEF AllBacked, Spared, Backed
<1>2. ASSUME NEW e \in Engines PROVE Backed(table[e]')
  <2>1. ASSUME NEW f \in Engines, NEW src \in Sources, Judge(f, src) PROVE Backed(table[e]')
    <3>1. table' = [table EXCEPT ![f] = Analysed(table[f], src)] /\ Undone(table[f], src) \subseteq causes'
      BY <2>1 DEF Judge, Happened
    <3>2. Backed(Analysed(table[f], src))
      BY <1>1, <3>1, AnalysedBacked DEF Shapes, Spared
    <3> QED
      BY <1>1, <3>1, <3>2 DEF Shapes
  <2>2. \/ UNCHANGED table \/ \E f \in Engines, src \in Sources : Judge(f, src)
        \/ \E f \in Engines : \/ table' = [table EXCEPT ![f] = Loaded]
                              \/ table' = [table EXCEPT ![f] = <<>>]
        \/ table' = [f \in Engines |-> IF f = Server THEN Loaded ELSE <<>>]
    BY DEF Next, Open, Write, SaveFails, PhaseBegins, PhaseEnds, Crash, PriorsReplaced, vars
  <2> QED
    BY <1>1, <2>1, <2>2 DEF Shapes
<1>3. Backed(Loaded')
  <2>1. file' = file \/ file' = Torn \/ \E e \in Engines : file' = table[e]
    BY DEF Next, Judge, Open, Write, SaveFails, PhaseBegins, PhaseEnds, Crash, PriorsReplaced, vars
  <2> QED
    BY <1>1, <2>1 DEF Loaded
<1> QED
  BY <1>2, <1>3 DEF Backed

----------------------------------------------------------------------------
(* Promotions that stand                                                   *)

LEMMA PromotedIs ==
    ASSUME NEW t
    PROVE  \A k : k \in Promoted(t) <=> \E p \in Patterns(t) : p.promoted /\ KeyOf(p) = k
  BY DEF Promoted

LEMMA AnalysedKeeps ==
    ASSUME NEW t \in Tables, NEW src \in Sources,
           Undone(t, src) \cap {"evicted", "collided"} = {}
    PROVE  Promoted(t) \subseteq Promoted(Analysed(t, src))
<1> SUFFICES ASSUME NEW p \in Patterns(t), p.promoted
             PROVE  \E q \in Patterns(Analysed(t, src)) : q.promoted /\ KeyOf(q) = KeyOf(p)
  BY PromotedIs
<1>1. ASSUME NEW i \in DOMAIN t, Overlaps(src.features, t[i].features),
             Analysed(t, src) = [t EXCEPT ![i] = Strengthened(t[i], src)]
      PROVE  \E q \in Patterns(Analysed(t, src)) : q.promoted /\ KeyOf(q) = KeyOf(p)
  <2> DEFINE q == Strengthened(t[i], src)
             u == [t EXCEPT ![i] = q]
  <2>1. DOMAIN u = DOMAIN t /\ \A j \in DOMAIN t : u[j] = IF j = i THEN q ELSE t[j]
    BY <1>1, StrengthenedTable
  <2>2. KeyOf(q) = KeyOf(t[i]) /\ (t[i].promoted => q.promoted)
    BY <1>1, TableFacts, StrengthenedGood
  <2>3. PICK j \in DOMAIN t : p = t[j]
    BY DEF Patterns
  <2> HIDE DEF q, u
  <2>4. u[j].promoted /\ KeyOf(u[j]) = KeyOf(p)
    BY <2>1, <2>2, <2>3
  <2>5. u[j] \in Patterns(u)
    BY <2>1 DEF Patterns
  <2> QED
    BY <1>1, <2>4, <2>5 DEF u, q
<1>2. ASSUME Analysed(t, src) = Put(Room(t), Candidate(t, src)),
             Undone(t, src) =
                  (IF Full(t) /\ t[Weakest(t)].promoted THEN {"evicted"} ELSE {})
                  \cup (IF \E i \in Same(Room(t), Candidate(t, src)) : Room(t)[i].promoted
                          THEN {"collided"} ELSE {})
      PROVE  \E q \in Patterns(Analysed(t, src)) : q.promoted /\ KeyOf(q) = KeyOf(p)
  <2> DEFINE c == Candidate(t, src)
             r == Room(t)
  <2>1. ~ (Full(t) /\ t[Weakest(t)].promoted)
    BY <1>2
  <2>2. \A i \in Same(r, c) : ~ r[i].promoted
    BY <1>2
  <2>3. p \in Patterns(r)
    <3>1. PICK j \in DOMAIN t : p = t[j]
      BY DEF Patterns
    <3> QED
      BY <2>1, <3>1, RoomTable
  <2>4. KeyOf(p) # KeyOf(c)
    BY <2>2, <2>3 DEF Same, Patterns
  <2>5. p \in Patterns(Put(r, c))
    BY <2>3, <2>4, CandidateTable
  <2> QED
    BY <1>2, <2>5
<1> QED
  BY <1>1, <1>2, Analysis

\* A promoted pattern makes room only where all are promoted.
LEMMA Evictions ==
    ASSUME NEW t \in Tables, NEW src \in Sources, NEW p \in Patterns(t), p.promoted,
           \A q \in Patterns(Analysed(t, src)) : KeyOf(q) # KeyOf(p)
    PROVE  \A q \in Patterns(t) : q.promoted
<1>1. PICK j \in DOMAIN t : p = t[j]
  BY DEF Patterns
<1>2. ASSUME NEW i \in DOMAIN t, Overlaps(src.features, t[i].features),
             Analysed(t, src) = [t EXCEPT ![i] = Strengthened(t[i], src)]
      PROVE  FALSE
  <2> DEFINE q == Strengthened(t[i], src)
             u == [t EXCEPT ![i] = q]
  <2>1. DOMAIN u = DOMAIN t /\ \A k \in DOMAIN t : u[k] = IF k = i THEN q ELSE t[k]
    BY <1>2, StrengthenedTable
  <2>2. KeyOf(q) = KeyOf(t[i])
    BY <1>2, TableFacts, StrengthenedGood
  <2> HIDE DEF q, u
  <2>3. KeyOf(u[j]) = KeyOf(p) /\ u[j] \in Patterns(u)
    BY <1>1, <2>1, <2>2 DEF Patterns
  <2> QED
    BY <1>2, <2>3 DEF u, q
<1>3. ASSUME Analysed(t, src) = Put(Room(t), Candidate(t, src))
      PROVE  \A q \in Patterns(t) : q.promoted
  <2> DEFINE c == Candidate(t, src)
             r == Room(t)
             w == Weakest(t)
  <2>1. c \in Patterns(Put(r, c)) /\ \A q \in Patterns(r) : q \in Patterns(Put(r, c)) \/ KeyOf(q) = KeyOf(c)
    BY CandidateTable
  <2>2. p \notin Patterns(r)
    BY <1>3, <2>1
  <2>3. Full(t) /\ j = w
    BY <1>1, <2>2, RoomTable
  <2>4. \A k \in DOMAIN t \ {w} : Weaker(t[w], t[k])
    BY <2>3, RoomTable
  <2>5. \A k \in DOMAIN t : t[k] \in Good /\ t[k].count \in Nat
    BY TableFacts, GoodFacts
  <2>6. \A k \in DOMAIN t : t[k].promoted <=> t[k].count >= MinConfirmations
    BY <2>5 DEF Good
  <2> HIDE DEF w
  <2>7. \A k \in DOMAIN t : t[k].count >= t[w].count
    <3>1. \A k \in DOMAIN t : k # w => t[w].count <= t[k].count
      BY <1>1, <2>3, <2>4, <2>5 DEF Weaker
    <3> QED
      BY <1>1, <2>3, <2>5, <3>1
  <2>8. t[w].count >= MinConfirmations
    BY <1>1, <2>3, <2>6
  <2>9. \A k \in DOMAIN t : t[k].count >= MinConfirmations
    BY <1>1, <2>3, <2>5, <2>7, <2>8, NatAssumption DEF NatAssumption
  <2> QED
    BY <2>6, <2>9 DEF Patterns
<1> QED
  BY <1>2, <1>3, Analysis

ServerOn == at[Server] # "off"

LEMMA ServerOnStep == Shapes /\ ServerOn /\ [Next]_vars => ServerOn'
<1> SUFFICES ASSUME Shapes, ServerOn, [Next]_vars PROVE at'[Server] # "off"
  BY DEF ServerOn
<1>1. \/ UNCHANGED at
      \/ \E e \in Engines, s \in {"idle", "analysed", "writing"} : at' = [at EXCEPT ![e] = s]
      \/ \E e \in Engines \ {Server} : at' = [at EXCEPT ![e] = "off"]
      \/ at' = [e \in Engines |-> IF e = Server THEN "idle" ELSE "off"]
  BY DEF Next, Judge, Open, Write, SaveFails, PhaseBegins, PhaseEnds, Crash, PriorsReplaced, vars
<1> QED
  BY <1>1 DEF ServerOn, Shapes, Engines

\* While the server's engine rests, the file and every engine that knows it have
\* what the server has promoted.
Kept ==
    Spared({"evicted", "collided", "clobbered", "lost"}) /\ at[Server] = "idle" =>
        /\ file # Torn => Promoted(table[Server]) \subseteq Promoted(Loaded)
        /\ \A e \in current : at[e] # "off" => Promoted(table[Server]) \subseteq Promoted(table[e])

LEMMA LoadedIs ==
    ASSUME NEW t \in Tables
    PROVE  t \notin {None, Torn}
<1>1. t \in Seq(Pattern)
  BY SeqMonotonic DEF Tables, Good
<1> QED
  BY <1>1, FileAssumption DEF FileAssumption

LEMMA KeptStep == Shapes /\ Kept /\ ServerOn /\ [Next]_vars => Kept'
<1> SUFFICES ASSUME Shapes, Kept, ServerOn, [Next]_vars,
                    Spared({"evicted", "collided", "clobbered", "lost"})', at'[Server] = "idle"
             PROVE  /\ file' # Torn => Promoted(table'[Server]) \subseteq Promoted(Loaded')
                    /\ \A e \in current' : at'[e] # "off" =>
                         Promoted(table'[Server]) \subseteq Promoted(table'[e])
  BY DEF Kept
<1> DEFINE Goal == /\ file' # Torn => Promoted(table'[Server]) \subseteq Promoted(Loaded')
                   /\ \A e \in current' : at'[e] # "off" =>
                        Promoted(table'[Server]) \subseteq Promoted(table'[e])
<1>1. /\ "evicted" \notin causes' /\ "collided" \notin causes' /\ "clobbered" \notin causes'
      /\ "lost" \notin causes' /\ Spared({"evicted", "collided", "clobbered", "lost"})
  BY CausesGrow DEF Spared
<1>2. /\ table \in [Engines -> Tables] /\ Server \in Engines /\ current \subseteq Engines
      /\ at \in [Engines -> {"off", "idle", "analysed", "writing"}]
  BY DEF Shapes, Engines
<1>3. at[Server] = "idle" =>
        /\ file # Torn => Promoted(table[Server]) \subseteq Promoted(Loaded)
        /\ \A e \in current : at[e] # "off" => Promoted(table[Server]) \subseteq Promoted(table[e])
  BY <1>1 DEF Kept
<1>4. ASSUME NEW e \in Engines, NEW src \in Sources, Judge(e, src) PROVE Goal
  <2>1. /\ table' = [table EXCEPT ![e] = Analysed(table[e], src)] /\ file' = file /\ current' = current
        /\ at' = [at EXCEPT ![e] = "analysed"] /\ Undone(table[e], src) \subseteq causes'
    BY <1>4 DEF Judge, Happened
  <2>2. e # Server /\ at[Server] = "idle"
    BY <1>2, <2>1
  <2>3. Promoted(table[e]) \subseteq Promoted(Analysed(table[e], src))
    BY <1>1, <1>2, <2>1, AnalysedKeeps
  <2>4. table'[Server] = table[Server] /\ Loaded' = Loaded
    BY <1>2, <2>1, <2>2 DEF Loaded
  <2>5. at[e] = "idle"
    BY <1>4 DEF Judge
  <2>6. ASSUME NEW f \in current, at'[f] # "off"
        PROVE  Promoted(table[Server]) \subseteq Promoted(table'[f])
    <3>1. CASE f = e
      BY <1>2, <1>3, <2>1, <2>2, <2>3, <2>5, <3>1
    <3>2. CASE f # e
      BY <1>2, <1>3, <2>1, <2>2, <2>6, <3>2
    <3> QED
      BY <3>1, <3>2
  <2> QED
    BY <1>3, <2>1, <2>2, <2>4, <2>6
<1>5. ASSUME NEW e \in Engines, Open(e) PROVE Goal
  <2>1. /\ table' = table /\ current' = current /\ file' = Torn
        /\ at' = [at EXCEPT ![e] = "writing"] /\ at[e] = "analysed"
    BY <1>5 DEF Open
  <2>2. e # Server /\ at[Server] = "idle" /\ \A f \in current : at'[f] # "off" => at[f] # "off"
    BY <1>2, <2>1
  <2> QED
    BY <1>3, <2>1, <2>2
<1>6. ASSUME NEW e \in Engines, Write(e) PROVE Goal
  <2>1. /\ table' = table /\ current' = {e} /\ (file' = Torn \/ file' = table[e])
        /\ at' = [at EXCEPT ![e] = "idle"] /\ at[e] = "writing"
    BY <1>6 DEF Write
  <2>2. e \in current
    BY <1>1, <1>6 DEF Write, Happened
  <2>3. Promoted(table[Server]) \subseteq Promoted(table[e])
    BY <1>2, <1>3, <2>1, <2>2
  <2>4. file' # Torn => Loaded' = table[e]
    BY <1>2, <2>1, LoadedIs DEF Loaded
  <2> QED
    BY <2>1, <2>3, <2>4
<1>7. ASSUME NEW e \in Engines, PhaseBegins(e) PROVE Goal
  <2>1. /\ table' = [table EXCEPT ![e] = Loaded] /\ current' = current \cup {e} /\ file' = file
        /\ at' = [at EXCEPT ![e] = "idle"] /\ at[e] = "off" /\ file # Torn
    BY <1>1, <1>7 DEF PhaseBegins, Happened, Unread
  <2>2. e # Server /\ at[Server] = "idle"
    BY <1>2, <2>1 DEF ServerOn
  <2>3. table'[Server] = table[Server] /\ Loaded' = Loaded /\ table'[e] = Loaded
    BY <1>2, <2>1, <2>2 DEF Loaded
  <2>4. \A f \in current \ {e} : table'[f] = table[f] /\ at'[f] = at[f]
    BY <1>2, <2>1
  <2> QED
    BY <1>3, <2>1, <2>2, <2>3, <2>4
<1>8. ASSUME NEW e \in Engines, PhaseEnds(e) PROVE Goal
  <2>1. /\ table' = [table EXCEPT ![e] = <<>>] /\ current' = current /\ file' = file
        /\ at' = [at EXCEPT ![e] = "off"] /\ e # Server
    BY <1>8 DEF PhaseEnds
  <2>2. at[Server] = "idle" /\ at'[e] = "off"
    BY <1>2, <2>1
  <2>3. table'[Server] = table[Server] /\ Loaded' = Loaded
    BY <1>2, <2>1 DEF Loaded
  <2>4. \A f \in current \ {e} : table'[f] = table[f] /\ at'[f] = at[f]
    BY <1>2, <2>1
  <2> QED
    BY <1>3, <2>1, <2>2, <2>3, <2>4
<1>9. CASE Crash
  <2>1. /\ table'[Server] = Loaded /\ file' = file /\ current' = {Server}
    BY <1>2, <1>9 DEF Crash
  <2>2. Loaded' = Loaded
    BY <2>1 DEF Loaded
  <2> QED
    BY <2>1, <2>2
<1>10. CASE UNCHANGED <<table, at, file, current>>
  <2>1. Loaded' = Loaded /\ at[Server] = "idle"
    BY <1>10 DEF Loaded
  <2> QED
    BY <1>3, <1>10, <2>1
<1>11. ASSUME NEW e \in Engines, SaveFails(e) PROVE Goal
  BY <1>1, <1>11 DEF SaveFails, Happened
<1>12. \/ UNCHANGED <<table, at, file, current>> \/ Crash
       \/ \E e \in Engines : \/ Open(e) \/ Write(e) \/ SaveFails(e) \/ PhaseBegins(e) \/ PhaseEnds(e)
                             \/ \E src \in Sources : Judge(e, src)
  BY DEF Next, PriorsReplaced, vars
<1> QED
  BY <1>4, <1>5, <1>6, <1>7, <1>8, <1>9, <1>10, <1>11, <1>12

----------------------------------------------------------------------------
(* Promotions that are known                                               *)

Discovered(t) == {k \in Promoted(t) : k[1] = "discovered"}

\* A file that the server knows has only promotions that were told.
FileKnown ==
    Server \in current =>
        /\ Spared({"foreign", "clobbered", "unpublished"}) => Promoted(Loaded) \subseteq nodes
        /\ Spared({"foreign", "clobbered", "reset"}) => Discovered(Loaded) \subseteq primed

LEMMA KnownIs ==
    PromotedKnown <=>
        /\ Spared({"foreign", "clobbered", "unpublished"}) => Promoted(table[Server]) \subseteq nodes
        /\ Spared({"foreign", "clobbered", "reset"}) => Discovered(table[Server]) \subseteq primed
  BY DEF PromotedKnown, Discovered

\* A dismissal promotes only suppression patterns.
LEMMA DismissalPromotes ==
    ASSUME NEW t \in Tables, NEW src \in Sources, src.verdict = "dismiss"
    PROVE  Discovered(Analysed(t, src)) \subseteq Discovered(t)
<1> SUFFICES ASSUME NEW p \in Patterns(Analysed(t, src)), p.promoted, p.kind = "discovered"
             PROVE  p \in Patterns(t)
  BY PromotedIs DEF Discovered, KeyOf
<1>1. ASSUME NEW i \in DOMAIN t, Overlaps(src.features, t[i].features), t[i].kind = "suppressed",
             Analysed(t, src) = [t EXCEPT ![i] = Strengthened(t[i], src)]
      PROVE  p \in Patterns(t)
  <2> DEFINE q == Strengthened(t[i], src)
  <2>1. Patterns(Analysed(t, src)) \subseteq Patterns(t) \cup {q}
    BY <1>1, StrengthenedTable
  <2>2. q.kind = "suppressed"
    BY <1>1, TableFacts, GoodFacts DEF Strengthened, Pattern
  <2> HIDE DEF q
  <2> QED
    BY <2>1, <2>2
<1>2. ASSUME Analysed(t, src) = Put(Room(t), Candidate(t, src)) PROVE p \in Patterns(t)
  BY <1>2, CandidateTable, CandidateGood
<1> QED
  BY <1>1, <1>2, Analysis

LEMMA FileKnownStep ==
    Shapes /\ ServerOn /\ FileKnown /\ PromotedKnown /\ [Next]_vars => FileKnown'
<1> SUFFICES ASSUME Shapes, ServerOn, FileKnown, PromotedKnown, [Next]_vars, Server \in current'
             PROVE  /\ Spared({"foreign", "clobbered", "unpublished"})' => Promoted(Loaded') \subseteq nodes'
                    /\ Spared({"foreign", "clobbered", "reset"})' => Discovered(Loaded') \subseteq primed'
  BY DEF FileKnown, Discovered
<1> DEFINE A == Spared({"foreign", "clobbered", "unpublished"})
           B == Spared({"foreign", "clobbered", "reset"})
<1>1. (A' => A) /\ (B' => B)
  BY CausesGrow DEF Spared
<1>2. nodes \subseteq nodes'
  <2>1. ASSUME NEW e \in Engines, NEW src \in Sources, Judge(e, src) PROVE nodes \subseteq nodes'
    BY <2>1 DEF Judge, Promote, promotions
  <2>2. UNCHANGED nodes \/ \E e \in Engines, src \in Sources : Judge(e, src)
    BY DEF Next, Open, Write, SaveFails, PhaseBegins, PhaseEnds, Crash, PriorsReplaced, vars,
           promotions
  <2> QED
    BY <2>1, <2>2
<1>3. B' => primed \subseteq primed'
  <2>1. ASSUME NEW e \in Engines, NEW src \in Sources, Judge(e, src) PROVE primed \subseteq primed'
    BY <2>1 DEF Judge, Promote, promotions
  <2>2. \/ UNCHANGED primed \/ \E e \in Engines, src \in Sources : Judge(e, src)
        \/ "reset" \in causes'
    BY DEF Next, Open, Write, SaveFails, PhaseBegins, PhaseEnds, Crash, PriorsReplaced, vars,
           promotions, Happened
  <2> QED
    BY <2>1, <2>2 DEF Spared
<1>4. CASE file' = file /\ Server \in current
  <2>1. Loaded' = Loaded
    BY <1>4 DEF Loaded
  <2> QED
    BY <1>1, <1>2, <1>3, <1>4, <2>1 DEF FileKnown
<1>5. CASE file' = Torn
  <2>1. Promoted(Loaded') = {} /\ Discovered(Loaded') = {}
    BY <1>5, EmptyTable DEF Loaded, Discovered
  <2> QED
    BY <2>1
<1>6. ASSUME Write(Server), file' = table[Server]
      PROVE  (A' => Promoted(Loaded') \subseteq nodes') /\ (B' => Discovered(Loaded') \subseteq primed')
  <2>1. Loaded' = table[Server]
    BY <1>6, LoadedIs DEF Loaded, Shapes, Engines
  <2> QED
    BY <1>1, <1>2, <1>3, <2>1, KnownIs
<1>7. ASSUME Crash
      PROVE  (A' => Promoted(Loaded') \subseteq nodes') /\ (B' => Discovered(Loaded') \subseteq primed')
  <2>1. file' = file /\ (Server \in current \/ "clobbered" \in causes' \/ "foreign" \in causes')
    BY <1>7 DEF Crash, Happened
  <2>2. A' \/ B' => Server \in current
    BY <2>1 DEF Spared
  <2>3. Loaded' = Loaded
    BY <2>1 DEF Loaded
  <2> QED
    BY <1>1, <1>2, <1>3, <2>2, <2>3 DEF FileKnown
<1>8. \/ file' = file /\ Server \in current
      \/ file' = Torn \/ Crash
      \/ Write(Server) /\ file' = table[Server]
  <2>1. ASSUME NEW e \in Engines, Write(e)
        PROVE  file' = Torn \/ (e = Server /\ file' = table[Server])
    BY <2>1 DEF Write
  <2>2. ASSUME NEW e \in Engines, PhaseBegins(e), Server \notin current PROVE FALSE
    <3>1. e = Server
      BY <2>2 DEF PhaseBegins
    <3> QED
      BY <2>2, <3>1 DEF PhaseBegins, ServerOn
  <2>3. \/ file' = file /\ current' = current
        \/ file' = Torn \/ Crash
        \/ \E e \in Engines : Write(e) \/ PhaseBegins(e)
    BY DEF Next, Judge, Open, SaveFails, PhaseEnds, PriorsReplaced, vars
  <2> QED
    BY <2>1, <2>2, <2>3 DEF PhaseBegins
<1> QED
  BY <1>4, <1>5, <1>6, <1>7, <1>8

LEMMA KnownStep == Shapes /\ ServerOn /\ FileKnown /\ PromotedKnown /\ [Next]_vars => PromotedKnown'
<1> SUFFICES ASSUME Shapes, ServerOn, FileKnown, PromotedKnown, [Next]_vars
             PROVE  /\ Spared({"foreign", "clobbered", "unpublished"})' =>
                         Promoted(table'[Server]) \subseteq nodes'
                    /\ Spared({"foreign", "clobbered", "reset"})' =>
                         Discovered(table'[Server]) \subseteq primed'
  BY DEF PromotedKnown, Discovered
<1> DEFINE A == Spared({"foreign", "clobbered", "unpublished"})
           B == Spared({"foreign", "clobbered", "reset"})
           Goal == /\ A' => Promoted(table'[Server]) \subseteq nodes'
                   /\ B' => Discovered(table'[Server]) \subseteq primed'
<1>1. (A' => A) /\ (B' => B)
  BY CausesGrow DEF Spared
<1>2. /\ A => Promoted(table[Server]) \subseteq nodes
      /\ B => Discovered(table[Server]) \subseteq primed
  BY KnownIs
<1>3. table \in [Engines -> Tables] /\ Server \in Engines
  BY DEF Shapes, Engines
<1>4. ASSUME NEW src \in Sources, Judge(Server, src) PROVE Goal
  <2> DEFINE after == Analysed(table[Server], src)
             new   == Promoted(after) \ Promoted(table[Server])
  <2>1. /\ table'[Server] = after /\ Promote(new, src.verdict)
        /\ new \subseteq nodes' \/ "unpublished" \in causes'
    BY <1>3, <1>4 DEF Judge, Happened
  <2> HIDE DEF new
  <2>2. nodes \subseteq nodes' /\ primed \subseteq primed'
    BY <2>1 DEF Promote
  <2>3. A' => Promoted(after) \subseteq nodes'
    BY <1>1, <1>2, <2>1, <2>2 DEF Spared, new
  <2>4. B' => Discovered(after) \subseteq primed'
    <3>1. CASE src.verdict = "confirm"
      <4>1. new \subseteq primed'
        BY <2>1, <3>1 DEF Promote
      <4> QED
        BY <1>1, <1>2, <2>2, <4>1 DEF Discovered, new
    <3>2. CASE src.verdict = "dismiss"
      BY <1>1, <1>2, <1>3, <2>2, <3>2, DismissalPromotes
    <3> QED
      BY <3>1, <3>2 DEF Sources
  <2> QED
    BY <2>1, <2>3, <2>4
<1>5. CASE Crash
  <2>1. table'[Server] = Loaded /\ UNCHANGED promotions
    BY <1>3, <1>5 DEF Crash
  <2>2. Server \in current \/ "clobbered" \in causes' \/ "foreign" \in causes'
    BY <1>5 DEF Crash, Happened
  <2>3. A' \/ B' => Server \in current
    BY <2>2 DEF Spared
  <2> QED
    BY <1>1, <2>1, <2>3 DEF FileKnown, promotions
<1>6. CASE UNCHANGED promotions /\ table'[Server] = table[Server]
  BY <1>1, <1>2, <1>6 DEF promotions
<1>7. CASE PriorsReplaced
  <2>1. UNCHANGED table /\ UNCHANGED nodes /\ "reset" \in causes'
    BY <1>7 DEF PriorsReplaced, Happened
  <2> QED
    BY <1>1, <1>2, <2>1 DEF Spared
<1>8. \/ UNCHANGED promotions /\ table'[Server] = table[Server]
      \/ PriorsReplaced \/ Crash \/ \E src \in Sources : Judge(Server, src)
  <2>1. ASSUME NEW e \in Engines \ {Server}, NEW src \in Sources, Judge(e, src)
        PROVE  UNCHANGED promotions /\ table'[Server] = table[Server]
    BY <1>3, <2>1 DEF Judge
  <2>2. ASSUME NEW e \in Engines, PhaseBegins(e) \/ PhaseEnds(e)
        PROVE  UNCHANGED promotions /\ table'[Server] = table[Server]
    <3>1. e # Server
      BY <2>2 DEF PhaseBegins, PhaseEnds, ServerOn
    <3> QED
      BY <1>3, <2>2, <3>1 DEF PhaseBegins, PhaseEnds
  <2>3. \/ UNCHANGED <<promotions, table>> \/ PriorsReplaced \/ Crash
        \/ \E e \in Engines : \/ PhaseBegins(e) \/ PhaseEnds(e)
                              \/ \E src \in Sources : Judge(e, src)
    BY DEF Next, Open, Write, SaveFails, vars
  <2> QED
    BY <2>1, <2>2, <2>3
<1> QED
  BY <1>4, <1>5, <1>6, <1>7, <1>8

----------------------------------------------------------------------------
(* Theorems                                                                *)

IInv == Shapes /\ ServerOn /\ AllBacked /\ Kept /\ FileKnown /\ PromotedKnown

LEMMA InvInit == Init => IInv
<1> SUFFICES ASSUME Init PROVE IInv
  OBVIOUS
<1>1. Shapes
  BY ShapesInit
<1>2. /\ \A e \in Engines : table[e] = <<>>
      /\ Loaded = <<>> /\ Server \in Engines /\ current = {Server}
  BY DEF Init, Loaded, Engines
<1>3. ServerOn
  BY <1>2 DEF Init, ServerOn
<1>4. AllBacked
  BY <1>2, EmptyTable DEF AllBacked, Backed
<1>5. Kept
  BY <1>2, EmptyTable DEF Kept
<1>6. FileKnown /\ PromotedKnown
  BY <1>2, EmptyTable, KnownIs DEF FileKnown, Discovered
<1> QED
  BY <1>1, <1>3, <1>4, <1>5, <1>6 DEF IInv

\* The inductive invariant: what tables and file are made of, which verdicts are
\* behind their patterns, and what the file keeps and tells.
THEOREM Invariance == Spec => []IInv
<1>1. IInv /\ [Next]_vars => IInv'
  BY ShapesStep, ServerOnStep, BackedStep, KeptStep, FileKnownStep, KnownStep DEF IInv
<1> QED
  BY <1>1, InvInit, PTL DEF Spec

\* What a pattern asks of an event was seen in one event, and a promoted one rests
\* on as many memories judged its way as the threshold says, for all sets of two
\* to six features and every threshold.
THEOREM EarnedAlways == Spec => []PromotionEarned
<1>1. IInv => PromotionEarned
  <2> SUFFICES ASSUME IInv, NEW e \in Engines, NEW p \in Patterns(table[e])
               PROVE  /\ p.features \in p.events
                      /\ p.promoted /\ Spared({"repeated", "mixed"}) => p.backed >= MinConfirmations
    BY DEF PromotionEarned
  <2>1. p \in Good
    BY TableFacts DEF IInv, Shapes
  <2>2. p.features \in p.events /\ p.count \in Nat /\ p.backed \in Nat
    BY <2>1, GoodFacts
  <2>3. p.promoted => p.count >= MinConfirmations
    BY <2>1 DEF Good
  <2>4. Spared({"repeated", "mixed"}) => p.backed >= p.count
    BY DEF IInv, AllBacked, Backed
  <2>5. MinConfirmations \in Nat
    BY NatAssumption DEF NatAssumption
  <2>6. p.backed >= p.count /\ p.count >= MinConfirmations => p.backed >= MinConfirmations
    BY <2>2, <2>5
  <2> QED
    BY <2>2, <2>3, <2>4, <2>6
<1> QED
  BY <1>1, Invariance, PTL

\* A promoted pattern of the server is known to the graph and, if discovered, to the
\* priors, over crashes and experiments, unless a loss is recorded.
THEOREM KnownAlways == Spec => []PromotedKnown
<1>1. IInv => PromotedKnown
  BY DEF IInv
<1> QED
  BY <1>1, Invariance, PTL

\* No step takes back a promotion of the server unless a loss is recorded, and none
\* evicts a promoted pattern while there is a candidate.
THEOREM StandsAlways == Spec => PromotionStands
<1> DEFINE Stands ==
             /\ \/ Promoted(table[Server]) \subseteq Promoted(table'[Server])
                \/ causes' \cap {"evicted", "collided", "clobbered", "lost"} # {}
             /\ \A e \in Engines : \A p \in Patterns(table[e]) :
                  /\ p.promoted /\ at[e] = "idle" /\ at'[e] = "analysed"
                  /\ \A q \in Patterns(table'[e]) : KeyOf(q) # KeyOf(p)
                  => \A q \in Patterns(table[e]) : q.promoted
<1>1. ASSUME IInv, [Next]_vars
      PROVE  \/ Promoted(table[Server]) \subseteq Promoted(table'[Server])
             \/ causes' \cap {"evicted", "collided", "clobbered", "lost"} # {}
  <2>1. table \in [Engines -> Tables] /\ Server \in Engines
    BY <1>1 DEF IInv, Shapes, Engines
  <2>2. ASSUME NEW src \in Sources, Judge(Server, src), Spared({"evicted", "collided"})'
        PROVE  Promoted(table[Server]) \subseteq Promoted(table'[Server])
    <3>1. table'[Server] = Analysed(table[Server], src) /\ Undone(table[Server], src) \subseteq causes'
      BY <2>1, <2>2 DEF Judge, Happened
    <3> QED
      BY <2>1, <2>2, <3>1, AnalysedKeeps DEF Spared
  <2>3. ASSUME Crash, Spared({"evicted", "collided", "clobbered", "lost"})'
        PROVE  Promoted(table[Server]) \subseteq Promoted(table'[Server])
    <3>1. table'[Server] = Loaded /\ at[Server] = "idle" /\ file # Torn
      BY <2>1, <2>3 DEF Crash, Happened, Unread, Spared
    <3>2. Spared({"evicted", "collided", "clobbered", "lost"})
      BY <1>1, <2>3, CausesGrow DEF Spared
    <3> QED
      BY <1>1, <3>1, <3>2 DEF IInv, Kept
  <2>4. \/ table'[Server] = table[Server] \/ Crash
        \/ \E src \in Sources : Judge(Server, src)
    <3>1. ASSUME NEW e \in Engines \ {Server}, NEW src \in Sources, Judge(e, src)
          PROVE  table'[Server] = table[Server]
      BY <2>1, <3>1 DEF Judge
    <3>2. ASSUME NEW e \in Engines, PhaseBegins(e) \/ PhaseEnds(e)
          PROVE  table'[Server] = table[Server]
      <4>1. e # Server
        BY <1>1, <3>2 DEF PhaseBegins, PhaseEnds, IInv, ServerOn
      <4> QED
        BY <2>1, <3>2, <4>1 DEF PhaseBegins, PhaseEnds
    <3>3. \/ UNCHANGED table \/ Crash
          \/ \E e \in Engines : \/ PhaseBegins(e) \/ PhaseEnds(e)
                                \/ \E src \in Sources : Judge(e, src)
      BY <1>1 DEF Next, Open, Write, SaveFails, PriorsReplaced, vars
    <3> QED
      BY <3>1, <3>2, <3>3
  <2> QED
    BY <2>2, <2>3, <2>4 DEF Spared
<1>2. ASSUME IInv, [Next]_vars, NEW e \in Engines, NEW p \in Patterns(table[e]), p.promoted,
             at[e] = "idle", at'[e] = "analysed",
             \A q \in Patterns(table'[e]) : KeyOf(q) # KeyOf(p)
      PROVE  \A q \in Patterns(table[e]) : q.promoted
  <2>1. /\ table \in [Engines -> Tables]
        /\ at \in [Engines -> {"off", "idle", "analysed", "writing"}]
    BY <1>2 DEF IInv, Shapes
  <2>2. PICK src \in Sources : Judge(e, src)
    <3>1. ASSUME NEW f \in Engines, NEW src \in Sources, Judge(f, src) PROVE f = e
      BY <1>2, <2>1, <3>1 DEF Judge
    <3>2. \/ UNCHANGED at \/ \E f \in Engines, src \in Sources : Judge(f, src)
          \/ \E f \in Engines, s \in {"off", "idle", "writing"} : at' = [at EXCEPT ![f] = s]
          \/ at' = [f \in Engines |-> IF f = Server THEN "idle" ELSE "off"]
      BY <1>2 DEF Next, Open, Write, SaveFails, PhaseBegins, PhaseEnds, Crash, PriorsReplaced, vars
    <3> QED
      BY <1>2, <2>1, <3>1, <3>2
  <2>3. table'[e] = Analysed(table[e], src)
    BY <2>1, <2>2 DEF Judge
  <2> QED
    BY <1>2, <2>1, <2>3, Evictions
<1>3. IInv /\ [Next]_vars => Stands
  BY <1>1, <1>2
<1>4. Stands => [Stands]_vars
  OBVIOUS
<1> QED
  BY <1>3, Invariance, PTL DEF Spec, PromotionStands
====
