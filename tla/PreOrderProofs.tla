---------------------------- MODULE PreOrderProofs ----------------------------
(***************************************************************************)
(* Lemmas about trees in pre-order and about parts of sequences, for the   *)
(* proofs about the components that are defined with them.  What would be  *)
(* shown by induction is shown by way of a least number.                   *)
(***************************************************************************)
EXTENDS PreOrder, FiniteSetTheorems, FunctionTheorems, WellFoundedInduction, TLAPS

LEMMA LeastNumber ==
  ASSUME NEW S, S \subseteq Nat, S # {}
  PROVE  \E m \in S : \A k \in S : m <= k
<1>1. \E m \in S : \A k \in S : ~ (<<k, m>> \in OpToRel(<, Nat))
  BY NatLessThanWellFounded, WFMin
<1>2. ASSUME NEW k \in S, NEW m \in S, ~ (<<k, m>> \in OpToRel(<, Nat))
      PROVE  m <= k
  BY <1>2 DEF OpToRel
<1> QED
  BY <1>1, <1>2

\* Every number of a set up to a bound has a greatest.
LEMMA GreatestNumber ==
  ASSUME NEW S, S \subseteq Nat, S # {}, NEW b \in Nat, \A k \in S : k <= b
  PROVE  \E m \in S : \A k \in S : k <= m
<1> DEFINE T == {c \in Nat : \A k \in S : k <= c}
<1>1. PICK c \in T : \A d \in T : c <= d
  <2>1. b \in T /\ T \subseteq Nat
    OBVIOUS
  <2> QED
    BY <2>1, LeastNumber
<1>2. c \in S
  <2> SUFFICES ASSUME c \notin S PROVE FALSE
    OBVIOUS
  <2>1. PICK k \in S : TRUE
    OBVIOUS
  <2>2. k <= c /\ k # c /\ k \in Nat
    BY <1>1, <2>1
  <2>3. c - 1 \in T
    <3>1. \A l \in S : l \in Nat /\ l <= c /\ l # c
      BY <1>1
    <3>2. c \in Nat /\ c - 1 \in Nat
      BY <1>1, <2>2
    <3> QED
      BY <3>1, <3>2
  <2> QED
    BY <1>1, <2>3
<1> QED
  BY <1>1, <1>2

-----------------------------------------------------------------------------
LEMMA PartIsFinite ==
  ASSUME NEW n \in Nat, NEW P \in SUBSET (1..n)
  PROVE  /\ IsFiniteSet(P) /\ Cardinality(P) \in 0..n
         /\ Cardinality(P) = 0 <=> P = {}
<1>1. IsFiniteSet(1..n) /\ Cardinality(1..n) = n
  <2>1. (IF 1 > n THEN 0 ELSE n - 1 + 1) = n
    OBVIOUS
  <2> QED
    BY <2>1, FS_Interval
<1>2. P \subseteq 1..n
  OBVIOUS
<1>3. IsFiniteSet(P) /\ Cardinality(P) <= n
  BY <1>1, <1>2, FS_Subset
<1>4. Cardinality(P) \in Nat
  BY <1>3, FS_CardinalityType
<1>5. Cardinality(P) \in 0..n
  BY <1>3, <1>4
<1>6. Cardinality(P) = 0 <=> P = {}
  BY <1>3, FS_EmptySet
<1> QED
  BY <1>3, <1>5, <1>6

\* What is below a number, and up to it.
LEMMA BeforeIsFinite ==
  ASSUME NEW n \in Nat, NEW P \in SUBSET (1..n), NEW i
  PROVE  /\ IsFiniteSet({k \in P : k < i}) /\ Cardinality({k \in P : k < i}) \in Nat
         /\ IsFiniteSet({k \in P : k <= i}) /\ Cardinality({k \in P : k <= i}) \in Nat
<1>1. {k \in P : k < i} \in SUBSET (1..n) /\ {k \in P : k <= i} \in SUBSET (1..n)
  OBVIOUS
<1>2. \A Q \in SUBSET (1..n) : IsFiniteSet(Q) /\ Cardinality(Q) \in Nat
  BY PartIsFinite
<1> QED
  BY <1>1, <1>2

LEMMA NthFacts ==
  ASSUME NEW n \in Nat, NEW P \in SUBSET (1..n), NEW j \in 1..Cardinality(P)
  PROVE  Nth(P, j) \in P /\ Cardinality({k \in P : k < Nth(P, j)}) = j - 1
<1> DEFINE upTo(i) == {k \in P : k <= i}
           C(i)    == Cardinality(upTo(i))
<1>0. P \subseteq Nat /\ (\A k \in P : 1 <= k /\ k <= n) /\ Cardinality(P) \in Nat
  BY PartIsFinite
<1>2. ASSUME NEW i \in Nat PROVE IsFiniteSet(upTo(i)) /\ C(i) \in Nat
  BY BeforeIsFinite
<1> DEFINE T == {i \in Nat : C(i) >= j}
<1>3. n \in T
  <2>1. upTo(n) = P
    BY <1>0
  <2>2. C(n) >= j
    BY <2>1, <1>0
  <2> QED
    BY <2>2
<1>4. PICK m \in T : \A i \in T : m <= i
  <2> HIDE DEF C
  <2>1. T \subseteq Nat
    OBVIOUS
  <2> QED
    BY <2>1, <1>3, LeastNumber
<1>5. m # 0
  <2>1. upTo(0) = {}
    <3>1. \A k \in P : ~ (k <= 0)
      BY <1>0
    <3> QED
      BY <3>1
  <2>2. C(0) = 0
    BY <2>1, FS_EmptySet
  <2> HIDE DEF C
  <2> QED
    BY <1>4, <2>2
<1>51. m \in Nat /\ C(m) >= j
  <2> HIDE DEF C
  <2> QED
    BY <1>4
<1>6. m - 1 \in Nat /\ C(m - 1) \in Nat /\ C(m - 1) < j
  <2> HIDE DEF C
  <2>1. m - 1 \in Nat /\ m - 1 < m
    BY <1>51, <1>5
  <2>2. m - 1 \notin T
    BY <2>1, <1>4, <1>51
  <2>3. C(m - 1) \in Nat
    BY <2>1, <1>2
  <2>4. ~ (C(m - 1) >= j)
    BY <2>1, <2>2
  <2> QED
    BY <2>1, <2>3, <2>4, <1>0
<1>61. \A k \in P : /\ k <= m - 1 <=> k < m
                    /\ k <= m <=> k <= m - 1 \/ k = m
  BY <1>0, <1>51
<1>7. m \in P /\ C(m) = C(m - 1) + 1
  <2>1. CASE m \in P
    <3>1. upTo(m) = upTo(m - 1) \cup {m}
      BY <1>61, <2>1
    <3>2. m \notin upTo(m - 1)
      BY <1>51
    <3>3. IsFiniteSet(upTo(m - 1))
      BY <1>2, <1>6
    <3> HIDE DEF upTo
    <3>4. Cardinality(upTo(m - 1) \cup {m}) = Cardinality(upTo(m - 1)) + 1
      BY <3>2, <3>3, FS_AddElement
    <3> QED
      BY <2>1, <3>1, <3>4
  <2>2. CASE m \notin P
    <3>1. upTo(m) = upTo(m - 1)
      BY <1>61, <2>2
    <3> HIDE DEF upTo
    <3> QED
      BY <3>1, <1>51, <1>6
  <2> QED
    BY <2>1, <2>2
<1>8. {k \in P : k < m} = upTo(m - 1)
  BY <1>61
<1>9. C(m - 1) = j - 1
  <2> HIDE DEF C
  <2> QED
    BY <1>51, <1>6, <1>7, <1>0
<1>10. m \in P /\ Cardinality({k \in P : k < m}) = j - 1
  BY <1>7, <1>8, <1>9
<1> QED
  BY <1>10 DEF Nth

\* The positions come in order, and each of them comes.
LEMMA NthOrder ==
  ASSUME NEW n \in Nat, NEW P \in SUBSET (1..n)
  PROVE  /\ \A i, j \in 1..Cardinality(P) : i < j => Nth(P, i) < Nth(P, j)
         /\ \A p \in P : \E j \in 1..Cardinality(P) : Nth(P, j) = p
<1> DEFINE before(p) == {k \in P : k < p}
<1>0. P \subseteq Nat /\ IsFiniteSet(P) /\ Cardinality(P) \in Nat
  BY PartIsFinite
<1>1. ASSUME NEW p PROVE IsFiniteSet(before(p)) /\ Cardinality(before(p)) \in Nat
  BY BeforeIsFinite
<1>2. ASSUME NEW p \in P, NEW q \in P, q < p
      PROVE  Cardinality(before(q)) < Cardinality(before(p))
  <2>1. before(q) \cup {q} \subseteq before(p) /\ q \notin before(q)
    <3>1. p \in Nat /\ q \in Nat
      BY <1>0
    <3>2. \A k \in P : k < q => k < p
      BY <3>1, <1>0, <1>2
    <3>3. ~ (q < q)
      BY <3>1
    <3>4. before(q) \subseteq before(p)
      BY <3>2
    <3> QED
      BY <3>3, <3>4, <1>2
  <2> HIDE DEF before
  <2>2. Cardinality(before(q) \cup {q}) = Cardinality(before(q)) + 1
    BY <2>1, <1>1, FS_AddElement
  <2>3. Cardinality(before(q) \cup {q}) <= Cardinality(before(p))
    BY <2>1, <1>1, FS_Subset
  <2>4. Cardinality(before(q)) \in Nat /\ Cardinality(before(p)) \in Nat
    BY <1>1
  <2> QED
    BY <2>2, <2>3, <2>4
<1>3. ASSUME NEW i \in 1..Cardinality(P), NEW j \in 1..Cardinality(P), i < j
      PROVE  Nth(P, i) < Nth(P, j)
  <2>1. /\ Nth(P, i) \in P /\ Cardinality(before(Nth(P, i))) = i - 1
        /\ Nth(P, j) \in P /\ Cardinality(before(Nth(P, j))) = j - 1
    BY NthFacts
  <2> HIDE DEF before
  <2>2. Nth(P, i) \in Nat /\ Nth(P, j) \in Nat
    BY <2>1, <1>0
  <2>3. CASE Nth(P, j) < Nth(P, i)
    <3>1. j - 1 < i - 1
      BY <2>1, <2>3, <1>2
    <3> QED
      BY <3>1, <1>0, <1>3
  <2>4. CASE Nth(P, j) = Nth(P, i)
    <3>1. j - 1 = i - 1
      BY <2>1, <2>4
    <3> QED
      BY <3>1, <1>0, <1>3
  <2> QED
    BY <2>2, <2>3, <2>4
<1>4. ASSUME NEW p \in P
      PROVE  \E j \in 1..Cardinality(P) : Nth(P, j) = p
  <2> DEFINE j == Cardinality(before(p)) + 1
  <2>1. j \in 1..Cardinality(P)
    <3>1. before(p) \cup {p} \subseteq P /\ p \notin before(p)
      BY <1>0, <1>4
    <3> HIDE DEF before
    <3>3. Cardinality(before(p) \cup {p}) = Cardinality(before(p)) + 1
      BY <3>1, <1>1, FS_AddElement
    <3>4. Cardinality(before(p) \cup {p}) <= Cardinality(P)
      BY <3>1, <1>0, FS_Subset
    <3>5. Cardinality(before(p)) \in Nat
      BY <1>1
    <3> QED
      BY <3>3, <3>4, <3>5, <1>0
  <2>2. Nth(P, j) \in P /\ Cardinality(before(Nth(P, j))) = j - 1
    BY <2>1, NthFacts
  <2> HIDE DEF before
  <2>3. Nth(P, j) \in Nat /\ p \in Nat /\ Cardinality(before(p)) \in Nat
    BY <2>2, <1>0, <1>1
  <2>4. ~(Nth(P, j) < p) /\ ~(p < Nth(P, j))
    BY <2>2, <2>3, <1>2
  <2>5. Nth(P, j) = p
    BY <2>3, <2>4
  <2> HIDE DEF j
  <2> QED
    BY <2>1, <2>5
<1> QED
  BY <1>3, <1>4

LEMMA SelectedFacts ==
  ASSUME NEW S, NEW s \in Seq(S), NEW P \in SUBSET DOMAIN s
  PROVE  /\ Selected(s, P) \in Seq(S) /\ Len(Selected(s, P)) = Cardinality(P)
         /\ Cardinality(P) \in Nat /\ DOMAIN Selected(s, P) = 1..Cardinality(P)
         /\ \A j \in 1..Cardinality(P) : Nth(P, j) \in P /\ Selected(s, P)[j] = s[Nth(P, j)]
<1>1. DOMAIN s = 1..Len(s) /\ Len(s) \in Nat /\ P \in SUBSET (1..Len(s))
  OBVIOUS
<1>2. Cardinality(P) \in Nat
  BY <1>1, PartIsFinite
<1>3. \A j \in 1..Cardinality(P) : Nth(P, j) \in P
  BY <1>1, NthFacts
<1>4. \A j \in 1..Cardinality(P) : s[Nth(P, j)] \in S
  BY <1>1, <1>3
<1>5. Selected(s, P) \in [1..Cardinality(P) -> S]
  BY <1>4 DEF Selected
<1>6. Selected(s, P) \in Seq(S) /\ Len(Selected(s, P)) = Cardinality(P)
  BY <1>2, <1>5
<1> QED
  BY <1>2, <1>3, <1>6 DEF Selected

-----------------------------------------------------------------------------
\* One sequence after another, with the elements of both.  (The name keeps the provers
\* from expanding it.)
Cat(a, b) == a \o b

LEMMA CatFacts ==
  ASSUME NEW S, NEW a \in Seq(S), NEW b \in Seq(S)
  PROVE  /\ Cat(a, b) \in Seq(S) /\ Len(Cat(a, b)) = Len(a) + Len(b)
         /\ DOMAIN Cat(a, b) = 1..(Len(a) + Len(b))
         /\ Len(a) \in Nat /\ Len(b) \in Nat
         /\ \A i \in 1..Len(a) : Cat(a, b)[i] = a[i]
         /\ \A i \in (Len(a) + 1)..(Len(a) + Len(b)) : Cat(a, b)[i] = b[i - Len(a)]
BY DEF Cat

\* Where a value stands in a sequence, and how often.
Places(s, v) == {i \in DOMAIN s : s[i] = v}

LEMMA PlacesFinite ==
  ASSUME NEW S, NEW s \in Seq(S), NEW v
  PROVE  /\ IsFiniteSet(Places(s, v)) /\ Cardinality(Places(s, v)) \in Nat
         /\ \A i \in Places(s, v) : Cardinality(Places(s, v)) >= 1
<1>1. Len(s) \in Nat /\ Places(s, v) \in SUBSET (1..Len(s))
  BY DEF Places
<1>2. /\ IsFiniteSet(Places(s, v)) /\ Cardinality(Places(s, v)) \in 0..Len(s)
      /\ Cardinality(Places(s, v)) = 0 <=> Places(s, v) = {}
  BY <1>1, PartIsFinite
<1>3. Cardinality(Places(s, v)) \in Nat
  BY <1>1, <1>2
<1> QED
  BY <1>2, <1>3

LEMMA ShiftedCount ==
  ASSUME NEW A \in SUBSET Int, IsFiniteSet(A), NEW m \in Int, NEW B, B = {i + m : i \in A}
  PROVE  IsFiniteSet(B) /\ Cardinality(B) = Cardinality(A)
<1> DEFINE f == [i \in A |-> i + m]
<1>1. f \in [A -> B]
  OBVIOUS
<1>2. \A i, j \in A : f[i] = f[j] => i = j
  OBVIOUS
<1>3. \A k \in B : \E i \in A : f[i] = k
  OBVIOUS
<1> HIDE DEF f
<1>4. f \in Bijection(A, B)
  BY <1>1, <1>2, <1>3, Fun_IsBij
<1>5. ExistsBijection(A, B)
  BY <1>4 DEF ExistsBijection
<1> QED
  BY <1>5, FS_Bijection

LEMMA PlacesOfCat ==
  ASSUME NEW S, NEW a \in Seq(S), NEW b \in Seq(S), NEW v
  PROVE  Cardinality(Places(Cat(a, b), v)) = Cardinality(Places(a, v)) + Cardinality(Places(b, v))
<1> DEFINE c == Cat(a, b)
           m == Len(a)
           B == {i + m : i \in Places(b, v)}
<1>1. /\ c \in Seq(S) /\ DOMAIN c = 1..(m + Len(b)) /\ DOMAIN a = 1..m /\ DOMAIN b = 1..Len(b)
      /\ m \in Nat /\ Len(b) \in Nat
      /\ \A i \in 1..m : c[i] = a[i]
      /\ \A i \in (m + 1)..(m + Len(b)) : c[i] = b[i - m]
  <2>1. /\ Cat(a, b) \in Seq(S) /\ DOMAIN Cat(a, b) = 1..(Len(a) + Len(b))
        /\ Len(a) \in Nat /\ Len(b) \in Nat
        /\ \A i \in 1..Len(a) : Cat(a, b)[i] = a[i]
        /\ \A i \in (Len(a) + 1)..(Len(a) + Len(b)) : Cat(a, b)[i] = b[i - Len(a)]
    BY CatFacts
  <2>2. DOMAIN a = 1..Len(a) /\ DOMAIN b = 1..Len(b)
    OBVIOUS
  <2> QED
    BY <2>1, <2>2
<1> HIDE DEF c, m
<1>2. ASSUME NEW k \in Places(c, v) PROVE k \in Places(a, v) \cup B
  <2>1. k \in 1..(m + Len(b)) /\ c[k] = v
    BY <1>1 DEF Places
  <2>2. CASE k <= m
    <3>1. k \in 1..m
      BY <2>1, <2>2, <1>1
    <3> QED
      BY <2>1, <3>1, <1>1 DEF Places
  <2>3. CASE ~(k <= m)
    <3>1. k \in (m + 1)..(m + Len(b)) /\ k - m \in 1..Len(b) /\ k = (k - m) + m
      BY <2>1, <2>3, <1>1
    <3>2. k - m \in Places(b, v)
      BY <2>1, <3>1, <1>1 DEF Places
    <3> QED
      BY <3>1, <3>2
  <2> QED
    BY <2>2, <2>3
<1>3. ASSUME NEW k \in B PROVE k \in Places(c, v) /\ k \in (m + 1)..(m + Len(b))
  <2>1. PICK i \in Places(b, v) : k = i + m
    OBVIOUS
  <2>2. i \in 1..Len(b) /\ b[i] = v
    BY <1>1 DEF Places
  <2>3. k \in (m + 1)..(m + Len(b)) /\ k \in 1..(m + Len(b)) /\ k - m = i
    BY <2>1, <2>2, <1>1
  <2> QED
    BY <2>2, <2>3, <1>1 DEF Places
<1>4. ASSUME NEW k \in Places(a, v) PROVE k \in Places(c, v) /\ k \in 1..m
  <2>1. k \in 1..m /\ a[k] = v
    BY <1>1 DEF Places
  <2>2. k \in 1..(m + Len(b))
    BY <2>1, <1>1
  <2> QED
    BY <2>1, <2>2, <1>1 DEF Places
<1>5. Places(c, v) = Places(a, v) \cup B
  BY <1>2, <1>3, <1>4
<1>6. Places(a, v) \cap B = {}
  <2> SUFFICES ASSUME NEW k \in Places(a, v), k \in B PROVE FALSE
    OBVIOUS
  <2>1. k \in 1..m /\ k \in (m + 1)..(m + Len(b))
    BY <1>3, <1>4
  <2> QED
    BY <2>1, <1>1
<1>7. /\ IsFiniteSet(Places(a, v)) /\ Cardinality(Places(a, v)) \in Nat
      /\ IsFiniteSet(Places(b, v)) /\ Cardinality(Places(b, v)) \in Nat
  BY PlacesFinite
<1>8. IsFiniteSet(B) /\ Cardinality(B) = Cardinality(Places(b, v))
  <2>1. Places(b, v) \in SUBSET Int /\ m \in Int /\ B = {i + m : i \in Places(b, v)}
    BY <1>1 DEF Places
  <2> HIDE DEF B
  <2> QED
    BY <2>1, <1>7, ShiftedCount
<1> HIDE DEF B
<1>9. Cardinality(Places(a, v) \cup B)
        = Cardinality(Places(a, v)) + Cardinality(B) - Cardinality(Places(a, v) \cap B)
  BY <1>7, <1>8, FS_Union
<1>10. Cardinality(Places(a, v) \cap B) = 0
  BY <1>6, FS_EmptySet
<1>11. Cardinality(Places(a, v) \cup B) = Cardinality(Places(a, v)) + Cardinality(Places(b, v))
  BY <1>7, <1>8, <1>9, <1>10
<1> QED
  BY <1>5, <1>11 DEF c

-----------------------------------------------------------------------------
\* What a tree in pre-order says of one child.
LEMMA KidFacts ==
  ASSUME NEW S, NEW g \in Seq(S), PreOrderTree(g),
         NEW h \in DOMAIN g, NEW i \in DOMAIN g[h].kids
  PROVE  /\ g[h].kids[i] \in DOMAIN g /\ h \in Nat /\ g[h].kids[i] \in Nat /\ h < g[h].kids[i]
         /\ \A j \in 1..(i - 1) : g[h].kids[j] < g[h].kids[i]
         /\ \A p \in DOMAIN g : \A j \in DOMAIN g[p].kids :
              /\ g[p].kids[j] = g[h].kids[i] => p = h /\ j = i
              /\ p < g[h].kids[i] /\ g[h].kids[i] < g[p].kids[j] => p <= h
<1>1. DOMAIN g = 1..Len(g) /\ Len(g) \in Nat
  OBVIOUS
<1>2. /\ g[h].kids[i] \in (h + 1)..Len(g)
      /\ \A j \in 1..(i - 1) : g[h].kids[j] < g[h].kids[i]
  BY DEF PreOrderTree
<1>3. \A p \in DOMAIN g : \A j \in DOMAIN g[p].kids :
        /\ g[p].kids[j] = g[h].kids[i] => p = h /\ j = i
        /\ p < g[h].kids[i] /\ g[h].kids[i] < g[p].kids[j] => p <= h
  BY DEF PreOrderTree
<1>4. g[h].kids[i] \in DOMAIN g /\ h \in Nat /\ g[h].kids[i] \in Nat /\ h < g[h].kids[i]
  BY <1>1, <1>2
<1> QED
  BY <1>2, <1>3, <1>4

\* Every statement but the first is a child.
LEMMA HasHolder ==
  ASSUME NEW S, NEW g \in Seq(S), PreOrderTree(g), NEW c \in DOMAIN g, c # 1
  PROVE  \E p \in DOMAIN g : \E i \in DOMAIN g[p].kids : g[p].kids[i] = c
<1>1. c \in 2..Len(g)
  OBVIOUS
<1> QED
  BY <1>1 DEF PreOrderTree

LEMMA BelowSelf ==
  ASSUME NEW S, NEW g \in Seq(S), NEW n \in DOMAIN g
  PROVE  n \in Below(g, n)
<1>1. n \in n..Len(g)
  OBVIOUS
<1> QED
  BY <1>1 DEF Below

LEMMA BelowInTree ==
  ASSUME NEW S, NEW g \in Seq(S), NEW n \in DOMAIN g, NEW m \in Below(g, n)
  PROVE  m \in DOMAIN g /\ n <= m
<1>1. m \in n..Len(g)
  BY DEF Below
<1> QED
  BY <1>1

\* What is below a statement and is a child: its parent is below that statement too.
LEMMA BelowHolder ==
  ASSUME NEW S, NEW g \in Seq(S), PreOrderTree(g), NEW d \in DOMAIN g,
         NEW h \in DOMAIN g, NEW i \in DOMAIN g[h].kids,
         g[h].kids[i] \in Below(g, d), g[h].kids[i] # d
  PROVE  h \in Below(g, d)
<1> DEFINE k == g[h].kids[i]
<1>1. DOMAIN g = 1..Len(g) /\ Len(g) \in Nat
  OBVIOUS
<1>2. k \in DOMAIN g /\ k \in Nat /\ h \in Nat /\ h < k /\ d <= k /\ d # k /\ d \in Nat
  BY <1>1, KidFacts, BelowInTree
<1>3. \A p \in 1..(d - 1) : \A j \in DOMAIN g[p].kids : d < g[p].kids[j] => k < g[p].kids[j]
  BY DEF Below
<1>4. d <= h
  <2> SUFFICES ASSUME h < d PROVE FALSE
    BY <1>2
  <2>1. h \in 1..(d - 1) /\ d < g[h].kids[i]
    BY <1>1, <1>2
  <2>2. k < k
    BY <1>3, <2>1
  <2> QED
    BY <2>2, <1>2
<1>5. ASSUME NEW p \in 1..(d - 1), NEW j \in DOMAIN g[p].kids, d < g[p].kids[j]
      PROVE  h < g[p].kids[j]
  <2>1. p \in DOMAIN g
    BY <1>1, <1>2
  <2>2. g[p].kids[j] \in Nat
    BY <2>1, KidFacts
  <2>3. k < g[p].kids[j]
    BY <1>3, <1>5
  <2> QED
    BY <2>2, <2>3, <1>2
<1>6. h \in d..Len(g)
  BY <1>1, <1>2, <1>4
<1> QED
  BY <1>5, <1>6 DEF Below

\* What is below a statement is that statement, or below a child of it.
LEMMA BelowSplit ==
  ASSUME NEW S, NEW g \in Seq(S), PreOrderTree(g), NEW h \in DOMAIN g,
         NEW n \in Below(g, h), n # h
  PROVE  \E i \in DOMAIN g[h].kids : n \in Below(g, g[h].kids[i])
<1>1. DOMAIN g = 1..Len(g) /\ Len(g) \in Nat /\ h \in Nat /\ n \in 1..Len(g) /\ h < n
  BY BelowInTree
<1>2. \A p \in 1..(h - 1) : \A j \in DOMAIN g[p].kids : h < g[p].kids[j] => n < g[p].kids[j]
  BY DEF Below
<1>3. \E i \in DOMAIN g[h].kids : g[h].kids[i] = h + 1
  <2>1. h + 1 \in DOMAIN g /\ h + 1 # 1
    BY <1>1
  <2>2. PICK p \in DOMAIN g : \E i \in DOMAIN g[p].kids : g[p].kids[i] = h + 1
    BY <2>1, HasHolder
  <2>3. PICK i \in DOMAIN g[p].kids : g[p].kids[i] = h + 1
    BY <2>2
  <2>4. p < h + 1 /\ p \in Nat
    BY <2>3, KidFacts
  <2>5. p = h
    <3> SUFFICES ASSUME p # h PROVE FALSE
      OBVIOUS
    <3>1. p \in 1..(h - 1) /\ h < g[p].kids[i]
      BY <2>3, <2>4, <1>1
    <3>2. n < h + 1
      BY <3>1, <2>3, <1>2
    <3> QED
      BY <3>2, <1>1
  <2> QED
    BY <2>3, <2>5
<1> DEFINE K == {g[h].kids[i] : i \in {j \in DOMAIN g[h].kids : g[h].kids[j] <= n}}
<1>4. PICK k \in K : \A l \in K : l <= k
  <2>1. h + 1 \in K
    BY <1>1, <1>3
  <2>2. K \subseteq Nat
    BY KidFacts
  <2>3. \A l \in K : l <= n
    OBVIOUS
  <2> HIDE DEF K
  <2>4. n \in Nat /\ K # {}
    BY <2>1, <1>1
  <2> QED
    BY <2>2, <2>3, <2>4, GreatestNumber
<1>5. PICK i \in DOMAIN g[h].kids : g[h].kids[i] = k /\ k <= n
  BY <1>4
<1>6. k \in DOMAIN g /\ k \in Nat /\ h < k
  BY <1>5, KidFacts
<1>7. ASSUME NEW p \in 1..(k - 1), NEW j \in DOMAIN g[p].kids, k < g[p].kids[j]
      PROVE  n < g[p].kids[j]
  <2> DEFINE c == g[p].kids[j]
  <2>1. p \in DOMAIN g /\ p \in Nat /\ p < k
    BY <1>1, <1>6
  <2>2. c \in Nat
    BY <2>1, KidFacts
  <2>3. p <= h
    BY <2>1, <1>5, <1>7, KidFacts
  <2>4. CASE p < h
    <3>1. p \in 1..(h - 1) /\ h < c
      BY <2>1, <2>2, <2>4, <1>1, <1>6, <1>7
    <3> QED
      BY <3>1, <1>2
  <2>5. CASE p = h
    <3> SUFFICES ASSUME c <= n PROVE FALSE
      BY <2>2, <1>1
    <3>1. c \in K
      BY <2>5
    <3>2. c <= k
      BY <3>1, <1>4
    <3> QED
      BY <3>2, <2>2, <1>6, <1>7
  <2> QED
    BY <2>1, <2>3, <2>4, <2>5, <1>1
<1>8. n \in k..Len(g)
  BY <1>1, <1>5, <1>6
<1>9. n \in Below(g, k)
  BY <1>7, <1>8 DEF Below
<1> QED
  BY <1>5, <1>9

\* The children of a statement precede the later children of what holds it.
LEMMA KidBeforeUncle ==
  ASSUME NEW S, NEW g \in Seq(S), PreOrderTree(g),
         NEW h \in DOMAIN g, NEW i \in DOMAIN g[h].kids,
         NEW p \in DOMAIN g, NEW j \in DOMAIN g[p].kids, p < h, h < g[p].kids[j]
  PROVE  g[h].kids[i] < g[p].kids[j]
<1> DEFINE k == g[h].kids[i]
           c == g[p].kids[j]
<1>1. h \in Nat /\ p \in Nat /\ k \in Nat /\ c \in Nat
  BY KidFacts
<1>2. k # c
  <2> SUFFICES ASSUME k = c PROVE FALSE
    OBVIOUS
  <2>1. p = h
    BY KidFacts
  <2> QED
    BY <2>1, <1>1
<1>3. ~ (c < k)
  <2> SUFFICES ASSUME c < k PROVE FALSE
    OBVIOUS
  <2>1. h <= p
    BY KidFacts
  <2> QED
    BY <2>1, <1>1
<1> QED
  BY <1>1, <1>2, <1>3

-----------------------------------------------------------------------------
\* The nearest statement above n that is not a plain block, as LocalType's Encloser has it.
BlocksOver(g, n)   == {m \in 1..(n - 1) : n \in Below(g, m) /\ g[m].class # "Block"}
NearestBlock(g, n) == CHOOSE m \in BlocksOver(g, n) \cup {0} : \A k \in BlocksOver(g, n) : k <= m

LEMMA NearestFacts ==
  ASSUME NEW g, NEW n \in Nat
  PROVE  /\ NearestBlock(g, n) \in BlocksOver(g, n) \cup {0} /\ NearestBlock(g, n) \in Nat
         /\ \A k \in BlocksOver(g, n) : k <= NearestBlock(g, n)
<1> DEFINE S == BlocksOver(g, n) \cup {0}
<1>1. S \subseteq Nat /\ S # {} /\ \A k \in S : k <= n
  BY DEF BlocksOver
<1> HIDE DEF S
<1>2. \E m \in S : \A k \in S : k <= m
  BY <1>1, GreatestNumber
<1>3. \E m \in S : \A k \in BlocksOver(g, n) : k <= m
  BY <1>2 DEF S
<1>4. NearestBlock(g, n) \in S /\ \A k \in BlocksOver(g, n) : k <= NearestBlock(g, n)
  BY <1>3 DEF NearestBlock, S
<1> QED
  BY <1>1, <1>4 DEF S

\* Above a child are its parent and what is above that.
LEMMA BelowKid ==
  ASSUME NEW S, NEW g \in Seq(S), PreOrderTree(g), NEW p \in DOMAIN g, NEW i \in DOMAIN g[p].kids,
         NEW m \in DOMAIN g, m < g[p].kids[i]
  PROVE  g[p].kids[i] \in Below(g, m) <=> m = p \/ (m < p /\ p \in Below(g, m))
<1> DEFINE c == g[p].kids[i]
<1>1. c \in DOMAIN g /\ p \in Nat /\ c \in Nat /\ p < c /\ m \in Nat
  BY KidFacts
<1>2. DOMAIN g = 1..Len(g) /\ Len(g) \in Nat
  OBVIOUS
<1>3. ASSUME c \in Below(g, m) PROVE m = p \/ (m < p /\ p \in Below(g, m))
  <2>1. p \in Below(g, m)
    BY <1>1, <1>3, BelowHolder
  <2>2. m <= p
    BY <2>1, BelowInTree
  <2> QED
    BY <1>1, <2>1, <2>2
<1>4. ASSUME m = p \/ (m < p /\ p \in Below(g, m)) PROVE c \in Below(g, m)
  <2> SUFFICES ASSUME NEW q \in 1..(m - 1), NEW j \in DOMAIN g[q].kids, m < g[q].kids[j]
               PROVE  c < g[q].kids[j]
    BY <1>1, <1>2 DEF Below
  <2>1. q \in DOMAIN g /\ q < p /\ q \in Nat
    BY <1>1, <1>2, <1>4
  <2>2. p < g[q].kids[j]
    <3>1. CASE m = p
      BY <3>1
    <3>2. CASE p \in Below(g, m)
      BY <3>2 DEF Below
    <3> QED
      BY <1>4, <3>1, <3>2
  <2> QED
    BY <2>1, <2>2, KidBeforeUncle
<1> QED
  BY <1>3, <1>4

LEMMA NearestKid ==
  ASSUME NEW S, NEW g \in Seq(S), PreOrderTree(g), NEW p \in DOMAIN g, NEW i \in DOMAIN g[p].kids
  PROVE  NearestBlock(g, g[p].kids[i]) = IF g[p].class = "Block" THEN NearestBlock(g, p) ELSE p
<1> DEFINE c == g[p].kids[i]
<1>1. c \in DOMAIN g /\ p \in Nat /\ c \in Nat /\ p < c /\ DOMAIN g = 1..Len(g) /\ Len(g) \in Nat
  BY KidFacts
<1>2. \A m \in 1..(c - 1) : c \in Below(g, m) <=> m = p \/ (m < p /\ p \in Below(g, m))
  <2> SUFFICES ASSUME NEW m \in 1..(c - 1)
               PROVE  c \in Below(g, m) <=> m = p \/ (m < p /\ p \in Below(g, m))
    OBVIOUS
  <2>1. m \in DOMAIN g /\ m < c
    BY <1>1
  <2> QED
    BY <2>1, BelowKid
<1> HIDE DEF c
<1>3. ASSUME NEW m
      PROVE  m \in BlocksOver(g, c) <=> (m = p /\ g[p].class # "Block") \/ m \in BlocksOver(g, p)
  <2>1. m \in BlocksOver(g, p) => m \in 1..(c - 1) /\ m < p /\ p \in Below(g, m)
    BY <1>1 DEF BlocksOver
  <2>2. p \in 1..(c - 1) /\ (m \in 1..(c - 1) /\ m < p => m \in 1..(p - 1))
    BY <1>1
  <2> QED
    BY <1>2, <2>1, <2>2 DEF BlocksOver
<1>4. /\ NearestBlock(g, c) \in BlocksOver(g, c) \cup {0} /\ NearestBlock(g, c) \in Nat
      /\ \A k \in BlocksOver(g, c) : k <= NearestBlock(g, c)
      /\ NearestBlock(g, p) \in BlocksOver(g, p) \cup {0} /\ NearestBlock(g, p) \in Nat
      /\ \A k \in BlocksOver(g, p) : k <= NearestBlock(g, p)
  BY <1>1, NearestFacts
<1>5. \A k \in BlocksOver(g, p) : k \in Nat /\ k < p /\ 0 < k
  BY <1>1 DEF BlocksOver
<1>6. CASE g[p].class = "Block"
  <2>1. BlocksOver(g, c) = BlocksOver(g, p)
    BY <1>3, <1>6
  <2>2. NearestBlock(g, c) = NearestBlock(g, p)
    BY <2>1 DEF NearestBlock
  <2> QED
    BY <1>6, <2>2 DEF c
<1>7. CASE g[p].class # "Block"
  <2>1. p \in BlocksOver(g, c) /\ \A k \in BlocksOver(g, c) : k = p \/ k \in BlocksOver(g, p)
    BY <1>3, <1>7
  <2>2. /\ p <= NearestBlock(g, c)
        /\ NearestBlock(g, c) = p \/ NearestBlock(g, c) \in BlocksOver(g, p) \/ NearestBlock(g, c) = 0
    BY <2>1, <1>4
  <2>3. NearestBlock(g, c) = p
    BY <2>2, <1>1, <1>5, <1>4
  <2> QED
    BY <1>7, <2>3 DEF c
<1> QED
  BY <1>6, <1>7
-----------------------------------------------------------------------------
\* A rising list is what its elements are in order.
LEMMA OrderedUnique ==
  ASSUME NEW n \in Nat, NEW P \in SUBSET (1..n), NEW s \in Seq(Nat),
         \A i, j \in DOMAIN s : i < j => s[i] < s[j],
         \A p : p \in P <=> \E i \in DOMAIN s : s[i] = p
  PROVE  /\ Len(s) = Cardinality(P)
         /\ \A i \in DOMAIN s : s[i] = Nth(P, i)
         /\ s = Ordered(P)
<1>1. DOMAIN s = 1..Len(s) /\ Len(s) \in Nat /\ \A i \in DOMAIN s : s[i] \in P /\ s[i] \in Nat
  OBVIOUS
<1>2. ASSUME NEW k \in 0..Len(s), NEW Q, Q = {s[i] : i \in 1..k}
      PROVE  IsFiniteSet(Q) /\ Cardinality(Q) = k
  <2> DEFINE f == [i \in 1..k |-> s[i]]
  <2>0. \A i \in 1..k : i \in DOMAIN s
    BY <1>1
  <2>1. f \in [1..k -> Q]
    BY <1>2
  <2>2. \A i, j \in 1..k : f[i] = f[j] => i = j
    <3> SUFFICES ASSUME NEW i \in 1..k, NEW j \in 1..k, s[i] = s[j] PROVE i = j
      OBVIOUS
    <3>1. i \in DOMAIN s /\ j \in DOMAIN s /\ i \in Nat /\ j \in Nat /\ s[i] \in Nat /\ s[j] \in Nat
      BY <1>1, <2>0
    <3>2. ~(i < j) /\ ~(j < i)
      BY <3>1
    <3> QED
      BY <3>1, <3>2
  <2>3. \A q \in Q : \E i \in 1..k : f[i] = q
    BY <1>2
  <2> HIDE DEF f
  <2>4. f \in Bijection(1..k, Q)
    BY <2>1, <2>2, <2>3, Fun_IsBij
  <2>5. ExistsBijection(1..k, Q)
    BY <2>4 DEF ExistsBijection
  <2>6. IsFiniteSet(1..k) /\ Cardinality(1..k) = k
    <3>1. k \in Int /\ 1 \in Int /\ (IF 1 > k THEN 0 ELSE k - 1 + 1) = k
      OBVIOUS
    <3> QED
      BY <3>1, FS_Interval
  <2> QED
    BY <2>5, <2>6, FS_Bijection
<1>3. Len(s) = Cardinality(P)
  <2>1. P = {s[i] : i \in 1..Len(s)}
    BY <1>1
  <2>2. Len(s) \in 0..Len(s)
    BY <1>1
  <2> QED
    BY <1>2, <2>1, <2>2
<1>4. ASSUME NEW i \in DOMAIN s PROVE s[i] = Nth(P, i)
  <2>1. PICK j \in 1..Cardinality(P) : Nth(P, j) = s[i]
    BY <1>1, NthOrder
  <2>2. Cardinality({k \in P : k < s[i]}) = j - 1
    <3>1. Cardinality({k \in P : k < Nth(P, j)}) = j - 1
      BY NthFacts
    <3> QED
      BY <2>1, <3>1
  <2>3. {k \in P : k < s[i]} = {s[l] : l \in 1..(i - 1)}
    <3>1. ASSUME NEW k \in P, k < s[i] PROVE \E l \in 1..(i - 1) : k = s[l]
      <4>1. PICK l \in DOMAIN s : s[l] = k
        OBVIOUS
      <4>2. l \in Nat /\ i \in Nat /\ 1 <= l /\ s[l] \in Nat /\ s[i] \in Nat
        BY <1>1
      <4>3. ~(i < l) /\ i # l
        BY <4>1, <4>2, <3>1
      <4> QED
        BY <4>1, <4>2, <4>3
    <3>2. ASSUME NEW l \in 1..(i - 1) PROVE s[l] \in P /\ s[l] < s[i]
      <4>1. l \in DOMAIN s /\ l < i
        BY <1>1
      <4> QED
        BY <4>1, <1>1
    <3> QED
      BY <3>1, <3>2
  <2>4. i - 1 \in 0..Len(s)
    BY <1>1
  <2>5. Cardinality({k \in P : k < s[i]}) = i - 1
    BY <1>2, <2>3, <2>4
  <2>6. i = j
    BY <2>2, <2>5, <1>1, <1>3
  <2> QED
    BY <2>1, <2>6
<1>5. s = Ordered(P)
  <2>1. s = [i \in 1..Len(s) |-> s[i]]
    BY <1>1
  <2>2. \A i \in 1..Len(s) : s[i] = Nth(P, i)
    BY <1>1, <1>4
  <2> QED
    BY <1>3, <2>1, <2>2 DEF Ordered
<1> QED
  BY <1>3, <1>4, <1>5
=============================================================================
