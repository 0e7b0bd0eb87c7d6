-------------------------- MODULE OwnershipProofs --------------------------
(***************************************************************************)
(* Proofs about Ownership and ParamOwnership, for every set of programs:   *)
(* the calls that build, change, clone and delete objects. The argument is *)
(* the invariant Safe. It says of every object who may point to it besides *)
(* its owner, and who will delete it; a call keeps it because what is new  *)
(* in the heap (the new objects, and the few that the call edits) is       *)
(* unlike the rest only in what the call was given or made. The calls that *)
(* project a tree are in OwnershipProjectionProofs, with the theorems.     *)
(***************************************************************************)
EXTENDS ParamOwnership, PreOrderProofs

\* Nobody holds s, deletes it some day or borrows it.
Stray(h, mn, s) ==
  /\ s \in DOMAIN h /\ s \notin mn \cup kept
  /\ \A o \in DOMAIN h : s \notin Pointers(h[o]) /\ s \notin Range(h[o].lent)

\* The sender that Rule 9 left behind.
Relic(h, mn, ls) ==
  \E s \in ls : Stray(h, mn, s) /\ h[s].kind = "Role" /\ h[s].many # << >> /\ h[s].live

\* Shares of Ownership, of the heap h.
MayShare(h, relic, o, p) ==
  \/ h[p].kind = "Payload"
  \/ h[o].kind \in {"Choice", "If"} /\ h[p].kind = "Role"
  \/ h[o].kind = "For" /\ h[p].kind = "Expr"
  \/ relic /\ h[o].kind = "Role" /\ h[p].kind = "Expr"

\* Typed, for one object; nor does it point to anything twice, or at all when it is freed.
Holds(h, ps, kinds) == \A p \in ps : p \in DOMAIN h /\ h[p].kind \in kinds
Fit(h, object) ==
  /\ object.one # 0 => Holds(h, {object.one}, HoldsOne(object.kind))
  /\ Holds(h, Range(object.many), HoldsMany(object.kind))
  /\ Holds(h, Range(object.lent), HoldsLent(object.kind))
  /\ object.live /\ object.kind = "Interaction" =>
       \E m \in Range(object.many) : \A p \in Range(object.many) : h[p].kind = "Msg" <=> p = m
  /\ ~object.live => object.one = 0 /\ object.many = << >>
  /\ object.one \notin Range(object.many)
  /\ \A i, j \in DOMAIN object.many : object.many[i] = object.many[j] => i = j

\* Every object is one of its class.
Formed(h) == h \in Seq(Object) /\ \A o \in DOMAIN h : Fit(h, h[o])

\* Two objects point to a third only where copies share.
Separate(h, relic) ==
  \A o, q \in DOMAIN h : o # q =>
    \A p \in Pointers(h[o]) \cap Pointers(h[q]) : MayShare(h, relic, o, p)

\* What the program has to delete lives, and nobody else deletes it.
Held(h, mn) ==
  \A p \in mn : p \in DOMAIN h /\ h[p].live /\ \A o \in DOMAIN h : p \notin Pointers(h[o])

\* Only what copies share is freed under an owner.
Pointed(h, relic) ==
  \A o \in DOMAIN h : \A p \in Pointers(h[o]) : ~h[p].live => MayShare(h, relic, o, p)

\* n took p over, but its destructor does not delete it.
Lends(h, n, p) == h[n].kind \in {"Interaction", "AllReduce"} /\ p \in Range(h[n].lent)

\* Whatever lives is the program's, or lost, or pointed to.
Accounted(h, mn, ls) ==
  \A p \in DOMAIN h : h[p].live =>
    p \in mn \cup ls \/ \E o \in DOMAIN h : p \in Pointers(h[o]) \/ Lends(h, o, p)

\* p is a role that nobody points to, nor will the program delete it as its own object.
Unclaimed(h, mn, p) == h[p].kind = "Role" /\ p \notin mn /\ \A o \in DOMAIN h : p \notin Pointers(h[o])

\* The condition of an interaction is one that the program keeps, or its own, and of no
\* other.
Conditions(h, mn) ==
  /\ kept \subseteq DOMAIN h /\ \A c \in kept : Unclaimed(h, mn, c)
  /\ \A n \in DOMAIN h : h[n].kind = "Interaction" =>
       \A c \in Range(h[n].lent) :
         /\ c \notin kept => h[c].live
         /\ c \notin mn
         /\ \A o \in DOMAIN h : c \notin Pointers(h[o]) /\
              (o # n /\ h[o].kind = "Interaction" => c \notin Range(h[o].lent))

\* Nothing is in itself, among the objects of some kinds.
Acyclic(h, kinds) ==
  \A S \in SUBSET {o \in DOMAIN h : h[o].kind \in kinds} :
    S # {} => \E p \in S : \A o \in S : p \notin Pointers(h[o])

\* What calls keep while all is defined.
Safe(h, mn, ls) ==
  /\ Formed(h) /\ Separate(h, Relic(h, mn, ls)) /\ Held(h, mn) /\ Pointed(h, Relic(h, mn, ls))
  /\ Accounted(h, mn, ls) /\ Conditions(h, mn) /\ ls \subseteq DOMAIN h
  /\ Acyclic(h, NodeKind) /\ Acyclic(h, {"Expr"})
-----------------------------------------------------------------------------
\* What is closed under next, and the least such set that has met.
Closed(S, next) == \A q \in S : next[q] \subseteq S
Closure(D, next, met) == {o \in D : \A S \in SUBSET D : met \subseteq S /\ Closed(S, next) => o \in S}

\* Reached is the least set that has the roots and is closed under next.
LEMMA ReachedIsClosure ==
  ASSUME IsFiniteSet(DOMAIN heap), NEW next \in [DOMAIN heap -> SUBSET DOMAIN heap], NEW roots \in SUBSET DOMAIN heap
  PROVE  Reached(roots, next) = Closure(DOMAIN heap, next, roots)
<1> DEFINE D == DOMAIN heap
           G(met) == Grown(met, next)
           Eq(f) == f = [met \in SUBSET D |-> IF G(met) = met THEN met ELSE f[G(met)]]
           lcs == [met \in SUBSET D |-> Closure(D, next, met)]
           cl == CHOOSE f : Eq(f)
<1>1. ASSUME NEW met \in SUBSET D
      PROVE  /\ G(met) \in SUBSET D /\ met \subseteq G(met)
             /\ G(met) = met => Closure(D, next, met) = met
             /\ Closure(D, next, G(met)) = Closure(D, next, met)
  <2>1. \A o \in met : next[o] \subseteq D
    OBVIOUS
  <2>2. G(met) \in SUBSET D /\ met \subseteq G(met)
    BY <2>1 DEF Grown
  <2>3. ASSUME G(met) = met PROVE Closure(D, next, met) = met
    <3>1. Closed(met, next)
      BY <2>3 DEF Grown, Closed
    <3> QED
      BY <3>1 DEF Closure
  <2>4. ASSUME NEW S \in SUBSET D, Closed(S, next) PROVE met \subseteq S <=> G(met) \subseteq S
    BY <2>2, <2>4 DEF Grown, Closed
  <2>5. Closure(D, next, G(met)) = Closure(D, next, met)
    BY <2>4 DEF Closure
  <2> QED
    BY <2>2, <2>3, <2>5
<1>2. Eq(lcs)
  <2>1. ASSUME NEW met \in SUBSET D PROVE lcs[met] = IF G(met) = met THEN met ELSE lcs[G(met)]
    BY <1>1
  <2> HIDE DEF G
  <2> QED
    BY <2>1
<1>3. Eq(cl)
  <2> HIDE DEF Eq
  <2> QED
    BY <1>2
<1>4. ASSUME NEW met \in SUBSET D PROVE cl[met] = IF G(met) = met THEN met ELSE cl[G(met)]
  <2> HIDE DEF G, cl
  <2> QED
    BY <1>3
<1>5. \A met \in SUBSET D : cl[met] = Closure(D, next, met)
  <2> SUFFICES ASSUME NEW bad0 \in SUBSET D, cl[bad0] # Closure(D, next, bad0) PROVE FALSE
    OBVIOUS
  <2> HIDE DEF G, cl
  <2> DEFINE Left(met) == Cardinality(D \ met)
             T == {Left(met) : met \in {met \in SUBSET D : cl[met] # Closure(D, next, met)}}
  <2>0. ASSUME NEW met \in SUBSET D PROVE IsFiniteSet(D \ met) /\ Left(met) \in Nat
    <3>1. D \ met \subseteq D
      OBVIOUS
    <3>2. IsFiniteSet(D \ met)
      BY <3>1, FS_Subset
    <3> QED
      BY <3>2, FS_CardinalityType
  <2>1. T \subseteq Nat /\ T # {}
    <3> HIDE DEF Left
    <3> QED
      BY <2>0
  <2>2. PICK m \in T : \A k \in T : m <= k
    BY <2>1, LeastNumber
  <2>3. PICK met \in SUBSET D : cl[met] # Closure(D, next, met) /\ m = Left(met)
    BY <2>2
  <2>4. G(met) # met
    BY <1>1, <1>4, <2>3
  <2>5. G(met) \in SUBSET D /\ cl[G(met)] # Closure(D, next, G(met))
    BY <1>1, <1>4, <2>3, <2>4
  <2>6. Left(G(met)) < Left(met)
    <3>1. D \ G(met) \subseteq D \ met /\ D \ G(met) # D \ met
      BY <1>1, <2>4, <2>5
    <3>2. Cardinality(D \ G(met)) <= Cardinality(D \ met) /\ Cardinality(D \ G(met)) # Cardinality(D \ met)
      BY <3>1, <2>0, <2>3, FS_Subset
    <3> QED
      BY <3>2, <2>0, <2>5
  <2>7. Left(G(met)) \in T
    BY <2>5
  <2> HIDE DEF T
  <2>8. m <= Left(G(met))
    BY <2>2, <2>7
  <2>9. Left(G(met)) \in Nat /\ Left(met) \in Nat
    BY <2>0, <2>5
  <2> HIDE DEF Left
  <2> QED
    BY <2>6, <2>8, <2>3, <2>9
<1> QED
  BY <1>5 DEF Reached

\* What is reached has the roots, follows next, and is in whatever else does; all but
\* the roots follow something reached.
LEMMA ReachedFacts ==
  ASSUME IsFiniteSet(DOMAIN heap), NEW next \in [DOMAIN heap -> SUBSET DOMAIN heap], NEW roots \in SUBSET DOMAIN heap
  PROVE  /\ Reached(roots, next) \in SUBSET DOMAIN heap /\ roots \subseteq Reached(roots, next)
         /\ \A q \in Reached(roots, next) : next[q] \subseteq Reached(roots, next)
         /\ \A S \in SUBSET DOMAIN heap : roots \subseteq S /\ Closed(S, next) => Reached(roots, next) \subseteq S
         /\ \A p \in Reached(roots, next) : p \in roots \/ \E q \in Reached(roots, next) : p \in next[q]
<1> DEFINE D == DOMAIN heap
           R == Reached(roots, next)
<1>1. R = Closure(D, next, roots)
  BY ReachedIsClosure
<1>2. R \in SUBSET D /\ roots \subseteq R
  BY <1>1 DEF Closure
<1>3. ASSUME NEW q \in R PROVE next[q] \subseteq R
  <2>1. q \in D /\ next[q] \subseteq D
    BY <1>2
  <2>2. ASSUME NEW p \in next[q], NEW S \in SUBSET D, roots \subseteq S, Closed(S, next) PROVE p \in S
    <3>1. q \in S
      BY <1>1, <2>2 DEF Closure
    <3> QED
      BY <3>1, <2>2 DEF Closed
  <2> QED
    BY <2>1, <2>2, <1>1 DEF Closure
<1>4. ASSUME NEW S \in SUBSET D, roots \subseteq S, Closed(S, next) PROVE R \subseteq S
  BY <1>1, <1>4 DEF Closure
<1>5. ASSUME NEW p \in R, p \notin roots, \A q \in R : p \notin next[q] PROVE FALSE
  <2>1. R \ {p} \in SUBSET D /\ roots \subseteq R \ {p}
    BY <1>2, <1>5
  <2>2. Closed(R \ {p}, next)
    BY <1>3, <1>5 DEF Closed
  <2> HIDE DEF R
  <2> QED
    BY <2>1, <2>2, <1>4, <1>5
<1> QED
  BY <1>2, <1>3, <1>4, <1>5
-----------------------------------------------------------------------------
\* ids gives the elements of P the numbers after base, one each.
Numbers(ids, P, base) ==
  /\ ids \in [P -> (base + 1)..(base + Cardinality(P))]
  /\ \A p, q \in P : ids[p] = ids[q] => p = q
  /\ \A k \in (base + 1)..(base + Cardinality(P)) : \E p \in P : ids[p] = k

\* By a total order R: how many come no later.
RankIn(R, P, base) == [p \in P |-> base + Cardinality({q \in P : <<q, p>> \in R})]

\* To count for each element of a finite set what does not come after it is to
\* number them.
LEMMA RankNumbers ==
  ASSUME NEW P, IsFiniteSet(P), NEW R, NEW base \in Nat,
         \A p \in P : <<p, p>> \in R,
         \A p, q \in P : <<p, q>> \in R \/ <<q, p>> \in R,
         \A p, q \in P : <<p, q>> \in R /\ <<q, p>> \in R => p = q,
         \A p, q, r \in P : <<p, q>> \in R /\ <<q, r>> \in R => <<p, r>> \in R
  PROVE  Numbers(RankIn(R, P, base), P, base)
<1> DEFINE upTo(p) == {q \in P : <<q, p>> \in R}
           n == Cardinality(P)
           C(p) == Cardinality(upTo(p))
           f == [p \in P |-> C(p)]
           ids == [p \in P |-> base + C(p)]
<1>0. n \in Nat
  BY FS_CardinalityType
<1>1. ASSUME NEW p \in P PROVE IsFiniteSet(upTo(p)) /\ C(p) \in 1..n
  <2>1. upTo(p) \in SUBSET P /\ p \in upTo(p)
    OBVIOUS
  <2>2. IsFiniteSet(upTo(p)) /\ C(p) <= n
    BY <2>1, FS_Subset
  <2>3. C(p) \in Nat /\ C(p) # 0
    BY <2>1, <2>2, FS_CardinalityType, FS_EmptySet
  <2> HIDE DEF C
  <2> QED
    BY <2>2, <2>3, <1>0
<1>2. ASSUME NEW p \in P, NEW q \in P, C(p) = C(q) PROVE p = q
  <2>1. ASSUME NEW a \in P, NEW b \in P, <<a, b>> \in R, C(a) = C(b) PROVE a = b
    <3>1. upTo(a) \in SUBSET upTo(b)
      BY <2>1
    <3>2. upTo(a) = upTo(b)
      BY <3>1, <2>1, <1>1, FS_Subset
    <3>3. b \in upTo(a)
      BY <3>2
    <3> QED
      BY <3>3, <2>1
  <2> HIDE DEF C
  <2> QED
    BY <2>1, <1>2
<1>3. f \in Injection(P, 1..n)
  <2> HIDE DEF C
  <2>1. f \in [P -> 1..n] /\ \A p, q \in P : f[p] = f[q] => p = q
    BY <1>1, <1>2
  <2> HIDE DEF f
  <2> QED
    BY <2>1, Fun_IsInj
<1>4. IsFiniteSet(1..n) /\ Cardinality(1..n) = n
  <2>1. (IF 1 > n THEN 0 ELSE n - 1 + 1) = n
    BY <1>0
  <2> QED
    BY <2>1, <1>0, FS_Interval
<1>5. f \in Surjection(P, 1..n)
  <2> HIDE DEF f
  <2> QED
    BY <1>3, <1>4, FS_Injection
<1>6. \A k \in 1..n : \E p \in P : C(p) = k
  <2> HIDE DEF C
  <2>1. \A k \in 1..n : \E p \in P : f[p] = k
    <3> HIDE DEF f
    <3> QED
      BY <1>5 DEF Surjection
  <2> QED
    BY <2>1
<1>7. Numbers(ids, P, base)
  <2> HIDE DEF C
  <2>1. \A p \in P : ids[p] = base + C(p) /\ C(p) \in 1..n
    BY <1>1
  <2>2. ids \in [P -> (base + 1)..(base + n)]
    BY <2>1, <1>0
  <2>3. \A p, q \in P : ids[p] = ids[q] => p = q
    BY <2>1, <1>0, <1>2
  <2>4. ASSUME NEW k \in (base + 1)..(base + n) PROVE \E p \in P : ids[p] = k
    <3>1. k - base \in 1..n
      BY <1>0
    <3>2. PICK p \in P : C(p) = k - base
      BY <3>1, <1>6
    <3> QED
      BY <3>2, <2>1
  <2> HIDE DEF ids
  <2> QED
    BY <2>2, <2>3, <2>4 DEF Numbers
<1> QED
  BY <1>7 DEF RankIn

\* AtId leads back from a number to the object.
LEMMA AtIdFacts ==
  ASSUME NEW P, NEW base, NEW ids, Numbers(ids, P, base)
  PROVE  /\ DOMAIN ids = P
         /\ \A k \in (base + 1)..(base + Cardinality(P)) : AtId(ids, k) \in P /\ ids[AtId(ids, k)] = k
         /\ \A p \in P : AtId(ids, ids[p]) = p
<1>1. DOMAIN ids = P
  BY DEF Numbers
<1>2. ASSUME NEW k \in (base + 1)..(base + Cardinality(P))
      PROVE  AtId(ids, k) \in P /\ ids[AtId(ids, k)] = k
  <2>1. \E p \in P : ids[p] = k
    BY DEF Numbers
  <2> QED
    BY <1>1, <2>1 DEF AtId
<1>3. ASSUME NEW p \in P PROVE AtId(ids, ids[p]) = p
  <2>1. ids[p] \in (base + 1)..(base + Cardinality(P))
    BY DEF Numbers
  <2>2. AtId(ids, ids[p]) \in P /\ ids[AtId(ids, ids[p])] = ids[p]
    BY <2>1, <1>2
  <2> QED
    BY <2>2 DEF Numbers
<1> QED
  BY <1>1, <1>2, <1>3

\* The ids of the copies of one object, and of all objects a projection allocates.
LEMMA RankedNumbers ==
  ASSUME NEW n \in Nat, NEW P \in SUBSET (1..n), NEW base \in Nat
  PROVE  Numbers(Ranked(base, P), P, base)
<1> DEFINE R == {r \in P \X P : r[1] <= r[2]}
<1>0. IsFiniteSet(P) /\ P \subseteq Nat
  BY PartIsFinite
<1>1. \A p, q \in P : <<p, q>> \in R <=> p <= q
  OBVIOUS
<1>2. \A p \in P : {q \in P : <<q, p>> \in R} = {q \in P : q <= p}
  BY <1>1
<1>3. Ranked(base, P) = RankIn(R, P, base)
  BY <1>2 DEF Ranked, RankIn
<1> HIDE DEF R
<1>4. /\ \A p \in P : <<p, p>> \in R
      /\ \A p, q \in P : <<p, q>> \in R \/ <<q, p>> \in R
      /\ \A p, q \in P : <<p, q>> \in R /\ <<q, p>> \in R => p = q
      /\ \A p, q, r \in P : <<p, q>> \in R /\ <<q, r>> \in R => <<p, r>> \in R
  BY <1>0, <1>1
<1>5. Numbers(RankIn(R, P, base), P, base)
  BY <1>0, <1>4, RankNumbers
<1> QED
  BY <1>3, <1>5

LEMMA IdsNumbers ==
  ASSUME Len(heap) \in Nat, NEW n \in Nat, NEW P \in SUBSET ((1..n) \X (1..n))
  PROVE  IsFiniteSet(P) /\ Numbers(IdsOf(P), P, Len(heap) + 1)
<1> DEFINE Upto(q, p) == q[1] < p[1] \/ (q[1] = p[1] /\ q[2] <= p[2])
           R == {r \in P \X P : Upto(r[1], r[2])}
<1>0. IsFiniteSet(P)
  <2>0. 1 \in Int /\ n \in Int
    OBVIOUS
  <2>1. IsFiniteSet(1..n)
    BY <2>0, FS_Interval
  <2>2. IsFiniteSet((1..n) \X (1..n))
    BY <2>1, FS_Product
  <2> QED
    BY <2>2, FS_Subset
<1>01. \A p \in P : p = <<p[1], p[2]>> /\ p[1] \in Nat /\ p[2] \in Nat
  OBVIOUS
<1>1. \A p, q \in P : <<p, q>> \in R <=> Upto(p, q)
  <2> HIDE DEF Upto
  <2> QED
    OBVIOUS
<1>2. \A p \in P : {q \in P : <<q, p>> \in R} = {q \in P : Upto(q, p)}
  <2> HIDE DEF Upto, R
  <2> QED
    BY <1>1
<1>3. IdsOf(P) = RankIn(R, P, Len(heap) + 1)
  <2>1. IdsOf(P) = [p \in P |-> Len(heap) + 1 + Cardinality({q \in P : Upto(q, p)})]
    BY DEF IdsOf
  <2> HIDE DEF Upto, R
  <2> QED
    BY <1>2, <2>1 DEF RankIn
<1> HIDE DEF R
<1>4. /\ \A p \in P : <<p, p>> \in R
      /\ \A p, q \in P : <<p, q>> \in R \/ <<q, p>> \in R
      /\ \A p, q \in P : <<p, q>> \in R /\ <<q, p>> \in R => p = q
      /\ \A p, q, r \in P : <<p, q>> \in R /\ <<q, r>> \in R => <<p, r>> \in R
  <2>1. \A p \in P : Upto(p, p)
    BY <1>01
  <2>2. \A p, q \in P : Upto(p, q) \/ Upto(q, p)
    BY <1>01
  <2>3. \A p, q \in P : Upto(p, q) /\ Upto(q, p) => p = q
    <3> SUFFICES ASSUME NEW p \in P, NEW q \in P, Upto(p, q), Upto(q, p) PROVE p = q
      OBVIOUS
    <3>1. p[1] = q[1] /\ p[2] = q[2]
      BY <1>01
    <3> QED
      BY <3>1, <1>01
  <2>4. \A p, q, r \in P : Upto(p, q) /\ Upto(q, r) => Upto(p, r)
    BY <1>01
  <2> HIDE DEF Upto
  <2> QED
    BY <1>1, <2>1, <2>2, <2>3, <2>4
<1>5. Numbers(RankIn(R, P, Len(heap) + 1), P, Len(heap) + 1)
  <2>1. Len(heap) + 1 \in Nat
    OBVIOUS
  <2> QED
    BY <1>0, <1>4, <2>1, RankNumbers
<1> QED
  BY <1>0, <1>3, <1>5
-----------------------------------------------------------------------------
\* h2 is h after D was freed and more objects were allocated.
Grows(h, h2, D) ==
  /\ DOMAIN h \subseteq DOMAIN h2
  /\ \A o \in DOMAIN h : h2[o].kind = h[o].kind /\ (h2[o].live <=> h[o].live /\ o \notin D)
  /\ \A o \in DOMAIN h2 \ DOMAIN h : h2[o].live
  /\ \A d \in D : /\ d \in DOMAIN h /\ h[d].live /\ Pointers(h2[d]) = {}
                  /\ \A p \in Pointers(h[d]) : h[p].live => p \in D
  /\ \A p \in D : p \in DOMAIN h

\* A pointer of h2 is one of h, one that a new object shares with what it is a copy of,
\* or leads to a new object or one that the program has given away.
Edges(h, h2, mn, mn2, r, r2) ==
  \A o \in DOMAIN h2 : \A p \in Pointers(h2[o]) :
    \/ o \in DOMAIN h /\ p \in Pointers(h[o])
    \/ /\ o \notin DOMAIN h /\ MayShare(h2, r2, o, p)
       /\ \E q \in DOMAIN h : p \in Pointers(h[q]) /\ MayShare(h2, r2, q, p)
    \/ /\ p \in mn \/ p \in DOMAIN h2 \ DOMAIN h
       /\ p \notin mn2
       /\ \A q \in DOMAIN h2 : q # o /\ p \in Pointers(h2[q]) =>
            MayShare(h2, r2, o, p) /\ MayShare(h2, r2, q, p)

\* The owner of what was freed was freed, or may share it.
Unowned(h, h2, r2, D) ==
  \A p \in D : \/ \E d \in D : p \in Pointers(h[d])
               \/ \A o \in DOMAIN h2 : p \in Pointers(h2[o]) => MayShare(h2, r2, o, p)

\* Somebody has p, or it is known to be lost.
Found(h2, mn2, ls2, p) ==
  p \in mn2 \cup ls2 \/ \E o \in DOMAIN h2 : p \in Pointers(h2[o]) \/ Lends(h2, o, p)

\* Nothing is lost without a trace.
StillFound(h, h2, mn, mn2, ls, ls2, D) ==
  /\ ls \subseteq ls2
  /\ \A o \in DOMAIN h : \A p \in Pointers(h[o]) : o \notin D /\ p \notin D => Found(h2, mn2, ls2, p)
  /\ \A p \in mn \ D : Found(h2, mn2, ls2, p)
  /\ \A o, p \in DOMAIN h : Lends(h, o, p) /\ p \notin D => Found(h2, mn2, ls2, p)
  /\ \A p \in DOMAIN h2 \ DOMAIN h : Found(h2, mn2, ls2, p)

\* A condition was one before, and is not freed unless the program keeps it, or it is a
\* new one of one interaction.
Lending(h, h2, mn, mn2, D) ==
  \A n \in DOMAIN h2 : h2[n].kind = "Interaction" => \A c \in Range(h2[n].lent) :
    \/ n \in DOMAIN h /\ c \in Range(h[n].lent) /\ (c \notin D \/ c \in kept)
    \/ /\ c \in mn \ D \/ c \in DOMAIN h2 \ DOMAIN h \/ c \in kept
       /\ c \notin mn2
       /\ \A o \in DOMAIN h2 : c \notin Pointers(h2[o]) /\
            (o # n /\ h2[o].kind = "Interaction" => c \notin Range(h2[o].lent))

\* Facts about the heap as a whole.
LEMMA PointersInHeap ==
  ASSUME NEW h, Formed(h)
  PROVE  /\ \A o \in DOMAIN h : Pointers(h[o]) \subseteq DOMAIN h /\ Range(h[o].lent) \subseteq DOMAIN h
         /\ DOMAIN h = 1..Len(h) /\ Len(h) \in Nat /\ IsFiniteSet(DOMAIN h)
         /\ \A o \in DOMAIN h : h[o] \in Object
<1>1. h \in Seq(Object)
  BY DEF Formed
<1>2. DOMAIN h = 1..Len(h) /\ Len(h) \in Nat /\ \A o \in DOMAIN h : h[o] \in Object
  BY <1>1
<1>3. IsFiniteSet(1..Len(h))
  BY <1>2, PartIsFinite
<1>4. \A o \in DOMAIN h : Pointers(h[o]) \subseteq DOMAIN h /\ Range(h[o].lent) \subseteq DOMAIN h
  <2> SUFFICES ASSUME NEW o \in DOMAIN h
               PROVE Pointers(h[o]) \subseteq DOMAIN h /\ Range(h[o].lent) \subseteq DOMAIN h
    OBVIOUS
  <2>1. Fit(h, h[o])
    BY DEF Formed
  <2> QED
    BY <2>1 DEF Fit, Holds, Pointers
<1> QED
  BY <1>2, <1>3, <1>4

\* What may be shared may be shared later.
LEMMA MayShareStays ==
  ASSUME NEW h, NEW h2, NEW D, Grows(h, h2, D), NEW r, NEW r2, r => r2,
         NEW o \in DOMAIN h, NEW p \in DOMAIN h, MayShare(h, r, o, p)
  PROVE  MayShare(h2, r2, o, p)
BY DEF MayShare, Grows

LEMMA RelicStays ==
  ASSUME NEW h, NEW h2, NEW D, Grows(h, h2, D), NEW mn, NEW mn2, NEW ls, NEW ls2, ls \subseteq ls2,
         \A s : Stray(h, mn, s) => Stray(h2, mn2, s) /\ h2[s] = h[s],
         Relic(h, mn, ls)
  PROVE  Relic(h2, mn2, ls2)
BY DEF Relic

\* All parts of Safe but types and acyclicity, from one heap to the next.
LEMMA StepIsSafe ==
  ASSUME NEW h, NEW h2, NEW D, NEW mn, NEW mn2, NEW ls, NEW ls2, NEW r, NEW r2, r => r2,
         Formed(h), Separate(h, r), Held(h, mn), Pointed(h, r), Accounted(h, mn, ls), Conditions(h, mn),
         Grows(h, h2, D), Edges(h, h2, mn, mn2, r, r2), Unowned(h, h2, r2, D),
         \A p \in mn2 : p \in mn \ D \/ p \in DOMAIN h2 \ DOMAIN h,
         StillFound(h, h2, mn, mn2, ls, ls2, D), Lending(h, h2, mn, mn2, D)
  PROVE  /\ Separate(h2, r2) /\ Held(h2, mn2) /\ Pointed(h2, r2)
         /\ Accounted(h2, mn2, ls2) /\ Conditions(h2, mn2)
<1>0. /\ \A o \in DOMAIN h : Pointers(h[o]) \subseteq DOMAIN h /\ Range(h[o].lent) \subseteq DOMAIN h
  BY PointersInHeap
<1>1. ASSUME NEW o \in DOMAIN h, NEW p \in DOMAIN h, MayShare(h, r, o, p)
      PROVE  MayShare(h2, r2, o, p)
  BY <1>1, MayShareStays
<1>2. ASSUME NEW o \in DOMAIN h2, NEW q \in DOMAIN h2, o # q, NEW p \in Pointers(h2[o]) \cap Pointers(h2[q])
      PROVE  MayShare(h2, r2, o, p)
  <2>1. CASE p \in mn \/ p \in DOMAIN h2 \ DOMAIN h
    <3>1. ASSUME NEW x \in DOMAIN h PROVE p \notin Pointers(h[x])
      BY <2>1, <1>0 DEF Held
    <3> QED
      BY <3>1, <1>2 DEF Edges
  <2>2. CASE o \notin DOMAIN h /\ MayShare(h2, r2, o, p)
    BY <2>2
  <2>3. CASE o \in DOMAIN h /\ p \in Pointers(h[o])
    <3>0. p \in DOMAIN h
      BY <2>3, <1>0
    <3>1. CASE q \in DOMAIN h /\ p \in Pointers(h[q])
      BY <3>1, <2>3, <1>1, <1>2, <3>0 DEF Separate
    <3>2. CASE \E x \in DOMAIN h : p \in Pointers(h[x]) /\ MayShare(h2, r2, x, p)
      <4>1. PICK x \in DOMAIN h : p \in Pointers(h[x]) /\ MayShare(h2, r2, x, p)
        BY <3>2
      <4>2. o # x => MayShare(h, r, o, p)
        BY <4>1, <2>3 DEF Separate
      <4>3. o # x => MayShare(h2, r2, o, p)
        BY <4>2, <2>3, <1>1, <3>0
      <4> QED
        BY <4>1, <4>3
    <3> QED
      BY <3>1, <3>2, <1>2, <2>1 DEF Edges
  <2> QED
    BY <2>1, <2>2, <2>3, <1>2 DEF Edges
<1>3. ASSUME NEW p \in mn2
      PROVE  p \in DOMAIN h2 /\ h2[p].live /\ \A o \in DOMAIN h2 : p \notin Pointers(h2[o])
  <2>1. CASE p \in mn \ D
    <3>1. p \in DOMAIN h /\ h[p].live /\ \A o \in DOMAIN h : p \notin Pointers(h[o])
      BY <2>1 DEF Held
    <3>2. p \in DOMAIN h2 /\ h2[p].live
      BY <3>1, <2>1 DEF Grows
    <3> QED
      BY <3>1, <3>2, <1>3 DEF Edges
  <2>2. CASE p \in DOMAIN h2 \ DOMAIN h
    <3>1. h2[p].live
      BY <2>2 DEF Grows
    <3>2. \A o \in DOMAIN h : p \notin Pointers(h[o])
      BY <2>2, <1>0
    <3> QED
      BY <2>2, <3>1, <3>2, <1>3 DEF Edges
  <2> QED
    BY <2>1, <2>2
<1>4. ASSUME NEW o \in DOMAIN h2, NEW p \in Pointers(h2[o]), ~h2[p].live, p \in DOMAIN h2
      PROVE  MayShare(h2, r2, o, p)
  <2>1. p \in DOMAIN h /\ (~h[p].live \/ p \in D)
    BY <1>4 DEF Grows
  <2>2. o \notin D
    BY DEF Grows
  <2>3. CASE p \in mn
    <3>1. h[p].live /\ \A x \in DOMAIN h : p \notin Pointers(h[x])
      BY <2>3 DEF Held
    <3>2. \A d \in D : d \in DOMAIN h
      BY DEF Grows
    <3> QED
      BY <3>1, <3>2, <2>1, <1>4 DEF Unowned
  <2>4. CASE o \notin DOMAIN h /\ MayShare(h2, r2, o, p)
    BY <2>4
  <2>5. CASE o \in DOMAIN h /\ p \in Pointers(h[o])
    <3>1. CASE ~h[p].live
      BY <3>1, <2>5, <2>1, <1>1 DEF Pointed
    <3>2. CASE \E d \in D : p \in Pointers(h[d])
      <4>1. PICK d \in D : p \in Pointers(h[d])
        BY <3>2
      <4>2. d \in DOMAIN h /\ d # o
        BY <2>2 DEF Grows
      <4>3. MayShare(h, r, o, p)
        BY <4>1, <4>2, <2>5 DEF Separate
      <4> QED
        BY <4>3, <2>5, <2>1, <1>1
    <3> QED
      BY <3>1, <3>2, <2>1, <1>4 DEF Unowned
  <2> QED
    BY <2>1, <2>3, <2>4, <2>5, <1>4 DEF Edges
<1>41. ASSUME NEW o \in DOMAIN h2, NEW p \in Pointers(h2[o]) PROVE p \in DOMAIN h2
  <2>1. DOMAIN h \subseteq DOMAIN h2
    BY DEF Grows
  <2>2. mn \subseteq DOMAIN h
    BY DEF Held
  <2> QED
    BY <2>1, <2>2, <1>0 DEF Edges
<1>5. ASSUME NEW p \in DOMAIN h2, h2[p].live
      PROVE  Found(h2, mn2, ls2, p)
  <2>1. CASE p \notin DOMAIN h
    BY <2>1 DEF StillFound
  <2>2. CASE p \in DOMAIN h
    <3>1. h[p].live /\ p \notin D
      BY <2>2, <1>5 DEF Grows
    <3>2. CASE p \in ls
      BY <3>2 DEF StillFound, Found
    <3>3. CASE p \in mn
      BY <3>1, <3>3 DEF StillFound
    <3>4. CASE \E o \in DOMAIN h : p \in Pointers(h[o])
      <4>1. PICK o \in DOMAIN h : p \in Pointers(h[o])
        BY <3>4
      <4>2. o \notin D
        BY <4>1, <3>1 DEF Grows
      <4> QED
        BY <4>1, <4>2, <3>1 DEF StillFound
    <3>5. CASE \E o \in DOMAIN h : Lends(h, o, p)
      BY <3>5, <3>1, <2>2 DEF StillFound
    <3> QED
      BY <3>1, <3>2, <3>3, <3>4, <3>5, <2>2 DEF Accounted
  <2> QED
    BY <2>1, <2>2
<1>51. /\ kept \subseteq DOMAIN h2 /\ \A c \in kept : Unclaimed(h2, mn2, c)
  <2>1. \A c \in kept : c \in DOMAIN h /\ Unclaimed(h, mn, c)
    BY DEF Conditions
  <2>2. ASSUME NEW c \in kept, NEW o \in DOMAIN h2 PROVE c \notin Pointers(h2[o])
    BY <2>1 DEF Edges, Unclaimed
  <2> QED
    BY <2>1, <2>2 DEF Grows, Unclaimed
<1>6. ASSUME NEW n \in DOMAIN h2, h2[n].kind = "Interaction", NEW c \in Range(h2[n].lent)
      PROVE  /\ c \notin kept => h2[c].live
             /\ c \notin mn2
             /\ \A o \in DOMAIN h2 : c \notin Pointers(h2[o]) /\
                  (o # n /\ h2[o].kind = "Interaction" => c \notin Range(h2[o].lent))
  <2>1. CASE /\ c \in mn \ D \/ c \in DOMAIN h2 \ DOMAIN h \/ c \in kept
             /\ c \notin mn2
             /\ \A o \in DOMAIN h2 : c \notin Pointers(h2[o]) /\
                  (o # n /\ h2[o].kind = "Interaction" => c \notin Range(h2[o].lent))
    BY <2>1 DEF Held, Grows
  <2>2. CASE n \in DOMAIN h /\ c \in Range(h[n].lent) /\ (c \notin D \/ c \in kept)
    <3>1. h[n].kind = "Interaction" /\ c \in DOMAIN h
      BY <2>2, <1>6, <1>0 DEF Grows
    <3>2. /\ c \notin kept => h[c].live
          /\ c \notin mn
          /\ \A o \in DOMAIN h : c \notin Pointers(h[o]) /\
               (o # n /\ h[o].kind = "Interaction" => c \notin Range(h[o].lent))
      BY <3>1, <2>2 DEF Conditions
    <3>3. (c \notin kept => h2[c].live) /\ c \notin mn2
      BY <3>1, <3>2, <2>2 DEF Grows
    <3>4. ASSUME NEW o \in DOMAIN h2 PROVE c \notin Pointers(h2[o])
      BY <3>1, <3>2 DEF Edges
    <3>5. ASSUME NEW o \in DOMAIN h2, o # n, h2[o].kind = "Interaction", c \in Range(h2[o].lent) PROVE FALSE
      <4>1. CASE o \in DOMAIN h /\ c \in Range(h[o].lent)
        <5>1. h[o].kind = "Interaction"
          BY <4>1, <3>5 DEF Grows
        <5> QED
          BY <5>1, <4>1, <3>2, <3>5
      <4>2. CASE \A q \in DOMAIN h2 : q # o /\ h2[q].kind = "Interaction" => c \notin Range(h2[q].lent)
        BY <4>2, <1>6, <3>5
      <4> QED
        BY <4>1, <4>2, <3>5 DEF Lending
    <3> QED
      BY <3>3, <3>4, <3>5
  <2> QED
    BY <2>1, <2>2, <1>6 DEF Lending
<1> QED
  <2>1. Separate(h2, r2)
    BY <1>2 DEF Separate
  <2>2. Held(h2, mn2)
    BY <1>3 DEF Held
  <2>3. Pointed(h2, r2)
    BY <1>4, <1>41 DEF Pointed
  <2>4. Accounted(h2, mn2, ls2)
    BY <1>5 DEF Accounted, Found
  <2>5. Conditions(h2, mn2)
    BY <1>51, <1>6 DEF Conditions
  <2> QED
    BY <2>1, <2>2, <2>3, <2>4, <2>5
-----------------------------------------------------------------------------
\* No object of h changes its kind.
SameKinds(h, h2) == DOMAIN h \subseteq DOMAIN h2 /\ \A o \in DOMAIN h : h2[o].kind = h[o].kind

\* What an object points to does not change its kind.
LEMMA FitStays ==
  ASSUME NEW h, NEW h2, SameKinds(h, h2), NEW object, Fit(h, object)
  PROVE  Fit(h2, object)
<1>1. ASSUME NEW ps, NEW kinds, Holds(h, ps, kinds) PROVE Holds(h2, ps, kinds)
  BY <1>1 DEF Holds, SameKinds
<1>2. ASSUME object.live, object.kind = "Interaction"
      PROVE  \E m \in Range(object.many) : \A p \in Range(object.many) : h2[p].kind = "Msg" <=> p = m
  <2>1. \A p \in Range(object.many) : h2[p].kind = h[p].kind
    BY DEF Fit, Holds, SameKinds
  <2> QED
    BY <2>1, <1>2 DEF Fit
<1> QED
  BY <1>1, <1>2 DEF Fit

\* Edits of a sequence, of the heap and of the fields of an object.
LEMMA ExceptSeq ==
  ASSUME NEW S, NEW h \in Seq(S), NEW o \in DOMAIN h, NEW v \in S, NEW g, g = [h EXCEPT ![o] = v]
  PROVE  /\ g \in Seq(S) /\ DOMAIN g = DOMAIN h /\ Len(g) = Len(h)
         /\ g[o] = v /\ \A q \in DOMAIN h : q # o => g[q] = h[q]
<1>1. DOMAIN h = 1..Len(h) /\ Len(h) \in Nat /\ \A i \in DOMAIN h : h[i] \in S
  OBVIOUS
<1>2. DOMAIN g = DOMAIN h /\ g[o] = v /\ \A q \in DOMAIN h : q # o => g[q] = h[q]
  OBVIOUS
<1>3. g \in [1..Len(h) -> S]
  BY <1>1, <1>2
<1>4. g \in Seq(S) /\ Len(g) = Len(h)
  BY <1>1, <1>3
<1> QED
  BY <1>2, <1>4

LEMMA ExceptHeap ==
  ASSUME NEW h \in Seq(Object), NEW o \in DOMAIN h, NEW v \in Object, NEW g, g = [h EXCEPT ![o] = v]
  PROVE  /\ g \in Seq(Object) /\ DOMAIN g = DOMAIN h /\ Len(g) = Len(h)
         /\ g[o] = v /\ \A q \in DOMAIN h : q # o => g[q] = h[q]
BY ExceptSeq

LEMMA RecordMany ==
  ASSUME NEW x \in Object, NEW s \in Seq(Nat), NEW y, y = [x EXCEPT !.many = s]
  PROVE  /\ y \in Object /\ y.many = s /\ y.one = x.one /\ y.lent = x.lent /\ y.kind = x.kind /\ y.live = x.live
BY DEF Object

LEMMA RecordLent ==
  ASSUME NEW x \in Object, NEW s \in Seq(Nat), NEW y, y = [x EXCEPT !.lent = s]
  PROVE  /\ y \in Object /\ y.lent = s /\ y.one = x.one /\ y.many = x.many /\ y.kind = x.kind /\ y.live = x.live
BY DEF Object

LEMMA RecordOne ==
  ASSUME NEW x \in Object, NEW v \in Nat, NEW y, y = [x EXCEPT !.one = v]
  PROVE  /\ y \in Object /\ y.one = v /\ y.many = x.many /\ y.lent = x.lent /\ y.kind = x.kind /\ y.live = x.live
BY DEF Object

LEMMA RecordFreed ==
  ASSUME NEW x \in Object, NEW s \in Seq(Nat), s = << >>, NEW y, y = [x EXCEPT !.live = FALSE, !.one = 0, !.many = << >>]
  PROVE  /\ y \in Object /\ y.live = FALSE /\ y.one = 0 /\ y.many = << >> /\ y.lent = x.lent /\ y.kind = x.kind
BY DEF Object

\* An object edited.
WithMany(h, o, s) == [h EXCEPT ![o].many = s]
WithOne(h, o, v)  == [h EXCEPT ![o].one = v]
WithLent(h, o, s) == [h EXCEPT ![o].lent = s]

\* The heap after one object was edited.
LEMMA EditMany ==
  ASSUME NEW h \in Seq(Object), NEW o \in DOMAIN h, NEW s \in Seq(Nat), NEW g, g = WithMany(h, o, s)
  PROVE  /\ g \in Seq(Object) /\ DOMAIN g = DOMAIN h /\ Len(g) = Len(h) /\ g[o] \in Object
         /\ g[o].many = s /\ g[o].one = h[o].one /\ g[o].lent = h[o].lent
         /\ g[o].kind = h[o].kind /\ g[o].live = h[o].live
         /\ \A q \in DOMAIN h : q # o => g[q] = h[q]
<1> DEFINE y == [h[o] EXCEPT !.many = s]
<1>1. h[o] \in Object
  OBVIOUS
<1>2. g = [h EXCEPT ![o] = y]
  BY DEF WithMany
<1>3. /\ y \in Object /\ y.many = s /\ y.one = h[o].one /\ y.lent = h[o].lent
      /\ y.kind = h[o].kind /\ y.live = h[o].live
  BY <1>1, RecordMany
<1> HIDE DEF y
<1>4. /\ g \in Seq(Object) /\ DOMAIN g = DOMAIN h /\ Len(g) = Len(h)
      /\ g[o] = y /\ \A q \in DOMAIN h : q # o => g[q] = h[q]
  BY <1>2, <1>3, ExceptHeap
<1> QED
  BY <1>3, <1>4

LEMMA EditOne ==
  ASSUME NEW h \in Seq(Object), NEW o \in DOMAIN h, NEW v \in Nat, NEW g, g = WithOne(h, o, v)
  PROVE  /\ g \in Seq(Object) /\ DOMAIN g = DOMAIN h /\ Len(g) = Len(h) /\ g[o] \in Object
         /\ g[o].one = v /\ g[o].many = h[o].many /\ g[o].lent = h[o].lent
         /\ g[o].kind = h[o].kind /\ g[o].live = h[o].live
         /\ \A q \in DOMAIN h : q # o => g[q] = h[q]
<1> DEFINE y == [h[o] EXCEPT !.one = v]
<1>1. h[o] \in Object
  OBVIOUS
<1>2. g = [h EXCEPT ![o] = y]
  BY DEF WithOne
<1>3. /\ y \in Object /\ y.one = v /\ y.many = h[o].many /\ y.lent = h[o].lent
      /\ y.kind = h[o].kind /\ y.live = h[o].live
  BY <1>1, RecordOne
<1> HIDE DEF y
<1>4. /\ g \in Seq(Object) /\ DOMAIN g = DOMAIN h /\ Len(g) = Len(h)
      /\ g[o] = y /\ \A q \in DOMAIN h : q # o => g[q] = h[q]
  BY <1>2, <1>3, ExceptHeap
<1> QED
  BY <1>3, <1>4

LEMMA EditLent ==
  ASSUME NEW h \in Seq(Object), NEW o \in DOMAIN h, NEW s \in Seq(Nat), NEW g, g = WithLent(h, o, s)
  PROVE  /\ g \in Seq(Object) /\ DOMAIN g = DOMAIN h /\ Len(g) = Len(h) /\ g[o] \in Object
         /\ g[o].lent = s /\ g[o].one = h[o].one /\ g[o].many = h[o].many
         /\ g[o].kind = h[o].kind /\ g[o].live = h[o].live
         /\ \A q \in DOMAIN h : q # o => g[q] = h[q]
<1> DEFINE y == [h[o] EXCEPT !.lent = s]
<1>1. h[o] \in Object
  OBVIOUS
<1>2. g = [h EXCEPT ![o] = y]
  BY DEF WithLent
<1>3. /\ y \in Object /\ y.lent = s /\ y.one = h[o].one /\ y.many = h[o].many
      /\ y.kind = h[o].kind /\ y.live = h[o].live
  BY <1>1, RecordLent
<1> HIDE DEF y
<1>4. /\ g \in Seq(Object) /\ DOMAIN g = DOMAIN h /\ Len(g) = Len(h)
      /\ g[o] = y /\ \A q \in DOMAIN h : q # o => g[q] = h[q]
  BY <1>2, <1>3, ExceptHeap
<1> QED
  BY <1>3, <1>4

\* The objects gone are freed, the others are as they were.
IsFreed(h, f, gone) ==
  /\ f \in Seq(Object) /\ DOMAIN f = DOMAIN h /\ Len(f) = Len(h)
  /\ \A o \in DOMAIN h \ gone : f[o] = h[o]
  /\ \A o \in DOMAIN h \cap gone : Pointers(f[o]) = {} /\ ~f[o].live /\ f[o].lent = h[o].lent
  /\ \A o \in DOMAIN h : f[o].kind = h[o].kind
  /\ Formed(f)

\* What Freed makes of a heap.
LEMMA FreedIs ==
  ASSUME NEW h, Formed(h), NEW gone, NEW f, f = Freed(h, gone)
  PROVE  IsFreed(h, f, gone)
<1>0. h \in Seq(Object) /\ DOMAIN h = 1..Len(h) /\ Len(h) \in Nat /\ \A o \in DOMAIN h : h[o] \in Object
  BY PointersInHeap DEF Formed
<1>1. DOMAIN f = DOMAIN h /\ \A o \in DOMAIN h \ gone : f[o] = h[o]
  BY DEF Freed
<1>2. ASSUME NEW o \in DOMAIN h, o \in gone
      PROVE  /\ f[o] = [h[o] EXCEPT !.live = FALSE, !.one = 0, !.many = << >>]
             /\ f[o].one = 0 /\ f[o].many = << >> /\ ~f[o].live /\ f[o].lent = h[o].lent /\ f[o].kind = h[o].kind
             /\ Pointers(f[o]) = {} /\ f[o] \in Object
  <2>1. f[o] = [h[o] EXCEPT !.live = FALSE, !.one = 0, !.many = << >>]
    BY <1>2 DEF Freed
  <2>2. h[o] \in Object
    BY <1>0
  <2>3. /\ f[o].one = 0 /\ f[o].many = << >> /\ ~f[o].live /\ f[o].lent = h[o].lent /\ f[o].kind = h[o].kind
        /\ f[o] \in Object
    <3>1. << >> \in Seq(Nat)
      OBVIOUS
    <3> QED
      BY <2>1, <2>2, <3>1, RecordFreed
  <2>4. Pointers(f[o]) = {}
    BY <2>3 DEF Pointers, Range
  <2> QED
    BY <2>1, <2>3, <2>4
<1>3. f \in Seq(Object) /\ Len(f) = Len(h)
  <2>1. f \in [1..Len(h) -> Object]
    <3>1. \A o \in DOMAIN h : f[o] \in Object
      BY <1>0, <1>1, <1>2
    <3>2. f = [o \in DOMAIN h |-> f[o]]
      BY DEF Freed
    <3> QED
      BY <3>1, <3>2, <1>0
  <2> QED
    BY <2>1, <1>0
<1>4. SameKinds(h, f)
  BY <1>1, <1>2 DEF SameKinds
<1>5. ASSUME NEW o \in DOMAIN h PROVE Fit(f, f[o])
  <2>1. Fit(h, h[o])
    BY DEF Formed
  <2>2. CASE o \notin gone
    BY <2>1, <2>2, <1>1, <1>4, FitStays
  <2>3. CASE o \in gone
    <3>1. Fit(f, h[o])
      BY <2>1, <1>4, FitStays
    <3>2. Range(f[o].many) = {} /\ DOMAIN f[o].many = {}
      <4>1. f[o].many = << >>
        BY <2>3, <1>2
      <4> QED
        BY <4>1 DEF Range
    <3> QED
      BY <3>1, <3>2, <2>3, <1>2 DEF Fit, Holds
  <2> QED
    BY <2>2, <2>3
<1>6. Formed(f)
  BY <1>1, <1>3, <1>5 DEF Formed
<1> QED
  BY <1>1, <1>2, <1>3, <1>4, <1>6 DEF SameKinds, IsFreed

LEMMA FreedFacts ==
  ASSUME NEW h, Formed(h), NEW gone, NEW f, f = Freed(h, gone)
  PROVE  /\ f \in Seq(Object) /\ DOMAIN f = DOMAIN h /\ Len(f) = Len(h)
         /\ \A o \in DOMAIN h \ gone : f[o] = h[o]
         /\ \A o \in DOMAIN h \cap gone : Pointers(f[o]) = {} /\ ~f[o].live /\ f[o].lent = h[o].lent
         /\ \A o \in DOMAIN h : f[o].kind = h[o].kind
         /\ Formed(f)
<1>1. IsFreed(h, f, gone)
  BY FreedIs
<1> QED
  BY <1>1 DEF IsFreed

-----------------------------------------------------------------------------
\* No cycle closes when old objects get no pointers to new ones and the new ones are in
\* no cycle.
LEMMA AcyclicNew ==
  ASSUME NEW h, NEW h2, NEW kinds, Acyclic(h, kinds), SameKinds(h, h2),
         \A o \in DOMAIN h : \A p \in Pointers(h2[o]) :
           h[o].kind \in kinds /\ p \in DOMAIN h2 /\ h2[p].kind \in kinds => p \in DOMAIN h /\ p \in Pointers(h[o]),
         \A S \in SUBSET {o \in DOMAIN h2 \ DOMAIN h : h2[o].kind \in kinds} :
           S # {} => \E p \in S : \A o \in S : p \notin Pointers(h2[o])
  PROVE  Acyclic(h2, kinds)
<1> SUFFICES ASSUME NEW S \in SUBSET {o \in DOMAIN h2 : h2[o].kind \in kinds}, S # {}
             PROVE  \E p \in S : \A o \in S : p \notin Pointers(h2[o])
  BY DEF Acyclic
<1>1. CASE S \cap DOMAIN h = S
  <2>1. S \in SUBSET {o \in DOMAIN h : h[o].kind \in kinds}
    BY <1>1 DEF SameKinds
  <2>2. PICK p \in S : \A o \in S : p \notin Pointers(h[o])
    BY <2>1 DEF Acyclic
  <2>3. ASSUME NEW o \in S PROVE p \notin Pointers(h2[o])
    <3>1. h[o].kind \in kinds /\ p \in DOMAIN h2 /\ h2[p].kind \in kinds /\ o \in DOMAIN h
      BY <2>1
    <3> QED
      BY <2>2, <3>1
  <2> QED
    BY <2>3
<1>2. CASE S \cap DOMAIN h # S
  <2> DEFINE T == S \ DOMAIN h
  <2>1. T \in SUBSET {o \in DOMAIN h2 \ DOMAIN h : h2[o].kind \in kinds} /\ T # {}
    BY <1>2
  <2>2. PICK p \in T : \A o \in T : p \notin Pointers(h2[o])
    BY <2>1
  <2>3. ASSUME NEW o \in S PROVE p \notin Pointers(h2[o])
    <3>1. CASE o \in DOMAIN h
      <4>1. h[o].kind \in kinds /\ p \in DOMAIN h2 /\ h2[p].kind \in kinds /\ p \notin DOMAIN h
        BY <3>1, <2>2 DEF SameKinds
      <4> QED
        BY <4>1, <3>1
    <3>2. CASE o \notin DOMAIN h
      BY <3>2, <2>2
    <3> QED
      BY <3>1, <3>2
  <2> QED
    BY <2>3, <2>2
<1> QED
  BY <1>1, <1>2

\* Nor when one object gets pointers to objects from which it is not reached.
LEMMA AcyclicTaken ==
  ASSUME NEW h, NEW h2, NEW kinds, Acyclic(h, kinds), DOMAIN h2 = DOMAIN h, SameKinds(h, h2),
         NEW host, NEW R, host \notin R, \A x \in R : Pointers(h[x]) \subseteq R,
         \A o \in DOMAIN h : \A p \in Pointers(h2[o]) : p \in Pointers(h[o]) \/ (o = host /\ p \in R)
  PROVE  Acyclic(h2, kinds)
<1> SUFFICES ASSUME NEW S \in SUBSET {o \in DOMAIN h2 : h2[o].kind \in kinds}, S # {},
                    \A p \in S : \E o \in S : p \in Pointers(h2[o])
             PROVE  FALSE
  BY DEF Acyclic
<1>0. S \in SUBSET {o \in DOMAIN h : h[o].kind \in kinds}
  BY DEF SameKinds
<1>1. CASE S \subseteq R
  <2>1. \A p \in S : \E o \in S : p \in Pointers(h[o])
    BY <1>1, <1>0
  <2>2. PICK p \in S : \A o \in S : p \notin Pointers(h[o])
    BY <1>0 DEF Acyclic
  <2> QED
    BY <2>1, <2>2
<1>2. CASE ~(S \subseteq R)
  <2> DEFINE T == S \ R
  <2>1. T \in SUBSET {o \in DOMAIN h : h[o].kind \in kinds} /\ T # {}
    BY <1>0, <1>2
  <2>2. ASSUME NEW p \in T PROVE \E o \in T : p \in Pointers(h[o])
    <3>1. PICK o \in S : p \in Pointers(h2[o])
      OBVIOUS
    <3>2. p \in Pointers(h[o])
      BY <3>1, <1>0
    <3>3. o \notin R
      BY <3>2
    <3> QED
      BY <3>2, <3>3
  <2> HIDE DEF T
  <2>3. PICK p \in T : \A o \in T : p \notin Pointers(h[o])
    BY <2>1 DEF Acyclic
  <2> QED
    BY <2>2, <2>3
<1> QED
  BY <1>1, <1>2

-----------------------------------------------------------------------------
\* What the program can name.
LEMMA NamedFacts ==
  ASSUME Safe(heap, mine, lost), NEW kinds, NEW o \in Named(kinds)
  PROVE  /\ o \in DOMAIN heap /\ heap[o].live /\ heap[o].kind \in kinds
         /\ o \in mine \/ \E q \in DOMAIN heap : o \in Pointers(heap[q]) \/ o \in Range(heap[q].lent)
<1> DEFINE next == [q \in DOMAIN heap |-> LiveParts(q)]
           R == Reached(mine, next)
<1>0. IsFiniteSet(DOMAIN heap)
  BY PointersInHeap DEF Safe
<1>1. next \in [DOMAIN heap -> SUBSET DOMAIN heap]
  BY DEF LiveParts, Live
<1>2. mine \in SUBSET DOMAIN heap /\ \A p \in mine : heap[p].live
  BY DEF Safe, Held
<1>3. next = [q \in DOMAIN heap |-> LiveParts(q)]
  OBVIOUS
<1> HIDE DEF next
<1>4. /\ R \in SUBSET DOMAIN heap
      /\ \A p \in R : p \in mine \/ \E q \in R : p \in next[q]
  BY <1>0, <1>1, <1>2, ReachedFacts
<1>5. o \in R /\ heap[o].kind \in kinds
  BY <1>3 DEF Named
<1> HIDE DEF R
<1>6. CASE o \in mine
  BY <1>6, <1>2, <1>4, <1>5
<1>7. CASE \E q \in R : o \in next[q]
  <2>1. PICK q \in R : o \in next[q]
    BY <1>7
  <2>2. q \in DOMAIN heap /\ o \in LiveParts(q)
    BY <2>1, <1>3, <1>4
  <2> QED
    BY <2>2, <1>5 DEF LiveParts, Live, PointersOf, Lent
<1> QED
  BY <1>4, <1>5, <1>6, <1>7

\* A destructor follows the pointers to live objects.
LEMMA DeletedFacts ==
  ASSUME Safe(heap, mine, lost), NEW roots \in SUBSET DOMAIN heap
  PROVE  /\ Deleted(roots) \in SUBSET DOMAIN heap /\ roots \subseteq Deleted(roots)
         /\ \A d \in Deleted(roots) : \A p \in Pointers(heap[d]) : heap[p].live => p \in Deleted(roots)
         /\ \A p \in Deleted(roots) \ roots : heap[p].live /\ \E d \in Deleted(roots) : p \in Pointers(heap[d])
         /\ \A S \in SUBSET DOMAIN heap :
              roots \subseteq S /\ (\A q \in S : Pointers(heap[q]) \subseteq S) => Deleted(roots) \subseteq S
<1> DEFINE next == [q \in DOMAIN heap |-> LivePointers(q)]
           R == Deleted(roots)
<1>0. IsFiniteSet(DOMAIN heap) /\ \A o \in DOMAIN heap : Pointers(heap[o]) \subseteq DOMAIN heap
  BY PointersInHeap DEF Safe
<1>1. next \in [DOMAIN heap -> SUBSET DOMAIN heap]
  BY DEF LivePointers, Live
<1>2. \A q \in DOMAIN heap : next[q] = Pointers(heap[q]) \cap {p \in DOMAIN heap : heap[p].live}
  BY DEF LivePointers, Live, PointersOf
<1>3. R = Reached(roots, next)
  BY DEF Deleted
<1> HIDE DEF next
<1>4. /\ R \in SUBSET DOMAIN heap /\ roots \subseteq R
      /\ \A q \in R : next[q] \subseteq R
      /\ \A S \in SUBSET DOMAIN heap : roots \subseteq S /\ Closed(S, next) => R \subseteq S
      /\ \A p \in R : p \in roots \/ \E q \in R : p \in next[q]
  BY <1>0, <1>1, <1>3, ReachedFacts
<1> HIDE DEF R
<1>5. ASSUME NEW d \in R, NEW p \in Pointers(heap[d]), heap[p].live PROVE p \in R
  BY <1>5, <1>4, <1>2, <1>0
<1>6. ASSUME NEW p \in R \ roots PROVE heap[p].live /\ \E d \in R : p \in Pointers(heap[d])
  BY <1>4, <1>2
<1>7. ASSUME NEW S \in SUBSET DOMAIN heap, roots \subseteq S, \A q \in S : Pointers(heap[q]) \subseteq S
      PROVE  R \subseteq S
  <2>1. Closed(S, next)
    BY <1>7, <1>2 DEF Closed
  <2> QED
    BY <2>1, <1>4, <1>7
<1> QED
  BY <1>4, <1>5, <1>6, <1>7 DEF R

\* The kinds that are no nodes.
LeafKind == {"Role", "Payload", "Msg", "Expr"}

\* What is not a node holds no nodes.
LEMMA LeavesHold ==
  ASSUME NEW h, Formed(h), NEW o \in DOMAIN h, NEW p \in Pointers(h[o])
  PROVE  /\ p \in DOMAIN h /\ h[p].kind \in HoldsOne(h[o].kind) \cup HoldsMany(h[o].kind)
         /\ h[o].kind \in LeafKind => h[p].kind \in LeafKind
         /\ h[o].kind = "Expr" => h[p].kind = "Expr"
         /\ h[p].kind \in AnyKind
<1>1. Fit(h, h[o])
  BY DEF Formed
<1>2. p \in DOMAIN h /\ h[p].kind \in HoldsOne(h[o].kind) \cup HoldsMany(h[o].kind)
  BY <1>1 DEF Fit, Holds, Pointers
<1>3. h[p] \in Object /\ h[o] \in Object
  BY <1>2, PointersInHeap
<1>4. h[p].kind \in AnyKind
  BY <1>3 DEF Object
<1>5. h[o].kind \in LeafKind => h[p].kind \in LeafKind
  BY <1>2 DEF HoldsOne, HoldsMany, LeafKind
<1>6. h[o].kind = "Expr" => h[p].kind = "Expr"
  BY <1>2 DEF HoldsOne, HoldsMany
<1> QED
  BY <1>2, <1>4, <1>5, <1>6

LEMMA DeletedLeaves ==
  ASSUME Safe(heap, mine, lost), NEW roots \in SUBSET DOMAIN heap,
         \A r \in roots : heap[r].kind \in LeafKind
  PROVE  \A d \in Deleted(roots) : heap[d].kind \in LeafKind
<1> DEFINE S == {o \in DOMAIN heap : heap[o].kind \in LeafKind}
<1>1. roots \subseteq S
  OBVIOUS
<1>2. \A q \in S : Pointers(heap[q]) \subseteq S
  BY LeavesHold DEF Safe
<1>3. Deleted(roots) \subseteq S
  BY <1>1, <1>2, DeletedFacts
<1> QED
  BY <1>3
-----------------------------------------------------------------------------
\* PointersTo counts owners: none, or one if no two objects point to p.
LEMMA PointersToFacts ==
  ASSUME Formed(heap), NEW p \in DOMAIN heap, NEW objects \in SUBSET DOMAIN heap
  PROVE  /\ PointersTo(p, objects) = {} <=> \A o \in objects : p \notin Pointers(heap[o])
         /\ (\A o, q \in objects : p \in Pointers(heap[o]) \cap Pointers(heap[q]) => o = q)
              => IsFiniteSet(PointersTo(p, objects)) /\ Cardinality(PointersTo(p, objects)) \in {0, 1}
<1> DEFINE slots(o) == {i \in Slots(heap[o]) : At(heap[o], i) = p}
           T == PointersTo(p, objects)
<1>0. DOMAIN heap \subseteq Nat \ {0} /\ \A o \in DOMAIN heap : heap[o] \in Object
  BY PointersInHeap
<1>1. ASSUME NEW o \in objects PROVE slots(o) = {} <=> p \notin Pointers(heap[o])
  <2>1. heap[o].many \in Seq(Nat) /\ p # 0
    BY <1>0 DEF Object
  <2>2. DOMAIN heap[o].many = 1..Len(heap[o].many) /\ Len(heap[o].many) \in Nat
    BY <2>1
  <2>3. ASSUME NEW i \in slots(o) PROVE p \in Pointers(heap[o])
    BY <2>1, <2>2 DEF Slots, At, Pointers, Range
  <2>4. ASSUME p \in Pointers(heap[o]) PROVE slots(o) # {}
    <3>1. CASE heap[o].one = p
      BY <3>1, <2>2 DEF Slots, At
    <3>2. CASE p \in Range(heap[o].many)
      <4>1. PICK i \in DOMAIN heap[o].many : heap[o].many[i] = p
        BY <3>2 DEF Range
      <4>2. i \in Slots(heap[o]) /\ At(heap[o], i) = p
        BY <4>1, <2>2 DEF Slots, At
      <4> QED
        BY <4>2
    <3> QED
      BY <3>1, <3>2, <2>4 DEF Pointers
  <2> QED
    BY <2>3, <2>4
<1>2. \A t : t \in T <=> \E o \in objects : \E i \in slots(o) : t = <<o, i>>
  BY DEF PointersTo
<1>3. ASSUME NEW o \in objects, NEW i \in slots(o), NEW j \in slots(o) PROVE i = j
  <2>1. Fit(heap, heap[o])
    BY DEF Formed
  <2>2. heap[o].many \in Seq(Nat) /\ p # 0
    BY <1>0 DEF Object
  <2>3. DOMAIN heap[o].many = 1..Len(heap[o].many) /\ Len(heap[o].many) \in Nat
    BY <2>2
  <2>4. /\ heap[o].one \notin Range(heap[o].many)
        /\ \A k, l \in DOMAIN heap[o].many : heap[o].many[k] = heap[o].many[l] => k = l
    BY <2>1 DEF Fit
  <2>5. \A k \in DOMAIN heap[o].many : heap[o].many[k] # heap[o].one
    BY <2>4 DEF Range
  <2> QED
    BY <2>3, <2>4, <2>5 DEF Slots, At
<1> HIDE DEF slots, T
<1>4. T = {} <=> \A o \in objects : p \notin Pointers(heap[o])
  BY <1>1, <1>2
<1>5. ASSUME \A o, q \in objects : p \in Pointers(heap[o]) \cap Pointers(heap[q]) => o = q
      PROVE  IsFiniteSet(T) /\ Cardinality(T) \in {0, 1}
  <2>1. CASE T = {}
    BY <2>1, FS_EmptySet
  <2>2. CASE T # {}
    <3>1. PICK t \in T : TRUE
      BY <2>2
    <3>2. T = {t}
      <4> SUFFICES ASSUME NEW u \in T PROVE u = t
        BY <3>1
      <4>1. PICK o \in objects : \E i \in slots(o) : t = <<o, i>>
        BY <3>1, <1>2
      <4>2. PICK q \in objects : \E i \in slots(q) : u = <<q, i>>
        BY <1>2
      <4>3. p \in Pointers(heap[o]) \cap Pointers(heap[q])
        BY <4>1, <4>2, <1>1
      <4>4. o = q
        BY <4>3, <1>5
      <4> QED
        BY <4>1, <4>2, <4>4, <1>3
    <3> QED
      BY <3>2, FS_Singleton
  <2> QED
    BY <2>1, <2>2
<1> QED
  BY <1>4, <1>5 DEF T

-----------------------------------------------------------------------------
\* Rule 9 has left a sender behind.
TheRelic == Relic(heap, mine, lost)

\* An object with two owners is one that copies share.
LEMMA MayShareShares ==
  ASSUME Safe(heap, mine, lost), NEW o \in DOMAIN heap, NEW p \in Pointers(heap[o]), MayShare(heap, TheRelic, o, p)
  PROVE  Shares(o, p) /\ MayBeShared(p)
<1>1. TheRelic => IndicesShared
  BY DEF TheRelic, Relic, IndicesShared
<1>2. Shares(o, p)
  BY <1>1 DEF MayShare, Shares
<1> QED
  BY <1>2 DEF MayBeShared, PointersOf

LEMMA TwoOwners ==
  ASSUME Safe(heap, mine, lost), NEW o \in DOMAIN heap, NEW q \in DOMAIN heap, o # q,
         NEW p \in Pointers(heap[o]) \cap Pointers(heap[q])
  PROVE  MayBeShared(p)
<1>1. MayShare(heap, TheRelic, o, p)
  BY DEF Safe, Separate, TheRelic
<1> QED
  BY <1>1, MayShareShares

\* What a copy constructor follows.
LEMMA ClonedFacts ==
  ASSUME Safe(heap, mine, lost), NEW a \in DOMAIN heap
  PROVE  /\ Cloned(a) \in SUBSET DOMAIN heap /\ a \in Cloned(a)
         /\ \A m \in Cloned(a) : ClonedParts(m) \subseteq Cloned(a)
         /\ \A S \in SUBSET DOMAIN heap :
              a \in S /\ (\A m \in S : ClonedParts(m) \subseteq S) => Cloned(a) \subseteq S
         /\ \A p \in Cloned(a) : p = a \/ \E m \in Cloned(a) : p \in ClonedParts(m)
<1>0. IsFiniteSet(DOMAIN heap)
      /\ \A o \in DOMAIN heap : Pointers(heap[o]) \subseteq DOMAIN heap /\ Range(heap[o].lent) \subseteq DOMAIN heap
  BY PointersInHeap DEF Safe
<1>1. Parts \in [DOMAIN heap -> SUBSET DOMAIN heap] /\ \A m \in DOMAIN heap : Parts[m] = ClonedParts(m)
  BY <1>0 DEF Parts, ClonedParts, PointersOf, Lent
<1>2. {a} \in SUBSET DOMAIN heap
  OBVIOUS
<1>3. /\ Cloned(a) \in SUBSET DOMAIN heap /\ {a} \subseteq Cloned(a)
      /\ \A q \in Cloned(a) : Parts[q] \subseteq Cloned(a)
      /\ \A S \in SUBSET DOMAIN heap : {a} \subseteq S /\ Closed(S, Parts) => Cloned(a) \subseteq S
      /\ \A p \in Cloned(a) : p \in {a} \/ \E q \in Cloned(a) : p \in Parts[q]
  BY <1>0, <1>1, <1>2, ReachedFacts DEF Cloned
<1>4. ASSUME NEW S \in SUBSET DOMAIN heap, a \in S, \A m \in S : ClonedParts(m) \subseteq S PROVE Cloned(a) \subseteq S
  <2>1. Closed(S, Parts)
    BY <1>4, <1>1 DEF Closed
  <2> QED
    BY <2>1, <1>3, <1>4
<1> QED
  BY <1>1, <1>3, <1>4

\* What a part is that is cloned: pointed to, or the condition of an interaction.
LEMMA ClonedPartKinds ==
  ASSUME Formed(heap), NEW m \in DOMAIN heap, NEW p \in ClonedParts(m)
  PROVE  /\ p \in DOMAIN heap /\ p \notin SharedParts(m)
         /\ p \in Pointers(heap[m]) \/ (heap[m].kind = "Interaction" /\ p \in Range(heap[m].lent))
         /\ p \notin LeftOut(m)
<1>1. Fit(heap, heap[m]) /\ heap[m].kind \in AnyKind
  BY PointersInHeap DEF Formed, Object
<1>2. p \in Pointers(heap[m]) \cup Range(heap[m].lent) /\ p \notin SharedParts(m) /\ p \notin LeftOut(m)
  BY DEF ClonedParts, PointersOf, Lent
<1>3. p \in DOMAIN heap
  BY <1>2, PointersInHeap
<1>4. ASSUME p \in Range(heap[m].lent), heap[m].kind # "Interaction" PROVE FALSE
  <2>1. heap[p].kind \in HoldsLent(heap[m].kind)
    BY <1>1, <1>4 DEF Fit, Holds
  <2>2. heap[m].kind \in {"AllReduce", "Oneof"}
    BY <2>1, <1>4 DEF HoldsLent
  <2>3. CASE heap[m].kind = "AllReduce"
    BY <2>3, <1>4, <1>2 DEF SharedParts, Lent
  <2>4. CASE heap[m].kind = "Oneof"
    <3>1. heap[p].kind \in {"Role", "Expr"}
      BY <2>1, <2>4 DEF HoldsLent
    <3> QED
      BY <3>1, <2>4, <1>4, <1>2 DEF SharedParts, LeftOut, PartsOf, PointersOf, Lent
  <2> QED
    BY <2>2, <2>3, <2>4
<1> QED
  BY <1>2, <1>3, <1>4

\* What may be deleted: an object without an owner, which may be gone when it is a condition
\* that the program keeps, or one whose owner is not deleted.
Deletable(roots) ==
  \A r \in roots :
    \/ (heap[r].live \/ r \in kept) /\ \A o \in DOMAIN heap : r \notin Pointers(heap[o])
    \/ \E n \in DOMAIN heap \ Deleted(roots) : r \in Pointers(heap[n])

\* What a destructor meets twice, or freed, is shared or kept.
LEMMA TwiceConfined ==
  ASSUME Safe(heap, mine, lost), NEW roots \in SUBSET DOMAIN heap, Deletable(roots), NEW p \in FreedTwice(roots)
  PROVE  p \in DOMAIN heap /\ (MayBeShared(p) \/ p \in kept)
<1> DEFINE D == Deleted(roots)
           times == Cardinality(PointersTo(p, D)) + (IF p \in roots THEN 1 ELSE 0)
<1>1. /\ D \in SUBSET DOMAIN heap /\ roots \subseteq D
  BY DeletedFacts
<1>2. /\ p \in roots \/ \E o \in D : p \in Pointers(heap[o])
      /\ ~heap[p].live \/ times > 1
  BY DEF FreedTwice, PointersOf
<1>3. p \in DOMAIN heap
  BY <1>1, <1>2, PointersInHeap DEF Safe
<1>4. CASE ~heap[p].live
  <2> SUFFICES ASSUME p \notin kept PROVE MayBeShared(p)
    BY <1>3
  <2>1. PICK o \in DOMAIN heap : p \in Pointers(heap[o])
    BY <1>4, <1>2, <1>1 DEF Deletable
  <2>2. MayShare(heap, TheRelic, o, p)
    BY <1>4, <2>1 DEF Safe, Pointed, TheRelic
  <2> QED
    BY <1>3, <2>1, <2>2, MayShareShares
<1>5. CASE times > 1
  <2> SUFFICES ASSUME ~MayBeShared(p) PROVE FALSE
    BY <1>3
  <2>1. \A o, q \in D : p \in Pointers(heap[o]) \cap Pointers(heap[q]) => o = q
    BY <1>1, TwoOwners
  <2>2. Formed(heap)
    BY DEF Safe
  <2>3. Cardinality(PointersTo(p, D)) \in {0, 1}
    BY <2>1, <2>2, <1>1, <1>3, PointersToFacts
  <2>4. p \in roots /\ Cardinality(PointersTo(p, D)) = 1
    BY <2>3, <1>5
  <2>5. PointersTo(p, D) # {}
    BY <2>4, FS_EmptySet
  <2>6. PICK d \in D : p \in Pointers(heap[d])
    BY <2>2, <2>5, <1>1, <1>3, PointersToFacts
  <2>7. PICK n \in DOMAIN heap \ D : p \in Pointers(heap[n])
    BY <2>4, <2>6, <1>1 DEF Deletable
  <2> QED
    BY <2>6, <2>7, <1>1, TwoOwners
<1> QED
  BY <1>2, <1>4, <1>5

\* A call that is undefined goes wrong where UndefinedConfined says.
LEMMA WrongFacts ==
  ASSUME Safe(heap, mine, lost), NEW roots \in SUBSET DOMAIN heap, Deletable(roots), NEW arg,
         arg = 0 \/ (arg \in DOMAIN heap /\ heap[arg].live /\ roots \cap mine = {})
  PROVE  /\ Wrong(roots, arg).what \in {"none", "double free", "use after free"}
         /\ \A p \in Wrong(roots, arg).to :
              p \in DOMAIN heap /\ (MayBeShared(p) \/ p \in kept \/ (Wrong(roots, arg).what = "use after free" /\ p \in Live /\ p \notin mine))
         /\ Wrong(roots, arg) = Defined =>
              /\ FreedTwice(roots) = {}
              /\ \A d \in Deleted(roots) : heap[d].live
              /\ arg # 0 => \A m \in Cloned(arg) : heap[m].live /\ m \notin Deleted(roots)
<1> DEFINE D == Deleted(roots)
           twice == FreedTwice(roots)
           dead == IF arg = 0 THEN {} ELSE Cloned(arg) \ (Live \ D)
<1>1. D \in SUBSET DOMAIN heap /\ roots \subseteq D /\ \A p \in D \ roots : heap[p].live /\ \E d \in D : p \in Pointers(heap[d])
  BY DeletedFacts
<1>2. ASSUME NEW p \in dead PROVE p \in DOMAIN heap /\ (MayBeShared(p) \/ p \in kept \/ (p \in Live /\ p \notin mine))
  <2>0. arg \in DOMAIN heap /\ heap[arg].live /\ roots \cap mine = {} /\ p \in Cloned(arg)
    OBVIOUS
  <2>1. p \in DOMAIN heap
    BY <2>0, ClonedFacts
  <2>2. CASE heap[p].live
    <3>1. p \in D
      BY <2>0, <2>1, <2>2 DEF Live
    <3>2. CASE p \in mine
      <4>1. PICK d \in D : p \in Pointers(heap[d])
        BY <3>1, <3>2, <2>0, <1>1
      <4> QED
        BY <4>1, <3>2, <1>1 DEF Safe, Held
    <3> QED
      BY <3>2, <2>1, <2>2 DEF Live
  <2>3. CASE ~heap[p].live
    <3>1. PICK m \in Cloned(arg) : p \in ClonedParts(m)
      BY <2>0, <2>3, ClonedFacts
    <3>2. m \in DOMAIN heap
      BY <2>0, ClonedFacts
    <3>3. p \in Pointers(heap[m]) \/ (heap[m].kind = "Interaction" /\ p \in Range(heap[m].lent))
      BY <3>1, <3>2, ClonedPartKinds DEF Safe
    <3>4. p \in Pointers(heap[m]) \/ p \in kept
      BY <3>2, <3>3, <2>3 DEF Safe, Conditions
    <3>5. p \in Pointers(heap[m]) => MayShare(heap, TheRelic, m, p)
      BY <3>2, <2>3 DEF Safe, Pointed, TheRelic
    <3> QED
      BY <2>1, <3>2, <3>4, <3>5, MayShareShares
  <2> QED
    BY <2>2, <2>3
<1>3. \A p \in twice : p \in DOMAIN heap /\ (MayBeShared(p) \/ p \in kept)
  BY TwiceConfined
<1>4. Wrong(roots, arg) = CASE twice # {}              -> [what |-> "double free", to |-> twice]
                            [] twice = {} /\ dead # {} -> [what |-> "use after free", to |-> dead]
                            [] OTHER                   -> Defined
  BY DEF Wrong
<1>6. \A d \in D : ~heap[d].live => d \in twice
  BY <1>1 DEF FreedTwice
<1>7. arg # 0 /\ dead = {} => \A m \in Cloned(arg) : heap[m].live /\ m \notin D
  BY DEF Live
<1> DEFINE w == Wrong(roots, arg)
<1>5. CASE twice # {}
  <2>1. w = [what |-> "double free", to |-> twice]
    BY <1>5, <1>4
  <2> HIDE DEF w, twice, dead, D
  <2>2. w.what = "double free" /\ w.to = twice /\ w # Defined
    BY <2>1 DEF Defined
  <2> QED
    BY <2>2, <1>3 DEF w
<1>8. CASE twice = {} /\ dead # {}
  <2>1. w = [what |-> "use after free", to |-> dead]
    BY <1>8, <1>4
  <2> HIDE DEF w, twice, dead, D
  <2>2. w.what = "use after free" /\ w.to = dead /\ w # Defined
    BY <2>1 DEF Defined
  <2> QED
    BY <2>2, <1>2 DEF w
<1>9. CASE twice = {} /\ dead = {}
  <2>1. w = Defined
    BY <1>9, <1>4
  <2> HIDE DEF w, twice, dead, D
  <2>2. w.what = "none" /\ w.to = {}
    BY <2>1 DEF Defined
  <2>3. FreedTwice(roots) = {} /\ \A d \in D : heap[d].live
    BY <1>9, <1>6 DEF twice
  <2> QED
    BY <2>2, <2>3, <1>7, <1>9 DEF w, D
<1> QED
  BY <1>5, <1>8, <1>9
-----------------------------------------------------------------------------
\* The objects that are new, and those edited, H.
NewIn(h2, H) == H \cup (DOMAIN h2 \ DOMAIN heap)

\* Edges, for the objects that are new or edited (H).
NewEdges(h2, mn2, ls2, roots, H) ==
  LET r2 == Relic(h2, mn2, ls2) IN
  \A o \in NewIn(h2, H) : \A p \in Pointers(h2[o]) :
    \/ o \in H /\ p \in Pointers(heap[o])
    \/ /\ o \notin DOMAIN heap /\ MayShare(h2, r2, o, p)
       /\ \E q \in DOMAIN heap : p \in Pointers(heap[q]) /\ MayShare(h2, r2, q, p)
    \/ /\ p \in mine \ roots \/ p \in DOMAIN h2 \ DOMAIN heap
       /\ p \notin mn2
       /\ \A q \in NewIn(h2, H) : q # o /\ p \in Pointers(h2[q]) =>
            MayShare(h2, r2, o, p) /\ MayShare(h2, r2, q, p)

\* The program keeps c, which is the condition of no interaction but n.
FreeToLend(n, c) ==
  c \in kept /\ \A o \in DOMAIN heap : o # n /\ heap[o].kind = "Interaction" => c \notin Range(heap[o].lent)

\* Lending, for those; nor do they borrow what nobody has.
NewLending(h2, mn2, roots, H) ==
  \A n \in NewIn(h2, H) : \A c \in Range(h2[n].lent) :
    /\ ~Stray(heap, mine, c)
    /\ h2[n].kind = "Interaction" =>
         \/ n \in H /\ c \in Range(heap[n].lent) /\ c \notin roots
         \/ /\ c \in mine \ roots \/ c \in DOMAIN h2 \ DOMAIN heap \/ FreeToLend(n, c)
            /\ c \notin mn2
            /\ \A o \in NewIn(h2, H) : c \notin Pointers(h2[o]) /\
                 (o # n /\ h2[o].kind = "Interaction" => c \notin Range(h2[o].lent))

\* What is deleted was the program's own, or an edited object let go of it.
LetGo(h2, roots, H) ==
  \A r \in roots :
    \/ r \in mine \cup kept
    \/ \E n \in H : \/ r \in Pointers(heap[n]) /\ r \notin Pointers(h2[n])
                    \/ heap[n].kind = "Interaction" /\ r \in Range(heap[n].lent)

\* What edited objects and the program let go of is deleted or still found.
NewKept(h2, mn2, ls2, roots, H) ==
  /\ \A n \in H : \A p \in Pointers(heap[n]) : p \in Pointers(h2[n]) \cup roots \cup ls2
  /\ \A n \in H : \A p \in Range(heap[n].lent) : Lends(heap, n, p) => p \in Range(h2[n].lent) \cup roots \cup ls2
  /\ \A p \in mine \cup (DOMAIN h2 \ DOMAIN heap) : p \in roots \/ Found(h2, mn2, ls2, p)

\* What was let go of may be deleted.
LEMMA LetGoDeletable ==
  ASSUME Safe(heap, mine, lost), NEW roots \in SUBSET DOMAIN heap, NEW H \in SUBSET DOMAIN heap,
         H \cap Deleted(roots) = {}, NEW h2, LetGo(h2, roots, H)
  PROVE  Deletable(roots)
<1> SUFFICES ASSUME NEW r \in roots
             PROVE  \/ (heap[r].live \/ r \in kept) /\ \A o \in DOMAIN heap : r \notin Pointers(heap[o])
                    \/ \E n \in DOMAIN heap \ Deleted(roots) : r \in Pointers(heap[n])
  BY DEF Deletable
<1>1. CASE r \in mine
  BY <1>1 DEF Safe, Held
<1>11. CASE r \in kept
  BY <1>11 DEF Safe, Conditions, Unclaimed
<1>2. CASE \E n \in H : r \in Pointers(heap[n])
  BY <1>2
<1>3. CASE \E n \in H : heap[n].kind = "Interaction" /\ r \in Range(heap[n].lent)
  BY <1>3 DEF Safe, Conditions
<1> QED
  BY <1>1, <1>11, <1>2, <1>3 DEF LetGo

\* A call that deletes roots, edits the objects of H and allocates others is safe.
LEMMA EditStep ==
  ASSUME Safe(heap, mine, lost), NEW roots \in SUBSET DOMAIN heap, NEW H \in SUBSET DOMAIN heap,
         NEW h2, NEW mn2, NEW ls2, NEW D, D = Deleted(roots),
         \A d \in D : heap[d].live,
         H \cap D = {}, \A n \in H : heap[n].live /\ ~Stray(heap, mine, n),
         h2 \in Seq(Object), DOMAIN heap \subseteq DOMAIN h2,
         \A o \in DOMAIN heap \ H : h2[o] = Freed(heap, D)[o],
         \A n \in H : h2[n].kind = heap[n].kind /\ h2[n].live,
         \A o \in DOMAIN h2 \ DOMAIN heap : h2[o].live,
         \A o \in NewIn(h2, H) : Fit(h2, h2[o]),
         Acyclic(h2, NodeKind), Acyclic(h2, {"Expr"}),
         NewEdges(h2, mn2, ls2, roots, H), NewLending(h2, mn2, roots, H), LetGo(h2, roots, H),
         NewKept(h2, mn2, ls2, roots, H),
         \A p \in mn2 : p \in mine \ roots \/ p \in DOMAIN h2 \ DOMAIN heap,
         lost \subseteq ls2, ls2 \subseteq DOMAIN h2
  PROVE  Safe(h2, mn2, ls2)
<1> DEFINE r == TheRelic
           r2 == Relic(h2, mn2, ls2)
           f == Freed(heap, D)
<1>0. /\ Formed(heap) /\ Separate(heap, r) /\ Held(heap, mine) /\ Pointed(heap, r)
      /\ Accounted(heap, mine, lost) /\ Conditions(heap, mine) /\ lost \subseteq DOMAIN heap
  BY DEF Safe, TheRelic
<1>1. \A o \in DOMAIN heap : Pointers(heap[o]) \subseteq DOMAIN heap /\ Range(heap[o].lent) \subseteq DOMAIN heap
  BY <1>0, PointersInHeap
<1>2. /\ \A o \in DOMAIN heap \ D : f[o] = heap[o]
      /\ \A o \in DOMAIN heap \cap D : Pointers(f[o]) = {} /\ ~f[o].live /\ f[o].lent = heap[o].lent
      /\ \A o \in DOMAIN heap : f[o].kind = heap[o].kind
      /\ DOMAIN f = DOMAIN heap /\ \A o \in DOMAIN heap : Fit(f, f[o])
  <2>1. f = Freed(heap, D)
    OBVIOUS
  <2> HIDE DEF f, r, r2
  <2> QED
    <3>1. /\ \A o \in DOMAIN heap \ D : f[o] = heap[o]
          /\ \A o \in DOMAIN heap \cap D : Pointers(f[o]) = {} /\ ~f[o].live /\ f[o].lent = heap[o].lent
          /\ \A o \in DOMAIN heap : f[o].kind = heap[o].kind
          /\ DOMAIN f = DOMAIN heap /\ Formed(f)
      BY <2>1, <1>0, FreedFacts
    <3> QED
      BY <3>1 DEF Formed
<1>3. /\ D \in SUBSET DOMAIN heap /\ roots \subseteq D
      /\ \A d \in D : \A p \in Pointers(heap[d]) : heap[p].live => p \in D
      /\ \A p \in D \ roots : \E d \in D : p \in Pointers(heap[d])
  BY DeletedFacts
<1> HIDE DEF f, r, r2
<1>4. \A o \in DOMAIN heap : h2[o].kind = heap[o].kind
  BY <1>2 DEF f
<1>5. Formed(h2)
  <2>1. SameKinds(f, h2)
    BY <1>2, <1>4 DEF SameKinds
  <2>2. ASSUME NEW o \in DOMAIN h2 PROVE Fit(h2, h2[o])
    <3>1. CASE o \in DOMAIN heap \ H
      BY <3>1, <2>1, <1>2, FitStays DEF f
    <3>2. CASE o \notin DOMAIN heap \ H
      BY <3>2 DEF NewIn
    <3> QED
      BY <3>1, <3>2
  <2> QED
    BY <2>2 DEF Formed
<1>6. Grows(heap, h2, D)
  <2>1. ASSUME NEW o \in DOMAIN heap PROVE h2[o].live <=> heap[o].live /\ o \notin D
    <3>1. CASE o \in H
      BY <3>1
    <3>2. CASE o \notin H /\ o \in D
      BY <3>2, <1>2 DEF f
    <3>3. CASE o \notin H /\ o \notin D
      BY <3>3, <1>2 DEF f
    <3> QED
      BY <3>1, <3>2, <3>3
  <2>2. \A d \in D : d \in DOMAIN heap /\ heap[d].live /\ Pointers(h2[d]) = {}
    BY <1>2, <1>3 DEF f
  <2> QED
    BY <2>1, <2>2, <1>3, <1>4 DEF Grows
<1>7. ASSUME NEW o \in DOMAIN heap \ H, NEW p \in Pointers(h2[o]) PROVE p \in Pointers(heap[o]) /\ o \notin D
  BY <1>7, <1>2 DEF f
<1>8. Edges(heap, h2, mine, mn2, r, r2)
  <2> SUFFICES ASSUME NEW o \in DOMAIN h2, NEW p \in Pointers(h2[o])
               PROVE  \/ o \in DOMAIN heap /\ p \in Pointers(heap[o])
                      \/ /\ o \notin DOMAIN heap /\ MayShare(h2, r2, o, p)
                         /\ \E q \in DOMAIN heap : p \in Pointers(heap[q]) /\ MayShare(h2, r2, q, p)
                      \/ /\ p \in mine \/ p \in DOMAIN h2 \ DOMAIN heap
                         /\ p \notin mn2
                         /\ \A q \in DOMAIN h2 : q # o /\ p \in Pointers(h2[q]) =>
                              MayShare(h2, r2, o, p) /\ MayShare(h2, r2, q, p)
    BY DEF Edges
  <2>1. CASE o \in DOMAIN heap \ H
    BY <2>1, <1>7
  <2>2. CASE o \in NewIn(h2, H)
    <3>1. CASE o \in H /\ p \in Pointers(heap[o])
      BY <3>1
    <3>2. CASE /\ o \notin DOMAIN heap /\ MayShare(h2, r2, o, p)
               /\ \E q \in DOMAIN heap : p \in Pointers(heap[q]) /\ MayShare(h2, r2, q, p)
      BY <3>2
    <3>3. CASE /\ p \in mine \ roots \/ p \in DOMAIN h2 \ DOMAIN heap
               /\ p \notin mn2
               /\ \A q \in NewIn(h2, H) : q # o /\ p \in Pointers(h2[q]) =>
                    MayShare(h2, r2, o, p) /\ MayShare(h2, r2, q, p)
      <4>1. ASSUME NEW q \in DOMAIN heap \ H PROVE p \notin Pointers(h2[q])
        BY <3>3, <1>7, <1>0, <1>1 DEF Held
      <4> QED
        BY <3>3, <4>1 DEF NewIn
    <3> QED
      BY <2>2, <3>1, <3>2, <3>3 DEF NewEdges, r, r2
  <2> QED
    BY <2>1, <2>2 DEF NewIn
<1>81. ASSUME NEW s, Stray(heap, mine, s)
       PROVE  Stray(h2, mn2, s) /\ h2[s] = heap[s]
  <2>1. /\ s \in DOMAIN heap /\ s \notin mine \cup kept
        /\ \A o \in DOMAIN heap : s \notin Pointers(heap[o]) /\ s \notin Range(heap[o].lent)
    BY <1>81 DEF Stray
  <2>2. s \notin D
    <3>1. s \notin roots
      BY <2>1 DEF LetGo
    <3> QED
      BY <3>1, <2>1, <1>3
  <2>3. h2[s] = heap[s]
    BY <2>1, <2>2, <1>2, <1>81 DEF f
  <2>4. s \in DOMAIN h2 /\ s \notin mn2 \cup kept
    BY <2>1
  <2>5. \A o \in DOMAIN h2 : s \notin Pointers(h2[o])
    BY <2>1, <1>8 DEF Edges
  <2>6. ASSUME NEW o \in DOMAIN h2, s \in Range(h2[o].lent) PROVE FALSE
    <3>1. CASE o \in NewIn(h2, H)
      BY <3>1, <2>6, <1>81 DEF NewLending
    <3>2. CASE o \in DOMAIN heap \ H
      BY <3>2, <2>1, <2>6, <1>2 DEF f
    <3> QED
      BY <3>1, <3>2 DEF NewIn
  <2> QED
    BY <2>3, <2>4, <2>5, <2>6 DEF Stray
<1>82. r => r2
  BY <1>81, <1>6, RelicStays DEF r, r2, TheRelic
<1>9. Unowned(heap, h2, r2, D)
  <2> SUFFICES ASSUME NEW p \in D, \A d \in D : p \notin Pointers(heap[d]),
                      NEW o \in DOMAIN h2, p \in Pointers(h2[o])
               PROVE  MayShare(h2, r2, o, p)
    BY DEF Unowned
  <2>0. p \in roots /\ p \in DOMAIN heap
    BY <1>3
  <2>1. CASE o \notin DOMAIN heap /\ MayShare(h2, r2, o, p)
    BY <2>1
  <2>2. CASE p \in mine
    <3>1. \A x \in DOMAIN heap : p \notin Pointers(heap[x])
      BY <2>2, <1>0 DEF Held
    <3>2. o \in NewIn(h2, H)
      BY <3>1, <1>7 DEF NewIn
    <3> QED
      BY <3>1, <3>2, <2>0, <2>2 DEF NewEdges, r2
  <2>3. CASE o \in DOMAIN heap /\ p \in Pointers(heap[o]) /\ p \notin mine
    <3>0. p \notin kept
      BY <2>3, <1>0 DEF Conditions, Unclaimed
    <3>1. PICK n \in H : \/ p \in Pointers(heap[n]) /\ p \notin Pointers(h2[n])
                         \/ heap[n].kind = "Interaction" /\ p \in Range(heap[n].lent)
      BY <2>0, <2>3, <3>0 DEF LetGo
    <3>2. p \in Pointers(heap[n]) /\ n # o
      BY <3>1, <2>3, <1>0 DEF Conditions
    <3>3. MayShare(heap, r, o, p)
      BY <3>2, <2>3, <1>0 DEF Separate
    <3>4. r => r2
      BY <1>82
    <3> QED
      BY <3>3, <3>4, <2>0, <2>3, <1>6, MayShareStays
  <2> QED
    BY <2>0, <2>1, <2>2, <2>3, <1>8 DEF Edges
<1>10. StillFound(heap, h2, mine, mn2, lost, ls2, D)
  <2>1. ASSUME NEW o \in DOMAIN heap, NEW p \in Pointers(heap[o]), o \notin D, p \notin D
        PROVE  Found(h2, mn2, ls2, p)
    <3>1. CASE o \in H
      <4>1. p \in Pointers(h2[o]) \cup ls2
        BY <3>1, <2>1, <1>3 DEF NewKept
      <4> QED
        BY <4>1 DEF Found
    <3>2. CASE o \notin H
      BY <3>2, <2>1, <1>2 DEF Found, f
    <3> QED
      BY <3>1, <3>2
  <2>2. ASSUME NEW p \in mine \ D PROVE Found(h2, mn2, ls2, p)
    BY <1>3 DEF NewKept
  <2>3. ASSUME NEW o \in DOMAIN heap, NEW p \in DOMAIN heap, Lends(heap, o, p), p \notin D
        PROVE  Found(h2, mn2, ls2, p)
    <3>1. CASE o \in H
      <4>1. p \in Range(h2[o].lent) \cup ls2
        BY <3>1, <2>3, <1>3 DEF NewKept, Lends
      <4> QED
        BY <4>1, <2>3, <1>4 DEF Found, Lends
    <3>2. CASE o \notin H
      <4>1. h2[o].lent = heap[o].lent
        BY <3>2, <1>2 DEF f
      <4> QED
        BY <4>1, <2>3, <1>4 DEF Found, Lends
    <3> QED
      BY <3>1, <3>2
  <2>4. ASSUME NEW p \in DOMAIN h2 \ DOMAIN heap PROVE Found(h2, mn2, ls2, p)
    BY DEF NewKept
  <2> QED
    BY <2>1, <2>2, <2>3, <2>4 DEF StillFound
<1>11. Lending(heap, h2, mine, mn2, D)
  <2> SUFFICES ASSUME NEW n \in DOMAIN h2, h2[n].kind = "Interaction", NEW c \in Range(h2[n].lent)
               PROVE  \/ n \in DOMAIN heap /\ c \in Range(heap[n].lent) /\ (c \notin D \/ c \in kept)
                      \/ /\ c \in mine \ D \/ c \in DOMAIN h2 \ DOMAIN heap \/ c \in kept
                         /\ c \notin mn2
                         /\ \A o \in DOMAIN h2 : c \notin Pointers(h2[o]) /\
                              (o # n /\ h2[o].kind = "Interaction" => c \notin Range(h2[o].lent))
    BY DEF Lending
  <2>0. ASSUME NEW x \in DOMAIN heap, heap[x].kind = "Interaction", NEW y \in Range(heap[x].lent), y \in D, y \notin kept
        PROVE  y \in roots /\ x \in H
    <3>1. /\ y \notin mine
          /\ \A o \in DOMAIN heap : y \notin Pointers(heap[o]) /\
               (o # x /\ heap[o].kind = "Interaction" => y \notin Range(heap[o].lent))
      BY <2>0, <1>0 DEF Conditions
    <3>2. y \in roots
      BY <3>1, <2>0, <1>3
    <3> QED
      BY <3>1, <3>2, <2>0 DEF LetGo
  <2>1. CASE n \in DOMAIN heap \ H
    <3>1. h2[n].lent = heap[n].lent /\ heap[n].kind = "Interaction"
      BY <2>1, <1>2, <1>4 DEF f
    <3> QED
      BY <3>1, <2>1, <2>0
  <2>2. CASE n \in NewIn(h2, H)
    <3>1. CASE n \in H /\ c \in Range(heap[n].lent) /\ c \notin roots
      <4>1. heap[n].kind = "Interaction" /\ n \in DOMAIN heap
        BY <3>1, <1>4
      <4> QED
        BY <3>1, <4>1, <2>0
    <3>2. CASE /\ c \in mine \ roots \/ c \in DOMAIN h2 \ DOMAIN heap \/ FreeToLend(n, c)
               /\ c \notin mn2
               /\ \A o \in NewIn(h2, H) : c \notin Pointers(h2[o]) /\
                    (o # n /\ h2[o].kind = "Interaction" => c \notin Range(h2[o].lent))
      <4>1. c \in mine \ D \/ c \in DOMAIN h2 \ DOMAIN heap \/ c \in kept
        BY <3>2, <1>0, <1>3 DEF Held, FreeToLend
      <4>11. c \in kept => \A o \in DOMAIN heap : c \notin Pointers(heap[o])
        BY <1>0 DEF Conditions, Unclaimed
      <4>2. ASSUME NEW o \in DOMAIN heap \ H
            PROVE  c \notin Pointers(h2[o]) /\ (h2[o].kind = "Interaction" => c \notin Range(h2[o].lent))
        <5>1. c \notin Pointers(h2[o])
          BY <3>2, <4>11, <1>0, <1>1, <1>7 DEF Held, FreeToLend
        <5>2. h2[o].lent = heap[o].lent /\ h2[o].kind = heap[o].kind
          BY <1>2 DEF f
        <5>3. heap[o].kind = "Interaction" => c \notin Range(heap[o].lent)
          <6>1. CASE FreeToLend(n, c)
            <7>1. o # n
              BY <2>2 DEF NewIn
            <7> QED
              BY <6>1, <7>1 DEF FreeToLend
          <6>2. CASE c \in mine \ roots \/ c \in DOMAIN h2 \ DOMAIN heap
            BY <6>2, <1>0, <1>1 DEF Conditions
          <6> QED
            BY <3>2, <6>1, <6>2
        <5> QED
          BY <5>1, <5>2, <5>3
      <4> QED
        BY <3>2, <4>1, <4>2 DEF NewIn
    <3> QED
      BY <2>2, <3>1, <3>2 DEF NewLending
  <2> QED
    BY <2>1, <2>2 DEF NewIn
<1>12. \A p \in mn2 : p \in mine \ D \/ p \in DOMAIN h2 \ DOMAIN heap
  BY <1>0, <1>3 DEF Held
<1>13. /\ Separate(h2, r2) /\ Held(h2, mn2) /\ Pointed(h2, r2)
       /\ Accounted(h2, mn2, ls2) /\ Conditions(h2, mn2)
  BY <1>0, <1>6, <1>8, <1>82, <1>9, <1>10, <1>11, <1>12, StepIsSafe
<1> QED
  BY <1>5, <1>13 DEF Safe, r2
-----------------------------------------------------------------------------
\* The inductive invariant: while all is defined the heap is Safe, and what went wrong before is
\* confined.
IInv ==
  /\ profile \in Profiles /\ Formed(heap) /\ mine \subseteq DOMAIN heap /\ lost \subseteq DOMAIN heap
  /\ due \subseteq kept /\ kept \subseteq DOMAIN heap \ mine /\ \A c \in kept : heap[c].kind = "Role"
  /\ ub.what \in {"none", "double free", "use after free"} /\ ub.to \subseteq DOMAIN heap
  /\ UndefinedConfined
  /\ ub = Defined => Safe(heap, mine, lost)

\* A defined call keeps the invariant if the heap stays safe, an undefined one if it may delete
\* what it deletes.
LEMMA SafePrime ==
  ASSUME kept' = kept, Safe(heap', mine', lost')
  PROVE  Safe(heap, mine, lost)'
<1> DEFINE r  == Relic(heap', mine', lost')
           r2 == Relic(heap, mine, lost)'
<1>1. r <=> r2
  BY DEF Relic, Stray
<1>2. Conditions(heap, mine)'
  BY DEF Safe, Conditions, Unclaimed
<1>3. /\ Formed(heap') /\ Separate(heap', r) /\ Held(heap', mine') /\ Pointed(heap', r)
      /\ Accounted(heap', mine', lost') /\ lost' \subseteq DOMAIN heap'
      /\ Acyclic(heap', NodeKind) /\ Acyclic(heap', {"Expr"})
  BY DEF Safe
<1> HIDE DEF r, r2
<1>4. Separate(heap', r2) /\ Pointed(heap', r2)
  BY <1>1, <1>3
<1> QED
  BY <1>2, <1>3, <1>4 DEF Safe, r2

LEMMA SafeNextKept ==
  ASSUME IInv, ub = Defined, profile' = profile, ub' = ub, kept' = kept, due' \subseteq kept, Safe(heap', mine', lost')
  PROVE  IInv'
<1>1. Formed(heap') /\ mine' \subseteq DOMAIN heap' /\ lost' \subseteq DOMAIN heap'
  BY DEF Safe, Held
<1>2. profile' \in Profiles /\ ub' = Defined
  BY DEF IInv
<1>3. Defined.what = "none" /\ Defined.to = {}
  BY DEF Defined
<1>4. UndefinedConfined'
  BY <1>2, <1>3 DEF UndefinedConfined
<1>5. /\ due' \subseteq kept' /\ kept' \subseteq DOMAIN heap' \ mine'
      /\ \A c \in kept' : heap'[c].kind = "Role"
  BY DEF IInv, Safe, Conditions, Unclaimed
<1>6. Safe(heap, mine, lost)'
  BY SafePrime
<1> QED
  BY <1>1, <1>2, <1>3, <1>4, <1>5, <1>6 DEF IInv

LEMMA SafeNext ==
  ASSUME IInv, ub = Defined, profile' = profile, ub' = ub, UNCHANGED <<kept, due>>, Safe(heap', mine', lost')
  PROVE  IInv'
<1>1. kept' = kept /\ due' \subseteq kept
  BY DEF IInv
<1> QED
  BY <1>1, SafeNextKept

LEMMA WrongNextKept ==
  ASSUME IInv, ub = Defined, profile' = profile, heap' = heap, lost' = lost, mine' \subseteq mine,
         kept \subseteq kept', due' \subseteq kept',
         \A c \in kept' \ kept : c \in DOMAIN heap /\ heap[c].kind = "Role" /\ c \notin mine',
         NEW roots \in SUBSET DOMAIN heap, Deletable(roots), NEW arg,
         arg = 0 \/ (arg \in DOMAIN heap /\ heap[arg].live /\ roots \cap mine = {}),
         ub' = Wrong(roots, arg), ub' # Defined
  PROVE  IInv'
<1>1. Safe(heap, mine, lost)
  BY DEF IInv
<1>2. /\ ub'.what \in {"none", "double free", "use after free"}
      /\ \A p \in ub'.to :
           p \in DOMAIN heap /\ (MayBeShared(p) \/ p \in kept \/ (ub'.what = "use after free" /\ p \in Live /\ p \notin mine))
  BY <1>1, WrongFacts
<1>3. ASSUME NEW p PROVE MayBeShared(p)' <=> MayBeShared(p)
  BY DEF MayBeShared, Shares, IndicesShared, PointersOf
<1>4. Live' = Live
  BY DEF Live
<1>5. UndefinedConfined'
  BY <1>2, <1>3, <1>4 DEF UndefinedConfined
<1>6. kept' \subseteq DOMAIN heap \ mine' /\ \A c \in kept' : heap[c].kind = "Role"
  BY DEF IInv
<1> QED
  BY <1>1, <1>2, <1>5, <1>6 DEF IInv

LEMMA WrongNext ==
  ASSUME IInv, ub = Defined, profile' = profile, heap' = heap, lost' = lost, mine' \subseteq mine,
         UNCHANGED <<kept, due>>,
         NEW roots \in SUBSET DOMAIN heap, Deletable(roots), NEW arg,
         arg = 0 \/ (arg \in DOMAIN heap /\ heap[arg].live /\ roots \cap mine = {}),
         ub' = Wrong(roots, arg), ub' # Defined
  PROVE  IInv'
<1>1. kept \subseteq kept' /\ due' \subseteq kept' /\ kept' \ kept = {}
  BY DEF IInv
<1> QED
  BY <1>1, WrongNextKept

-----------------------------------------------------------------------------
\* Nothing is freed by a call that deletes nothing.
LEMMA DeletedNone ==
  ASSUME Safe(heap, mine, lost)
  PROVE  Deleted({}) = {} /\ \A o \in DOMAIN heap : Freed(heap, {})[o] = heap[o]
<1>1. {} \in SUBSET DOMAIN heap
  OBVIOUS
<1>2. \A S \in SUBSET DOMAIN heap :
        {} \subseteq S /\ (\A q \in S : Pointers(heap[q]) \subseteq S) => Deleted({}) \subseteq S
  BY <1>1, DeletedFacts
<1>3. Deleted({}) \subseteq {}
  BY <1>1, <1>2
<1> QED
  BY <1>3 DEF Freed

\* EditStep, when nothing is deleted.
LEMMA PlainStep ==
  ASSUME Safe(heap, mine, lost), NEW H \in SUBSET DOMAIN heap, NEW h2, NEW mn2, NEW ls2,
         \A n \in H : heap[n].live /\ ~Stray(heap, mine, n),
         h2 \in Seq(Object), DOMAIN heap \subseteq DOMAIN h2,
         \A o \in DOMAIN heap \ H : h2[o] = heap[o],
         \A n \in H : h2[n].kind = heap[n].kind /\ h2[n].live,
         \A o \in DOMAIN h2 \ DOMAIN heap : h2[o].live,
         \A o \in NewIn(h2, H) : Fit(h2, h2[o]),
         Acyclic(h2, NodeKind), Acyclic(h2, {"Expr"}),
         NewEdges(h2, mn2, ls2, {}, H), NewLending(h2, mn2, {}, H), NewKept(h2, mn2, ls2, {}, H),
         mn2 \subseteq mine \cup (DOMAIN h2 \ DOMAIN heap),
         lost \subseteq ls2, ls2 \subseteq DOMAIN h2
  PROVE  Safe(h2, mn2, ls2)
<1> DEFINE D == Deleted({})
<1>1. D = {} /\ \A o \in DOMAIN heap : Freed(heap, D)[o] = heap[o]
  BY DeletedNone
<1>2. LetGo(h2, {}, H)
  BY DEF LetGo
<1>3. {} \in SUBSET DOMAIN heap
  OBVIOUS
<1>4. \A o \in DOMAIN heap \ H : h2[o] = Freed(heap, D)[o]
  BY <1>1
<1>5. \A p \in mn2 : p \in mine \ {} \/ p \in DOMAIN h2 \ DOMAIN heap
  OBVIOUS
<1>6. H \cap D = {} /\ \A d \in D : heap[d].live
  BY <1>1
<1>7. D = Deleted({})
  OBVIOUS
<1> HIDE DEF D
<1> QED
  BY <1>2, <1>3, <1>4, <1>5, <1>6, <1>7, EditStep

\* One new object, which owns or borrows what it was given and nobody points to.
LEMMA MakeStep ==
  ASSUME Safe(heap, mine, lost), NEW object \in Object, object.live, NEW taken \in SUBSET mine,
         Pointers(object) \subseteq taken,
         \A p \in taken : p \in Pointers(object) \/ (object.kind = "AllReduce" /\ p \in Range(object.lent)),
         Fit(heap, object),
         object.kind = "Interaction" => object.lent = << >>,
         \A c \in Range(object.lent) : ~Stray(heap, mine, c)
  PROVE  Safe(Append(heap, object), (mine \ taken) \cup {Fresh}, lost)
<1> DEFINE h2 == Append(heap, object)
           mn2 == (mine \ taken) \cup {Fresh}
<1>0. Formed(heap) /\ Held(heap, mine) /\ lost \subseteq DOMAIN heap /\ Acyclic(heap, NodeKind) /\ Acyclic(heap, {"Expr"})
  BY DEF Safe
<1>1. /\ DOMAIN heap = 1..Len(heap) /\ Len(heap) \in Nat /\ heap \in Seq(Object)
      /\ \A o \in DOMAIN heap : Pointers(heap[o]) \subseteq DOMAIN heap
  BY <1>0, PointersInHeap DEF Formed
<1>2. /\ h2 \in Seq(Object) /\ DOMAIN h2 = DOMAIN heap \cup {Fresh} /\ Fresh \notin DOMAIN heap
      /\ h2[Fresh] = object /\ \A o \in DOMAIN heap : h2[o] = heap[o]
  BY <1>1 DEF Fresh
<1>3. mine \subseteq DOMAIN heap
  BY <1>0 DEF Held
<1> HIDE DEF h2
<1>4. NewIn(h2, {}) = {Fresh} /\ DOMAIN h2 \ DOMAIN heap = {Fresh}
  BY <1>2 DEF NewIn
<1>5. SameKinds(heap, h2)
  BY <1>2 DEF SameKinds
<1>6. Fit(h2, h2[Fresh])
  BY <1>5, <1>2, FitStays
<1>7. ASSUME NEW kinds, Acyclic(heap, kinds) PROVE Acyclic(h2, kinds)
  <2>1. \A o \in DOMAIN heap : \A p \in Pointers(h2[o]) : p \in DOMAIN heap /\ p \in Pointers(heap[o])
    BY <1>1, <1>2
  <2>2. \A S \in SUBSET {o \in DOMAIN h2 \ DOMAIN heap : h2[o].kind \in kinds} :
           S # {} => \E p \in S : \A o \in S : p \notin Pointers(h2[o])
    BY <1>2, <1>3, <1>4
  <2> QED
    BY <1>5, <1>7, <2>1, <2>2, AcyclicNew
<1>8. Acyclic(h2, NodeKind) /\ Acyclic(h2, {"Expr"})
  BY <1>0, <1>7
<1>9. NewEdges(h2, mn2, lost, {}, {})
  BY <1>2, <1>3, <1>4 DEF NewEdges
<1>10. NewLending(h2, mn2, {}, {})
  <2>1. object.kind = "Interaction" => Range(object.lent) = {}
    BY DEF Range
  <2> QED
    BY <1>2, <1>4, <2>1 DEF NewLending
<1>11. NewKept(h2, mn2, lost, {}, {})
  <2>1. ASSUME NEW p \in mine \cup {Fresh} PROVE Found(h2, mn2, lost, p)
    <3>1. CASE p \in mn2
      BY <3>1 DEF Found
    <3>2. CASE p \in taken
      BY <3>2, <1>2 DEF Found, Lends
    <3> QED
      BY <3>1, <3>2
  <2> QED
    BY <1>4, <2>1 DEF NewKept
<1> HIDE DEF mn2
<1>12. Safe(h2, mn2, lost)
  <2>1. mn2 \subseteq mine \cup {Fresh}
    BY DEF mn2
  <2>2. {} \in SUBSET DOMAIN heap
    OBVIOUS
  <2>3. /\ \A o \in DOMAIN heap \ {} : h2[o] = heap[o]
        /\ DOMAIN heap \subseteq DOMAIN h2
        /\ \A o \in DOMAIN h2 \ DOMAIN heap : h2[o].live
        /\ \A o \in NewIn(h2, {}) : Fit(h2, h2[o])
    BY <1>2, <1>4, <1>6
  <2>4. lost \subseteq DOMAIN h2
    BY <1>0, <1>2
  <2> QED
    BY <1>2, <1>4, <1>8, <1>9, <1>10, <1>11, <2>1, <2>2, <2>3, <2>4, PlainStep
<1> QED
  BY <1>12 DEF h2, mn2

\* What New makes.
IsNew(x, kind, one, many) ==
  /\ x \in Object /\ x.kind = kind /\ x.live /\ x.one = one /\ x.many = many
  /\ x.lent = << >> /\ Range(x.lent) = {}
  /\ Pointers(x) = (Range(many) \cup {one}) \ {0}
IsEmpty(x, kind, one) ==
  /\ x \in Object /\ x.kind = kind /\ x.live /\ x.one = one /\ x.many = << >>
  /\ x.lent = << >> /\ Range(x.lent) = {} /\ Range(x.many) = {}
  /\ Pointers(x) = {one} \ {0}

LEMMA NewFacts ==
  ASSUME NEW kind \in AnyKind, NEW one \in Nat, NEW many \in Seq(Nat), NEW x, x = New(kind, one, many)
  PROVE  IsNew(x, kind, one, many)
<1>1. << >> \in Seq(Nat) /\ Range(<< >>) = {}
  BY DEF Range
<1>2. TRUE \in BOOLEAN
  OBVIOUS
<1> QED
  BY <1>1, <1>2 DEF New, Object, Pointers, IsNew

\* Sequences of one element and of none.
LEMMA RangeOne == ASSUME NEW p PROVE Range(<<p>>) = {p} /\ DOMAIN <<p>> = {1} /\ <<p>>[1] = p
BY DEF Range

LEMMA RangeNone == Range(<< >>) = {} /\ DOMAIN << >> = {}
BY DEF Range

LEMMA NewEmpty ==
  ASSUME NEW kind \in AnyKind, NEW one \in Nat, NEW x, x = New(kind, one, << >>)
  PROVE  IsEmpty(x, kind, one)
<1>1. << >> \in Seq(Nat) /\ Range(<< >>) = {}
  BY DEF Range
<1>2. TRUE \in BOOLEAN
  OBVIOUS
<1> QED
  BY <1>1, <1>2 DEF New, Object, Pointers, IsEmpty

\* The calls that make one object.
LEMMA MakeSimpleStep == ASSUME IInv, MakeSimple, UNCHANGED <<kept, due>> PROVE IInv'
<1>1. PICK kind \in AnyKind \ ({"Interaction"} \cup ParamKind) : Make(New(kind, 0, << >>), {})
  BY DEF MakeSimple
<1> DEFINE object == New(kind, 0, << >>)
<1>2. /\ ub = Defined /\ heap' = Append(heap, object) /\ mine' = (mine \ {}) \cup {Fresh}
      /\ profile' = profile /\ lost' = lost /\ ub' = ub
  BY <1>1 DEF Make, Room, Running, Keep
<1>3. Safe(heap, mine, lost)
  BY <1>2 DEF IInv
<1>4. /\ object \in Object /\ object.kind = kind /\ object.live /\ object.one = 0 /\ object.many = << >>
      /\ object.lent = << >> /\ Pointers(object) = {}
  <2>1. << >> \in Seq(Nat) /\ 0 \in Nat /\ kind \in AnyKind
    OBVIOUS
  <2>2. object = New(kind, 0, << >>)
    OBVIOUS
  <2> HIDE DEF object
  <2>3. /\ object \in Object /\ object.kind = kind /\ object.live /\ object.one = 0 /\ object.many = << >>
        /\ object.lent = << >> /\ Pointers(object) = {0} \ {0}
    BY <2>1, <2>2, NewEmpty DEF IsEmpty
  <2> QED
    BY <2>3
<1> HIDE DEF object
<1>5. Fit(heap, object)
  BY <1>4, RangeNone DEF Fit, Holds
<1>6. Safe(Append(heap, object), (mine \ {}) \cup {Fresh}, lost)
  BY <1>3, <1>4, <1>5, RangeNone, MakeStep
<1> QED
  BY <1>2, <1>6, SafeNext

LEMMA MakeChoiceAtStep == ASSUME IInv, MakeChoiceAt, UNCHANGED <<kept, due>> PROVE IInv'
<1>1. PICK r \in MineOf({"Role"}) : Make(New("Choice", r, << >>), {r})
  BY DEF MakeChoiceAt
<1> DEFINE object == New("Choice", r, << >>)
<1>2. /\ ub = Defined /\ heap' = Append(heap, object) /\ mine' = (mine \ {r}) \cup {Fresh}
      /\ profile' = profile /\ lost' = lost /\ ub' = ub
  BY <1>1 DEF Make, Room, Running, Keep
<1>3. Safe(heap, mine, lost)
  BY <1>2 DEF IInv
<1>31. r \in mine /\ r \in DOMAIN heap /\ heap[r].kind = "Role" /\ r \in Nat \ {0}
  BY <1>3, PointersInHeap DEF MineOf, Safe, Held
<1>4. /\ object \in Object /\ object.kind = "Choice" /\ object.live /\ object.one = r /\ object.many = << >>
      /\ object.lent = << >> /\ Pointers(object) = {r}
  <2>1. << >> \in Seq(Nat) /\ "Choice" \in AnyKind
    BY DEF AnyKind, NodeKind, OrdinaryKind
  <2>2. object = New("Choice", r, << >>) /\ r \in Nat
    BY <1>31
  <2> HIDE DEF object
  <2>3. /\ object \in Object /\ object.kind = "Choice" /\ object.live /\ object.one = r /\ object.many = << >>
        /\ object.lent = << >> /\ Pointers(object) = {r} \ {0}
    BY <2>1, <2>2, NewEmpty DEF IsEmpty
  <2> QED
    BY <2>3, <1>31
<1> HIDE DEF object
<1>5. Fit(heap, object)
  BY <1>4, <1>31, RangeNone DEF Fit, Holds, HoldsOne
<1>6. Safe(Append(heap, object), (mine \ {r}) \cup {Fresh}, lost)
  <2>1. {r} \in SUBSET mine
    BY <1>31
  <2> QED
    BY <2>1, <1>3, <1>4, <1>5, RangeNone, MakeStep
<1> QED
  BY <1>2, <1>6, SafeNext
-----------------------------------------------------------------------------
\* What roots are when n lets go of them.
LetGoBy(h2, roots, n) ==
  \A r \in roots : \/ r \in Pointers(heap[n]) /\ r \notin Pointers(h2[n])
                   \/ heap[n].kind = "Interaction" /\ r \in Range(heap[n].lent)

\* One object n is edited: it takes over objects of the program, and may let go of others.
EditedTo(n, x, taken, roots, ls2) ==
  /\ x.kind = heap[n].kind /\ x.live /\ Fit(heap, x)
  /\ taken \subseteq mine
  /\ \A p \in Pointers(x) : p \in Pointers(heap[n]) \cup taken
  /\ \A c \in Range(x.lent) :
       /\ ~Stray(heap, mine, c)
       /\ x.kind = "Interaction" =>
            \/ c \in Range(heap[n].lent) /\ c \notin roots
            \/ (c \in taken \/ FreeToLend(n, c)) /\ c \notin Pointers(x)
  /\ \A p \in Pointers(heap[n]) : p \in Pointers(x) \cup roots \cup ls2
  /\ \A p \in Range(heap[n].lent) : Lends(heap, n, p) => p \in Range(x.lent) \cup roots \cup ls2
  /\ \A p \in taken : p \in Pointers(x) \/ (x.kind \in {"Interaction", "AllReduce"} /\ p \in Range(x.lent))

\* EditStep, for one edited object and none allocated.
LEMMA HostStep ==
  ASSUME Safe(heap, mine, lost), NEW n \in DOMAIN heap, heap[n].live, ~Stray(heap, mine, n),
         NEW roots \in SUBSET DOMAIN heap, NEW D, D = Deleted(roots), \A d \in D : heap[d].live, n \notin D,
         NEW h2 \in Seq(Object), DOMAIN h2 = DOMAIN heap,
         \A o \in DOMAIN heap : o # n => h2[o] = Freed(heap, D)[o],
         NEW taken, NEW ls2, EditedTo(n, h2[n], taken, roots, ls2), LetGoBy(h2, roots, n),
         lost \subseteq ls2, ls2 \subseteq DOMAIN heap,
         NEW R, n \notin R, \A x \in R : Pointers(heap[x]) \subseteq R,
         taken \cap Pointers(h2[n]) \subseteq R
  PROVE  Safe(h2, mine \ taken, ls2)
<1> DEFINE H == {n}
           mn2 == mine \ taken
<1>0. /\ Formed(heap) /\ Held(heap, mine) /\ Conditions(heap, mine)
      /\ Acyclic(heap, NodeKind) /\ Acyclic(heap, {"Expr"})
  BY DEF Safe
<1>1. /\ h2[n].kind = heap[n].kind /\ h2[n].live /\ Fit(heap, h2[n]) /\ taken \subseteq mine
      /\ \A p \in Pointers(h2[n]) : p \in Pointers(heap[n]) \cup taken
      /\ \A p \in Pointers(heap[n]) : p \in Pointers(h2[n]) \cup roots \cup ls2
      /\ \A p \in Range(heap[n].lent) : Lends(heap, n, p) => p \in Range(h2[n].lent) \cup roots \cup ls2
      /\ \A p \in taken : p \in Pointers(h2[n]) \/ Lends(h2, n, p)
  BY DEF EditedTo, Lends
<1>2. \A c \in Range(h2[n].lent) :
       /\ ~Stray(heap, mine, c)
       /\ h2[n].kind = "Interaction" =>
            \/ c \in Range(heap[n].lent) /\ c \notin roots
            \/ (c \in taken \/ FreeToLend(n, c)) /\ c \notin Pointers(h2[n])
  BY DEF EditedTo
<1>3. /\ \A o \in DOMAIN heap \ D : o # n => h2[o] = heap[o]
      /\ \A o \in DOMAIN heap \cap D : Pointers(h2[o]) = {}
      /\ \A o \in DOMAIN heap : h2[o].kind = heap[o].kind
  <2>1. PICK f : f = Freed(heap, D)
    OBVIOUS
  <2>2. /\ \A o \in DOMAIN heap \ D : f[o] = heap[o]
        /\ \A o \in DOMAIN heap \cap D : Pointers(f[o]) = {}
        /\ \A o \in DOMAIN heap : f[o].kind = heap[o].kind
    BY <1>0, <2>1, FreedFacts
  <2>3. \A o \in DOMAIN heap : o # n => h2[o] = f[o]
    BY <2>1
  <2> QED
    BY <1>1, <2>2, <2>3
<1>4. SameKinds(heap, h2)
  BY <1>3 DEF SameKinds
<1>5. NewIn(h2, H) = {n} /\ DOMAIN h2 \ DOMAIN heap = {}
  BY DEF NewIn
<1>6. \A r \in roots : r \notin mine
  BY <1>0 DEF LetGoBy, Held, Conditions
<1>7. \A o \in NewIn(h2, H) : Fit(h2, h2[o])
  BY <1>1, <1>4, <1>5, FitStays
<1>8. ASSUME NEW kinds, Acyclic(heap, kinds) PROVE Acyclic(h2, kinds)
  <2>1. \A o \in DOMAIN heap : \A p \in Pointers(h2[o]) : p \in Pointers(heap[o]) \/ (o = n /\ p \in R)
    BY <1>1, <1>3
  <2> QED
    BY <1>4, <1>8, <2>1, AcyclicTaken
<1>9. NewEdges(h2, mn2, ls2, roots, H)
  BY <1>1, <1>5, <1>6 DEF NewEdges
<1>101. \A c \in kept : c \notin mine
  BY <1>0 DEF Conditions, Unclaimed
<1>10. NewLending(h2, mn2, roots, H)
  <2>1. \A c : FreeToLend(n, c) => c \notin mine
    BY <1>101 DEF FreeToLend
  <2> QED
    BY <1>1, <1>2, <1>5, <1>6, <2>1 DEF NewLending
<1>11. LetGo(h2, roots, H)
  BY DEF LetGoBy, LetGo
<1>12. NewKept(h2, mn2, ls2, roots, H)
  <2>1. ASSUME NEW p \in mine PROVE Found(h2, mn2, ls2, p)
    <3>1. CASE p \in taken
      BY <3>1, <1>1 DEF Found
    <3>2. CASE p \notin taken
      BY <3>2 DEF Found
    <3> QED
      BY <3>1, <3>2
  <2> QED
    BY <1>1, <1>5, <2>1 DEF NewKept
<1>13. /\ H \in SUBSET DOMAIN heap /\ H \cap D = {} /\ \A o \in H : heap[o].live /\ ~Stray(heap, mine, o)
       /\ \A o \in H : h2[o].kind = heap[o].kind /\ h2[o].live
       /\ \A o \in DOMAIN heap \ H : h2[o] = Freed(heap, D)[o]
       /\ \A o \in DOMAIN h2 \ DOMAIN heap : h2[o].live
       /\ \A p \in mn2 : p \in mine \ roots \/ p \in DOMAIN h2 \ DOMAIN heap
       /\ ls2 \subseteq DOMAIN h2 /\ DOMAIN heap \subseteq DOMAIN h2
  BY <1>1, <1>5, <1>6
<1>14. Acyclic(h2, NodeKind) /\ Acyclic(h2, {"Expr"})
  BY <1>0, <1>8
<1> HIDE DEF H, mn2
<1>15. Safe(h2, mn2, ls2)
  BY <1>7, <1>9, <1>10, <1>11, <1>12, <1>13, <1>14, EditStep
<1> QED
  BY <1>15 DEF mn2

\* The edit of an object that is not deleted, and what is deleted then.
LEMMA FreedEdit ==
  ASSUME Formed(heap), NEW n \in DOMAIN heap, NEW D, n \notin D,
         NEW g \in Seq(Object), DOMAIN g = DOMAIN heap, \A q \in DOMAIN heap : q # n => g[q] = heap[q],
         NEW h2, h2 = Freed(g, D)
  PROVE  /\ h2 \in Seq(Object) /\ DOMAIN h2 = DOMAIN heap /\ h2[n] = g[n]
         /\ \A o \in DOMAIN heap : o # n => h2[o] = Freed(heap, D)[o]
<1>1. DOMAIN h2 = DOMAIN heap /\ h2[n] = g[n]
  BY DEF Freed
<1>2. \A o \in DOMAIN heap : o # n => h2[o] = Freed(heap, D)[o]
  BY DEF Freed
<1>3. DOMAIN heap = 1..Len(heap) /\ Len(heap) \in Nat
  BY PointersInHeap
<1>4. /\ DOMAIN Freed(heap, D) = DOMAIN heap /\ Freed(heap, D) \in Seq(Object)
  <2>1. ASSUME NEW f, f = Freed(heap, D) PROVE DOMAIN f = DOMAIN heap /\ f \in Seq(Object)
    BY <2>1, FreedFacts
  <2> QED
    BY <2>1
<1>5. g[n] \in Object
  OBVIOUS
<1>6. \A o \in DOMAIN heap : h2[o] \in Object
  BY <1>1, <1>2, <1>4, <1>5
<1>7. h2 = [o \in 1..Len(heap) |-> h2[o]]
  BY <1>3 DEF Freed
<1>8. h2 \in [1..Len(heap) -> Object]
  BY <1>3, <1>6, <1>7
<1>9. h2 \in Seq(Object)
  BY <1>3, <1>8
<1> QED
  BY <1>1, <1>2, <1>9

\* An edit without a deletion.
LEMMA PlainHostStep ==
  ASSUME Safe(heap, mine, lost), NEW n \in DOMAIN heap, heap[n].live, ~Stray(heap, mine, n),
         NEW h2 \in Seq(Object), DOMAIN h2 = DOMAIN heap,
         \A o \in DOMAIN heap : o # n => h2[o] = heap[o],
         NEW taken, NEW ls2, EditedTo(n, h2[n], taken, {}, ls2),
         lost \subseteq ls2, ls2 \subseteq DOMAIN heap,
         NEW R, n \notin R, \A x \in R : Pointers(heap[x]) \subseteq R,
         taken \cap Pointers(h2[n]) \subseteq R
  PROVE  Safe(h2, mine \ taken, ls2)
<1> DEFINE D == Deleted({})
<1>1. D = {} /\ \A o \in DOMAIN heap : Freed(heap, D)[o] = heap[o]
  BY DeletedNone
<1>2. LetGoBy(h2, {}, n)
  BY DEF LetGoBy
<1>3. D = Deleted({}) /\ {} \in SUBSET DOMAIN heap
  OBVIOUS
<1> HIDE DEF D
<1>4. \A o \in DOMAIN heap : o # n => h2[o] = Freed(heap, D)[o]
  BY <1>1
<1>5. (\A d \in D : heap[d].live) /\ n \notin D
  BY <1>1
<1> QED
  BY <1>2, <1>3, <1>4, <1>5, HostStep

\* What the program can name is not the sender that Rule 9 left behind.
LEMMA NamedNotStray ==
  ASSUME Safe(heap, mine, lost), NEW kinds, NEW o \in Named(kinds)
  PROVE  o \in DOMAIN heap /\ heap[o].live /\ heap[o].kind \in kinds /\ ~Stray(heap, mine, o)
BY NamedFacts DEF Stray

\* What is reached from roots by the pointers that destructors delete.
LEMMA WithinFacts ==
  ASSUME Safe(heap, mine, lost), NEW o \in DOMAIN heap, NEW roots \in SUBSET DOMAIN heap, ~Within(o, roots)
  PROVE  \E R \in SUBSET DOMAIN heap : o \notin R /\ roots \subseteq R /\ \A x \in R : Pointers(heap[x]) \subseteq R
<1> DEFINE next == [q \in DOMAIN heap |-> PointersOf(q)]
           R == Reached(roots, next)
<1>1. Formed(heap)
  BY DEF Safe
<1>2. IsFiniteSet(DOMAIN heap) /\ \A q \in DOMAIN heap : Pointers(heap[q]) \subseteq DOMAIN heap
  BY <1>1, PointersInHeap
<1>3. next \in [DOMAIN heap -> SUBSET DOMAIN heap] /\ \A q \in DOMAIN heap : next[q] = Pointers(heap[q])
  BY <1>2 DEF PointersOf
<1>4. o \notin R
  BY DEF Within
<1> HIDE DEF next
<1>5. R \in SUBSET DOMAIN heap /\ roots \subseteq R /\ \A q \in R : next[q] \subseteq R
  BY <1>2, <1>3, ReachedFacts
<1> HIDE DEF R
<1> QED
  BY <1>3, <1>4, <1>5

\* Leaves, and expressions, are closed under pointers.
LEMMA LeavesClosed ==
  ASSUME Safe(heap, mine, lost), NEW kinds, kinds \in {LeafKind, {"Expr"}},
         NEW R, R = {o \in DOMAIN heap : heap[o].kind \in kinds}
  PROVE  \A x \in R : Pointers(heap[x]) \subseteq R
<1>1. Formed(heap)
  BY DEF Safe
<1> QED
  BY <1>1, LeavesHold
-----------------------------------------------------------------------------
\* No value comes twice.
Once(s) == \A i, j \in DOMAIN s : s[i] = s[j] => i = j

\* One list after another.
LEMMA CatRange ==
  ASSUME NEW a \in Seq(Nat), NEW b \in Seq(Nat), NEW c, c = a \o b
  PROVE  /\ c \in Seq(Nat) /\ Range(c) = Range(a) \cup Range(b)
         /\ Once(a) /\ Once(b) /\ Range(a) \cap Range(b) = {} => Once(c)
<1>1. /\ c \in Seq(Nat) /\ DOMAIN c = 1..(Len(a) + Len(b)) /\ Len(a) \in Nat /\ Len(b) \in Nat
      /\ DOMAIN a = 1..Len(a) /\ DOMAIN b = 1..Len(b)
      /\ \A i \in 1..Len(a) : c[i] = a[i]
      /\ \A i \in (Len(a) + 1)..(Len(a) + Len(b)) : c[i] = b[i - Len(a)]
  <2>1. Cat(a, b) = c
    BY DEF Cat
  <2>2. DOMAIN a = 1..Len(a) /\ DOMAIN b = 1..Len(b)
    OBVIOUS
  <2>3. /\ Cat(a, b) \in Seq(Nat) /\ DOMAIN Cat(a, b) = 1..(Len(a) + Len(b)) /\ Len(a) \in Nat /\ Len(b) \in Nat
        /\ \A i \in 1..Len(a) : Cat(a, b)[i] = a[i]
        /\ \A i \in (Len(a) + 1)..(Len(a) + Len(b)) : Cat(a, b)[i] = b[i - Len(a)]
    BY CatFacts
  <2> QED
    BY <2>1, <2>2, <2>3
<1>2. \A i \in DOMAIN c : \/ i \in DOMAIN a /\ c[i] = a[i]
                          \/ i \notin DOMAIN a /\ i - Len(a) \in DOMAIN b /\ c[i] = b[i - Len(a)]
  BY <1>1
<1>3. Range(c) \subseteq Range(a) \cup Range(b)
  BY <1>2 DEF Range
<1>4. Range(a) \subseteq Range(c)
  BY <1>1 DEF Range
<1>5. Range(b) \subseteq Range(c)
  <2>1. ASSUME NEW j \in DOMAIN b PROVE b[j] \in Range(c)
    <3>1. j + Len(a) \in DOMAIN c /\ c[j + Len(a)] = b[j]
      BY <1>1
    <3> QED
      BY <3>1 DEF Range
  <2> QED
    BY <2>1 DEF Range
<1>6. ASSUME Once(a), Once(b), Range(a) \cap Range(b) = {} PROVE Once(c)
  <2>1. ASSUME NEW i \in DOMAIN c, NEW j \in DOMAIN c, c[i] = c[j] PROVE i = j
    <3>1. CASE i \in DOMAIN a /\ j \in DOMAIN a
      BY <2>1, <3>1, <1>1, <1>6 DEF Once
    <3>2. CASE i \notin DOMAIN a /\ j \notin DOMAIN a
      <4>1. i - Len(a) = j - Len(a)
        BY <2>1, <3>2, <1>2, <1>6 DEF Once
      <4> QED
        BY <4>1, <1>1
    <3>3. CASE i \in DOMAIN a /\ j \notin DOMAIN a
      BY <2>1, <3>3, <1>2, <1>6 DEF Range
    <3>4. CASE i \notin DOMAIN a /\ j \in DOMAIN a
      BY <2>1, <3>4, <1>2, <1>6 DEF Range
    <3> QED
      BY <3>1, <3>2, <3>3, <3>4
  <2> QED
    BY <2>1 DEF Once
<1> QED
  BY <1>1, <1>3, <1>4, <1>5, <1>6

\* What holds of a live object that the program can name.
LEMMA ObjectFacts ==
  ASSUME Safe(heap, mine, lost), NEW o \in DOMAIN heap
  PROVE  /\ heap \in Seq(Object) /\ Formed(heap) /\ heap[o] \in Object /\ Fit(heap, heap[o])
         /\ heap[o].many \in Seq(Nat) /\ heap[o].lent \in Seq(Nat) /\ heap[o].one \in Nat /\ o \in Nat \ {0}
         /\ Once(heap[o].many) /\ heap[o].one \notin Range(heap[o].many)
         /\ Pointers(heap[o]) = (Range(heap[o].many) \cup {heap[o].one}) \ {0}
         /\ Pointers(heap[o]) \subseteq DOMAIN heap
         /\ Range(heap[o].lent) \subseteq DOMAIN heap /\ Range(heap[o].many) \subseteq DOMAIN heap
         /\ 0 \notin DOMAIN heap
         /\ heap[o].one # 0 => heap[o].one \in DOMAIN heap /\ heap[heap[o].one].kind \in HoldsOne(heap[o].kind)
         /\ \A p \in Range(heap[o].many) : heap[p].kind \in HoldsMany(heap[o].kind)
         /\ \A p \in Range(heap[o].lent) : heap[p].kind \in HoldsLent(heap[o].kind)
         /\ heap[o].live /\ heap[o].kind = "Interaction" =>
              \E m \in Range(heap[o].many) : \A p \in Range(heap[o].many) : heap[p].kind = "Msg" <=> p = m
<1>1. Formed(heap) /\ heap \in Seq(Object)
  BY DEF Safe, Formed
<1>2. heap[o] \in Object /\ Fit(heap, heap[o]) /\ DOMAIN heap = 1..Len(heap) /\ Len(heap) \in Nat
      /\ Pointers(heap[o]) \subseteq DOMAIN heap /\ Range(heap[o].lent) \subseteq DOMAIN heap
  BY <1>1, PointersInHeap DEF Formed
<1>3. heap[o].many \in Seq(Nat) /\ heap[o].lent \in Seq(Nat) /\ heap[o].one \in Nat
  BY <1>2 DEF Object
<1>4. /\ Range(heap[o].many) \subseteq DOMAIN heap
      /\ heap[o].one # 0 => heap[o].one \in DOMAIN heap /\ heap[heap[o].one].kind \in HoldsOne(heap[o].kind)
      /\ \A p \in Range(heap[o].many) : heap[p].kind \in HoldsMany(heap[o].kind)
      /\ \A p \in Range(heap[o].lent) : heap[p].kind \in HoldsLent(heap[o].kind)
  BY <1>2 DEF Fit, Holds
<1>5. Once(heap[o].many)
  BY <1>2 DEF Fit, Once
<1>6. /\ heap[o].one \notin Range(heap[o].many)
      /\ heap[o].live /\ heap[o].kind = "Interaction" =>
           \E m \in Range(heap[o].many) : \A p \in Range(heap[o].many) : heap[p].kind = "Msg" <=> p = m
  BY <1>2 DEF Fit
<1>7. o \in Nat \ {0} /\ 0 \notin DOMAIN heap
  BY <1>2
<1> QED
  BY <1>1, <1>2, <1>3, <1>4, <1>5, <1>6, <1>7 DEF Pointers

\* What is the program's own is nobody's.
LEMMA MineFacts ==
  ASSUME Safe(heap, mine, lost), NEW p \in mine
  PROVE  p \in DOMAIN heap /\ p # 0 /\ heap[p].live /\ ~Stray(heap, mine, p)
         /\ \A o \in DOMAIN heap : p \notin Pointers(heap[o]) /\ p \notin Range(heap[o].many) /\ p # heap[o].one
                                   /\ (heap[o].kind = "Interaction" => p \notin Range(heap[o].lent))
<1>1. p \in DOMAIN heap /\ heap[p].live /\ \A o \in DOMAIN heap : p \notin Pointers(heap[o])
  BY DEF Safe, Held
<1>2. \A o \in DOMAIN heap : p # 0 /\ Pointers(heap[o]) = (Range(heap[o].many) \cup {heap[o].one}) \ {0}
  BY <1>1, ObjectFacts
<1>3. \A o \in DOMAIN heap : heap[o].kind = "Interaction" => p \notin Range(heap[o].lent)
  BY DEF Safe, Conditions
<1> QED
  BY <1>1, <1>2, <1>3 DEF Stray
-----------------------------------------------------------------------------
\* A container takes objects over.
LEMMA TakeStep ==
  ASSUME IInv, UNCHANGED <<kept, due>>, NEW kinds, NEW o \in Named(kinds), kinds \cap {"Interaction", "AllReduce"} = {},
         NEW args \in Seq(Nat), Once(args), Take(o, args),
         \A p \in Range(args) : heap[p].kind \in HoldsMany(heap[o].kind)
  PROVE  IInv'
<1> DEFINE g == [heap EXCEPT ![o].many = @ \o args]
           s == heap[o].many \o args
<1>1. /\ ub = Defined /\ Range(args) \subseteq mine /\ ~Within(o, Range(args)) /\ heap' = g
      /\ mine' = mine \ Range(args) /\ profile' = profile /\ lost' = lost /\ ub' = ub
  BY DEF Take, Running
<1>2. Safe(heap, mine, lost)
  BY <1>1 DEF IInv
<1>3. o \in DOMAIN heap /\ heap[o].live /\ heap[o].kind \in kinds /\ ~Stray(heap, mine, o)
  BY <1>2, NamedNotStray
<1>4. /\ heap \in Seq(Object) /\ heap[o] \in Object /\ Fit(heap, heap[o])
      /\ heap[o].many \in Seq(Nat) /\ Once(heap[o].many) /\ heap[o].one \notin Range(heap[o].many)
      /\ Pointers(heap[o]) = (Range(heap[o].many) \cup {heap[o].one}) \ {0} /\ 0 \notin DOMAIN heap
  BY <1>2, <1>3, ObjectFacts
<1>5. \A p \in Range(args) : p \in DOMAIN heap /\ p # 0 /\ p \notin Range(heap[o].many) /\ p # heap[o].one
                             /\ ~Stray(heap, mine, p)
  BY <1>1, <1>2, <1>3, MineFacts
<1>6. s \in Seq(Nat) /\ Range(s) = Range(heap[o].many) \cup Range(args) /\ Once(s)
  <2>1. PICK many \in Seq(Nat) : many = heap[o].many
    BY <1>4
  <2>2. s = many \o args
    BY <2>1
  <2> HIDE DEF s
  <2>3. s \in Seq(Nat) /\ Range(s) = Range(many) \cup Range(args)
        /\ (Once(many) /\ Once(args) /\ Range(many) \cap Range(args) = {} => Once(s))
    BY <2>2, CatRange
  <2> QED
    BY <1>4, <1>5, <2>1, <2>3
<1>7. g = WithMany(heap, o, s)
  BY DEF WithMany
<1> HIDE DEF g, s
<1>8. /\ g \in Seq(Object) /\ DOMAIN g = DOMAIN heap /\ g[o] \in Object
      /\ g[o].many = s /\ g[o].one = heap[o].one /\ g[o].lent = heap[o].lent
      /\ g[o].kind = heap[o].kind /\ g[o].live = heap[o].live
      /\ \A q \in DOMAIN heap : q # o => g[q] = heap[q]
  <2>1. heap \in Seq(Object) /\ o \in DOMAIN heap /\ s \in Seq(Nat)
    BY <1>3, <1>4, <1>6
  <2> QED
    BY <2>1, <1>7, EditMany
<1>9. Fit(heap, g[o])
  <2>1. Holds(heap, Range(s), HoldsMany(heap[o].kind))
    BY <1>4, <1>5, <1>6 DEF Holds, Fit
  <2>2. g[o].one \notin Range(s)
    BY <1>4, <1>5, <1>6, <1>8
  <2>3. /\ g[o].one # 0 => Holds(heap, {g[o].one}, HoldsOne(g[o].kind))
        /\ Holds(heap, Range(g[o].lent), HoldsLent(g[o].kind))
    BY <1>4, <1>8 DEF Fit
  <2> QED
    BY <1>3, <1>6, <1>8, <2>1, <2>2, <2>3 DEF Fit, Once
<1>10. Pointers(g[o]) = Pointers(heap[o]) \cup Range(args)
  BY <1>4, <1>5, <1>6, <1>8 DEF Pointers
<1>11. EditedTo(o, g[o], Range(args), {}, lost)
  <2>1. \A c \in Range(g[o].lent) : ~Stray(heap, mine, c)
    BY <1>3, <1>8 DEF Stray
  <2>2. g[o].kind # "Interaction"
    BY <1>3, <1>8
  <2> QED
    BY <1>1, <1>3, <1>8, <1>9, <1>10, <2>1, <2>2 DEF EditedTo
<1>12. lost \subseteq DOMAIN heap
  BY <1>2 DEF Safe
<1>13. PICK R \in SUBSET DOMAIN heap : o \notin R /\ Range(args) \subseteq R /\ \A x \in R : Pointers(heap[x]) \subseteq R
  <2>1. PICK rs \in SUBSET DOMAIN heap : rs = Range(args)
    BY <1>5
  <2>2. ~Within(o, rs)
    BY <1>1, <2>1
  <2>3. \E R \in SUBSET DOMAIN heap : o \notin R /\ rs \subseteq R /\ \A x \in R : Pointers(heap[x]) \subseteq R
    BY <1>2, <1>3, <2>2, WithinFacts
  <2> QED
    BY <2>1, <2>3
<1>14. Safe(g, mine \ Range(args), lost)
  <2>1. Range(args) \cap Pointers(g[o]) \subseteq R
    BY <1>13
  <2> QED
    BY <1>2, <1>3, <1>8, <1>11, <1>12, <1>13, <2>1, PlainHostStep
<1> QED
  BY <1>1, <1>14, SafeNext

\* Short lists.
LEMMA OneIsSeq == ASSUME NEW p \in Nat PROVE <<p>> \in Seq(Nat) /\ Range(<<p>>) = {p} /\ Once(<<p>>)
<1>1. <<p>> \in Seq(Nat)
  OBVIOUS
<1>2. Range(<<p>>) = {p} /\ DOMAIN <<p>> = {1}
  BY RangeOne
<1> QED
  BY <1>1, <1>2 DEF Once

LEMMA TwoIsSeq ==
  ASSUME NEW p \in Nat, NEW q \in Nat
  PROVE  <<p, q>> \in Seq(Nat) /\ Range(<<p, q>>) = {p, q} /\ (p # q => Once(<<p, q>>))
         /\ DOMAIN <<p, q>> = {1, 2}
BY DEF Range, Once

\* The objects of the program that a call takes: of some kinds, and numbers.
LEMMA MineOfFacts ==
  ASSUME IInv, ub = Defined, NEW kinds, NEW p \in MineOf(kinds)
  PROVE  p \in mine /\ p \in DOMAIN heap /\ p \in Nat /\ p # 0 /\ heap[p].kind \in kinds /\ heap[p].live
<1>1. Safe(heap, mine, lost) /\ p \in mine /\ heap[p].kind \in kinds
  BY DEF IInv, MineOf
<1>2. p \in DOMAIN heap /\ heap[p].live
  BY <1>1, MineFacts
<1> QED
  BY <1>1, <1>2, ObjectFacts

\* An object the program can name has one of the kinds it asked for.
LEMMA NamedKind ==
  ASSUME IInv, ub = Defined, NEW kinds, NEW o \in Named(kinds)
  PROVE  o \in DOMAIN heap /\ heap[o].kind \in kinds
BY NamedNotStray DEF IInv

\* The calls that give objects to a container.
LEMMA AppendChildStep == ASSUME IInv, AppendChild, UNCHANGED <<kept, due>> PROVE IInv'
<1>1. PICK b \in Named(BlockKind), n \in MineOf(NodeKind) : Take(b, <<n>>)
  BY DEF AppendChild
<1>2. ub = Defined
  BY <1>1 DEF Take, Running
<1>3. n \in Nat /\ heap[n].kind \in NodeKind
  BY <1>2, MineOfFacts
<1>4. heap[b].kind \in BlockKind
  BY <1>2, NamedKind
<1>5. <<n>> \in Seq(Nat) /\ Range(<<n>>) = {n} /\ Once(<<n>>)
  BY <1>3, OneIsSeq
<1>6. BlockKind \cap {"Interaction", "AllReduce"} = {}
  BY DEF BlockKind
<1>7. NodeKind \subseteq HoldsMany(heap[b].kind)
  BY <1>4 DEF HoldsMany, BlockKind
<1> QED
  BY <1>1, <1>3, <1>5, <1>6, <1>7, TakeStep

LEMMA AddArgStep == ASSUME IInv, AddArg, UNCHANGED <<kept, due>> PROVE IInv'
<1>1. PICK b \in Named({"Nested"}), n \in MineOf({"Msg", "Role"}) : Take(b, <<n>>)
  BY DEF AddArg
<1>2. ub = Defined
  BY <1>1 DEF Take, Running
<1>3. n \in Nat /\ heap[n].kind \in {"Msg", "Role"}
  BY <1>2, MineOfFacts
<1>4. heap[b].kind = "Nested"
  BY <1>2, NamedKind
<1>5. <<n>> \in Seq(Nat) /\ Range(<<n>>) = {n} /\ Once(<<n>>)
  BY <1>3, OneIsSeq
<1>6. {"Nested"} \cap {"Interaction", "AllReduce"} = {}
  OBVIOUS
<1>7. HoldsMany(heap[b].kind) = {"Msg", "Role"}
  BY <1>4 DEF HoldsMany
<1> QED
  BY <1>1, <1>3, <1>5, <1>6, <1>7, TakeStep

LEMMA AddInterruptStep == ASSUME IInv, AddInterrupt, UNCHANGED <<kept, due>> PROVE IInv'
<1>1. PICK b \in Named({"Interruptible"}), r \in MineOf({"Role"}), m \in MineOf({"Msg"}) : Take(b, <<r, m>>)
  BY DEF AddInterrupt
<1>2. ub = Defined
  BY <1>1 DEF Take, Running
<1>3. r \in Nat /\ heap[r].kind = "Role" /\ m \in Nat /\ heap[m].kind = "Msg"
  BY <1>2, MineOfFacts
<1>4. heap[b].kind = "Interruptible"
  BY <1>2, NamedKind
<1>5. <<r, m>> \in Seq(Nat) /\ Range(<<r, m>>) = {r, m} /\ Once(<<r, m>>)
  BY <1>3, TwoIsSeq
<1>6. {"Interruptible"} \cap {"Interaction", "AllReduce"} = {}
  OBVIOUS
<1>7. "Msg" \in HoldsMany(heap[b].kind) /\ "Role" \in HoldsMany(heap[b].kind)
  BY <1>4 DEF HoldsMany
<1> QED
  BY <1>1, <1>3, <1>5, <1>6, <1>7, TakeStep

LEMMA AddParamStep == ASSUME IInv, AddParam, UNCHANGED <<kept, due>> PROVE IInv'
<1>1. PICK b \in Named({"Role", "Payload"}), n \in MineOf({"Expr"}) : Take(b, <<n>>)
  BY DEF AddParam
<1>2. ub = Defined
  BY <1>1 DEF Take, Running
<1>3. n \in Nat /\ heap[n].kind = "Expr"
  BY <1>2, MineOfFacts
<1>4. heap[b].kind \in {"Role", "Payload"}
  BY <1>2, NamedKind
<1>5. <<n>> \in Seq(Nat) /\ Range(<<n>>) = {n} /\ Once(<<n>>)
  BY <1>3, OneIsSeq
<1>6. {"Role", "Payload"} \cap {"Interaction", "AllReduce"} = {}
  OBVIOUS
<1>7. "Expr" \in HoldsMany(heap[b].kind)
  BY <1>4 DEF HoldsMany
<1> QED
  BY <1>1, <1>3, <1>5, <1>6, <1>7, TakeStep
-----------------------------------------------------------------------------
\* g is the heap but for n.
OnlyAt(n, g) == g \in Seq(Object) /\ DOMAIN g = DOMAIN heap /\ \A q \in DOMAIN heap : q # n => g[q] = heap[q]

\* What a new list of pointers, a new other pointer, or a new list of what is borrowed
\* may be.
ManyFor(n, s, taken, roots, ls2) ==
  /\ \A p \in Range(s) : p \in Range(heap[n].many) \/ p \in taken
  /\ \A p \in Range(heap[n].many) : p \in Range(s) \/ p \in roots \/ p \in ls2
  /\ \A p \in taken : p \in Range(s) /\ heap[p].kind \in HoldsMany(heap[n].kind)
  /\ heap[n].kind = "Interaction" =>
       /\ roots \subseteq Pointers(heap[n])
       /\ \E m \in Range(s) : \A p \in Range(s) : heap[p].kind = "Msg" <=> p = m
OneFor(n, v, taken, roots, ls2) ==
  /\ taken = {v} \ {0}
  /\ v # 0 => heap[v].kind \in HoldsOne(heap[n].kind)
  /\ heap[n].one = 0 \/ heap[n].one \in roots \/ heap[n].one \in ls2
  /\ heap[n].kind = "Interaction" => roots \subseteq Pointers(heap[n])
LentFor(n, s, taken, roots, ls2) ==
  /\ \A c \in Range(s) : c \in DOMAIN heap /\ ~Stray(heap, mine, c) /\ heap[c].kind \in HoldsLent(heap[n].kind)
  /\ \A p \in Range(heap[n].lent) : p \in Range(s) \/ p \in roots \/ p \in ls2 \/ heap[n].kind = "Oneof"
  /\ \A p \in taken : p \in Range(s) /\ heap[n].kind \in {"Interaction", "AllReduce"}
  /\ heap[n].kind = "Interaction" => \A c \in Range(s) : c \in taken \/ FreeToLend(n, c)

\* EditedTo, when the list of pointers is replaced.
LEMMA EditedMany ==
  ASSUME Safe(heap, mine, lost), NEW n \in Live,
         NEW s \in Seq(Nat), Once(s), NEW taken \in SUBSET mine, NEW roots, NEW ls2,
         NEW g, g = WithMany(heap, n, s),
         ManyFor(n, s, taken, roots, ls2)
  PROVE  /\ EditedTo(n, g[n], taken, roots, ls2)
         /\ OnlyAt(n, g)
         /\ Pointers(g[n]) = (Range(s) \cup {heap[n].one}) \ {0}
<1>0. n \in DOMAIN heap
  BY DEF Live
<1>1. /\ heap \in Seq(Object) /\ Fit(heap, heap[n]) /\ heap[n].one \notin Range(heap[n].many)
      /\ Pointers(heap[n]) = (Range(heap[n].many) \cup {heap[n].one}) \ {0}
      /\ 0 \notin DOMAIN heap /\ Range(heap[n].many) \subseteq DOMAIN heap
  BY <1>0, ObjectFacts
<1>2. \A p \in taken : p \in DOMAIN heap /\ p # 0 /\ p # heap[n].one
  BY <1>0, MineFacts DEF ManyFor
<1>3. /\ g \in Seq(Object) /\ DOMAIN g = DOMAIN heap
      /\ g[n].many = s /\ g[n].one = heap[n].one /\ g[n].lent = heap[n].lent
      /\ g[n].kind = heap[n].kind /\ g[n].live = heap[n].live
      /\ \A q \in DOMAIN heap : q # n => g[q] = heap[q]
  <2>1. heap \in Seq(Object)
    BY <1>1
  <2> QED
    BY <1>0, <2>1, EditMany
<1> DEFINE x == g[n]
<1>4. x.many = s /\ x.one = heap[n].one /\ x.lent = heap[n].lent /\ x.kind = heap[n].kind /\ x.live /\ heap[n].live
  BY <1>0, <1>3 DEF Live
<1> HIDE DEF x
<1>5. Pointers(x) = (Range(s) \cup {heap[n].one}) \ {0}
  BY <1>4 DEF Pointers
<1>6. Fit(heap, x)
  <2>1. Holds(heap, Range(s), HoldsMany(heap[n].kind))
    BY <1>1, <1>2 DEF Holds, Fit, ManyFor
  <2>2. heap[n].one \notin Range(s)
    BY <1>1, <1>2 DEF ManyFor
  <2>3. /\ x.one # 0 => Holds(heap, {x.one}, HoldsOne(x.kind))
        /\ Holds(heap, Range(x.lent), HoldsLent(x.kind))
    BY <1>1, <1>4 DEF Fit
  <2> QED
    BY <1>4, <2>1, <2>2, <2>3 DEF Fit, Once, ManyFor
<1>7. ASSUME NEW c \in Range(x.lent)
      PROVE  /\ ~Stray(heap, mine, c)
             /\ x.kind = "Interaction" => c \in Range(heap[n].lent) /\ c \notin roots
  <2>1. x.kind = "Interaction" => c \notin Pointers(heap[n])
    BY <1>0, <1>4 DEF Safe, Conditions
  <2> QED
    BY <1>0, <1>4, <2>1 DEF Stray, ManyFor
<1>8. EditedTo(n, x, taken, roots, ls2)
  BY <1>0, <1>1, <1>2, <1>4, <1>5, <1>6, <1>7 DEF EditedTo, ManyFor
<1> QED
  BY <1>3, <1>5, <1>8 DEF x, OnlyAt

\* When the other pointer is.
LEMMA EditedOne ==
  ASSUME Safe(heap, mine, lost), NEW n \in Live,
         NEW v \in Nat, NEW taken \in SUBSET mine, NEW roots, NEW ls2,
         NEW g, g = WithOne(heap, n, v),
         OneFor(n, v, taken, roots, ls2)
  PROVE  /\ EditedTo(n, g[n], taken, roots, ls2)
         /\ OnlyAt(n, g)
         /\ Pointers(g[n]) = (Range(heap[n].many) \cup {v}) \ {0}
<1>0. n \in DOMAIN heap
  BY DEF Live
<1>1. /\ heap \in Seq(Object) /\ Fit(heap, heap[n]) /\ heap[n].one \notin Range(heap[n].many)
      /\ Pointers(heap[n]) = (Range(heap[n].many) \cup {heap[n].one}) \ {0}
      /\ 0 \notin DOMAIN heap /\ Range(heap[n].many) \subseteq DOMAIN heap
  BY <1>0, ObjectFacts
<1>2. \A p \in taken : p \in DOMAIN heap /\ p # 0 /\ p \notin Range(heap[n].many)
  BY <1>0, MineFacts DEF OneFor
<1>3. /\ g \in Seq(Object) /\ DOMAIN g = DOMAIN heap
      /\ g[n].one = v /\ g[n].many = heap[n].many /\ g[n].lent = heap[n].lent
      /\ g[n].kind = heap[n].kind /\ g[n].live = heap[n].live
      /\ \A q \in DOMAIN heap : q # n => g[q] = heap[q]
  <2>1. heap \in Seq(Object)
    BY <1>1
  <2> QED
    BY <1>0, <2>1, EditOne
<1> DEFINE x == g[n]
<1>4. x.one = v /\ x.many = heap[n].many /\ x.lent = heap[n].lent /\ x.kind = heap[n].kind /\ x.live /\ heap[n].live
  BY <1>0, <1>3 DEF Live
<1> HIDE DEF x
<1>5. Pointers(x) = (Range(heap[n].many) \cup {v}) \ {0}
  BY <1>4 DEF Pointers
<1>6. Fit(heap, x)
  <2>1. v # 0 => Holds(heap, {v}, HoldsOne(heap[n].kind))
    BY <1>2 DEF Holds, OneFor
  <2>2. v \notin Range(heap[n].many)
    BY <1>1, <1>2 DEF OneFor
  <2> QED
    BY <1>1, <1>4, <2>1, <2>2 DEF Fit
<1>7. ASSUME NEW c \in Range(x.lent)
      PROVE  /\ ~Stray(heap, mine, c)
             /\ x.kind = "Interaction" => c \in Range(heap[n].lent) /\ c \notin roots
  <2>1. x.kind = "Interaction" => c \notin Pointers(heap[n])
    BY <1>0, <1>4 DEF Safe, Conditions
  <2> QED
    BY <1>0, <1>4, <2>1 DEF Stray, OneFor
<1>8. EditedTo(n, x, taken, roots, ls2)
  BY <1>0, <1>1, <1>2, <1>4, <1>5, <1>6, <1>7 DEF EditedTo, OneFor
<1> QED
  BY <1>3, <1>5, <1>8 DEF x, OnlyAt

\* When what it borrows is.
LEMMA EditedLent ==
  ASSUME Safe(heap, mine, lost), NEW n \in Live,
         NEW s \in Seq(Nat), NEW taken \in SUBSET mine, NEW roots, NEW ls2,
         NEW g, g = WithLent(heap, n, s),
         LentFor(n, s, taken, roots, ls2)
  PROVE  /\ EditedTo(n, g[n], taken, roots, ls2)
         /\ OnlyAt(n, g)
         /\ Pointers(g[n]) = Pointers(heap[n])
<1>0. n \in DOMAIN heap
  BY DEF Live
<1>1. heap \in Seq(Object) /\ Fit(heap, heap[n])
  BY <1>0, ObjectFacts
<1>2. \A p \in taken : p \notin Pointers(heap[n])
  BY <1>0, MineFacts DEF LentFor
<1>3. /\ g \in Seq(Object) /\ DOMAIN g = DOMAIN heap
      /\ g[n].lent = s /\ g[n].many = heap[n].many /\ g[n].one = heap[n].one
      /\ g[n].kind = heap[n].kind /\ g[n].live = heap[n].live
      /\ \A q \in DOMAIN heap : q # n => g[q] = heap[q]
  <2>1. heap \in Seq(Object)
    BY <1>1
  <2> QED
    BY <1>0, <2>1, EditLent
<1> DEFINE x == g[n]
<1>4. x.one = heap[n].one /\ x.many = heap[n].many /\ x.lent = s /\ x.kind = heap[n].kind /\ x.live /\ heap[n].live
  BY <1>0, <1>3 DEF Live
<1> HIDE DEF x
<1>5. Pointers(x) = Pointers(heap[n])
  BY <1>4 DEF Pointers
<1>6. Fit(heap, x)
  <2>1. Holds(heap, Range(s), HoldsLent(heap[n].kind))
    BY DEF Holds, LentFor
  <2> QED
    BY <1>1, <1>4, <2>1 DEF Fit
<1>7. \A c : FreeToLend(n, c) => c \notin Pointers(heap[n])
  BY <1>0 DEF Safe, Conditions, Unclaimed, FreeToLend
<1>8. EditedTo(n, x, taken, roots, ls2)
  BY <1>0, <1>1, <1>2, <1>4, <1>5, <1>6, <1>7 DEF EditedTo, LentFor, Lends
<1> QED
  BY <1>3, <1>5, <1>8 DEF x, OnlyAt

\* A list with one element replaced.
LEMMA SeqSet ==
  ASSUME NEW a \in Seq(Nat), NEW i \in DOMAIN a, NEW v \in Nat, v \notin Range(a), Once(a),
         NEW c, c = [a EXCEPT ![i] = v]
  PROVE  c \in Seq(Nat) /\ Once(c) /\ Range(c) = (Range(a) \ {a[i]}) \cup {v}
<1>1. c \in Seq(Nat) /\ DOMAIN c = DOMAIN a /\ c[i] = v /\ \A j \in DOMAIN a : j # i => c[j] = a[j]
  OBVIOUS
<1>2. Once(c)
  BY <1>1 DEF Once, Range
<1>3. ASSUME NEW y PROVE y \in Range(c) <=> y \in (Range(a) \ {a[i]}) \cup {v}
  BY <1>1 DEF Once, Range
<1> QED
  BY <1>1, <1>2, <1>3
-----------------------------------------------------------------------------
\* set_child: the old child is lost, the new one was the program's.
LEMMA SetChildStep == ASSUME IInv, SetChild, UNCHANGED <<kept, due>> PROVE IInv'
<1>1. PICK b \in Named(BlockKind), n \in MineOf(NodeKind) : \E i \in DOMAIN heap[b].many :
        /\ Running /\ ~Within(b, {n})
        /\ heap' = [heap EXCEPT ![b].many[i] = n]
        /\ lost' = lost \cup {heap[b].many[i]}
        /\ mine' = mine \ {n} /\ profile' = profile /\ ub' = ub
  BY DEF SetChild
<1>2. PICK i \in DOMAIN heap[b].many :
        /\ ub = Defined /\ ~Within(b, {n})
        /\ heap' = [heap EXCEPT ![b].many[i] = n]
        /\ lost' = lost \cup {heap[b].many[i]}
        /\ mine' = mine \ {n} /\ profile' = profile /\ ub' = ub
  BY <1>1 DEF Running
<1>3. Safe(heap, mine, lost)
  BY <1>2 DEF IInv
<1>4. b \in DOMAIN heap /\ heap[b].live /\ heap[b].kind \in BlockKind /\ ~Stray(heap, mine, b)
  BY <1>3, NamedNotStray
<1>41. b \in Live
  BY <1>4 DEF Live
<1>5. n \in mine /\ n \in DOMAIN heap /\ n \in Nat /\ n # 0 /\ heap[n].kind \in NodeKind
  BY <1>2, MineOfFacts
<1>6. heap[b].many \in Seq(Nat) /\ Once(heap[b].many) /\ Range(heap[b].many) \subseteq DOMAIN heap
  BY <1>3, <1>4, ObjectFacts
<1>7. n \notin Range(heap[b].many)
  BY <1>3, <1>4, <1>5, MineFacts
<1> DEFINE s == [heap[b].many EXCEPT ![i] = n]
           old == heap[b].many[i]
           g == WithMany(heap, b, s)
<1>8. heap' = g
  BY <1>2 DEF WithMany
<1>9. s \in Seq(Nat) /\ Once(s) /\ Range(s) = (Range(heap[b].many) \ {old}) \cup {n}
  <2>1. PICK a \in Seq(Nat) : a = heap[b].many
    BY <1>6
  <2>2. s = [a EXCEPT ![i] = n]
    BY <2>1
  <2> HIDE DEF s
  <2>3. s \in Seq(Nat) /\ Once(s) /\ Range(s) = (Range(a) \ {a[i]}) \cup {n}
    BY <1>5, <1>6, <1>7, <2>1, <2>2, SeqSet
  <2> QED
    BY <2>1, <2>3
<1>10. old \in Range(heap[b].many)
  BY DEF Range
<1>11. heap[b].kind # "Interaction" /\ NodeKind \subseteq HoldsMany(heap[b].kind)
  BY <1>4 DEF HoldsMany, BlockKind
<1> HIDE DEF s, old
<1>12. g = WithMany(heap, b, s)
  OBVIOUS
<1> HIDE DEF g
<1>13. /\ EditedTo(b, g[b], {n}, {}, lost \cup {old})
       /\ OnlyAt(b, g)
  <2>1. PICK taken, roots, ls2 : taken \in SUBSET mine /\ taken = {n} /\ roots = {} /\ ls2 = lost \cup {old}
    BY <1>5
  <2>2. ManyFor(b, s, taken, roots, ls2)
    BY <1>5, <1>9, <1>11, <2>1 DEF ManyFor
  <2>3. s \in Seq(Nat) /\ Once(s) /\ taken \in SUBSET mine
    BY <1>9, <2>1
  <2>4. /\ EditedTo(b, g[b], taken, roots, ls2)
        /\ OnlyAt(b, g)
    BY <1>3, <1>41, <1>12, <2>2, <2>3, EditedMany
  <2> QED
    BY <2>1, <2>4
<1>14. PICK R \in SUBSET DOMAIN heap : b \notin R /\ {n} \subseteq R /\ \A x \in R : Pointers(heap[x]) \subseteq R
  <2>1. {n} \in SUBSET DOMAIN heap
    BY <1>5
  <2> QED
    BY <1>2, <1>3, <1>4, <2>1, WithinFacts
<1>15. lost \subseteq lost \cup {old} /\ lost \cup {old} \subseteq DOMAIN heap /\ {n} \cap Pointers(g[b]) \subseteq R
  BY <1>3, <1>6, <1>10, <1>14 DEF Safe
<1>16. Safe(g, mine \ {n}, lost \cup {old})
  BY <1>3, <1>4, <1>13, <1>14, <1>15, PlainHostStep DEF OnlyAt
<1>17. lost' = lost \cup {old}
  BY <1>2 DEF old
<1> QED
  BY <1>2, <1>8, <1>16, <1>17, SafeNext

-----------------------------------------------------------------------------
\* R has what it points to, but not n.
Apart(n, R) == n \notin R /\ \A x \in R : Pointers(heap[x]) \subseteq R

\* A call that edits one object, without and with a delete.
LEMMA EditedPlain ==
  ASSUME IInv, UNCHANGED <<kept, due>>, ub = Defined, NEW kinds, NEW n \in Named(kinds), NEW g, OnlyAt(n, g), NEW taken, NEW ls2,
         EditedTo(n, g[n], taken, {}, ls2), lost \subseteq ls2, ls2 \subseteq DOMAIN heap,
         NEW R, Apart(n, R), taken \cap Pointers(g[n]) \subseteq R,
         heap' = g, mine' = mine \ taken, lost' = ls2, profile' = profile, ub' = ub
  PROVE  IInv'
<1>1. Safe(heap, mine, lost)
  BY DEF IInv
<1>2. n \in DOMAIN heap /\ heap[n].live /\ ~Stray(heap, mine, n)
  BY <1>1, NamedNotStray
<1>3. g \in Seq(Object) /\ DOMAIN g = DOMAIN heap /\ \A o \in DOMAIN heap : o # n => g[o] = heap[o]
  BY DEF OnlyAt
<1>4. n \notin R /\ \A x \in R : Pointers(heap[x]) \subseteq R
  BY DEF Apart
<1>5. Safe(g, mine \ taken, ls2)
  BY <1>1, <1>2, <1>3, <1>4, PlainHostStep
<1> QED
  BY <1>5, SafeNext

LEMMA EditedRemoval ==
  ASSUME Safe(heap, mine, lost), ub = Defined, NEW kinds, NEW n \in Named(kinds), NEW g, OnlyAt(n, g), NEW taken,
         NEW roots \in SUBSET DOMAIN heap, n \notin Deleted(roots), LetGoBy(g, roots, n),
         EditedTo(n, g[n], taken, roots, lost),
         NEW R, Apart(n, R), taken \cap Pointers(g[n]) \subseteq R,
         DeleteFirst(roots, 0, g), mine' = mine \ taken, lost' = lost
  PROVE  /\ Deletable(roots)
         /\ \/ /\ heap' = heap /\ mine' \subseteq mine /\ ub' # Defined
               /\ \E arg : arg = 0 /\ ub' = Wrong(roots, arg)
            \/ ub' = ub /\ heap' = Freed(g, Deleted(roots)) /\ Safe(heap', mine', lost')
<1>1. Safe(heap, mine, lost) /\ Formed(heap) /\ lost \subseteq DOMAIN heap
  BY DEF Safe
<1>2. n \in DOMAIN heap /\ heap[n].live /\ ~Stray(heap, mine, n)
  BY <1>1, NamedNotStray
<1>3. g \in Seq(Object) /\ DOMAIN g = DOMAIN heap /\ \A o \in DOMAIN heap : o # n => g[o] = heap[o]
  BY DEF OnlyAt
<1>4. n \notin R /\ \A x \in R : Pointers(heap[x]) \subseteq R
  BY DEF Apart
<1>5. Deletable(roots)
  <2>1. LetGo(g, roots, {n})
    BY DEF LetGoBy, LetGo
  <2>2. {n} \in SUBSET DOMAIN heap /\ {n} \cap Deleted(roots) = {}
    BY <1>2
  <2> QED
    BY <1>1, <2>1, <2>2, LetGoDeletable
<1> DEFINE D == Deleted(roots)
           w == Wrong(roots, 0)
           f == Freed(g, D)
<1>6. ub' = w /\ heap' = IF w = Defined THEN f ELSE heap
  BY DEF DeleteFirst
<1>7. CASE w # Defined
  <2>1. heap' = heap /\ ub' = Wrong(roots, 0) /\ ub' # Defined /\ mine' \subseteq mine
    BY <1>6, <1>7
  <2>2. PICK arg : arg = 0
    OBVIOUS
  <2>3. ub' = Wrong(roots, arg)
    BY <2>1, <2>2
  <2> QED
    BY <1>5, <2>1, <2>2, <2>3
<1>8. CASE w = Defined
  <2>1. heap' = f /\ ub' = ub
    BY <1>6, <1>8
  <2>2. \A d \in D : heap[d].live
    <3>1. PICK arg : arg = 0
      OBVIOUS
    <3>2. Wrong(roots, arg) = Defined
      BY <1>8, <3>1
    <3> QED
      BY <1>1, <1>5, <3>1, <3>2, WrongFacts
  <2>3. D = Deleted(roots) /\ n \notin D /\ f = Freed(g, D)
    OBVIOUS
  <2> HIDE DEF D, f
  <2>4. /\ f \in Seq(Object) /\ DOMAIN f = DOMAIN heap /\ f[n] = g[n]
        /\ \A o \in DOMAIN heap : o # n => f[o] = Freed(heap, D)[o]
    BY <1>1, <1>2, <1>3, <2>3, FreedEdit
  <2>5. EditedTo(n, f[n], taken, roots, lost) /\ taken \cap Pointers(f[n]) \subseteq R
    BY <2>4
  <2>6. LetGoBy(f, roots, n)
    BY <2>4 DEF LetGoBy
  <2>7. lost \subseteq lost
    OBVIOUS
  <2>8. Safe(f, mine \ taken, lost)
    BY <1>1, <1>2, <1>4, <2>2, <2>3, <2>4, <2>5, <2>6, <2>7, HostStep
  <2> QED
    BY <2>1, <2>3, <2>8, <1>5
<1> QED
  BY <1>7, <1>8

LEMMA EditedDelete ==
  ASSUME IInv, UNCHANGED <<kept, due>>, ub = Defined, NEW kinds, NEW n \in Named(kinds), NEW g, OnlyAt(n, g), NEW taken,
         NEW roots \in SUBSET DOMAIN heap, n \notin Deleted(roots), LetGoBy(g, roots, n),
         EditedTo(n, g[n], taken, roots, lost),
         NEW R, Apart(n, R), taken \cap Pointers(g[n]) \subseteq R,
         DeleteFirst(roots, 0, g), mine' = mine \ taken, lost' = lost, profile' = profile
  PROVE  IInv'
<1>1. Safe(heap, mine, lost)
  BY DEF IInv
<1>2. /\ Deletable(roots)
      /\ \/ /\ heap' = heap /\ mine' \subseteq mine /\ ub' # Defined
            /\ \E arg : arg = 0 /\ ub' = Wrong(roots, arg)
         \/ ub' = ub /\ heap' = Freed(g, Deleted(roots)) /\ Safe(heap', mine', lost')
  BY <1>1, EditedRemoval
<1>3. CASE heap' = heap /\ mine' \subseteq mine /\ ub' # Defined /\ \E arg : arg = 0 /\ ub' = Wrong(roots, arg)
  BY <1>2, <1>3, WrongNext
<1>4. CASE ub' = ub /\ Safe(heap', mine', lost')
  BY <1>4, SafeNext
<1> QED
  BY <1>2, <1>3, <1>4

\* What is not a leaf points to leaves but is apart from them.
LEMMA LeavesApart ==
  ASSUME Safe(heap, mine, lost), NEW n, heap[n].kind \notin LeafKind
  PROVE  \E R : Apart(n, R) /\ R = {o \in DOMAIN heap : heap[o].kind \in LeafKind}
BY LeavesClosed DEF Apart

\* The two ways of a set to be apart, and what is not deleted with leaves.
LEMMA NothingApart ==
  ASSUME NEW n
  PROVE  Apart(n, {})
BY DEF Apart

LEMMA NotDeleted ==
  ASSUME Safe(heap, mine, lost), NEW n, heap[n].kind \notin LeafKind, NEW roots \in SUBSET DOMAIN heap,
         \A r \in roots : heap[r].kind \in LeafKind
  PROVE  n \notin Deleted(roots)
BY DeletedLeaves
-----------------------------------------------------------------------------
\* The part of a list with objects of some kinds.
LEMMA OnlyKindsFacts ==
  ASSUME NEW ps \in Seq(Nat), NEW kinds, NEW s, s = OnlyKinds(ps, kinds)
  PROVE  /\ s \in Seq(Nat) /\ (Once(ps) => Once(s))
         /\ Range(s) = {p \in Range(ps) : heap[p].kind \in kinds}
<1> DEFINE P == {i \in DOMAIN ps : heap[ps[i]].kind \in kinds}
<1>1. s = Selected(ps, P)
  BY DEF OnlyKinds
<1>2. P \in SUBSET DOMAIN ps /\ DOMAIN ps = 1..Len(ps) /\ Len(ps) \in Nat
  OBVIOUS
<1>3. \A i \in P : heap[ps[i]].kind \in kinds
  OBVIOUS
<1>4. \A i \in DOMAIN ps : heap[ps[i]].kind \in kinds => i \in P
  OBVIOUS
<1> HIDE DEF P
<1>5. /\ Selected(ps, P) \in Seq(Nat) /\ DOMAIN Selected(ps, P) = 1..Cardinality(P)
      /\ \A j \in 1..Cardinality(P) : Nth(P, j) \in P /\ Selected(ps, P)[j] = ps[Nth(P, j)]
      /\ Cardinality(P) \in Nat
  BY <1>2, SelectedFacts
<1>6. /\ s \in Seq(Nat) /\ DOMAIN s = 1..Cardinality(P)
      /\ \A j \in 1..Cardinality(P) : Nth(P, j) \in P /\ s[j] = ps[Nth(P, j)]
  BY <1>1, <1>5
<1>7. /\ \A i, j \in 1..Cardinality(P) : i < j => Nth(P, i) < Nth(P, j)
      /\ \A p \in P : \E j \in 1..Cardinality(P) : Nth(P, j) = p
  <2>1. P \in SUBSET (1..Len(ps))
    BY <1>2
  <2> QED
    BY <1>2, <2>1, NthOrder
<1>8. ASSUME Once(ps) PROVE Once(s)
  <2>1. ASSUME NEW i \in DOMAIN s, NEW j \in DOMAIN s, s[i] = s[j] PROVE i = j
    <3>1. Nth(P, i) \in P /\ Nth(P, j) \in P /\ ps[Nth(P, i)] = ps[Nth(P, j)]
      BY <1>6, <2>1
    <3>2. Nth(P, i) = Nth(P, j)
      BY <3>1, <1>2, <1>8 DEF Once
    <3>3. i \in 1..Cardinality(P) /\ j \in 1..Cardinality(P) /\ Nth(P, i) \in Nat
      BY <1>2, <1>6, <3>1
    <3>4. ~(i < j) /\ ~(j < i)
      BY <1>7, <3>2, <3>3
    <3> QED
      BY <1>5, <3>3, <3>4
  <2> QED
    BY <2>1 DEF Once
<1>9. ASSUME NEW p \in Range(s) PROVE p \in Range(ps) /\ heap[p].kind \in kinds
  <2>1. PICK j \in 1..Cardinality(P) : p = s[j]
    BY <1>6 DEF Range
  <2>2. Nth(P, j) \in P /\ p = ps[Nth(P, j)]
    BY <1>6, <2>1
  <2> QED
    BY <1>2, <1>3, <2>2 DEF Range
<1>10. ASSUME NEW p \in Range(ps), heap[p].kind \in kinds PROVE p \in Range(s)
  <2>1. PICK i \in DOMAIN ps : p = ps[i]
    BY DEF Range
  <2>2. i \in P
    BY <1>4, <1>10, <2>1
  <2>3. PICK j \in 1..Cardinality(P) : Nth(P, j) = i
    BY <1>7, <2>2
  <2>4. s[j] = p /\ j \in DOMAIN s
    BY <1>6, <2>1, <2>3
  <2> QED
    BY <2>4 DEF Range
<1> QED
  BY <1>6, <1>8, <1>9, <1>10

\* What the program can name lives.
LEMMA LiveNamed ==
  ASSUME IInv, ub = Defined, NEW kinds, NEW n \in Named(kinds)
  PROVE  /\ Safe(heap, mine, lost) /\ n \in Live /\ n \in DOMAIN heap /\ heap[n].kind \in kinds
         /\ lost \subseteq DOMAIN heap
<1>1. Safe(heap, mine, lost)
  BY DEF IInv
<1>2. n \in DOMAIN heap /\ heap[n].live /\ heap[n].kind \in kinds
  BY <1>1, NamedNotStray
<1> QED
  BY <1>1, <1>2 DEF Live, Safe

\* The calls that write a pointer over.
LEMMA SetIfCondStep == ASSUME IInv, SetIfCond, UNCHANGED <<kept, due>> PROVE IInv'
<1>1. PICK n \in Named({"If"}), c \in MineOf({"Role"}) :
        /\ ub = Defined /\ heap' = WithOne(heap, n, c) /\ lost' = lost \cup ({heap[n].one} \ {0})
        /\ mine' = mine \ {c} /\ profile' = profile /\ ub' = ub
  BY DEF SetIfCond, Running, WithOne
<1>2. Safe(heap, mine, lost) /\ n \in Live /\ n \in DOMAIN heap /\ heap[n].kind = "If" /\ lost \subseteq DOMAIN heap
  BY <1>1, LiveNamed
<1>3. c \in mine /\ c \in DOMAIN heap /\ c \in Nat /\ c # 0 /\ heap[c].kind = "Role"
  BY <1>1, MineOfFacts
<1>40. PICK g : g = WithOne(heap, n, c)
  OBVIOUS
<1>4. PICK taken, roots, ls2 : taken \in SUBSET mine /\ taken = {c} /\ roots = {} /\ ls2 = lost \cup ({heap[n].one} \ {0})
  BY <1>3
<1>5. OneFor(n, c, taken, roots, ls2)
  BY <1>2, <1>3, <1>4 DEF OneFor, HoldsOne
<1>6. g = WithOne(heap, n, c) /\ c \in Nat /\ taken \in SUBSET mine
  BY <1>3, <1>4, <1>40
<1>7. EditedTo(n, g[n], taken, roots, ls2) /\ OnlyAt(n, g)
  BY <1>2, <1>5, <1>6, EditedOne
<1>8. PICK R : Apart(n, R) /\ R = {o \in DOMAIN heap : heap[o].kind \in LeafKind}
  <2>1. heap[n].kind \notin LeafKind
    BY <1>2 DEF LeafKind
  <2> QED
    BY <1>2, <2>1, LeavesApart
<1>9. taken \cap Pointers(g[n]) \subseteq R
  BY <1>3, <1>4, <1>8 DEF LeafKind
<1>10. lost \subseteq ls2 /\ ls2 \subseteq DOMAIN heap
  <2>1. heap[n].one # 0 => heap[n].one \in DOMAIN heap
    BY <1>2, ObjectFacts
  <2> QED
    BY <1>2, <1>4, <2>1
<1>11. EditedTo(n, g[n], taken, {}, ls2)
  BY <1>4, <1>7
<1>12. heap' = g /\ mine' = mine \ taken /\ lost' = ls2 /\ profile' = profile /\ ub' = ub /\ ub = Defined
  BY <1>1, <1>4, <1>40
<1> QED
  BY <1>7, <1>8, <1>9, <1>10, <1>11, <1>12, EditedPlain

LEMMA SetAllReduceMsgStep == ASSUME IInv, SetAllReduceMsg, UNCHANGED <<kept, due>> PROVE IInv'
<1>1. PICK n \in Named({"AllReduce"}), m \in MineOf({"Msg"}) :
        /\ ub = Defined /\ heap' = WithLent(heap, n, <<m>>) /\ lost' = lost \cup Range(heap[n].lent)
        /\ mine' = mine \ {m} /\ profile' = profile /\ ub' = ub
  BY DEF SetAllReduceMsg, Running, WithLent, Lent
<1>2. Safe(heap, mine, lost) /\ n \in Live /\ n \in DOMAIN heap /\ heap[n].kind = "AllReduce" /\ lost \subseteq DOMAIN heap
  BY <1>1, LiveNamed
<1>3. m \in mine /\ m \in DOMAIN heap /\ m \in Nat /\ m # 0 /\ heap[m].kind = "Msg"
  BY <1>1, MineOfFacts
<1>31. ~Stray(heap, mine, m)
  BY <1>3 DEF Stray
<1>39. PICK s \in Seq(Nat) : s = <<m>> /\ Range(s) = {m}
  BY <1>3, OneIsSeq
<1>40. PICK g : g = WithLent(heap, n, s)
  OBVIOUS
<1>4. PICK taken, roots, ls2 : taken \in SUBSET mine /\ taken = {m} /\ roots = {} /\ ls2 = lost \cup Range(heap[n].lent)
  BY <1>3
<1>5. LentFor(n, s, taken, roots, ls2)
  BY <1>2, <1>3, <1>31, <1>39, <1>4 DEF LentFor, HoldsLent
<1>6. g = WithLent(heap, n, s) /\ s \in Seq(Nat) /\ taken \in SUBSET mine
  BY <1>39, <1>4, <1>40
<1>7. EditedTo(n, g[n], taken, roots, ls2) /\ OnlyAt(n, g) /\ Pointers(g[n]) = Pointers(heap[n])
  BY <1>2, <1>5, <1>6, EditedLent
<1>8. Apart(n, {}) /\ taken \cap Pointers(g[n]) \subseteq {}
  <2>1. m \notin Pointers(heap[n])
    BY <1>2, <1>3, MineFacts
  <2> QED
    BY <1>4, <1>7, <2>1, NothingApart
<1>10. lost \subseteq ls2 /\ ls2 \subseteq DOMAIN heap
  <2>1. Range(heap[n].lent) \subseteq DOMAIN heap
    BY <1>2, ObjectFacts
  <2> QED
    BY <1>2, <1>4, <2>1
<1>11. EditedTo(n, g[n], taken, {}, ls2)
  BY <1>4, <1>7
<1>12. heap' = g /\ mine' = mine \ taken /\ lost' = ls2 /\ profile' = profile /\ ub' = ub /\ ub = Defined
  BY <1>1, <1>4, <1>40, <1>39
<1> QED
  BY <1>7, <1>8, <1>10, <1>11, <1>12, EditedPlain

\* The calls by which a oneof borrows.
LEMMA BorrowStep ==
  ASSUME IInv, UNCHANGED <<kept, due>>, NEW n \in Named({"Oneof"}), NEW kind \in {"Role", "Expr"}, NEW p \in Named({kind}), Borrow(n, kind, p)
  PROVE  IInv'
<1> DEFINE stays == OnlyKinds(heap[n].lent, AnyKind \ {kind})
           s == stays \o <<p>>
<1>1. ub = Defined /\ heap' = WithLent(heap, n, s) /\ mine' = mine /\ lost' = lost /\ profile' = profile /\ ub' = ub
  BY DEF Borrow, Running, WithLent
<1>2. Safe(heap, mine, lost) /\ n \in Live /\ n \in DOMAIN heap /\ heap[n].kind = "Oneof" /\ lost \subseteq DOMAIN heap
  BY <1>1, LiveNamed
<1>3. p \in DOMAIN heap /\ p \in Nat /\ heap[p].kind = kind /\ ~Stray(heap, mine, p)
  <2>1. p \in DOMAIN heap /\ heap[p].kind \in {kind} /\ ~Stray(heap, mine, p)
    BY <1>2, NamedNotStray
  <2> QED
    BY <1>2, <2>1, ObjectFacts
<1>4. /\ heap[n].lent \in Seq(Nat) /\ Range(heap[n].lent) \subseteq DOMAIN heap
      /\ \A c \in Range(heap[n].lent) : heap[c].kind \in HoldsLent(heap[n].kind)
  BY <1>2, ObjectFacts
<1>5. \A c \in Range(heap[n].lent) : ~Stray(heap, mine, c)
  BY <1>2 DEF Stray
<1>6. stays \in Seq(Nat) /\ Range(stays) \subseteq Range(heap[n].lent)
  <2>1. PICK ps \in Seq(Nat) : ps = heap[n].lent
    BY <1>4
  <2>2. stays = OnlyKinds(ps, AnyKind \ {kind})
    BY <2>1
  <2> HIDE DEF stays
  <2> QED
    BY <2>1, <2>2, OnlyKindsFacts
<1> HIDE DEF stays
<1>7. s \in Seq(Nat) /\ Range(s) = Range(stays) \cup {p}
  <2>1. <<p>> \in Seq(Nat) /\ Range(<<p>>) = {p}
    BY <1>3, OneIsSeq
  <2>2. PICK b \in Seq(Nat) : b = <<p>>
    BY <2>1
  <2>3. s = stays \o b
    BY <2>2
  <2> HIDE DEF s
  <2>4. PICK a \in Seq(Nat) : a = stays
    BY <1>6
  <2>5. s = a \o b
    BY <2>3, <2>4
  <2>6. s \in Seq(Nat) /\ Range(s) = Range(a) \cup Range(b)
    BY <2>5, CatRange
  <2> QED
    BY <2>1, <2>2, <2>4, <2>6
<1> HIDE DEF s
<1>40. PICK g : g = WithLent(heap, n, s)
  OBVIOUS
<1>8. PICK taken, roots, ls2 : taken = {} /\ roots = {} /\ ls2 = lost
  OBVIOUS
<1>9. LentFor(n, s, taken, roots, ls2)
  <2>1. HoldsLent(heap[n].kind) = {"Role", "Expr"} /\ heap[n].kind # "Interaction"
    BY <1>2 DEF HoldsLent
  <2>2. \A c \in Range(s) : c \in DOMAIN heap /\ ~Stray(heap, mine, c) /\ heap[c].kind \in HoldsLent(heap[n].kind)
    BY <1>3, <1>4, <1>5, <1>6, <1>7, <2>1
  <2> QED
    BY <1>2, <1>8, <2>1, <2>2 DEF LentFor
<1>10. g = WithLent(heap, n, s) /\ s \in Seq(Nat) /\ taken \in SUBSET mine
  BY <1>7, <1>8, <1>40
<1>11. EditedTo(n, g[n], taken, roots, ls2) /\ OnlyAt(n, g)
  BY <1>2, <1>9, <1>10, EditedLent
<1>12. Apart(n, {}) /\ taken \cap Pointers(g[n]) \subseteq {} /\ lost \subseteq ls2 /\ ls2 \subseteq DOMAIN heap
  BY <1>2, <1>8, NothingApart
<1>13. EditedTo(n, g[n], taken, {}, ls2)
  BY <1>8, <1>11
<1>14. heap' = g /\ mine' = mine \ taken /\ lost' = ls2 /\ profile' = profile /\ ub' = ub /\ ub = Defined
  BY <1>1, <1>8, <1>40
<1> QED
  BY <1>11, <1>12, <1>13, <1>14, EditedPlain

LEMMA SetSelectorStep == ASSUME IInv, SetSelector, UNCHANGED <<kept, due>> PROVE IInv'
BY BorrowStep DEF SetSelector

LEMMA SetRangeStep == ASSUME IInv, SetRange, UNCHANGED <<kept, due>> PROVE IInv'
BY BorrowStep DEF SetRange
-----------------------------------------------------------------------------
\* The calls that delete a part of an object.
LEMMA RemoveSndrStep == ASSUME IInv, RemoveSndr, UNCHANGED <<kept, due>> PROVE IInv'
<1>1. PICK n \in Named({"Interaction"}) :
        /\ ub = Defined /\ heap[n].one # 0 /\ DeleteFirst({heap[n].one}, 0, WithOne(heap, n, 0))
        /\ mine' = mine /\ lost' = lost /\ profile' = profile
  BY DEF RemoveSndr, Running, Replace, WithOne
<1>2. Safe(heap, mine, lost) /\ n \in Live /\ n \in DOMAIN heap /\ heap[n].kind = "Interaction"
  BY <1>1, LiveNamed
<1>3. /\ heap[n].one \in DOMAIN heap /\ heap[heap[n].one].kind = "Role"
      /\ heap[n].one \in Pointers(heap[n]) /\ heap[n].one \notin Range(heap[n].many)
  <2>1. HoldsOne("Interaction") = {"Role"}
    BY DEF HoldsOne
  <2> QED
    BY <1>1, <1>2, <2>1, ObjectFacts
<1>40. PICK g : g = WithOne(heap, n, 0)
  OBVIOUS
<1>4. PICK taken \in SUBSET mine, roots \in SUBSET DOMAIN heap : taken = {} /\ roots = {heap[n].one}
  BY <1>3
<1>41. PICK v \in Nat : v = 0
  OBVIOUS
<1>5. OneFor(n, v, taken, roots, lost)
  BY <1>3, <1>4, <1>41 DEF OneFor
<1>6. g = WithOne(heap, n, v) /\ v \in Nat /\ taken \in SUBSET mine
  BY <1>4, <1>40, <1>41
<1>7. EditedTo(n, g[n], taken, roots, lost) /\ OnlyAt(n, g) /\ Pointers(g[n]) = (Range(heap[n].many) \cup {v}) \ {0}
  BY <1>2, <1>5, <1>6, EditedOne
<1>8. LetGoBy(g, roots, n)
  BY <1>1, <1>3, <1>4, <1>41, <1>7 DEF LetGoBy
<1>9. n \notin Deleted(roots)
  <2>1. heap[n].kind \notin LeafKind /\ \A r \in roots : heap[r].kind \in LeafKind
    BY <1>2, <1>3, <1>4 DEF LeafKind
  <2>2. roots \in SUBSET DOMAIN heap
    BY <1>4
  <2> QED
    BY <1>2, <2>1, <2>2, NotDeleted
<1>10. Apart(n, {}) /\ taken \cap Pointers(g[n]) \subseteq {} /\ roots \in SUBSET DOMAIN heap
  BY <1>4, NothingApart
<1>11. DeleteFirst(roots, 0, g) /\ mine' = mine \ taken /\ lost' = lost /\ profile' = profile /\ ub = Defined
  BY <1>1, <1>4, <1>40
<1> QED
  BY <1>7, <1>8, <1>9, <1>10, <1>11, EditedDelete

LEMMA RemoveRcvrsStep == ASSUME IInv, RemoveRcvrs, UNCHANGED <<kept, due>> PROVE IInv'
<1> DEFINE Old(n) == Range(heap[n].many) \cap OfKind({"Role"})
<1>1. PICK n \in Named({"Interaction"}) :
        /\ ub = Defined /\ DeleteFirst(Old(n), 0, WithMany(heap, n, NoRcvrs(n)))
        /\ mine' = mine /\ lost' = lost /\ profile' = profile
  BY DEF RemoveRcvrs, Running, Replace, WithMany
<1>2. Safe(heap, mine, lost) /\ n \in Live /\ n \in DOMAIN heap /\ heap[n].kind = "Interaction"
  BY <1>1, LiveNamed
<1>3. /\ heap[n].many \in Seq(Nat) /\ Once(heap[n].many) /\ heap[n].one \notin Range(heap[n].many)
      /\ Pointers(heap[n]) = (Range(heap[n].many) \cup {heap[n].one}) \ {0}
      /\ Range(heap[n].many) \subseteq DOMAIN heap /\ 0 \notin DOMAIN heap
      /\ \A p \in Range(heap[n].many) : heap[p].kind \in HoldsMany(heap[n].kind)
  BY <1>2, ObjectFacts
<1>31. heap[n].live
  BY <1>2 DEF Live
<1>32. PICK m \in Range(heap[n].many) : \A p \in Range(heap[n].many) : heap[p].kind = "Msg" <=> p = m
  BY <1>2, <1>31, ObjectFacts
<1>4. \A p \in Range(heap[n].many) : heap[p].kind = "Msg" \/ p \in Old(n)
  <2>1. ASSUME NEW p \in Range(heap[n].many), heap[p].kind # "Msg" PROVE p \in Old(n)
    <3>1. heap[p].kind = "Role"
      BY <1>2, <1>3, <2>1 DEF HoldsMany
    <3>2. p \in Pointers(heap[n])
      BY <1>3
    <3>3. ~MayShare(heap, TheRelic, n, p)
      BY <1>2, <3>1 DEF MayShare
    <3>4. heap[p].live
      BY <1>2, <3>2, <3>3 DEF Safe, Pointed, TheRelic
    <3> QED
      BY <1>3, <3>1, <3>4 DEF OfKind, Live
  <2> QED
    BY <2>1
<1>5. \A p \in Old(n) : p \in Range(heap[n].many) /\ heap[p].kind = "Role"
  BY DEF OfKind
<1>6. PICK s \in Seq(Nat) : s = NoRcvrs(n) /\ Once(s) /\ Range(s) = {p \in Range(heap[n].many) : heap[p].kind = "Msg"}
  <2>1. PICK ps \in Seq(Nat) : ps = heap[n].many
    BY <1>3
  <2>2. PICK s : s = OnlyKinds(ps, {"Msg"})
    OBVIOUS
  <2>3. s \in Seq(Nat) /\ (Once(ps) => Once(s)) /\ Range(s) = {p \in Range(ps) : heap[p].kind \in {"Msg"}}
    BY <2>2, OnlyKindsFacts
  <2>4. s = NoRcvrs(n) /\ Once(s)
    BY <1>3, <2>1, <2>2, <2>3 DEF NoRcvrs
  <2>5. Range(s) = {p \in Range(heap[n].many) : heap[p].kind = "Msg"}
    BY <2>1, <2>3
  <2> QED
    BY <2>3, <2>4, <2>5
<1>40. PICK g : g = WithMany(heap, n, s)
  OBVIOUS
<1>41. PICK taken \in SUBSET mine, roots \in SUBSET DOMAIN heap : taken = {} /\ roots = Old(n)
  BY <1>3, <1>5
<1> HIDE DEF Old
<1>42. \A p \in roots : p \in Range(heap[n].many) /\ heap[p].kind = "Role"
  BY <1>5, <1>41
<1>7. ManyFor(n, s, taken, roots, lost)
  <2>1. /\ \A p \in Range(s) : p \in Range(heap[n].many)
        /\ \A p \in Range(heap[n].many) : p \in Range(s) \/ p \in roots
    BY <1>4, <1>6, <1>41
  <2>2. roots \subseteq Pointers(heap[n])
    BY <1>3, <1>42
  <2>3. m \in Range(s) /\ \A p \in Range(s) : heap[p].kind = "Msg" <=> p = m
    BY <1>6, <1>32
  <2> QED
    BY <1>41, <2>1, <2>2, <2>3 DEF ManyFor
<1>8. s \in Seq(Nat) /\ Once(s) /\ g = WithMany(heap, n, s) /\ taken \in SUBSET mine
  BY <1>6, <1>40, <1>41
<1>9. EditedTo(n, g[n], taken, roots, lost) /\ OnlyAt(n, g) /\ Pointers(g[n]) = (Range(s) \cup {heap[n].one}) \ {0}
  <2>1. Safe(heap, mine, lost) /\ n \in Live
    BY <1>2
  <2>2. EditedTo(n, g[n], taken, roots, lost) /\ OnlyAt(n, g)
    BY <1>7, <1>8, <2>1, EditedMany
  <2>3. Pointers(g[n]) = (Range(s) \cup {heap[n].one}) \ {0}
    BY <1>7, <1>8, <2>1, EditedMany
  <2> QED
    BY <2>2, <2>3
<1>10. LetGoBy(g, roots, n)
  <2>1. \A r \in roots : r \in Pointers(heap[n]) /\ r \notin Range(s) /\ r # heap[n].one
    BY <1>3, <1>6, <1>42
  <2> QED
    BY <1>9, <2>1 DEF LetGoBy
<1>11. n \notin Deleted(roots)
  <2>1. heap[n].kind \notin LeafKind /\ \A r \in roots : heap[r].kind \in LeafKind
    BY <1>2, <1>42 DEF LeafKind
  <2>2. roots \in SUBSET DOMAIN heap
    BY <1>41
  <2> QED
    BY <1>2, <2>1, <2>2, NotDeleted
<1>12. Apart(n, {}) /\ taken \cap Pointers(g[n]) \subseteq {} /\ roots \in SUBSET DOMAIN heap
  BY <1>41, NothingApart
<1>13. DeleteFirst(roots, 0, g) /\ mine' = mine \ taken /\ lost' = lost /\ profile' = profile /\ ub = Defined
  <2>1. DeleteFirst(Old(n), 0, WithMany(heap, n, NoRcvrs(n))) /\ g = WithMany(heap, n, NoRcvrs(n))
    BY <1>1, <1>6, <1>40
  <2> QED
    BY <1>1, <1>41, <2>1
<1> QED
  BY <1>9, <1>10, <1>11, <1>12, <1>13, EditedDelete

LEMMA SetBindexprStep == ASSUME IInv, SetBindexpr, UNCHANGED <<kept, due>> PROVE IInv'
<1>1. PICK n \in Named({"For"}), e \in MineOf({"Expr"}) :
        /\ ub = Defined /\ DeleteFirst({heap[n].one} \ {0}, 0, WithOne(heap, n, e))
        /\ mine' = mine \ {e} /\ lost' = lost /\ profile' = profile
  BY DEF SetBindexpr, Running, WithOne
<1>2. Safe(heap, mine, lost) /\ n \in Live /\ n \in DOMAIN heap /\ heap[n].kind = "For"
  BY <1>1, LiveNamed
<1>21. e \in mine /\ e \in DOMAIN heap /\ e \in Nat /\ e # 0 /\ heap[e].kind = "Expr"
  BY <1>1, MineOfFacts
<1>22. HoldsOne("For") = {"Expr"}
  BY DEF HoldsOne
<1>3. heap[n].one # 0 => /\ heap[n].one \in DOMAIN heap /\ heap[heap[n].one].kind = "Expr"
                         /\ heap[n].one \in Pointers(heap[n]) /\ heap[n].one \notin Range(heap[n].many)
  BY <1>2, <1>22, ObjectFacts
<1>31. \A q \in Pointers(heap[n]) : q # e
  BY <1>2, <1>21, MineFacts
<1>40. PICK g : g = WithOne(heap, n, e)
  OBVIOUS
<1>4. PICK taken \in SUBSET mine, roots \in SUBSET DOMAIN heap : taken = {e} /\ roots = {heap[n].one} \ {0}
  BY <1>3, <1>21
<1>5. OneFor(n, e, taken, roots, lost)
  BY <1>2, <1>21, <1>22, <1>3, <1>4 DEF OneFor
<1>6. g = WithOne(heap, n, e) /\ e \in Nat /\ taken \in SUBSET mine
  BY <1>4, <1>40, <1>21
<1>7. EditedTo(n, g[n], taken, roots, lost) /\ OnlyAt(n, g) /\ Pointers(g[n]) = (Range(heap[n].many) \cup {e}) \ {0}
  <2>1. Safe(heap, mine, lost) /\ n \in Live
    BY <1>2
  <2>2. g = WithOne(heap, n, e) /\ e \in Nat /\ taken \in SUBSET mine
    BY <1>6
  <2>3. EditedTo(n, g[n], taken, roots, lost)
    BY <2>1, <2>2, <1>5, EditedOne
  <2>4. OnlyAt(n, g)
    BY <2>1, <2>2, <1>5, EditedOne
  <2>5. Pointers(g[n]) = (Range(heap[n].many) \cup {e}) \ {0}
    BY <2>1, <2>2, <1>5, EditedOne
  <2> QED
    BY <2>3, <2>4, <2>5
<1>8. LetGoBy(g, roots, n)
  <2>1. \A r \in roots : r = heap[n].one /\ r \in Pointers(heap[n]) /\ r \notin Range(heap[n].many) /\ r # e
    BY <1>3, <1>4, <1>31
  <2> QED
    BY <1>7, <2>1 DEF LetGoBy
<1>9. n \notin Deleted(roots)
  <2>1. heap[n].kind \notin LeafKind /\ \A r \in roots : heap[r].kind \in LeafKind
    BY <1>2, <1>3, <1>4 DEF LeafKind
  <2>2. roots \in SUBSET DOMAIN heap
    BY <1>4
  <2> QED
    BY <1>2, <2>1, <2>2, NotDeleted
<1>10. PICK R : Apart(n, R) /\ R = {o \in DOMAIN heap : heap[o].kind \in LeafKind}
  <2>1. heap[n].kind \notin LeafKind
    BY <1>2 DEF LeafKind
  <2> QED
    BY <1>2, <2>1, LeavesApart
<1>11. taken \cap Pointers(g[n]) \subseteq R /\ roots \in SUBSET DOMAIN heap
  BY <1>21, <1>4, <1>10 DEF LeafKind
<1>12. DeleteFirst(roots, 0, g) /\ mine' = mine \ taken /\ lost' = lost /\ profile' = profile /\ ub = Defined
  BY <1>1, <1>4, <1>40
<1> QED
  BY <1>7, <1>8, <1>9, <1>10, <1>11, <1>12, EditedDelete

LEMMA ReplaceCondFacts ==
  ASSUME IInv, NEW n \in Named({"Interaction"}), NEW c \in MineOf({"Role"}) \cup Spare(n), ReplaceCond(n, c)
  PROVE  /\ ub = Defined /\ profile' = profile /\ lost' = lost /\ mine' = mine \ {c}
         /\ c \in DOMAIN heap /\ heap[c].kind = "Role"
         /\ \/ /\ heap' = heap /\ mine' \subseteq mine /\ ub' # Defined
               /\ \E roots \in SUBSET DOMAIN heap : Deletable(roots) /\ \E arg : arg = 0 /\ ub' = Wrong(roots, arg)
            \/ /\ ub' = ub /\ Safe(heap', mine', lost')
               /\ n \in DOMAIN heap' /\ heap'[n].kind = "Interaction" /\ c \in Range(heap'[n].lent)
<1>1. /\ ub = Defined /\ DeleteFirst(Range(heap[n].lent), 0, WithLent(heap, n, <<c>>))
      /\ mine' = mine \ {c} /\ lost' = lost /\ profile' = profile
  BY DEF ReplaceCond, Running, WithLent, Lent
<1>2. Safe(heap, mine, lost) /\ n \in Live /\ n \in DOMAIN heap /\ heap[n].kind = "Interaction"
  BY <1>1, LiveNamed
<1>21. /\ c \in DOMAIN heap /\ c \in Nat /\ c # 0 /\ heap[c].kind = "Role" /\ ~Stray(heap, mine, c)
       /\ c \in mine \/ (FreeToLend(n, c) /\ c \notin mine)
       /\ c \notin Pointers(heap[n])
  <2>1. CASE c \in MineOf({"Role"})
    <3>1. c \in mine /\ c \in DOMAIN heap /\ c \in Nat /\ c # 0 /\ heap[c].kind = "Role" /\ ~Stray(heap, mine, c)
      BY <1>1, <2>1, MineOfFacts DEF Stray
    <3> QED
      BY <3>1, <1>2, MineFacts
  <2>2. CASE c \in Spare(n)
    <3>1. c \in kept /\ c \notin mine /\ c \in DOMAIN heap /\ heap[c].kind = "Role"
      BY <2>2 DEF IInv, Spare
    <3>11. FreeToLend(n, c)
      BY <2>2, <3>1 DEF FreeToLend, Spare, Lent
    <3>2. c \notin Pointers(heap[n])
      BY <3>1, <1>2 DEF Safe, Conditions, Unclaimed
    <3>3. c \in Nat /\ c # 0
      BY <3>1, <1>2, PointersInHeap DEF Safe
    <3> QED
      BY <3>1, <3>11, <3>2, <3>3 DEF Stray
  <2> QED
    BY <2>1, <2>2
<1>22. HoldsLent("Interaction") = {"Role"}
  BY DEF HoldsLent
<1>3. \A r \in Range(heap[n].lent) : r \in DOMAIN heap /\ heap[r].kind = "Role"
  BY <1>2, <1>22, ObjectFacts
<1>39. PICK s \in Seq(Nat) : s = <<c>> /\ Range(s) = {c}
  BY <1>21, OneIsSeq
<1>40. PICK g : g = WithLent(heap, n, s)
  OBVIOUS
<1>4. PICK taken \in SUBSET mine, roots \in SUBSET DOMAIN heap : taken = {c} \cap mine /\ roots = Range(heap[n].lent)
  BY <1>3, <1>21
<1>5. LentFor(n, s, taken, roots, lost)
  BY <1>2, <1>21, <1>22, <1>39, <1>4 DEF LentFor
<1>6. g = WithLent(heap, n, s) /\ s \in Seq(Nat) /\ taken \in SUBSET mine
  BY <1>4, <1>40, <1>39
<1>7. EditedTo(n, g[n], taken, roots, lost) /\ OnlyAt(n, g) /\ Pointers(g[n]) = Pointers(heap[n])
  BY <1>2, <1>5, <1>6, EditedLent
<1>8. LetGoBy(g, roots, n)
  BY <1>2, <1>4 DEF LetGoBy
<1>9. n \notin Deleted(roots)
  <2>1. heap[n].kind \notin LeafKind /\ \A r \in roots : heap[r].kind \in LeafKind
    BY <1>2, <1>3, <1>4 DEF LeafKind
  <2>2. roots \in SUBSET DOMAIN heap
    BY <1>4
  <2> QED
    BY <1>2, <2>1, <2>2, NotDeleted
<1>11. Apart(n, {}) /\ taken \cap Pointers(g[n]) \subseteq {} /\ roots \in SUBSET DOMAIN heap
  <2>1. c \notin Pointers(heap[n])
    BY <1>2, <1>21, MineFacts
  <2> QED
    BY <1>4, <1>7, <2>1, NothingApart
<1>12. DeleteFirst(roots, 0, g) /\ mine' = mine \ taken /\ lost' = lost
  BY <1>1, <1>4, <1>39, <1>40
<1>13. /\ Deletable(roots)
       /\ \/ /\ heap' = heap /\ mine' \subseteq mine /\ ub' # Defined
             /\ \E arg : arg = 0 /\ ub' = Wrong(roots, arg)
          \/ ub' = ub /\ heap' = Freed(g, Deleted(roots)) /\ Safe(heap', mine', lost')
  BY <1>1, <1>2, <1>7, <1>8, <1>9, <1>11, <1>12, EditedRemoval
<1>14. heap' = Freed(g, Deleted(roots)) =>
         n \in DOMAIN heap' /\ heap'[n].kind = "Interaction" /\ c \in Range(heap'[n].lent)
  <2>0. heap \in Seq(Object)
    BY <1>2 DEF Safe, Formed
  <2>1. DOMAIN g = DOMAIN heap /\ g[n].kind = heap[n].kind /\ g[n].lent = s
    BY <1>2, <1>6, <2>0, EditLent
  <2> QED
    BY <1>2, <1>9, <1>39, <2>1 DEF Freed
<1> QED
  BY <1>1, <1>13, <1>14, <1>4, <1>21

LEMMA SetCondStep == ASSUME IInv, UNCHANGED <<kept, due>>, NEW n \in Named({"Interaction"}), SetCond(n) PROVE IInv'
<1>1. PICK c \in MineOf({"Role"}) : ReplaceCond(n, c)
  BY DEF SetCond
<1>2. /\ ub = Defined /\ profile' = profile /\ lost' = lost
      /\ \/ /\ heap' = heap /\ mine' \subseteq mine /\ ub' # Defined
            /\ \E roots \in SUBSET DOMAIN heap : Deletable(roots) /\ \E arg : arg = 0 /\ ub' = Wrong(roots, arg)
         \/ ub' = ub /\ Safe(heap', mine', lost')
  BY <1>1, ReplaceCondFacts
<1>3. CASE /\ heap' = heap /\ mine' \subseteq mine /\ ub' # Defined
           /\ \E roots \in SUBSET DOMAIN heap : Deletable(roots) /\ \E arg : arg = 0 /\ ub' = Wrong(roots, arg)
  BY <1>2, <1>3, WrongNext
<1>4. CASE ub' = ub /\ Safe(heap', mine', lost')
  BY <1>2, <1>4, SafeNext
<1> QED
  BY <1>2, <1>3, <1>4

\* The program goes on to keep a condition that is set now: what was safe stays so.
LEMMA SafeKept ==
  ASSUME Safe(heap', mine', lost'), NEW c, kept' = kept \cup {c}, NEW n \in DOMAIN heap',
         heap'[n].kind = "Interaction", c \in Range(heap'[n].lent), heap'[c].kind = "Role"
  PROVE  Safe(heap, mine, lost)'
<1> DEFINE r  == Relic(heap', mine', lost')
           r2 == Relic(heap, mine, lost)'
<1>1. r <=> r2
  BY DEF Relic, Stray
<1>2. Conditions(heap', mine') /\ Formed(heap')
  BY DEF Safe
<1>3. c \in DOMAIN heap' /\ Unclaimed(heap', mine', c)
  BY <1>2, PointersInHeap DEF Conditions, Unclaimed
<1>4. Conditions(heap, mine)'
  BY <1>2, <1>3 DEF Conditions, Unclaimed
<1>5. /\ Formed(heap') /\ Separate(heap', r) /\ Held(heap', mine') /\ Pointed(heap', r)
      /\ Accounted(heap', mine', lost') /\ lost' \subseteq DOMAIN heap'
      /\ Acyclic(heap', NodeKind) /\ Acyclic(heap', {"Expr"})
  BY DEF Safe
<1> HIDE DEF r, r2
<1>6. Separate(heap', r2) /\ Pointed(heap', r2)
  BY <1>1, <1>5
<1> QED
  BY <1>4, <1>5, <1>6 DEF Safe, r2

\* set_cond of a condition that the program keeps.
LEMMA LendCondStep == ASSUME IInv, NEW n \in Named({"Interaction"}), LendCond(n) PROVE IInv'
<1>1. PICK c \in MineOf({"Role"}) \cup Spare(n) :
        ReplaceCond(n, c) /\ kept' = kept \cup {c} /\ due' = due \cup {c}
  BY DEF LendCond
<1>2. /\ ub = Defined /\ profile' = profile /\ lost' = lost /\ mine' = mine \ {c}
      /\ c \in DOMAIN heap /\ heap[c].kind = "Role"
      /\ \/ /\ heap' = heap /\ mine' \subseteq mine /\ ub' # Defined
            /\ \E roots \in SUBSET DOMAIN heap : Deletable(roots) /\ \E arg : arg = 0 /\ ub' = Wrong(roots, arg)
         \/ /\ ub' = ub /\ Safe(heap', mine', lost')
            /\ n \in DOMAIN heap' /\ heap'[n].kind = "Interaction" /\ c \in Range(heap'[n].lent)
  BY <1>1, ReplaceCondFacts
<1>3. due \subseteq kept /\ profile \in Profiles
  BY DEF IInv
<1>4. CASE /\ heap' = heap /\ mine' \subseteq mine /\ ub' # Defined
           /\ \E roots \in SUBSET DOMAIN heap : Deletable(roots) /\ \E arg : arg = 0 /\ ub' = Wrong(roots, arg)
  <2>1. /\ kept \subseteq kept' /\ due' \subseteq kept'
        /\ \A d \in kept' \ kept : d \in DOMAIN heap /\ heap[d].kind = "Role" /\ d \notin mine'
    BY <1>1, <1>2, <1>3
  <2> QED
    BY <1>2, <1>4, <2>1, WrongNextKept
<1>5. CASE /\ ub' = ub /\ Safe(heap', mine', lost')
           /\ n \in DOMAIN heap' /\ heap'[n].kind = "Interaction" /\ c \in Range(heap'[n].lent)
  <2>1. Formed(heap') /\ Held(heap', mine') /\ lost' \subseteq DOMAIN heap'
    BY <1>5 DEF Safe
  <2>2. heap'[c].kind = "Role"
    <3>1. Fit(heap', heap'[n])
      BY <2>1, <1>5 DEF Formed
    <3> QED
      BY <3>1, <1>5 DEF Fit, Holds, HoldsLent
  <2>3. Safe(heap, mine, lost)'
    BY <1>1, <1>5, <2>2, SafeKept
  <2>4. Conditions(heap, mine)'
    BY <2>3 DEF Safe
  <2>5. due' \subseteq kept' /\ kept' \subseteq DOMAIN heap' \ mine' /\ \A d \in kept' : heap'[d].kind = "Role"
    BY <1>1, <1>3, <2>4 DEF Conditions, Unclaimed
  <2>6. Defined.what = "none" /\ Defined.to = {} /\ ub' = Defined
    BY <1>2, <1>5 DEF Defined
  <2>7. UndefinedConfined'
    BY <2>6 DEF UndefinedConfined
  <2>8. profile' \in Profiles /\ mine' \subseteq DOMAIN heap'
    BY <1>2, <1>3, <2>1 DEF Held
  <2> QED
    BY <2>1, <2>3, <2>5, <2>6, <2>7, <2>8 DEF IInv
<1> QED
  BY <1>2, <1>4, <1>5

-----------------------------------------------------------------------------
\* The exception of a loop: its expressions are replaced, its body is not.
LEMMA SetExceptStep == ASSUME IInv, SetExcept, UNCHANGED <<kept, due>> PROVE IInv'
<1> DEFINE Old(n) == Range(heap[n].many) \ Range(Children(n))
<1>1. PICK n \in Named({"For"}), e \in MineOf({"Expr"}) :
        /\ ub = Defined /\ DeleteFirst(Old(n), 0, WithMany(heap, n, Children(n) \o <<e>>))
        /\ mine' = mine \ {e} /\ lost' = lost /\ profile' = profile
  BY DEF SetExcept, Running, WithMany
<1>2. Safe(heap, mine, lost) /\ n \in Live /\ n \in DOMAIN heap /\ heap[n].kind = "For"
  BY <1>1, LiveNamed
<1>21. e \in mine /\ e \in DOMAIN heap /\ e \in Nat /\ e # 0 /\ heap[e].kind = "Expr"
  BY <1>1, MineOfFacts
<1>22. HoldsMany("For") = NodeKind \cup {"Expr"} /\ "Expr" \notin NodeKind
  BY DEF HoldsMany, NodeKind, OrdinaryKind, ParamKind
<1>3. /\ heap[n].many \in Seq(Nat) /\ Once(heap[n].many) /\ heap[n].one \notin Range(heap[n].many)
      /\ Pointers(heap[n]) = (Range(heap[n].many) \cup {heap[n].one}) \ {0}
      /\ Range(heap[n].many) \subseteq DOMAIN heap /\ 0 \notin DOMAIN heap
      /\ \A p \in Range(heap[n].many) : heap[p].kind \in NodeKind \cup {"Expr"}
  BY <1>2, <1>22, ObjectFacts
<1>31. e \notin Range(heap[n].many)
  BY <1>2, <1>21, MineFacts
<1>6. PICK b \in Seq(Nat) : b = Children(n) /\ Once(b) /\ Range(b) = {p \in Range(heap[n].many) : heap[p].kind \in NodeKind}
  <2>1. PICK ps \in Seq(Nat) : ps = heap[n].many
    BY <1>3
  <2>2. PICK s : s = OnlyKinds(ps, NodeKind)
    OBVIOUS
  <2>3. s \in Seq(Nat) /\ (Once(ps) => Once(s)) /\ Range(s) = {p \in Range(ps) : heap[p].kind \in NodeKind}
    BY <2>2, OnlyKindsFacts
  <2>4. s = Children(n) /\ Once(s)
    BY <1>3, <2>1, <2>2, <2>3 DEF Children
  <2>5. Range(s) = {p \in Range(heap[n].many) : heap[p].kind \in NodeKind}
    BY <2>1, <2>3
  <2> QED
    BY <2>3, <2>4, <2>5
<1>7. PICK s \in Seq(Nat) : s = Children(n) \o <<e>> /\ Once(s) /\ Range(s) = Range(b) \cup {e}
  <2>1. PICK a \in Seq(Nat) : a = <<e>> /\ Range(a) = {e} /\ Once(a)
    BY <1>21, OneIsSeq
  <2>2. PICK s : s = b \o a
    OBVIOUS
  <2>3. s \in Seq(Nat) /\ Range(s) = Range(b) \cup Range(a) /\ (Once(b) /\ Once(a) /\ Range(b) \cap Range(a) = {} => Once(s))
    BY <2>2, CatRange
  <2>4. Range(b) \cap Range(a) = {}
    BY <1>31, <1>6, <2>1
  <2> QED
    BY <1>6, <2>1, <2>2, <2>3, <2>4
<1>40. PICK g : g = WithMany(heap, n, s)
  OBVIOUS
<1>41. PICK taken \in SUBSET mine, roots \in SUBSET DOMAIN heap : taken = {e} /\ roots = Old(n)
  BY <1>3, <1>21
<1>42. \A p \in roots : p \in Range(heap[n].many) /\ heap[p].kind = "Expr"
  BY <1>3, <1>6, <1>41
<1>43. \A p \in Range(heap[n].many) : p \in roots \/ p \in Range(b)
  BY <1>6, <1>41
<1> HIDE DEF Old
<1>8. ManyFor(n, s, taken, roots, lost)
  <2>1. /\ \A p \in Range(s) : p \in Range(heap[n].many) \/ p \in taken
        /\ \A p \in Range(heap[n].many) : p \in Range(s) \/ p \in roots
    BY <1>6, <1>7, <1>41, <1>43
  <2>2. \A p \in taken : p \in Range(s) /\ heap[p].kind \in HoldsMany(heap[n].kind)
    BY <1>2, <1>7, <1>21, <1>22, <1>41
  <2> QED
    BY <1>2, <2>1, <2>2 DEF ManyFor
<1>9. s \in Seq(Nat) /\ Once(s) /\ g = WithMany(heap, n, s) /\ taken \in SUBSET mine
  BY <1>7, <1>40, <1>41
<1>10. EditedTo(n, g[n], taken, roots, lost) /\ OnlyAt(n, g) /\ Pointers(g[n]) = (Range(s) \cup {heap[n].one}) \ {0}
  <2>1. Safe(heap, mine, lost) /\ n \in Live
    BY <1>2
  <2>2. EditedTo(n, g[n], taken, roots, lost) /\ OnlyAt(n, g)
    BY <1>8, <1>9, <2>1, EditedMany
  <2>3. Pointers(g[n]) = (Range(s) \cup {heap[n].one}) \ {0}
    BY <1>8, <1>9, <2>1, EditedMany
  <2> QED
    BY <2>2, <2>3
<1>11. LetGoBy(g, roots, n)
  <2>1. \A r \in roots : r \in Pointers(heap[n]) /\ r \notin Range(s) /\ r # heap[n].one
    BY <1>3, <1>6, <1>7, <1>22, <1>31, <1>42
  <2> QED
    BY <1>10, <2>1 DEF LetGoBy
<1>12. n \notin Deleted(roots)
  <2>1. heap[n].kind \notin LeafKind /\ \A r \in roots : heap[r].kind \in LeafKind
    BY <1>2, <1>42 DEF LeafKind
  <2>2. roots \in SUBSET DOMAIN heap
    BY <1>41
  <2> QED
    BY <1>2, <2>1, <2>2, NotDeleted
<1>13. PICK R : Apart(n, R) /\ R = {o \in DOMAIN heap : heap[o].kind \in LeafKind}
  <2>1. heap[n].kind \notin LeafKind
    BY <1>2 DEF LeafKind
  <2> QED
    BY <1>2, <2>1, LeavesApart
<1>14. taken \cap Pointers(g[n]) \subseteq R /\ roots \in SUBSET DOMAIN heap
  BY <1>21, <1>41, <1>13 DEF LeafKind
<1>15. DeleteFirst(roots, 0, g) /\ mine' = mine \ taken /\ lost' = lost /\ profile' = profile /\ ub = Defined
  <2>1. DeleteFirst(Old(n), 0, WithMany(heap, n, Children(n) \o <<e>>)) /\ g = WithMany(heap, n, Children(n) \o <<e>>)
    BY <1>1, <1>7, <1>40
  <2> QED
    BY <1>1, <1>41, <2>1
<1> QED
  BY <1>10, <1>11, <1>12, <1>13, <1>14, <1>15, EditedDelete

\* An object that is not within roots is apart from a set that has them.
LEMMA WithinApart ==
  ASSUME Safe(heap, mine, lost), NEW o \in DOMAIN heap, NEW roots \in SUBSET DOMAIN heap, ~Within(o, roots)
  PROVE  \E R \in SUBSET DOMAIN heap : Apart(o, R) /\ roots \subseteq R
BY WithinFacts DEF Apart

\* The end of a range: the new one does not have the range in it.
LEMMA SetEndStep == ASSUME IInv, SetEnd, UNCHANGED <<kept, due>> PROVE IInv'
<1>1. PICK n \in Named({"Expr"}), x \in MineOf({"Expr"}) : \E i \in DOMAIN heap[n].many :
        /\ ub = Defined /\ ~Within(n, {x})
        /\ DeleteFirst({heap[n].many[i]}, 0, [heap EXCEPT ![n].many[i] = x])
        /\ mine' = mine \ {x} /\ lost' = lost /\ profile' = profile
  BY DEF SetEnd, Running
<1>10. ub = Defined
  BY <1>1
<1>2. Safe(heap, mine, lost) /\ n \in Live /\ n \in DOMAIN heap /\ heap[n].kind = "Expr"
  BY <1>10, LiveNamed
<1>21. x \in mine /\ x \in DOMAIN heap /\ x \in Nat /\ x # 0 /\ heap[x].kind = "Expr"
  BY <1>10, MineOfFacts
<1>3. PICK i \in DOMAIN heap[n].many :
        /\ ~Within(n, {x})
        /\ DeleteFirst({heap[n].many[i]}, 0, [heap EXCEPT ![n].many[i] = x])
        /\ mine' = mine \ {x} /\ lost' = lost /\ profile' = profile
  BY <1>1
<1>22. HoldsMany("Expr") = {"Expr"}
  BY DEF HoldsMany
<1>4. /\ heap[n].many \in Seq(Nat) /\ Once(heap[n].many) /\ heap[n].one \notin Range(heap[n].many)
      /\ Pointers(heap[n]) = (Range(heap[n].many) \cup {heap[n].one}) \ {0}
      /\ Range(heap[n].many) \subseteq DOMAIN heap /\ 0 \notin DOMAIN heap
      /\ \A p \in Range(heap[n].many) : heap[p].kind = "Expr"
  BY <1>2, <1>22, ObjectFacts
<1>41. x \notin Range(heap[n].many)
  BY <1>2, <1>21, MineFacts
<1> DEFINE old == heap[n].many[i]
           s0 == [heap[n].many EXCEPT ![i] = x]
<1>5. old \in Range(heap[n].many)
  BY DEF Range
<1>6. s0 \in Seq(Nat) /\ Once(s0) /\ Range(s0) = (Range(heap[n].many) \ {old}) \cup {x}
  <2>1. PICK a \in Seq(Nat) : a = heap[n].many
    BY <1>4
  <2>2. s0 = [a EXCEPT ![i] = x]
    BY <2>1
  <2> HIDE DEF s0
  <2>3. s0 \in Seq(Nat) /\ Once(s0) /\ Range(s0) = (Range(a) \ {a[i]}) \cup {x}
    BY <1>4, <1>21, <1>41, <2>1, <2>2, SeqSet
  <2> QED
    BY <2>1, <2>3
<1>7. /\ DeleteFirst({old}, 0, WithMany(heap, n, s0)) /\ ~Within(n, {x})
      /\ mine' = mine \ {x} /\ lost' = lost /\ profile' = profile
  BY <1>3 DEF WithMany
<1> HIDE DEF old, s0
<1>8. PICK s \in Seq(Nat) : s = s0
  BY <1>6
<1>40. PICK g : g = WithMany(heap, n, s)
  OBVIOUS
<1>42. PICK taken \in SUBSET mine, roots \in SUBSET DOMAIN heap : taken = {x} /\ roots = {old}
  BY <1>4, <1>5, <1>21
<1>9. ManyFor(n, s, taken, roots, lost)
  BY <1>2, <1>21, <1>22, <1>5, <1>6, <1>8, <1>42 DEF ManyFor
<1>11. s \in Seq(Nat) /\ Once(s) /\ g = WithMany(heap, n, s) /\ taken \in SUBSET mine
  BY <1>6, <1>8, <1>40, <1>42
<1>12. EditedTo(n, g[n], taken, roots, lost) /\ OnlyAt(n, g) /\ Pointers(g[n]) = (Range(s) \cup {heap[n].one}) \ {0}
  <2>1. Safe(heap, mine, lost) /\ n \in Live
    BY <1>2
  <2>2. EditedTo(n, g[n], taken, roots, lost) /\ OnlyAt(n, g)
    BY <1>9, <1>11, <2>1, EditedMany
  <2>3. Pointers(g[n]) = (Range(s) \cup {heap[n].one}) \ {0}
    BY <1>9, <1>11, <2>1, EditedMany
  <2> QED
    BY <2>2, <2>3
<1>13. LetGoBy(g, roots, n)
  <2>1. old \in Pointers(heap[n]) /\ old \notin Range(s) /\ old # heap[n].one
    BY <1>4, <1>5, <1>6, <1>8, <1>41
  <2> QED
    BY <1>12, <1>42, <2>1 DEF LetGoBy
<1>14. n \notin Deleted(roots)
  <2> SUFFICES ASSUME n \in Deleted(roots) PROVE FALSE
    OBVIOUS
  <2> DEFINE S == Deleted(roots)
  <2>0. roots \in SUBSET DOMAIN heap
    BY <1>42
  <2>1. /\ S \in SUBSET DOMAIN heap /\ roots \subseteq S
        /\ \A p \in S \ roots : \E d \in S : p \in Pointers(heap[d])
        /\ \A T \in SUBSET DOMAIN heap : roots \subseteq T /\ (\A q \in T : Pointers(heap[q]) \subseteq T) => S \subseteq T
    BY <1>2, <2>0, DeletedFacts
  <2>2. PICK T \in SUBSET DOMAIN heap : T = {o \in DOMAIN heap : heap[o].kind \in {"Expr"}}
    OBVIOUS
  <2>3. \A q \in T : Pointers(heap[q]) \subseteq T
    BY <1>2, <2>2, LeavesClosed
  <2>4. roots \subseteq T
    BY <1>4, <1>5, <1>42, <2>2
  <2>5. S \subseteq T
    BY <2>1, <2>3, <2>4
  <2>6. n \in S /\ old \in Pointers(heap[n])
    BY <1>4, <1>5
  <2> HIDE DEF S
  <2>7. ASSUME NEW p \in S PROVE \E d \in S : p \in Pointers(heap[d])
    <3>1. CASE p = old
      BY <3>1, <2>6
    <3>2. CASE p # old
      <4>1. p \in S \ roots
        BY <3>2, <1>42
      <4> QED
        BY <4>1, <2>1
    <3> QED
      BY <3>1, <3>2
  <2>8. Acyclic(heap, {"Expr"})
    BY <1>2 DEF Safe
  <2>9. S \in SUBSET {o \in DOMAIN heap : heap[o].kind \in {"Expr"}} /\ S # {}
    BY <2>2, <2>5, <2>6
  <2> QED
    BY <2>7, <2>8, <2>9 DEF Acyclic
<1>15. PICK R \in SUBSET DOMAIN heap : Apart(n, R) /\ {x} \subseteq R
  <2>1. PICK rs \in SUBSET DOMAIN heap : rs = {x}
    BY <1>21
  <2>2. ~Within(n, rs)
    BY <1>7, <2>1
  <2>3. \E R \in SUBSET DOMAIN heap : Apart(n, R) /\ rs \subseteq R
    <3>1. Safe(heap, mine, lost) /\ n \in DOMAIN heap
      BY <1>2
    <3> QED
      BY <3>1, <2>2, WithinApart
  <2> QED
    BY <2>1, <2>3
<1>16. taken \cap Pointers(g[n]) \subseteq R /\ roots \in SUBSET DOMAIN heap /\ Apart(n, R)
  BY <1>42, <1>15
<1>17. DeleteFirst(roots, 0, g) /\ mine' = mine \ taken /\ lost' = lost /\ profile' = profile /\ ub = Defined
  BY <1>10, <1>7, <1>42, <1>8, <1>40
<1> QED
  BY <1>12, <1>13, <1>14, <1>16, <1>17, EditedDelete

\* delete of what is the program's own, or of a condition that it keeps.
LEMMA DeletedFirst ==
  ASSUME Safe(heap, mine, lost), ub = Defined, NEW o \in mine \cup kept, DeleteFirst({o}, 0, heap),
         mine' = mine \ {o}, lost' = lost
  PROVE  \/ /\ heap' = heap /\ mine' \subseteq mine /\ ub' # Defined
            /\ \E roots \in SUBSET DOMAIN heap : Deletable(roots) /\ \E arg : arg = 0 /\ ub' = Wrong(roots, arg)
         \/ ub' = ub /\ Safe(heap', mine', lost')
<1>3. /\ Formed(heap) /\ Held(heap, mine) /\ lost \subseteq DOMAIN heap /\ heap \in Seq(Object)
      /\ Acyclic(heap, NodeKind) /\ Acyclic(heap, {"Expr"})
  BY DEF Safe, Formed
<1>4. PICK roots \in SUBSET DOMAIN heap : roots = {o}
  BY <1>3 DEF Held, Safe, Conditions
<1> DEFINE D == Deleted(roots)
           w == Wrong(roots, 0)
           f == Freed(heap, D)
<1>5. ub' = w /\ heap' = IF w = Defined THEN f ELSE heap
  BY <1>4 DEF DeleteFirst
<1>6. \A h2 : LetGo(h2, roots, {})
  BY <1>4 DEF LetGo
<1>7. Deletable(roots)
  <2>1. {} \in SUBSET DOMAIN heap /\ {} \cap Deleted(roots) = {}
    OBVIOUS
  <2> QED
    BY <1>6, <2>1, LetGoDeletable
<1>8. CASE w # Defined
  <2>1. heap' = heap /\ ub' # Defined /\ mine' \subseteq mine
    BY <1>5, <1>8
  <2>2. PICK arg : arg = 0
    OBVIOUS
  <2>3. ub' = Wrong(roots, arg)
    BY <1>5, <2>2
  <2> QED
    BY <1>7, <2>1, <2>2, <2>3
<1>9. CASE w = Defined
  <2>1. heap' = f /\ ub' = ub
    BY <1>5, <1>9
  <2>2. \A d \in D : heap[d].live
    <3>1. PICK arg : arg = 0
      OBVIOUS
    <3>2. Wrong(roots, arg) = Defined
      BY <1>9, <3>1
    <3> QED
      BY <1>7, <3>1, <3>2, WrongFacts
  <2>3. D = Deleted(roots) /\ f = Freed(heap, D)
    OBVIOUS
  <2> HIDE DEF D, f
  <2>4. /\ f \in Seq(Object) /\ DOMAIN f = DOMAIN heap
        /\ \A q \in DOMAIN heap \ D : f[q] = heap[q]
        /\ \A q \in DOMAIN heap \cap D : Pointers(f[q]) = {}
        /\ \A q \in DOMAIN heap : f[q].kind = heap[q].kind
    <3>1. Formed(heap)
      BY <1>3
    <3>2. /\ f \in Seq(Object) /\ DOMAIN f = DOMAIN heap
          /\ \A q \in DOMAIN heap \ D : f[q] = heap[q]
      BY <2>3, <3>1, FreedFacts
    <3>3. \A q \in DOMAIN heap \cap D : Pointers(f[q]) = {}
      BY <2>3, <3>1, FreedFacts
    <3>4. \A q \in DOMAIN heap : f[q].kind = heap[q].kind
      BY <2>3, <3>1, FreedFacts
    <3> QED
      BY <3>2, <3>3, <3>4
  <2>5. SameKinds(heap, f)
    BY <2>4 DEF SameKinds
  <2>6. ASSUME NEW kinds, Acyclic(heap, kinds) PROVE Acyclic(f, kinds)
    <3>1. PICK host, R : host = 0 /\ R = {}
      OBVIOUS
    <3>2. host \notin R /\ \A x \in R : Pointers(heap[x]) \subseteq R
      BY <3>1
    <3>3. \A q \in DOMAIN heap : \A p \in Pointers(f[q]) : p \in Pointers(heap[q]) \/ (q = host /\ p \in R)
      BY <2>4
    <3> QED
      BY <2>4, <2>5, <2>6, <3>2, <3>3, AcyclicTaken
  <2>7. Acyclic(f, NodeKind) /\ Acyclic(f, {"Expr"})
    BY <1>3, <2>6
  <2>8. PICK H \in SUBSET DOMAIN heap : H = {}
    OBVIOUS
  <2>9. NewIn(f, H) = {}
    BY <2>4, <2>8 DEF NewIn
  <2>10. PICK mn2 : mn2 = mine \ {o}
    OBVIOUS
  <2>11. NewEdges(f, mn2, lost, roots, H) /\ NewLending(f, mn2, roots, H)
    BY <2>9 DEF NewEdges, NewLending
  <2>12. NewKept(f, mn2, lost, roots, H)
    <3>1. \A p \in mine : p \in roots \/ Found(f, mn2, lost, p)
      BY <1>4, <2>10 DEF Found
    <3> QED
      BY <2>4, <2>8, <3>1 DEF NewKept
  <2>13. LetGo(f, roots, H)
    BY <1>6, <2>8
  <2>14. /\ \A p \in mn2 : p \in mine \ roots \/ p \in DOMAIN f \ DOMAIN heap
         /\ H \cap D = {} /\ \A n \in H : heap[n].live /\ ~Stray(heap, mine, n)
         /\ DOMAIN heap \subseteq DOMAIN f /\ lost \subseteq lost /\ lost \subseteq DOMAIN f
         /\ \A q \in DOMAIN heap \ H : f[q] = Freed(heap, D)[q]
         /\ \A q \in H : f[q].kind = heap[q].kind /\ f[q].live
         /\ \A q \in DOMAIN f \ DOMAIN heap : f[q].live
         /\ \A q \in NewIn(f, H) : Fit(f, f[q])
    BY <1>3, <1>4, <2>3, <2>4, <2>8, <2>9, <2>10
  <2>15. Safe(f, mn2, lost)
    BY <2>2, <2>3, <2>4, <2>7, <2>11, <2>12, <2>13, <2>14, EditStep
  <2>16. Safe(heap', mine', lost')
    BY <2>1, <2>10, <2>15
  <2> QED
    BY <2>1, <2>16
<1> QED
  BY <1>8, <1>9

LEMMA DeleteStep == ASSUME IInv, Delete, UNCHANGED <<kept, due>> PROVE IInv'
<1>1. PICK o \in mine : ub = Defined /\ DeleteFirst({o}, 0, heap) /\ mine' = mine \ {o} /\ lost' = lost /\ profile' = profile
  BY DEF Delete, Running
<1>2. Safe(heap, mine, lost)
  BY <1>1 DEF IInv
<1>3. CASE /\ heap' = heap /\ mine' \subseteq mine /\ ub' # Defined
           /\ \E roots \in SUBSET DOMAIN heap : Deletable(roots) /\ \E arg : arg = 0 /\ ub' = Wrong(roots, arg)
  BY <1>1, <1>3, WrongNext
<1>4. CASE ub' = ub /\ Safe(heap', mine', lost')
  BY <1>1, <1>4, SafeNext
<1> QED
  BY <1>1, <1>2, <1>3, <1>4, DeletedFirst

LEMMA DeleteCondStep == ASSUME IInv, DeleteCond PROVE IInv'
<1>1. PICK c \in due : /\ ub = Defined /\ DeleteFirst({c}, 0, heap) /\ due' = due \ {c}
                       /\ mine' = mine /\ lost' = lost /\ profile' = profile /\ kept' = kept
  BY DEF DeleteCond, Running
<1>2. Safe(heap, mine, lost)
  BY <1>1 DEF IInv
<1>3. due \subseteq kept /\ c \in kept /\ c \notin mine
  BY DEF IInv
<1>4. mine' = mine \ {c} /\ due' \subseteq kept /\ kept' \ kept = {}
  BY <1>1, <1>3
<1>5. CASE /\ heap' = heap /\ mine' \subseteq mine /\ ub' # Defined
           /\ \E roots \in SUBSET DOMAIN heap : Deletable(roots) /\ \E arg : arg = 0 /\ ub' = Wrong(roots, arg)
  BY <1>1, <1>4, <1>5, WrongNextKept
<1>6. CASE ub' = ub /\ Safe(heap', mine', lost')
  BY <1>1, <1>4, <1>6, SafeNextKept
<1> QED
  BY <1>1, <1>2, <1>3, <1>4, <1>5, <1>6, DeletedFirst
-----------------------------------------------------------------------------
\* A call that makes one object: MakeStep and SafeNext.
LEMMA MadeNext ==
  ASSUME IInv, UNCHANGED <<kept, due>>, NEW object, NEW taken, Make(object, taken), taken \in SUBSET mine, object \in Object, object.live,
         Pointers(object) \subseteq taken,
         \A p \in taken : p \in Pointers(object) \/ (object.kind = "AllReduce" /\ p \in Range(object.lent)),
         Fit(heap, object),
         object.kind = "Interaction" => object.lent = << >>,
         \A c \in Range(object.lent) : ~Stray(heap, mine, c)
  PROVE  IInv'
<1>2. /\ ub = Defined /\ heap' = Append(heap, object) /\ mine' = (mine \ taken) \cup {Fresh}
      /\ profile' = profile /\ lost' = lost /\ ub' = ub
  BY DEF Make, Room, Running, Keep
<1>3. Safe(heap, mine, lost)
  BY <1>2 DEF IInv
<1>6. Safe(Append(heap, object), (mine \ taken) \cup {Fresh}, lost)
  BY <1>3, MakeStep
<1> QED
  BY <1>2, <1>6, SafeNext

\* An object with one pointer.
LEMMA MadeWithOne ==
  ASSUME IInv, UNCHANGED <<kept, due>>, NEW kind \in AnyKind \ {"Interaction"}, NEW r \in mine, heap[r].kind \in HoldsOne(kind),
         NEW taken, taken = {r}, NEW object, object = New(kind, r, << >>), Make(object, taken)
  PROVE  IInv'
<1>1. ub = Defined
  BY DEF Make, Room, Running
<1>2. Safe(heap, mine, lost)
  BY <1>1 DEF IInv
<1>3. r \in DOMAIN heap /\ r # 0
  BY <1>2, MineFacts
<1>31. r \in Nat
  BY <1>2, <1>3, ObjectFacts
<1>4. /\ object \in Object /\ object.kind = kind /\ object.live /\ object.one = r /\ object.many = << >>
      /\ object.lent = << >> /\ Range(object.lent) = {} /\ Range(object.many) = {} /\ Pointers(object) = {r} \ {0}
  <2>1. kind \in AnyKind
    OBVIOUS
  <2>2. IsEmpty(object, kind, r)
    BY <1>31, <2>1, NewEmpty
  <2> QED
    BY <2>2 DEF IsEmpty
<1>5. Fit(heap, object)
  <2>1. DOMAIN object.many = {}
    BY <1>4, RangeNone
  <2> QED
    BY <1>3, <1>4, <2>1 DEF Fit, Holds
<1>6. taken \in SUBSET mine /\ Pointers(object) = taken
  BY <1>3, <1>4
<1> QED
  BY <1>4, <1>5, <1>6, MadeNext

\* The calls that make an object and give it others.
LEMMA MakeForStep == ASSUME IInv, MakeFor, UNCHANGED <<kept, due>> PROVE IInv'
<1>1. PICK r \in MineOf({"Expr"}) : Make(New("For", r, << >>), {r})
  BY DEF MakeFor
<1>2. r \in mine /\ heap[r].kind = "Expr"
  BY DEF MineOf
<1>3. "For" \in AnyKind \ {"Interaction"} /\ heap[r].kind \in HoldsOne("For")
  BY <1>2 DEF HoldsOne, AnyKind, NodeKind, ParamKind
<1> QED
  BY <1>1, <1>2, <1>3, MadeWithOne

LEMMA MakeIfStep == ASSUME IInv, MakeIf, UNCHANGED <<kept, due>> PROVE IInv'
<1>1. PICK r \in MineOf({"Role"}) : Make(New("If", r, << >>), {r})
  BY DEF MakeIf
<1>2. r \in mine /\ heap[r].kind = "Role"
  BY DEF MineOf
<1>3. "If" \in AnyKind \ {"Interaction"} /\ heap[r].kind \in HoldsOne("If")
  BY <1>2 DEF HoldsOne, AnyKind, NodeKind, ParamKind
<1> QED
  BY <1>1, <1>2, <1>3, MadeWithOne

LEMMA MakeExprStep == ASSUME IInv, MakeExpr, UNCHANGED <<kept, due>> PROVE IInv'
<1>1. PICK l \in MineOf({"Expr"}), r \in MineOf({"Expr"}) : l # r /\ Make(New("Expr", 0, <<l, r>>), {l, r})
  BY DEF MakeExpr
<1>2. ub = Defined
  BY <1>1 DEF Make, Room, Running
<1>3. /\ l \in mine /\ l \in DOMAIN heap /\ l \in Nat /\ l # 0 /\ heap[l].kind = "Expr"
      /\ r \in mine /\ r \in DOMAIN heap /\ r \in Nat /\ r # 0 /\ heap[r].kind = "Expr"
  BY <1>2, MineOfFacts
<1>4. PICK s \in Seq(Nat) : s = <<l, r>> /\ Range(s) = {l, r} /\ Once(s)
  BY <1>1, <1>3, TwoIsSeq
<1>5. PICK object : object = New("Expr", 0, s)
  OBVIOUS
<1>6. /\ object \in Object /\ object.kind = "Expr" /\ object.live /\ object.one = 0 /\ object.many = s
      /\ object.lent = << >> /\ Range(object.lent) = {} /\ Pointers(object) = (Range(s) \cup {0}) \ {0}
  <2>1. "Expr" \in AnyKind
    BY DEF AnyKind
  <2>2. PICK zero \in Nat : zero = 0
    OBVIOUS
  <2>3. object = New("Expr", zero, s)
    BY <1>5, <2>2
  <2>4. IsNew(object, "Expr", zero, s)
    BY <2>1, <2>2, <2>3, NewFacts
  <2> QED
    BY <2>2, <2>4 DEF IsNew
<1>7. Pointers(object) = {l, r}
  BY <1>3, <1>4, <1>6
<1>8. Fit(heap, object)
  <2>1. Holds(heap, Range(s), HoldsMany("Expr"))
    BY <1>3, <1>4 DEF Holds, HoldsMany
  <2>2. 0 \notin Range(s)
    BY <1>3, <1>4
  <2>3. Holds(heap, Range(object.lent), HoldsLent(object.kind))
    BY <1>6 DEF Holds
  <2> QED
    BY <1>4, <1>6, <2>1, <2>2, <2>3 DEF Fit, Once
<1>9. PICK taken : taken = {l, r}
  OBVIOUS
<1>10. taken \in SUBSET mine /\ Pointers(object) = taken /\ Make(object, taken)
  BY <1>1, <1>3, <1>4, <1>5, <1>7, <1>9
<1> QED
  BY <1>6, <1>8, <1>10, MadeNext

\* An object that borrows one.
LentOne(kind, p) == [New(kind, 0, << >>) EXCEPT !.lent = <<p>>]

\* What it is made of, and that it fits.
IsLentOne(x, kind, p) ==
  /\ x \in Object /\ x.kind = kind /\ x.live /\ x.one = 0 /\ x.many = << >>
  /\ Range(x.lent) = {p} /\ Range(x.many) = {} /\ Pointers(x) = {}

LEMMA LentOneFacts ==
  ASSUME NEW kind \in AnyKind, NEW p \in Nat, NEW x, x = LentOne(kind, p)
  PROVE  IsLentOne(x, kind, p)
<1>1. PICK y : y = New(kind, 0, << >>)
  OBVIOUS
<1>2. PICK s \in Seq(Nat) : s = <<p>> /\ Range(s) = {p}
  BY OneIsSeq
<1>3. /\ y \in Object /\ y.kind = kind /\ y.live /\ y.one = 0 /\ y.many = << >> /\ Range(y.many) = {}
  <2>1. PICK one \in Nat : one = 0
    OBVIOUS
  <2>2. IsEmpty(y, kind, one)
    BY <1>1, <2>1, NewEmpty
  <2> QED
    BY <2>1, <2>2 DEF IsEmpty
<1>4. x = [y EXCEPT !.lent = s]
  BY <1>1, <1>2 DEF LentOne
<1>5. x \in Object /\ x.lent = s /\ x.one = y.one /\ x.many = y.many /\ x.kind = y.kind /\ x.live = y.live
  BY <1>3, <1>4, RecordLent
<1>6. Range(x.many) = {} /\ x.one = 0
  BY <1>3, <1>5
<1> QED
  BY <1>2, <1>3, <1>5, <1>6 DEF Pointers, IsLentOne

LEMMA LentOneFit ==
  ASSUME NEW h, NEW kind \in AnyKind \ {"Interaction"}, NEW p \in DOMAIN h, p \in Nat, h[p].kind \in HoldsLent(kind),
         NEW x, x = LentOne(kind, p)
  PROVE  Fit(h, x)
<1>1. x.kind = kind /\ x.live /\ x.one = 0 /\ x.many = << >> /\ Range(x.lent) = {p} /\ Range(x.many) = {}
  <2>1. kind \in AnyKind
    OBVIOUS
  <2>2. IsLentOne(x, kind, p)
    BY <2>1, LentOneFacts
  <2> QED
    BY <2>2 DEF IsLentOne
<1>2. DOMAIN x.many = {}
  BY <1>1, RangeNone
<1> QED
  BY <1>1, <1>2 DEF Fit, Holds

\* The calls that make an object that borrows.
LEMMA MakeAllReduceWithStep == ASSUME IInv, MakeAllReduceWith, UNCHANGED <<kept, due>> PROVE IInv'
<1>1. PICK m \in MineOf({"Msg"}) : Make(LentOne("AllReduce", m), {m})
  BY DEF MakeAllReduceWith, LentOne
<1>2. ub = Defined
  BY <1>1 DEF Make, Room, Running
<1>3. m \in mine /\ m \in DOMAIN heap /\ m \in Nat /\ m # 0 /\ heap[m].kind = "Msg"
  BY <1>2, MineOfFacts
<1>4. PICK object, taken : object = LentOne("AllReduce", m) /\ taken = {m}
  OBVIOUS
<1>5. "AllReduce" \in AnyKind \ {"Interaction"} /\ HoldsLent("AllReduce") = {"Msg"}
  BY DEF AnyKind, NodeKind, ParamKind, HoldsLent
<1>6. /\ object \in Object /\ object.kind = "AllReduce" /\ object.live /\ Range(object.lent) = {m} /\ Pointers(object) = {}
  <2>1. IsLentOne(object, "AllReduce", m)
    BY <1>3, <1>4, <1>5, LentOneFacts
  <2> QED
    BY <2>1 DEF IsLentOne
<1>7. Fit(heap, object)
  BY <1>3, <1>4, <1>5, LentOneFit
<1>8. taken \in SUBSET mine /\ Make(object, taken) /\ Pointers(object) \subseteq taken
      /\ \A p \in taken : p \in Range(object.lent)
  BY <1>1, <1>3, <1>4, <1>6
<1>9. \A c \in Range(object.lent) : ~Stray(heap, mine, c)
  BY <1>3, <1>6 DEF Stray
<1> QED
  BY <1>6, <1>7, <1>8, <1>9, MadeNext

LEMMA MakeOneofStep == ASSUME IInv, MakeOneof, UNCHANGED <<kept, due>> PROVE IInv'
<1>1. PICK r \in Named({"Role"}) : Make(LentOne("Oneof", r), {})
  BY DEF MakeOneof, LentOne
<1>2. ub = Defined
  BY <1>1 DEF Make, Room, Running
<1>21. Safe(heap, mine, lost)
  BY <1>2 DEF IInv
<1>3. r \in DOMAIN heap /\ r \in Nat /\ heap[r].kind = "Role" /\ ~Stray(heap, mine, r)
  <2>1. r \in DOMAIN heap /\ heap[r].kind \in {"Role"} /\ ~Stray(heap, mine, r)
    BY <1>21, NamedNotStray
  <2> QED
    BY <1>21, <2>1, ObjectFacts
<1>4. PICK object, taken : object = LentOne("Oneof", r) /\ taken = {}
  OBVIOUS
<1>5. "Oneof" \in AnyKind \ {"Interaction"} /\ HoldsLent("Oneof") = {"Role", "Expr"}
  BY DEF AnyKind, NodeKind, ParamKind, HoldsLent
<1>6. /\ object \in Object /\ object.kind = "Oneof" /\ object.live /\ Range(object.lent) = {r} /\ Pointers(object) = {}
  <2>1. IsLentOne(object, "Oneof", r)
    BY <1>3, <1>4, <1>5, LentOneFacts
  <2> QED
    BY <2>1 DEF IsLentOne
<1>7. Fit(heap, object)
  BY <1>3, <1>4, <1>5, LentOneFit
<1>8. taken \in SUBSET mine /\ Make(object, taken) /\ Pointers(object) \subseteq taken
      /\ \A p \in taken : p \in Pointers(object)
  BY <1>1, <1>4, <1>6
<1>9. \A c \in Range(object.lent) : ~Stray(heap, mine, c)
  BY <1>3, <1>6 DEF Stray
<1> QED
  BY <1>6, <1>7, <1>8, <1>9, MadeNext
-----------------------------------------------------------------------------
\* Objects after those of the heap.
IsCat(c, h, b) ==
  /\ c \in Seq(Object) /\ Len(c) = Len(h) + Len(b) /\ Len(h) \in Nat /\ Len(b) \in Nat
  /\ DOMAIN h = 1..Len(h) /\ DOMAIN c = 1..(Len(h) + Len(b)) /\ DOMAIN h \subseteq DOMAIN c
  /\ \A o \in DOMAIN h : c[o] = h[o]
  /\ \A o \in DOMAIN c \ DOMAIN h : o - Len(h) \in 1..Len(b) /\ c[o] = b[o - Len(h)]
  /\ \A i \in 1..Len(b) : Len(h) + i \in DOMAIN c \ DOMAIN h /\ c[Len(h) + i] = b[i]

\* Nothing of the heap changes when objects are put behind it.
LEMMA HeapCat ==
  ASSUME NEW h \in Seq(Object), NEW b \in Seq(Object), NEW c, c = h \o b
  PROVE  IsCat(c, h, b)
<1>1. Cat(h, b) = c
  BY DEF Cat
<1>2. /\ Cat(h, b) \in Seq(Object) /\ Len(Cat(h, b)) = Len(h) + Len(b) /\ Len(h) \in Nat /\ Len(b) \in Nat
      /\ DOMAIN Cat(h, b) = 1..(Len(h) + Len(b))
      /\ \A i \in 1..Len(h) : Cat(h, b)[i] = h[i]
      /\ \A i \in (Len(h) + 1)..(Len(h) + Len(b)) : Cat(h, b)[i] = b[i - Len(h)]
  BY CatFacts
<1>3. DOMAIN h = 1..Len(h)
  OBVIOUS
<1>4. \A i \in 1..Len(b) : /\ Len(h) + i \in (Len(h) + 1)..(Len(h) + Len(b)) /\ (Len(h) + i) - Len(h) = i
                          /\ Len(h) + i \notin 1..Len(h)
  BY <1>2
<1> QED
  BY <1>1, <1>2, <1>3, <1>4 DEF IsCat

\* Two objects after those of the heap.
TwoMore(h, x, y) == h \o <<x, y>>

\* What such a heap is.
IsTwoMore(h2, x, y) ==
  /\ h2 \in Seq(Object) /\ DOMAIN heap = 1..Len(heap) /\ Len(heap) \in Nat
  /\ DOMAIN h2 = DOMAIN heap \cup {Fresh, Fresh + 1} /\ Fresh \notin DOMAIN heap /\ Fresh + 1 \notin DOMAIN heap
  /\ Fresh # Fresh + 1 /\ h2[Fresh] = x /\ h2[Fresh + 1] = y
  /\ \A o \in DOMAIN heap : h2[o] = heap[o]

LEMMA HeapPair ==
  ASSUME heap \in Seq(Object), NEW x \in Object, NEW y \in Object, NEW h2, h2 = TwoMore(heap, x, y)
  PROVE  IsTwoMore(h2, x, y)
<1>1. <<x, y>> \in Seq(Object) /\ Len(<<x, y>>) = 2 /\ <<x, y>>[1] = x /\ <<x, y>>[2] = y
  OBVIOUS
<1>2. PICK b : b = <<x, y>>
  OBVIOUS
<1>3. b \in Seq(Object) /\ Len(b) = 2 /\ b[1] = x /\ b[2] = y
  BY <1>1, <1>2
<1>4. h2 = heap \o b
  BY <1>2 DEF TwoMore
<1>5. /\ h2 \in Seq(Object) /\ Len(heap) \in Nat /\ DOMAIN heap = 1..Len(heap) /\ DOMAIN h2 = 1..(Len(heap) + Len(b))
      /\ \A o \in DOMAIN heap : h2[o] = heap[o]
      /\ \A o \in DOMAIN h2 \ DOMAIN heap : h2[o] = b[o - Len(heap)]
  <2>1. heap \in Seq(Object) /\ b \in Seq(Object) /\ h2 = heap \o b
    BY <1>3, <1>4
  <2>2. IsCat(h2, heap, b)
    BY <2>1, HeapCat
  <2> QED
    BY <2>2 DEF IsCat
<1>6. /\ DOMAIN h2 = 1..(Len(heap) + 2) /\ Len(heap) + 1 \in DOMAIN h2 \ DOMAIN heap /\ Len(heap) + 2 \in DOMAIN h2 \ DOMAIN heap
      /\ Len(heap) + 1 - Len(heap) = 1 /\ Len(heap) + 2 - Len(heap) = 2
  BY <1>3, <1>5
<1>7. Fresh = Len(heap) + 1 /\ Fresh + 1 = Len(heap) + 2
  BY <1>5 DEF Fresh
<1>8. h2[Len(heap) + 1] = x /\ h2[Len(heap) + 2] = y
  BY <1>3, <1>5, <1>6
<1>9. DOMAIN h2 = DOMAIN heap \cup {Len(heap) + 1, Len(heap) + 2}
  BY <1>5, <1>6
<1> QED
  BY <1>5, <1>6, <1>7, <1>8, <1>9 DEF IsTwoMore

\* Two new objects, of which the first owns or borrows the second, a message.
LEMMA PairStep ==
  ASSUME Safe(heap, mine, lost), NEW x \in Object, x.live, NEW y, IsEmpty(y, "Msg", 0),
         NEW h2, h2 = TwoMore(heap, x, y), Fit(h2, x), x.kind \in {"Interaction", "AllReduce"},
         IF x.kind = "Interaction" THEN Pointers(x) = {Fresh + 1} /\ x.lent = << >>
                                   ELSE Pointers(x) = {} /\ Range(x.lent) = {Fresh + 1}
  PROVE  Safe(h2, mine \cup {Fresh}, lost)
<1>0. Formed(heap) /\ Held(heap, mine) /\ lost \subseteq DOMAIN heap /\ Acyclic(heap, NodeKind) /\ Acyclic(heap, {"Expr"})
  BY DEF Safe
<1>1. heap \in Seq(Object) /\ \A o \in DOMAIN heap : Pointers(heap[o]) \subseteq DOMAIN heap
  BY <1>0, PointersInHeap DEF Formed
<1>11. y \in Object /\ y.kind = "Msg" /\ y.live /\ y.many = << >> /\ y.one = 0 /\ y.lent = << >> /\ Pointers(y) = {}
       /\ Range(y.many) = {} /\ Range(y.lent) = {}
  BY DEF IsEmpty
<1>3. /\ h2 \in Seq(Object) /\ DOMAIN h2 = DOMAIN heap \cup {Fresh, Fresh + 1}
      /\ Fresh \notin DOMAIN heap /\ Fresh + 1 \notin DOMAIN heap
      /\ Fresh # Fresh + 1 /\ h2[Fresh] = x /\ h2[Fresh + 1] = y
      /\ \A o \in DOMAIN heap : h2[o] = heap[o]
  <2>1. heap \in Seq(Object) /\ x \in Object /\ y \in Object
    BY <1>1, <1>11
  <2>2. IsTwoMore(h2, x, y)
    BY <2>1, HeapPair
  <2> QED
    BY <2>2 DEF IsTwoMore
<1>2. h2 \in Seq(Object) /\ \A o \in DOMAIN heap : h2[o] = heap[o]
  BY <1>3
<1> DEFINE F == Fresh
           G == Fresh + 1
           mn2 == mine \cup {F}
<1> HIDE DEF F, G
<1>31. /\ DOMAIN h2 = DOMAIN heap \cup {F, G} /\ F \notin DOMAIN heap /\ G \notin DOMAIN heap
       /\ F # G /\ h2[F] = x /\ h2[G] = y
  BY <1>3 DEF F, G
<1>32. IF x.kind = "Interaction" THEN Pointers(x) = {G} /\ x.lent = << >>
                                 ELSE Pointers(x) = {} /\ Range(x.lent) = {G}
  BY DEF G
<1>4. mine \subseteq DOMAIN heap
  BY <1>0 DEF Held
<1>5. NewIn(h2, {}) = {F, G} /\ DOMAIN h2 \ DOMAIN heap = {F, G}
  BY <1>31 DEF NewIn
<1>6. SameKinds(heap, h2)
  BY <1>2, <1>31 DEF SameKinds
<1>7. \A o \in NewIn(h2, {}) : Fit(h2, h2[o])
  <2>1. DOMAIN y.many = {}
    BY <1>11, RangeNone
  <2>2. Fit(h2, y)
    BY <1>11, <2>1 DEF Fit, Holds
  <2> QED
    BY <1>31, <1>5, <2>2
<1>8. ASSUME NEW kinds, Acyclic(heap, kinds), kinds \in {NodeKind, {"Expr"}} PROVE Acyclic(h2, kinds)
  <2>1. \A o \in DOMAIN heap : \A p \in Pointers(h2[o]) : p \in DOMAIN heap /\ p \in Pointers(heap[o])
    BY <1>1, <1>2
  <2>2. y.kind \notin kinds
    BY <1>11, <1>8 DEF NodeKind, OrdinaryKind, ParamKind
  <2>3. \A S \in SUBSET {o \in DOMAIN h2 \ DOMAIN heap : h2[o].kind \in kinds} :
           S # {} => \E p \in S : \A o \in S : p \notin Pointers(h2[o])
    <3> SUFFICES ASSUME NEW S \in SUBSET {o \in DOMAIN h2 \ DOMAIN heap : h2[o].kind \in kinds}, S # {}
                 PROVE  \E p \in S : \A o \in S : p \notin Pointers(h2[o])
      OBVIOUS
    <3>1. S = {F}
      BY <1>31, <1>5, <2>2
    <3> QED
      BY <1>31, <1>32, <3>1
  <2> QED
    BY <1>6, <1>8, <2>1, <2>3, AcyclicNew
<1>9. Acyclic(h2, NodeKind) /\ Acyclic(h2, {"Expr"})
  BY <1>0, <1>8
<1>10. NewEdges(h2, mn2, lost, {}, {})
  BY <1>11, <1>31, <1>32, <1>4, <1>5 DEF NewEdges
<1>12. NewLending(h2, mn2, {}, {})
  <2>1. x.kind = "Interaction" => Range(x.lent) = {}
    BY <1>32 DEF Range
  <2>2. ~Stray(heap, mine, G)
    BY <1>31 DEF Stray
  <2> QED
    <3>1. x.kind = "Interaction" => \A c \in Range(x.lent) : FALSE
      BY <2>1
    <3>2. x.kind # "Interaction" => Range(x.lent) = {G}
      BY <1>32
    <3>3. \A c \in Range(x.lent) : c = G /\ x.kind # "Interaction"
      BY <3>1, <3>2
    <3>4. \A c \in Range(y.lent) : FALSE
      BY <1>11
    <3>5. \A n \in NewIn(h2, {}) : \A c \in Range(h2[n].lent) : c = G /\ h2[n].kind # "Interaction"
      BY <1>31, <1>5, <3>3, <3>4
    <3> QED
      BY <2>2, <3>5 DEF NewLending
<1>13. NewKept(h2, mn2, lost, {}, {})
  <2>1. ASSUME NEW p \in mine \cup {F} PROVE Found(h2, mn2, lost, p)
    BY <2>1 DEF Found
  <2>2. Found(h2, mn2, lost, G)
    BY <1>31, <1>32 DEF Found, Lends
  <2> QED
    BY <1>5, <2>1, <2>2 DEF NewKept
<1> HIDE DEF mn2
<1>14. Safe(h2, mn2, lost)
  <2>1. mn2 \subseteq mine \cup (DOMAIN h2 \ DOMAIN heap)
    BY <1>5 DEF mn2
  <2>2. {} \in SUBSET DOMAIN heap
    OBVIOUS
  <2>3. /\ \A o \in DOMAIN heap \ {} : h2[o] = heap[o]
        /\ DOMAIN heap \subseteq DOMAIN h2
        /\ \A o \in DOMAIN h2 \ DOMAIN heap : h2[o].live
    BY <1>11, <1>2, <1>31, <1>5
  <2>4. lost \subseteq DOMAIN h2 /\ h2 \in Seq(Object)
    BY <1>0, <1>2, <1>31
  <2> QED
    BY <1>7, <1>9, <1>10, <1>12, <1>13, <2>1, <2>2, <2>3, <2>4, PlainStep
<1> QED
  BY <1>14 DEF mn2, F

\* The next two positions of the heap.
LEMMA FreshFacts ==
  ASSUME Safe(heap, mine, lost)
  PROVE  Fresh \in Nat /\ Fresh # 0 /\ Fresh + 1 \in Nat /\ Fresh + 1 # 0 /\ heap \in Seq(Object)
<1>1. Formed(heap) /\ heap \in Seq(Object)
  BY DEF Safe, Formed
<1>2. Len(heap) \in Nat
  BY <1>1, PointersInHeap
<1> QED
  BY <1>1, <1>2 DEF Fresh

\* The calls that make an object with a message.
LEMMA MakeInteractionStep == ASSUME IInv, MakeInteraction, UNCHANGED <<kept, due>> PROVE IInv'
<1>1. /\ ub = Defined /\ heap' = heap \o <<New("Interaction", 0, <<Fresh + 1>>), New("Msg", 0, << >>)>>
      /\ mine' = mine \cup {Fresh} /\ profile' = profile /\ lost' = lost /\ ub' = ub
  BY DEF MakeInteraction, Room, Running, Keep
<1>2. Safe(heap, mine, lost)
  BY <1>1 DEF IInv
<1>3. Fresh + 1 \in Nat /\ Fresh + 1 # 0 /\ heap \in Seq(Object)
  BY <1>2, FreshFacts
<1>4. PICK s \in Seq(Nat) : s = <<Fresh + 1>> /\ Range(s) = {Fresh + 1} /\ Once(s)
  BY <1>3, OneIsSeq
<1>5. PICK x : x = New("Interaction", 0, s)
  OBVIOUS
<1>6. PICK y : y = New("Msg", 0, << >>)
  OBVIOUS
<1>7. PICK zero \in Nat : zero = 0
  OBVIOUS
<1>8. "Interaction" \in AnyKind /\ "Msg" \in AnyKind
  BY DEF AnyKind, NodeKind, OrdinaryKind
<1>9. IsNew(x, "Interaction", zero, s)
  <2>1. x = New("Interaction", zero, s)
    BY <1>5, <1>7
  <2> QED
    BY <1>8, <2>1, NewFacts
<1>10. IsEmpty(y, "Msg", zero)
  <2>1. y = New("Msg", zero, << >>)
    BY <1>6, <1>7
  <2> QED
    BY <1>8, <2>1, NewEmpty
<1>11. PICK h2 : h2 = TwoMore(heap, x, y)
  OBVIOUS
<1>12. IsEmpty(y, "Msg", 0)
  BY <1>7, <1>10
<1>13. /\ x \in Object /\ x.live /\ x.kind = "Interaction" /\ x.one = 0 /\ x.many = s /\ x.lent = << >>
       /\ Range(x.lent) = {} /\ Pointers(x) = {Fresh + 1}
  BY <1>3, <1>4, <1>7, <1>9 DEF IsNew
<1>14. Fit(h2, x)
  <2>1. Fresh + 1 \in DOMAIN h2 /\ h2[Fresh + 1].kind = "Msg"
    <3>1. y \in Object /\ y.kind = "Msg"
      BY <1>10 DEF IsEmpty
    <3>2. /\ DOMAIN h2 = DOMAIN heap \cup {Fresh, Fresh + 1} /\ h2[Fresh + 1] = y
      <4>1. heap \in Seq(Object) /\ x \in Object /\ y \in Object
        BY <1>3, <1>13, <3>1
      <4>2. IsTwoMore(h2, x, y)
        BY <1>11, <4>1, HeapPair
      <4> QED
        BY <4>2 DEF IsTwoMore
    <3> QED
      BY <3>1, <3>2
  <2>2. Holds(h2, Range(s), HoldsMany("Interaction"))
    BY <1>4, <2>1 DEF Holds, HoldsMany
  <2>3. Holds(h2, Range(x.lent), HoldsLent(x.kind))
    BY <1>13 DEF Holds
  <2>4. \E m \in Range(s) : \A p \in Range(s) : h2[p].kind = "Msg" <=> p = m
    BY <1>4, <2>1
  <2>5. 0 \notin Range(s)
    BY <1>3, <1>4
  <2> QED
    BY <1>4, <1>13, <2>2, <2>3, <2>4, <2>5 DEF Fit, Once
<1>15. Safe(h2, mine \cup {Fresh}, lost)
  BY <1>2, <1>11, <1>12, <1>13, <1>14, PairStep
<1>16. heap' = h2
  BY <1>1, <1>4, <1>5, <1>6, <1>11 DEF TwoMore
<1> QED
  BY <1>1, <1>15, <1>16, SafeNext

LEMMA MakeAllReduceStep == ASSUME IInv, MakeAllReduce, UNCHANGED <<kept, due>> PROVE IInv'
<1>1. /\ ub = Defined /\ heap' = heap \o <<LentOne("AllReduce", Fresh + 1), New("Msg", 0, << >>)>>
      /\ mine' = mine \cup {Fresh} /\ profile' = profile /\ lost' = lost /\ ub' = ub
  BY DEF MakeAllReduce, Room, Running, Keep, LentOne
<1>2. Safe(heap, mine, lost)
  BY <1>1 DEF IInv
<1>3. Fresh + 1 \in Nat /\ Fresh + 1 # 0 /\ heap \in Seq(Object)
  BY <1>2, FreshFacts
<1>5. PICK x : x = LentOne("AllReduce", Fresh + 1)
  OBVIOUS
<1>6. PICK y : y = New("Msg", 0, << >>)
  OBVIOUS
<1>7. PICK zero \in Nat : zero = 0
  OBVIOUS
<1>8. "AllReduce" \in AnyKind \ {"Interaction"} /\ "Msg" \in AnyKind /\ "AllReduce" \in AnyKind
  BY DEF AnyKind, NodeKind, ParamKind
<1>9. IsLentOne(x, "AllReduce", Fresh + 1)
  BY <1>3, <1>5, <1>8, LentOneFacts
<1>10. IsEmpty(y, "Msg", zero)
  <2>1. y = New("Msg", zero, << >>)
    BY <1>6, <1>7
  <2> QED
    BY <1>8, <2>1, NewEmpty
<1>11. PICK h2 : h2 = TwoMore(heap, x, y)
  OBVIOUS
<1>12. IsEmpty(y, "Msg", 0)
  BY <1>7, <1>10
<1>13. /\ x \in Object /\ x.live /\ x.kind = "AllReduce"
       /\ Range(x.lent) = {Fresh + 1} /\ Pointers(x) = {}
  BY <1>9 DEF IsLentOne
<1>14. Fit(h2, x)
  <2>1. Fresh + 1 \in DOMAIN h2 /\ h2[Fresh + 1].kind = "Msg"
    <3>1. y \in Object /\ y.kind = "Msg"
      BY <1>10 DEF IsEmpty
    <3>2. /\ DOMAIN h2 = DOMAIN heap \cup {Fresh, Fresh + 1} /\ h2[Fresh + 1] = y
      <4>1. heap \in Seq(Object) /\ x \in Object /\ y \in Object
        BY <1>3, <1>13, <3>1
      <4>2. IsTwoMore(h2, x, y)
        BY <1>11, <4>1, HeapPair
      <4> QED
        BY <4>2 DEF IsTwoMore
    <3> QED
      BY <3>1, <3>2
  <2>2. h2[Fresh + 1].kind \in HoldsLent("AllReduce")
    BY <2>1 DEF HoldsLent
  <2> QED
    BY <1>3, <1>5, <1>8, <2>1, <2>2, LentOneFit
<1>15. Safe(h2, mine \cup {Fresh}, lost)
  BY <1>2, <1>11, <1>12, <1>13, <1>14, PairStep
<1>16. heap' = h2
  BY <1>1, <1>5, <1>6, <1>11 DEF TwoMore
<1> QED
  BY <1>1, <1>15, <1>16, SafeNext
-----------------------------------------------------------------------------
\* The parts of a sequence, as a set.
LEMMA SelectedRange ==
  ASSUME NEW ps \in Seq(Nat), NEW P \in SUBSET DOMAIN ps, NEW s, s = Selected(ps, P)
  PROVE  /\ s \in Seq(Nat) /\ (Once(ps) => Once(s))
         /\ \A v \in Range(s) : \E i \in P : v = ps[i]
         /\ \A i \in P : ps[i] \in Range(s)
<1>2. DOMAIN ps = 1..Len(ps) /\ Len(ps) \in Nat
  OBVIOUS
<1>5. /\ Selected(ps, P) \in Seq(Nat) /\ DOMAIN Selected(ps, P) = 1..Cardinality(P)
      /\ \A j \in 1..Cardinality(P) : Nth(P, j) \in P /\ Selected(ps, P)[j] = ps[Nth(P, j)]
      /\ Cardinality(P) \in Nat
  BY SelectedFacts
<1>6. /\ s \in Seq(Nat) /\ DOMAIN s = 1..Cardinality(P)
      /\ \A j \in 1..Cardinality(P) : Nth(P, j) \in P /\ s[j] = ps[Nth(P, j)]
  BY <1>5
<1>7. /\ \A i, j \in 1..Cardinality(P) : i < j => Nth(P, i) < Nth(P, j)
      /\ \A p \in P : \E j \in 1..Cardinality(P) : Nth(P, j) = p
  <2>1. P \in SUBSET (1..Len(ps))
    BY <1>2
  <2> QED
    BY <1>2, <2>1, NthOrder
<1>8. ASSUME Once(ps) PROVE Once(s)
  <2>1. ASSUME NEW i \in DOMAIN s, NEW j \in DOMAIN s, s[i] = s[j] PROVE i = j
    <3>1. Nth(P, i) \in P /\ Nth(P, j) \in P /\ ps[Nth(P, i)] = ps[Nth(P, j)]
      BY <1>6, <2>1
    <3>2. Nth(P, i) = Nth(P, j)
      BY <3>1, <1>2, <1>8 DEF Once
    <3>3. i \in 1..Cardinality(P) /\ j \in 1..Cardinality(P) /\ Nth(P, i) \in Nat
      BY <1>2, <1>6, <3>1
    <3>4. ~(i < j) /\ ~(j < i)
      BY <1>7, <3>2, <3>3
    <3> QED
      BY <1>5, <3>3, <3>4
  <2> QED
    BY <2>1 DEF Once
<1>9. ASSUME NEW v \in Range(s) PROVE \E i \in P : v = ps[i]
  <2>1. PICK j \in DOMAIN s : v = s[j]
    BY DEF Range
  <2> QED
    BY <1>6, <2>1
<1>10. ASSUME NEW i \in P PROVE ps[i] \in Range(s)
  <2>1. PICK j \in 1..Cardinality(P) : Nth(P, j) = i
    BY <1>7
  <2>2. s[j] = ps[i] /\ j \in DOMAIN s
    BY <1>6, <2>1
  <2> QED
    BY <2>2 DEF Range
<1> QED
  BY <1>6, <1>8, <1>9, <1>10

-----------------------------------------------------------------------------
\* Where the copies are: outside the heap, one each.
NewNames(new) ==
  \A q \in DOMAIN new : /\ q \in DOMAIN heap /\ new[q] \in Nat /\ new[q] \notin DOMAIN heap /\ new[q] # 0
                        /\ \A r \in DOMAIN new : new[q] = new[r] => q = r

\* CopyOf in parts: a pointer, a list, the object.
Renamed(m, new, p) == IF p \in ClonedParts(m) \cap DOMAIN new THEN new[p] ELSE p
CopiedList(m, new, dropped, ps) ==
  LET picked == Selected(ps, {i \in DOMAIN ps : ps[i] \notin dropped \cup LeftOut(m)})
  IN [i \in DOMAIN picked |-> Renamed(m, new, picked[i])]

IsCopiedList(s, m, new, dropped, ps) ==
  /\ s \in Seq(Nat) /\ (Once(ps) => Once(s))
  /\ \A v \in Range(s) : \E p \in Range(ps) : p \notin dropped /\ p \notin LeftOut(m) /\ v = Renamed(m, new, p)
  /\ \A p \in Range(ps) : p \notin dropped /\ p \notin LeftOut(m) => Renamed(m, new, p) \in Range(s)

\* Two pointers are renamed to two.
LEMMA RenamedFacts ==
  ASSUME 0 \notin DOMAIN heap, NEW m, NEW new, NewNames(new)
  PROVE  /\ \A p \in DOMAIN heap \cup {0} : Renamed(m, new, p) \in Nat \/ p \notin Nat
         /\ \A p, q \in DOMAIN heap \cup {0} : Renamed(m, new, p) = Renamed(m, new, q) => p = q
         /\ Renamed(m, new, 0) = 0
<1>1. 0 \notin DOMAIN new
  BY DEF NewNames
<1> QED
  BY <1>1 DEF NewNames, Renamed

LEMMA CopiedListFacts ==
  ASSUME 0 \notin DOMAIN heap, NEW m, NEW new, NewNames(new), NEW dropped,
         NEW ps \in Seq(Nat), Range(ps) \subseteq DOMAIN heap, NEW s, s = CopiedList(m, new, dropped, ps)
  PROVE  IsCopiedList(s, m, new, dropped, ps)
<1> DEFINE P == {i \in DOMAIN ps : ps[i] \notin dropped \cup LeftOut(m)}
<1>1. PICK picked : picked = Selected(ps, P)
  OBVIOUS
<1>2. s = [i \in DOMAIN picked |-> Renamed(m, new, picked[i])]
  BY <1>1 DEF CopiedList
<1>3. P \in SUBSET DOMAIN ps /\ \A i \in DOMAIN ps : i \in P <=> ps[i] \notin dropped /\ ps[i] \notin LeftOut(m)
  OBVIOUS
<1> HIDE DEF P
<1>4. /\ picked \in Seq(Nat) /\ (Once(ps) => Once(picked))
      /\ \A v \in Range(picked) : \E i \in P : v = ps[i]
      /\ \A i \in P : ps[i] \in Range(picked)
  BY <1>1, <1>3, SelectedRange
<1>5. Range(picked) \subseteq Range(ps) /\ \A i \in DOMAIN picked : picked[i] \in Range(ps) /\ picked[i] \in Nat
  <2>1. Range(picked) \subseteq Range(ps)
    BY <1>3, <1>4 DEF Range
  <2>2. \A i \in DOMAIN picked : picked[i] \in Range(picked) /\ picked[i] \in Nat
    BY <1>4 DEF Range
  <2> QED
    BY <2>1, <2>2
<1>6. /\ \A p \in DOMAIN heap \cup {0} : Renamed(m, new, p) \in Nat \/ p \notin Nat
      /\ \A p, q \in DOMAIN heap \cup {0} : Renamed(m, new, p) = Renamed(m, new, q) => p = q
  BY RenamedFacts
<1>7. DOMAIN picked = 1..Len(picked) /\ Len(picked) \in Nat
  BY <1>4
<1>8. DOMAIN s = 1..Len(picked) /\ \A i \in 1..Len(picked) : s[i] = Renamed(m, new, picked[i]) /\ s[i] \in Nat
  BY <1>2, <1>5, <1>6, <1>7
<1>9. s \in Seq(Nat)
  <2>1. s = [i \in 1..Len(picked) |-> Renamed(m, new, picked[i])]
    BY <1>2, <1>7
  <2>2. \A i \in 1..Len(picked) : Renamed(m, new, picked[i]) \in Nat
    BY <1>8
  <2> QED
    BY <1>7, <2>1, <2>2
<1>10. ASSUME Once(ps) PROVE Once(s)
  <2>1. Once(picked)
    BY <1>4, <1>10
  <2> QED
    BY <1>5, <1>6, <1>7, <1>8, <2>1 DEF Once
<1>11. ASSUME NEW v \in Range(s)
       PROVE  \E p \in Range(ps) : p \notin dropped /\ p \notin LeftOut(m) /\ v = Renamed(m, new, p)
  <2>1. PICK i \in 1..Len(picked) : v = s[i]
    BY <1>8 DEF Range
  <2>2. picked[i] \in Range(picked)
    BY <1>7 DEF Range
  <2>3. PICK j \in P : picked[i] = ps[j]
    BY <1>4, <2>2
  <2>4. v = Renamed(m, new, picked[i]) /\ picked[i] \in Range(ps)
    BY <1>5, <1>7, <1>8, <2>1
  <2> QED
    BY <1>3, <2>3, <2>4
<1>12. ASSUME NEW p \in Range(ps), p \notin dropped, p \notin LeftOut(m) PROVE Renamed(m, new, p) \in Range(s)
  <2>1. PICK i \in DOMAIN ps : p = ps[i]
    BY DEF Range
  <2>2. p \in Range(picked)
    BY <1>3, <1>4, <1>12, <2>1
  <2>3. PICK j \in DOMAIN picked : p = picked[j]
    BY <2>2 DEF Range
  <2>4. j \in DOMAIN s /\ s[j] = Renamed(m, new, p)
    BY <1>7, <1>8, <2>3
  <2> QED
    BY <2>4 DEF Range
<1> QED
  BY <1>9, <1>10, <1>11, <1>12 DEF IsCopiedList

\* What a copy is: of the same kind, alive, its pointers those of m renamed.
IsCopy(x, m, new, dropped) ==
  /\ x \in Object /\ x.kind = heap[m].kind /\ x.live
  /\ x.one = IF heap[m].one \in dropped THEN 0 ELSE Renamed(m, new, heap[m].one)
  /\ IsCopiedList(x.many, m, new, dropped, heap[m].many)
  /\ IsCopiedList(x.lent, m, new, dropped, heap[m].lent)

LEMMA CopyFacts ==
  ASSUME Safe(heap, mine, lost), NEW m \in DOMAIN heap, NEW new, NewNames(new), NEW dropped,
         NEW x, x = CopyOf(m, new, dropped)
  PROVE  IsCopy(x, m, new, dropped)
<1>1. /\ heap[m] \in Object /\ heap[m].many \in Seq(Nat) /\ heap[m].lent \in Seq(Nat) /\ heap[m].one \in Nat
      /\ Range(heap[m].lent) \subseteq DOMAIN heap /\ Range(heap[m].many) \subseteq DOMAIN heap
      /\ 0 \notin DOMAIN heap
      /\ heap[m].one # 0 => heap[m].one \in DOMAIN heap
  BY ObjectFacts
<1>2. PICK one : one = IF heap[m].one \in dropped THEN 0 ELSE Renamed(m, new, heap[m].one)
  OBVIOUS
<1>3. PICK many : many = CopiedList(m, new, dropped, heap[m].many)
  OBVIOUS
<1>4. PICK lent : lent = CopiedList(m, new, dropped, heap[m].lent)
  OBVIOUS
<1>5. IsCopiedList(many, m, new, dropped, heap[m].many)
  BY <1>1, <1>3, CopiedListFacts
<1>6. IsCopiedList(lent, m, new, dropped, heap[m].lent)
  BY <1>1, <1>4, CopiedListFacts
<1>7. one \in Nat
  <2>1. heap[m].one \in DOMAIN heap \cup {0}
    BY <1>1
  <2>2. Renamed(m, new, heap[m].one) \in Nat
    BY <1>1, <2>1, RenamedFacts
  <2> QED
    BY <1>2, <2>2
<1>8. many \in Seq(Nat) /\ lent \in Seq(Nat)
  BY <1>5, <1>6 DEF IsCopiedList
<1>9. PICK kind \in AnyKind : kind = heap[m].kind
  BY <1>1 DEF Object
<1>10. PICK y : y = New(kind, one, many)
  OBVIOUS
<1>11. y \in Object /\ y.kind = kind /\ y.live /\ y.one = one /\ y.many = many
  <2>1. IsNew(y, kind, one, many)
    BY <1>7, <1>8, <1>9, <1>10, NewFacts
  <2> QED
    BY <2>1 DEF IsNew
<1>12. x = [y EXCEPT !.lent = lent]
  BY <1>2, <1>3, <1>4, <1>9, <1>10 DEF CopyOf, CopiedList, Renamed
<1>13. x \in Object /\ x.lent = lent /\ x.one = y.one /\ x.many = y.many /\ x.kind = y.kind /\ x.live = y.live
  <2>1. y \in Object
    BY <1>11
  <2> QED
    BY <1>8, <1>12, <2>1, RecordLent
<1> QED
  BY <1>2, <1>5, <1>6, <1>9, <1>11, <1>13 DEF IsCopy
-----------------------------------------------------------------------------
\* How kinds divide what an object points to: shared, left out, or followed.
LEMMA Division ==
  ASSUME Safe(heap, mine, lost), NEW m \in DOMAIN heap
  PROVE  /\ \A p \in Pointers(heap[m]) : p \in ClonedParts(m) \/ p \in LeftOut(m) \/ MayShare(heap, FALSE, m, p)
         /\ heap[m].one # 0 => heap[m].one \notin LeftOut(m)
         /\ \A p \in Range(heap[m].lent) : p \in ClonedParts(m) => heap[m].kind = "Interaction"
         /\ heap[m].kind = "Interaction" => ClonedParts(m) = Pointers(heap[m]) \cup Range(heap[m].lent) /\ LeftOut(m) = {}
         /\ ClonedParts(m) \subseteq (Pointers(heap[m]) \cup Range(heap[m].lent)) /\ 0 \notin ClonedParts(m)
         /\ ClonedParts(m) \subseteq DOMAIN heap /\ ClonedParts(m) \cap LeftOut(m) = {}
<1>1. /\ heap[m] \in Object
      /\ Pointers(heap[m]) = (Range(heap[m].many) \cup {heap[m].one}) \ {0}
      /\ Pointers(heap[m]) \subseteq DOMAIN heap
      /\ Range(heap[m].lent) \subseteq DOMAIN heap
      /\ 0 \notin DOMAIN heap
      /\ heap[m].one # 0 => heap[heap[m].one].kind \in HoldsOne(heap[m].kind)
      /\ \A p \in Range(heap[m].many) : heap[p].kind \in HoldsMany(heap[m].kind)
      /\ \A p \in Range(heap[m].lent) : heap[p].kind \in HoldsLent(heap[m].kind)
  BY ObjectFacts
<1> DEFINE k == heap[m].kind
<1>2. k \in AnyKind
  BY <1>1 DEF Object
<1>3. Formed(heap)
  BY DEF Safe
<1>4. /\ ClonedParts(m) = (Pointers(heap[m]) \cup Range(heap[m].lent)) \ (SharedParts(m) \cup LeftOut(m))
      /\ \A kinds : PartsOf(m, kinds) = {p \in Pointers(heap[m]) \cup Range(heap[m].lent) : heap[p].kind \in kinds}
      /\ Lent(m) = Range(heap[m].lent)
  BY DEF ClonedParts, PointersOf, Lent, PartsOf
<1>5. /\ k = "Msg" => SharedParts(m) = PartsOf(m, {"Payload"})
      /\ k = "For" => SharedParts(m) = PartsOf(m, {"Expr"})
      /\ k \in {"Choice", "If"} => SharedParts(m) = {heap[m].one} \ {0}
      /\ k = "AllReduce" => SharedParts(m) = Lent(m)
      /\ k = "Oneof" => SharedParts(m) = PartsOf(m, {"Role"})
      /\ k \notin {"Msg", "For", "Choice", "If", "AllReduce", "Oneof"} => SharedParts(m) = {}
      /\ k = "For" => LeftOut(m) = PartsOf(m, NodeKind)
      /\ k \in {"Oneof", "Payload"} => LeftOut(m) = PartsOf(m, {"Expr"})
      /\ k \notin {"For", "Oneof", "Payload"} => LeftOut(m) = {}
  BY DEF SharedParts, LeftOut
<1> HIDE DEF k
<1>6. \A p \in Pointers(heap[m]) : p \in ClonedParts(m) \/ p \in LeftOut(m) \/ MayShare(heap, FALSE, m, p)
  <2> SUFFICES ASSUME NEW p \in Pointers(heap[m]), p \in SharedParts(m)
               PROVE  MayShare(heap, FALSE, m, p)
    BY <1>4
  <2>1. CASE k = "Msg"
    BY <2>1, <1>4, <1>5 DEF MayShare
  <2>2. CASE k = "For"
    BY <2>2, <1>4, <1>5 DEF MayShare, k
  <2>3. CASE k \in {"Choice", "If"}
    BY <2>3, <1>1, <1>5 DEF MayShare, HoldsOne, k
  <2>4. CASE k = "AllReduce"
    BY <2>4, <1>1 DEF HoldsOne, HoldsMany, k
  <2>5. CASE k = "Oneof"
    <3>1. heap[p].kind = "Role"
      BY <2>5, <1>4, <1>5
    <3>2. "Role" \in HoldsMany(k) \cup HoldsOne(k)
      BY <1>1, <3>1 DEF k
    <3> QED
      BY <2>5, <3>2 DEF HoldsMany, HoldsOne, NodeKind, OrdinaryKind, ParamKind
  <2> QED
    BY <2>1, <2>2, <2>3, <2>4, <2>5, <1>5
<1>7. heap[m].one # 0 => heap[m].one \notin LeftOut(m)
  <2> SUFFICES ASSUME heap[m].one # 0, heap[m].one \in LeftOut(m) PROVE FALSE
    OBVIOUS
  <2>1. k \in {"For", "Oneof", "Payload"} /\ heap[heap[m].one].kind \in HoldsOne(k)
    BY <1>1, <1>5 DEF k
  <2>2. k = "For" /\ heap[heap[m].one].kind = "Expr"
    BY <2>1 DEF HoldsOne
  <2>3. heap[heap[m].one].kind \in NodeKind
    BY <1>4, <1>5, <2>2
  <2> QED
    BY <2>2, <2>3 DEF NodeKind, OrdinaryKind, ParamKind
<1>8. \A p \in Range(heap[m].lent) : p \in ClonedParts(m) => k = "Interaction"
  <2> SUFFICES ASSUME NEW p \in Range(heap[m].lent), p \in ClonedParts(m), k # "Interaction" PROVE FALSE
    OBVIOUS
  <2>1. k \in {"AllReduce", "Oneof"} /\ (k = "Oneof" => heap[p].kind \in {"Role", "Expr"})
    BY <1>1 DEF HoldsLent, k
  <2>2. CASE k = "AllReduce"
    BY <1>4, <1>5, <2>2
  <2>3. CASE k = "Oneof"
    BY <1>4, <1>5, <2>1, <2>3
  <2> QED
    BY <2>1, <2>2, <2>3
<1>9. k = "Interaction" => ClonedParts(m) = Pointers(heap[m]) \cup Range(heap[m].lent) /\ LeftOut(m) = {}
  BY <1>4, <1>5
<1> QED
  BY <1>1, <1>4, <1>6, <1>7, <1>8, <1>9 DEF k

\* What a copy points to: what it shares with the original, or copies of its parts.
CopyPoints(x, m, new, dropped) ==
  /\ \A p \in Pointers(x) :
       \/ p \in Pointers(heap[m]) /\ MayShare(heap, FALSE, m, p)
       \/ \E q \in ClonedParts(m) : q \in Pointers(heap[m]) /\ q \in DOMAIN new /\ q \notin dropped /\ p = new[q]
  /\ \A c \in Range(x.lent) :
       IF heap[m].kind = "Interaction"
         THEN \E q \in ClonedParts(m) : q \in Range(heap[m].lent) /\ q \in DOMAIN new /\ q \notin dropped /\ c = new[q]
         ELSE c \in Range(heap[m].lent)
  /\ \A q \in ClonedParts(m) : q \notin dropped =>
       new[q] \in Pointers(x) \/ (heap[m].kind = "Interaction" /\ new[q] \in Range(x.lent))

\* The pointers of a copy: to copies of cloned parts, or shared with the original.
LEMMA CopyPointers ==
  ASSUME Safe(heap, mine, lost), NEW m \in DOMAIN heap, NEW new, NewNames(new), NEW dropped,
         NEW x, IsCopy(x, m, new, dropped), \A q \in ClonedParts(m) : q \in dropped \/ q \in DOMAIN new
  PROVE  CopyPoints(x, m, new, dropped)
<1>1. /\ Pointers(heap[m]) = (Range(heap[m].many) \cup {heap[m].one}) \ {0}
      /\ Pointers(heap[m]) \subseteq DOMAIN heap
      /\ 0 \notin DOMAIN heap
  BY ObjectFacts
<1>2. /\ \A p \in Pointers(heap[m]) : p \in ClonedParts(m) \/ p \in LeftOut(m) \/ MayShare(heap, FALSE, m, p)
      /\ heap[m].one # 0 => heap[m].one \notin LeftOut(m)
      /\ \A p \in Range(heap[m].lent) : p \in ClonedParts(m) => heap[m].kind = "Interaction"
      /\ heap[m].kind = "Interaction" => ClonedParts(m) = Pointers(heap[m]) \cup Range(heap[m].lent) /\ LeftOut(m) = {}
      /\ ClonedParts(m) \subseteq (Pointers(heap[m]) \cup Range(heap[m].lent)) /\ 0 \notin ClonedParts(m)
      /\ ClonedParts(m) \cap LeftOut(m) = {}
  BY Division
<1>3. /\ x.one = IF heap[m].one \in dropped THEN 0 ELSE Renamed(m, new, heap[m].one)
      /\ IsCopiedList(x.many, m, new, dropped, heap[m].many)
      /\ IsCopiedList(x.lent, m, new, dropped, heap[m].lent)
  BY DEF IsCopy
<1>4. \A p : p \in ClonedParts(m) /\ p \notin dropped => p \in DOMAIN new /\ Renamed(m, new, p) = new[p] /\ new[p] # 0
  BY DEF Renamed, NewNames
<1>5. \A p : p \notin ClonedParts(m) => Renamed(m, new, p) = p
  BY DEF Renamed
<1>6. Pointers(x) = (Range(x.many) \cup {x.one}) \ {0}
  BY DEF Pointers
<1>7. ASSUME NEW p \in Pointers(x)
      PROVE \/ p \in Pointers(heap[m]) /\ MayShare(heap, FALSE, m, p)
            \/ \E q \in ClonedParts(m) : q \in Pointers(heap[m]) /\ q \in DOMAIN new /\ q \notin dropped /\ p = new[q]
  <2>1. \E q \in Pointers(heap[m]) : q \notin dropped /\ q \notin LeftOut(m) /\ p = Renamed(m, new, q)
    <3>1. CASE p \in Range(x.many)
      <4>1. PICK q \in Range(heap[m].many) : q \notin dropped /\ q \notin LeftOut(m) /\ p = Renamed(m, new, q)
        BY <1>3, <3>1 DEF IsCopiedList
      <4>2. q # 0
        BY <1>2, <1>5, <1>6, <4>1
      <4> QED
        BY <1>1, <4>1, <4>2
    <3>2. CASE p = x.one
      <4>1. p # 0
        BY <1>6
      <4>2. heap[m].one \notin dropped /\ p = Renamed(m, new, heap[m].one)
        BY <1>3, <3>2, <4>1
      <4>3. heap[m].one # 0
        BY <1>2, <1>5, <4>1, <4>2
      <4> QED
        BY <1>1, <1>2, <4>2, <4>3
    <3> QED
      BY <1>6, <3>1, <3>2
  <2>2. PICK q \in Pointers(heap[m]) : q \notin dropped /\ q \notin LeftOut(m) /\ p = Renamed(m, new, q)
    BY <2>1
  <2>3. CASE q \in ClonedParts(m)
    BY <1>4, <2>2, <2>3
  <2>4. CASE q \notin ClonedParts(m)
    BY <1>2, <1>5, <2>2, <2>4
  <2> QED
    BY <2>3, <2>4
<1>8. ASSUME NEW c \in Range(x.lent)
      PROVE IF heap[m].kind = "Interaction"
              THEN \E q \in ClonedParts(m) : q \in Range(heap[m].lent) /\ q \in DOMAIN new /\ q \notin dropped /\ c = new[q]
              ELSE c \in Range(heap[m].lent)
  <2>1. PICK q \in Range(heap[m].lent) : q \notin dropped /\ q \notin LeftOut(m) /\ c = Renamed(m, new, q)
    BY <1>3 DEF IsCopiedList
  <2> QED
    BY <1>2, <1>4, <1>5, <2>1
<1>9. ASSUME NEW q \in ClonedParts(m), q \notin dropped
      PROVE  new[q] \in Pointers(x) \/ (heap[m].kind = "Interaction" /\ new[q] \in Range(x.lent))
  <2>1. q \notin LeftOut(m) /\ Renamed(m, new, q) = new[q] /\ new[q] # 0
    BY <1>2, <1>4, <1>9
  <2>2. CASE q \in Range(heap[m].many)
    BY <1>3, <1>6, <1>9, <2>1, <2>2 DEF IsCopiedList
  <2>3. CASE q = heap[m].one
    BY <1>3, <1>6, <1>9, <2>1, <2>3
  <2>4. CASE q \in Range(heap[m].lent)
    BY <1>2, <1>3, <1>9, <2>1, <2>4 DEF IsCopiedList
  <2> QED
    BY <1>1, <1>2, <2>2, <2>3, <2>4
<1> QED
  BY <1>7, <1>8, <1>9 DEF CopyPoints

\* Copies are of the kind of their originals.
SameKind(h2, new) == \A q \in DOMAIN new : new[q] \in DOMAIN h2 /\ h2[new[q]].kind = heap[q].kind

\* A copy points to what its class may hold.
LEMMA CopyFit ==
  ASSUME Safe(heap, mine, lost), NEW m \in Live, NEW new, NewNames(new), NEW dropped,
         NEW x, IsCopy(x, m, new, dropped),
         NEW h2, SameKinds(heap, h2), SameKind(h2, new),
         heap[m].kind = "Interaction" => \A p \in Range(heap[m].many) : heap[p].kind = "Msg" => p \notin dropped
  PROVE  Fit(h2, x)
<1>0. m \in DOMAIN heap /\ heap[m].live
  BY DEF Live
<1>1. /\ heap[m].one \notin Range(heap[m].many) /\ Once(heap[m].many)
      /\ 0 \notin DOMAIN heap
      /\ Range(heap[m].lent) \subseteq DOMAIN heap /\ Range(heap[m].many) \subseteq DOMAIN heap
      /\ heap[m].one # 0 => heap[m].one \in DOMAIN heap /\ heap[heap[m].one].kind \in HoldsOne(heap[m].kind)
      /\ \A p \in Range(heap[m].many) : heap[p].kind \in HoldsMany(heap[m].kind)
      /\ \A p \in Range(heap[m].lent) : heap[p].kind \in HoldsLent(heap[m].kind)
      /\ heap[m].live /\ heap[m].kind = "Interaction" =>
           \E c \in Range(heap[m].many) : \A p \in Range(heap[m].many) : heap[p].kind = "Msg" <=> p = c
  BY <1>0, ObjectFacts
<1>2. /\ x.kind = heap[m].kind /\ x.live
      /\ x.one = IF heap[m].one \in dropped THEN 0 ELSE Renamed(m, new, heap[m].one)
      /\ IsCopiedList(x.many, m, new, dropped, heap[m].many)
      /\ IsCopiedList(x.lent, m, new, dropped, heap[m].lent)
  BY DEF IsCopy
<1>3. \A p \in DOMAIN heap : Renamed(m, new, p) \in DOMAIN h2 /\ h2[Renamed(m, new, p)].kind = heap[p].kind
  BY DEF Renamed, SameKind, SameKinds
<1>4. /\ \A p, q \in DOMAIN heap \cup {0} : Renamed(m, new, p) = Renamed(m, new, q) => p = q
      /\ Renamed(m, new, 0) = 0
  BY <1>1, RenamedFacts
<1>5. x.one # 0 => Holds(h2, {x.one}, HoldsOne(x.kind))
  <2> SUFFICES ASSUME x.one # 0 PROVE x.one \in DOMAIN h2 /\ h2[x.one].kind \in HoldsOne(x.kind)
    BY DEF Holds
  <2>1. x.one = Renamed(m, new, heap[m].one) /\ heap[m].one # 0
    BY <1>2, <1>4
  <2> QED
    BY <1>1, <1>2, <1>3, <2>1
<1>6. Holds(h2, Range(x.many), HoldsMany(x.kind))
  BY <1>1, <1>2, <1>3 DEF Holds, IsCopiedList
<1>7. Holds(h2, Range(x.lent), HoldsLent(x.kind))
  BY <1>1, <1>2, <1>3 DEF Holds, IsCopiedList
<1>8. x.kind = "Interaction" => \E c \in Range(x.many) : \A p \in Range(x.many) : h2[p].kind = "Msg" <=> p = c
  <2> SUFFICES ASSUME heap[m].kind = "Interaction"
               PROVE  \E c \in Range(x.many) : \A p \in Range(x.many) : h2[p].kind = "Msg" <=> p = c
    BY <1>2
  <2>1. PICK c \in Range(heap[m].many) : \A p \in Range(heap[m].many) : heap[p].kind = "Msg" <=> p = c
    BY <1>0, <1>1
  <2>2. c \notin dropped /\ c \notin LeftOut(m)
    BY <2>1 DEF LeftOut
  <2>3. Renamed(m, new, c) \in Range(x.many)
    BY <1>2, <2>2 DEF IsCopiedList
  <2>4. ASSUME NEW p \in Range(x.many) PROVE h2[p].kind = "Msg" <=> p = Renamed(m, new, c)
    <3>1. PICK q \in Range(heap[m].many) : p = Renamed(m, new, q)
      BY <1>2 DEF IsCopiedList
    <3> QED
      BY <1>1, <1>3, <1>4, <2>1, <3>1
  <2> QED
    BY <2>3, <2>4
<1>9. x.one \notin Range(x.many)
  <2> SUFFICES ASSUME x.one \in Range(x.many) PROVE FALSE
    OBVIOUS
  <2>1. PICK q \in Range(heap[m].many) : x.one = Renamed(m, new, q)
    BY <1>2 DEF IsCopiedList
  <2>2. \E p \in DOMAIN heap \cup {0} : x.one = Renamed(m, new, p) /\ p \notin Range(heap[m].many)
    <3>1. heap[m].one \in DOMAIN heap \cup {0} /\ 0 \notin Range(heap[m].many)
      BY <1>1
    <3> QED
      BY <1>1, <1>2, <1>4, <3>1
  <2> QED
    BY <1>1, <1>4, <2>1, <2>2
<1>10. \A i, j \in DOMAIN x.many : x.many[i] = x.many[j] => i = j
  BY <1>1, <1>2 DEF Once, IsCopiedList
<1> QED
  BY <1>2, <1>5, <1>6, <1>7, <1>8, <1>9, <1>10 DEF Fit
-----------------------------------------------------------------------------
\* What is followed from a leaf: from a message or a payload nothing, from any other
\* expressions.
LEMMA ClonedOfLeaf ==
  ASSUME Safe(heap, mine, lost), NEW a \in DOMAIN heap, heap[a].kind \in LeafKind
  PROVE  /\ \A m \in Cloned(a) : m = a \/ heap[m].kind = "Expr"
         /\ \A m \in Cloned(a) : \A p \in ClonedParts(m) : p \in Pointers(heap[m]) /\ heap[p].kind = "Expr"
<1>0. Formed(heap)
  BY DEF Safe
<1>1. ASSUME NEW m \in DOMAIN heap, heap[m].kind \in LeafKind, NEW p \in ClonedParts(m)
      PROVE  p \in Pointers(heap[m]) /\ p \in DOMAIN heap /\ heap[p].kind = "Expr"
  <2>1. /\ p \in DOMAIN heap /\ p \notin SharedParts(m)
        /\ p \in Pointers(heap[m]) \/ (heap[m].kind = "Interaction" /\ p \in Range(heap[m].lent))
        /\ p \notin LeftOut(m)
    BY <1>0, ClonedPartKinds
  <2>2. p \in Pointers(heap[m])
    BY <1>1, <2>1 DEF LeafKind
  <2>3. heap[p].kind \in HoldsOne(heap[m].kind) \cup HoldsMany(heap[m].kind)
    BY <1>0, <2>2, LeavesHold
  <2>4. heap[m].kind = "Msg" => heap[p].kind # "Payload"
    BY <2>1, <2>2 DEF SharedParts, PartsOf, PointersOf
  <2>5. heap[p].kind = "Expr"
    BY <1>1, <2>3, <2>4 DEF LeafKind, HoldsOne, HoldsMany
  <2> QED
    BY <2>1, <2>2, <2>5
<1>2. Cloned(a) \subseteq {m \in DOMAIN heap : m = a \/ heap[m].kind = "Expr"}
  <2>1. \A m \in {m \in DOMAIN heap : m = a \/ heap[m].kind = "Expr"} :
          ClonedParts(m) \subseteq {q \in DOMAIN heap : q = a \/ heap[q].kind = "Expr"}
    BY <1>1 DEF LeafKind
  <2> QED
    BY <2>1, ClonedFacts
<1> QED
  <2>1. \A m \in Cloned(a) : m \in DOMAIN heap /\ heap[m].kind \in LeafKind
    BY <1>2 DEF LeafKind
  <2> QED
    BY <1>1, <1>2, <2>1

\* Nothing is in its own parts.
LEMMA NotInOwn ==
  ASSUME Safe(heap, mine, lost), NEW a \in DOMAIN heap, NEW m \in Cloned(a)
  PROVE  a \notin ClonedParts(m)
<1>0. Formed(heap) /\ Acyclic(heap, NodeKind) /\ Acyclic(heap, {"Expr"}) /\ heap[a] \in Object
  BY ObjectFacts DEF Safe
<1>1. /\ Cloned(a) \in SUBSET DOMAIN heap /\ a \in Cloned(a)
      /\ \A p \in Cloned(a) : p = a \/ \E q \in Cloned(a) : p \in ClonedParts(q)
  BY ClonedFacts
<1>2. ASSUME a \in ClonedParts(m), NEW kinds, Acyclic(heap, kinds), heap[a].kind \in kinds,
             \A q \in Cloned(a) : \A p \in ClonedParts(q) :
               heap[p].kind \in kinds => p \in Pointers(heap[q]) /\ heap[q].kind \in kinds
      PROVE  FALSE
  <2> DEFINE S == {p \in Cloned(a) : heap[p].kind \in kinds}
  <2>1. S \in SUBSET {o \in DOMAIN heap : heap[o].kind \in kinds} /\ S # {}
    BY <1>1, <1>2
  <2>2. \A p \in S : \E o \in S : p \in Pointers(heap[o])
    BY <1>1, <1>2
  <2> HIDE DEF S
  <2> QED
    BY <1>2, <2>1, <2>2 DEF Acyclic
<1>3. CASE heap[a].kind \in LeafKind
  <2>1. /\ \A q \in Cloned(a) : q = a \/ heap[q].kind = "Expr"
        /\ \A q \in Cloned(a) : \A p \in ClonedParts(q) : p \in Pointers(heap[q]) /\ heap[p].kind = "Expr"
    BY <1>3, ClonedOfLeaf
  <2>2. CASE heap[a].kind = "Expr"
    <3>1. \A q \in Cloned(a) : heap[q].kind = "Expr"
      BY <2>1, <2>2
    <3> QED
      BY <1>0, <1>2, <2>1, <2>2, <3>1
  <2> QED
    BY <2>1, <2>2
<1>4. CASE heap[a].kind \in NodeKind
  <2>1. ASSUME NEW q \in Cloned(a), NEW p \in ClonedParts(q), heap[p].kind \in NodeKind
        PROVE  p \in Pointers(heap[q]) /\ heap[q].kind \in NodeKind
    <3>0. q \in DOMAIN heap
      BY <1>1
    <3>1. p \in DOMAIN heap /\ (p \in Pointers(heap[q]) \/ (heap[q].kind = "Interaction" /\ p \in Range(heap[q].lent)))
      BY <1>0, <3>0, ClonedPartKinds
    <3>2. ~(heap[q].kind = "Interaction" /\ p \in Range(heap[q].lent))
      <4>1. \A c \in Range(heap[q].lent) : heap[c].kind \in HoldsLent(heap[q].kind)
        BY <3>0, ObjectFacts
      <4> QED
        BY <2>1, <4>1 DEF HoldsLent, NodeKind, OrdinaryKind, ParamKind
    <3>3. heap[q].kind \in LeafKind => heap[p].kind \in LeafKind
      BY <1>0, <3>0, <3>1, <3>2, LeavesHold
    <3>4. heap[q] \in Object
      BY <3>0, ObjectFacts
    <3>5. heap[q].kind \in AnyKind
      BY <3>4 DEF Object
    <3> QED
      BY <2>1, <3>1, <3>2, <3>3, <3>5 DEF LeafKind, AnyKind, NodeKind, OrdinaryKind, ParamKind
  <2> QED
    BY <1>0, <1>2, <1>4, <2>1
<1>5. heap[a].kind \in AnyKind
  BY <1>0 DEF Object
<1> QED
  BY <1>3, <1>4, <1>5 DEF AnyKind, LeafKind
-----------------------------------------------------------------------------
\* A family of copies: ids[<<n, m>>] is the copy of m that belongs to a copy of n.
\* holder says who gets the pointer to the copy of n, and L for which n to borrow it.
In(P, n, m)   == <<n, m>> \in P
Id(ids, n, m) == ids[<<n, m>>]

\* Each pair has a copy of its own, and the program keeps none but one that nobody holds.
Family(h2, mn2, P, ids, holder, H) ==
  /\ \A n, m : In(P, n, m) =>
       /\ n \in DOMAIN heap /\ m \in DOMAIN heap /\ In(P, n, n)
       /\ Id(ids, n, m) \in DOMAIN h2 \ DOMAIN heap /\ h2[Id(ids, n, m)].kind = heap[m].kind
       /\ Id(ids, n, m) \in mn2 => n = m /\ holder[n] \notin NewIn(h2, H)
  /\ \A n, m, k, l : In(P, n, m) /\ In(P, k, l) /\ Id(ids, n, m) = Id(ids, k, l) => n = k /\ m = l

\* p is shared with an old object.
SharedWith(h2, r2, o, p) ==
  /\ o \notin DOMAIN heap /\ MayShare(h2, r2, o, p)
  /\ \E q \in DOMAIN heap : p \in Pointers(heap[q]) /\ MayShare(h2, r2, q, p)

\* A copy of m at n has the copy of a part.
PartAt(P, ids, n, m, q, o, p) ==
  In(P, n, m) /\ In(P, n, q) /\ q # n /\ o = Id(ids, n, m) /\ p = Id(ids, n, q)

\* p is new and not of the family, and only o has it.
Sole(h2, mn2, P, ids, H, o, p) ==
  /\ p \in DOMAIN h2 \ DOMAIN heap /\ p \notin mn2
  /\ \A n, m : In(P, n, m) => p # Id(ids, n, m)
  /\ \A q \in NewIn(h2, H) : p \in Pointers(h2[q]) => q = o

\* What a new or edited object may point to: what it had, the copy of a part, what the original
\* shares, or what a holder is given.
PointsAs(h2, mn2, r2, P, ids, holder, L, H, o) ==
  \A p \in Pointers(h2[o]) :
    \/ o \in H /\ p \in Pointers(heap[o])
    \/ SharedWith(h2, r2, o, p)
    \/ \E n, m, q : PartAt(P, ids, n, m, q, o, p) /\ q \in Pointers(heap[m])
    \/ \E n : In(P, n, n) /\ n \notin L /\ p = Id(ids, n, n) /\ holder[n] = o
    \/ Sole(h2, mn2, P, ids, H, o, p)

\* c is new and not of the family, and only o borrows it.
SoleLent(h2, mn2, P, ids, H, o, c) ==
  /\ c \in DOMAIN h2 \ DOMAIN heap /\ c \notin mn2
  /\ \A n, m : In(P, n, m) => c # Id(ids, n, m)
  /\ \A q \in NewIn(h2, H) : c \notin Pointers(h2[q]) /\ (c \in Range(h2[q].lent) => q = o)

\* What it may borrow.
BorrowsAs(h2, mn2, roots, P, ids, holder, L, H, o) ==
  \A c \in Range(h2[o].lent) :
    /\ ~Stray(heap, mine, c)
    /\ h2[o].kind = "Interaction" =>
         \/ o \in H /\ c \in Range(heap[o].lent) /\ c \notin roots
         \/ \E n, m, q : PartAt(P, ids, n, m, q, o, c) /\ q \in Range(heap[m].lent) /\ heap[m].kind = "Interaction"
         \/ \E n : In(P, n, n) /\ n \in L /\ c = Id(ids, n, n) /\ holder[n] = o
         \/ SoleLent(h2, mn2, P, ids, H, o, c)

\* The pairs are about objects of the heap.
LEMMA FamilyFacts ==
  ASSUME NEW h2, NEW mn2, NEW P, NEW ids, NEW holder, NEW H, Family(h2, mn2, P, ids, holder, H)
  PROVE  \A n, m : In(P, n, m) => n \in DOMAIN heap /\ m \in DOMAIN heap
BY DEF Family

\* A family has the edges, the conditions and no cycle, as StepIsSafe asks.
LEMMA FamilyEdges ==
  ASSUME Safe(heap, mine, lost), NEW H \in SUBSET DOMAIN heap, NEW roots, NEW h2, NEW mn2, NEW ls2,
         SameKinds(heap, h2), mine \subseteq DOMAIN heap, TheRelic => Relic(h2, mn2, ls2),
         NEW P, NEW ids, NEW holder, NEW L, Family(h2, mn2, P, ids, holder, H),
         \A o \in NewIn(h2, H) : PointsAs(h2, mn2, Relic(h2, mn2, ls2), P, ids, holder, L, H, o)
  PROVE  NewEdges(h2, mn2, ls2, roots, H)
<1> DEFINE r2 == Relic(h2, mn2, ls2)
<1> HIDE DEF r2
<1>1. \A o \in NewIn(h2, H) : PointsAs(h2, mn2, r2, P, ids, holder, L, H, o)
  BY DEF r2
<1>2. \A n, m : In(P, n, m) => n \in DOMAIN heap /\ m \in DOMAIN heap
  BY FamilyFacts
<1>3. \A o \in DOMAIN heap : Pointers(heap[o]) \subseteq DOMAIN heap
  BY PointersInHeap DEF Safe
<1>4. ASSUME NEW n, NEW m, In(P, n, m)
      PROVE  /\ Id(ids, n, m) \in DOMAIN h2 \ DOMAIN heap /\ h2[Id(ids, n, m)].kind = heap[m].kind
             /\ Id(ids, n, m) \in mn2 => n = m /\ holder[n] \notin NewIn(h2, H)
  BY <1>4 DEF Family
<1>5. \A n, m, k, l : In(P, n, m) /\ In(P, k, l) /\ Id(ids, n, m) = Id(ids, k, l) => n = k /\ m = l
  BY DEF Family
<1>6. ASSUME NEW o \in NewIn(h2, H), NEW p \in Pointers(h2[o]), NEW n, NEW m, NEW q,
             PartAt(P, ids, n, m, q, o, p), q \in Pointers(heap[m])
      PROVE  /\ p \in DOMAIN h2 \ DOMAIN heap /\ p \notin mn2
             /\ \A x \in NewIn(h2, H) : x # o /\ p \in Pointers(h2[x]) =>
                  MayShare(h2, r2, o, p) /\ MayShare(h2, r2, x, p)
  <2>1. In(P, n, m) /\ In(P, n, q) /\ q # n /\ o = Id(ids, n, m) /\ p = Id(ids, n, q)
    BY <1>6 DEF PartAt
  <2>2. q # n /\ n \in DOMAIN heap /\ m \in DOMAIN heap /\ q \in DOMAIN heap
    BY <1>2, <2>1
  <2>3. p \in DOMAIN h2 \ DOMAIN heap /\ p \notin mn2 /\ h2[p].kind = heap[q].kind /\ h2[o].kind = heap[m].kind
    BY <1>4, <2>1, <2>2
  <2>4. ASSUME NEW x \in NewIn(h2, H), x # o, p \in Pointers(h2[x])
        PROVE  MayShare(h2, r2, o, p) /\ MayShare(h2, r2, x, p)
    <3>1. ~(x \in H /\ p \in Pointers(heap[x])) /\ ~SharedWith(h2, r2, x, p)
      BY <1>3, <2>3 DEF SharedWith
    <3>2. ~ \E k : In(P, k, k) /\ p = Id(ids, k, k)
      BY <1>5, <2>1, <2>2
    <3>3. ~Sole(h2, mn2, P, ids, H, x, p)
      BY <2>1 DEF Sole
    <3>4. PICK k, l, s : PartAt(P, ids, k, l, s, x, p) /\ s \in Pointers(heap[l])
      BY <1>1, <2>4, <3>1, <3>2, <3>3 DEF PointsAs
    <3>5. In(P, k, l) /\ In(P, k, s) /\ x = Id(ids, k, l) /\ p = Id(ids, k, s)
      BY <3>4 DEF PartAt
    <3>6. k = n /\ s = q
      BY <1>5, <2>1, <3>5
    <3>7. l # m /\ l \in DOMAIN heap /\ h2[x].kind = heap[l].kind
      BY <1>2, <1>4, <2>1, <2>4, <3>5, <3>6
    <3>8. Separate(heap, TheRelic)
      BY DEF Safe, TheRelic
    <3>9. MayShare(heap, TheRelic, m, q) /\ MayShare(heap, TheRelic, l, q)
      BY <1>6, <2>2, <3>4, <3>6, <3>7, <3>8 DEF Separate
    <3> QED
      BY <2>3, <3>7, <3>9 DEF MayShare, r2
  <2> QED
    BY <2>3, <2>4
<1>7. ASSUME NEW o \in NewIn(h2, H), NEW p \in Pointers(h2[o]), NEW n, In(P, n, n), n \notin L,
             p = Id(ids, n, n), holder[n] = o
      PROVE  /\ p \in DOMAIN h2 \ DOMAIN heap /\ p \notin mn2
             /\ \A x \in NewIn(h2, H) : p \in Pointers(h2[x]) => x = o
  <2>1. p \in DOMAIN h2 \ DOMAIN heap /\ p \notin mn2
    BY <1>4, <1>7
  <2>2. ASSUME NEW x \in NewIn(h2, H), p \in Pointers(h2[x]) PROVE x = o
    <3>1. ~(x \in H /\ p \in Pointers(heap[x])) /\ ~SharedWith(h2, r2, x, p)
      BY <1>3, <2>1 DEF SharedWith
    <3>2. ~Sole(h2, mn2, P, ids, H, x, p)
      BY <1>7 DEF Sole
    <3>3. ASSUME NEW k, NEW l, NEW s, PartAt(P, ids, k, l, s, x, p) PROVE FALSE
      <4>1. In(P, k, l) /\ In(P, k, s) /\ s # k /\ p = Id(ids, k, s)
        BY <3>3 DEF PartAt
      <4>2. k = n /\ s = n
        BY <1>5, <1>7, <4>1
      <4> QED
        BY <1>2, <4>1, <4>2
    <3>4. PICK k : In(P, k, k) /\ p = Id(ids, k, k) /\ holder[k] = x
      BY <1>1, <2>2, <3>1, <3>2, <3>3 DEF PointsAs
    <3> QED
      BY <1>5, <1>7, <3>4
  <2> QED
    BY <2>1, <2>2
<1> SUFFICES ASSUME NEW o \in NewIn(h2, H), NEW p \in Pointers(h2[o])
             PROVE  \/ o \in H /\ p \in Pointers(heap[o])
                    \/ /\ o \notin DOMAIN heap /\ MayShare(h2, r2, o, p)
                       /\ \E q \in DOMAIN heap : p \in Pointers(heap[q]) /\ MayShare(h2, r2, q, p)
                    \/ /\ p \in mine \ roots \/ p \in DOMAIN h2 \ DOMAIN heap
                       /\ p \notin mn2
                       /\ \A q \in NewIn(h2, H) : q # o /\ p \in Pointers(h2[q]) =>
                            MayShare(h2, r2, o, p) /\ MayShare(h2, r2, q, p)
  BY DEF NewEdges, r2
<1>8. CASE SharedWith(h2, r2, o, p)
  BY <1>8 DEF SharedWith
<1>9. CASE \E n, m, q : PartAt(P, ids, n, m, q, o, p) /\ q \in Pointers(heap[m])
  BY <1>6, <1>9
<1>10. CASE \E n : In(P, n, n) /\ n \notin L /\ p = Id(ids, n, n) /\ holder[n] = o
  BY <1>7, <1>10
<1>11. CASE Sole(h2, mn2, P, ids, H, o, p)
  BY <1>11 DEF Sole
<1> QED
  BY <1>1, <1>8, <1>9, <1>10, <1>11 DEF PointsAs

LEMMA FamilyLending ==
  ASSUME Safe(heap, mine, lost), NEW H \in SUBSET DOMAIN heap, NEW roots, NEW h2, NEW mn2, NEW r2,
         SameKinds(heap, h2),
         NEW P, NEW ids, NEW holder, NEW L, Family(h2, mn2, P, ids, holder, H),
         \A o \in NewIn(h2, H) : PointsAs(h2, mn2, r2, P, ids, holder, L, H, o),
         \A o \in NewIn(h2, H) : BorrowsAs(h2, mn2, roots, P, ids, holder, L, H, o)
  PROVE  NewLending(h2, mn2, roots, H)
<1>2. \A n, m : In(P, n, m) => n \in DOMAIN heap /\ m \in DOMAIN heap
  BY FamilyFacts
<1>3. \A o \in DOMAIN heap : Pointers(heap[o]) \subseteq DOMAIN heap /\ Range(heap[o].lent) \subseteq DOMAIN heap
  BY PointersInHeap DEF Safe
<1>4. ASSUME NEW n, NEW m, In(P, n, m)
      PROVE  /\ Id(ids, n, m) \in DOMAIN h2 \ DOMAIN heap
             /\ Id(ids, n, m) \in mn2 => n = m /\ holder[n] \notin NewIn(h2, H)
  BY <1>4 DEF Family
<1>5. \A n, m, k, l : In(P, n, m) /\ In(P, k, l) /\ Id(ids, n, m) = Id(ids, k, l) => n = k /\ m = l
  BY DEF Family
\* who else refers to a copy
<1>6. ASSUME NEW n, NEW m, In(P, n, m), NEW c, c = Id(ids, n, m), NEW x \in NewIn(h2, H), c \in Pointers(h2[x])
      PROVE  \/ \E l : m \in Pointers(heap[l]) /\ m # n /\ l \in DOMAIN heap
             \/ m = n /\ n \notin L
  <2>1. c \in DOMAIN h2 \ DOMAIN heap
    BY <1>4, <1>6
  <2>2. ~(x \in H /\ c \in Pointers(heap[x])) /\ ~SharedWith(h2, r2, x, c) /\ ~Sole(h2, mn2, P, ids, H, x, c)
    BY <1>3, <1>6, <2>1 DEF SharedWith, Sole
  <2>3. CASE \E k : In(P, k, k) /\ k \notin L /\ c = Id(ids, k, k) /\ holder[k] = x
    BY <1>5, <1>6, <2>3
  <2>4. CASE \E k, l, s : PartAt(P, ids, k, l, s, x, c) /\ s \in Pointers(heap[l])
    <3>1. PICK k, l, s : PartAt(P, ids, k, l, s, x, c) /\ s \in Pointers(heap[l])
      BY <2>4
    <3>2. In(P, k, l) /\ In(P, k, s) /\ c = Id(ids, k, s) /\ s # k
      BY <3>1 DEF PartAt
    <3>3. k = n /\ s = m
      BY <1>5, <1>6, <3>2
    <3> QED
      BY <1>2, <3>1, <3>2, <3>3
  <2> QED
    BY <1>6, <2>2, <2>3, <2>4 DEF PointsAs
<1>7. ASSUME NEW n, NEW m, In(P, n, m), NEW c, c = Id(ids, n, m), NEW x \in NewIn(h2, H),
             h2[x].kind = "Interaction", c \in Range(h2[x].lent)
      PROVE  \/ \E l : m \in Range(heap[l].lent) /\ m # n /\ heap[l].kind = "Interaction" /\ x = Id(ids, n, l) /\ l \in DOMAIN heap
             \/ m = n /\ holder[n] = x
  <2>1. c \in DOMAIN h2 \ DOMAIN heap
    BY <1>4, <1>7
  <2>2. ~(x \in H /\ c \in Range(heap[x].lent)) /\ ~SoleLent(h2, mn2, P, ids, H, x, c)
    BY <1>3, <1>7, <2>1 DEF SoleLent
  <2>3. CASE \E k : In(P, k, k) /\ k \in L /\ c = Id(ids, k, k) /\ holder[k] = x
    BY <1>5, <1>7, <2>3
  <2>4. CASE \E k, l, s : PartAt(P, ids, k, l, s, x, c) /\ s \in Range(heap[l].lent) /\ heap[l].kind = "Interaction"
    <3>1. PICK k, l, s : PartAt(P, ids, k, l, s, x, c) /\ s \in Range(heap[l].lent) /\ heap[l].kind = "Interaction"
      BY <2>4
    <3>2. In(P, k, l) /\ In(P, k, s) /\ c = Id(ids, k, s) /\ s # k /\ x = Id(ids, k, l)
      BY <3>1 DEF PartAt
    <3>3. k = n /\ s = m
      BY <1>5, <1>7, <3>2
    <3> QED
      BY <1>2, <3>1, <3>2, <3>3
  <2> QED
    BY <1>7, <2>2, <2>3, <2>4 DEF BorrowsAs
<1> SUFFICES ASSUME NEW o \in NewIn(h2, H), NEW c \in Range(h2[o].lent), h2[o].kind = "Interaction"
             PROVE  \/ o \in H /\ c \in Range(heap[o].lent) /\ c \notin roots
                    \/ /\ c \in mine \ roots \/ c \in DOMAIN h2 \ DOMAIN heap
                       /\ c \notin mn2
                       /\ \A q \in NewIn(h2, H) : c \notin Pointers(h2[q]) /\
                            (q # o /\ h2[q].kind = "Interaction" => c \notin Range(h2[q].lent))
  BY DEF NewLending, BorrowsAs
<1>8. CASE SoleLent(h2, mn2, P, ids, H, o, c)
  BY <1>8 DEF SoleLent
<1>9. CASE \E n : In(P, n, n) /\ n \in L /\ c = Id(ids, n, n) /\ holder[n] = o
  <2>1. PICK n : In(P, n, n) /\ n \in L /\ c = Id(ids, n, n) /\ holder[n] = o
    BY <1>9
  <2>2. c \in DOMAIN h2 \ DOMAIN heap /\ c \notin mn2
    BY <1>4, <2>1
  <2>3. ASSUME NEW q \in NewIn(h2, H)
        PROVE  c \notin Pointers(h2[q]) /\ (q # o /\ h2[q].kind = "Interaction" => c \notin Range(h2[q].lent))
    BY <1>6, <1>7, <2>1
  <2> QED
    BY <2>2, <2>3
<1>10. CASE \E n, m, q : PartAt(P, ids, n, m, q, o, c) /\ q \in Range(heap[m].lent) /\ heap[m].kind = "Interaction"
  <2>1. PICK n, m, q : PartAt(P, ids, n, m, q, o, c) /\ q \in Range(heap[m].lent) /\ heap[m].kind = "Interaction"
    BY <1>10
  <2>2. In(P, n, m) /\ In(P, n, q) /\ q # n /\ o = Id(ids, n, m) /\ c = Id(ids, n, q)
    BY <2>1 DEF PartAt
  <2>3. q # n /\ m \in DOMAIN heap /\ c \in DOMAIN h2 \ DOMAIN heap /\ c \notin mn2
    BY <1>2, <1>4, <2>2
  <2>4. Conditions(heap, mine)
    BY DEF Safe
  <2>5. \A l \in DOMAIN heap : q \notin Pointers(heap[l]) /\ (l # m /\ heap[l].kind = "Interaction" => q \notin Range(heap[l].lent))
    BY <2>1, <2>3, <2>4 DEF Conditions
  <2>6. ASSUME NEW x \in NewIn(h2, H)
        PROVE  c \notin Pointers(h2[x]) /\ (x # o /\ h2[x].kind = "Interaction" => c \notin Range(h2[x].lent))
    <3>1. c \notin Pointers(h2[x])
      BY <1>6, <2>2, <2>3, <2>5
    <3>2. x # o /\ h2[x].kind = "Interaction" => c \notin Range(h2[x].lent)
      BY <1>7, <2>2, <2>3, <2>5
    <3> QED
      BY <3>1, <3>2
  <2> QED
    BY <2>3, <2>6
<1> QED
  BY <1>8, <1>9, <1>10 DEF BorrowsAs
-----------------------------------------------------------------------------
\* B leads down from k to n.
Leads(B, k, n, kinds) ==
  /\ B \subseteq {o \in DOMAIN heap : heap[o].kind \in kinds} /\ k \in B
  /\ \E b \in B : n \in Pointers(heap[b])
  /\ \A b \in B : b # k => \E a \in B : b \in Pointers(heap[a])

\* Whoever holds a copy of n is a new object that nobody else new points to, or the copy
\* of what leads down to n; or the two are of other kinds.
Nested(h2, P, ids, holder, kinds, H) ==
  \A n : In(P, n, n) /\ heap[n].kind \in kinds /\ holder[n] \in NewIn(h2, H) /\ h2[holder[n]].kind \in kinds =>
    /\ holder[n] \notin H
    /\ \/ \A q \in NewIn(h2, H) : holder[n] \notin Pointers(h2[q])
       \/ \E k, B : In(P, k, k) /\ holder[n] = Id(ids, k, k) /\ Leads(B, k, n, kinds)

\* No cycle among the objects allocated.
LEMMA FamilyAcyclic ==
  ASSUME Safe(heap, mine, lost), NEW H \in SUBSET DOMAIN heap, NEW h2, NEW mn2, NEW r2,
         SameKinds(heap, h2), NEW kinds, Acyclic(heap, kinds),
         NEW P, NEW ids, NEW holder, NEW L, Family(h2, mn2, P, ids, holder, H),
         \A o \in NewIn(h2, H) : PointsAs(h2, mn2, r2, P, ids, holder, L, H, o),
         \A o \in DOMAIN heap \ H : Pointers(h2[o]) \subseteq Pointers(heap[o]),
         \A o, p : Sole(h2, mn2, P, ids, H, o, p) /\ o \in NewIn(h2, H) /\ p \in Pointers(h2[o]) =>
           h2[o].kind \notin kinds \/ h2[p].kind \notin kinds,
         Nested(h2, P, ids, holder, kinds, H)
  PROVE  Acyclic(h2, kinds)
<1> DEFINE F == DOMAIN h2 \ DOMAIN heap
<1>2. \A n, m : In(P, n, m) => n \in DOMAIN heap /\ m \in DOMAIN heap
  BY FamilyFacts
<1>3. \A o \in DOMAIN heap : Pointers(heap[o]) \subseteq DOMAIN heap
  BY PointersInHeap DEF Safe
<1>4. \A n, m : In(P, n, m) => Id(ids, n, m) \in F /\ h2[Id(ids, n, m)].kind = heap[m].kind
  BY DEF Family
<1>5. \A n, m, k, l : In(P, n, m) /\ In(P, k, l) /\ Id(ids, n, m) = Id(ids, k, l) => n = k /\ m = l
  BY DEF Family
\* an edge to something new, of the kinds
<1>6. ASSUME NEW o \in NewIn(h2, H), NEW p \in Pointers(h2[o]), p \in F, h2[o].kind \in kinds, h2[p].kind \in kinds
      PROVE  \/ \E n, m, q : PartAt(P, ids, n, m, q, o, p) /\ q \in Pointers(heap[m])
             \/ \E n : In(P, n, n) /\ p = Id(ids, n, n) /\ holder[n] = o
  <2>1. ~(o \in H /\ p \in Pointers(heap[o])) /\ ~SharedWith(h2, r2, o, p)
    BY <1>3, <1>6 DEF SharedWith
  <2>2. ~Sole(h2, mn2, P, ids, H, o, p)
    BY <1>6
  <2> QED
    BY <2>1, <2>2 DEF PointsAs
<1>7. \A o \in DOMAIN heap : \A p \in Pointers(h2[o]) :
        heap[o].kind \in kinds /\ p \in DOMAIN h2 /\ h2[p].kind \in kinds => p \in DOMAIN heap /\ p \in Pointers(heap[o])
  <2> SUFFICES ASSUME NEW o \in DOMAIN heap, NEW p \in Pointers(h2[o]), heap[o].kind \in kinds, p \in DOMAIN h2, h2[p].kind \in kinds
               PROVE  p \in Pointers(heap[o])
    BY <1>3
  <2>1. CASE o \notin H
    BY <2>1
  <2>2. CASE o \in H
    <3>0. o \in NewIn(h2, H) /\ h2[o].kind \in kinds /\ o \notin F
      BY <2>2 DEF NewIn, SameKinds
    <3>1. ~SharedWith(h2, r2, o, p) /\ ~ \E n, m, q : PartAt(P, ids, n, m, q, o, p)
      BY <1>4, <3>0 DEF SharedWith, PartAt
    <3>2. ASSUME NEW n, In(P, n, n), p = Id(ids, n, n), holder[n] = o PROVE FALSE
      <4>1. heap[n].kind \in kinds
        BY <1>4, <3>2
      <4> QED
        BY <2>2, <3>0, <3>2, <4>1 DEF Nested
    <3>3. ~Sole(h2, mn2, P, ids, H, o, p)
      BY <3>0
    <3> QED
      BY <3>0, <3>1, <3>2, <3>3 DEF PointsAs
  <2> QED
    BY <2>1, <2>2
<1>8. ASSUME NEW S \in SUBSET {o \in F : h2[o].kind \in kinds}, S # {}, \A p \in S : \E o \in S : p \in Pointers(h2[o])
      PROVE  FALSE
  <2> DEFINE D == {o \in DOMAIN heap : heap[o].kind \in kinds}
             S0 == {m \in D : \E n : In(P, n, m) /\ Id(ids, n, m) \in S}
             Good(C) == \A c \in C : c \in S0 \/ \E a \in C : c \in Pointers(heap[a])
             T == {b \in D : \E C \in SUBSET D : Good(C) /\ b \in C}
  <2>1. \A o \in S : o \in NewIn(h2, H) /\ o \in F /\ h2[o].kind \in kinds /\ o \notin H
    BY <1>8 DEF NewIn
  <2>2. \A n, m : In(P, n, m) /\ Id(ids, n, m) \in S => m \in S0
    BY <1>2, <1>4, <2>1
  <2>3. Good(S0) /\ S0 \in SUBSET D
    OBVIOUS
  <2>4. S0 \subseteq T
    BY <2>3
  <2>5. \A C \in SUBSET D : Good(C) => C \subseteq T
    OBVIOUS
  <2>6. \A b \in T : b \in S0 \/ \E a \in T : b \in Pointers(heap[a])
    <3> SUFFICES ASSUME NEW b \in T, b \notin S0 PROVE \E a \in T : b \in Pointers(heap[a])
      OBVIOUS
    <3>1. PICK C \in SUBSET D : Good(C) /\ b \in C
      OBVIOUS
    <3>2. C \subseteq T
      BY <2>5, <3>1
    <3>3. \E a \in C : b \in Pointers(heap[a])
      BY <3>1
    <3> QED
      BY <3>2, <3>3
  <2>61. \A m \in S0 : m \in D /\ \E n : In(P, n, m) /\ Id(ids, n, m) \in S
    OBVIOUS
  <2>62. T \subseteq D
    OBVIOUS
  <2>63. \A B : B \subseteq D /\ (\A b \in B : b \in S0 \/ \E a \in B : b \in Pointers(heap[a])) => B \subseteq T
    BY <2>5
  <2>64. D = {o \in DOMAIN heap : heap[o].kind \in kinds}
    OBVIOUS
  <2> HIDE DEF T, S0, D
  <2>7. ASSUME NEW b \in S0 PROVE \E a \in T : b \in Pointers(heap[a])
    <3>1. PICK n : In(P, n, b) /\ Id(ids, n, b) \in S
      BY <2>61
    <3>2. PICK o \in S : Id(ids, n, b) \in Pointers(h2[o])
      BY <1>8, <3>1
    <3>3. \/ \E k, m, q : PartAt(P, ids, k, m, q, o, Id(ids, n, b)) /\ q \in Pointers(heap[m])
          \/ \E k : In(P, k, k) /\ Id(ids, n, b) = Id(ids, k, k) /\ holder[k] = o
      BY <1>6, <2>1, <3>1, <3>2
    <3>4. CASE \E k, m, q : PartAt(P, ids, k, m, q, o, Id(ids, n, b)) /\ q \in Pointers(heap[m])
      <4>1. PICK k, m, q : PartAt(P, ids, k, m, q, o, Id(ids, n, b)) /\ q \in Pointers(heap[m])
        BY <3>4
      <4>2. In(P, k, m) /\ In(P, k, q) /\ o = Id(ids, k, m) /\ Id(ids, n, b) = Id(ids, k, q)
        BY <4>1 DEF PartAt
      <4>3. q = b /\ m \in S0
        BY <1>5, <2>2, <3>1, <3>2, <4>2
      <4> QED
        BY <2>4, <4>1, <4>3
    <3>5. CASE \E k : In(P, k, k) /\ Id(ids, n, b) = Id(ids, k, k) /\ holder[k] = o
      <4>1. PICK c : In(P, c, c) /\ Id(ids, n, b) = Id(ids, c, c) /\ holder[c] = o
        BY <3>5
      <4>2. c = b /\ heap[b].kind \in kinds /\ In(P, b, b) /\ holder[b] = o
        <5>1. c = b
          BY <1>5, <3>1, <4>1
        <5>2. b \in D
          BY <2>61
        <5> QED
          BY <4>1, <5>1, <5>2, <2>64
      <4>3. \E q \in NewIn(h2, H) : o \in Pointers(h2[q])
        BY <1>8, <2>1, <3>2
      <4>4. PICK k, B : In(P, k, k) /\ o = Id(ids, k, k) /\ Leads(B, k, b, kinds)
        BY <2>1, <3>2, <4>2, <4>3 DEF Nested
      <4>5. k \in S0
        BY <2>2, <3>2, <4>4
      <4>6. B \subseteq D /\ k \in B /\ (\E a \in B : b \in Pointers(heap[a])) /\ \A c2 \in B : c2 # k => \E a \in B : c2 \in Pointers(heap[a])
        BY <2>64, <4>4 DEF Leads
      <4>7. B \subseteq T
        BY <2>63, <4>5, <4>6
      <4> QED
        BY <4>6, <4>7
    <3> QED
      BY <3>3, <3>4, <3>5
  <2>8. T # {}
    <3>1. PICK p \in S : TRUE
      BY <1>8
    <3>2. PICK o \in S : p \in Pointers(h2[o])
      BY <1>8
    <3>3. \/ \E k, m, q : PartAt(P, ids, k, m, q, o, p) /\ q \in Pointers(heap[m])
          \/ \E k : In(P, k, k) /\ p = Id(ids, k, k) /\ holder[k] = o
      BY <1>6, <2>1, <3>2
    <3>4. \E n, m : In(P, n, m) /\ p = Id(ids, n, m)
      BY <3>3 DEF PartAt
    <3> QED
      BY <2>2, <2>4, <3>4
  <2>9. T \in SUBSET {o \in DOMAIN heap : heap[o].kind \in kinds}
    BY <2>62, <2>64
  <2> QED
    BY <2>6, <2>7, <2>8, <2>9 DEF Acyclic
<1>9. \A S \in SUBSET {o \in DOMAIN h2 \ DOMAIN heap : h2[o].kind \in kinds} :
        S # {} => \E p \in S : \A o \in S : p \notin Pointers(h2[o])
  BY <1>8
<1> QED
  BY <1>7, <1>9, AcyclicNew

\* EditStep, for a family.
LEMMA FamilyStep ==
  ASSUME Safe(heap, mine, lost), NEW roots \in SUBSET DOMAIN heap, NEW H \in SUBSET DOMAIN heap,
         NEW h2, NEW mn2, NEW ls2, NEW D, D = Deleted(roots), NEW r2, r2 = Relic(h2, mn2, ls2),
         \A d \in D : heap[d].live,
         H \cap D = {}, \A n \in H : heap[n].live /\ ~Stray(heap, mine, n),
         h2 \in Seq(Object), DOMAIN heap \subseteq DOMAIN h2,
         \A o \in DOMAIN heap \ H : h2[o] = Freed(heap, D)[o],
         \A n \in H : h2[n].kind = heap[n].kind /\ h2[n].live,
         \A o \in DOMAIN h2 \ DOMAIN heap : h2[o].live,
         \A o \in NewIn(h2, H) : Fit(h2, h2[o]),
         NEW P, NEW ids, NEW holder, NEW L, Family(h2, mn2, P, ids, holder, H),
         \A o \in NewIn(h2, H) : PointsAs(h2, mn2, r2, P, ids, holder, L, H, o),
         \A o \in NewIn(h2, H) : BorrowsAs(h2, mn2, roots, P, ids, holder, L, H, o),
         \A o, p : Sole(h2, mn2, P, ids, H, o, p) /\ o \in NewIn(h2, H) /\ p \in Pointers(h2[o]) =>
           h2[o].kind \in LeafKind \ {"Expr"} \/ h2[p].kind \in LeafKind \ {"Expr"},
         Nested(h2, P, ids, holder, NodeKind, H), Nested(h2, P, ids, holder, {"Expr"}, H),
         LetGo(h2, roots, H), NewKept(h2, mn2, ls2, roots, H),
         \A p \in mn2 : p \in mine \ roots \/ p \in DOMAIN h2 \ DOMAIN heap,
         lost \subseteq ls2, ls2 \subseteq DOMAIN h2
  PROVE  Safe(h2, mn2, ls2)
<1>0. Formed(heap) /\ Acyclic(heap, NodeKind) /\ Acyclic(heap, {"Expr"}) /\ mine \subseteq DOMAIN heap
  BY DEF Safe, Held
<1>1. /\ \A o \in DOMAIN heap \ D : h2[o] = heap[o] \/ o \in H
      /\ \A o \in DOMAIN heap \ H : Pointers(h2[o]) \subseteq Pointers(heap[o]) /\ h2[o].kind = heap[o].kind /\ h2[o].lent = heap[o].lent
  <2> DEFINE f == Freed(heap, D)
  <2>1. f = Freed(heap, D)
    OBVIOUS
  <2> HIDE DEF f
  <2>2. /\ \A o \in DOMAIN heap \ D : f[o] = heap[o]
        /\ \A o \in DOMAIN heap \cap D : Pointers(f[o]) = {} /\ ~f[o].live /\ f[o].lent = heap[o].lent
        /\ \A o \in DOMAIN heap : f[o].kind = heap[o].kind
    <3>1. IsFreed(heap, f, D)
      BY <1>0, <2>1, FreedIs
    <3> QED
      BY <2>1, <3>1 DEF IsFreed
  <2>3. \A o \in DOMAIN heap \ H : h2[o] = f[o]
    BY <2>1
  <2> QED
    BY <2>2, <2>3
<1>2. SameKinds(heap, h2)
  BY <1>1 DEF SameKinds
<1>3. \A o \in DOMAIN heap : Pointers(heap[o]) \subseteq DOMAIN heap
  BY <1>0, PointersInHeap
<1>31. /\ roots \subseteq D
       /\ \A p \in D \ roots : \E d \in D : p \in Pointers(heap[d])
       /\ D \subseteq DOMAIN heap
  BY DeletedFacts
<1>4. ASSUME NEW s, Stray(heap, mine, s) PROVE Stray(h2, mn2, s) /\ h2[s] = heap[s]
  <2>1. /\ s \in DOMAIN heap /\ s \notin mine \cup kept
        /\ \A o \in DOMAIN heap : s \notin Pointers(heap[o]) /\ s \notin Range(heap[o].lent)
    BY <1>4 DEF Stray
  <2>2. s \notin D
    <3>1. s \notin roots
      BY <2>1 DEF LetGo
    <3> QED
      BY <3>1, <2>1, <1>31
  <2>3. h2[s] = heap[s]
    BY <2>1, <2>2, <1>1, <1>4
  <2>4. s \in DOMAIN h2 /\ s \notin mn2 \cup kept
    BY <2>1
  <2>5. ASSUME NEW o \in DOMAIN h2, s \in Pointers(h2[o]) PROVE FALSE
    <3>1. o \in NewIn(h2, H)
      BY <1>1, <2>1, <2>5 DEF NewIn
    <3>2. ~ \E n, m, q : PartAt(P, ids, n, m, q, o, s)
      BY <2>1 DEF PartAt, Family
    <3>3. ~ \E n : In(P, n, n) /\ s = Id(ids, n, n)
      BY <2>1 DEF Family
    <3>4. ~Sole(h2, mn2, P, ids, H, o, s) /\ ~SharedWith(h2, r2, o, s) /\ ~(o \in H /\ s \in Pointers(heap[o]))
      BY <2>1 DEF Sole, SharedWith
    <3> QED
      BY <2>5, <3>1, <3>2, <3>3, <3>4 DEF PointsAs
  <2>6. ASSUME NEW o \in DOMAIN h2, s \in Range(h2[o].lent) PROVE FALSE
    <3>1. CASE o \in NewIn(h2, H)
      BY <3>1, <2>6, <1>4 DEF BorrowsAs
    <3>2. CASE o \in DOMAIN heap \ H
      BY <3>2, <2>1, <2>6, <1>1
    <3> QED
      BY <3>1, <3>2 DEF NewIn
  <2> QED
    BY <2>3, <2>4, <2>5, <2>6 DEF Stray
<1>5. TheRelic => r2
  BY <1>2, <1>4 DEF TheRelic, Relic
<1>6. NewEdges(h2, mn2, ls2, roots, H)
  BY <1>0, <1>2, <1>5, FamilyEdges
<1>7. NewLending(h2, mn2, roots, H)
  BY <1>2, FamilyLending
<1>8. ASSUME NEW kinds, kinds \in {NodeKind, {"Expr"}} PROVE Acyclic(h2, kinds)
  <2>1. Acyclic(heap, kinds) /\ Nested(h2, P, ids, holder, kinds, H)
    BY <1>0, <1>8
  <2>2. \A o, p : Sole(h2, mn2, P, ids, H, o, p) /\ o \in NewIn(h2, H) /\ p \in Pointers(h2[o]) =>
           h2[o].kind \notin kinds \/ h2[p].kind \notin kinds
    BY <1>8 DEF LeafKind, NodeKind, OrdinaryKind, ParamKind
  <2>3. \A o \in DOMAIN heap \ H : Pointers(h2[o]) \subseteq Pointers(heap[o])
    BY <1>1
  <2> QED
    BY <1>2, <2>1, <2>2, <2>3, FamilyAcyclic
<1>9. Acyclic(h2, NodeKind) /\ Acyclic(h2, {"Expr"})
  BY <1>8
<1> QED
  BY <1>6, <1>7, <1>9, EditStep
-----------------------------------------------------------------------------
\* new says where the family has the copies that belong to the copy of n.
SiteNames(new, P, ids, n) == \A q \in DOMAIN new : In(P, n, q) /\ new[q] = Id(ids, n, q)

\* A copy, as a member of the family, with the pointers it got besides.
LEMMA CopyPointsAs ==
  ASSUME NEW h2, NEW mn2, NEW r2, NEW P, NEW ids, NEW holder, NEW L, NEW H, NEW o,
         NEW n, NEW m \in DOMAIN heap, NEW new, NEW dropped, NEW y,
         Formed(heap), SameKinds(heap, h2),
         In(P, n, m), n \notin ClonedParts(m), o = Id(ids, n, m), o \notin DOMAIN heap, h2[o].kind = heap[m].kind,
         SiteNames(new, P, ids, n), CopyPoints(y, m, new, dropped),
         \A p \in Pointers(h2[o]) : p \in Pointers(y) \/ \E k : In(P, k, k) /\ k \notin L /\ p = Id(ids, k, k) /\ holder[k] = o
  PROVE  PointsAs(h2, mn2, r2, P, ids, holder, L, H, o)
<1> SUFFICES ASSUME NEW p \in Pointers(h2[o])
             PROVE  \/ SharedWith(h2, r2, o, p)
                    \/ \E k, l, q : PartAt(P, ids, k, l, q, o, p) /\ q \in Pointers(heap[l])
                    \/ \E k : In(P, k, k) /\ k \notin L /\ p = Id(ids, k, k) /\ holder[k] = o
  BY DEF PointsAs
<1>1. CASE p \in Pointers(heap[m]) /\ MayShare(heap, FALSE, m, p)
  <2>1. p \in DOMAIN heap
    BY <1>1, PointersInHeap
  <2>2. MayShare(h2, r2, o, p) /\ MayShare(h2, r2, m, p)
    BY <1>1, <2>1 DEF MayShare, SameKinds
  <2> QED
    BY <1>1, <2>2 DEF SharedWith
<1>2. CASE \E q \in ClonedParts(m) : q \in Pointers(heap[m]) /\ q \in DOMAIN new /\ q \notin dropped /\ p = new[q]
  <2>1. PICK q \in ClonedParts(m) : q \in Pointers(heap[m]) /\ q \in DOMAIN new /\ p = new[q]
    BY <1>2
  <2>2. PartAt(P, ids, n, m, q, o, p)
    BY <2>1 DEF PartAt, SiteNames
  <2> QED
    BY <2>1, <2>2
<1> QED
  BY <1>1, <1>2 DEF CopyPoints

\* The same of what a copy borrows.
LEMMA CopyBorrowsAs ==
  ASSUME NEW h2, NEW mn2, NEW roots, NEW P, NEW ids, NEW holder, NEW L, NEW H, NEW o,
         NEW n, NEW m \in DOMAIN heap, NEW new, NEW dropped, NEW y, NewNames(new),
         In(P, n, m), n \notin ClonedParts(m), o = Id(ids, n, m), h2[o].kind = heap[m].kind,
         SiteNames(new, P, ids, n), CopyPoints(y, m, new, dropped),
         \A c \in Range(h2[o].lent) :
           \/ c \in Range(y.lent)
           \/ \E k : In(P, k, k) /\ k \in L /\ c = Id(ids, k, k) /\ holder[k] = o /\ c \notin DOMAIN heap
  PROVE  BorrowsAs(h2, mn2, roots, P, ids, holder, L, H, o)
<1> SUFFICES ASSUME NEW c \in Range(h2[o].lent)
             PROVE  /\ ~Stray(heap, mine, c)
                    /\ heap[m].kind = "Interaction" =>
                         \/ \E k, l, q : PartAt(P, ids, k, l, q, o, c) /\ q \in Range(heap[l].lent) /\ heap[l].kind = "Interaction"
                         \/ \E k : In(P, k, k) /\ k \in L /\ c = Id(ids, k, k) /\ holder[k] = o
  BY DEF BorrowsAs
<1>1. CASE c \in Range(y.lent) /\ heap[m].kind = "Interaction"
  <2>1. PICK q \in ClonedParts(m) : q \in Range(heap[m].lent) /\ q \in DOMAIN new /\ c = new[q]
    BY <1>1 DEF CopyPoints
  <2>2. PartAt(P, ids, n, m, q, o, c)
    BY <2>1 DEF PartAt, SiteNames
  <2>3. c \notin DOMAIN heap
    BY <2>1 DEF NewNames
  <2> QED
    BY <1>1, <2>1, <2>2, <2>3 DEF Stray
<1>2. CASE c \in Range(y.lent) /\ heap[m].kind # "Interaction"
  <2>1. c \in Range(heap[m].lent)
    BY <1>2 DEF CopyPoints
  <2> QED
    BY <1>2, <2>1 DEF Stray
<1>3. CASE \E k : In(P, k, k) /\ k \in L /\ c = Id(ids, k, k) /\ holder[k] = o /\ c \notin DOMAIN heap
  BY <1>3 DEF Stray
<1> QED
  BY <1>1, <1>2, <1>3

\* The copy of a part is found in the copy of its owner.
LEMMA CopyFound ==
  ASSUME NEW h2, NEW mn2, NEW ls2, NEW o \in DOMAIN h2, NEW m, NEW new, NEW dropped, NEW y,
         CopyPoints(y, m, new, dropped), h2[o].kind = heap[m].kind,
         Pointers(y) \subseteq Pointers(h2[o]), Range(y.lent) \subseteq Range(h2[o].lent),
         NEW q \in ClonedParts(m), q \notin dropped
  PROVE  Found(h2, mn2, ls2, new[q])
<1>1. new[q] \in Pointers(h2[o]) \/ (h2[o].kind = "Interaction" /\ new[q] \in Range(h2[o].lent))
  BY DEF CopyPoints
<1> QED
  BY <1>1 DEF Found, Lends

-----------------------------------------------------------------------------
\* D is freed in g, which is the heap as far as D goes.
LEMMA FreedMore ==
  ASSUME Formed(heap), NEW g \in Seq(Object), NEW D \in SUBSET DOMAIN heap,
         DOMAIN heap \subseteq DOMAIN g, \A q \in D : g[q] = heap[q],
         NEW h2, h2 = Freed(g, D)
  PROVE  /\ h2 \in Seq(Object) /\ DOMAIN h2 = DOMAIN g
         /\ \A o \in DOMAIN g : o \notin D => h2[o] = g[o]
         /\ \A o \in DOMAIN heap : g[o] = heap[o] => h2[o] = Freed(heap, D)[o]
<1>1. DOMAIN h2 = DOMAIN g /\ \A o \in DOMAIN g : o \notin D => h2[o] = g[o]
  BY DEF Freed
<1>2. \A o \in DOMAIN heap : g[o] = heap[o] => h2[o] = Freed(heap, D)[o]
  BY DEF Freed
<1>3. DOMAIN g = 1..Len(g) /\ Len(g) \in Nat
  OBVIOUS
<1>4. Freed(heap, D) \in Seq(Object) /\ DOMAIN Freed(heap, D) = DOMAIN heap
  <2>1. ASSUME NEW f, f = Freed(heap, D) PROVE DOMAIN f = DOMAIN heap /\ f \in Seq(Object)
    BY <2>1, FreedFacts
  <2> QED
    BY <2>1
<1>5. ASSUME NEW o \in DOMAIN g PROVE h2[o] \in Object
  <2>1. CASE o \in D
    BY <1>2, <1>4, <2>1
  <2>2. CASE o \notin D
    BY <1>1, <2>2
  <2> QED
    BY <2>1, <2>2
<1>6. h2 = [o \in 1..Len(g) |-> h2[o]]
  BY <1>3 DEF Freed
<1>7. h2 \in [1..Len(g) -> Object]
  BY <1>3, <1>5, <1>6
<1>8. h2 \in Seq(Object)
  BY <1>3, <1>7
<1> QED
  BY <1>1, <1>2, <1>8

\* Copies of C after objects.
WithCopies(objects, C, new, dropped) ==
  objects \o [i \in 1..Cardinality(C) |-> CopyOf(AtId(new, Len(objects) + i), new, dropped)]

\* The copies of C, one after the other behind objects.
IsLaid(h2, objects, C, new, dropped) ==
  /\ NewNames(new) /\ DOMAIN new = C
  /\ h2 \in Seq(Object) /\ Len(h2) = Len(objects) + Cardinality(C) /\ Cardinality(C) \in Nat
  /\ DOMAIN h2 = DOMAIN objects \cup {new[m] : m \in C}
  /\ \A m \in C : new[m] \notin DOMAIN objects /\ IsCopy(h2[new[m]], m, new, dropped)
  /\ \A o \in DOMAIN objects : h2[o] = objects[o]
  /\ Len(objects) \in Nat /\ \A m \in C : new[m] \in (Len(objects) + 1)..(Len(objects) + Cardinality(C))

LEMMA WithCopiesFacts ==
  ASSUME Safe(heap, mine, lost), NEW C \in SUBSET DOMAIN heap, NEW dropped,
         NEW objects \in Seq(Object), DOMAIN heap \subseteq DOMAIN objects,
         NEW new, new = Ranked(Len(objects), C), NEW h2, h2 = WithCopies(objects, C, new, dropped)
  PROVE  IsLaid(h2, objects, C, new, dropped)
<1> DEFINE n == Len(objects)
           k == Cardinality(C)
<1>0. heap \in Seq(Object) /\ DOMAIN heap = 1..Len(heap) /\ Len(heap) \in Nat
  BY PointersInHeap DEF Safe, Formed
<1>1. C \in SUBSET (1..Len(heap))
  BY <1>0
<1>2. n \in Nat /\ DOMAIN objects = 1..n /\ new = Ranked(n, C)
  OBVIOUS
<1>21. h2 = objects \o [i \in 1..k |-> CopyOf(AtId(new, n + i), new, dropped)]
  BY DEF WithCopies
<1>22. \A m \in C : m \in DOMAIN heap
  BY <1>0, <1>1
<1> HIDE DEF n, k
<1>3. Numbers(new, C, n)
  BY <1>0, <1>1, <1>2, RankedNumbers
<1>31. k \in Nat
  BY <1>0, <1>1, PartIsFinite DEF k
<1>4. /\ DOMAIN new = C
      /\ \A i \in (n + 1)..(n + k) : AtId(new, i) \in C /\ new[AtId(new, i)] = i
      /\ \A p \in C : AtId(new, new[p]) = p
  BY <1>3, AtIdFacts DEF k
<1>5. \A p \in C : new[p] \in (n + 1)..(n + k)
  BY <1>3 DEF Numbers, k
<1>6. \A p, q \in C : new[p] = new[q] => p = q
  BY <1>3 DEF Numbers
<1>7. \A p \in C : new[p] \in Nat /\ new[p] # 0 /\ new[p] \notin DOMAIN objects /\ new[p] \notin DOMAIN heap
  BY <1>0, <1>2, <1>31, <1>5
<1>8. NewNames(new)
  BY <1>22, <1>4, <1>6, <1>7 DEF NewNames
<1>9. ASSUME NEW m \in C PROVE IsCopy(CopyOf(m, new, dropped), m, new, dropped)
  <2>1. PICK x : x = CopyOf(m, new, dropped)
    OBVIOUS
  <2>2. m \in DOMAIN heap
    BY <1>22
  <2>3. IsCopy(x, m, new, dropped)
    BY <1>8, <2>1, <2>2, CopyFacts
  <2> QED
    BY <2>1, <2>3
<1>10. PICK b : b = [i \in 1..k |-> CopyOf(AtId(new, n + i), new, dropped)]
  OBVIOUS
<1>11. \A i \in 1..k : AtId(new, n + i) \in C /\ new[AtId(new, n + i)] = n + i
  BY <1>2, <1>31, <1>4
<1>12. \A i \in 1..k : b[i] = CopyOf(AtId(new, n + i), new, dropped) /\ b[i] \in Object
  BY <1>9, <1>10, <1>11 DEF IsCopy
<1>13. b \in Seq(Object) /\ Len(b) = k
  <2>1. b \in [1..k -> Object]
    <3>1. b = [i \in 1..k |-> b[i]]
      BY <1>10
    <3> QED
      BY <1>12, <3>1
  <2> QED
    BY <1>31, <2>1
<1>14. IsCat(h2, objects, b)
  <2>1. h2 = objects \o b
    BY <1>10, <1>21
  <2> QED
    BY <1>13, <2>1, HeapCat
<1>15. /\ h2 \in Seq(Object) /\ Len(h2) = n + k /\ DOMAIN h2 = 1..(n + k)
       /\ \A o \in DOMAIN objects : h2[o] = objects[o]
       /\ \A i \in 1..k : h2[n + i] = b[i]
  BY <1>13, <1>14 DEF IsCat, n
<1>16. \A m \in C : IsCopy(h2[new[m]], m, new, dropped)
  <2> SUFFICES ASSUME NEW m \in C PROVE IsCopy(h2[new[m]], m, new, dropped)
    OBVIOUS
  <2>1. new[m] - n \in 1..k /\ n + (new[m] - n) = new[m]
    BY <1>2, <1>31, <1>5
  <2>2. h2[new[m]] = CopyOf(AtId(new, new[m]), new, dropped)
    BY <1>12, <1>15, <2>1
  <2> QED
    BY <1>4, <1>9, <2>2
<1>17. DOMAIN h2 = DOMAIN objects \cup {new[m] : m \in C}
  <2>1. \A i \in DOMAIN h2 : i \in DOMAIN objects \/ i \in (n + 1)..(n + k)
    BY <1>15, <1>2, <1>31
  <2>2. \A i \in DOMAIN h2 : i \in DOMAIN objects \cup {new[m] : m \in C}
    BY <1>4, <2>1
  <2>3. \A m \in C : new[m] \in DOMAIN h2
    BY <1>15, <1>2, <1>31, <1>5
  <2>4. DOMAIN objects \subseteq DOMAIN h2
    BY <1>15, <1>2, <1>31
  <2> QED
    BY <2>2, <2>3, <2>4
<1> QED
  BY <1>2, <1>4, <1>5, <1>7, <1>8, <1>15, <1>16, <1>17, <1>31 DEF IsLaid, n, k

\* What clone() puts after objects.
IsWithClone(h2, objects, a, new) ==
  /\ NewNames(new) /\ DOMAIN new = Cloned(a)
  /\ h2 \in Seq(Object) /\ Len(h2) = Len(objects) + Cardinality(Cloned(a)) /\ Cardinality(Cloned(a)) \in Nat
  /\ DOMAIN h2 = DOMAIN objects \cup {new[m] : m \in Cloned(a)}
  /\ \A m \in Cloned(a) : new[m] \notin DOMAIN objects /\ IsCopy(h2[new[m]], m, new, {})
  /\ \A o \in DOMAIN objects : h2[o] = objects[o]
  /\ Len(objects) \in Nat /\ \A m \in Cloned(a) : new[m] \in (Len(objects) + 1)..(Len(objects) + Cardinality(Cloned(a)))

LEMMA WithCloneFacts ==
  ASSUME Safe(heap, mine, lost), NEW a \in DOMAIN heap, NEW objects \in Seq(Object), DOMAIN heap \subseteq DOMAIN objects,
         NEW h2, h2 = WithClone(objects, a), NEW new, new = CloneIds(objects, a)
  PROVE  IsWithClone(h2, objects, a, new)
<1>1. PICK C, none : C = Cloned(a) /\ none = {}
  OBVIOUS
<1>2. C \in SUBSET DOMAIN heap
  BY <1>1, ClonedFacts
<1>3. new = Ranked(Len(objects), C)
  BY <1>1 DEF CloneIds
<1>4. h2 = WithCopies(objects, C, new, none)
  BY <1>1, <1>3 DEF WithClone, WithCopies, CloneIds
<1>5. IsLaid(h2, objects, C, new, none)
  BY <1>2, <1>3, <1>4, WithCopiesFacts
<1> QED
  BY <1>1, <1>5 DEF IsLaid, IsWithClone
-----------------------------------------------------------------------------
\* h2 has the copies that clone() of a makes, and X besides.
ClonesAre(h2, a, new, X) ==
  /\ NewNames(new) /\ DOMAIN new = Cloned(a)
  /\ h2 \in Seq(Object) /\ DOMAIN heap \subseteq DOMAIN h2
  /\ DOMAIN h2 \ DOMAIN heap = X \cup {new[m] : m \in Cloned(a)}
  /\ \A m \in Cloned(a) : new[m] \notin X /\ IsCopy(h2[new[m]], m, new, {})

\* g gets the pointer to the copy of a, or else the program does.
HolderFits(h2, a, new, X, H, g, mn2, roots) ==
  /\ \A o \in H \cup X :
       /\ \A p \in Pointers(h2[o]) : (o \in H /\ p \in Pointers(heap[o])) \/ (p = new[a] /\ g = o)
       /\ \A c \in Range(h2[o].lent) : o \in H /\ c \in Range(heap[o].lent) /\ (h2[o].kind = "Interaction" => c \notin roots)
       /\ Fit(h2, h2[o])
       /\ h2[o].live
  /\ g \in H \cup X => new[a] \in Pointers(h2[g]) /\ heap[a].kind \in LeafKind \ {"Expr"}
  /\ g \notin H \cup X => new[a] \in mn2 /\ g \notin NewIn(h2, H)
  /\ \A m \in Cloned(a) : new[m] \in mn2 => m = a /\ g \notin NewIn(h2, H)
  /\ X \subseteq mn2
  /\ \A p \in mine : p \in roots \/ p \in mn2
  /\ \A n \in H : h2[n].kind = heap[n].kind
  /\ \A n \in H : \A p \in Pointers(heap[n]) : p \in Pointers(h2[n]) \cup roots
  /\ \A n \in H : \A p \in Range(heap[n].lent) : Lends(heap, n, p) => p \in Range(h2[n].lent) \cup roots

\* A call that clones a and gives the clone to the objects of H.
LEMMA CloneStep ==
  ASSUME Safe(heap, mine, lost), NEW a \in DOMAIN heap, \A m \in Cloned(a) : m \in Live,
         NEW roots \in SUBSET DOMAIN heap, NEW H \in SUBSET DOMAIN heap, NEW X,
         NEW h2, NEW mn2, NEW D, D = Deleted(roots), \A d \in D : d \in Live,
         H \cap D = {}, \A n \in H : n \in Live /\ ~Stray(heap, mine, n),
         \A o \in DOMAIN heap \ H : h2[o] = Freed(heap, D)[o],
         NEW new, NEW g, ClonesAre(h2, a, new, X), HolderFits(h2, a, new, X, H, g, mn2, roots),
         LetGo(h2, roots, H),
         \A p \in mn2 : p \in mine \ roots \/ p \in DOMAIN h2 \ DOMAIN heap
  PROVE  Safe(h2, mn2, lost)
<1> DEFINE C == Cloned(a)
           P == {a} \X C
           ids == [p \in P |-> new[p[2]]]
           holder == [n \in {a} |-> g]
           r2 == Relic(h2, mn2, lost)
<1>0. Formed(heap) /\ lost \subseteq DOMAIN heap
  BY DEF Safe
<1>1. /\ NewNames(new) /\ DOMAIN new = C
      /\ h2 \in Seq(Object) /\ DOMAIN heap \subseteq DOMAIN h2
      /\ DOMAIN h2 \ DOMAIN heap = X \cup {new[m] : m \in C}
      /\ \A m \in C : new[m] \notin X /\ IsCopy(h2[new[m]], m, new, {})
  BY DEF ClonesAre
<1>2. C \in SUBSET DOMAIN heap /\ a \in C /\ \A m \in C : ClonedParts(m) \subseteq C
  BY ClonedFacts
<1>21. \A p \in C : p = a \/ \E m \in C : p \in ClonedParts(m)
  BY ClonedFacts
<1>3. \A n, m : In(P, n, m) <=> n = a /\ m \in C
  BY DEF In
<1>4. \A m \in C : Id(ids, a, m) = new[m]
  BY DEF Id
<1>5. holder[a] = g
  OBVIOUS
<1>6. \A m \in C : new[m] \in DOMAIN h2 \ DOMAIN heap
  BY <1>1
<1>61. \A m, k \in C : new[m] = new[k] => m = k
  BY <1>1 DEF NewNames
<1> HIDE DEF C, P, ids, holder, r2
<1>7. NewIn(h2, H) = (H \cup X) \cup {new[m] : m \in C}
  BY <1>1 DEF NewIn
<1>8. SameKinds(heap, h2) /\ \A o \in DOMAIN heap \ H : h2[o].kind = heap[o].kind
  <2>1. \A o \in DOMAIN heap \ H : h2[o].kind = heap[o].kind
    <3>1. PICK f : f = Freed(heap, D)
      OBVIOUS
    <3>2. IsFreed(heap, f, D)
      BY <1>0, <3>1, FreedIs
    <3> QED
      BY <3>1, <3>2 DEF IsFreed
  <2>2. \A o \in H : h2[o].kind = heap[o].kind
    BY DEF HolderFits
  <2> QED
    BY <1>1, <2>1, <2>2 DEF SameKinds
<1>9. \A m \in C : h2[new[m]].kind = heap[m].kind /\ h2[new[m]].live
  BY <1>1 DEF IsCopy
<1>10. Family(h2, mn2, P, ids, holder, H)
  <2>1. \A m \in C : new[m] \in mn2 => m = a /\ g \notin NewIn(h2, H)
    BY DEF HolderFits, C
  <2>2. ASSUME NEW n, NEW m, In(P, n, m)
        PROVE  /\ n \in DOMAIN heap /\ m \in DOMAIN heap /\ In(P, n, n)
               /\ Id(ids, n, m) \in DOMAIN h2 \ DOMAIN heap /\ h2[Id(ids, n, m)].kind = heap[m].kind
               /\ Id(ids, n, m) \in mn2 => n = m /\ holder[n] \notin NewIn(h2, H)
    <3>1. n = a /\ m \in C
      BY <1>3, <2>2
    <3> QED
      BY <1>2, <1>3, <1>4, <1>5, <1>6, <1>9, <2>1, <3>1 DEF C
  <2>3. \A n, m, k, l : In(P, n, m) /\ In(P, k, l) /\ Id(ids, n, m) = Id(ids, k, l) => n = k /\ m = l
    BY <1>3, <1>4, <1>61
  <2> QED
    BY <2>2, <2>3 DEF Family
<1>11. SiteNames(new, P, ids, a)
  BY <1>1, <1>3, <1>4 DEF SiteNames
<1>12. ASSUME NEW m \in C PROVE CopyPoints(h2[new[m]], m, new, {})
  <2>1. PICK x : x = h2[new[m]]
    OBVIOUS
  <2>2. PICK none : none = {}
    OBVIOUS
  <2>3. IsCopy(x, m, new, none)
    BY <1>1, <2>1, <2>2
  <2>4. \A q \in ClonedParts(m) : q \in none \/ q \in DOMAIN new
    BY <1>1, <1>2
  <2>5. CopyPoints(x, m, new, none)
    BY <1>1, <1>2, <2>3, <2>4, CopyPointers
  <2> QED
    BY <2>1, <2>2, <2>5
<1>13. \A m \in C : /\ PointsAs(h2, mn2, r2, P, ids, holder, {}, H, new[m])
                    /\ BorrowsAs(h2, mn2, roots, P, ids, holder, {}, H, new[m])
  <2> SUFFICES ASSUME NEW m \in C
               PROVE  /\ PointsAs(h2, mn2, r2, P, ids, holder, {}, H, new[m])
                      /\ BorrowsAs(h2, mn2, roots, P, ids, holder, {}, H, new[m])
    OBVIOUS
  <2>1. PICK o : o = new[m]
    OBVIOUS
  <2>2. PICK y : y = h2[o]
    OBVIOUS
  <2>3. PICK none : none = {}
    OBVIOUS
  <2>4. /\ m \in DOMAIN heap /\ In(P, a, m) /\ o = Id(ids, a, m) /\ o \notin DOMAIN heap /\ h2[o].kind = heap[m].kind
        /\ CopyPoints(y, m, new, none)
    BY <1>2, <1>3, <1>4, <1>6, <1>9, <1>12, <2>1, <2>2, <2>3
  <2>41. a \notin ClonedParts(m)
    BY <1>2, NotInOwn DEF C
  <2>5. /\ \A p \in Pointers(h2[o]) : p \in Pointers(y) \/ \E k : In(P, k, k) /\ k \notin none /\ p = Id(ids, k, k) /\ holder[k] = o
        /\ \A c \in Range(h2[o].lent) :
           \/ c \in Range(y.lent)
           \/ \E k : In(P, k, k) /\ k \in none /\ c = Id(ids, k, k) /\ holder[k] = o /\ c \notin DOMAIN heap
    BY <2>2
  <2>6. PointsAs(h2, mn2, r2, P, ids, holder, none, H, o)
    BY <1>0, <1>8, <1>11, <2>4, <2>41, <2>5, CopyPointsAs
  <2>7. BorrowsAs(h2, mn2, roots, P, ids, holder, none, H, o)
    BY <1>1, <1>11, <2>4, <2>41, <2>5, CopyBorrowsAs
  <2> QED
    BY <2>1, <2>3, <2>6, <2>7
<1>14. \A o \in H \cup X : /\ PointsAs(h2, mn2, r2, P, ids, holder, {}, H, o)
                           /\ BorrowsAs(h2, mn2, roots, P, ids, holder, {}, H, o)
  <2> SUFFICES ASSUME NEW o \in H \cup X
               PROVE  /\ PointsAs(h2, mn2, r2, P, ids, holder, {}, H, o)
                      /\ BorrowsAs(h2, mn2, roots, P, ids, holder, {}, H, o)
    OBVIOUS
  <2>1. In(P, a, a) /\ new[a] = Id(ids, a, a)
    BY <1>2, <1>3, <1>4
  <2>2. \A p \in Pointers(h2[o]) : (o \in H /\ p \in Pointers(heap[o])) \/ (p = new[a] /\ g = o)
    BY DEF HolderFits
  <2>3. \A c \in Range(h2[o].lent) : o \in H /\ c \in Range(heap[o].lent) /\ (h2[o].kind = "Interaction" => c \notin roots)
    BY DEF HolderFits
  <2>4. PointsAs(h2, mn2, r2, P, ids, holder, {}, H, o)
    BY <1>5, <2>1, <2>2 DEF PointsAs
  <2>5. BorrowsAs(h2, mn2, roots, P, ids, holder, {}, H, o)
    BY <2>3 DEF BorrowsAs, Stray
  <2> QED
    BY <2>4, <2>5
<1>15. /\ \A o \in NewIn(h2, H) : PointsAs(h2, mn2, r2, P, ids, holder, {}, H, o)
       /\ \A o \in NewIn(h2, H) : BorrowsAs(h2, mn2, roots, P, ids, holder, {}, H, o)
  BY <1>7, <1>13, <1>14
<1>16. \A o \in NewIn(h2, H) : Fit(h2, h2[o])
  <2>1. \A o \in H \cup X : Fit(h2, h2[o])
    BY DEF HolderFits
  <2>2. ASSUME NEW m \in C PROVE Fit(h2, h2[new[m]])
    <3>1. PICK x : x = h2[new[m]]
      OBVIOUS
    <3>2. PICK none : none = {}
      OBVIOUS
    <3>3. m \in Live /\ IsCopy(x, m, new, none)
      BY <1>1, <3>1, <3>2 DEF C
    <3>4. SameKind(h2, new)
      BY <1>1, <1>6, <1>9 DEF SameKind
    <3>5. heap[m].kind = "Interaction" => \A p \in Range(heap[m].many) : heap[p].kind = "Msg" => p \notin none
      BY <3>2
    <3>6. Fit(h2, x)
      BY <1>1, <1>8, <3>3, <3>4, <3>5, CopyFit
    <3> QED
      BY <3>1, <3>6
  <2> QED
    BY <1>7, <2>1, <2>2
<1>17. \A o, p : Sole(h2, mn2, P, ids, H, o, p) /\ o \in NewIn(h2, H) /\ p \in Pointers(h2[o]) =>
           h2[o].kind \in LeafKind \ {"Expr"} \/ h2[p].kind \in LeafKind \ {"Expr"}
  <2> SUFFICES ASSUME NEW o, NEW p, Sole(h2, mn2, P, ids, H, o, p), o \in NewIn(h2, H), p \in Pointers(h2[o])
               PROVE  FALSE
    OBVIOUS
  <2>1. p \in X
    <3>1. p \in DOMAIN h2 \ DOMAIN heap /\ \A n, m : In(P, n, m) => p # Id(ids, n, m)
      BY DEF Sole
    <3> QED
      BY <1>1, <1>3, <1>4, <3>1
  <2>2. X \subseteq mn2
    BY DEF HolderFits
  <2> QED
    BY <2>1, <2>2 DEF Sole
<1>18. ASSUME NEW kinds, kinds \in {NodeKind, {"Expr"}} PROVE Nested(h2, P, ids, holder, kinds, H)
  <2> SUFFICES ASSUME NEW n, In(P, n, n), heap[n].kind \in kinds, holder[n] \in NewIn(h2, H) PROVE FALSE
    BY DEF Nested
  <2>1. n = a /\ g \in NewIn(h2, H)
    BY <1>3, <1>5
  <2>2. heap[a].kind \in LeafKind \ {"Expr"}
    BY <2>1 DEF HolderFits
  <2> QED
    BY <1>18, <2>1, <2>2 DEF LeafKind, NodeKind, OrdinaryKind, ParamKind
<1>19. NewKept(h2, mn2, lost, roots, H)
  <2>1. /\ \A n \in H : \A p \in Pointers(heap[n]) : p \in Pointers(h2[n]) \cup roots
        /\ \A n \in H : \A p \in Range(heap[n].lent) : Lends(heap, n, p) => p \in Range(h2[n].lent) \cup roots
        /\ \A p \in mine : p \in roots \/ p \in mn2
        /\ X \subseteq mn2
    BY DEF HolderFits
  <2>2. ASSUME NEW p \in C PROVE Found(h2, mn2, lost, new[p])
    <3>1. CASE p = a
      <4>1. CASE g \in H \cup X
        <5>1. new[a] \in Pointers(h2[g]) /\ g \in DOMAIN h2
          BY <1>1, <4>1 DEF HolderFits
        <5> QED
          BY <3>1, <5>1 DEF Found
      <4>2. CASE g \notin H \cup X
        BY <3>1, <4>2 DEF HolderFits, Found
      <4> QED
        BY <4>1, <4>2
    <3>2. CASE p # a
      <4>1. PICK m \in C : p \in ClonedParts(m)
        BY <1>21, <3>2 DEF C
      <4>2. PICK o \in DOMAIN h2 : o = new[m]
        BY <1>6
      <4>3. PICK y : y = h2[o]
        OBVIOUS
      <4>4. PICK none : none = {}
        OBVIOUS
      <4>5. CopyPoints(y, m, new, none) /\ h2[o].kind = heap[m].kind /\ p \notin none
        BY <1>9, <1>12, <4>2, <4>3, <4>4
      <4>6. Pointers(y) \subseteq Pointers(h2[o]) /\ Range(y.lent) \subseteq Range(h2[o].lent)
        BY <4>3
      <4> QED
        BY <4>1, <4>5, <4>6, CopyFound
    <3> QED
      BY <3>1, <3>2
  <2>3. \A p \in mine \cup (DOMAIN h2 \ DOMAIN heap) : p \in roots \/ Found(h2, mn2, lost, p)
    BY <1>1, <2>1, <2>2 DEF Found
  <2> QED
    BY <2>1, <2>3 DEF NewKept
<1>20. /\ \A n \in H : h2[n].kind = heap[n].kind /\ h2[n].live
       /\ \A o \in DOMAIN h2 \ DOMAIN heap : h2[o].live
  BY <1>1, <1>9 DEF HolderFits
<1>22. /\ \A d \in D : heap[d].live
       /\ \A n \in H : heap[n].live /\ ~Stray(heap, mine, n)
  BY DEF Live
<1>23. lost \subseteq lost /\ lost \subseteq DOMAIN h2
  BY <1>0, <1>1
<1>24. /\ \A o \in NewIn(h2, H) : PointsAs(h2, mn2, r2, P, ids, holder, {}, H, o)
       /\ \A o \in NewIn(h2, H) : BorrowsAs(h2, mn2, roots, P, ids, holder, {}, H, o)
       /\ r2 = Relic(h2, mn2, lost)
  BY <1>15 DEF r2
<1>25. Nested(h2, P, ids, holder, NodeKind, H) /\ Nested(h2, P, ids, holder, {"Expr"}, H)
  BY <1>18
<1>26. PICK L : L = {}
  OBVIOUS
<1>27. /\ \A o \in NewIn(h2, H) : PointsAs(h2, mn2, r2, P, ids, holder, L, H, o)
       /\ \A o \in NewIn(h2, H) : BorrowsAs(h2, mn2, roots, P, ids, holder, L, H, o)
  BY <1>24, <1>26
<1> QED
  BY <1>1, <1>10, <1>16, <1>17, <1>19, <1>20, <1>22, <1>23, <1>24, <1>25, <1>27, FamilyStep
-----------------------------------------------------------------------------
\* x fits as soon as the copy of a has its kind.
FitWith(x, new, a) ==
  \A h2 : SameKinds(heap, h2) /\ new[a] \in DOMAIN h2 /\ h2[new[a]].kind = heap[a].kind => Fit(h2, x)

\* n becomes x, which has the copy of a, and lets go of roots.
HostGets(n, x, new, a, roots) ==
  /\ x.kind = heap[n].kind /\ x.live /\ x.lent = heap[n].lent
  /\ heap[n].kind = "Interaction" => Range(heap[n].lent) \cap roots = {}
  /\ \A p \in Pointers(x) : p \in Pointers(heap[n]) \/ p = new[a]
  /\ new[a] \in Pointers(x) /\ heap[a].kind \in LeafKind \ {"Expr"}
  /\ \A p \in Pointers(heap[n]) : p \in Pointers(x) \cup roots
  /\ \A r \in roots : r \in Pointers(heap[n]) /\ r \notin Pointers(x)
  /\ FitWith(x, new, a)

\* CloneStep, for one edited object.
LEMMA HostClone ==
  ASSUME IInv, UNCHANGED <<kept, due>>, ub = Defined, NEW n \in Live, ~Stray(heap, mine, n), NEW a \in Live,
         NEW edited, OnlyAt(n, edited), NEW roots \in SUBSET DOMAIN heap, roots \cap mine = {},
         n \notin Deleted(roots), HostGets(n, edited[n], CloneIds(edited, a), a, roots),
         Replace(roots, a, WithClone(edited, a))
  PROVE  IInv'
<1>1. Safe(heap, mine, lost) /\ Formed(heap) /\ lost \subseteq DOMAIN heap
  BY DEF IInv
<1>2. n \in DOMAIN heap /\ heap[n].live /\ a \in DOMAIN heap /\ heap[a].live
  BY DEF Live
<1>3. edited \in Seq(Object) /\ DOMAIN edited = DOMAIN heap /\ \A q \in DOMAIN heap : q # n => edited[q] = heap[q]
  BY DEF OnlyAt
<1> DEFINE D == Deleted(roots)
           w == Wrong(roots, a)
           g == WithClone(edited, a)
           new == CloneIds(edited, a)
           f == Freed(g, D)
<1>4. /\ ub' = w /\ heap' = IF w = Defined THEN f ELSE heap
      /\ mine' = mine /\ lost' = lost /\ profile' = profile
  BY DEF Replace, DeleteFirst
<1>41. HostGets(n, edited[n], new, a, roots)
  OBVIOUS
<1>42. D = Deleted(roots) /\ n \notin D
  OBVIOUS
<1>43. g = WithClone(edited, a) /\ new = CloneIds(edited, a) /\ f = Freed(g, D)
  OBVIOUS
<1> HIDE DEF D, w, g, new, f
<1>5. Deletable(roots)
  <2>1. LetGo(edited, roots, {n})
    BY <1>41 DEF HostGets, LetGo
  <2>2. {n} \in SUBSET DOMAIN heap /\ {n} \cap Deleted(roots) = {}
    BY <1>2
  <2> QED
    BY <1>1, <2>1, <2>2, LetGoDeletable
<1>7. CASE w # Defined
  <2>1. heap' = heap /\ ub' = Wrong(roots, a) /\ ub' # Defined /\ mine' \subseteq mine
    BY <1>4, <1>7 DEF w
  <2> QED
    BY <1>1, <1>2, <1>4, <1>5, <2>1, WrongNext
<1>8. CASE w = Defined
  <2>1. /\ \A d \in D : heap[d].live
        /\ a # 0 => \A m \in Cloned(a) : heap[m].live /\ m \notin D
    <3>1. Wrong(roots, a) = Defined
      BY <1>8 DEF w
    <3> QED
      BY <1>1, <1>2, <1>5, <3>1, WrongFacts DEF D
  <2>2. IsWithClone(g, edited, a, new)
    <3>1. DOMAIN heap \subseteq DOMAIN edited
      BY <1>3
    <3> QED
      BY <1>1, <1>2, <1>3, <1>43, <3>1, WithCloneFacts
  <2>3. /\ NewNames(new) /\ DOMAIN new = Cloned(a)
        /\ g \in Seq(Object)
        /\ DOMAIN g = DOMAIN heap \cup {new[m] : m \in Cloned(a)}
        /\ \A m \in Cloned(a) : new[m] \notin DOMAIN heap /\ IsCopy(g[new[m]], m, new, {})
        /\ \A o \in DOMAIN heap : g[o] = edited[o]
    BY <1>3, <2>2 DEF IsWithClone
  <2>31. D \in SUBSET DOMAIN heap /\ Cloned(a) \in SUBSET DOMAIN heap /\ a \in Cloned(a) /\ a # 0
    <3>1. 0 \notin DOMAIN heap
      BY <1>1, <1>2, ObjectFacts
    <3> QED
      BY <1>1, <1>2, <3>1, DeletedFacts, ClonedFacts DEF D
  <2>4. /\ f \in Seq(Object) /\ DOMAIN f = DOMAIN g
        /\ \A o \in DOMAIN g : o \notin D => f[o] = g[o]
        /\ \A o \in DOMAIN heap : g[o] = heap[o] => f[o] = Freed(heap, D)[o]
    <3>1. DOMAIN heap \subseteq DOMAIN g /\ \A q \in D : g[q] = heap[q]
      BY <1>3, <1>42, <2>3, <2>31
    <3> QED
      BY <1>1, <1>43, <2>3, <2>31, <3>1, FreedMore
  <2>5. f[n] = edited[n] /\ \A o \in DOMAIN heap \ {n} : f[o] = Freed(heap, D)[o]
    BY <1>2, <1>3, <1>42, <2>3, <2>4
  <2>6. \A m \in Cloned(a) : f[new[m]] = g[new[m]]
    BY <2>3, <2>31, <2>4
  <2>7. ClonesAre(f, a, new, {})
    BY <2>3, <2>4, <2>6 DEF ClonesAre
  <2>71. \A p \in mine : p \in DOMAIN heap
    BY <1>1 DEF Safe, Held
  <2>72. IsFreed(heap, Freed(heap, D), D)
    <3>1. PICK x : x = Freed(heap, D)
      OBVIOUS
    <3>2. IsFreed(heap, x, D)
      BY <1>1, <3>1, FreedIs
    <3> QED
      BY <3>1, <3>2
  <2>73. SameKinds(heap, f) /\ new[a] \in DOMAIN f /\ f[new[a]].kind = heap[a].kind
    <3>1. \A o \in DOMAIN heap \ {n} : f[o].kind = heap[o].kind
      BY <2>5, <2>72 DEF IsFreed
    <3>2. f[n].kind = heap[n].kind
      BY <1>41, <2>5 DEF HostGets
    <3> QED
      BY <2>3, <2>31, <2>4, <2>6, <3>1, <3>2 DEF SameKinds, IsCopy
  <2>74. Fit(f, f[n])
    BY <1>41, <2>5, <2>73 DEF HostGets, FitWith
  <2>8. HolderFits(f, a, new, {}, {n}, n, mine, roots)
    <3>1. n \in NewIn(f, {n})
      BY DEF NewIn
    <3>2. \A m \in Cloned(a) : new[m] \notin mine
      BY <2>3, <2>71
    <3>3. f[n].lent = heap[n].lent /\ f[n].kind = heap[n].kind
      BY <1>41, <2>5 DEF HostGets
    <3> QED
      BY <1>41, <2>5, <2>74, <3>1, <3>2, <3>3 DEF HostGets, HolderFits
  <2>9. LetGo(f, roots, {n})
    BY <1>41, <2>5 DEF HostGets, LetGo
  <2>10. Safe(f, mine, lost)
    <3>1. PICK H : H = {n}
      OBVIOUS
    <3>2. PICK X : X = {}
      OBVIOUS
    <3>3. /\ H \in SUBSET DOMAIN heap /\ H \cap D = {} /\ \A k \in H : k \in Live /\ ~Stray(heap, mine, k)
          /\ \A o \in DOMAIN heap \ H : f[o] = Freed(heap, D)[o]
          /\ ClonesAre(f, a, new, X) /\ HolderFits(f, a, new, X, H, n, mine, roots) /\ LetGo(f, roots, H)
      BY <1>2, <1>42, <2>5, <2>7, <2>8, <2>9, <3>1, <3>2
    <3>4. /\ \A m \in Cloned(a) : m \in Live
          /\ \A d \in D : d \in Live
      BY <2>1, <2>31 DEF Live
    <3>5. \A p \in mine : p \in mine \ roots \/ p \in DOMAIN f \ DOMAIN heap
      OBVIOUS
    <3> QED
      BY <1>1, <1>2, <1>42, <3>3, <3>4, <3>5, CloneStep
  <2>11. heap' = f /\ ub' = ub
    BY <1>4, <1>8
  <2> QED
    BY <1>4, <2>10, <2>11, SafeNext
<1> QED
  BY <1>7, <1>8
-----------------------------------------------------------------------------
\* Where clone() puts the copy of its argument.
LEMMA NewNameOf ==
  ASSUME Safe(heap, mine, lost), NEW a \in DOMAIN heap, NEW id, id = CloneIds(heap, a)[a]
  PROVE  id \in Nat /\ id \notin DOMAIN heap /\ id # 0
<1>1. Formed(heap) /\ heap \in Seq(Object)
  BY DEF Safe, Formed
<1>2. PICK new, h2 : new = CloneIds(heap, a) /\ h2 = WithClone(heap, a)
  OBVIOUS
<1>3. IsWithClone(h2, heap, a, new)
  BY <1>1, <1>2, WithCloneFacts
<1>4. a \in Cloned(a)
  BY ClonedFacts
<1> QED
  BY <1>2, <1>3, <1>4 DEF IsWithClone, NewNames

\* The names of copies do not depend on what was edited before.
LEMMA SameNames ==
  ASSUME NEW a, NEW n, NEW edited, OnlyAt(n, edited), heap \in Seq(Object)
  PROVE  CloneIds(edited, a) = CloneIds(heap, a)
<1>1. Len(edited) = Len(heap)
  BY DEF OnlyAt
<1> QED
  BY <1>1 DEF CloneIds

\* The copy of a message alone is the next object.
LEMMA AloneName ==
  ASSUME Safe(heap, mine, lost), NEW a \in DOMAIN heap, Cloned(a) = {a}, NEW n \in Nat
  PROVE  Ranked(n, Cloned(a))[a] = n + 1
<1>1. {q \in {a} : q <= a} \subseteq {a} /\ a \in Nat
  BY ObjectFacts
<1>2. {q \in {a} : q <= a} = {a}
  BY <1>1
<1>3. Cardinality({a}) = 1
  BY FS_Singleton
<1> QED
  BY <1>2, <1>3 DEF Ranked

\* n gets the copy of a in its list, in place of roots.
InList(n, s, a, roots, id) ==
  /\ s \in Seq(Nat) /\ Once(s) /\ Range(s) = (Range(heap[n].many) \ roots) \cup {id}
  /\ roots \subseteq Range(heap[n].many)
  /\ heap[a].kind \in HoldsMany(heap[n].kind) /\ heap[a].kind \in LeafKind \ {"Expr"}
  /\ heap[n].kind = "Interaction" =>
       \A p \in Range(heap[n].many) : heap[p].kind = "Msg" => (p \in roots <=> heap[a].kind = "Msg")

\* An object whose list is given the clone.
LEMMA ListFits ==
  ASSUME Safe(heap, mine, lost), NEW n \in Live, NEW a \in Live, NEW roots, NEW id, id = CloneIds(heap, a)[a],
         NEW s, InList(n, s, a, roots, id), NEW x \in Object, x.many = s, x.one = heap[n].one, x.lent = heap[n].lent,
         x.kind = heap[n].kind, x.live, NEW new, new[a] = id
  PROVE  FitWith(x, new, a)
<1>1. n \in DOMAIN heap /\ a \in DOMAIN heap /\ heap[n].live
  BY DEF Live
<1>2. id \in Nat /\ id \notin DOMAIN heap /\ id # 0
  BY <1>1, NewNameOf
<1> SUFFICES ASSUME NEW h2, SameKinds(heap, h2), id \in DOMAIN h2, h2[id].kind = heap[a].kind
             PROVE  Fit(h2, x)
  BY DEF FitWith
<1>3. Fit(heap, heap[n]) /\ heap[n].many \in Seq(Nat) /\ Range(heap[n].many) \subseteq DOMAIN heap /\ 0 \notin DOMAIN heap
      /\ heap[n].one \notin Range(heap[n].many)
  BY <1>1, ObjectFacts
<1>31. heap[n].one # 0 => heap[n].one \in DOMAIN heap
  BY <1>1, ObjectFacts
<1>4. Fit(h2, heap[n])
  BY <1>3, FitStays
<1>5. x.one # 0 => Holds(h2, {x.one}, HoldsOne(x.kind))
  BY <1>4 DEF Fit
<1>6. Holds(h2, Range(x.many), HoldsMany(x.kind))
  BY <1>4 DEF Fit, Holds, InList
<1>7. Holds(h2, Range(x.lent), HoldsLent(x.kind))
  BY <1>4 DEF Fit
<1>8. ASSUME x.kind = "Interaction"
      PROVE  \E m \in Range(x.many) : \A p \in Range(x.many) : h2[p].kind = "Msg" <=> p = m
  <2>1. PICK m \in Range(heap[n].many) : \A p \in Range(heap[n].many) : heap[p].kind = "Msg" <=> p = m
    BY <1>1, <1>8, ObjectFacts
  <2>2. \A p \in Range(heap[n].many) : p # id /\ h2[p].kind = heap[p].kind
    BY <1>2, <1>3 DEF SameKinds
  <2>3. m \in roots <=> heap[a].kind = "Msg"
    BY <1>8, <2>1 DEF InList
  <2>4. Range(x.many) = (Range(heap[n].many) \ roots) \cup {id}
    BY DEF InList
  <2>5. CASE heap[a].kind = "Msg"
    <3>1. id \in Range(x.many) /\ \A p \in Range(x.many) : h2[p].kind = "Msg" <=> p = id
      BY <2>1, <2>2, <2>3, <2>4, <2>5
    <3> QED
      BY <3>1
  <2>6. CASE heap[a].kind # "Msg"
    <3>1. m \in Range(x.many) /\ \A p \in Range(x.many) : h2[p].kind = "Msg" <=> p = m
      BY <2>1, <2>2, <2>3, <2>4, <2>6
    <3> QED
      BY <3>1
  <2> QED
    BY <2>5, <2>6
<1>9. x.one \notin Range(x.many)
  <2>1. x.one # id
    BY <1>2, <1>31
  <2> QED
    BY <1>3, <2>1 DEF InList
<1>10. \A i, j \in DOMAIN x.many : x.many[i] = x.many[j] => i = j
  BY DEF InList, Once
<1> QED
  BY <1>5, <1>6, <1>7, <1>8, <1>9, <1>10 DEF Fit

\* HostClone, for a list.
LEMMA ListClone ==
  ASSUME IInv, UNCHANGED <<kept, due>>, ub = Defined, NEW kinds, NEW n \in Named(kinds), NEW a \in Live,
         NEW roots \in SUBSET DOMAIN heap, n \notin Deleted(roots), NEW id, id = CloneIds(heap, a)[a],
         NEW s, InList(n, s, a, roots, id), NEW edited, edited = WithMany(heap, n, s),
         Replace(roots, a, WithClone(edited, a))
  PROVE  IInv'
<1>1. Safe(heap, mine, lost) /\ n \in Live /\ n \in DOMAIN heap
  BY LiveNamed
<1>2. a \in DOMAIN heap
  BY DEF Live
<1>3. id \in Nat /\ id \notin DOMAIN heap /\ id # 0
  BY <1>1, <1>2, NewNameOf
<1>4. /\ heap \in Seq(Object) /\ heap[n].many \in Seq(Nat) /\ 0 \notin DOMAIN heap /\ Range(heap[n].many) \subseteq DOMAIN heap
      /\ Pointers(heap[n]) = (Range(heap[n].many) \cup {heap[n].one}) \ {0} /\ heap[n].one \notin Range(heap[n].many)
  BY <1>1, ObjectFacts
<1>5. s \in Seq(Nat)
  BY DEF InList
<1>6. /\ edited \in Seq(Object) /\ DOMAIN edited = DOMAIN heap /\ edited[n] \in Object
      /\ edited[n].many = s /\ edited[n].one = heap[n].one /\ edited[n].lent = heap[n].lent
      /\ edited[n].kind = heap[n].kind /\ edited[n].live = heap[n].live
      /\ \A q \in DOMAIN heap : q # n => edited[q] = heap[q]
  BY <1>1, <1>4, <1>5, EditMany
<1>7. OnlyAt(n, edited)
  BY <1>6 DEF OnlyAt
<1>8. PICK new : new = CloneIds(edited, a)
  OBVIOUS
<1>81. new[a] = id
  BY <1>4, <1>7, <1>8, SameNames
<1>9. PICK x \in Object : x = edited[n]
  BY <1>6
<1>91. /\ x.many = s /\ x.one = heap[n].one /\ x.lent = heap[n].lent /\ x.kind = heap[n].kind /\ x.live
       /\ Pointers(x) = (Range(s) \cup {heap[n].one}) \ {0}
  <2>1. x.live
    BY <1>1, <1>6, <1>9 DEF Live
  <2> QED
    BY <1>6, <1>9, <2>1 DEF Pointers
<1>10. FitWith(x, new, a)
  BY <1>1, <1>81, <1>91, ListFits
<1>11. \A r \in roots : r \in Pointers(heap[n]) /\ r \notin Pointers(x)
  BY <1>3, <1>4, <1>91 DEF InList
<1>12. roots \cap mine = {}
  BY <1>1, <1>11, MineFacts
<1>13. HostGets(n, x, new, a, roots)
  <2>1. heap[n].kind = "Interaction" => Range(heap[n].lent) \cap roots = {}
    BY <1>1, <1>11 DEF Safe, Conditions
  <2>2. \A p \in Pointers(x) : p \in Pointers(heap[n]) \/ p = new[a]
    BY <1>4, <1>81, <1>91 DEF InList
  <2>3. new[a] \in Pointers(x) /\ heap[a].kind \in LeafKind \ {"Expr"}
    BY <1>3, <1>81, <1>91 DEF InList
  <2>4. \A p \in Pointers(heap[n]) : p \in Pointers(x) \cup roots
    BY <1>4, <1>91 DEF InList
  <2> QED
    BY <1>10, <1>11, <1>91, <2>1, <2>2, <2>3, <2>4 DEF HostGets
<1>14. ~Stray(heap, mine, n)
  BY <1>1, NamedNotStray
<1>15. HostGets(n, edited[n], CloneIds(edited, a), a, roots)
  BY <1>8, <1>9, <1>13
<1> QED
  BY <1>1, <1>7, <1>12, <1>14, <1>15, HostClone
-----------------------------------------------------------------------------
\* What the program may clone.
LEMMA CopyableFacts ==
  ASSUME IInv, ub = Defined, NEW kinds, NEW a \in Copyable(kinds)
  PROVE  a \in Live /\ a \in DOMAIN heap /\ heap[a].kind \in kinds
<1>1. a \in Named(kinds \cap profile.clones)
  BY DEF Copyable
<1> QED
  BY <1>1, LiveNamed

\* A list and one more.
LEMMA AppendRange ==
  ASSUME NEW m \in Seq(Nat), Once(m), NEW id \in Nat, id \notin Range(m), NEW s, s = Append(m, id)
  PROVE  s \in Seq(Nat) /\ Once(s) /\ Range(s) = Range(m) \cup {id}
<1>1. /\ s \in Seq(Nat) /\ DOMAIN m = 1..Len(m) /\ Len(m) \in Nat /\ DOMAIN s = 1..(Len(m) + 1)
      /\ s[Len(m) + 1] = id /\ \A i \in DOMAIN m : s[i] = m[i]
  OBVIOUS
<1>2. DOMAIN s = DOMAIN m \cup {Len(m) + 1}
  BY <1>1
<1>3. Range(s) = Range(m) \cup {id}
  BY <1>1, <1>2 DEF Range
<1>4. Once(s)
  BY <1>1, <1>2 DEF Once, Range
<1> QED
  BY <1>1, <1>3, <1>4

LEMMA AppendIn ==
  ASSUME Safe(heap, mine, lost), NEW n \in Live, NEW a \in Live, NEW id, id = CloneIds(heap, a)[a],
         NEW s, s = Append(heap[n].many, id),
         heap[a].kind \in HoldsMany(heap[n].kind), heap[a].kind \in {"Payload", "Role"}
  PROVE  InList(n, s, a, {}, id)
<1>1. n \in DOMAIN heap /\ a \in DOMAIN heap
  BY DEF Live
<1>2. id \in Nat /\ id \notin DOMAIN heap
  BY <1>1, NewNameOf
<1>3. PICK m \in Seq(Nat) : m = heap[n].many /\ Once(m) /\ Range(m) \subseteq DOMAIN heap
  BY <1>1, ObjectFacts
<1>4. s \in Seq(Nat) /\ Once(s) /\ Range(s) = Range(m) \cup {id}
  <2>1. s = Append(m, id) /\ id \notin Range(m)
    BY <1>2, <1>3
  <2> QED
    BY <1>2, <1>3, <2>1, AppendRange
<1> QED
  BY <1>3, <1>4 DEF InList, LeafKind

\* add_payload and add_rcvr.
LEMMA AddCloneStep ==
  ASSUME IInv, UNCHANGED <<kept, due>>, NEW kinds, NEW n \in Named(kinds), NEW others, NEW a \in Copyable(others), AddClone(n, a),
         heap[a].kind \in HoldsMany(heap[n].kind), heap[a].kind \in {"Payload", "Role"}
  PROVE  IInv'
<1>1. ub = Defined
  BY DEF AddClone, Room, Running
<1>2. Safe(heap, mine, lost) /\ n \in Live /\ a \in Live
  BY <1>1, LiveNamed, CopyableFacts
<1>3. PICK id, s, edited : id = CloneIds(heap, a)[a] /\ s = Append(heap[n].many, id) /\ edited = WithMany(heap, n, s)
  OBVIOUS
<1>4. PICK roots \in SUBSET DOMAIN heap : roots = {}
  OBVIOUS
<1>5. InList(n, s, a, roots, id)
  BY <1>2, <1>3, <1>4, AppendIn
<1>6. n \notin Deleted(roots)
  BY <1>2, <1>4, DeletedNone
<1>7. Replace(roots, a, WithClone(edited, a))
  <2>1. Replace({}, a, WithClone(WithMany(heap, n, Append(heap[n].many, CloneIds(heap, a)[a])), a))
    BY DEF AddClone, WithMany
  <2> QED
    BY <1>3, <1>4, <2>1
<1> QED
  BY <1>1, <1>2, <1>3, <1>5, <1>6, <1>7, ListClone

\* A payload cloned into a message, and a role into an interaction.
LEMMA AddPayloadStep == ASSUME IInv, AddPayload, UNCHANGED <<kept, due>> PROVE IInv'
<1>1. PICK m \in Named({"Msg"}), p \in Copyable({"Payload"}) : AddClone(m, p)
  BY DEF AddPayload
<1>2. ub = Defined
  BY <1>1 DEF AddClone, Room, Running
<1>3. heap[m].kind = "Msg" /\ heap[p].kind = "Payload"
  BY <1>2, LiveNamed, CopyableFacts
<1>4. heap[p].kind \in HoldsMany(heap[m].kind) /\ heap[p].kind \in {"Payload", "Role"}
  BY <1>3 DEF HoldsMany
<1> QED
  BY <1>1, <1>4, AddCloneStep

LEMMA AddRcvrStep == ASSUME IInv, AddRcvr, UNCHANGED <<kept, due>> PROVE IInv'
<1>1. PICK m \in Named({"Interaction"}), p \in Copyable({"Role"}) : AddClone(m, p)
  BY DEF AddRcvr
<1>2. ub = Defined
  BY <1>1 DEF AddClone, Room, Running
<1>3. heap[m].kind = "Interaction" /\ heap[p].kind = "Role"
  BY <1>2, LiveNamed, CopyableFacts
<1>4. heap[p].kind \in HoldsMany(heap[m].kind) /\ heap[p].kind \in {"Payload", "Role"}
  BY <1>3 DEF HoldsMany
<1> QED
  BY <1>1, <1>4, AddCloneStep
-----------------------------------------------------------------------------
\* A list with its element at i replaced.
SetAt(ps, i, v) == [ps EXCEPT ![i] = v]
IsSetAt(c, ps, i, v) == c \in Seq(Nat) /\ Once(c) /\ Range(c) = (Range(ps) \ {ps[i]}) \cup {v}

\* set_msg replaces the one message.
LEMMA SetAtFacts ==
  ASSUME NEW ps \in Seq(Nat), NEW i \in DOMAIN ps, NEW v \in Nat, v \notin Range(ps), Once(ps),
         NEW c, c = SetAt(ps, i, v)
  PROVE  IsSetAt(c, ps, i, v)
<1>1. c \in Seq(Nat) /\ DOMAIN c = DOMAIN ps /\ c[i] = v /\ \A j \in DOMAIN ps : j # i => c[j] = ps[j]
  BY DEF SetAt
<1>2. Once(c)
  <2>1. \A j, k \in DOMAIN ps : ps[j] = ps[k] => j = k
    BY DEF Once
  <2>2. \A j \in DOMAIN ps : ps[j] # v
    BY DEF Range
  <2>3. ASSUME NEW j \in DOMAIN c, NEW k \in DOMAIN c, c[j] = c[k] PROVE j = k
    BY <1>1, <2>1, <2>2, <2>3
  <2> QED
    BY <2>3 DEF Once
<1>3. Range(c) = (Range(ps) \ {ps[i]}) \cup {v}
  BY <1>1 DEF Once, Range
<1> QED
  BY <1>1, <1>2, <1>3 DEF IsSetAt

\* The message of an interaction replaced.
LEMMA SetMsgStep == ASSUME IInv, SetMsg, UNCHANGED <<kept, due>> PROVE IInv'
<1> DEFINE Old(n) == PartsOf(n, {"Msg"})
           List(n) == [i \in DOMAIN heap[n].many |-> IF heap[n].many[i] \in Old(n) THEN Fresh ELSE heap[n].many[i]]
<1>1. PICK n \in Named({"Interaction"}), a \in Copyable({"Msg"}) :
        ub = Defined /\ Replace(Old(n), a, WithClone(WithMany(heap, n, List(n)), a))
  BY DEF SetMsg, Room, Running, WithMany
<1>2. /\ Safe(heap, mine, lost) /\ n \in Live /\ n \in DOMAIN heap /\ heap[n].kind = "Interaction"
      /\ a \in Live /\ a \in DOMAIN heap /\ heap[a].kind = "Msg"
  BY <1>1, LiveNamed, CopyableFacts
<1>3. PICK ps \in Seq(Nat) : ps = heap[n].many /\ Once(ps) /\ Range(ps) \subseteq DOMAIN heap
  BY <1>2, ObjectFacts
<1>31. heap[n].live
  BY <1>2 DEF Live
<1>32. PICK m \in Range(heap[n].many) : \A p \in Range(heap[n].many) : heap[p].kind = "Msg" <=> p = m
  BY <1>2, <1>31, ObjectFacts
<1>4. PICK id : id = CloneIds(heap, a)[a]
  OBVIOUS
<1>5. id = Fresh /\ id \notin DOMAIN heap /\ id \in Nat
  <2>1. Cloned(a) = {a}
    <3>1. \A q \in Cloned(a) : \A p \in ClonedParts(q) : p \in Pointers(heap[q]) /\ heap[p].kind = "Expr"
      BY <1>2, ClonedOfLeaf DEF LeafKind
    <3>2. a \in Cloned(a) /\ \A S \in SUBSET DOMAIN heap : a \in S /\ (\A q \in S : ClonedParts(q) \subseteq S) => Cloned(a) \subseteq S
      BY <1>2, ClonedFacts
    <3>3. \A p \in Pointers(heap[a]) : heap[p].kind \in HoldsOne("Msg") \cup HoldsMany("Msg")
      BY <1>2, LeavesHold DEF Safe
    <3>4. ClonedParts(a) = {}
      BY <3>1, <3>2, <3>3 DEF HoldsOne, HoldsMany
    <3> QED
      BY <1>2, <3>2, <3>4
  <2>2. Len(heap) \in Nat
    BY <1>2 DEF Safe, Formed
  <2>3. Ranked(Len(heap), Cloned(a))[a] = Len(heap) + 1
    BY <1>2, <2>1, <2>2, AloneName
  <2>4. id = Fresh
    BY <1>4, <2>3 DEF CloneIds, Fresh
  <2> QED
    BY <1>2, <1>4, <2>4, NewNameOf
<1>6. Old(n) = {m}
  <2>1. Pointers(heap[n]) = (Range(heap[n].many) \cup {heap[n].one}) \ {0}
    BY <1>2, ObjectFacts
  <2>2. heap[n].one # 0 => heap[heap[n].one].kind = "Role"
    BY <1>2, ObjectFacts DEF HoldsOne
  <2>3. \A p \in Range(heap[n].lent) : heap[p].kind = "Role"
    BY <1>2, ObjectFacts DEF HoldsLent
  <2>4. 0 \notin DOMAIN heap /\ m \in DOMAIN heap
    BY <1>2, <1>3, <1>32, ObjectFacts
  <2>5. \A p : p \in Old(n) <=> p \in Pointers(heap[n]) \cup Range(heap[n].lent) /\ heap[p].kind = "Msg"
    BY DEF PartsOf, PointersOf, Lent
  <2>6. m \in Pointers(heap[n]) /\ heap[m].kind = "Msg"
    BY <1>32, <2>1, <2>4
  <2>7. \A p \in Pointers(heap[n]) : heap[p].kind = "Msg" => p = m
    BY <1>32, <2>1, <2>2
  <2>8. \A p : p \in Old(n) <=> p = m
    BY <2>3, <2>5, <2>6, <2>7
  <2> HIDE DEF Old
  <2> QED
    BY <2>8
<1>61. PICK s : s = List(n)
  OBVIOUS
<1>62. PICK roots \in SUBSET DOMAIN heap : roots = {m}
  BY <1>3, <1>32
<1>63. Old(n) = roots
  BY <1>6, <1>62
<1> HIDE DEF Old
<1>7. InList(n, s, a, roots, id)
  <2>1. PICK i \in DOMAIN ps : ps[i] = m
    BY <1>3, <1>32 DEF Range
  <2>2. s = [ps EXCEPT ![i] = Fresh]
    <3>1. \A j \in DOMAIN ps : ps[j] \in Old(n) <=> j = i
      BY <1>3, <1>6, <2>1 DEF Once
    <3> QED
      BY <1>3, <1>61, <2>1, <3>1
  <2>3. PICK v \in Nat : v = id /\ v \notin Range(ps) /\ s = [ps EXCEPT ![i] = v]
    BY <1>3, <1>5, <2>2
  <2>4. s \in Seq(Nat) /\ Once(s) /\ Range(s) = (Range(ps) \ {ps[i]}) \cup {v}
    <3>1. Once(ps) /\ v \notin Range(ps) /\ ps \in Seq(Nat) /\ i \in DOMAIN ps /\ v \in Nat
      BY <1>3, <2>3
    <3>2. s = SetAt(ps, i, v)
      BY <2>3 DEF SetAt
    <3>3. IsSetAt(s, ps, i, v)
      BY <3>1, <3>2, SetAtFacts
    <3> QED
      BY <3>3 DEF IsSetAt
  <2>5. Range(s) = (Range(heap[n].many) \ roots) \cup {id} /\ roots \subseteq Range(heap[n].many)
    BY <1>3, <1>32, <1>62, <2>1, <2>3, <2>4
  <2>6. heap[a].kind \in HoldsMany(heap[n].kind) /\ heap[a].kind \in LeafKind \ {"Expr"}
    BY <1>2 DEF HoldsMany, LeafKind
  <2>7. \A p \in Range(heap[n].many) : heap[p].kind = "Msg" => (p \in roots <=> heap[a].kind = "Msg")
    BY <1>2, <1>32, <1>62
  <2> QED
    BY <2>4, <2>5, <2>6, <2>7 DEF InList
<1>8. n \notin Deleted(roots)
  <2>1. heap[n].kind \notin LeafKind /\ \A r \in roots : heap[r].kind \in LeafKind
    BY <1>2, <1>32, <1>62 DEF LeafKind
  <2> QED
    BY <1>2, <2>1, NotDeleted
<1>9. PICK edited : edited = WithMany(heap, n, s)
  OBVIOUS
<1>10. Replace(roots, a, WithClone(edited, a))
  BY <1>1, <1>61, <1>63, <1>9
<1> QED
  BY <1>1, <1>2, <1>4, <1>7, <1>8, <1>9, <1>10, ListClone
-----------------------------------------------------------------------------
\* The sender of an interaction, or the role of a choice, replaced.
LEMMA SetRoleStep == ASSUME IInv, SetRole, UNCHANGED <<kept, due>> PROVE IInv'
<1> DEFINE Old(n) == {heap[n].one} \ {0}
<1>1. PICK n \in Named({"Interaction", "Choice"}), a \in Copyable({"Role"}) :
        ub = Defined /\ Replace(Old(n), a, WithClone(WithOne(heap, n, CloneIds(heap, a)[a]), a))
  BY DEF SetRole, Room, Running, WithOne
<1>2. /\ Safe(heap, mine, lost) /\ n \in Live /\ n \in DOMAIN heap /\ heap[n].kind \in {"Interaction", "Choice"}
      /\ a \in Live /\ a \in DOMAIN heap /\ heap[a].kind = "Role" /\ heap[n].live
  <2>1. n \in Live => heap[n].live
    BY DEF Live
  <2> QED
    BY <1>1, <2>1, LiveNamed, CopyableFacts
<1>3. PICK id : id = CloneIds(heap, a)[a]
  OBVIOUS
<1>4. id \in Nat /\ id \notin DOMAIN heap /\ id # 0
  BY <1>2, <1>3, NewNameOf
<1>5. /\ heap \in Seq(Object) /\ Range(heap[n].many) \subseteq DOMAIN heap /\ heap[n].one \notin Range(heap[n].many)
      /\ Pointers(heap[n]) = (Range(heap[n].many) \cup {heap[n].one}) \ {0}
      /\ heap[n].one # 0 => heap[n].one \in DOMAIN heap /\ heap[heap[n].one].kind \in HoldsOne(heap[n].kind)
      /\ Fit(heap, heap[n])
  BY <1>2, ObjectFacts
<1>51. HoldsOne(heap[n].kind) = {"Role"}
  BY <1>2 DEF HoldsOne
<1>6. PICK roots \in SUBSET DOMAIN heap : roots = Old(n)
  BY <1>5
<1>61. \A r \in roots : r \in Pointers(heap[n]) /\ heap[r].kind = "Role" /\ r = heap[n].one
  BY <1>5, <1>51, <1>6
<1>7. n \notin Deleted(roots)
  <2>1. heap[n].kind \notin LeafKind /\ \A r \in roots : heap[r].kind \in LeafKind
    BY <1>2, <1>61 DEF LeafKind
  <2> QED
    BY <1>2, <2>1, NotDeleted
<1>8. PICK edited : edited = WithOne(heap, n, id)
  OBVIOUS
<1>9. /\ edited \in Seq(Object) /\ DOMAIN edited = DOMAIN heap /\ edited[n] \in Object
      /\ edited[n].one = id /\ edited[n].many = heap[n].many /\ edited[n].lent = heap[n].lent
      /\ edited[n].kind = heap[n].kind /\ edited[n].live = heap[n].live
      /\ \A q \in DOMAIN heap : q # n => edited[q] = heap[q]
  <2>1. n \in DOMAIN heap /\ id \in Nat /\ heap \in Seq(Object)
    BY <1>2, <1>4, <1>5
  <2> QED
    BY <1>8, <2>1, EditOne
<1>10. OnlyAt(n, edited)
  BY <1>9 DEF OnlyAt
<1>11. PICK new, x : new = CloneIds(edited, a) /\ x = edited[n]
  OBVIOUS
<1>12. new[a] = id
  BY <1>3, <1>5, <1>10, <1>11, SameNames
<1>13. /\ x.one = id /\ x.many = heap[n].many /\ x.lent = heap[n].lent /\ x.kind = heap[n].kind /\ x.live
       /\ Pointers(x) = (Range(heap[n].many) \cup {id}) \ {0}
  BY <1>2, <1>9, <1>11 DEF Pointers
<1>14. FitWith(x, new, a)
  <2> SUFFICES ASSUME NEW h2, SameKinds(heap, h2), id \in DOMAIN h2, h2[id].kind = heap[a].kind
               PROVE  Fit(h2, x)
    BY <1>12 DEF FitWith
  <2>1. Fit(h2, heap[n])
    BY <1>5, FitStays
  <2>2. Holds(h2, {x.one}, HoldsOne(x.kind))
    BY <1>2, <1>13, <1>51 DEF Holds
  <2>3. x.one \notin Range(x.many)
    BY <1>4, <1>5, <1>13
  <2>4. Holds(h2, Range(x.many), HoldsMany(x.kind)) /\ Holds(h2, Range(x.lent), HoldsLent(x.kind))
    BY <1>13, <2>1 DEF Fit
  <2>5. x.kind = "Interaction" =>
          \E m \in Range(x.many) : \A p \in Range(x.many) : h2[p].kind = "Msg" <=> p = m
    BY <1>2, <1>13, <2>1 DEF Fit
  <2>6. \A i, j \in DOMAIN x.many : x.many[i] = x.many[j] => i = j
    BY <1>13, <2>1 DEF Fit
  <2> QED
    BY <1>13, <2>2, <2>3, <2>4, <2>5, <2>6 DEF Fit
<1>15. roots \cap mine = {}
  BY <1>2, <1>61, MineFacts
<1>16. HostGets(n, x, new, a, roots)
  <2>1. heap[n].kind = "Interaction" => Range(heap[n].lent) \cap roots = {}
    BY <1>2, <1>61 DEF Safe, Conditions
  <2>2. \A p \in Pointers(x) : p \in Pointers(heap[n]) \/ p = new[a]
    BY <1>5, <1>12, <1>13
  <2>3. new[a] \in Pointers(x) /\ heap[a].kind \in LeafKind \ {"Expr"}
    BY <1>2, <1>4, <1>12, <1>13 DEF LeafKind
  <2>4. \A p \in Pointers(heap[n]) : p \in Pointers(x) \cup roots
    BY <1>5, <1>6, <1>13
  <2>5. \A r \in roots : r \in Pointers(heap[n]) /\ r \notin Pointers(x)
    BY <1>4, <1>5, <1>61, <1>13
  <2> QED
    BY <1>13, <1>14, <2>1, <2>2, <2>3, <2>4, <2>5 DEF HostGets
<1>17. HostGets(n, edited[n], CloneIds(edited, a), a, roots)
  BY <1>11, <1>16
<1>18. ~Stray(heap, mine, n)
  BY <1>1, <1>2, NamedNotStray
<1>19. Replace(roots, a, WithClone(edited, a))
  BY <1>1, <1>3, <1>6, <1>8
<1> QED
  BY <1>1, <1>2, <1>7, <1>10, <1>15, <1>17, <1>18, <1>19, HostClone
-----------------------------------------------------------------------------
\* An interaction has one message, and the clone of a message no parts.
LEMMA MessageAlone ==
  ASSUME Safe(heap, mine, lost), NEW a \in DOMAIN heap, heap[a].kind = "Msg"
  PROVE  Cloned(a) = {a}
<1>1. \A q \in Cloned(a) : \A p \in ClonedParts(q) : p \in Pointers(heap[q]) /\ heap[p].kind = "Expr"
  BY ClonedOfLeaf DEF LeafKind
<1>2. a \in Cloned(a) /\ \A S \in SUBSET DOMAIN heap : a \in S /\ (\A q \in S : ClonedParts(q) \subseteq S) => Cloned(a) \subseteq S
  BY ClonedFacts
<1>3. \A p \in Pointers(heap[a]) : heap[p].kind \in HoldsOne("Msg") \cup HoldsMany("Msg")
  BY LeavesHold DEF Safe
<1>4. ClonedParts(a) = {}
  BY <1>1, <1>2, <1>3 DEF HoldsOne, HoldsMany
<1> QED
  BY <1>2, <1>4

\* clone(), whose result the program gets.
LEMMA CloneActionStep == ASSUME IInv, Clone, UNCHANGED <<kept, due>> PROVE IInv'
<1>1. PICK a \in Copyable(AnyKind) :
        /\ ub = Defined /\ DeleteFirst({}, a, WithClone(heap, a))
        /\ IF Wrong({}, a) = Defined THEN mine' = mine \cup {CloneIds(heap, a)[a]} ELSE mine' = mine
        /\ lost' = lost /\ profile' = profile
  BY DEF Clone, Room, Running, Keep
<1>2. Safe(heap, mine, lost) /\ a \in Live /\ a \in DOMAIN heap /\ heap[a].live
  <2>1. a \in Live => heap[a].live
    BY DEF Live
  <2> QED
    BY <1>1, <2>1, CopyableFacts DEF IInv
<1>3. Formed(heap) /\ heap \in Seq(Object) /\ a # 0
  BY <1>2, ObjectFacts
<1>4. PICK roots, H, X, D : roots = {} /\ H = {} /\ X = {} /\ D = {}
  OBVIOUS
<1>5. PICK g, new, w : g = WithClone(heap, a) /\ new = CloneIds(heap, a) /\ w = Wrong(roots, a)
  OBVIOUS
<1>6. Deletable(roots)
  BY <1>4 DEF Deletable
<1>7. D = Deleted(roots) /\ \A o \in DOMAIN heap : Freed(heap, D)[o] = heap[o]
  BY <1>2, <1>4, DeletedNone
<1>8. ub' = w /\ heap' = IF w = Defined THEN Freed(g, D) ELSE heap
  BY <1>1, <1>4, <1>5, <1>7 DEF DeleteFirst
<1>9. CASE w # Defined
  <2>1. heap' = heap /\ mine' \subseteq mine /\ ub' = Wrong(roots, a) /\ ub' # Defined
    BY <1>1, <1>4, <1>5, <1>8, <1>9
  <2>2. a = 0 \/ (a \in DOMAIN heap /\ heap[a].live /\ roots \cap mine = {})
    BY <1>2, <1>4
  <2> QED
    BY <1>1, <1>4, <1>6, <2>1, <2>2, WrongNext
<1>10. CASE w = Defined
  <2>1. \A m \in Cloned(a) : heap[m].live
    <3>1. a # 0 /\ (a = 0 \/ (a \in DOMAIN heap /\ heap[a].live /\ roots \cap mine = {}))
      BY <1>2, <1>3, <1>4
    <3>2. Wrong(roots, a) = Defined
      BY <1>5, <1>10
    <3>3. Wrong(roots, a) = Defined =>
              /\ FreedTwice(roots) = {}
              /\ \A d \in Deleted(roots) : heap[d].live
              /\ a # 0 => \A m \in Cloned(a) : heap[m].live /\ m \notin Deleted(roots)
      BY <1>2, <1>4, <1>6, <3>1, WrongFacts
    <3> QED
      BY <3>1, <3>2, <3>3
  <2>2. IsWithClone(g, heap, a, new)
    BY <1>2, <1>3, <1>5, WithCloneFacts
  <2>3. /\ NewNames(new) /\ DOMAIN new = Cloned(a)
        /\ g \in Seq(Object) /\ DOMAIN heap \subseteq DOMAIN g
        /\ DOMAIN g = DOMAIN heap \cup {new[m] : m \in Cloned(a)}
        /\ \A m \in Cloned(a) : new[m] \notin DOMAIN heap /\ IsCopy(g[new[m]], m, new, {})
        /\ \A o \in DOMAIN heap : g[o] = heap[o]
    BY <2>2 DEF IsWithClone
  <2>4. PICK f : f = Freed(g, D)
    OBVIOUS
  <2>5. f \in Seq(Object) /\ DOMAIN f = DOMAIN g /\ \A o \in DOMAIN g : f[o] = g[o]
    <3>1. D \in SUBSET DOMAIN heap /\ \A q \in D : g[q] = heap[q]
      BY <1>4
    <3> QED
      BY <1>3, <1>4, <2>3, <2>4, <3>1, FreedMore
  <2>6. a \in Cloned(a) /\ Cloned(a) \in SUBSET DOMAIN heap
    BY <1>2, ClonedFacts
  <2>7. ClonesAre(f, a, new, X)
    BY <1>4, <2>3, <2>5 DEF ClonesAre
  <2>8. PICK mn2 : mn2 = mine \cup {new[a]}
    OBVIOUS
  <2>81. mine \subseteq DOMAIN heap
    BY DEF IInv
  <2>9. HolderFits(f, a, new, X, H, 0, mn2, roots)
    <3>1. 0 \notin NewIn(f, H)
      BY <1>4, <2>5 DEF NewIn
    <3>2. \A m \in Cloned(a) : new[m] \in mn2 => m = a
      BY <2>3, <2>6, <2>8, <2>81 DEF NewNames
    <3> QED
      BY <1>4, <2>8, <3>1, <3>2 DEF HolderFits
  <2>11. LetGo(f, roots, H)
    BY <1>4 DEF LetGo
  <2>12. Safe(f, mn2, lost)
    <3>1. /\ \A m \in Cloned(a) : m \in Live
          /\ \A d \in D : d \in Live
      BY <1>4, <2>1, <2>6 DEF Live
    <3>2. H \cap D = {} /\ \A k \in H : k \in Live /\ ~Stray(heap, mine, k)
      BY <1>4
    <3>3. \A o \in DOMAIN heap \ H : f[o] = Freed(heap, D)[o]
      BY <1>7, <2>3, <2>5
    <3>4. \A p \in mn2 : p \in mine \ roots \/ p \in DOMAIN f \ DOMAIN heap
      BY <1>4, <2>3, <2>5, <2>6, <2>8
    <3> QED
      BY <1>2, <1>4, <1>7, <2>7, <2>9, <2>11, <3>1, <3>2, <3>3, <3>4, CloneStep
  <2>13. heap' = f /\ mine' = mn2 /\ ub' = ub
    BY <1>1, <1>4, <1>5, <1>8, <1>10, <2>4, <2>8
  <2> QED
    BY <1>1, <2>12, <2>13, SafeNext
<1> QED
  BY <1>9, <1>10
-----------------------------------------------------------------------------
\* An interaction with a clone of a message.
LEMMA MakeInteractionWithStep == ASSUME IInv, MakeInteractionWith, UNCHANGED <<kept, due>> PROVE IInv'
<1> DEFINE one == <<Fresh + 1>>
           x == New("Interaction", 0, one)
           objects == Append(heap, x)
<1>1. PICK a \in Copyable({"Msg"}) :
        /\ ub = Defined /\ heap' = WithClone(objects, a) /\ mine' = mine \cup {Fresh}
        /\ profile' = profile /\ lost' = lost /\ ub' = ub
  BY DEF MakeInteractionWith, Room, Running, Keep
<1> HIDE DEF x, one, objects
<1>2. Safe(heap, mine, lost) /\ a \in Live /\ a \in DOMAIN heap /\ heap[a].kind = "Msg"
  <2>1. heap[a].kind \in {"Msg"} /\ a \in Live /\ a \in DOMAIN heap
    BY <1>1, CopyableFacts
  <2> QED
    BY <1>1, <2>1 DEF IInv
<1>3. Fresh + 1 \in Nat /\ Fresh + 1 # 0 /\ Fresh \in Nat /\ Fresh # 0 /\ heap \in Seq(Object)
  BY <1>2, FreshFacts
<1>4. one \in Seq(Nat) /\ Range(one) = {Fresh + 1} /\ Once(one)
  BY <1>3, OneIsSeq DEF one
<1>5. IsNew(x, "Interaction", 0, one)
  <2>1. "Interaction" \in AnyKind /\ 0 \in Nat
    BY DEF AnyKind, NodeKind, OrdinaryKind
  <2> QED
    BY <1>4, <2>1, NewFacts DEF x
<1>6. /\ objects \in Seq(Object) /\ DOMAIN objects = DOMAIN heap \cup {Fresh} /\ Fresh \notin DOMAIN heap
      /\ Len(objects) = Fresh /\ objects[Fresh] = x /\ \A o \in DOMAIN heap : objects[o] = heap[o]
  BY <1>3, <1>5 DEF IsNew, Fresh, objects
<1>7. PICK h2, new : h2 = WithClone(objects, a) /\ new = CloneIds(objects, a)
  OBVIOUS
<1>8. IsWithClone(h2, objects, a, new)
  BY <1>2, <1>6, <1>7, WithCloneFacts
<1>9. Cloned(a) = {a}
  BY <1>2, MessageAlone
<1>10. new[a] = Fresh + 1
  <2>1. Ranked(Len(objects), Cloned(a))[a] = Len(objects) + 1
    BY <1>2, <1>3, <1>6, <1>9, AloneName
  <2> QED
    BY <1>6, <1>7, <2>1 DEF CloneIds
<1>11. PICK roots, H, X, D, mn2 :
         roots = {} /\ H = {} /\ X = {Fresh} /\ D = {} /\ mn2 = mine \cup {Fresh}
  OBVIOUS
<1>12. D = Deleted(roots) /\ \A o \in DOMAIN heap : Freed(heap, D)[o] = heap[o]
  BY <1>2, <1>11, DeletedNone
<1>13. /\ NewNames(new) /\ DOMAIN new = {a}
       /\ h2 \in Seq(Object) /\ DOMAIN h2 = DOMAIN objects \cup {Fresh + 1}
       /\ Fresh + 1 \notin DOMAIN objects /\ IsCopy(h2[Fresh + 1], a, new, {})
       /\ \A o \in DOMAIN objects : h2[o] = objects[o]
  BY <1>8, <1>9, <1>10 DEF IsWithClone
<1>14. /\ DOMAIN heap \subseteq DOMAIN h2 /\ DOMAIN h2 \ DOMAIN heap = {Fresh, Fresh + 1} /\ Fresh # Fresh + 1
       /\ h2[Fresh] = x /\ \A o \in DOMAIN heap : h2[o] = heap[o]
       /\ Fresh + 1 \notin DOMAIN heap
  BY <1>3, <1>6, <1>13
<1>15. ClonesAre(h2, a, new, X)
  BY <1>9, <1>10, <1>11, <1>13, <1>14 DEF ClonesAre
<1>16. /\ x.kind = "Interaction" /\ x.live /\ x.one = 0 /\ x.many = one /\ Range(x.lent) = {}
       /\ Pointers(x) = {Fresh + 1}
  BY <1>3, <1>4, <1>5 DEF IsNew
<1>17. Fit(h2, h2[Fresh])
  <2>1. h2[Fresh + 1].kind = "Msg" /\ Fresh + 1 \in DOMAIN h2
    BY <1>2, <1>13 DEF IsCopy
  <2>2. Holds(h2, Range(x.many), HoldsMany(x.kind)) /\ Holds(h2, Range(x.lent), HoldsLent(x.kind))
    BY <1>4, <1>16, <2>1 DEF Holds, HoldsMany
  <2>3. \E m \in Range(x.many) : \A p \in Range(x.many) : h2[p].kind = "Msg" <=> p = m
    BY <1>4, <1>16, <2>1
  <2>4. x.one \notin Range(x.many) /\ \A i, j \in DOMAIN x.many : x.many[i] = x.many[j] => i = j
    BY <1>3, <1>4, <1>16 DEF Once
  <2>5. x.one # 0 => Holds(h2, {x.one}, HoldsOne(x.kind))
    BY <1>16
  <2> QED
    BY <1>14, <1>16, <2>2, <2>3, <2>4, <2>5 DEF Fit
<1>18. mine \subseteq DOMAIN heap
  BY DEF IInv
<1>19. HolderFits(h2, a, new, X, H, Fresh, mn2, roots)
  <2>1. /\ \A p \in Pointers(h2[Fresh]) : p = new[a]
        /\ Range(h2[Fresh].lent) = {} /\ h2[Fresh].live
        /\ new[a] \in Pointers(h2[Fresh])
    BY <1>10, <1>14, <1>16
  <2>2. \A m \in Cloned(a) : new[m] \notin mn2
    BY <1>9, <1>10, <1>11, <1>14, <1>18
  <2>3. heap[a].kind \in LeafKind \ {"Expr"}
    BY <1>2 DEF LeafKind
  <2> QED
    BY <1>11, <1>17, <2>1, <2>2, <2>3 DEF HolderFits
<1>20. Safe(h2, mn2, lost)
  <2>1. /\ \A m \in Cloned(a) : m \in Live
        /\ \A d \in D : d \in Live
        /\ H \cap D = {} /\ \A n \in H : n \in Live /\ ~Stray(heap, mine, n)
        /\ \A p \in mn2 : p \in mine \ roots \/ p \in DOMAIN h2 \ DOMAIN heap
    BY <1>2, <1>9, <1>11, <1>14
  <2>2. \A o \in DOMAIN heap \ H : h2[o] = Freed(heap, D)[o]
    BY <1>12, <1>14
  <2>3. LetGo(h2, roots, H)
    BY <1>11 DEF LetGo
  <2> QED
    BY <1>2, <1>11, <1>12, <1>15, <1>19, <2>1, <2>2, <2>3, CloneStep
<1>21. heap' = h2 /\ mine' = mn2
  BY <1>1, <1>7, <1>11
<1> QED
  BY <1>1, <1>20, <1>21, SafeNext
-----------------------------------------------------------------------------
\* What a call does to the conditions that the program keeps.  What lives now lives in
\* objects as well, and nothing else that is allocated now.
Alive(objects) == \A o \in DOMAIN heap : o \in DOMAIN objects /\ (objects[o].live <=> heap[o].live)

\* No condition that the program keeps is freed.
Spares == \A c \in kept : heap[c].live => c \in DOMAIN heap' /\ heap'[c].live

LEMMA AliveSpares == ASSUME IInv, NEW objects, Alive(objects), heap' = objects PROVE Spares
<1>1. kept \subseteq DOMAIN heap
  BY DEF IInv
<1> QED
  BY <1>1 DEF Alive, Spares

\* What nobody points to is not deleted unless it is one of the roots.
LEMMA DeleteLeaves ==
  ASSUME IInv, ub = Defined, ub' = Defined, NEW roots \in SUBSET DOMAIN heap, NEW arg,
         NEW objects, Alive(objects), DeleteFirst(roots, arg, objects),
         NEW c \in DOMAIN heap \ roots, heap[c].live, \A o \in DOMAIN heap : c \notin Pointers(heap[o])
  PROVE  c \in DOMAIN heap' /\ heap'[c].live
<1>1. Safe(heap, mine, lost)
  BY DEF IInv
<1>2. heap' = Freed(objects, Deleted(roots))
  BY DEF DeleteFirst
<1>3. c \notin Deleted(roots)
  <2>1. \A p \in Deleted(roots) \ roots : \E d \in Deleted(roots) : p \in Pointers(heap[d])
    BY <1>1, DeletedFacts
  <2>2. Deleted(roots) \in SUBSET DOMAIN heap
    BY <1>1, DeletedFacts
  <2> QED
    BY <2>1, <2>2
<1> QED
  BY <1>2, <1>3 DEF Alive, Freed

\* That is so of what the program has to delete, be it a condition or not.
LEMMA Unpointed ==
  ASSUME IInv, ub = Defined, NEW c \in mine \cup kept
  PROVE  c \in DOMAIN heap /\ \A o \in DOMAIN heap : c \notin Pointers(heap[o])
BY DEF IInv, Safe, Held, Conditions, Unclaimed

LEMMA DeleteSpares ==
  ASSUME IInv, ub = Defined, ub' = Defined, NEW roots \in SUBSET DOMAIN heap, roots \cap kept = {}, NEW arg,
         NEW objects, Alive(objects), DeleteFirst(roots, arg, objects)
  PROVE  Spares
<1>1. ASSUME NEW c \in kept, heap[c].live PROVE c \in DOMAIN heap' /\ heap'[c].live
  BY <1>1, Unpointed, DeleteLeaves
<1> QED
  BY <1>1 DEF Spares

\* Objects that are edited, and new ones behind them, leave alone whether the others live.
LEMMA EditsAlive ==
  ASSUME heap \in Seq(Object), NEW n \in DOMAIN heap, NEW v
  PROVE  Alive(WithMany(heap, n, v)) /\ Alive(WithOne(heap, n, v)) /\ Alive(WithLent(heap, n, v))
<1>1. /\ [heap[n] EXCEPT !.many = v].live = heap[n].live
      /\ [heap[n] EXCEPT !.one = v].live = heap[n].live
      /\ [heap[n] EXCEPT !.lent = v].live = heap[n].live
  BY DEF Object
<1> QED
  BY <1>1 DEF Alive, WithMany, WithOne, WithLent

LEMMA MoreAlive ==
  ASSUME heap \in Seq(Object), NEW more, Len(more) \in Nat
  PROVE  Alive(heap \o more)
BY DEF Alive

LEMMA CloneAlive ==
  ASSUME Safe(heap, mine, lost), NEW a \in DOMAIN heap, NEW objects \in Seq(Object), DOMAIN heap \subseteq DOMAIN objects,
         Alive(objects)
  PROVE  Alive(WithClone(objects, a))
<1>1. PICK h2, new : h2 = WithClone(objects, a) /\ new = CloneIds(objects, a)
  OBVIOUS
<1>2. IsWithClone(h2, objects, a, new)
  BY <1>1, WithCloneFacts
<1> QED
  BY <1>1, <1>2 DEF IsWithClone, Alive

LEMMA MakeSpares == ASSUME IInv, NEW object, NEW taken, Make(object, taken) PROVE Spares
<1>1. heap' = Append(heap, object) /\ heap \in Seq(Object)
  BY DEF Make, IInv, Safe, Formed, Room, Running
<1>2. Alive(Append(heap, object))
  BY <1>1 DEF Alive
<1> QED
  BY <1>1, <1>2, AliveSpares

LEMMA OwnParts ==
  ASSUME IInv, ub = Defined
  PROVE  /\ heap \in Seq(Object) /\ mine \subseteq DOMAIN heap /\ mine \cap kept = {} /\ {} \subseteq DOMAIN heap
         /\ \A o \in DOMAIN heap : Pointers(heap[o]) \subseteq DOMAIN heap /\ Pointers(heap[o]) \cap kept = {}
BY PointersInHeap DEF IInv, Safe, Formed, Held, Conditions, Unclaimed

\* An object edited, and what it points to or the program has given it deleted first.
Edited(n, objects) == \E v : objects = WithMany(heap, n, v) \/ objects = WithOne(heap, n, v) \/ objects = WithLent(heap, n, v)

LEMMA EditedAlive ==
  ASSUME IInv, ub = Defined, NEW n \in DOMAIN heap, NEW objects, Edited(n, objects)
  PROVE  Alive(objects)
BY OwnParts, EditsAlive DEF Edited

LEMMA EditSpares ==
  ASSUME IInv, ub = Defined, NEW n \in DOMAIN heap, NEW objects, Edited(n, objects), heap' = objects
  PROVE  Spares
BY EditedAlive, AliveSpares

LEMMA ReplaceSpares ==
  ASSUME IInv, ub = Defined, ub' = Defined, NEW n \in DOMAIN heap, NEW objects, Edited(n, objects),
         NEW roots, roots \subseteq Pointers(heap[n]), DeleteFirst(roots, 0, objects)
  PROVE  Spares
<1>1. roots \subseteq DOMAIN heap /\ roots \cap kept = {}
  BY OwnParts
<1>2. PICK arg : arg = 0
  OBVIOUS
<1> QED
  BY <1>1, <1>2, EditedAlive, DeleteSpares

LEMMA CloneSpares ==
  ASSUME IInv, ub = Defined, ub' = Defined, NEW n \in DOMAIN heap, NEW a \in DOMAIN heap,
         NEW objects \in Seq(Object), objects = heap \/ Edited(n, objects),
         NEW roots, roots \subseteq Pointers(heap[n]), DeleteFirst(roots, a, WithClone(objects, a))
  PROVE  Spares
<1>1. roots \subseteq DOMAIN heap /\ roots \cap kept = {}
  BY OwnParts
<1>2. Alive(objects) /\ DOMAIN heap \subseteq DOMAIN objects
  BY EditedAlive DEF Alive
<1>3. Safe(heap, mine, lost)
  BY DEF IInv
<1>4. PICK g : g = WithClone(objects, a)
  OBVIOUS
<1>5. Alive(g)
  BY <1>2, <1>3, <1>4, CloneAlive
<1> QED
  BY <1>1, <1>4, <1>5, DeleteSpares

\* The calls that make objects, and those that only write pointers.
LEMMA MakesSpare ==
  ASSUME IInv, MakeSimple \/ MakeChoiceAt \/ MakeExpr \/ MakeFor \/ MakeIf \/ MakeAllReduceWith \/ MakeOneof
  PROVE  Spares
BY MakeSpares DEF MakeSimple, MakeChoiceAt, MakeExpr, MakeFor, MakeIf, MakeAllReduceWith, MakeOneof

LEMMA PairsSpare == ASSUME IInv, MakeInteraction \/ MakeAllReduce PROVE Spares
<1>1. \A x, y : Len(<<x, y>>) \in Nat
  OBVIOUS
<1>2. ub = Defined /\ \E x, y : heap' = heap \o <<x, y>>
  BY DEF MakeInteraction, MakeAllReduce, Room, Running
<1>3. PICK more : heap' = heap \o more /\ Len(more) \in Nat
  BY <1>1, <1>2
<1>4. Alive(heap \o more)
  BY <1>2, <1>3, OwnParts, MoreAlive
<1> QED
  BY <1>3, <1>4, AliveSpares

LEMMA WritesSpare ==
  ASSUME IInv, AppendChild \/ AddArg \/ AddInterrupt \/ AddParam \/ SetChild \/ SetIfCond \/ SetAllReduceMsg
               \/ SetSelector \/ SetRange
  PROVE  Spares
<1>1. ASSUME NEW kinds, NEW o \in Named(kinds), NEW args, Take(o, args) PROVE Spares
  <2>1. ub = Defined /\ Edited(o, heap')
    BY <1>1 DEF Take, Running, Edited, WithMany
  <2> QED
    BY <1>1, <2>1, LiveNamed, EditSpares
<1>2. ASSUME NEW kinds, NEW o \in Named(kinds), NEW kind, NEW p, Borrow(o, kind, p) PROVE Spares
  <2>1. ub = Defined /\ Edited(o, heap')
    BY <1>2 DEF Borrow, Running, Edited, WithLent
  <2> QED
    BY <1>2, <2>1, LiveNamed, EditSpares
<1>3. CASE SetChild
  <2>1. PICK b \in Named(BlockKind) : ub = Defined /\ \E i, n : heap' = [heap EXCEPT ![b].many[i] = n]
    BY <1>3 DEF SetChild, Running
  <2>2. Edited(b, heap')
    BY <2>1 DEF Edited, WithMany
  <2> QED
    BY <2>1, <2>2, LiveNamed, EditSpares
<1>4. CASE SetIfCond
  <2>1. PICK n \in Named({"If"}) : ub = Defined /\ Edited(n, heap')
    BY <1>4 DEF SetIfCond, Running, Edited, WithOne
  <2> QED
    BY <2>1, LiveNamed, EditSpares
<1>5. CASE SetAllReduceMsg
  <2>1. PICK n \in Named({"AllReduce"}) : ub = Defined /\ Edited(n, heap')
    BY <1>5 DEF SetAllReduceMsg, Running, Edited, WithLent
  <2> QED
    BY <2>1, LiveNamed, EditSpares
<1> QED
  BY <1>1, <1>2, <1>3, <1>4, <1>5 DEF AppendChild, AddArg, AddInterrupt, AddParam, SetSelector, SetRange

\* The calls that delete, and those that clone what they are given.
LEMMA DeletesSpare ==
  ASSUME IInv, ub' = Defined, RemoveSndr \/ RemoveRcvrs \/ SetEnd \/ SetBindexpr \/ SetExcept \/ Delete
  PROVE  Spares
<1>0. ASSUME ub = Defined, NEW kinds, NEW n \in Named(kinds)
      PROVE  /\ n \in DOMAIN heap /\ Range(heap[n].many) \subseteq Pointers(heap[n])
             /\ {heap[n].one} \ {0} \subseteq Pointers(heap[n])
  <2>1. n \in DOMAIN heap /\ Safe(heap, mine, lost)
    BY <1>0, LiveNamed
  <2> QED
    BY <2>1, ObjectFacts
<1>1. CASE RemoveSndr
  <2>1. PICK n \in Named({"Interaction"}) :
          ub = Defined /\ heap[n].one # 0 /\ DeleteFirst({heap[n].one}, 0, WithOne(heap, n, 0))
    BY <1>1 DEF RemoveSndr, Running, Replace, WithOne
  <2> QED
    BY <1>0, <2>1, ReplaceSpares DEF Edited
<1>2. CASE RemoveRcvrs
  <2>1. PICK n \in Named({"Interaction"}) :
          ub = Defined /\ DeleteFirst(Range(heap[n].many) \cap OfKind({"Role"}), 0, WithMany(heap, n, NoRcvrs(n)))
    BY <1>2 DEF RemoveRcvrs, Running, Replace, WithMany
  <2> QED
    BY <1>0, <2>1, ReplaceSpares DEF Edited
<1>3. CASE SetEnd
  <2>1. PICK e \in Named({"Expr"}) : ub = Defined /\ \E i \in DOMAIN heap[e].many : \E x :
          DeleteFirst({heap[e].many[i]}, 0, [heap EXCEPT ![e].many[i] = x])
    BY <1>3 DEF SetEnd, Running
  <2>2. PICK i \in DOMAIN heap[e].many : \E x : DeleteFirst({heap[e].many[i]}, 0, [heap EXCEPT ![e].many[i] = x])
    BY <2>1
  <2>3. PICK x : DeleteFirst({heap[e].many[i]}, 0, [heap EXCEPT ![e].many[i] = x])
    BY <2>2
  <2>4. PICK objects, v : objects = [heap EXCEPT ![e].many[i] = x] /\ v = [heap[e].many EXCEPT ![i] = x]
    OBVIOUS
  <2>5. objects = WithMany(heap, e, v)
    BY <2>4 DEF WithMany
  <2>6. Edited(e, objects) /\ {heap[e].many[i]} \subseteq Range(heap[e].many)
    BY <2>5 DEF Edited, Range
  <2> QED
    BY <1>0, <2>1, <2>3, <2>4, <2>6, ReplaceSpares
<1>4. CASE SetBindexpr
  <2>1. PICK f \in Named({"For"}), e \in MineOf({"Expr"}) :
          ub = Defined /\ DeleteFirst({heap[f].one} \ {0}, 0, WithOne(heap, f, e))
    BY <1>4 DEF SetBindexpr, Running, WithOne
  <2> QED
    BY <1>0, <2>1, ReplaceSpares DEF Edited
<1>5. CASE SetExcept
  <2>1. PICK f \in Named({"For"}), e \in MineOf({"Expr"}) :
          ub = Defined /\ DeleteFirst(Range(heap[f].many) \ Range(Children(f)), 0, WithMany(heap, f, Children(f) \o <<e>>))
    BY <1>5 DEF SetExcept, Running, WithMany
  <2> QED
    BY <1>0, <2>1, ReplaceSpares DEF Edited
<1>6. CASE Delete
  <2>1. PICK o \in mine : ub = Defined /\ DeleteFirst({o}, 0, heap)
    BY <1>6 DEF Delete, Running
  <2>2. {o} \subseteq DOMAIN heap /\ {o} \cap kept = {}
    BY <2>1, OwnParts
  <2>3. Alive(heap)
    BY DEF Alive
  <2>4. PICK arg : arg = 0
    OBVIOUS
  <2> QED
    BY <2>1, <2>2, <2>3, <2>4, DeleteSpares
<1> QED
  BY <1>1, <1>2, <1>3, <1>4, <1>5, <1>6

LEMMA ClonesSpare ==
  ASSUME IInv, ub' = Defined, AddPayload \/ AddRcvr \/ SetMsg \/ SetRole \/ Clone \/ MakeInteractionWith
  PROVE  Spares
<1>1. ASSUME NEW kinds, NEW n \in Named(kinds), NEW others, NEW a \in Copyable(others), AddClone(n, a) PROVE Spares
  <2>1. ub = Defined
    BY <1>1 DEF AddClone, Room, Running
  <2>2. n \in DOMAIN heap /\ a \in DOMAIN heap /\ Safe(heap, mine, lost)
    BY <1>1, <2>1, LiveNamed, CopyableFacts
  <2>3. PICK objects, id, roots : /\ id = CloneIds(heap, a)[a] /\ objects = WithMany(heap, n, Append(heap[n].many, id))
                                  /\ roots = {}
    OBVIOUS
  <2>4. Append(heap[n].many, id) \in Seq(Nat) /\ heap \in Seq(Object)
    BY <2>2, <2>3, NewNameOf, ObjectFacts
  <2>5. objects \in Seq(Object)
    BY <2>2, <2>3, <2>4, EditMany
  <2>6. DeleteFirst(roots, a, WithClone(objects, a))
    BY <1>1, <2>3 DEF AddClone, Replace, WithMany
  <2> QED
    BY <2>1, <2>2, <2>3, <2>5, <2>6, CloneSpares DEF Edited
<1>2. CASE SetMsg
  <2>1. PICK n \in Named({"Interaction"}), a \in Copyable({"Msg"}) :
          /\ ub = Defined
          /\ DeleteFirst(PartsOf(n, {"Msg"}), a,
               WithClone(WithMany(heap, n, [i \in DOMAIN heap[n].many |-> IF heap[n].many[i] \in PartsOf(n, {"Msg"}) THEN Fresh ELSE heap[n].many[i]]), a))
    BY <1>2 DEF SetMsg, Room, Running, Replace, WithMany
  <2>2. n \in DOMAIN heap /\ a \in DOMAIN heap /\ Safe(heap, mine, lost) /\ heap[n].kind = "Interaction"
    BY <2>1, LiveNamed, CopyableFacts
  <2>3. PICK roots, v, objects :
          /\ roots = PartsOf(n, {"Msg"})
          /\ v = [i \in DOMAIN heap[n].many |-> IF heap[n].many[i] \in roots THEN Fresh ELSE heap[n].many[i]]
          /\ objects = WithMany(heap, n, v)
    OBVIOUS
  <2>4. heap[n].many \in Seq(Nat) /\ heap \in Seq(Object) /\ Fresh \in Nat
    BY <2>2, ObjectFacts, FreshFacts
  <2>5. v \in Seq(Nat)
    <3>1. heap[n].many \in [1..Len(heap[n].many) -> Nat] /\ Len(heap[n].many) \in Nat
      BY <2>4
    <3>2. v \in [1..Len(heap[n].many) -> Nat]
      BY <2>3, <2>4, <3>1
    <3> QED
      BY <3>1, <3>2
  <2>6. objects \in Seq(Object)
    BY <2>2, <2>3, <2>4, <2>5, EditMany
  <2>7. roots \subseteq Pointers(heap[n])
    <3>1. \A p \in Range(heap[n].lent) : heap[p].kind \in HoldsLent("Interaction")
      BY <2>2, ObjectFacts
    <3> QED
      BY <2>3, <3>1 DEF PartsOf, PointersOf, Lent, HoldsLent
  <2>8. DeleteFirst(roots, a, WithClone(objects, a))
    BY <2>1, <2>3
  <2> QED
    BY <2>1, <2>2, <2>3, <2>6, <2>7, <2>8, CloneSpares DEF Edited
<1>3. CASE SetRole
  <2>1. PICK n \in Named({"Interaction", "Choice"}), a \in Copyable({"Role"}) :
          ub = Defined /\ DeleteFirst({heap[n].one} \ {0}, a, WithClone(WithOne(heap, n, CloneIds(heap, a)[a]), a))
    BY <1>3 DEF SetRole, Room, Running, Replace, WithOne
  <2>2. n \in DOMAIN heap /\ a \in DOMAIN heap /\ Safe(heap, mine, lost)
    BY <2>1, LiveNamed, CopyableFacts
  <2>3. PICK id, objects, roots : id = CloneIds(heap, a)[a] /\ objects = WithOne(heap, n, id) /\ roots = {heap[n].one} \ {0}
    OBVIOUS
  <2>4. id \in Nat /\ heap \in Seq(Object) /\ roots \subseteq Pointers(heap[n])
    BY <2>2, <2>3, NewNameOf, ObjectFacts
  <2>5. objects \in Seq(Object)
    BY <2>2, <2>3, <2>4, EditOne
  <2>6. DeleteFirst(roots, a, WithClone(objects, a))
    BY <2>1, <2>3
  <2> QED
    BY <2>1, <2>2, <2>3, <2>4, <2>5, <2>6, CloneSpares DEF Edited
<1>4. CASE Clone
  <2>1. PICK o \in Copyable(AnyKind) : ub = Defined /\ DeleteFirst({}, o, WithClone(heap, o))
    BY <1>4 DEF Clone, Room, Running
  <2>2. o \in DOMAIN heap
    BY <2>1, CopyableFacts
  <2>3. PICK roots : roots = {}
    OBVIOUS
  <2>4. roots \subseteq Pointers(heap[o]) /\ DeleteFirst(roots, o, WithClone(heap, o))
    BY <2>1, <2>3
  <2> QED
    BY <2>1, <2>2, <2>4, OwnParts, CloneSpares
<1>5. CASE MakeInteractionWith
  <2>1. PICK a \in Copyable({"Msg"}) : ub = Defined /\ heap' = WithClone(Append(heap, New("Interaction", 0, <<Fresh + 1>>)), a)
    BY <1>5 DEF MakeInteractionWith, Room, Running
  <2>2. a \in DOMAIN heap /\ Safe(heap, mine, lost)
    BY <2>1, CopyableFacts DEF IInv
  <2>3. PICK one, x, objects : one = <<Fresh + 1>> /\ x = New("Interaction", 0, one) /\ objects = Append(heap, x)
    OBVIOUS
  <2>4. one \in Seq(Nat) /\ heap \in Seq(Object)
    BY <2>2, <2>3, FreshFacts, OneIsSeq
  <2>5. x \in Object
    BY <2>3, <2>4, NewFacts DEF IsNew, AnyKind, NodeKind, OrdinaryKind
  <2>6. objects \in Seq(Object) /\ DOMAIN heap \subseteq DOMAIN objects /\ \A o \in DOMAIN heap : objects[o] = heap[o]
    BY <2>3, <2>4, <2>5
  <2>7. Alive(objects)
    BY <2>6 DEF Alive
  <2>8. PICK g : g = WithClone(objects, a)
    OBVIOUS
  <2>9. Alive(g)
    BY <2>2, <2>6, <2>7, <2>8, CloneAlive
  <2> QED
    BY <2>1, <2>3, <2>8, <2>9, AliveSpares
<1>6. CASE AddPayload
  BY <1>1, <1>6 DEF AddPayload
<1>7. CASE AddRcvr
  BY <1>1, <1>7 DEF AddRcvr
<1> QED
  BY <1>2, <1>3, <1>4, <1>5, <1>6, <1>7
=============================================================================
