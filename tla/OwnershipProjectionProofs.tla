--------------------- MODULE OwnershipProjectionProofs ---------------------
(***************************************************************************)
(* Proofs about Ownership and ParamOwnership, continued: the projections,  *)
(* which copy many objects at once, and the theorems. The objects that a   *)
(* projection allocates are a family: a pair <<n, m>> is the copy of m     *)
(* made at statement n, and points to copies made at n, to what copies     *)
(* share, or to the copies of the statements nearest below n.              *)
(***************************************************************************)
EXTENDS OwnershipProofs

\* The copy of m that belongs to the copy of n: it shares what copies share, has copies
\* of other parts, and the copies of which it is the holder.
SiteMember(h2, mn2, P, ids, holder, L, n, m, o) ==
  /\ h2[o].live /\ Fit(h2, h2[o])
  /\ \A p \in Pointers(h2[o]) :
       \/ p \in Pointers(heap[m]) /\ MayShare(heap, FALSE, m, p)
       \/ \E q \in Pointers(heap[m]) : q # n /\ In(P, n, q) /\ p = Id(ids, n, q)
       \/ \E k : In(P, k, k) /\ k \notin L /\ p = Id(ids, k, k) /\ holder[k] = o
  /\ \A c \in Range(h2[o].lent) :
       IF heap[m].kind = "Interaction"
         THEN \/ \E q \in Range(heap[m].lent) : q # n /\ In(P, n, q) /\ c = Id(ids, n, q)
              \/ \E k : In(P, k, k) /\ k \in L /\ c = Id(ids, k, k) /\ holder[k] = o
              \/ SoleLent(h2, mn2, P, ids, {}, o, c)
         ELSE c \in Range(heap[m].lent)

\* Such an object points and borrows as a member of a family should.
LEMMA SiteMemberAs ==
  ASSUME Formed(heap), NEW h2, SameKinds(heap, h2), NEW mn2, NEW r2, NEW P, NEW ids, NEW holder, NEW L, NEW H, H = {},
         Family(h2, mn2, P, ids, holder, H), NEW n, NEW m, In(P, n, m), NEW o, o = Id(ids, n, m),
         SiteMember(h2, mn2, P, ids, holder, L, n, m, o), NEW roots
  PROVE  PointsAs(h2, mn2, r2, P, ids, holder, L, H, o) /\ BorrowsAs(h2, mn2, roots, P, ids, holder, L, H, o)
<1>1. /\ m \in DOMAIN heap /\ o \in DOMAIN h2 \ DOMAIN heap /\ h2[o].kind = heap[m].kind
      /\ \A k, l : In(P, k, l) => Id(ids, k, l) \notin DOMAIN heap
  BY DEF Family
<1>2. ASSUME NEW p \in Pointers(h2[o])
      PROVE  \/ SharedWith(h2, r2, o, p)
             \/ \E k, l, q : PartAt(P, ids, k, l, q, o, p) /\ q \in Pointers(heap[l])
             \/ \E k : In(P, k, k) /\ k \notin L /\ p = Id(ids, k, k) /\ holder[k] = o
  <2>1. CASE p \in Pointers(heap[m]) /\ MayShare(heap, FALSE, m, p)
    <3>1. p \in DOMAIN heap
      BY <1>1, <2>1, PointersInHeap
    <3>2. MayShare(h2, r2, o, p) /\ MayShare(h2, r2, m, p)
      BY <1>1, <2>1, <3>1 DEF MayShare, SameKinds
    <3> QED
      BY <1>1, <2>1, <3>2 DEF SharedWith
  <2>2. CASE \E q \in Pointers(heap[m]) : q # n /\ In(P, n, q) /\ p = Id(ids, n, q)
    <3>1. PICK q \in Pointers(heap[m]) : q # n /\ In(P, n, q) /\ p = Id(ids, n, q)
      BY <2>2
    <3>2. PartAt(P, ids, n, m, q, o, p) /\ q \in Pointers(heap[m])
      BY <3>1 DEF PartAt
    <3> QED
      BY <3>2
  <2> QED
    BY <1>2, <2>1, <2>2 DEF SiteMember
<1>3. PointsAs(h2, mn2, r2, P, ids, holder, L, H, o)
  BY <1>2 DEF PointsAs
<1>4. ASSUME NEW c \in Range(h2[o].lent)
      PROVE  /\ ~Stray(heap, mine, c)
             /\ h2[o].kind = "Interaction" =>
                  \/ \E k, l, q : PartAt(P, ids, k, l, q, o, c) /\ q \in Range(heap[l].lent) /\ heap[l].kind = "Interaction"
                  \/ \E k : In(P, k, k) /\ k \in L /\ c = Id(ids, k, k) /\ holder[k] = o
                  \/ SoleLent(h2, mn2, P, ids, H, o, c)
  <2>1. CASE heap[m].kind # "Interaction"
    <3>1. c \in Range(heap[m].lent)
      BY <1>4, <2>1 DEF SiteMember
    <3> QED
      BY <1>1, <2>1, <3>1 DEF Stray
  <2>2. CASE heap[m].kind = "Interaction"
    <3>1. CASE \E q \in Range(heap[m].lent) : q # n /\ In(P, n, q) /\ c = Id(ids, n, q)
      <4>1. PICK q \in Range(heap[m].lent) : q # n /\ In(P, n, q) /\ c = Id(ids, n, q)
        BY <3>1
      <4>2. PartAt(P, ids, n, m, q, o, c) /\ q \in Range(heap[m].lent) /\ c \notin DOMAIN heap
        BY <1>1, <4>1 DEF PartAt
      <4> QED
        BY <2>2, <4>2 DEF Stray
    <3>2. CASE \E k : In(P, k, k) /\ k \in L /\ c = Id(ids, k, k) /\ holder[k] = o
      BY <1>1, <3>2 DEF Stray
    <3>3. CASE SoleLent(h2, mn2, P, ids, H, o, c)
      BY <3>3 DEF SoleLent, Stray
    <3> QED
      BY <1>4, <2>2, <3>1, <3>2, <3>3 DEF SiteMember
  <2> QED
    BY <2>1, <2>2
<1>5. BorrowsAs(h2, mn2, roots, P, ids, holder, L, H, o)
  BY <1>4 DEF BorrowsAs
<1> QED
  BY <1>3, <1>5

\* h2 is the heap, the copies of the family, and X.
Extends(h2, P, ids, X) ==
  /\ h2 \in Seq(Object) /\ DOMAIN heap \subseteq DOMAIN h2
  /\ \A o \in DOMAIN heap : h2[o] = heap[o]
  /\ \A o \in DOMAIN h2 \ DOMAIN heap : o \in X \/ \E n, m : In(P, n, m) /\ o = Id(ids, n, m)
  /\ X \subseteq DOMAIN h2 \ DOMAIN heap
  /\ \A n, m : In(P, n, m) => Id(ids, n, m) \notin X

\* A call that allocates a block and a family below it.
LEMMA CopiesStep ==
  ASSUME Safe(heap, mine, lost), NEW h2, NEW mn2, NEW ls2, NEW r2, r2 = Relic(h2, mn2, ls2),
         NEW P, NEW ids, NEW holder, NEW L, NEW X, Extends(h2, P, ids, X), NEW H, H = {}, NEW roots, roots = {},
         Family(h2, mn2, P, ids, holder, H),
         \A n, m : In(P, n, m) => SiteMember(h2, mn2, P, ids, holder, L, n, m, Id(ids, n, m)),
         \A o \in X : /\ h2[o].live /\ Fit(h2, h2[o])
                      /\ PointsAs(h2, mn2, r2, P, ids, holder, L, H, o)
                      /\ BorrowsAs(h2, mn2, roots, P, ids, holder, L, H, o),
         \A o, p : Sole(h2, mn2, P, ids, H, o, p) /\ o \in NewIn(h2, H) /\ p \in Pointers(h2[o]) =>
           h2[o].kind \in LeafKind \ {"Expr"} \/ h2[p].kind \in LeafKind \ {"Expr"},
         Nested(h2, P, ids, holder, NodeKind, H), Nested(h2, P, ids, holder, {"Expr"}, H),
         \A p \in DOMAIN h2 \ DOMAIN heap : Found(h2, mn2, ls2, p),
         mine \subseteq mn2, \A p \in mn2 : p \in mine \/ p \in DOMAIN h2 \ DOMAIN heap,
         lost \subseteq ls2, ls2 \subseteq DOMAIN h2
  PROVE  Safe(h2, mn2, ls2)
<1>1. Formed(heap)
  BY DEF Safe
<1>2. PICK D : D = Deleted(roots)
  OBVIOUS
<1>3. D = {} /\ \A o \in DOMAIN heap : Freed(heap, D)[o] = heap[o]
  BY <1>2, DeletedNone
<1>4. /\ h2 \in Seq(Object) /\ DOMAIN heap \subseteq DOMAIN h2
      /\ \A o \in DOMAIN heap : h2[o] = heap[o]
      /\ \A o \in DOMAIN h2 \ DOMAIN heap : o \in X \/ \E n, m : In(P, n, m) /\ o = Id(ids, n, m)
  BY DEF Extends
<1>5. SameKinds(heap, h2)
  BY <1>4 DEF SameKinds
<1>6. NewIn(h2, H) = DOMAIN h2 \ DOMAIN heap
  BY DEF NewIn
<1>7. ASSUME NEW o \in NewIn(h2, H)
      PROVE  /\ h2[o].live /\ Fit(h2, h2[o])
             /\ PointsAs(h2, mn2, r2, P, ids, holder, L, H, o)
             /\ BorrowsAs(h2, mn2, roots, P, ids, holder, L, H, o)
  <2>1. CASE o \in X
    BY <2>1
  <2>2. CASE \E n, m : In(P, n, m) /\ o = Id(ids, n, m)
    <3>1. PICK n, m : In(P, n, m) /\ o = Id(ids, n, m)
      BY <2>2
    <3>2. SiteMember(h2, mn2, P, ids, holder, L, n, m, o)
      BY <3>1
    <3>3. PointsAs(h2, mn2, r2, P, ids, holder, L, H, o) /\ BorrowsAs(h2, mn2, roots, P, ids, holder, L, H, o)
      BY <1>1, <1>5, <3>1, <3>2, SiteMemberAs
    <3> QED
      BY <3>2, <3>3 DEF SiteMember
  <2> QED
    BY <1>4, <1>6, <2>1, <2>2
<1>8. \A o \in NewIn(h2, H) : Fit(h2, h2[o])
  BY <1>7
<1>9. /\ \A o \in NewIn(h2, H) : PointsAs(h2, mn2, r2, P, ids, holder, L, H, o)
      /\ \A o \in NewIn(h2, H) : BorrowsAs(h2, mn2, roots, P, ids, holder, L, H, o)
  BY <1>7
<1>10. \A o \in DOMAIN h2 \ DOMAIN heap : h2[o].live
  BY <1>6, <1>7
<1>11. LetGo(h2, roots, H)
  BY DEF LetGo
<1>12. NewKept(h2, mn2, ls2, roots, H)
  <2>1. \A p \in mine \cup (DOMAIN h2 \ DOMAIN heap) : p \in roots \/ Found(h2, mn2, ls2, p)
    BY DEF Found
  <2> QED
    BY <2>1 DEF NewKept
<1>13. /\ roots \in SUBSET DOMAIN heap /\ H \in SUBSET DOMAIN heap
       /\ \A d \in D : heap[d].live
       /\ H \cap D = {} /\ \A n \in H : heap[n].live /\ ~Stray(heap, mine, n)
       /\ \A n \in H : h2[n].kind = heap[n].kind /\ h2[n].live
       /\ \A p \in mn2 : p \in mine \ roots \/ p \in DOMAIN h2 \ DOMAIN heap
  BY <1>3
<1>14. \A o \in DOMAIN heap \ H : h2[o] = Freed(heap, D)[o]
  BY <1>3, <1>4
<1> QED
  BY <1>2, <1>4, <1>8, <1>9, <1>10, <1>11, <1>12, <1>13, <1>14, FamilyStep
-----------------------------------------------------------------------------
\* The walk of a projection, for both visitors: keep are the statements that get a node, stop those
\* below which it does not go.
Kids(o) == Range(Children(o))

\* A walk down from x: it ends at the objects of stop and makes something of those of keep.
Visit(stop, x)      == Reached({x}, [o \in DOMAIN heap |-> IF o \in stop THEN {} ELSE Kids(o)])
Pass(keep, stop, k) == Reached({k}, [o \in DOMAIN heap |-> {c \in Kids(o) : c \notin keep \cup stop}])
Beneath(keep, stop, k) == {c \in UNION {Kids(o) : o \in Pass(keep, stop, k)} : c \in keep}

\* Children are nodes.
LEMMA KidsFacts ==
  ASSUME Safe(heap, mine, lost), NEW o \in DOMAIN heap
  PROVE  /\ Kids(o) \subseteq Pointers(heap[o]) /\ Kids(o) \subseteq DOMAIN heap
         /\ \A c \in Kids(o) : heap[c].kind \in NodeKind
         /\ \A q \in DOMAIN heap : \A c \in Kids(o) : c \in Kids(q) => o = q
         /\ \A c \in Pointers(heap[o]) : heap[c].kind \in NodeKind => c \in Kids(o)
         /\ Kids(o) = {p \in Range(heap[o].many) : heap[p].kind \in NodeKind}
<1>1. ASSUME NEW q \in DOMAIN heap
      PROVE  /\ Kids(q) = {p \in Range(heap[q].many) : heap[p].kind \in NodeKind}
             /\ Kids(q) \subseteq Pointers(heap[q]) /\ Kids(q) \subseteq DOMAIN heap
  <2>1. heap[q].many \in Seq(Nat) /\ Range(heap[q].many) \subseteq DOMAIN heap /\ 0 \notin DOMAIN heap
    BY ObjectFacts
  <2>2. PICK ps, s, kinds : ps \in Seq(Nat) /\ ps = heap[q].many /\ kinds = NodeKind /\ s = OnlyKinds(ps, kinds)
    BY <2>1
  <2>3. Range(s) = {p \in Range(ps) : heap[p].kind \in kinds}
    BY <2>2, OnlyKindsFacts
  <2>4. Kids(q) = {p \in Range(heap[q].many) : heap[p].kind \in NodeKind}
    BY <2>2, <2>3 DEF Kids, Children
  <2> QED
    BY <2>1, <2>4 DEF Pointers
<1>2. ASSUME NEW q \in DOMAIN heap, NEW c \in Kids(o), c \in Kids(q), o # q PROVE FALSE
  <2>1. c \in Pointers(heap[o]) /\ c \in Pointers(heap[q]) /\ heap[c].kind \in NodeKind
    BY <1>1, <1>2
  <2>2. MayShare(heap, TheRelic, o, c)
    BY <1>2, <2>1 DEF Safe, Separate, TheRelic
  <2> QED
    BY <2>1, <2>2 DEF MayShare, NodeKind, OrdinaryKind, ParamKind
<1>3. ASSUME NEW c \in Pointers(heap[o]), heap[c].kind \in NodeKind PROVE c \in Kids(o)
  <2>1. Pointers(heap[o]) = (Range(heap[o].many) \cup {heap[o].one}) \ {0}
    BY ObjectFacts
  <2>2. heap[o].one # 0 => heap[heap[o].one].kind \in HoldsOne(heap[o].kind)
    BY ObjectFacts
  <2>3. HoldsOne(heap[o].kind) \subseteq {"Role", "Expr"}
    BY DEF HoldsOne
  <2>4. heap[c].kind \notin {"Role", "Expr"}
    BY <1>3 DEF NodeKind, OrdinaryKind, ParamKind
  <2>5. c \in Range(heap[o].many)
    BY <2>1, <2>2, <2>3, <2>4
  <2> QED
    BY <1>1, <1>3, <2>5
<1> QED
  BY <1>1, <1>2, <1>3

\* What is visited, and passed on the way to the nearest statements kept.
LEMMA VisitFacts ==
  ASSUME Safe(heap, mine, lost), NEW stop, NEW x \in DOMAIN heap, heap[x].kind \in NodeKind
  PROVE  /\ Visit(stop, x) \in SUBSET DOMAIN heap /\ x \in Visit(stop, x)
         /\ \A o \in Visit(stop, x) : heap[o].kind \in NodeKind
         /\ \A o \in Visit(stop, x) : o \notin stop => Kids(o) \subseteq Visit(stop, x)
         /\ \A S \in SUBSET DOMAIN heap : x \in S /\ (\A q \in S : q \notin stop => Kids(q) \subseteq S) => Visit(stop, x) \subseteq S
         /\ \A p \in Visit(stop, x) : p = x \/ \E q \in Visit(stop, x) : q \notin stop /\ p \in Kids(q)
         /\ \A o \in Visit(stop, x) : o \notin stop => x \notin Kids(o)
<1> DEFINE next == [o \in DOMAIN heap |-> IF o \in stop THEN {} ELSE Kids(o)]
           V == Visit(stop, x)
<1>1. IsFiniteSet(DOMAIN heap)
  BY PointersInHeap DEF Safe
<1>2. next \in [DOMAIN heap -> SUBSET DOMAIN heap]
  BY KidsFacts
<1>3. V = Reached({x}, next) /\ \A o \in DOMAIN heap : next[o] = IF o \in stop THEN {} ELSE Kids(o)
  BY DEF Visit
<1> HIDE DEF next, V
<1>4. PICK roots \in SUBSET DOMAIN heap : roots = {x}
  OBVIOUS
<1>5. /\ Reached(roots, next) \in SUBSET DOMAIN heap /\ roots \subseteq Reached(roots, next)
      /\ \A q \in Reached(roots, next) : next[q] \subseteq Reached(roots, next)
      /\ \A S \in SUBSET DOMAIN heap : roots \subseteq S /\ Closed(S, next) => Reached(roots, next) \subseteq S
      /\ \A p \in Reached(roots, next) : p \in roots \/ \E q \in Reached(roots, next) : p \in next[q]
  BY <1>1, <1>2, ReachedFacts
<1>6. V \in SUBSET DOMAIN heap /\ x \in V
  BY <1>3, <1>4, <1>5
<1>7. \A o \in V : o \notin stop => Kids(o) \subseteq V
  BY <1>3, <1>4, <1>5, <1>6
<1>8. \A S \in SUBSET DOMAIN heap : x \in S /\ (\A q \in S : q \notin stop => Kids(q) \subseteq S) => V \subseteq S
  <2> SUFFICES ASSUME NEW S \in SUBSET DOMAIN heap, x \in S, \A q \in S : q \notin stop => Kids(q) \subseteq S
               PROVE  V \subseteq S
    OBVIOUS
  <2>1. Closed(S, next)
    BY <1>3 DEF Closed
  <2> QED
    BY <1>3, <1>4, <1>5, <2>1
<1>9. \A p \in V : p = x \/ \E q \in V : q \notin stop /\ p \in Kids(q)
  BY <1>3, <1>4, <1>5
<1>10. \A o \in V : heap[o].kind \in NodeKind
  <2>1. PICK S \in SUBSET DOMAIN heap : S = {o \in DOMAIN heap : heap[o].kind \in NodeKind}
    OBVIOUS
  <2>2. \A q \in S : Kids(q) \subseteq S
    BY <2>1, KidsFacts
  <2> QED
    BY <1>8, <2>1, <2>2
<1>11. ASSUME NEW o \in V, o \notin stop, x \in Kids(o) PROVE FALSE
  <2>1. \A p \in V : \E q \in V : p \in Kids(q)
    BY <1>9, <1>11
  <2>2. \A p \in V : \E q \in V : p \in Pointers(heap[q])
    BY <1>6, <2>1, KidsFacts
  <2>3. V \in SUBSET {q \in DOMAIN heap : heap[q].kind \in NodeKind} /\ V # {}
    BY <1>6, <1>10
  <2> QED
    BY <2>2, <2>3 DEF Safe, Acyclic
<1> QED
  BY <1>6, <1>7, <1>8, <1>9, <1>10, <1>11 DEF V

LEMMA PassFacts ==
  ASSUME Safe(heap, mine, lost), NEW keep, NEW stop, NEW k \in DOMAIN heap, NEW B, B = Pass(keep, stop, k)
  PROVE  /\ B \in SUBSET DOMAIN heap /\ k \in B
         /\ \A q \in B : \A c \in Kids(q) : c \notin keep /\ c \notin stop => c \in B
         /\ \A S \in SUBSET DOMAIN heap :
              k \in S /\ (\A q \in S : \A c \in Kids(q) : c \notin keep /\ c \notin stop => c \in S) => B \subseteq S
         /\ \A p \in B : p = k \/ (p \notin keep /\ p \notin stop /\ \E q \in B : p \in Kids(q))
<1> DEFINE next == [o \in DOMAIN heap |-> {c \in Kids(o) : c \notin keep \cup stop}]
<1>1. IsFiniteSet(DOMAIN heap)
  BY PointersInHeap DEF Safe
<1>2. next \in [DOMAIN heap -> SUBSET DOMAIN heap]
  BY KidsFacts
<1>3. B = Reached({k}, next) /\ \A o \in DOMAIN heap : next[o] = {c \in Kids(o) : c \notin keep /\ c \notin stop}
  BY DEF Pass
<1> HIDE DEF next
<1>4. PICK roots \in SUBSET DOMAIN heap : roots = {k}
  OBVIOUS
<1>5. /\ Reached(roots, next) \in SUBSET DOMAIN heap /\ roots \subseteq Reached(roots, next)
      /\ \A q \in Reached(roots, next) : next[q] \subseteq Reached(roots, next)
      /\ \A S \in SUBSET DOMAIN heap : roots \subseteq S /\ Closed(S, next) => Reached(roots, next) \subseteq S
      /\ \A p \in Reached(roots, next) : p \in roots \/ \E q \in Reached(roots, next) : p \in next[q]
  BY <1>1, <1>2, ReachedFacts
<1>6. B \in SUBSET DOMAIN heap /\ k \in B
  BY <1>3, <1>4, <1>5
<1>7. \A q \in B : \A c \in Kids(q) : c \notin keep /\ c \notin stop => c \in B
  BY <1>3, <1>4, <1>5, <1>6
<1>8. \A S \in SUBSET DOMAIN heap :
        k \in S /\ (\A q \in S : \A c \in Kids(q) : c \notin keep /\ c \notin stop => c \in S) => B \subseteq S
  <2> SUFFICES ASSUME NEW S \in SUBSET DOMAIN heap, k \in S,
                      \A q \in S : \A c \in Kids(q) : c \notin keep /\ c \notin stop => c \in S
               PROVE  B \subseteq S
    OBVIOUS
  <2>1. Closed(S, next)
    BY <1>3 DEF Closed
  <2> QED
    BY <1>3, <1>4, <1>5, <2>1
<1>9. \A p \in B : p = k \/ (p \notin keep /\ p \notin stop /\ \E q \in B : p \in Kids(q))
  BY <1>3, <1>4, <1>5, <1>6
<1> QED
  BY <1>6, <1>7, <1>8, <1>9
-----------------------------------------------------------------------------
\* Where the walk makes something, or begins.
Site(keep, stop, x, k) == k \in Visit(stop, x) /\ k \notin stop /\ (k \in keep \/ k = x)

\* Nothing kept stands between.
Skips(keep, stop, x, k) == \A b \in Pass(keep, stop, k) : b # k => b \notin keep /\ b # x

\* The nearest kept statements below a site, and that two sites have none in common.
LEMMA SiteFacts ==
  ASSUME Safe(heap, mine, lost), NEW keep, NEW stop, keep \cap stop = {}, NEW x \in DOMAIN heap, heap[x].kind \in NodeKind,
         NEW k, Site(keep, stop, x, k)
  PROVE  /\ k \in DOMAIN heap
         /\ \A b \in Pass(keep, stop, k) : b \in Visit(stop, x) /\ b \notin stop
         /\ \A n \in Beneath(keep, stop, k) :
              /\ n \in keep /\ n \in Visit(stop, x) /\ n # x /\ n \in DOMAIN heap
              /\ Leads(Pass(keep, stop, k), k, n, NodeKind)
         /\ Skips(keep, stop, x, k)
<1>1. k \in DOMAIN heap /\ k \in Visit(stop, x) /\ k \notin stop
  BY VisitFacts DEF Site
<1>2. PICK B : B = Pass(keep, stop, k)
  OBVIOUS
<1>3. /\ B \in SUBSET DOMAIN heap /\ k \in B
      /\ \A S \in SUBSET DOMAIN heap :
           k \in S /\ (\A q \in S : \A c \in Kids(q) : c \notin keep /\ c \notin stop => c \in S) => B \subseteq S
      /\ \A p \in B : p = k \/ (p \notin keep /\ p \notin stop /\ \E q \in B : p \in Kids(q))
  BY <1>1, <1>2, PassFacts
<1>4. \A b \in B : b \in Visit(stop, x) /\ b \notin stop
  <2>1. PICK S : S = {b \in Visit(stop, x) : b \notin stop}
    OBVIOUS
  <2>2. S \in SUBSET DOMAIN heap /\ k \in S
    BY <1>1, <2>1, VisitFacts
  <2>3. \A q \in S : \A c \in Kids(q) : c \notin keep /\ c \notin stop => c \in S
    BY <2>1, VisitFacts
  <2>4. B \subseteq S
    BY <1>3, <2>2, <2>3
  <2> QED
    BY <2>1, <2>4
<1>5. Skips(keep, stop, x, k)
  BY <1>2, <1>3, <1>4, VisitFacts DEF Skips
<1>6. ASSUME NEW n \in Beneath(keep, stop, k)
      PROVE  /\ n \in keep /\ n \in Visit(stop, x) /\ n # x /\ n \in DOMAIN heap
             /\ Leads(B, k, n, NodeKind)
  <2>1. PICK b \in B : n \in Kids(b) /\ n \in keep
    BY <1>2 DEF Beneath
  <2>2. b \in Visit(stop, x) /\ b \notin stop
    BY <1>4
  <2>3. n \in Visit(stop, x) /\ n # x /\ n \in DOMAIN heap
    BY <2>1, <2>2, VisitFacts
  <2>4. \A c \in B : heap[c].kind \in NodeKind /\ Kids(c) \subseteq Pointers(heap[c])
    BY <1>3, <1>4, VisitFacts, KidsFacts
  <2>5. B \subseteq {o \in DOMAIN heap : heap[o].kind \in NodeKind} /\ k \in B
    BY <1>3, <2>4
  <2>6. \E c \in B : n \in Pointers(heap[c])
    BY <2>1, <2>4
  <2>7. \A c \in B : c # k => \E a \in B : c \in Pointers(heap[a])
    BY <1>3, <2>4
  <2>8. Leads(B, k, n, NodeKind)
    BY <2>5, <2>6, <2>7 DEF Leads
  <2> QED
    BY <2>1, <2>3, <2>8
<1> QED
  BY <1>1, <1>2, <1>4, <1>5, <1>6

\* What is below one site is not below another.
LEMMA SitesApart ==
  ASSUME Safe(heap, mine, lost), NEW keep, NEW stop, keep \cap stop = {}, NEW x \in DOMAIN heap, heap[x].kind \in NodeKind,
         NEW k, NEW j, Site(keep, stop, x, k), Site(keep, stop, x, j), k # j
  PROVE  \A n : ~(n \in Beneath(keep, stop, k) /\ n \in Beneath(keep, stop, j))
<1>1. k \in DOMAIN heap /\ j \in DOMAIN heap
  BY SiteFacts
<1>2. PICK B, C : B = Pass(keep, stop, k) /\ C = Pass(keep, stop, j)
  OBVIOUS
<1>3. /\ B \in SUBSET DOMAIN heap /\ k \in B
      /\ \A S \in SUBSET DOMAIN heap :
           k \in S /\ (\A q \in S : \A c \in Kids(q) : c \notin keep /\ c \notin stop => c \in S) => B \subseteq S
      /\ \A q \in B : \A c \in Kids(q) : c \notin keep /\ c \notin stop => c \in B
  BY <1>1, <1>2, PassFacts
<1>4. C \in SUBSET DOMAIN heap /\ \A p \in C : p = j \/ (p \notin keep /\ p \notin stop /\ \E q \in C : p \in Kids(q))
  BY <1>1, <1>2, PassFacts
<1>5. /\ \A b \in C : b # j => b \notin keep /\ b # x
      /\ \A b \in B : b # k => b \notin keep /\ b # x
  <2>1. Skips(keep, stop, x, j)
    BY SiteFacts
  <2>2. Skips(keep, stop, x, k)
    BY SiteFacts
  <2> QED
    BY <1>2, <2>1, <2>2 DEF Skips
<1>6. k \in keep \/ k = x
  BY DEF Site
<1>7. j \in keep \/ j = x
  BY DEF Site
<1>8. B \cap C = {}
  <2>1. PICK S : S = B \ C
    OBVIOUS
  <2>2. S \in SUBSET DOMAIN heap /\ k \in S
    BY <1>3, <1>5, <1>6, <2>1
  <2>3. ASSUME NEW q \in S, NEW c \in Kids(q), c \notin keep, c \notin stop PROVE c \in S
    <3>1. c \in B /\ q \in B /\ q \notin C
      BY <1>3, <2>1, <2>3
    <3>2. ASSUME c \in C PROVE FALSE
      <4>1. CASE c = j
        <5>1. j \in B /\ j = x
          BY <1>7, <2>3, <3>1, <4>1
        <5> QED
          BY <1>5, <5>1
      <4>2. CASE c # j
        <5>1. PICK r \in C : c \in Kids(r)
          BY <1>4, <3>2, <4>2
        <5>2. r = q
          BY <1>3, <1>4, <2>3, <3>1, <5>1, KidsFacts
        <5> QED
          BY <3>1, <5>2
      <4> QED
        BY <4>1, <4>2
    <3> QED
      BY <2>1, <3>1, <3>2
  <2>4. B \subseteq S
    BY <1>3, <2>2, <2>3
  <2> QED
    BY <2>1, <2>4
<1>9. ASSUME NEW n, n \in Beneath(keep, stop, k), n \in Beneath(keep, stop, j) PROVE FALSE
  <2>1. PICK b \in B : n \in Kids(b)
    BY <1>2, <1>9 DEF Beneath
  <2>2. PICK c \in C : n \in Kids(c)
    BY <1>2, <1>9 DEF Beneath
  <2>3. b = c
    BY <1>3, <1>4, <2>1, <2>2, KidsFacts
  <2> QED
    BY <1>8, <2>3
<1> QED
  BY <1>9

\* Whatever the walk makes is below a site, but for what it makes of x.
LEMMA SiteAbove ==
  ASSUME Safe(heap, mine, lost), NEW keep, NEW stop, keep \cap stop = {}, NEW x \in DOMAIN heap, heap[x].kind \in NodeKind,
         NEW n \in Visit(stop, x), n \in keep, n # x
  PROVE  \E k : Site(keep, stop, x, k) /\ n \in Beneath(keep, stop, k)
<1>1. PICK S : S = {o \in Visit(stop, x) : o \in stop \/ \E k : Site(keep, stop, x, k) /\ o \in Pass(keep, stop, k)}
  OBVIOUS
<1>2. S \in SUBSET DOMAIN heap
  BY <1>1, VisitFacts
<1>3. ASSUME NEW k, Site(keep, stop, x, k) PROVE k \in Pass(keep, stop, k) /\ k \in DOMAIN heap
  <2>1. k \in DOMAIN heap
    BY <1>3, SiteFacts
  <2>2. PICK B : B = Pass(keep, stop, k)
    OBVIOUS
  <2>3. k \in B
    BY <2>1, <2>2, PassFacts
  <2> QED
    BY <2>1, <2>2, <2>3
<1>4. x \in S
  <2>1. x \in Visit(stop, x)
    BY VisitFacts
  <2>2. x \notin stop => Site(keep, stop, x, x)
    BY <2>1 DEF Site
  <2> QED
    BY <1>1, <1>3, <2>1, <2>2
<1>5. ASSUME NEW q \in S, q \notin stop, NEW c \in Kids(q) PROVE c \in S
  <2>1. PICK k : Site(keep, stop, x, k) /\ q \in Pass(keep, stop, k)
    BY <1>1, <1>5
  <2>2. c \in Visit(stop, x)
    BY <1>1, <1>5, VisitFacts
  <2>3. CASE c \in stop
    BY <1>1, <2>2, <2>3
  <2>4. CASE c \notin stop /\ c \in keep
    <3>1. Site(keep, stop, x, c)
      BY <2>2, <2>4 DEF Site
    <3> QED
      BY <1>1, <1>3, <2>2, <3>1
  <2>5. CASE c \notin stop /\ c \notin keep
    <3>1. c \in Pass(keep, stop, k)
      BY <1>3, <2>1, <2>5, PassFacts
    <3> QED
      BY <1>1, <2>1, <2>2, <3>1
  <2> QED
    BY <2>3, <2>4, <2>5
<1>6. Visit(stop, x) \subseteq S
  BY <1>2, <1>4, <1>5, VisitFacts
<1>7. PICK q \in Visit(stop, x) : q \notin stop /\ n \in Kids(q)
  BY VisitFacts
<1>8. PICK k : Site(keep, stop, x, k) /\ q \in Pass(keep, stop, k)
  BY <1>1, <1>6, <1>7
<1>9. n \in Beneath(keep, stop, k)
  BY <1>7, <1>8 DEF Beneath
<1> QED
  BY <1>8, <1>9
-----------------------------------------------------------------------------
\* What the walk makes from x, what of it goes into the new block, and who holds each.
KeptSite(keep, stop, x, n) == n \in keep /\ n \in Visit(stop, x)

\* What stands in the root block, and who holds the node of a statement.
TopOf(keep, stop, x) == IF x \in keep THEN {x} ELSE IF x \in stop THEN {} ELSE Beneath(keep, stop, x)
HolderOf(keep, stop, x, ids) ==
  [n \in DOMAIN heap |->
     IF n \in TopOf(keep, stop, x) THEN Fresh
     ELSE Id(ids, CHOOSE k : KeptSite(keep, stop, x, k) /\ n \in Beneath(keep, stop, k),
                  CHOOSE k : KeptSite(keep, stop, x, k) /\ n \in Beneath(keep, stop, k))]

HolderIs(keep, stop, x, ids, holder) ==
  /\ \A n \in TopOf(keep, stop, x) : KeptSite(keep, stop, x, n) /\ holder[n] = Fresh
  /\ \A k : KeptSite(keep, stop, x, k) => Site(keep, stop, x, k) /\ k \in DOMAIN heap /\ heap[k].kind \in NodeKind
  /\ \A n, k : KeptSite(keep, stop, x, k) /\ n \in Beneath(keep, stop, k) =>
       KeptSite(keep, stop, x, n) /\ holder[n] = Id(ids, k, k)
  /\ \A n : KeptSite(keep, stop, x, n) =>
       n \in TopOf(keep, stop, x) \/ \E k : KeptSite(keep, stop, x, k) /\ n \in Beneath(keep, stop, k)

\* Every kept statement but those at the top has one holder.
LEMMA HolderFacts ==
  ASSUME Safe(heap, mine, lost), NEW keep, NEW stop, keep \cap stop = {}, NEW x \in DOMAIN heap, heap[x].kind \in NodeKind,
         NEW ids, NEW holder, holder = HolderOf(keep, stop, x, ids)
  PROVE  HolderIs(keep, stop, x, ids, holder)
<1>1. x \in Visit(stop, x) /\ Visit(stop, x) \in SUBSET DOMAIN heap /\ \A o \in Visit(stop, x) : heap[o].kind \in NodeKind
  BY VisitFacts
<1>2. \A k : KeptSite(keep, stop, x, k) => Site(keep, stop, x, k) /\ k \in DOMAIN heap /\ heap[k].kind \in NodeKind
  BY <1>1 DEF KeptSite, Site
<1>3. x \notin keep /\ x \notin stop => Site(keep, stop, x, x)
  BY <1>1 DEF Site
<1>4. ASSUME NEW k, Site(keep, stop, x, k), NEW n \in Beneath(keep, stop, k)
      PROVE  KeptSite(keep, stop, x, n) /\ n # x /\ n \in DOMAIN heap
  BY <1>4, SiteFacts DEF KeptSite
<1>5. \A n \in TopOf(keep, stop, x) : KeptSite(keep, stop, x, n) /\ n \in DOMAIN heap
  BY <1>1, <1>3, <1>4 DEF TopOf, KeptSite
<1>6. \A n \in DOMAIN heap : n \in TopOf(keep, stop, x) => holder[n] = Fresh
  BY DEF HolderOf
<1>7. ASSUME NEW k, KeptSite(keep, stop, x, k), NEW n \in Beneath(keep, stop, k)
      PROVE  holder[n] = Id(ids, k, k)
  <2>1. Site(keep, stop, x, k) /\ k \in keep
    BY <1>2, <1>7 DEF KeptSite
  <2>2. n # x /\ n \in DOMAIN heap
    BY <1>4, <2>1
  <2>3. n \notin TopOf(keep, stop, x)
    <3>1. CASE x \in keep
      BY <2>2, <3>1 DEF TopOf
    <3>2. CASE x \notin keep /\ x \notin stop
      <4>1. n \notin Beneath(keep, stop, x)
        BY <1>3, <1>7, <2>1, <3>2, SitesApart
      <4> QED
        BY <3>2, <4>1 DEF TopOf
    <3>3. CASE x \notin keep /\ x \in stop
      BY <3>3 DEF TopOf
    <3> QED
      BY <3>1, <3>2, <3>3
  <2>4. PICK j : j = CHOOSE i : KeptSite(keep, stop, x, i) /\ n \in Beneath(keep, stop, i)
    OBVIOUS
  <2>5. KeptSite(keep, stop, x, j) /\ n \in Beneath(keep, stop, j)
    BY <1>7, <2>4
  <2>6. j = k
    BY <1>2, <1>7, <2>1, <2>5, SitesApart
  <2>7. holder[n] = Id(ids, j, j)
    BY <2>2, <2>3, <2>4 DEF HolderOf
  <2> QED
    BY <2>6, <2>7
<1>8. ASSUME NEW n, KeptSite(keep, stop, x, n)
      PROVE  n \in TopOf(keep, stop, x) \/ \E k : KeptSite(keep, stop, x, k) /\ n \in Beneath(keep, stop, k)
  <2>1. CASE n = x
    BY <1>8, <2>1 DEF TopOf, KeptSite
  <2>2. CASE n # x
    <3>1. n \in Visit(stop, x) /\ n \in keep
      BY <1>8 DEF KeptSite
    <3>2. PICK k : Site(keep, stop, x, k) /\ n \in Beneath(keep, stop, k)
      BY <2>2, <3>1, SiteAbove
    <3>3. CASE k \in keep
      BY <3>2, <3>3 DEF KeptSite, Site
    <3>4. CASE k \notin keep
      BY <3>2, <3>4 DEF TopOf, Site
    <3> QED
      BY <3>3, <3>4
  <2> QED
    BY <2>1, <2>2
<1> QED
  BY <1>2, <1>4, <1>5, <1>6, <1>7, <1>8 DEF HolderIs

\* The family of a projection.
ProjectionFamily(h2, keep, stop, x, P, ids) ==
  /\ \A n, m : In(P, n, m) => /\ KeptSite(keep, stop, x, n) /\ m \in DOMAIN heap
                              /\ Id(ids, n, m) \in DOMAIN h2 /\ h2[Id(ids, n, m)].kind = heap[m].kind
                              /\ Id(ids, n, m) \notin DOMAIN heap
  /\ \A n : KeptSite(keep, stop, x, n) => In(P, n, n)
  /\ \A n, m, k, l : In(P, n, m) /\ In(P, k, l) /\ Id(ids, n, m) = Id(ids, k, l) => n = k /\ m = l

\* Its block, and the bodies of what is in it.
ProjectionBlock(h2, keep, stop, x, ids) ==
  /\ h2[Fresh].kind = "Block" /\ h2[Fresh].live /\ Fit(h2, h2[Fresh]) /\ Range(h2[Fresh].lent) = {}
  /\ Pointers(h2[Fresh]) = {Id(ids, n, n) : n \in TopOf(keep, stop, x)}
  /\ \A n : KeptSite(keep, stop, x, n) =>
       \A c \in Beneath(keep, stop, n) : Id(ids, c, c) \in Pointers(h2[Id(ids, n, n)])

\* A walk that allocates a root block and a family is safe.
LEMMA WalkStep ==
  ASSUME Safe(heap, mine, lost), NEW keep, NEW stop, keep \cap stop = {}, NEW x \in DOMAIN heap, heap[x].kind \in NodeKind,
         NEW P, NEW ids, NEW holder, holder = HolderOf(keep, stop, x, ids), NEW h2, NEW mn2, mn2 = mine \cup {Fresh},
         NEW X, X = {Fresh}, Extends(h2, P, ids, X), NEW L, L = {},
         ProjectionFamily(h2, keep, stop, x, P, ids), ProjectionBlock(h2, keep, stop, x, ids),
         \A n, m : In(P, n, m) => SiteMember(h2, mn2, P, ids, holder, L, n, m, Id(ids, n, m)),
         \A n, m : In(P, n, m) /\ n # m => Found(h2, mn2, lost, Id(ids, n, m))
  PROVE  Safe(h2, mn2, lost)
<1> DEFINE K(n) == KeptSite(keep, stop, x, n)
           B(n) == Beneath(keep, stop, n)
           T == TopOf(keep, stop, x)
<1>0. HolderIs(keep, stop, x, ids, holder)
  BY HolderFacts
<1>1. /\ \A n \in T : K(n) /\ holder[n] = Fresh
      /\ \A k : K(k) => Site(keep, stop, x, k) /\ k \in DOMAIN heap /\ heap[k].kind \in NodeKind
      /\ \A n, k : K(k) /\ n \in B(k) => K(n) /\ holder[n] = Id(ids, k, k)
      /\ \A n : K(n) => n \in T \/ \E k : K(k) /\ n \in B(k)
  BY <1>0 DEF HolderIs
<1>2. /\ \A n, m : In(P, n, m) => /\ K(n) /\ m \in DOMAIN heap
                              /\ Id(ids, n, m) \in DOMAIN h2 /\ h2[Id(ids, n, m)].kind = heap[m].kind
                              /\ Id(ids, n, m) \notin DOMAIN heap
      /\ \A n : K(n) => In(P, n, n)
      /\ \A n, m, k, l : In(P, n, m) /\ In(P, k, l) /\ Id(ids, n, m) = Id(ids, k, l) => n = k /\ m = l
  BY DEF ProjectionFamily
<1>3. /\ h2[Fresh].kind = "Block" /\ h2[Fresh].live /\ Fit(h2, h2[Fresh]) /\ Range(h2[Fresh].lent) = {}
      /\ Pointers(h2[Fresh]) = {Id(ids, n, n) : n \in T}
      /\ \A n : K(n) => \A c \in B(n) : Id(ids, c, c) \in Pointers(h2[Id(ids, n, n)])
  BY DEF ProjectionBlock
<1>31. \A k : K(k) => \A n \in B(k) : Leads(Pass(keep, stop, k), k, n, NodeKind)
  BY <1>1, SiteFacts
<1> HIDE DEF K, B, T
<1>4. /\ h2 \in Seq(Object) /\ DOMAIN heap \subseteq DOMAIN h2
      /\ \A o \in DOMAIN heap : h2[o] = heap[o]
      /\ \A o \in DOMAIN h2 \ DOMAIN heap : o = Fresh \/ \E n, m : In(P, n, m) /\ o = Id(ids, n, m)
      /\ Fresh \in DOMAIN h2 \ DOMAIN heap
      /\ \A n, m : In(P, n, m) => Id(ids, n, m) # Fresh
  BY DEF Extends
<1>5. Formed(heap) /\ mine \subseteq DOMAIN heap /\ lost \subseteq DOMAIN heap
  BY DEF Safe, Held
<1>6. PICK H, roots, r2 : H = {} /\ roots = {} /\ r2 = Relic(h2, mn2, lost)
  OBVIOUS
<1>7. NewIn(h2, H) = DOMAIN h2 \ DOMAIN heap
  BY <1>6 DEF NewIn
<1>8. Family(h2, mn2, P, ids, holder, H)
  <2>1. \A n, m : In(P, n, m) => Id(ids, n, m) \notin mn2
    BY <1>2, <1>4, <1>5
  <2> QED
    BY <1>1, <1>2, <2>1 DEF Family
<1>9. \A o \in X : /\ h2[o].live /\ Fit(h2, h2[o])
                   /\ PointsAs(h2, mn2, r2, P, ids, holder, L, H, o)
                   /\ BorrowsAs(h2, mn2, roots, P, ids, holder, L, H, o)
  <2>1. PointsAs(h2, mn2, r2, P, ids, holder, L, H, Fresh)
    <3>1. \A p \in Pointers(h2[Fresh]) : \E n : In(P, n, n) /\ n \notin L /\ p = Id(ids, n, n) /\ holder[n] = Fresh
      BY <1>1, <1>2, <1>3
    <3> QED
      BY <3>1 DEF PointsAs
  <2>2. BorrowsAs(h2, mn2, roots, P, ids, holder, L, H, Fresh)
    BY <1>3 DEF BorrowsAs
  <2> QED
    BY <1>3, <2>1, <2>2
<1>10. \A o \in DOMAIN h2 \ DOMAIN heap : \A p \in Pointers(h2[o]) : p \in DOMAIN heap \/ \E n, m : In(P, n, m) /\ p = Id(ids, n, m)
  <2> SUFFICES ASSUME NEW o \in DOMAIN h2 \ DOMAIN heap, NEW p \in Pointers(h2[o])
               PROVE  p \in DOMAIN heap \/ \E n, m : In(P, n, m) /\ p = Id(ids, n, m)
    OBVIOUS
  <2>1. CASE o = Fresh
    BY <1>1, <1>2, <1>3, <2>1
  <2>2. CASE \E n, m : In(P, n, m) /\ o = Id(ids, n, m)
    <3>1. PICK n, m : In(P, n, m) /\ o = Id(ids, n, m)
      BY <2>2
    <3>2. SiteMember(h2, mn2, P, ids, holder, L, n, m, o)
      BY <3>1
    <3>3. Pointers(heap[m]) \subseteq DOMAIN heap
      BY <1>2, <1>5, <3>1, PointersInHeap
    <3>4. \/ p \in Pointers(heap[m])
          \/ \E q : In(P, n, q) /\ p = Id(ids, n, q)
          \/ \E k : In(P, k, k) /\ p = Id(ids, k, k)
      BY <3>2 DEF SiteMember
    <3> QED
      BY <3>3, <3>4
  <2> QED
    BY <1>4, <2>1, <2>2
<1>11. \A o, p : Sole(h2, mn2, P, ids, H, o, p) /\ o \in NewIn(h2, H) /\ p \in Pointers(h2[o]) =>
           h2[o].kind \in LeafKind \ {"Expr"} \/ h2[p].kind \in LeafKind \ {"Expr"}
  BY <1>7, <1>10 DEF Sole
<1>12. \A o \in DOMAIN h2 \ DOMAIN heap : Fresh \notin Pointers(h2[o])
  BY <1>4, <1>10
<1>13. Nested(h2, P, ids, holder, NodeKind, H)
  <2> SUFFICES ASSUME NEW n, In(P, n, n)
               PROVE  /\ holder[n] \notin H
                      /\ \/ \A q \in NewIn(h2, H) : holder[n] \notin Pointers(h2[q])
                         \/ \E k, C : In(P, k, k) /\ holder[n] = Id(ids, k, k) /\ Leads(C, k, n, NodeKind)
    BY DEF Nested
  <2>1. K(n)
    BY <1>2
  <2>2. CASE n \in T
    BY <1>1, <1>6, <1>7, <1>12, <2>2
  <2>3. CASE \E k : K(k) /\ n \in B(k)
    <3>1. PICK k : K(k) /\ n \in B(k)
      BY <2>3
    <3>2. In(P, k, k) /\ holder[n] = Id(ids, k, k) /\ Leads(Pass(keep, stop, k), k, n, NodeKind)
      BY <1>1, <1>2, <1>31, <3>1
    <3> QED
      BY <1>6, <3>2
  <2> QED
    BY <1>1, <2>1, <2>2, <2>3
<1>14. Nested(h2, P, ids, holder, {"Expr"}, H)
  BY <1>1, <1>2 DEF Nested, NodeKind, OrdinaryKind, ParamKind
<1>15. ASSUME NEW p \in DOMAIN h2 \ DOMAIN heap PROVE Found(h2, mn2, lost, p)
  <2>1. CASE p = Fresh
    BY <2>1 DEF Found
  <2>2. CASE \E n, m : In(P, n, m) /\ p = Id(ids, n, m)
    <3>1. PICK n, m : In(P, n, m) /\ p = Id(ids, n, m)
      BY <2>2
    <3>2. CASE n # m
      BY <3>1, <3>2
    <3>3. CASE n = m /\ n \in T
      BY <1>3, <1>4, <3>1, <3>3 DEF Found
    <3>4. CASE n = m /\ \E k : K(k) /\ n \in B(k)
      <4>1. PICK k : K(k) /\ n \in B(k)
        BY <3>4
      <4>2. p \in Pointers(h2[Id(ids, k, k)]) /\ Id(ids, k, k) \in DOMAIN h2
        BY <1>2, <1>3, <3>1, <3>4, <4>1
      <4> QED
        BY <4>2 DEF Found
    <3> QED
      BY <1>1, <1>2, <3>1, <3>2, <3>3, <3>4
  <2> QED
    BY <1>4, <2>1, <2>2
<1>16. /\ mine \subseteq mn2 /\ \A p \in mn2 : p \in mine \/ p \in DOMAIN h2 \ DOMAIN heap
       /\ lost \subseteq lost /\ lost \subseteq DOMAIN h2
  BY <1>4, <1>5
<1> QED
  BY <1>6, <1>8, <1>9, <1>11, <1>13, <1>14, <1>15, <1>16, CopiesStep
-----------------------------------------------------------------------------
\* The pointers to the copies of S, in order.
ListOf(ids, S) == LET kids == Ordered(S) IN [i \in DOMAIN kids |-> ids[<<kids[i], kids[i]>>]]

\* What such a list is.
IsListOf(s, ids, S) == s \in Seq(Nat) /\ Once(s) /\ Range(s) = {Id(ids, c, c) : c \in S}

LEMMA ListOfFacts ==
  ASSUME heap \in Seq(Object), NEW S \in SUBSET DOMAIN heap, NEW ids,
         \A c \in S : Id(ids, c, c) \in Nat, \A c, d \in S : Id(ids, c, c) = Id(ids, d, d) => c = d,
         NEW s, s = ListOf(ids, S)
  PROVE  IsListOf(s, ids, S)
<1> DEFINE kids == Ordered(S)
<1>1. Len(heap) \in Nat /\ S \in SUBSET (1..Len(heap))
  OBVIOUS
<1>2. /\ \A i, j \in 1..Cardinality(S) : i < j => Nth(S, i) < Nth(S, j)
      /\ \A p \in S : \E j \in 1..Cardinality(S) : Nth(S, j) = p
  BY <1>1, NthOrder
<1>3. Cardinality(S) \in Nat /\ S \subseteq Nat
  BY <1>1, PartIsFinite
<1>4. \A j \in 1..Cardinality(S) : Nth(S, j) \in S
  BY <1>1, NthFacts
<1>5. DOMAIN kids = 1..Cardinality(S) /\ \A i \in 1..Cardinality(S) : kids[i] = Nth(S, i)
  BY DEF Ordered
<1>6. s = [i \in DOMAIN kids |-> ids[<<kids[i], kids[i]>>]]
  BY DEF ListOf
<1> HIDE DEF kids
<1>7. DOMAIN s = 1..Cardinality(S) /\ \A i \in 1..Cardinality(S) : s[i] = Id(ids, Nth(S, i), Nth(S, i))
  BY <1>5, <1>6 DEF Id
<1>8. s \in Seq(Nat)
  <2>1. s \in [1..Cardinality(S) -> Nat]
    BY <1>4, <1>5, <1>6 DEF Id
  <2> QED
    BY <1>3, <2>1
<1>9. Once(s)
  <2>1. ASSUME NEW i \in DOMAIN s, NEW j \in DOMAIN s, s[i] = s[j] PROVE i = j
    <3>1. i \in 1..Cardinality(S) /\ j \in 1..Cardinality(S)
      BY <1>7
    <3>2. Nth(S, i) = Nth(S, j) /\ Nth(S, i) \in Nat
      BY <1>3, <1>4, <1>7, <2>1, <3>1
    <3>3. ~(i < j) /\ ~(j < i)
      BY <1>2, <3>1, <3>2
    <3> QED
      BY <1>3, <3>1, <3>3
  <2> QED
    BY <2>1 DEF Once
<1>10. \A p \in Range(s) : \E c \in S : p = Id(ids, c, c)
  BY <1>4, <1>7 DEF Range
<1>11. ASSUME NEW c \in S PROVE Id(ids, c, c) \in Range(s)
  <2>1. PICK j \in 1..Cardinality(S) : Nth(S, j) = c
    BY <1>2
  <2>2. j \in DOMAIN s /\ s[j] = Id(ids, c, c)
    BY <1>7, <2>1
  <2> QED
    BY <2>2 DEF Range
<1> QED
  BY <1>8, <1>9, <1>10, <1>11 DEF IsListOf
-----------------------------------------------------------------------------
\* The objects of P are laid after a block.
Numbered(P, ids, k) ==
  /\ DOMAIN ids = P /\ k = Cardinality(P) /\ k \in Nat
  /\ \A i \in 1..k : AtId(ids, Fresh + i) \in P /\ ids[AtId(ids, Fresh + i)] = Fresh + i
  /\ \A p \in P : /\ ids[p] \in Nat /\ ids[p] - Fresh \in 1..k /\ Fresh + (ids[p] - Fresh) = ids[p]
                  /\ AtId(ids, ids[p]) = p /\ ids[p] # Fresh /\ ids[p] \notin DOMAIN heap /\ ids[p] # 0
  /\ \A p, q \in P : ids[p] = ids[q] => p = q

\* The ids of a projection are numbers.
LEMMA NumberedFacts ==
  ASSUME heap \in Seq(Object), NEW P \in SUBSET ((1..Len(heap)) \X (1..Len(heap))), NEW ids, ids = IdsOf(P),
         NEW k, k = Cardinality(P)
  PROVE  Numbered(P, ids, k)
<1>1. Len(heap) \in Nat /\ DOMAIN heap = 1..Len(heap) /\ Fresh = Len(heap) + 1
  BY DEF Fresh
<1>2. IsFiniteSet(P) /\ Numbers(ids, P, Fresh)
  <2>2. IsFiniteSet(P) /\ Numbers(IdsOf(P), P, Len(heap) + 1)
    BY <1>1, IdsNumbers
  <2> QED
    BY <1>1, <2>2
<1>3. k \in Nat
  BY <1>2, FS_CardinalityType
<1>4. /\ DOMAIN ids = P
      /\ \A i \in (Fresh + 1)..(Fresh + k) : AtId(ids, i) \in P /\ ids[AtId(ids, i)] = i
      /\ \A p \in P : AtId(ids, ids[p]) = p
  BY <1>2, AtIdFacts
<1>5. \A i \in 1..k : Fresh + i \in (Fresh + 1)..(Fresh + k)
  BY <1>1, <1>3
<1>6. \A p \in P : ids[p] \in (Fresh + 1)..(Fresh + k)
  BY <1>2 DEF Numbers
<1>7. \A p \in P : /\ ids[p] \in Nat /\ ids[p] - Fresh \in 1..k /\ Fresh + (ids[p] - Fresh) = ids[p]
                   /\ ids[p] # Fresh /\ ids[p] \notin DOMAIN heap /\ ids[p] # 0
  BY <1>1, <1>3, <1>6
<1>8. \A p, q \in P : ids[p] = ids[q] => p = q
  BY <1>2 DEF Numbers
<1> QED
  BY <1>3, <1>4, <1>5, <1>7, <1>8 DEF Numbered

\* Where the members of the family are.
Laid(h2, P, ids, block, copies) ==
  /\ h2 \in Seq(Object) /\ DOMAIN heap \subseteq DOMAIN h2 /\ \A o \in DOMAIN heap : h2[o] = heap[o]
  /\ Fresh \in DOMAIN h2 /\ Fresh \notin DOMAIN heap /\ h2[Fresh] = block
  /\ \A p \in P : ids[p] \in DOMAIN h2 /\ ids[p] - Fresh \in DOMAIN copies /\ h2[ids[p]] = copies[ids[p] - Fresh]
  /\ \A o \in DOMAIN h2 \ DOMAIN heap : o = Fresh \/ \E p \in P : o = ids[p]
BlockAnd(block, copies) == <<block>> \o copies

\* The heap with the block and the copies behind it.
LEMMA LaidFacts ==
  ASSUME heap \in Seq(Object), NEW P, NEW ids, NEW k, Numbered(P, ids, k), NEW block \in Object,
         NEW copies \in [1..k -> Object], NEW h2, h2 = heap \o BlockAnd(block, copies)
  PROVE  Laid(h2, P, ids, block, copies)
<1>1. Len(heap) \in Nat /\ DOMAIN heap = 1..Len(heap) /\ Fresh = Len(heap) + 1 /\ k \in Nat
  BY DEF Fresh, Numbered
<1>2. copies \in Seq(Object) /\ Len(copies) = k /\ DOMAIN copies = 1..k
  BY <1>1
<1>30. <<block>> \in Seq(Object)
  OBVIOUS
<1>3. PICK one : one = <<block>> /\ one \in Seq(Object)
  BY <1>30
<1>4. Len(one) = 1 /\ one[1] = block /\ DOMAIN one = 1..1
  BY <1>3
<1>5. PICK b : b = BlockAnd(block, copies)
  OBVIOUS
<1>6. IsCat(b, one, copies)
  BY <1>2, <1>3, <1>5, HeapCat DEF BlockAnd
<1>7. /\ b \in Seq(Object) /\ Len(b) = 1 + k /\ b[1] = block
      /\ \A i \in 1..k : b[1 + i] = copies[i]
  BY <1>2, <1>4, <1>6 DEF IsCat
<1>8. IsCat(h2, heap, b)
  BY <1>5, <1>7, HeapCat
<1>9. /\ h2 \in Seq(Object) /\ DOMAIN h2 = 1..(Len(heap) + 1 + k)
      /\ \A o \in DOMAIN heap : h2[o] = heap[o]
      /\ \A i \in 1..(1 + k) : h2[Len(heap) + i] = b[i]
  BY <1>1, <1>7, <1>8 DEF IsCat
<1>10. DOMAIN heap \subseteq DOMAIN h2 /\ Fresh \in DOMAIN h2 /\ Fresh \notin DOMAIN heap /\ h2[Fresh] = block
  BY <1>1, <1>7, <1>9
<1>11. \A i \in 1..k : Fresh + i \in DOMAIN h2 /\ h2[Fresh + i] = copies[i]
  <2>1. ASSUME NEW i \in 1..k PROVE Fresh + i \in DOMAIN h2 /\ h2[Fresh + i] = copies[i]
    <3>1. Fresh + i = Len(heap) + (1 + i) /\ 1 + i \in 1..(1 + k)
      BY <1>1
    <3> QED
      BY <1>1, <1>7, <1>9, <3>1
  <2> QED
    BY <2>1
<1>12. \A p \in P : ids[p] \in DOMAIN h2 /\ ids[p] - Fresh \in DOMAIN copies /\ h2[ids[p]] = copies[ids[p] - Fresh]
  BY <1>2, <1>11 DEF Numbered
<1>13. ASSUME NEW o \in DOMAIN h2 \ DOMAIN heap PROVE o = Fresh \/ \E p \in P : o = ids[p]
  <2>1. o = Fresh \/ \E i \in 1..k : o = Fresh + i
    <3>1. o = Fresh \/ (o - Fresh \in 1..k /\ o = Fresh + (o - Fresh))
      BY <1>1, <1>9
    <3> QED
      BY <3>1
  <2> QED
    BY <2>1 DEF Numbered
<1> QED
  BY <1>9, <1>10, <1>12, <1>13 DEF Laid
-----------------------------------------------------------------------------
\* A copy that gets nothing more.
LEMMA MemberCopyBut ==
  ASSUME Safe(heap, mine, lost), NEW h2, SameKinds(heap, h2), NEW new, NewNames(new), SameKind(h2, new),
         NEW P, NEW ids, NEW n, SiteNames(new, P, ids, n), NEW m \in Live,
         NEW dropped, \A q \in ClonedParts(m) : q # n /\ (q \in dropped \/ q \in DOMAIN new),
         heap[m].kind = "Interaction" => \A p \in Range(heap[m].many) : heap[p].kind = "Msg" => p \notin dropped,
         NEW o, IsCopy(h2[o], m, new, dropped), NEW mn2, NEW holder, NEW L
  PROVE  SiteMember(h2, mn2, P, ids, holder, L, n, m, o) /\ CopyPoints(h2[o], m, new, dropped)
<1>0. m \in DOMAIN heap
  BY DEF Live
<1>1. h2[o].kind = heap[m].kind /\ h2[o].live
  BY DEF IsCopy
<1>2. Fit(h2, h2[o])
  BY CopyFit
<1>3. CopyPoints(h2[o], m, new, dropped)
  BY <1>0, CopyPointers
<1>4. /\ \A p \in Pointers(h2[o]) :
           \/ p \in Pointers(heap[m]) /\ MayShare(heap, FALSE, m, p)
           \/ \E q \in ClonedParts(m) : q \in Pointers(heap[m]) /\ q \in DOMAIN new /\ p = new[q]
      /\ \A c \in Range(h2[o].lent) :
           IF heap[m].kind = "Interaction"
             THEN \E q \in ClonedParts(m) : q \in Range(heap[m].lent) /\ q \in DOMAIN new /\ c = new[q]
             ELSE c \in Range(heap[m].lent)
  BY <1>3 DEF CopyPoints
<1>5. \A q \in DOMAIN new : In(P, n, q) /\ new[q] = Id(ids, n, q)
  BY DEF SiteNames
<1>6. \A p \in Pointers(h2[o]) :
           \/ p \in Pointers(heap[m]) /\ MayShare(heap, FALSE, m, p)
           \/ \E q \in Pointers(heap[m]) : q # n /\ In(P, n, q) /\ p = Id(ids, n, q)
  BY <1>4, <1>5
<1>7. \A c \in Range(h2[o].lent) :
           IF heap[m].kind = "Interaction"
             THEN \E q \in Range(heap[m].lent) : q # n /\ In(P, n, q) /\ c = Id(ids, n, q)
             ELSE c \in Range(heap[m].lent)
  BY <1>4, <1>5
<1>8. SiteMember(h2, mn2, P, ids, holder, L, n, m, o)
  BY <1>1, <1>2, <1>6, <1>7 DEF SiteMember
<1> QED
  BY <1>3, <1>8

\* The same, with nothing left over.
LEMMA MemberCopy ==
  ASSUME Safe(heap, mine, lost), NEW h2, SameKinds(heap, h2), NEW new, NewNames(new), SameKind(h2, new),
         NEW P, NEW ids, NEW n, SiteNames(new, P, ids, n), NEW m \in Live,
         \A q \in ClonedParts(m) : q \in DOMAIN new /\ q # n,
         NEW o, NEW dropped, dropped = {}, IsCopy(h2[o], m, new, dropped), NEW mn2, NEW holder, NEW L
  PROVE  SiteMember(h2, mn2, P, ids, holder, L, n, m, o) /\ CopyPoints(h2[o], m, new, dropped)
<1>1. heap[m].kind = "Interaction" => \A p \in Range(heap[m].many) : heap[p].kind = "Msg" => p \notin dropped
  OBVIOUS
<1>2. \A q \in ClonedParts(m) : q # n /\ (q \in dropped \/ q \in DOMAIN new)
  OBVIOUS
<1> QED
  BY <1>1, <1>2, MemberCopyBut

\* An object with more pointers at the end of its list.
Longer(y, s) == [y EXCEPT !.many = @ \o s]

\* What such an object is.
IsLonger(x, y, s) ==
  /\ x \in Object /\ x.kind = y.kind /\ x.live = y.live /\ x.one = y.one /\ x.lent = y.lent
  /\ Pointers(x) = Pointers(y) \cup Range(s) /\ Range(x.many) = Range(y.many) \cup Range(s)

LEMMA LongerFacts ==
  ASSUME NEW h2 \in Seq(Object), NEW y \in Object, Fit(h2, y), y.live, NEW s \in Seq(Nat), Once(s),
         \A p \in Range(s) : /\ p \in DOMAIN h2 /\ h2[p].kind \in NodeKind /\ p \notin Pointers(y)
                             /\ y.kind \in BlockKind,
         NEW x, x = Longer(y, s)
  PROVE  IsLonger(x, y, s) /\ Fit(h2, x)
<1>1. y.many \in Seq(Nat) /\ y.one \in Nat /\ 0 \notin DOMAIN h2
  BY DEF Object
<1>2. PICK many : many = y.many \o s
  OBVIOUS
<1>3. /\ y.one # 0 => Holds(h2, {y.one}, HoldsOne(y.kind))
      /\ Holds(h2, Range(y.many), HoldsMany(y.kind))
      /\ Holds(h2, Range(y.lent), HoldsLent(y.kind))
      /\ y.kind = "Interaction" => \E m \in Range(y.many) : \A p \in Range(y.many) : h2[p].kind = "Msg" <=> p = m
      /\ y.one \notin Range(y.many)
      /\ Once(y.many)
  BY DEF Fit, Once
<1>4. Range(y.many) \subseteq DOMAIN h2
  BY <1>3 DEF Holds
<1>5. \A p \in Range(s) : p # y.one /\ p \notin Range(y.many) /\ p # 0
  BY <1>1 DEF Pointers
<1>6. many \in Seq(Nat) /\ Range(many) = Range(y.many) \cup Range(s) /\ Once(many)
  <2>1. Range(y.many) \cap Range(s) = {}
    BY <1>5
  <2> QED
    BY <1>1, <1>2, <1>3, <2>1, CatRange
<1>7. /\ x \in Object /\ x.many = many /\ x.one = y.one /\ x.lent = y.lent /\ x.kind = y.kind /\ x.live = y.live
  <2>1. x = [y EXCEPT !.many = many]
    BY <1>2 DEF Longer
  <2> QED
    BY <1>6, <2>1, RecordMany
<1>8. IsLonger(x, y, s)
  <2>1. Pointers(x) = Pointers(y) \cup Range(s)
    BY <1>5, <1>6, <1>7 DEF Pointers
  <2> QED
    BY <1>6, <1>7, <2>1 DEF IsLonger
<1>9. y.kind \in BlockKind => NodeKind \subseteq HoldsMany(y.kind)
  BY DEF BlockKind, HoldsMany
<1>10. Holds(h2, Range(many), HoldsMany(y.kind))
  BY <1>3, <1>6, <1>9 DEF Holds
<1>11. y.kind = "Interaction" => \E m \in Range(many) : \A p \in Range(many) : h2[p].kind = "Msg" <=> p = m
  <2>1. y.kind = "Interaction" => Range(s) = {}
    BY DEF BlockKind
  <2> QED
    BY <1>3, <1>6, <2>1
<1>12. x.one \notin Range(x.many)
  BY <1>3, <1>5, <1>6, <1>7
<1>13. \A i, j \in DOMAIN x.many : x.many[i] = x.many[j] => i = j
  BY <1>6, <1>7 DEF Once
<1> QED
  BY <1>3, <1>7, <1>8, <1>10, <1>11, <1>12, <1>13 DEF Fit
-----------------------------------------------------------------------------
\* The walk meets live nodes only, and what has something below is a block.
LEMMA VisitLive ==
  ASSUME Safe(heap, mine, lost), NEW stop, NEW x \in Live, heap[x].kind \in NodeKind
  PROVE  Visit(stop, x) \subseteq Live
<1>0. x \in DOMAIN heap
  BY DEF Live
<1>1. PICK S \in SUBSET DOMAIN heap : S = Live
  BY DEF Live
<1>2. ASSUME NEW q \in S, NEW c \in Kids(q) PROVE c \in S
  <2>1. q \in DOMAIN heap
    BY <1>1
  <2>2. c \in Pointers(heap[q]) /\ c \in DOMAIN heap /\ heap[c].kind \in NodeKind
    BY <2>1, KidsFacts
  <2>3. ~MayShare(heap, TheRelic, q, c)
    BY <2>2 DEF MayShare, NodeKind, OrdinaryKind, ParamKind
  <2>4. heap[c].live
    BY <2>1, <2>2, <2>3 DEF Safe, Pointed, TheRelic
  <2> QED
    BY <1>1, <2>2, <2>4 DEF Live
<1>3. x \in S /\ \A q \in S : q \notin stop => Kids(q) \subseteq S
  BY <1>1, <1>2
<1>4. Visit(stop, x) \subseteq S
  BY <1>0, <1>3, VisitFacts
<1> QED
  BY <1>1, <1>4

\* Below a block that gets no node are its children, or what is below those.
LEMMA BelowBlock ==
  ASSUME Safe(heap, mine, lost), NEW keep, NEW stop, NEW k \in DOMAIN heap, heap[k].kind \in NodeKind, Beneath(keep, stop, k) # {}
  PROVE  heap[k].kind \in BlockKind
<1>1. PICK B : B = Pass(keep, stop, k)
  OBVIOUS
<1>2. /\ B \in SUBSET DOMAIN heap /\ k \in B
      /\ \A S \in SUBSET DOMAIN heap :
           k \in S /\ (\A q \in S : \A c \in Kids(q) : c \notin keep /\ c \notin stop => c \in S) => B \subseteq S
  BY <1>1, PassFacts
<1>3. Kids(k) # {}
  <2>1. SUFFICES ASSUME Kids(k) = {} PROVE FALSE
    OBVIOUS
  <2>2. PICK S \in SUBSET DOMAIN heap : S = {k}
    OBVIOUS
  <2>3. B \subseteq S
    BY <1>2, <2>1, <2>2
  <2>4. \A b \in B : Kids(b) = {}
    BY <2>1, <2>2, <2>3
  <2> QED
    BY <1>1, <2>4 DEF Beneath
<1>4. PICK c : c \in Kids(k)
  BY <1>3
<1>5. c \in Range(heap[k].many) /\ heap[c].kind \in NodeKind
  BY <1>4, KidsFacts
<1>6. heap[c].kind \in HoldsMany(heap[k].kind)
  BY <1>5, ObjectFacts
<1> QED
  BY <1>5, <1>6 DEF HoldsMany, NodeKind, OrdinaryKind, ParamKind, BlockKind

\* What is copied of n without what is dropped.
IsClonedBut(n, dropped, C) ==
  /\ C \subseteq Cloned(n) /\ n \in C /\ C \subseteq DOMAIN heap
  /\ \A m \in C : m # n => \A q \in ClonedParts(m) : q \in C /\ q # n
  /\ \A q \in ClonedParts(n) : q # n /\ (q \in dropped \/ q \in C)
  /\ \A m \in C : m # n => \E k \in C : m \in ClonedParts(k) /\ (k = n => m \notin dropped)

\* What ClonedBut leaves.
LEMMA ClonedButFacts ==
  ASSUME Safe(heap, mine, lost), NEW n \in DOMAIN heap, NEW dropped, NEW C, C = ClonedBut(n, dropped)
  PROVE  IsClonedBut(n, dropped, C)
<1>1. C = {n} \cup UNION {Cloned(p) : p \in ClonedParts(n) \ dropped}
  BY DEF ClonedBut
<1>2. Cloned(n) \in SUBSET DOMAIN heap /\ n \in Cloned(n) /\ \A m \in Cloned(n) : ClonedParts(m) \subseteq Cloned(n)
  BY ClonedFacts
<1>3. ASSUME NEW p \in ClonedParts(n)
      PROVE  /\ p \in DOMAIN heap /\ Cloned(p) \subseteq Cloned(n) /\ p \in Cloned(p)
             /\ \A m \in Cloned(p) : ClonedParts(m) \subseteq Cloned(p)
             /\ \A q \in Cloned(p) : q = p \/ \E m \in Cloned(p) : q \in ClonedParts(m)
  <2>1. p \in Cloned(n) /\ p \in DOMAIN heap
    BY <1>2
  <2>2. /\ p \in Cloned(p)
        /\ \A m \in Cloned(p) : ClonedParts(m) \subseteq Cloned(p)
        /\ \A S \in SUBSET DOMAIN heap : p \in S /\ (\A m \in S : ClonedParts(m) \subseteq S) => Cloned(p) \subseteq S
        /\ \A q \in Cloned(p) : q = p \/ \E m \in Cloned(p) : q \in ClonedParts(m)
    BY <2>1, ClonedFacts
  <2>3. Cloned(p) \subseteq Cloned(n)
    BY <1>2, <2>1, <2>2
  <2> QED
    BY <2>1, <2>2, <2>3
<1>4. C \subseteq Cloned(n) /\ n \in C /\ C \subseteq DOMAIN heap
  BY <1>1, <1>2, <1>3
<1>5. \A m \in C : n \notin ClonedParts(m)
  BY <1>4, NotInOwn
<1>6. ASSUME NEW m \in C, m # n
      PROVE  ClonedParts(m) \subseteq C /\ \E k \in C : m \in ClonedParts(k) /\ (k = n => m \notin dropped)
  <2>1. PICK p \in ClonedParts(n) : p \notin dropped /\ m \in Cloned(p)
    BY <1>1, <1>6
  <2>2. Cloned(p) \subseteq C
    BY <1>1, <2>1
  <2>3. ClonedParts(m) \subseteq C
    BY <1>3, <2>1, <2>2
  <2>4. CASE m = p
    BY <1>4, <2>1, <2>3, <2>4
  <2>5. CASE m # p
    <3>1. PICK k \in Cloned(p) : m \in ClonedParts(k)
      BY <1>3, <2>1, <2>5
    <3>2. k # n
      <4>1. SUFFICES ASSUME k = n PROVE FALSE
        OBVIOUS
      <4>2. n \in Cloned(p) /\ p \in DOMAIN heap /\ p \in Cloned(p)
        BY <1>3, <2>1, <3>1, <4>1
      <4>3. p \notin ClonedParts(n)
        BY <4>2, NotInOwn
      <4> QED
        BY <2>1, <4>3
    <3> QED
      BY <2>2, <2>3, <3>1, <3>2
  <2> QED
    BY <2>4, <2>5
<1>7. \A q \in ClonedParts(n) : q \in dropped \/ q \in C
  BY <1>1, <1>3
<1> QED
  BY <1>4, <1>5, <1>6, <1>7 DEF IsClonedBut
-----------------------------------------------------------------------------
\* A new block of nodes.
LEMMA NewFit ==
  ASSUME NEW h2 \in Seq(Object), NEW kind, NEW one, NEW s, NEW v, IsNew(v, kind, one, s), kind \in BlockKind, Once(s),
         \A p \in Range(s) : p \in DOMAIN h2 /\ h2[p].kind \in NodeKind,
         one # 0 => one \in DOMAIN h2 /\ h2[one].kind \in HoldsOne(kind)
  PROVE  Fit(h2, v)
<1>1. /\ v.kind = kind /\ v.live /\ v.one = one /\ v.many = s /\ Range(v.lent) = {}
  BY DEF IsNew
<1>2. 0 \notin DOMAIN h2
  OBVIOUS
<1>3. kind # "Interaction" /\ NodeKind \subseteq HoldsMany(kind)
  BY DEF BlockKind, HoldsMany
<1>4. HoldsOne(kind) \cap NodeKind = {}
  BY DEF HoldsOne, NodeKind, OrdinaryKind, ParamKind
<1>5. one \notin Range(s)
  BY <1>2, <1>4
<1>6. Holds(h2, Range(v.many), HoldsMany(v.kind)) /\ Holds(h2, Range(v.lent), HoldsLent(v.kind))
  BY <1>1, <1>3 DEF Holds
<1>7. v.one # 0 => Holds(h2, {v.one}, HoldsOne(v.kind))
  BY <1>1 DEF Holds
<1>8. \A i, j \in DOMAIN v.many : v.many[i] = v.many[j] => i = j
  BY <1>1 DEF Once
<1> QED
  BY <1>1, <1>3, <1>5, <1>6, <1>7, <1>8 DEF Fit

\* Names of the copies made at n.
InHeap(P)          == \A n, m : In(P, n, m) => n \in DOMAIN heap /\ m \in DOMAIN heap

\* The names of the copies made at n.
NamesOn(ids, n, C) == [q \in C |-> ids[<<n, q>>]]
NamesFor(new, P, ids, n, C) == NewNames(new) /\ SiteNames(new, P, ids, n) /\ DOMAIN new = C

\* Those names are names of members.
LEMMA NamesAtFacts ==
  ASSUME NEW P, InHeap(P), NEW ids, NEW k, Numbered(P, ids, k), NEW n, NEW C, \A q \in C : In(P, n, q),
         NEW new, new = NamesOn(ids, n, C)
  PROVE  NamesFor(new, P, ids, n, C)
<1>1. DOMAIN new = C /\ \A q \in C : new[q] = ids[<<n, q>>] /\ <<n, q>> \in P /\ q \in DOMAIN heap
  BY DEF In, InHeap, NamesOn
<1>2. /\ \A p \in P : ids[p] \in Nat /\ ids[p] \notin DOMAIN heap /\ ids[p] # 0
      /\ \A p, q \in P : ids[p] = ids[q] => p = q
  BY DEF Numbered
<1>3. ASSUME NEW q \in C, NEW r \in C, new[q] = new[r] PROVE q = r
  <2>1. PICK a \in P, b \in P : a = <<n, q>> /\ b = <<n, r>>
    BY <1>1
  <2>2. ids[a] = ids[b]
    BY <1>1, <1>3, <2>1
  <2>3. a = b
    BY <1>2, <2>2
  <2> QED
    BY <2>1, <2>3
<1>4. NewNames(new)
  <2>1. ASSUME NEW q \in C PROVE q \in DOMAIN heap /\ new[q] \in Nat /\ new[q] \notin DOMAIN heap /\ new[q] # 0
    <3>1. PICK a \in P : a = <<n, q>>
      BY <1>1
    <3>2. new[q] = ids[a]
      BY <1>1, <3>1
    <3> QED
      BY <1>1, <1>2, <3>2
  <2> QED
    BY <1>1, <1>3, <2>1 DEF NewNames
<1>5. SiteNames(new, P, ids, n)
  BY <1>1 DEF SiteNames, Id, In
<1> QED
  BY <1>1, <1>4, <1>5 DEF NamesFor

\* The family is laid out with its kinds.
FamilyLaid(h2, P, ids) ==
  /\ h2 \in Seq(Object) /\ SameKinds(heap, h2)
  /\ \A n, m : In(P, n, m) => /\ n \in DOMAIN heap /\ m \in DOMAIN heap
                              /\ Id(ids, n, m) \in DOMAIN h2 /\ Id(ids, n, m) \notin DOMAIN heap
                              /\ h2[Id(ids, n, m)].kind = heap[m].kind
  /\ \A n, m, k, l : In(P, n, m) /\ In(P, k, l) /\ Id(ids, n, m) = Id(ids, k, l) => n = k /\ m = l

\* What goes into the copy of n.
SiteBelow(P, holder, n, S, o) ==
  \A c \in S : In(P, c, c) /\ holder[c] = o /\ heap[c].kind \in NodeKind /\ heap[n].kind \in BlockKind

\* A copy of n with copies of what is below it.
LEMMA SiteOwn ==
  ASSUME Safe(heap, mine, lost), NEW h2, NEW P, NEW ids, FamilyLaid(h2, P, ids),
         NEW new, NewNames(new), NEW n \in Live, SiteNames(new, P, ids, n), NEW dropped,
         NEW y, IsCopy(y, n, new, dropped), \A q \in ClonedParts(n) : q # n /\ (q \in dropped \/ q \in DOMAIN new),
         heap[n].kind = "Interaction" => \A p \in Range(heap[n].many) : heap[p].kind = "Msg" => p \notin dropped,
         NEW S, NEW s, IsListOf(s, ids, S), NEW holder, NEW o, SiteBelow(P, holder, n, S, o),
         h2[o] = Longer(y, s), NEW L, L = {}, NEW mn2
  PROVE  /\ SiteMember(h2, mn2, P, ids, holder, L, n, n, o)
         /\ CopyPoints(y, n, new, dropped) /\ IsLonger(h2[o], y, s)
<1>0. n \in DOMAIN heap
  BY DEF Live
<1>1. y \in Object /\ y.kind = heap[n].kind /\ y.live
  BY DEF IsCopy
<1>2. h2 \in Seq(Object) /\ SameKinds(heap, h2)
  BY DEF FamilyLaid
<1>3. \A q \in DOMAIN new : In(P, n, q) /\ new[q] = Id(ids, n, q)
  BY DEF SiteNames
<1>4. SameKind(h2, new)
  BY <1>3 DEF SameKind, FamilyLaid
<1>5. Fit(h2, y)
  BY <1>2, <1>4, CopyFit
<1>6. CopyPoints(y, n, new, dropped)
  BY <1>0, CopyPointers
<1>7. /\ \A p \in Pointers(y) :
           \/ p \in Pointers(heap[n]) /\ MayShare(heap, FALSE, n, p)
           \/ \E q \in ClonedParts(n) : q \in Pointers(heap[n]) /\ q \in DOMAIN new /\ p = new[q]
      /\ \A c \in Range(y.lent) :
           IF heap[n].kind = "Interaction"
             THEN \E q \in ClonedParts(n) : q \in Range(heap[n].lent) /\ q \in DOMAIN new /\ c = new[q]
             ELSE c \in Range(heap[n].lent)
  BY <1>6 DEF CopyPoints
<1>8. \A p \in Pointers(y) :
           \/ p \in Pointers(heap[n]) /\ MayShare(heap, FALSE, n, p)
           \/ \E q \in Pointers(heap[n]) : q # n /\ In(P, n, q) /\ p = Id(ids, n, q)
  BY <1>3, <1>7
<1>9. \A c \in Range(y.lent) :
           IF heap[n].kind = "Interaction"
             THEN \E q \in Range(heap[n].lent) : q # n /\ In(P, n, q) /\ c = Id(ids, n, q)
             ELSE c \in Range(heap[n].lent)
  BY <1>3, <1>7
<1>10. s \in Seq(Nat) /\ Once(s) /\ Range(s) = {Id(ids, c, c) : c \in S}
  BY DEF IsListOf
<1>11. \A p \in Range(s) : \E c \in S : p = Id(ids, c, c) /\ In(P, c, c) /\ holder[c] = o /\ heap[c].kind \in NodeKind /\ heap[n].kind \in BlockKind
  BY <1>10 DEF SiteBelow
<1>12. Pointers(heap[n]) \subseteq DOMAIN heap
  BY <1>0, ObjectFacts
<1>13. \A p \in Range(s) : /\ p \in DOMAIN h2 /\ h2[p].kind \in NodeKind /\ p \notin DOMAIN heap
  BY <1>11 DEF FamilyLaid
<1>14. \A p \in Range(s) : p \notin Pointers(y)
  <2> SUFFICES ASSUME NEW p \in Range(s), p \in Pointers(y) PROVE FALSE
    OBVIOUS
  <2>1. PICK c : p = Id(ids, c, c) /\ In(P, c, c)
    BY <1>11
  <2>2. PICK q : q # n /\ In(P, n, q) /\ p = Id(ids, n, q)
    BY <1>8, <1>12, <1>13
  <2>3. n = c /\ q = c
    BY <2>1, <2>2 DEF FamilyLaid
  <2> QED
    BY <2>2, <2>3
<1>15. \A p \in Range(s) : y.kind \in BlockKind
  BY <1>1, <1>11
<1>16. IsLonger(h2[o], y, s) /\ Fit(h2, h2[o])
  <2>1. PICK x : x = Longer(y, s)
    OBVIOUS
  <2>2. IsLonger(x, y, s) /\ Fit(h2, x)
    BY <1>1, <1>2, <1>5, <1>10, <1>13, <1>14, <1>15, <2>1, LongerFacts
  <2> QED
    BY <2>1, <2>2
<1>17. h2[o].live /\ Pointers(h2[o]) = Pointers(y) \cup Range(s) /\ h2[o].lent = y.lent
  BY <1>1, <1>16 DEF IsLonger
<1>18. \A p \in Pointers(h2[o]) :
       \/ p \in Pointers(heap[n]) /\ MayShare(heap, FALSE, n, p)
       \/ \E q \in Pointers(heap[n]) : q # n /\ In(P, n, q) /\ p = Id(ids, n, q)
       \/ \E k : In(P, k, k) /\ k \notin L /\ p = Id(ids, k, k) /\ holder[k] = o
  BY <1>8, <1>11, <1>17
<1>19. \A c \in Range(h2[o].lent) :
       IF heap[n].kind = "Interaction"
         THEN \E q \in Range(heap[n].lent) : q # n /\ In(P, n, q) /\ c = Id(ids, n, q)
         ELSE c \in Range(heap[n].lent)
  BY <1>9, <1>17
<1>20. SiteMember(h2, mn2, P, ids, holder, L, n, n, o)
  BY <1>16, <1>17, <1>18, <1>19 DEF SiteMember
<1> QED
  BY <1>6, <1>16, <1>20

\* What the copy of k made at n has.
SiteHas(h2, ids, n, k, new, dropped) ==
  \E y : /\ CopyPoints(y, k, new, dropped) /\ h2[Id(ids, n, k)].kind = heap[k].kind
         /\ Pointers(y) \subseteq Pointers(h2[Id(ids, n, k)]) /\ Range(y.lent) \subseteq Range(h2[Id(ids, n, k)].lent)

\* All copies made at n are found.
LEMMA SiteFound ==
  ASSUME NEW h2, NEW mn2, NEW ls2, NEW P, NEW ids, FamilyLaid(h2, P, ids), NEW n, NEW k, NEW m, In(P, n, k),
         NEW new, SiteNames(new, P, ids, n), m \in DOMAIN new, NEW dropped, SiteHas(h2, ids, n, k, new, dropped),
         m \in ClonedParts(k), m \notin dropped
  PROVE  Found(h2, mn2, ls2, Id(ids, n, m))
<1>1. PICK o : o = Id(ids, n, k)
  OBVIOUS
<1>2. o \in DOMAIN h2
  BY <1>1 DEF FamilyLaid
<1>3. PICK y : /\ CopyPoints(y, k, new, dropped) /\ h2[o].kind = heap[k].kind
               /\ Pointers(y) \subseteq Pointers(h2[o]) /\ Range(y.lent) \subseteq Range(h2[o].lent)
  BY <1>1 DEF SiteHas
<1>4. Found(h2, mn2, ls2, new[m])
  BY <1>2, <1>3, CopyFound
<1>5. new[m] = Id(ids, n, m)
  BY DEF SiteNames
<1> QED
  BY <1>4, <1>5
-----------------------------------------------------------------------------
\* Projection in parts: what is kept, what is allocated, the list of a node, the copies.
KeptSet(sides) == {c \in DOMAIN heap : Kept(c, sides)}
CopyAlone(n)   == heap[n].kind \in {"Recur", "Choice"}
ProjParts(sides, n) == IF CopyAlone(n) THEN {n} ELSE ClonedBut(n, Dropped(n, sides))
NamesOf(ids, n)     == [q \in {q \in DOMAIN heap : <<n, q>> \in DOMAIN ids} |-> ids[<<n, q>>]]
ProjList(sides, ids, n) == ListOf(ids, Under(n, sides))
ProjCopy(sides, ids, n, m) ==
  CASE n # m -> CopyOf(m, NamesOf(ids, n), {})
    [] n = m /\ heap[n].kind \in {"Recur", "Choice"} -> New(heap[n].kind, heap[n].one, ProjList(sides, ids, n))
    [] OTHER -> Longer(CopyOf(n, NamesOf(ids, n), Dropped(n, sides)), ProjList(sides, ids, n))
ProjTop(x, sides, ids) == IF Kept(x, sides) THEN <<ids[<<x, x>>]>> ELSE ProjList(sides, ids, x)
ProjCopies(sides, ids) ==
  [i \in 1..Cardinality(DOMAIN ids) |-> LET p == AtId(ids, Fresh + i) IN ProjCopy(sides, ids, p[1], p[2])]

\* Projection is made of these parts.
LEMMA ProjectionIs ==
  ASSUME NEW x, NEW sides, NEW ids
  PROVE  Projection(x, sides, ids) = BlockAnd(New("Block", 0, ProjTop(x, sides, ids)), ProjCopies(sides, ids))
BY DEF Projection, BlockAnd, ProjTop, ProjCopies, ProjCopy, ProjList, ListOf, NamesOf, Longer

\* The walk of an ordinary projection.
LEMMA ProjSites ==
  ASSUME Safe(heap, mine, lost), NEW sides, NEW keep, keep = KeptSet(sides), NEW stop, stop = {}
  PROVE  /\ \A x : Statements(x) = Visit(stop, x)
         /\ \A n \in DOMAIN heap : Under(n, sides) = Beneath(keep, stop, n)
<1>1. \A o \in DOMAIN heap : Kids(o) \subseteq DOMAIN heap
  BY KidsFacts
<1>2. [o \in DOMAIN heap |-> IF o \in stop THEN {} ELSE Kids(o)] = [o \in DOMAIN heap |-> Range(Children(o))]
  BY DEF Kids
<1>3. ASSUME NEW o \in DOMAIN heap
      PROVE  {c \in Kids(o) : c \notin keep \cup stop} = {c \in Range(Children(o)) : ~Kept(c, sides)}
  BY <1>1 DEF Kids, KeptSet
<1>4. [o \in DOMAIN heap |-> {c \in Kids(o) : c \notin keep \cup stop}]
        = [o \in DOMAIN heap |-> {c \in Range(Children(o)) : ~Kept(c, sides)}]
  BY <1>3
<1>5. \A n \in DOMAIN heap : Between(n, sides) = Pass(keep, stop, n)
  BY <1>4 DEF Between, Pass
<1>6. \A n \in DOMAIN heap : Between(n, sides) \subseteq DOMAIN heap
  <2>1. ASSUME NEW n \in DOMAIN heap PROVE Between(n, sides) \subseteq DOMAIN heap
    <3>1. PICK B : B = Pass(keep, stop, n)
      OBVIOUS
    <3>2. B \in SUBSET DOMAIN heap
      BY <3>1, PassFacts
    <3> QED
      BY <1>5, <3>1, <3>2
  <2> QED
    BY <2>1
<1>7. ASSUME NEW n \in DOMAIN heap PROVE Under(n, sides) = Beneath(keep, stop, n)
  <2>1. PICK B : B = Between(n, sides) /\ B = Pass(keep, stop, n) /\ B \subseteq DOMAIN heap
    BY <1>5, <1>6
  <2>2. Under(n, sides) = {c \in UNION {Kids(o) : o \in B} : Kept(c, sides)}
    BY <2>1 DEF Under, Kids
  <2>3. Beneath(keep, stop, n) = {c \in UNION {Kids(o) : o \in B} : c \in keep}
    BY <2>1 DEF Beneath
  <2>4. \A c \in UNION {Kids(o) : o \in B} : c \in DOMAIN heap
    BY <1>1, <2>1
  <2>5. \A c \in UNION {Kids(o) : o \in B} : c \in keep <=> Kept(c, sides)
    BY <2>4 DEF KeptSet
  <2> QED
    BY <2>2, <2>3, <2>5
<1>8. \A x : Statements(x) = Visit(stop, x)
  BY <1>2 DEF Statements, Visit
<1> QED
  BY <1>7, <1>8

\* What is allocated.
LEMMA ProjAllocated ==
  ASSUME Safe(heap, mine, lost), NEW x, NEW sides, NEW stop, stop = {}, NEW keep, keep = KeptSet(sides),
         x \in DOMAIN heap, heap[x].kind \in NodeKind, NEW P, P = Allocated(x, sides)
  PROVE  /\ \A n, m : In(P, n, m) <=> KeptSite(keep, stop, x, n) /\ m \in ProjParts(sides, n)
         /\ P \in SUBSET ((1..Len(heap)) \X (1..Len(heap)))
         /\ \A n, m : In(P, n, m) => n \in DOMAIN heap /\ m \in DOMAIN heap
<1>1. Statements(x) = Visit(stop, x) /\ Visit(stop, x) \subseteq DOMAIN heap
  BY ProjSites, VisitFacts
<1>2. \A n : n \in Statements(x) /\ Kept(n, sides) <=> KeptSite(keep, stop, x, n)
  BY <1>1 DEF KeptSite, KeptSet
<1>3. P = UNION {{n} \X ProjParts(sides, n) : n \in {n \in Statements(x) : Kept(n, sides)}}
  BY DEF Allocated, ProjParts, CopyAlone
<1>4. \A n, m : In(P, n, m) <=> KeptSite(keep, stop, x, n) /\ m \in ProjParts(sides, n)
  BY <1>2, <1>3 DEF In
<1>5. ASSUME NEW n, KeptSite(keep, stop, x, n) PROVE n \in DOMAIN heap /\ ProjParts(sides, n) \subseteq DOMAIN heap
  <2>1. n \in DOMAIN heap
    BY <1>1, <1>5 DEF KeptSite
  <2>2. PICK dropped, C : dropped = Dropped(n, sides) /\ C = ClonedBut(n, dropped)
    OBVIOUS
  <2>3. IsClonedBut(n, dropped, C)
    BY <2>1, <2>2, ClonedButFacts
  <2> QED
    BY <2>1, <2>2, <2>3 DEF ProjParts, IsClonedBut
<1>6. DOMAIN heap = 1..Len(heap)
  BY PointersInHeap DEF Safe
<1>7. P \in SUBSET ((1..Len(heap)) \X (1..Len(heap)))
  BY <1>2, <1>3, <1>5, <1>6
<1> QED
  BY <1>4, <1>5, <1>7
-----------------------------------------------------------------------------
\* The copy of m that belongs to the copy of n.
ProjOf(v, sides, new, list, n, m) ==
  /\ v \in Object /\ v.kind = heap[m].kind
  /\ n # m => IsCopy(v, m, new, {})
  /\ n = m /\ CopyAlone(n) => IsNew(v, heap[n].kind, heap[n].one, list)
  /\ n = m /\ ~CopyAlone(n) => \E y : IsCopy(y, n, new, Dropped(n, sides)) /\ v = Longer(y, list)

\* What is copied at a statement, class by class.
LEMMA ProjCopyFacts ==
  ASSUME Safe(heap, mine, lost), NEW sides, NEW ids, NEW n \in DOMAIN heap, NEW m \in DOMAIN heap,
         NEW new, new = NamesOf(ids, n), NewNames(new), NEW list, list = ProjList(sides, ids, n), list \in Seq(Nat),
         NEW v, v = ProjCopy(sides, ids, n, m)
  PROVE  ProjOf(v, sides, new, list, n, m)
<1>0. heap[n] \in Object /\ heap[n].one \in Nat
  BY ObjectFacts
<1>1. CASE n # m
  <2>1. v = CopyOf(m, new, {})
    BY <1>1 DEF ProjCopy
  <2>2. PICK none : none = {}
    OBVIOUS
  <2>3. IsCopy(v, m, new, none)
    BY <2>1, <2>2, CopyFacts
  <2> QED
    BY <1>1, <2>2, <2>3 DEF ProjOf, IsCopy
<1>2. CASE n = m /\ CopyAlone(n)
  <2>1. v = New(heap[n].kind, heap[n].one, list)
    BY <1>2 DEF ProjCopy, CopyAlone
  <2>2. heap[n].kind \in AnyKind
    BY <1>0 DEF Object
  <2>3. IsNew(v, heap[n].kind, heap[n].one, list)
    BY <1>0, <2>1, <2>2, NewFacts
  <2> QED
    BY <1>2, <2>3 DEF ProjOf, IsNew
<1>3. CASE n = m /\ ~CopyAlone(n)
  <2>1. PICK dropped, y : dropped = Dropped(n, sides) /\ y = CopyOf(n, new, dropped)
    OBVIOUS
  <2>2. v = Longer(y, list)
    BY <1>3, <2>1 DEF ProjCopy, CopyAlone
  <2>3. IsCopy(y, n, new, dropped)
    BY <2>1, CopyFacts
  <2>4. y \in Object /\ y.kind = heap[n].kind /\ y.many \in Seq(Nat)
    BY <2>3 DEF IsCopy, Object
  <2>5. v \in Object /\ v.kind = y.kind
    <3>1. PICK s : s = y.many \o list
      OBVIOUS
    <3>2. s \in Seq(Nat)
      BY <2>4, <3>1, CatRange
    <3>3. v = [y EXCEPT !.many = s]
      BY <2>2, <3>1 DEF Longer
    <3> QED
      BY <2>4, <3>2, <3>3, RecordMany
  <2> QED
    BY <1>3, <2>1, <2>2, <2>3, <2>4, <2>5 DEF ProjOf
<1> QED
  BY <1>1, <1>2, <1>3

\* remove_sndr and remove_rcvrs drop roles.
LEMMA DroppedRoles ==
  ASSUME Safe(heap, mine, lost), NEW n \in DOMAIN heap, NEW sides
  PROVE  heap[n].kind = "Interaction" => \A p \in Range(heap[n].many) : heap[p].kind = "Msg" => p \notin Dropped(n, sides)
<1>1. heap[n].one \notin Range(heap[n].many)
  BY ObjectFacts
<1> QED
  BY <1>1 DEF Dropped, Rcvrs

\* The members of an ordinary projection, and what it has of the members.
LEMMA ProjMember ==
  ASSUME Safe(heap, mine, lost), NEW h2, NEW P, NEW ids, FamilyLaid(h2, P, ids), NEW sides, NEW n \in Live,
         heap[n].kind \in NodeKind, NEW new, NewNames(new), SiteNames(new, P, ids, n), DOMAIN new = ProjParts(sides, n),
         ~CopyAlone(n) => Cloned(n) \subseteq Live,
         NEW S, NEW list, IsListOf(list, ids, S), NEW holder, SiteBelow(P, holder, n, S, Id(ids, n, n)),
         NEW m, In(P, n, m), m \in ProjParts(sides, n), ProjOf(h2[Id(ids, n, m)], sides, new, list, n, m), NEW L, L = {}, NEW mn2
  PROVE  /\ SiteMember(h2, mn2, P, ids, holder, L, n, m, Id(ids, n, m))
         /\ n # m => SiteHas(h2, ids, n, m, new, {})
         /\ n = m /\ ~CopyAlone(n) => SiteHas(h2, ids, n, m, new, Dropped(n, sides))
         /\ n = m => \A c \in S : Id(ids, c, c) \in Pointers(h2[Id(ids, n, n)])
<1>0. n \in DOMAIN heap
  BY DEF Live
<1>1. PICK o : o = Id(ids, n, m)
  OBVIOUS
<1>2. PICK dropped, C : dropped = Dropped(n, sides) /\ C = ClonedBut(n, dropped)
  OBVIOUS
<1>3. /\ C \subseteq Cloned(n) /\ n \in C /\ C \subseteq DOMAIN heap
      /\ \A k \in C : k # n => \A q \in ClonedParts(k) : q \in C /\ q # n
      /\ \A q \in ClonedParts(n) : q # n /\ (q \in dropped \/ q \in C)
  <2>1. IsClonedBut(n, dropped, C)
    BY <1>0, <1>2, ClonedButFacts
  <2> QED
    BY <2>1 DEF IsClonedBut
<1>4. h2 \in Seq(Object) /\ SameKinds(heap, h2) /\ h2[o].kind = heap[m].kind
  BY <1>1 DEF FamilyLaid
<1>5. \A q \in DOMAIN new : In(P, n, q) /\ new[q] = Id(ids, n, q)
  BY DEF SiteNames
<1>6. SameKind(h2, new)
  BY <1>5 DEF SameKind, FamilyLaid
<1>7. Range(list) = {Id(ids, c, c) : c \in S} /\ Once(list)
  BY DEF IsListOf
<1>8. CASE n # m
  <2>1. ~CopyAlone(n) /\ DOMAIN new = C /\ m \in C
    BY <1>2, <1>8 DEF ProjParts
  <2>2. m \in Live
    BY <1>3, <2>1
  <2>3. PICK none : none = {}
    OBVIOUS
  <2>4. IsCopy(h2[o], m, new, none)
    BY <1>1, <1>8, <2>3 DEF ProjOf
  <2>5. \A q \in ClonedParts(m) : q \in DOMAIN new /\ q # n
    BY <1>3, <1>8, <2>1
  <2>6. SiteMember(h2, mn2, P, ids, holder, L, n, m, o) /\ CopyPoints(h2[o], m, new, none)
    BY <1>4, <1>6, <2>2, <2>3, <2>4, <2>5, MemberCopy
  <2>7. SiteHas(h2, ids, n, m, new, {})
    BY <1>1, <1>4, <2>3, <2>6 DEF SiteHas
  <2> QED
    BY <1>1, <1>8, <2>6, <2>7
<1>9. CASE n = m /\ CopyAlone(n)
  <2>1. PICK one : one = heap[n].one
    OBVIOUS
  <2>2. IsNew(h2[o], heap[n].kind, one, list)
    BY <1>1, <1>9, <2>1 DEF ProjOf
  <2>3. h2[o].live /\ Pointers(h2[o]) = (Range(list) \cup {one}) \ {0} /\ Range(h2[o].lent) = {}
    BY <2>2 DEF IsNew
  <2>4. heap[n].kind \in BlockKind
    BY <1>9 DEF CopyAlone, BlockKind
  <2>5. one # 0 => one \in DOMAIN heap /\ heap[one].kind \in HoldsOne(heap[n].kind)
    BY <1>0, <2>1, ObjectFacts
  <2>6. one # 0 => one \in DOMAIN h2 /\ h2[one].kind \in HoldsOne(heap[n].kind)
    BY <1>4, <2>5 DEF SameKinds
  <2>7. \A p \in Range(list) : \E c \in S : p = Id(ids, c, c) /\ In(P, c, c) /\ holder[c] = o /\ heap[c].kind \in NodeKind
    BY <1>1, <1>7, <1>9 DEF SiteBelow
  <2>8. \A p \in Range(list) : p \in DOMAIN h2 /\ h2[p].kind \in NodeKind /\ p # 0
    <3>1. \A p \in Range(list) : p \in DOMAIN h2 /\ h2[p].kind \in NodeKind
      BY <2>7 DEF FamilyLaid
    <3>2. 0 \notin DOMAIN h2
      BY <1>4
    <3> QED
      BY <3>1, <3>2
  <2>9. Fit(h2, h2[o])
    BY <1>4, <1>7, <2>2, <2>4, <2>6, <2>8, NewFit
  <2>10. one # 0 => one \in Pointers(heap[n]) /\ MayShare(heap, FALSE, n, one)
    <3>1. one # 0 => one \in Pointers(heap[n])
      BY <2>1 DEF Pointers
    <3>2. heap[n].kind = "Recur" => one = 0
      BY <2>5 DEF HoldsOne
    <3>3. heap[n].kind = "Choice" /\ one # 0 => heap[one].kind = "Role"
      BY <2>5 DEF HoldsOne
    <3> QED
      BY <1>9, <3>1, <3>2, <3>3 DEF CopyAlone, MayShare
  <2>11. \A p \in Pointers(h2[o]) :
           \/ p \in Pointers(heap[m]) /\ MayShare(heap, FALSE, m, p)
           \/ \E k : In(P, k, k) /\ k \notin L /\ p = Id(ids, k, k) /\ holder[k] = o
    BY <1>9, <2>3, <2>7, <2>10
  <2>12. SiteMember(h2, mn2, P, ids, holder, L, n, m, o)
    BY <2>3, <2>9, <2>11 DEF SiteMember
  <2>13. \A c \in S : Id(ids, c, c) \in Pointers(h2[o])
    BY <1>7, <2>3, <2>8
  <2> QED
    BY <1>1, <1>9, <2>12, <2>13
<1>10. CASE n = m /\ ~CopyAlone(n)
  <2>1. DOMAIN new = C
    BY <1>2, <1>10 DEF ProjParts
  <2>2. PICK y : IsCopy(y, n, new, dropped) /\ h2[o] = Longer(y, list)
    BY <1>1, <1>2, <1>10 DEF ProjOf
  <2>3. heap[n].kind = "Interaction" => \A p \in Range(heap[n].many) : heap[p].kind = "Msg" => p \notin dropped
    BY <1>0, <1>2, DroppedRoles
  <2>4. SiteBelow(P, holder, n, S, o)
    BY <1>1, <1>10
  <2>5. /\ SiteMember(h2, mn2, P, ids, holder, L, n, n, o)
        /\ CopyPoints(y, n, new, dropped) /\ IsLonger(h2[o], y, list)
    BY <1>3, <2>1, <2>2, <2>3, <2>4, SiteOwn
  <2>6. Pointers(h2[o]) = Pointers(y) \cup Range(list) /\ h2[o].lent = y.lent
    BY <2>5 DEF IsLonger
  <2>7. SiteHas(h2, ids, n, m, new, dropped)
    BY <1>1, <1>4, <1>10, <2>5, <2>6 DEF SiteHas
  <2>8. \A c \in S : Id(ids, c, c) \in Pointers(h2[o])
    BY <1>7, <2>6
  <2> QED
    BY <1>1, <1>2, <1>10, <2>5, <2>7, <2>8
<1> QED
  BY <1>8, <1>9, <1>10
-----------------------------------------------------------------------------
\* A block of the copies of S.
BlockOf(h2, v, S, ids) ==
  /\ v.kind = "Block" /\ v.live /\ Fit(h2, v) /\ Range(v.lent) = {}
  /\ Pointers(v) = {Id(ids, n, n) : n \in S}

\* The root block fits.
LEMMA BlockOfFacts ==
  ASSUME NEW h2 \in Seq(Object), NEW S, NEW ids, NEW s, IsListOf(s, ids, S), NEW v, v = New("Block", 0, s),
         \A c \in S : Id(ids, c, c) \in DOMAIN h2 /\ h2[Id(ids, c, c)].kind \in NodeKind
  PROVE  BlockOf(h2, v, S, ids)
<1>1. s \in Seq(Nat) /\ Once(s) /\ Range(s) = {Id(ids, c, c) : c \in S}
  BY DEF IsListOf
<1>2. PICK kind, one : kind = "Block" /\ one = 0 /\ kind \in AnyKind /\ kind \in BlockKind /\ one \in Nat
  BY DEF AnyKind, NodeKind, OrdinaryKind, BlockKind
<1>3. IsNew(v, kind, one, s)
  BY <1>1, <1>2, NewFacts
<1>4. \A p \in Range(s) : p \in DOMAIN h2 /\ h2[p].kind \in NodeKind
  BY <1>1
<1>5. Fit(h2, v)
  BY <1>1, <1>2, <1>3, <1>4, NewFit
<1>6. \A p \in Range(s) : p # 0
  BY <1>4
<1> QED
  BY <1>1, <1>2, <1>3, <1>5, <1>6 DEF IsNew, BlockOf

\* The list of one copy.
LEMMA ListOfOne ==
  ASSUME NEW ids, NEW x, Id(ids, x, x) \in Nat, NEW s, s = <<ids[<<x, x>>]>>
  PROVE  IsListOf(s, ids, {x})
<1>1. PICK p \in Nat : p = Id(ids, x, x)
  OBVIOUS
<1>2. s = <<p>>
  BY <1>1 DEF Id
<1>3. <<p>> \in Seq(Nat) /\ Range(<<p>>) = {p} /\ Once(<<p>>)
  BY OneIsSeq
<1> QED
  BY <1>1, <1>2, <1>3 DEF IsListOf

\* A projection that is well defined.
LEMMA ProjectSafe ==
  ASSUME Safe(heap, mine, lost), NEW x \in Live, heap[x].kind \in NodeKind, NEW sides,
         \A n \in Statements(x) : Kept(n, sides) /\ ~CopyAlone(n) => Cloned(n) \subseteq Live,
         NEW h2, h2 = heap \o Projection(x, sides, IdsOf(Allocated(x, sides))), NEW mn2, mn2 = mine \cup {Fresh}
  PROVE  Safe(h2, mn2, lost) /\ Alive(h2)
<1>0. x \in DOMAIN heap /\ heap \in Seq(Object) /\ Fresh \notin DOMAIN heap
  <2>1. x \in DOMAIN heap /\ heap \in Seq(Object)
    BY DEF Live, Safe, Formed
  <2> QED
    BY <2>1 DEF Fresh
<1>1. PICK P, ids, count, keep, stop, L, X :
        /\ P = Allocated(x, sides) /\ ids = IdsOf(P) /\ count = Cardinality(P)
        /\ keep = KeptSet(sides) /\ stop = {} /\ L = {} /\ X = {Fresh}
  OBVIOUS
<1>2. keep \cap stop = {}
  BY <1>1
<1>3. /\ \A n, m : In(P, n, m) <=> KeptSite(keep, stop, x, n) /\ m \in ProjParts(sides, n)
      /\ P \in SUBSET ((1..Len(heap)) \X (1..Len(heap)))
      /\ \A n, m : In(P, n, m) => n \in DOMAIN heap /\ m \in DOMAIN heap
  BY <1>0, <1>1, ProjAllocated
<1>4. Numbered(P, ids, count)
  BY <1>0, <1>1, <1>3, NumberedFacts
<1>5. /\ \A z : Statements(z) = Visit(stop, z)
      /\ \A n \in DOMAIN heap : Under(n, sides) = Beneath(keep, stop, n)
  BY <1>1, ProjSites
<1>6. PICK holder : holder = HolderOf(keep, stop, x, ids)
  OBVIOUS
<1>7. HolderIs(keep, stop, x, ids, holder)
  BY <1>0, <1>2, <1>6, HolderFacts
<1>8. \A n : KeptSite(keep, stop, x, n) => n \in ProjParts(sides, n) /\ n \in DOMAIN heap
  <2>1. ASSUME NEW n, KeptSite(keep, stop, x, n) PROVE n \in ProjParts(sides, n) /\ n \in DOMAIN heap
    <3>1. n \in DOMAIN heap
      BY <1>7, <2>1 DEF HolderIs
    <3> QED
      BY <3>1 DEF ProjParts, ClonedBut
  <2> QED
    BY <2>1
<1>9. \A n : KeptSite(keep, stop, x, n) => In(P, n, n)
  BY <1>3, <1>8
<1>10. \A n, m : In(P, n, m) => Id(ids, n, m) \in Nat
  BY <1>4 DEF Numbered, In, Id
<1>11. \A n, m, k, l : In(P, n, m) /\ In(P, k, l) /\ Id(ids, n, m) = Id(ids, k, l) => n = k /\ m = l
  <2>1. \A p, q \in P : ids[p] = ids[q] => p = q
    BY <1>4 DEF Numbered
  <2> QED
    BY <2>1 DEF In, Id
<1>12. ASSUME NEW n \in DOMAIN heap, \A c \in Beneath(keep, stop, n) : KeptSite(keep, stop, x, c)
       PROVE  IsListOf(ProjList(sides, ids, n), ids, Beneath(keep, stop, n))
  <2>1. PICK S, list : S \in SUBSET DOMAIN heap /\ S = Beneath(keep, stop, n) /\ list = ProjList(sides, ids, n)
    BY <1>12, <1>8
  <2>2. list = ListOf(ids, S)
    BY <1>5, <2>1 DEF ProjList
  <2>3. \A c \in S : Id(ids, c, c) \in Nat
    BY <1>9, <1>10, <1>12, <2>1
  <2>4. \A c, d \in S : Id(ids, c, c) = Id(ids, d, d) => c = d
    BY <1>9, <1>11, <1>12, <2>1
  <2>5. IsListOf(list, ids, S)
    BY <1>0, <2>1, <2>2, <2>3, <2>4, ListOfFacts
  <2> QED
    BY <2>1, <2>5
<1>13. ASSUME NEW n, KeptSite(keep, stop, x, n)
       PROVE  /\ \A c \in Beneath(keep, stop, n) : KeptSite(keep, stop, x, c) /\ holder[c] = Id(ids, n, n)
              /\ IsListOf(ProjList(sides, ids, n), ids, Beneath(keep, stop, n))
  <2>1. \A c \in Beneath(keep, stop, n) : KeptSite(keep, stop, x, c) /\ holder[c] = Id(ids, n, n)
    BY <1>7, <1>13 DEF HolderIs
  <2> QED
    BY <1>8, <1>12, <1>13, <2>1
<1>14. ASSUME NEW n, KeptSite(keep, stop, x, n)
       PROVE  NewNames(NamesOf(ids, n)) /\ SiteNames(NamesOf(ids, n), P, ids, n) /\ DOMAIN NamesOf(ids, n) = ProjParts(sides, n)
  <2>1. PICK C, new : C = {q \in DOMAIN heap : <<n, q>> \in DOMAIN ids} /\ new = NamesOf(ids, n)
    OBVIOUS
  <2>2. new = [q \in C |-> ids[<<n, q>>]]
    BY <2>1 DEF NamesOf
  <2>3. DOMAIN ids = P
    BY <1>4 DEF Numbered
  <2>4. \A q \in C : In(P, n, q)
    BY <2>1, <2>3 DEF In
  <2>5. \A q : In(P, n, q) => q \in C
    BY <1>3, <2>1, <2>3 DEF In
  <2>6. C = ProjParts(sides, n)
    BY <1>3, <1>14, <2>4, <2>5
  <2>7. NewNames(new) /\ SiteNames(new, P, ids, n) /\ DOMAIN new = C
    <3>1. InHeap(P)
      BY <1>3 DEF InHeap
    <3>2. new = NamesOn(ids, n, C)
      BY <2>2 DEF NamesOn
    <3>3. NamesFor(new, P, ids, n, C)
      BY <1>4, <2>4, <3>1, <3>2, NamesAtFacts
    <3> QED
      BY <3>3 DEF NamesFor
  <2> QED
    BY <2>1, <2>6, <2>7
<1>15. ASSUME NEW n, NEW m, In(P, n, m)
       PROVE  ProjOf(ProjCopy(sides, ids, n, m), sides, NamesOf(ids, n), ProjList(sides, ids, n), n, m)
  <2>1. KeptSite(keep, stop, x, n) /\ n \in DOMAIN heap /\ m \in DOMAIN heap
    BY <1>3, <1>15
  <2>2. PICK new, list, v : new = NamesOf(ids, n) /\ list = ProjList(sides, ids, n) /\ v = ProjCopy(sides, ids, n, m)
    OBVIOUS
  <2>3. NewNames(new)
    BY <1>14, <2>1, <2>2
  <2>4. list \in Seq(Nat)
    BY <1>13, <2>1, <2>2 DEF IsListOf
  <2>5. ProjOf(v, sides, new, list, n, m)
    BY <2>1, <2>2, <2>3, <2>4, ProjCopyFacts
  <2> QED
    BY <2>2, <2>5
<1>16. PICK top, block, copies : /\ top = ProjTop(x, sides, ids) /\ block = New("Block", 0, top)
                                 /\ copies = ProjCopies(sides, ids)
  OBVIOUS
<1>17. IsListOf(top, ids, TopOf(keep, stop, x))
  <2>1. \A n \in TopOf(keep, stop, x) : KeptSite(keep, stop, x, n)
    BY <1>7 DEF HolderIs
  <2>2. Kept(x, sides) <=> x \in keep
    BY <1>0, <1>1 DEF KeptSet
  <2>3. CASE x \in keep
    <3>1. TopOf(keep, stop, x) = {x} /\ top = <<ids[<<x, x>>]>>
      BY <1>16, <2>2, <2>3 DEF TopOf, ProjTop
    <3>2. Id(ids, x, x) \in Nat
      BY <1>9, <1>10, <2>1, <3>1
    <3> QED
      BY <3>1, <3>2, ListOfOne
  <2>4. CASE x \notin keep
    <3>1. TopOf(keep, stop, x) = Beneath(keep, stop, x) /\ top = ProjList(sides, ids, x)
      BY <1>1, <1>16, <2>2, <2>4 DEF TopOf, ProjTop
    <3> QED
      BY <1>0, <1>12, <2>1, <3>1
  <2> QED
    BY <2>3, <2>4
<1>18. block \in Object
  <2>1. "Block" \in AnyKind /\ 0 \in Nat /\ top \in Seq(Nat)
    BY <1>17 DEF AnyKind, NodeKind, OrdinaryKind, IsListOf
  <2>2. IsNew(block, "Block", 0, top)
    BY <1>16, <2>1, NewFacts
  <2> QED
    BY <2>2 DEF IsNew
<1>19. /\ DOMAIN copies = 1..count
       /\ \A i \in 1..count : copies[i] = ProjCopy(sides, ids, AtId(ids, Fresh + i)[1], AtId(ids, Fresh + i)[2])
  <2>1. Cardinality(DOMAIN ids) = count
    BY <1>1, <1>4 DEF Numbered
  <2> QED
    BY <1>16, <2>1 DEF ProjCopies
<1>20. ASSUME NEW p \in P
       PROVE  p = <<p[1], p[2]>> /\ In(P, p[1], p[2]) /\ ids[p] = Id(ids, p[1], p[2])
  <2>1. p = <<p[1], p[2]>>
    BY <1>3
  <2> QED
    BY <2>1 DEF In, Id
<1>21. copies \in [1..count -> Object]
  <2>1. ASSUME NEW i \in 1..count PROVE copies[i] \in Object
    <3>1. PICK p \in P : p = AtId(ids, Fresh + i)
      BY <1>4 DEF Numbered
    <3>2. copies[i] = ProjCopy(sides, ids, p[1], p[2]) /\ In(P, p[1], p[2])
      BY <1>19, <1>20, <3>1
    <3> QED
      BY <1>15, <3>2 DEF ProjOf
  <2>2. copies = [i \in 1..count |-> copies[i]]
    <3>1. copies = [i \in DOMAIN copies |-> copies[i]]
      BY <1>16 DEF ProjCopies
    <3> QED
      BY <1>19, <3>1
  <2> QED
    BY <2>1, <2>2
<1>22. Laid(h2, P, ids, block, copies)
  <2>1. h2 = heap \o BlockAnd(block, copies)
    BY <1>1, <1>16, ProjectionIs
  <2> QED
    BY <1>0, <1>4, <1>18, <1>21, <2>1, LaidFacts
<1>23. /\ h2 \in Seq(Object) /\ DOMAIN heap \subseteq DOMAIN h2 /\ \A o \in DOMAIN heap : h2[o] = heap[o]
       /\ Fresh \in DOMAIN h2 /\ h2[Fresh] = block
       /\ \A o \in DOMAIN h2 \ DOMAIN heap : o = Fresh \/ \E n, m : In(P, n, m) /\ o = Id(ids, n, m)
  BY <1>20, <1>22 DEF Laid
<1>24. ASSUME NEW n, NEW m, In(P, n, m)
       PROVE  /\ Id(ids, n, m) \in DOMAIN h2 /\ Id(ids, n, m) \notin DOMAIN heap /\ Id(ids, n, m) # Fresh
              /\ h2[Id(ids, n, m)] = ProjCopy(sides, ids, n, m)
  <2>1. PICK p \in P : p = <<n, m>>
    BY <1>24 DEF In
  <2>2. p[1] = n /\ p[2] = m /\ ids[p] = Id(ids, n, m)
    BY <2>1 DEF Id
  <2>3. /\ ids[p] - Fresh \in 1..count /\ Fresh + (ids[p] - Fresh) = ids[p] /\ AtId(ids, ids[p]) = p
        /\ ids[p] # Fresh /\ ids[p] \notin DOMAIN heap
    BY <1>4 DEF Numbered
  <2>4. ids[p] \in DOMAIN h2 /\ h2[ids[p]] = copies[ids[p] - Fresh]
    BY <1>22 DEF Laid
  <2>5. copies[ids[p] - Fresh] = ProjCopy(sides, ids, p[1], p[2])
    BY <1>19, <2>3
  <2> QED
    BY <2>2, <2>3, <2>4, <2>5
<1>25. ASSUME NEW n, NEW m, In(P, n, m)
       PROVE  /\ ProjOf(h2[Id(ids, n, m)], sides, NamesOf(ids, n), ProjList(sides, ids, n), n, m)
              /\ h2[Id(ids, n, m)].kind = heap[m].kind
  BY <1>15, <1>24, <1>25 DEF ProjOf
<1>26. FamilyLaid(h2, P, ids)
  <2>1. SameKinds(heap, h2)
    BY <1>23 DEF SameKinds
  <2> QED
    BY <1>3, <1>11, <1>23, <1>24, <1>25, <2>1 DEF FamilyLaid
<1>27. Extends(h2, P, ids, X)
  BY <1>0, <1>1, <1>23, <1>24 DEF Extends
<1>28. ProjectionFamily(h2, keep, stop, x, P, ids)
  BY <1>3, <1>9, <1>11, <1>24, <1>25 DEF ProjectionFamily
<1>29. ASSUME NEW n, KeptSite(keep, stop, x, n), NEW m, In(P, n, m)
       PROVE  /\ SiteMember(h2, mn2, P, ids, holder, L, n, m, Id(ids, n, m))
              /\ n # m => SiteHas(h2, ids, n, m, NamesOf(ids, n), {})
              /\ n = m /\ ~CopyAlone(n) => SiteHas(h2, ids, n, m, NamesOf(ids, n), Dropped(n, sides))
              /\ n = m => \A c \in Beneath(keep, stop, n) : Id(ids, c, c) \in Pointers(h2[Id(ids, n, n)])
  <2>1. n \in DOMAIN heap /\ heap[n].kind \in NodeKind /\ n \in keep /\ n \in Visit(stop, x)
    BY <1>7, <1>29 DEF HolderIs, KeptSite
  <2>2. n \in Live
    <3>1. Visit(stop, x) \subseteq Live
      BY VisitLive
    <3> QED
      BY <2>1, <3>1
  <2>3. ~CopyAlone(n) => Cloned(n) \subseteq Live
    BY <1>1, <1>5, <2>1 DEF KeptSet
  <2>4. PICK new, list, S : new = NamesOf(ids, n) /\ list = ProjList(sides, ids, n) /\ S = Beneath(keep, stop, n)
    OBVIOUS
  <2>5. NewNames(new) /\ SiteNames(new, P, ids, n) /\ DOMAIN new = ProjParts(sides, n)
    BY <1>14, <1>29, <2>4
  <2>6. IsListOf(list, ids, S)
    BY <1>13, <1>29, <2>4
  <2>7. SiteBelow(P, holder, n, S, Id(ids, n, n))
    <3>1. S # {} => heap[n].kind \in BlockKind
      BY <2>1, <2>4, BelowBlock
    <3>2. \A c \in S : KeptSite(keep, stop, x, c) /\ holder[c] = Id(ids, n, n)
      BY <1>13, <1>29, <2>4
    <3>3. \A c \in S : In(P, c, c) /\ heap[c].kind \in NodeKind
      BY <1>7, <1>9, <3>2 DEF HolderIs
    <3> QED
      BY <3>1, <3>2, <3>3 DEF SiteBelow
  <2>8. m \in ProjParts(sides, n) /\ ProjOf(h2[Id(ids, n, m)], sides, new, list, n, m)
    BY <1>3, <1>25, <1>29, <2>4
  <2>9. /\ SiteMember(h2, mn2, P, ids, holder, L, n, m, Id(ids, n, m))
        /\ n # m => SiteHas(h2, ids, n, m, new, {})
        /\ n = m /\ ~CopyAlone(n) => SiteHas(h2, ids, n, m, new, Dropped(n, sides))
        /\ n = m => \A c \in S : Id(ids, c, c) \in Pointers(h2[Id(ids, n, n)])
    BY <1>1, <1>26, <1>29, <2>1, <2>2, <2>3, <2>5, <2>6, <2>7, <2>8, ProjMember
  <2> QED
    BY <2>4, <2>9
<1>30. ProjectionBlock(h2, keep, stop, x, ids)
  <2>1. PICK T : T = TopOf(keep, stop, x)
    OBVIOUS
  <2>2. \A c \in T : In(P, c, c) /\ heap[c].kind \in NodeKind
    BY <1>7, <1>9, <2>1 DEF HolderIs
  <2>3. \A c \in T : Id(ids, c, c) \in DOMAIN h2 /\ h2[Id(ids, c, c)].kind \in NodeKind
    BY <1>26, <2>2 DEF FamilyLaid
  <2>4. BlockOf(h2, block, T, ids)
    BY <1>16, <1>17, <1>23, <2>1, <2>3, BlockOfFacts
  <2>5. \A n : KeptSite(keep, stop, x, n) =>
           \A c \in Beneath(keep, stop, n) : Id(ids, c, c) \in Pointers(h2[Id(ids, n, n)])
    BY <1>9, <1>29
  <2> QED
    BY <1>23, <2>1, <2>4, <2>5 DEF BlockOf, ProjectionBlock
<1>31. \A n, m : In(P, n, m) => SiteMember(h2, mn2, P, ids, holder, L, n, m, Id(ids, n, m))
  BY <1>3, <1>29
<1>32. ASSUME NEW n, NEW m, In(P, n, m), n # m PROVE Found(h2, mn2, lost, Id(ids, n, m))
  <2>1. KeptSite(keep, stop, x, n) /\ m \in ProjParts(sides, n) /\ n \in DOMAIN heap
    BY <1>3, <1>32
  <2>2. PICK dropped, C : dropped = Dropped(n, sides) /\ C = ClonedBut(n, dropped)
    OBVIOUS
  <2>3. ~CopyAlone(n) /\ m \in C /\ C = ProjParts(sides, n)
    BY <1>32, <2>1, <2>2 DEF ProjParts
  <2>4. IsClonedBut(n, dropped, C)
    BY <2>1, <2>2, ClonedButFacts
  <2>5. PICK k \in C : m \in ClonedParts(k) /\ (k = n => m \notin dropped)
    BY <1>32, <2>3, <2>4 DEF IsClonedBut
  <2>6. In(P, n, k)
    BY <1>3, <2>1, <2>3, <2>5
  <2>7. PICK new : new = NamesOf(ids, n)
    OBVIOUS
  <2>8. SiteNames(new, P, ids, n) /\ m \in DOMAIN new
    BY <1>14, <2>1, <2>7
  <2>9. PICK d : m \notin d /\ SiteHas(h2, ids, n, k, new, d)
    <3>1. n # k => SiteHas(h2, ids, n, k, new, {})
      BY <1>29, <2>1, <2>6, <2>7
    <3>2. n = k => SiteHas(h2, ids, n, k, new, dropped)
      BY <1>29, <2>1, <2>2, <2>3, <2>6, <2>7
    <3> QED
      BY <2>5, <3>1, <3>2
  <2> QED
    BY <1>26, <2>5, <2>6, <2>8, <2>9, SiteFound
<1>33. Safe(h2, mn2, lost)
  BY <1>0, <1>1, <1>2, <1>6, <1>27, <1>28, <1>30, <1>31, <1>32, WalkStep
<1> QED
  BY <1>23, <1>33 DEF Alive

\* st_node_project.
HeapAnd(objects) == heap \o objects

\* Project in parts.
ReadsFreed(x, sides) ==
  /\ ~(ReadOf(x, sides) \subseteq Live)
  /\ ub' = [what |-> "use after free", to |-> ReadOf(x, sides) \ Live]
  /\ profile' = profile /\ heap' = heap /\ mine' = mine /\ lost' = lost
ReadsLive(x, sides) ==
  /\ ReadOf(x, sides) \subseteq Live
  /\ heap' = HeapAnd(Projection(x, sides, IdsOf(Allocated(x, sides)))) /\ mine' = mine \cup {Fresh}
  /\ profile' = profile /\ lost' = lost /\ ub' = ub
Projects(x, sides) ==
  /\ Running
  /\ \A o \in Statements(x) :
       /\ heap[o].kind \in OrdinaryKind /\ heap[o].lent = << >>
       /\ heap[o].kind \in {"Choice", "Interaction"} => heap[o].one # 0
  /\ ReadsFreed(x, sides) \/ ReadsLive(x, sides)

\* What an object points to when that is freed may be shared.
LEMMA FreedShared ==
  ASSUME Safe(heap, mine, lost), NEW o \in DOMAIN heap, NEW p \in DOMAIN heap, p \in Pointers(heap[o]), ~heap[p].live
  PROVE  MayBeShared(p)
<1>1. MayShare(heap, TheRelic, o, p)
  BY DEF Safe, Pointed, TheRelic
<1> QED
  BY <1>1, MayShareShares

\* A clone reads what is freed only where copies share or the program keeps a condition.
LEMMA ClonedFreed ==
  ASSUME Safe(heap, mine, lost), NEW n \in Live, NEW p \in Cloned(n), p \notin Live
  PROVE  p \in DOMAIN heap /\ (MayBeShared(p) \/ p \in kept)
<1>1. n \in DOMAIN heap /\ p # n
  BY DEF Live
<1>2. Cloned(n) \in SUBSET DOMAIN heap /\ \E m \in Cloned(n) : p \in ClonedParts(m)
  BY <1>1, ClonedFacts
<1>3. PICK m \in DOMAIN heap : p \in ClonedParts(m)
  BY <1>2
<1>4. Formed(heap)
  BY DEF Safe
<1>5. p \in DOMAIN heap /\ (p \in Pointers(heap[m]) \/ (heap[m].kind = "Interaction" /\ p \in Range(heap[m].lent)))
  BY <1>3, <1>4, ClonedPartKinds
<1>6. ~heap[p].live
  BY <1>5 DEF Live
<1>7. heap[m].kind = "Interaction" /\ p \in Range(heap[m].lent) => p \in kept
  BY <1>3, <1>6 DEF Safe, Conditions
<1> QED
  BY <1>3, <1>5, <1>6, <1>7, FreedShared

\* The projection of an ordinary tree.
LEMMA ProjectStep ==
  ASSUME IInv, Project, UNCHANGED <<kept, due>>
  PROVE  IInv' /\ (ub' = Defined => Spares)
<1>1. PICK x \in Named(NodeKind) : \E sides : Projects(x, sides)
  BY DEF Project, Projects, ReadsFreed, ReadsLive, HeapAnd, Keep
<1>10. PICK sides : Projects(x, sides)
  BY <1>1
<1>11. /\ Running
       /\ \A o \in Statements(x) : heap[o].kind \in {"Choice", "Interaction"} => heap[o].one # 0
  BY <1>10 DEF Projects
<1>12. ReadsFreed(x, sides) \/ ReadsLive(x, sides)
  BY <1>10 DEF Projects
<1>2. ub = Defined /\ Safe(heap, mine, lost)
  BY <1>11 DEF Running, IInv
<1>3. x \in Live /\ x \in DOMAIN heap /\ heap[x].kind \in NodeKind
  BY <1>2, LiveNamed
<1>4. CASE ReadsLive(x, sides)
  <2>1. PICK h2, mn2 : h2 = heap \o Projection(x, sides, IdsOf(Allocated(x, sides))) /\ mn2 = mine \cup {Fresh}
    OBVIOUS
  <2>2. \A n \in Statements(x) : Kept(n, sides) /\ ~CopyAlone(n) => Cloned(n) \subseteq Live
    <3>1. ReadOf(x, sides) \subseteq Live
      BY <1>4 DEF ReadsLive
    <3> QED
      BY <3>1 DEF ReadOf, CopyAlone
  <2>3. Safe(h2, mn2, lost) /\ Alive(h2)
    BY <1>2, <1>3, <2>1, <2>2, ProjectSafe
  <2>4. heap' = h2 /\ mine' = mn2 /\ profile' = profile /\ lost' = lost /\ ub' = ub
    BY <1>4, <2>1 DEF ReadsLive, HeapAnd
  <2> QED
    BY <1>2, <2>3, <2>4, SafeNext, AliveSpares
<1>5. CASE ReadsFreed(x, sides)
  <2>1. /\ ub' = [what |-> "use after free", to |-> ReadOf(x, sides) \ Live]
        /\ profile' = profile /\ heap' = heap /\ mine' = mine /\ lost' = lost
    BY <1>5 DEF ReadsFreed
  <2>2. ASSUME NEW p \in ReadOf(x, sides) \ Live PROVE p \in DOMAIN heap /\ (MayBeShared(p) \/ p \in kept)
    <3>0. PICK stop : stop = {}
      OBVIOUS
    <3>1. Statements(x) = Visit(stop, x)
      <4>1. PICK keep : keep = KeptSet(sides)
        OBVIOUS
      <4> QED
        BY <1>2, <3>0, <4>1, ProjSites
    <3>2. Visit(stop, x) \subseteq Live
      BY <1>2, <1>3, VisitLive
    <3>3. CASE \E o \in Statements(x) : heap[o].kind = "Choice" /\ p = heap[o].one
      <4>1. PICK o \in Statements(x) : heap[o].kind = "Choice" /\ p = heap[o].one
        BY <3>3
      <4>2. o \in DOMAIN heap /\ p # 0
        BY <1>11, <3>1, <3>2, <4>1 DEF Live
      <4>3. p \in DOMAIN heap /\ p \in Pointers(heap[o])
        BY <1>2, <4>1, <4>2, ObjectFacts DEF Pointers
      <4> QED
        BY <1>2, <2>2, <4>2, <4>3, FreedShared DEF Live
    <3>4. CASE \E n \in Statements(x) : p \in Cloned(n)
      <4>1. PICK n \in Statements(x) : p \in Cloned(n)
        BY <3>4
      <4>2. n \in Live
        BY <3>1, <3>2, <4>1
      <4> QED
        BY <1>2, <2>2, <4>1, <4>2, ClonedFreed
    <3> QED
      BY <2>2, <3>3, <3>4 DEF ReadOf
  <2>3. ub' # Defined
    BY <2>1 DEF Defined
  <2>4. UndefinedConfined'
    <3>1. \A p \in ub'.to : MayBeShared(p) \/ p \in kept
      BY <2>1, <2>2
    <3>2. \A p : MayBeShared(p)' <=> MayBeShared(p)
      BY <2>1 DEF MayBeShared, Shares, IndicesShared, PointersOf
    <3> QED
      BY <3>1, <3>2 DEF UndefinedConfined
  <2>5. ub'.what \in {"none", "double free", "use after free"} /\ ub'.to \subseteq DOMAIN heap'
    BY <2>1, <2>2
  <2> QED
    BY <2>1, <2>3, <2>4, <2>5 DEF IInv
<1> QED
  BY <1>12, <1>4, <1>5
-----------------------------------------------------------------------------
MadeNodes    == {c \in DOMAIN heap : Projected(c)}

\* The parameterised projection of a tree without messages, in the same parts.
DroppedNodes == {c \in DOMAIN heap : heap[c].kind \in {"Oneof", "If"}}
\* What st_param_node_project is given.
NodesOnly(x) ==
  /\ \A o \in Visited(x) : heap[o].kind \in ParamKind \cup {"Block", "Choice", "Recur"}
  /\ \A o \in Visited(x) : heap[o].kind = "Choice" => heap[o].one # 0 /\ Cloned(heap[o].one) \subseteq Live

\* The walk of a parameterised projection.
LEMMA NodeSites ==
  ASSUME Safe(heap, mine, lost), NEW keep, keep = MadeNodes, NEW stop, stop = DroppedNodes
  PROVE  /\ \A x : Visited(x) = Visit(stop, x)
         /\ \A n \in DOMAIN heap : Nearest(n) = Beneath(keep, stop, n)
         /\ keep \cap stop = {}
<1>1. \A o \in DOMAIN heap : Kids(o) \subseteq DOMAIN heap
  BY KidsFacts
<1>2. [o \in DOMAIN heap |-> IF o \in stop THEN {} ELSE Kids(o)]
        = [o \in DOMAIN heap |-> IF heap[o].kind \in {"Oneof", "If"} THEN {} ELSE Range(Children(o))]
  BY DEF Kids, DroppedNodes
<1>3. ASSUME NEW o \in DOMAIN heap
      PROVE  {c \in Kids(o) : c \notin keep \cup stop} = {c \in Range(Children(o)) : heap[c].kind = "Block"}
  <2>1. \A c \in Kids(o) : c \notin keep \cup stop <=> heap[c].kind = "Block"
    BY <1>1 DEF MadeNodes, DroppedNodes, Projected
  <2> QED
    BY <2>1 DEF Kids
<1>4. [o \in DOMAIN heap |-> {c \in Kids(o) : c \notin keep \cup stop}]
        = [o \in DOMAIN heap |-> {c \in Range(Children(o)) : heap[c].kind = "Block"}]
  BY <1>3
<1>5. \A n \in DOMAIN heap : Around(n) = Pass(keep, stop, n)
  BY <1>4 DEF Around, Pass
<1>6. ASSUME NEW n \in DOMAIN heap PROVE Nearest(n) = Beneath(keep, stop, n)
  <2>1. PICK B : B = Around(n) /\ B = Pass(keep, stop, n)
    BY <1>5
  <2>2. B \in SUBSET DOMAIN heap
    BY <2>1, PassFacts
  <2>3. Nearest(n) = {c \in UNION {Kids(o) : o \in B} : Projected(c)}
    BY <2>1 DEF Nearest, Kids
  <2>4. Beneath(keep, stop, n) = {c \in UNION {Kids(o) : o \in B} : c \in keep}
    BY <2>1 DEF Beneath
  <2>5. \A c \in UNION {Kids(o) : o \in B} : c \in keep <=> Projected(c)
    BY <1>1, <2>2 DEF MadeNodes
  <2> QED
    BY <2>3, <2>4, <2>5
<1>7. \A x : Visited(x) = Visit(stop, x)
  BY <1>2 DEF Visited, Visit
<1>8. keep \cap stop = {}
  BY DEF MadeNodes, DroppedNodes, Projected
<1> QED
  BY <1>6, <1>7, <1>8

\* What is copied at a node: the role of a choice besides.
NodeParts(n, C) ==
  /\ n \in C /\ C \subseteq DOMAIN heap
  /\ heap[n].kind # "Choice" => C = {n}
  /\ \A m \in C : m # n => m \in Live /\ \A q \in ClonedParts(m) : q \in C /\ q # n
  /\ heap[n].kind = "Choice" => heap[n].one \in C \ {n} /\ heap[n].one \in Pointers(heap[n]) /\ heap[heap[n].one].kind = "Role"
  /\ \A m \in C : m # n => m = heap[n].one \/ \E k \in C \ {n} : m \in ClonedParts(k)

\* A choice without role is copied alone.
LEMMA NodePartsFacts ==
  ASSUME Safe(heap, mine, lost), NEW n \in DOMAIN heap, heap[n].kind \in NodeKind,
         heap[n].kind = "Choice" => heap[n].one # 0 /\ Cloned(heap[n].one) \subseteq Live,
         NEW C, C = CopiesAt(n)
  PROVE  NodeParts(n, C)
<1>1. CASE heap[n].kind # "Choice"
  BY <1>1 DEF NodeParts, CopiesAt
<1>2. CASE heap[n].kind = "Choice"
  <2>1. PICK r : r = heap[n].one
    OBVIOUS
  <2>2. r \in DOMAIN heap /\ r # 0 /\ heap[r].kind \in HoldsOne("Choice")
    BY <1>2, <2>1, ObjectFacts
  <2>3. heap[r].kind = "Role"
    BY <2>2 DEF HoldsOne
  <2>4. /\ Cloned(r) \in SUBSET DOMAIN heap /\ r \in Cloned(r)
        /\ \A m \in Cloned(r) : ClonedParts(m) \subseteq Cloned(r)
        /\ \A p \in Cloned(r) : p = r \/ \E m \in Cloned(r) : p \in ClonedParts(m)
    BY <2>2, ClonedFacts
  <2>5. heap[r].kind \in LeafKind
    BY <2>3 DEF LeafKind
  <2>6. \A m \in Cloned(r) : m = r \/ heap[m].kind = "Expr"
    BY <2>2, <2>5, ClonedOfLeaf
  <2>7. n \notin Cloned(r)
    BY <1>2, <2>3, <2>6
  <2>8. C = {n} \cup Cloned(r)
    BY <1>2, <2>1 DEF CopiesAt
  <2>9. r \in Pointers(heap[n])
    BY <2>1, <2>2 DEF Pointers
  <2> QED
    BY <1>2, <2>1, <2>3, <2>4, <2>7, <2>8, <2>9 DEF NodeParts
<1> QED
  BY <1>1, <1>2

\* What is allocated.
NodePairs(x) == UNION {{n} \X CopiesAt(n) : n \in {n \in Visited(x) : Projected(n)}}

\* What is allocated.
LEMMA NodeAllocated ==
  ASSUME Safe(heap, mine, lost), NEW x \in DOMAIN heap, heap[x].kind \in NodeKind, NodesOnly(x),
         NEW keep, keep = MadeNodes, NEW stop, stop = DroppedNodes, NEW P, P = NodePairs(x)
  PROVE  /\ \A n, m : In(P, n, m) <=> KeptSite(keep, stop, x, n) /\ m \in CopiesAt(n)
         /\ P \in SUBSET ((1..Len(heap)) \X (1..Len(heap)))
         /\ \A n : KeptSite(keep, stop, x, n) => NodeParts(n, CopiesAt(n))
<1>1. Visited(x) = Visit(stop, x)
  BY NodeSites
<1>2. Visit(stop, x) \subseteq DOMAIN heap /\ \A o \in Visit(stop, x) : heap[o].kind \in NodeKind
  BY VisitFacts
<1>3. \A n : n \in Visited(x) /\ Projected(n) <=> KeptSite(keep, stop, x, n)
  BY <1>1, <1>2 DEF KeptSite, MadeNodes
<1>4. \A n, m : In(P, n, m) <=> KeptSite(keep, stop, x, n) /\ m \in CopiesAt(n)
  BY <1>3 DEF In, NodePairs
<1>5. ASSUME NEW n, KeptSite(keep, stop, x, n) PROVE n \in DOMAIN heap /\ NodeParts(n, CopiesAt(n))
  <2>1. n \in DOMAIN heap /\ heap[n].kind \in NodeKind /\ n \in Visited(x)
    BY <1>1, <1>2, <1>5 DEF KeptSite
  <2>2. heap[n].kind = "Choice" => heap[n].one # 0 /\ Cloned(heap[n].one) \subseteq Live
    BY <2>1 DEF NodesOnly
  <2>3. PICK C : C = CopiesAt(n)
    OBVIOUS
  <2>4. NodeParts(n, C)
    BY <2>1, <2>2, <2>3, NodePartsFacts
  <2> QED
    BY <2>1, <2>3, <2>4
<1>6. DOMAIN heap = 1..Len(heap)
  BY PointersInHeap DEF Safe
<1>7. \A n : KeptSite(keep, stop, x, n) => CopiesAt(n) \subseteq DOMAIN heap
  BY <1>5 DEF NodeParts
<1>8. P \in SUBSET ((1..Len(heap)) \X (1..Len(heap)))
  BY <1>3, <1>5, <1>6, <1>7 DEF NodePairs
<1> QED
  BY <1>4, <1>5, <1>8
-----------------------------------------------------------------------------
NodeList(ids, n)  == ListOf(ids, Nearest(n))

\* Its names, copies and lists.
NodeNames(ids, n) == NamesOn(ids, n, CopiesAt(n))
NodeOwn(ids, n)   == Longer(CopyOf(n, NodeNames(ids, n), Kids(n)), NodeList(ids, n))
NewRole(own, new) == [own EXCEPT !.one = new[@]]
NodeCopy(ids, n, m) ==
  CASE n # m                          -> CopyOf(m, NodeNames(ids, n), {})
    [] n = m /\ heap[n].kind = "Choice" -> NewRole(NodeOwn(ids, n), NodeNames(ids, n))
    [] n = m /\ heap[n].kind # "Choice" -> NodeOwn(ids, n)
NodeTop(x, ids) ==
  IF Projected(x) THEN <<ids[<<x, x>>]>> ELSE IF heap[x].kind = "Block" THEN NodeList(ids, x) ELSE << >>
NodeCopies(ids) ==
  [i \in 1..Cardinality(DOMAIN ids) |-> LET p == AtId(ids, Fresh + i) IN NodeCopy(ids, p[1], p[2])]

\* ParamProjection is made of these parts.
LEMMA ParamProjectionIs ==
  ASSUME NEW x, NEW ids
  PROVE  ParamProjection(x, ids) = BlockAnd(New("Block", 0, NodeTop(x, ids)), NodeCopies(ids))
BY DEF ParamProjection, BlockAnd, NodeTop, NodeCopies, NodeCopy, NodeOwn, NewRole, NodeList, ListOf, NodeNames, NamesOn, Longer, Kids

\* The copy of a choice, with a role of its own.
IsChoice(v, one, list) ==
  /\ v \in Object /\ v.kind = "Choice" /\ v.live /\ v.one = one
  /\ Once(v.many) /\ Range(v.many) = Range(list) /\ Range(v.lent) = {}
  /\ Pointers(v) = (Range(list) \cup {one}) \ {0}

\* The choice gets the clone of its role.
LEMMA ChoiceCopy ==
  ASSUME Safe(heap, mine, lost), NEW n \in DOMAIN heap, heap[n].kind = "Choice", NEW r, r = heap[n].one, r # 0,
         NEW new, NewNames(new), r \in DOMAIN new,
         NEW dropped, dropped = Kids(n), NEW y, IsCopy(y, n, new, dropped), NEW list \in Seq(Nat), Once(list),
         NEW v, v = NewRole(Longer(y, list), new)
  PROVE  IsChoice(v, new[r], list)
<1>1. /\ heap[n].many \in Seq(Nat) /\ r \in DOMAIN heap /\ heap[r].kind \in HoldsOne("Choice")
      /\ \A p \in Range(heap[n].many) : heap[p].kind \in HoldsMany("Choice")
      /\ \A p \in Range(heap[n].lent) : heap[p].kind \in HoldsLent("Choice")
  BY ObjectFacts
<1>2. heap[r].kind = "Role" /\ Range(heap[n].lent) = {} /\ \A p \in Range(heap[n].many) : heap[p].kind \in NodeKind
  BY <1>1 DEF HoldsOne, HoldsMany, HoldsLent
<1>3. Kids(n) = {p \in Range(heap[n].many) : heap[p].kind \in NodeKind}
  BY KidsFacts
<1>4. Range(heap[n].many) \subseteq dropped /\ r \notin dropped
  BY <1>2, <1>3 DEF NodeKind, OrdinaryKind, ParamKind
<1>5. r \notin ClonedParts(n)
  BY DEF ClonedParts, SharedParts
<1>6. y \in Object /\ y.kind = "Choice" /\ y.live /\ y.one = r
  BY <1>4, <1>5 DEF IsCopy, Renamed
<1>7. y.many \in Seq(Nat) /\ Range(y.many) = {} /\ Range(y.lent) = {}
  BY <1>2, <1>4 DEF IsCopy, IsCopiedList
<1>8. Once(y.many)
  BY <1>7 DEF Once, Range
<1>9. PICK s : s = y.many \o list
  OBVIOUS
<1>10. s \in Seq(Nat) /\ Range(s) = Range(list) /\ Once(s)
  <2>1. PICK a \in Seq(Nat) : a = y.many
    BY <1>7
  <2>2. Range(a) \cap Range(list) = {} /\ Once(a) /\ s = a \o list
    BY <1>7, <1>8, <1>9, <2>1
  <2>3. s \in Seq(Nat) /\ Range(s) = Range(a) \cup Range(list) /\ Once(s)
    BY <2>2, CatRange
  <2> QED
    BY <1>7, <2>1, <2>3
<1>11. PICK x : x = [y EXCEPT !.many = s]
  OBVIOUS
<1>12. x \in Object /\ x.many = s /\ x.one = r /\ x.lent = y.lent /\ x.kind = "Choice" /\ x.live
  BY <1>6, <1>10, <1>11, RecordMany
<1>13. PICK one : one = new[r]
  OBVIOUS
<1>14. one \in Nat
  BY <1>13 DEF NewNames
<1>15. v = [x EXCEPT !.one = one]
  BY <1>9, <1>11, <1>12, <1>13 DEF Longer, NewRole
<1>16. v \in Object /\ v.one = one /\ v.many = s /\ v.lent = y.lent /\ v.kind = "Choice" /\ v.live
  BY <1>12, <1>14, <1>15, RecordOne
<1> QED
  BY <1>7, <1>10, <1>13, <1>16 DEF IsChoice, Pointers
-----------------------------------------------------------------------------
\* The copy of m that belongs to the copy of n.
NodeOf(v, new, list, n, m) ==
  /\ v \in Object /\ v.kind = heap[m].kind
  /\ n # m => IsCopy(v, m, new, {})
  /\ n = m /\ heap[n].kind = "Choice" => IsChoice(v, new[heap[n].one], list)
  /\ n = m /\ heap[n].kind # "Choice" => \E y : IsCopy(y, n, new, Kids(n)) /\ v = Longer(y, list)

\* What is copied at a node, class by class.
LEMMA NodeCopyFacts ==
  ASSUME Safe(heap, mine, lost), NEW ids, NEW n \in DOMAIN heap, NEW m \in DOMAIN heap,
         NEW C, NodeParts(n, C), NEW new, new = NodeNames(ids, n), NewNames(new), DOMAIN new = C,
         NEW list, list = NodeList(ids, n), list \in Seq(Nat), Once(list), NEW v, v = NodeCopy(ids, n, m)
  PROVE  NodeOf(v, new, list, n, m)
<1>1. CASE n # m
  <2>1. v = CopyOf(m, new, {})
    BY <1>1 DEF NodeCopy
  <2>2. PICK none : none = {}
    OBVIOUS
  <2>3. IsCopy(v, m, new, none)
    BY <2>1, <2>2, CopyFacts
  <2> QED
    BY <1>1, <2>2, <2>3 DEF NodeOf, IsCopy
<1>2. PICK dropped, y, own : dropped = Kids(n) /\ y = CopyOf(n, new, dropped) /\ own = Longer(y, list)
  OBVIOUS
<1>3. IsCopy(y, n, new, dropped)
  BY <1>2, CopyFacts
<1>4. CASE n = m /\ heap[n].kind = "Choice"
  <2>1. v = NewRole(Longer(y, list), new)
    BY <1>2, <1>4 DEF NodeCopy, NodeOwn
  <2>2. PICK r : r = heap[n].one
    OBVIOUS
  <2>3. r # 0 /\ r \in DOMAIN new
    <3>1. r \in C /\ r \in DOMAIN heap
      BY <1>4, <2>2 DEF NodeParts
    <3> QED
      BY <3>1, ObjectFacts
  <2>4. IsChoice(v, new[r], list)
    BY <1>2, <1>3, <1>4, <2>1, <2>2, <2>3, ChoiceCopy
  <2> QED
    BY <1>4, <2>2, <2>4 DEF NodeOf, IsChoice
<1>5. CASE n = m /\ heap[n].kind # "Choice"
  <2>1. v = Longer(y, list)
    BY <1>2, <1>5 DEF NodeCopy, NodeOwn
  <2>2. y \in Object /\ y.kind = heap[n].kind /\ y.many \in Seq(Nat)
    BY <1>3 DEF IsCopy, Object
  <2>3. v \in Object /\ v.kind = y.kind
    <3>1. PICK s : s = y.many \o list
      OBVIOUS
    <3>2. s \in Seq(Nat)
      BY <2>2, <3>1, CatRange
    <3>3. v = [y EXCEPT !.many = s]
      BY <2>1, <3>1 DEF Longer
    <3> QED
      BY <2>2, <3>2, <3>3, RecordMany
  <2> QED
    BY <1>2, <1>3, <1>5, <2>1, <2>2, <2>3 DEF NodeOf
<1> QED
  BY <1>1, <1>4, <1>5

\* What a for, a recursion or an allreduce is copied without.
LEMMA NodeDrops ==
  ASSUME Safe(heap, mine, lost), NEW n \in DOMAIN heap, heap[n].kind \in {"For", "AllReduce", "Recur"}
  PROVE  ClonedParts(n) \subseteq Kids(n)
<1>1. /\ Pointers(heap[n]) = (Range(heap[n].many) \cup {heap[n].one}) \ {0}
      /\ heap[n].one # 0 => heap[heap[n].one].kind \in HoldsOne(heap[n].kind)
      /\ \A p \in Range(heap[n].many) : heap[p].kind \in HoldsMany(heap[n].kind)
      /\ \A p \in Range(heap[n].lent) : heap[p].kind \in HoldsLent(heap[n].kind)
  BY ObjectFacts
<1>2. \A c \in Pointers(heap[n]) : heap[c].kind \in NodeKind => c \in Kids(n)
  BY KidsFacts
<1>3. CASE heap[n].kind = "For"
  <2>1. Range(heap[n].lent) = {} /\ \A p \in Pointers(heap[n]) : heap[p].kind \in NodeKind \cup {"Expr"}
    BY <1>1, <1>3 DEF HoldsOne, HoldsMany, HoldsLent
  <2>2. \A p \in ClonedParts(n) : p \in Pointers(heap[n]) /\ heap[p].kind # "Expr"
    BY <1>3, <2>1 DEF ClonedParts, SharedParts, PartsOf, PointersOf, Lent
  <2> QED
    BY <1>2, <2>1, <2>2
<1>4. CASE heap[n].kind = "AllReduce"
  <2>1. Pointers(heap[n]) = {}
    BY <1>1, <1>4 DEF HoldsOne, HoldsMany
  <2> QED
    BY <1>4, <2>1 DEF ClonedParts, SharedParts, PointersOf
<1>5. CASE heap[n].kind = "Recur"
  <2>1. Range(heap[n].lent) = {} /\ \A p \in Pointers(heap[n]) : heap[p].kind \in NodeKind
    BY <1>1, <1>5 DEF HoldsOne, HoldsMany, HoldsLent
  <2> QED
    BY <1>2, <2>1 DEF ClonedParts, PointersOf, Lent
<1> QED
  BY <1>3, <1>4, <1>5

\* The members of a parameterised projection, and what it has of the members.
LEMMA NodeMember ==
  ASSUME Safe(heap, mine, lost), NEW h2, NEW P, NEW ids, FamilyLaid(h2, P, ids), NEW n \in Live,
         heap[n].kind \in {"For", "AllReduce", "Recur", "Choice"},
         NEW C, NodeParts(n, C), NEW new, NewNames(new), SiteNames(new, P, ids, n), DOMAIN new = C,
         NEW S, NEW list, IsListOf(list, ids, S), NEW holder, SiteBelow(P, holder, n, S, Id(ids, n, n)),
         NEW m, In(P, n, m), m \in C, NodeOf(h2[Id(ids, n, m)], new, list, n, m), NEW L, L = {}, NEW mn2
  PROVE  /\ SiteMember(h2, mn2, P, ids, holder, L, n, m, Id(ids, n, m))
         /\ n # m => SiteHas(h2, ids, n, m, new, {})
         /\ n = m /\ heap[n].kind = "Choice" => new[heap[n].one] \in Pointers(h2[Id(ids, n, n)])
         /\ n = m => \A c \in S : Id(ids, c, c) \in Pointers(h2[Id(ids, n, n)])
<1>0. n \in DOMAIN heap
  BY DEF Live
<1>1. PICK o : o = Id(ids, n, m)
  OBVIOUS
<1>2. h2 \in Seq(Object) /\ SameKinds(heap, h2) /\ h2[o].kind = heap[m].kind
  BY <1>1 DEF FamilyLaid
<1>3. \A q \in DOMAIN new : In(P, n, q) /\ new[q] = Id(ids, n, q)
  BY DEF SiteNames
<1>4. SameKind(h2, new)
  BY <1>3 DEF SameKind, FamilyLaid
<1>5. Range(list) = {Id(ids, c, c) : c \in S} /\ Once(list) /\ list \in Seq(Nat)
  BY DEF IsListOf
<1>6. CASE n # m
  <2>1. m \in Live /\ \A q \in ClonedParts(m) : q \in DOMAIN new /\ q # n
    BY <1>6 DEF NodeParts
  <2>2. PICK none : none = {}
    OBVIOUS
  <2>3. IsCopy(h2[o], m, new, none)
    BY <1>1, <1>6, <2>2 DEF NodeOf
  <2>4. SiteMember(h2, mn2, P, ids, holder, L, n, m, o) /\ CopyPoints(h2[o], m, new, none)
    BY <1>2, <1>4, <2>1, <2>2, <2>3, MemberCopy
  <2>5. SiteHas(h2, ids, n, m, new, {})
    BY <1>1, <1>2, <2>2, <2>4 DEF SiteHas
  <2> QED
    BY <1>1, <1>6, <2>4, <2>5
<1>7. CASE n = m /\ heap[n].kind = "Choice"
  <2>1. PICK r, one : r = heap[n].one /\ one = new[r]
    OBVIOUS
  <2>2. r \in DOMAIN new /\ r # n /\ r \in Pointers(heap[n]) /\ heap[r].kind = "Role"
    BY <1>7, <2>1 DEF NodeParts
  <2>3. one = Id(ids, n, r) /\ In(P, n, r)
    BY <1>3, <2>1, <2>2
  <2>4. /\ one \in DOMAIN h2 /\ h2[one].kind = "Role"
    BY <2>2, <2>3 DEF FamilyLaid
  <2>5. IsChoice(h2[o], one, list)
    BY <1>1, <1>7, <2>1 DEF NodeOf
  <2>6. /\ h2[o].live /\ h2[o].kind = "Choice" /\ Range(h2[o].lent) = {}
        /\ Pointers(h2[o]) = (Range(list) \cup {one}) \ {0}
        /\ h2[o].one = one /\ Range(h2[o].many) = Range(list) /\ Once(h2[o].many)
    BY <2>5 DEF IsChoice
  <2>7. \A p \in Range(list) : \E c \in S : p = Id(ids, c, c) /\ In(P, c, c) /\ holder[c] = o /\ heap[c].kind \in NodeKind
    BY <1>1, <1>5, <1>7 DEF SiteBelow
  <2>8. \A p \in Range(list) : p \in DOMAIN h2 /\ h2[p].kind \in NodeKind /\ p # 0
    <3>1. \A p \in Range(list) : p \in DOMAIN h2 /\ h2[p].kind \in NodeKind
      BY <2>7 DEF FamilyLaid
    <3>2. 0 \notin DOMAIN h2
      BY <1>2
    <3> QED
      BY <3>1, <3>2
  <2>9. "Role" \notin NodeKind /\ HoldsOne("Choice") = {"Role"} /\ HoldsMany("Choice") = NodeKind
    BY DEF NodeKind, OrdinaryKind, ParamKind, HoldsOne, HoldsMany
  <2>10. one \notin Range(list) /\ one # 0
    <3>1. 0 \notin DOMAIN h2
      BY <1>2
    <3> QED
      BY <2>4, <2>8, <2>9, <3>1
  <2>11. Fit(h2, h2[o])
    <3>1. Holds(h2, {one}, HoldsOne("Choice")) /\ Holds(h2, Range(list), HoldsMany("Choice"))
      BY <2>4, <2>8, <2>9 DEF Holds
    <3>2. Holds(h2, Range(h2[o].lent), HoldsLent("Choice"))
      BY <2>6 DEF Holds
    <3> QED
      BY <2>6, <2>10, <3>1, <3>2 DEF Fit, Once
  <2>12. \A p \in Pointers(h2[o]) :
           \/ \E q \in Pointers(heap[m]) : q # n /\ In(P, n, q) /\ p = Id(ids, n, q)
           \/ \E k : In(P, k, k) /\ k \notin L /\ p = Id(ids, k, k) /\ holder[k] = o
    BY <1>7, <2>2, <2>3, <2>6, <2>7
  <2>13. SiteMember(h2, mn2, P, ids, holder, L, n, m, o)
    BY <2>6, <2>11, <2>12 DEF SiteMember
  <2>14. one \in Pointers(h2[o]) /\ \A c \in S : Id(ids, c, c) \in Pointers(h2[o])
    BY <1>5, <2>6, <2>8, <2>10
  <2> QED
    BY <1>1, <1>7, <2>1, <2>13, <2>14
<1>8. CASE n = m /\ heap[n].kind # "Choice"
  <2>1. PICK dropped : dropped = Kids(n)
    OBVIOUS
  <2>2. PICK y : IsCopy(y, n, new, dropped) /\ h2[o] = Longer(y, list)
    BY <1>1, <1>8, <2>1 DEF NodeOf
  <2>3. \A q \in ClonedParts(n) : q # n /\ (q \in dropped \/ q \in DOMAIN new)
    <3>1. ClonedParts(n) \subseteq dropped
      BY <1>0, <1>8, <2>1, NodeDrops
    <3>2. n \notin ClonedParts(n)
      <4>1. n \in Cloned(n)
        BY <1>0, ClonedFacts
      <4> QED
        BY <1>0, <4>1, NotInOwn
    <3> QED
      BY <3>1, <3>2
  <2>4. heap[n].kind = "Interaction" => \A p \in Range(heap[n].many) : heap[p].kind = "Msg" => p \notin dropped
    OBVIOUS
  <2>5. SiteBelow(P, holder, n, S, o)
    BY <1>1, <1>8
  <2>6. /\ SiteMember(h2, mn2, P, ids, holder, L, n, n, o)
        /\ IsLonger(h2[o], y, list)
    BY <2>2, <2>3, <2>4, <2>5, SiteOwn
  <2>7. Pointers(h2[o]) = Pointers(y) \cup Range(list)
    BY <2>6 DEF IsLonger
  <2>8. \A c \in S : Id(ids, c, c) \in Pointers(h2[o])
    BY <1>5, <2>7
  <2> QED
    BY <1>1, <1>8, <2>6, <2>8
<1> QED
  BY <1>6, <1>7, <1>8
-----------------------------------------------------------------------------
\* A parameterised projection of nodes.
LEMMA NodesSafe ==
  ASSUME Safe(heap, mine, lost), NEW x \in Live, heap[x].kind \in NodeKind, NodesOnly(x),
         NEW h2, h2 = heap \o ParamProjection(x, IdsOf(NodePairs(x))), NEW mn2, mn2 = mine \cup {Fresh}
  PROVE  Safe(h2, mn2, lost) /\ Alive(h2)
<1>0. x \in DOMAIN heap /\ heap \in Seq(Object) /\ Fresh \notin DOMAIN heap
  <2>1. x \in DOMAIN heap /\ heap \in Seq(Object)
    BY DEF Live, Safe, Formed
  <2> QED
    BY <2>1 DEF Fresh
<1>1. PICK P, ids, count, keep, stop, L, X :
        /\ P = NodePairs(x) /\ ids = IdsOf(P) /\ count = Cardinality(P)
        /\ keep = MadeNodes /\ stop = DroppedNodes /\ L = {} /\ X = {Fresh}
  OBVIOUS
<1>2. /\ Visited(x) = Visit(stop, x) /\ \A n \in DOMAIN heap : Nearest(n) = Beneath(keep, stop, n)
      /\ keep \cap stop = {}
  BY <1>1, NodeSites
<1>3. /\ \A n, m : In(P, n, m) <=> KeptSite(keep, stop, x, n) /\ m \in CopiesAt(n)
      /\ P \in SUBSET ((1..Len(heap)) \X (1..Len(heap)))
      /\ \A n : KeptSite(keep, stop, x, n) => NodeParts(n, CopiesAt(n))
  BY <1>0, <1>1, NodeAllocated
<1>4. Numbered(P, ids, count)
  BY <1>0, <1>1, <1>3, NumberedFacts
<1>5. PICK holder : holder = HolderOf(keep, stop, x, ids)
  OBVIOUS
<1>6. HolderIs(keep, stop, x, ids, holder)
  BY <1>0, <1>2, <1>5, HolderFacts
<1>7. \A n : KeptSite(keep, stop, x, n) => n \in DOMAIN heap /\ heap[n].kind \in NodeKind
  BY <1>6 DEF HolderIs
<1>8. \A n : KeptSite(keep, stop, x, n) => In(P, n, n)
  BY <1>3 DEF NodeParts
<1>9. InHeap(P)
  BY <1>3, <1>7 DEF InHeap, NodeParts
<1>10. \A n, m : In(P, n, m) => Id(ids, n, m) \in Nat
  BY <1>4 DEF Numbered, In, Id
<1>11. \A n, m, k, l : In(P, n, m) /\ In(P, k, l) /\ Id(ids, n, m) = Id(ids, k, l) => n = k /\ m = l
  <2>1. \A p, q \in P : ids[p] = ids[q] => p = q
    BY <1>4 DEF Numbered
  <2> QED
    BY <2>1 DEF In, Id
<1>12. ASSUME NEW n \in DOMAIN heap, \A c \in Beneath(keep, stop, n) : KeptSite(keep, stop, x, c)
       PROVE  IsListOf(NodeList(ids, n), ids, Beneath(keep, stop, n))
  <2>1. PICK S, list : S \in SUBSET DOMAIN heap /\ S = Beneath(keep, stop, n) /\ list = NodeList(ids, n)
    BY <1>12, <1>7
  <2>2. list = ListOf(ids, S)
    BY <1>2, <2>1 DEF NodeList
  <2>3. \A c \in S : Id(ids, c, c) \in Nat
    BY <1>8, <1>10, <1>12, <2>1
  <2>4. \A c, d \in S : Id(ids, c, c) = Id(ids, d, d) => c = d
    BY <1>8, <1>11, <1>12, <2>1
  <2>5. IsListOf(list, ids, S)
    BY <1>0, <2>1, <2>2, <2>3, <2>4, ListOfFacts
  <2> QED
    BY <2>1, <2>5
<1>13. ASSUME NEW n, KeptSite(keep, stop, x, n)
       PROVE  /\ \A c \in Beneath(keep, stop, n) : KeptSite(keep, stop, x, c) /\ holder[c] = Id(ids, n, n)
              /\ IsListOf(NodeList(ids, n), ids, Beneath(keep, stop, n))
  <2>1. \A c \in Beneath(keep, stop, n) : KeptSite(keep, stop, x, c) /\ holder[c] = Id(ids, n, n)
    BY <1>6, <1>13 DEF HolderIs
  <2> QED
    BY <1>7, <1>12, <1>13, <2>1
<1>14. ASSUME NEW n, KeptSite(keep, stop, x, n)
       PROVE  NamesFor(NodeNames(ids, n), P, ids, n, CopiesAt(n))
  <2>1. PICK C, new : C = CopiesAt(n) /\ new = NamesOn(ids, n, C)
    OBVIOUS
  <2>2. \A q \in C : In(P, n, q)
    BY <1>3, <1>14, <2>1
  <2>3. NamesFor(new, P, ids, n, C)
    BY <1>4, <1>9, <2>1, <2>2, NamesAtFacts
  <2> QED
    BY <2>1, <2>3 DEF NodeNames
<1>15. ASSUME NEW n, NEW m, In(P, n, m)
       PROVE  NodeOf(NodeCopy(ids, n, m), NodeNames(ids, n), NodeList(ids, n), n, m)
  <2>1. KeptSite(keep, stop, x, n) /\ n \in DOMAIN heap /\ m \in DOMAIN heap
    BY <1>3, <1>9, <1>15 DEF InHeap
  <2>2. PICK new, list, v, C : /\ new = NodeNames(ids, n) /\ list = NodeList(ids, n) /\ v = NodeCopy(ids, n, m)
                               /\ C = CopiesAt(n)
    OBVIOUS
  <2>3. NewNames(new) /\ DOMAIN new = C
    BY <1>14, <2>1, <2>2 DEF NamesFor
  <2>4. list \in Seq(Nat) /\ Once(list)
    BY <1>13, <2>1, <2>2 DEF IsListOf
  <2>5. NodeParts(n, C)
    BY <1>3, <2>1, <2>2
  <2>6. NodeOf(v, new, list, n, m)
    BY <2>1, <2>2, <2>3, <2>4, <2>5, NodeCopyFacts
  <2> QED
    BY <2>2, <2>6
<1>16. PICK top, block, copies : /\ top = NodeTop(x, ids) /\ block = New("Block", 0, top)
                                 /\ copies = NodeCopies(ids)
  OBVIOUS
<1>17. IsListOf(top, ids, TopOf(keep, stop, x))
  <2>1. \A n \in TopOf(keep, stop, x) : KeptSite(keep, stop, x, n)
    BY <1>6 DEF HolderIs
  <2>2. (Projected(x) <=> x \in keep) /\ (heap[x].kind \in {"Oneof", "If"} <=> x \in stop)
    BY <1>0, <1>1 DEF MadeNodes, DroppedNodes
  <2>3. CASE x \in keep
    <3>1. TopOf(keep, stop, x) = {x} /\ top = <<ids[<<x, x>>]>>
      BY <1>16, <2>2, <2>3 DEF TopOf, NodeTop
    <3>2. Id(ids, x, x) \in Nat
      BY <1>8, <1>10, <2>1, <3>1
    <3> QED
      BY <3>1, <3>2, ListOfOne
  <2>4. CASE x \notin keep /\ x \notin stop
    <3>1. heap[x].kind = "Block" /\ ~Projected(x)
      BY <2>2, <2>4 DEF Projected
    <3>2. TopOf(keep, stop, x) = Beneath(keep, stop, x) /\ top = NodeList(ids, x)
      BY <1>16, <2>4, <3>1 DEF TopOf, NodeTop
    <3> QED
      BY <1>0, <1>12, <2>1, <3>2
  <2>5. CASE x \notin keep /\ x \in stop
    <3>1. heap[x].kind # "Block" /\ ~Projected(x)
      BY <2>2, <2>5
    <3>2. TopOf(keep, stop, x) = {} /\ top = << >>
      BY <1>16, <2>5, <3>1 DEF TopOf, NodeTop
    <3>3. top \in Seq(Nat) /\ Range(top) = {} /\ Once(top)
      BY <3>2, RangeNone DEF Once
    <3> QED
      BY <3>2, <3>3 DEF IsListOf
  <2> QED
    BY <2>3, <2>4, <2>5
<1>18. block \in Object
  <2>1. "Block" \in AnyKind /\ 0 \in Nat /\ top \in Seq(Nat)
    BY <1>17 DEF AnyKind, NodeKind, OrdinaryKind, IsListOf
  <2>2. IsNew(block, "Block", 0, top)
    BY <1>16, <2>1, NewFacts
  <2> QED
    BY <2>2 DEF IsNew
<1>19. /\ DOMAIN copies = 1..count
       /\ \A i \in 1..count : copies[i] = NodeCopy(ids, AtId(ids, Fresh + i)[1], AtId(ids, Fresh + i)[2])
  <2>1. Cardinality(DOMAIN ids) = count
    BY <1>1, <1>4 DEF Numbered
  <2> QED
    BY <1>16, <2>1 DEF NodeCopies
<1>20. ASSUME NEW p \in P
       PROVE  p = <<p[1], p[2]>> /\ In(P, p[1], p[2]) /\ ids[p] = Id(ids, p[1], p[2])
  <2>1. p = <<p[1], p[2]>>
    BY <1>3
  <2> QED
    BY <2>1 DEF In, Id
<1>21. copies \in [1..count -> Object]
  <2>1. ASSUME NEW i \in 1..count PROVE copies[i] \in Object
    <3>1. PICK p \in P : p = AtId(ids, Fresh + i)
      BY <1>4 DEF Numbered
    <3>2. copies[i] = NodeCopy(ids, p[1], p[2]) /\ In(P, p[1], p[2])
      BY <1>19, <1>20, <3>1
    <3> QED
      BY <1>15, <3>2 DEF NodeOf
  <2>2. copies = [i \in 1..count |-> copies[i]]
    <3>1. copies = [i \in DOMAIN copies |-> copies[i]]
      BY <1>16 DEF NodeCopies
    <3> QED
      BY <1>19, <3>1
  <2> QED
    BY <2>1, <2>2
<1>22. Laid(h2, P, ids, block, copies)
  <2>1. h2 = heap \o BlockAnd(block, copies)
    BY <1>1, <1>16, ParamProjectionIs
  <2> QED
    BY <1>0, <1>4, <1>18, <1>21, <2>1, LaidFacts
<1>23. /\ h2 \in Seq(Object) /\ DOMAIN heap \subseteq DOMAIN h2 /\ \A o \in DOMAIN heap : h2[o] = heap[o]
       /\ Fresh \in DOMAIN h2 /\ h2[Fresh] = block
       /\ \A o \in DOMAIN h2 \ DOMAIN heap : o = Fresh \/ \E n, m : In(P, n, m) /\ o = Id(ids, n, m)
  BY <1>20, <1>22 DEF Laid
<1>24. ASSUME NEW n, NEW m, In(P, n, m)
       PROVE  /\ Id(ids, n, m) \in DOMAIN h2 /\ Id(ids, n, m) \notin DOMAIN heap /\ Id(ids, n, m) # Fresh
              /\ h2[Id(ids, n, m)] = NodeCopy(ids, n, m)
  <2>1. PICK p \in P : p = <<n, m>>
    BY <1>24 DEF In
  <2>2. p[1] = n /\ p[2] = m /\ ids[p] = Id(ids, n, m)
    BY <2>1 DEF Id
  <2>3. /\ ids[p] - Fresh \in 1..count /\ Fresh + (ids[p] - Fresh) = ids[p] /\ AtId(ids, ids[p]) = p
        /\ ids[p] # Fresh /\ ids[p] \notin DOMAIN heap
    BY <1>4 DEF Numbered
  <2>4. ids[p] \in DOMAIN h2 /\ h2[ids[p]] = copies[ids[p] - Fresh]
    BY <1>22 DEF Laid
  <2>5. copies[ids[p] - Fresh] = NodeCopy(ids, p[1], p[2])
    BY <1>19, <2>3
  <2> QED
    BY <2>2, <2>3, <2>4, <2>5
<1>25. ASSUME NEW n, NEW m, In(P, n, m)
       PROVE  /\ NodeOf(h2[Id(ids, n, m)], NodeNames(ids, n), NodeList(ids, n), n, m)
              /\ h2[Id(ids, n, m)].kind = heap[m].kind
  BY <1>15, <1>24, <1>25 DEF NodeOf
<1>26. FamilyLaid(h2, P, ids)
  <2>1. SameKinds(heap, h2)
    BY <1>23 DEF SameKinds
  <2> QED
    BY <1>9, <1>11, <1>23, <1>24, <1>25, <2>1 DEF FamilyLaid, InHeap
<1>27. Extends(h2, P, ids, X)
  BY <1>0, <1>1, <1>23, <1>24 DEF Extends
<1>28. ProjectionFamily(h2, keep, stop, x, P, ids)
  <2>1. \A n, m : In(P, n, m) => KeptSite(keep, stop, x, n) /\ m \in DOMAIN heap
    BY <1>3, <1>9 DEF InHeap
  <2> QED
    BY <1>8, <1>11, <1>24, <1>25, <2>1 DEF ProjectionFamily
<1>29. ASSUME NEW n, KeptSite(keep, stop, x, n), NEW m, In(P, n, m)
       PROVE  /\ SiteMember(h2, mn2, P, ids, holder, L, n, m, Id(ids, n, m))
              /\ n # m => SiteHas(h2, ids, n, m, NodeNames(ids, n), {})
              /\ n = m /\ heap[n].kind = "Choice" => NodeNames(ids, n)[heap[n].one] \in Pointers(h2[Id(ids, n, n)])
              /\ n = m => \A c \in Beneath(keep, stop, n) : Id(ids, c, c) \in Pointers(h2[Id(ids, n, n)])
  <2>1. n \in DOMAIN heap /\ heap[n].kind \in NodeKind /\ n \in keep /\ n \in Visit(stop, x)
    BY <1>7, <1>29 DEF KeptSite
  <2>2. n \in Live
    <3>1. Visit(stop, x) \subseteq Live
      BY VisitLive
    <3> QED
      BY <2>1, <3>1
  <2>3. heap[n].kind \in {"For", "AllReduce", "Recur", "Choice"}
    BY <1>1, <1>2, <2>1 DEF NodesOnly, MadeNodes, Projected, ParamKind
  <2>4. PICK new, list, S, C : /\ new = NodeNames(ids, n) /\ list = NodeList(ids, n) /\ S = Beneath(keep, stop, n)
                               /\ C = CopiesAt(n)
    OBVIOUS
  <2>5. NewNames(new) /\ SiteNames(new, P, ids, n) /\ DOMAIN new = C
    BY <1>14, <1>29, <2>4 DEF NamesFor
  <2>6. IsListOf(list, ids, S)
    BY <1>13, <1>29, <2>4
  <2>7. SiteBelow(P, holder, n, S, Id(ids, n, n))
    <3>1. S # {} => heap[n].kind \in BlockKind
      BY <2>1, <2>4, BelowBlock
    <3>2. \A c \in S : KeptSite(keep, stop, x, c) /\ holder[c] = Id(ids, n, n)
      BY <1>13, <1>29, <2>4
    <3>3. \A c \in S : In(P, c, c) /\ heap[c].kind \in NodeKind
      BY <1>7, <1>8, <3>2
    <3> QED
      BY <3>1, <3>2, <3>3 DEF SiteBelow
  <2>8. m \in C /\ NodeOf(h2[Id(ids, n, m)], new, list, n, m) /\ NodeParts(n, C)
    BY <1>3, <1>25, <1>29, <2>4
  <2>9. /\ SiteMember(h2, mn2, P, ids, holder, L, n, m, Id(ids, n, m))
        /\ n # m => SiteHas(h2, ids, n, m, new, {})
        /\ n = m /\ heap[n].kind = "Choice" => new[heap[n].one] \in Pointers(h2[Id(ids, n, n)])
        /\ n = m => \A c \in S : Id(ids, c, c) \in Pointers(h2[Id(ids, n, n)])
    BY <1>1, <1>26, <1>29, <2>2, <2>3, <2>5, <2>6, <2>7, <2>8, NodeMember
  <2> QED
    BY <2>4, <2>9
<1>30. ProjectionBlock(h2, keep, stop, x, ids)
  <2>1. PICK T : T = TopOf(keep, stop, x)
    OBVIOUS
  <2>2. \A c \in T : In(P, c, c) /\ heap[c].kind \in NodeKind
    BY <1>6, <1>7, <1>8, <2>1 DEF HolderIs
  <2>3. \A c \in T : Id(ids, c, c) \in DOMAIN h2 /\ h2[Id(ids, c, c)].kind \in NodeKind
    BY <1>26, <2>2 DEF FamilyLaid
  <2>4. BlockOf(h2, block, T, ids)
    BY <1>16, <1>17, <1>23, <2>1, <2>3, BlockOfFacts
  <2>5. \A n : KeptSite(keep, stop, x, n) =>
           \A c \in Beneath(keep, stop, n) : Id(ids, c, c) \in Pointers(h2[Id(ids, n, n)])
    BY <1>8, <1>29
  <2> QED
    BY <1>23, <2>1, <2>4, <2>5 DEF BlockOf, ProjectionBlock
<1>31. \A n, m : In(P, n, m) => SiteMember(h2, mn2, P, ids, holder, L, n, m, Id(ids, n, m))
  BY <1>3, <1>29
<1>32. ASSUME NEW n, NEW m, In(P, n, m), n # m PROVE Found(h2, mn2, lost, Id(ids, n, m))
  <2>1. KeptSite(keep, stop, x, n) /\ m \in CopiesAt(n) /\ n \in DOMAIN heap
    BY <1>3, <1>7, <1>32
  <2>2. PICK C : C = CopiesAt(n) /\ NodeParts(n, C)
    BY <1>3, <2>1
  <2>3. heap[n].kind = "Choice" /\ m \in C
    BY <1>32, <2>1, <2>2 DEF NodeParts
  <2>4. PICK new : new = NodeNames(ids, n)
    OBVIOUS
  <2>5. SiteNames(new, P, ids, n) /\ DOMAIN new = C
    BY <1>14, <2>1, <2>2, <2>4 DEF NamesFor
  <2>6. CASE m = heap[n].one
    <3>1. new[m] \in Pointers(h2[Id(ids, n, n)]) /\ In(P, n, n)
      BY <1>8, <1>29, <2>1, <2>3, <2>4, <2>6
    <3>2. new[m] = Id(ids, n, m)
      BY <2>3, <2>5 DEF SiteNames
    <3>3. Id(ids, n, n) \in DOMAIN h2
      BY <1>24, <3>1
    <3> QED
      BY <3>1, <3>2, <3>3 DEF Found
  <2>7. CASE m # heap[n].one
    <3>1. PICK k \in C \ {n} : m \in ClonedParts(k)
      BY <1>32, <2>2, <2>3, <2>7 DEF NodeParts
    <3>2. In(P, n, k)
      BY <1>3, <2>1, <2>2, <3>1
    <3>3. PICK none : none = {}
      OBVIOUS
    <3>4. SiteHas(h2, ids, n, k, new, none)
      BY <1>29, <2>1, <2>4, <3>1, <3>2, <3>3
    <3>5. m \in DOMAIN new /\ m \notin none
      BY <2>3, <2>5, <3>3
    <3> QED
      BY <1>26, <2>5, <3>1, <3>2, <3>4, <3>5, SiteFound
  <2> QED
    BY <2>6, <2>7
<1>33. Safe(h2, mn2, lost)
  BY <1>0, <1>1, <1>2, <1>5, <1>27, <1>28, <1>30, <1>31, <1>32, WalkStep
<1> QED
  BY <1>23, <1>33 DEF Alive

\* st_param_node_project of nodes.
NodesProjected(x) ==
  /\ Running /\ NodesOnly(x)
  /\ heap' = HeapAnd(ParamProjection(x, IdsOf(NodePairs(x)))) /\ mine' = mine \cup {Fresh}
  /\ profile' = profile /\ lost' = lost /\ ub' = ub

\* The parameterised projection of a tree without messages.
LEMMA ProjectNodesStep ==
  ASSUME IInv, ProjectNodes, UNCHANGED <<kept, due>>
  PROVE  IInv' /\ (ub' = Defined => Spares)
<1>1. PICK kinds : kinds = ParamKind \cup {"Block", "Choice", "Recur"}
  OBVIOUS
<1>2. PICK x \in Named(kinds) : NodesProjected(x)
  <2>1. PICK x \in Named(kinds) :
          /\ Running
          /\ \A o \in Visited(x) : heap[o].kind \in ParamKind \cup {"Block", "Choice", "Recur"}
          /\ \A o \in Visited(x) : heap[o].kind = "Choice" => heap[o].one # 0 /\ Cloned(heap[o].one) \subseteq Live
          /\ heap' = heap \o ParamProjection(x, IdsOf(NodePairs(x)))
          /\ Keep(Fresh, {})
          /\ UNCHANGED <<profile, lost, ub>>
    BY <1>1 DEF ProjectNodes, NodePairs
  <2>2. NodesOnly(x)
    BY <2>1 DEF NodesOnly
  <2>3. heap' = HeapAnd(ParamProjection(x, IdsOf(NodePairs(x))))
    BY <2>1 DEF HeapAnd
  <2>4. mine' = mine \cup {Fresh}
    BY <2>1 DEF Keep
  <2> QED
    BY <2>1, <2>2, <2>3, <2>4 DEF NodesProjected
<1>3. ub = Defined /\ Safe(heap, mine, lost)
  BY <1>2 DEF NodesProjected, Running, IInv
<1>4. x \in Live /\ heap[x].kind \in kinds
  BY <1>3, LiveNamed
<1>5. heap[x].kind \in NodeKind
  BY <1>1, <1>4 DEF NodeKind, OrdinaryKind
<1>6. PICK h2, mn2 : h2 = heap \o ParamProjection(x, IdsOf(NodePairs(x))) /\ mn2 = mine \cup {Fresh}
  OBVIOUS
<1>7. NodesOnly(x) /\ heap' = h2 /\ mine' = mn2 /\ profile' = profile /\ lost' = lost /\ ub' = ub
  BY <1>2, <1>6 DEF NodesProjected, HeapAnd
<1>8. Safe(h2, mn2, lost) /\ Alive(h2)
  BY <1>3, <1>4, <1>5, <1>6, <1>7, NodesSafe
<1> QED
  BY <1>3, <1>7, <1>8, SafeNext, AliveSpares
-----------------------------------------------------------------------------
\* The parts of an interaction are leaves, and theirs are expressions.
LEMMA InteractionParts ==
  ASSUME Safe(heap, mine, lost), NEW n \in DOMAIN heap, heap[n].kind = "Interaction"
  PROVE  /\ \A k \in Cloned(n) : k = n \/ heap[k].kind \in LeafKind
         /\ \A k \in Cloned(n) : k # n => \A p \in ClonedParts(k) : heap[p].kind = "Expr"
         /\ \A p \in Pointers(heap[n]) \cup Range(heap[n].lent) : p \in ClonedParts(n) /\ p \in Cloned(n)
<1>1. /\ \A p \in Range(heap[n].many) : heap[p].kind \in HoldsMany("Interaction")
      /\ \A p \in Range(heap[n].lent) : heap[p].kind \in HoldsLent("Interaction")
      /\ heap[n].one # 0 => heap[heap[n].one].kind \in HoldsOne("Interaction")
      /\ Pointers(heap[n]) = (Range(heap[n].many) \cup {heap[n].one}) \ {0}
  BY ObjectFacts
<1>2. \A p \in Pointers(heap[n]) \cup Range(heap[n].lent) : heap[p].kind \in LeafKind
  BY <1>1 DEF HoldsOne, HoldsMany, HoldsLent, LeafKind
<1>3. PICK S \in SUBSET DOMAIN heap : S = {n} \cup {q \in DOMAIN heap : heap[q].kind \in LeafKind}
  OBVIOUS
<1>4. Formed(heap)
  BY DEF Safe
<1>5. ASSUME NEW m \in S PROVE ClonedParts(m) \subseteq S
  <2> SUFFICES ASSUME NEW p \in ClonedParts(m) PROVE p \in S
    OBVIOUS
  <2>1. /\ p \in DOMAIN heap
        /\ p \in Pointers(heap[m]) \/ (heap[m].kind = "Interaction" /\ p \in Range(heap[m].lent))
    BY <1>4, ClonedPartKinds
  <2>2. CASE m = n
    BY <1>2, <1>3, <2>1, <2>2
  <2>3. CASE m # n
    <3>1. heap[m].kind \in LeafKind /\ m \in DOMAIN heap
      BY <1>3, <2>3
    <3>2. p \in Pointers(heap[m])
      BY <2>1, <3>1 DEF LeafKind
    <3>3. heap[p].kind \in LeafKind
      BY <1>4, <3>1, <3>2, LeavesHold
    <3> QED
      BY <1>3, <2>1, <3>3
  <2> QED
    BY <2>2, <2>3
<1>6. /\ Cloned(n) \in SUBSET DOMAIN heap /\ n \in Cloned(n) /\ \A m \in Cloned(n) : ClonedParts(m) \subseteq Cloned(n)
      /\ n \in S /\ (\A m \in S : ClonedParts(m) \subseteq S) => Cloned(n) \subseteq S
  BY ClonedFacts
<1>7. Cloned(n) \subseteq S
  BY <1>3, <1>5, <1>6
<1>8. ASSUME NEW k \in Cloned(n), k # n, NEW p \in ClonedParts(k) PROVE heap[p].kind = "Expr"
  <2>1. k \in DOMAIN heap /\ heap[k].kind \in LeafKind
    BY <1>3, <1>6, <1>7, <1>8
  <2>2. k \in Cloned(k)
    BY <2>1, ClonedFacts
  <2>3. \A m \in Cloned(k) : \A q \in ClonedParts(m) : q \in Pointers(heap[m]) /\ heap[q].kind = "Expr"
    BY <2>1, ClonedOfLeaf
  <2> QED
    BY <1>8, <2>2, <2>3
<1>9. \A p \in Pointers(heap[n]) \cup Range(heap[n].lent) : p \in ClonedParts(n)
  BY DEF ClonedParts, SharedParts, LeftOut, PointersOf, Lent
<1> QED
  BY <1>3, <1>6, <1>7, <1>8, <1>9

\* The receivers or the sender, and the old condition, are left out.
DropsFor(n, r) == Lent(n) \cup (IF r = heap[n].one THEN {r} ELSE Rcvrs(n))

\* What is dropped of a message is roles.
DropsRoles(n, dropped) ==
  /\ \A p \in dropped : p \in DOMAIN heap /\ heap[p].kind = "Role"
  /\ Range(heap[n].lent) \subseteq dropped

\* That is so for an endpoint that sends or receives.
LEMMA DropsForRoles ==
  ASSUME Safe(heap, mine, lost), NEW n \in DOMAIN heap, heap[n].kind = "Interaction", heap[n].one # 0,
         NEW r \in Rcvrs(n) \cup ({heap[n].one} \ {0}), NEW dropped, dropped = DropsFor(n, r)
  PROVE  DropsRoles(n, dropped) /\ r \in DOMAIN heap /\ heap[r].kind = "Role" /\ r \in Pointers(heap[n])
<1>1. /\ Range(heap[n].many) \subseteq DOMAIN heap /\ Range(heap[n].lent) \subseteq DOMAIN heap
      /\ \A p \in Range(heap[n].lent) : heap[p].kind \in HoldsLent("Interaction")
      /\ heap[n].one \in DOMAIN heap /\ heap[heap[n].one].kind \in HoldsOne("Interaction")
      /\ Pointers(heap[n]) = (Range(heap[n].many) \cup {heap[n].one}) \ {0} /\ 0 \notin DOMAIN heap
  BY ObjectFacts
<1>2. \A p \in Rcvrs(n) : p \in Range(heap[n].many) /\ p \in DOMAIN heap /\ heap[p].kind = "Role"
  BY <1>1 DEF Rcvrs
<1>3. heap[heap[n].one].kind = "Role" /\ \A p \in Range(heap[n].lent) : heap[p].kind = "Role"
  BY <1>1 DEF HoldsOne, HoldsLent
<1> QED
  BY <1>1, <1>2, <1>3 DEF DropsFor, DropsRoles, Lent

\* The copy for an endpoint, in a block.
IsCopyFor(g, n, C, new, dropped) ==
  /\ g \in Seq(Object) /\ DOMAIN heap \subseteq DOMAIN g /\ \A o \in DOMAIN heap : g[o] = heap[o]
  /\ Fresh \in DOMAIN g /\ Fresh \notin DOMAIN heap
  /\ NewNames(new) /\ DOMAIN new = C
  /\ g[Fresh].kind = "Block" /\ g[Fresh].live /\ Range(g[Fresh].lent) = {} /\ Pointers(g[Fresh]) = {new[n]}
  /\ g[Fresh].one = 0 /\ Range(g[Fresh].many) = {new[n]} /\ Once(g[Fresh].many)
  /\ \A m \in C : new[m] \in DOMAIN g /\ new[m] \notin DOMAIN heap /\ new[m] # Fresh /\ IsCopy(g[new[m]], m, new, dropped)
  /\ \A o \in DOMAIN g \ DOMAIN heap : o = Fresh \/ \E m \in C : o = new[m]

\* What CopyFor makes.
LEMMA CopyForFacts ==
  ASSUME Safe(heap, mine, lost), NEW n \in DOMAIN heap, NEW r, NEW dropped, dropped = DropsFor(n, r),
         NEW C, C = ClonedBut(n, dropped), NEW new, new = Ranked(Fresh, C), NEW g, g = CopyFor(n, r).heap
  PROVE  IsCopyFor(g, n, C, new, dropped) /\ CopyFor(n, r).node = new[n]
<1>0. heap \in Seq(Object) /\ DOMAIN heap = 1..Len(heap) /\ Len(heap) \in Nat /\ Fresh \in Nat /\ Fresh = Len(heap) + 1
  BY PointersInHeap DEF Safe, Formed, Fresh
<1>1. IsClonedBut(n, dropped, C)
  BY ClonedButFacts
<1>2. C \in SUBSET DOMAIN heap /\ n \in C
  BY <1>1 DEF IsClonedBut
<1>3. Numbers(new, C, Fresh)
  BY <1>0, <1>2, RankedNumbers
<1>4. new[n] \in Nat /\ new[n] # 0
  <2>1. Cardinality(C) \in Nat
    BY <1>0, <1>2, PartIsFinite
  <2>2. new[n] \in (Fresh + 1)..(Fresh + Cardinality(C))
    BY <1>2, <1>3 DEF Numbers
  <2> QED
    BY <1>0, <2>1, <2>2
<1>5. PICK kids, block, b : kids = <<new[n]>> /\ block = New("Block", 0, kids) /\ b = <<block>>
  OBVIOUS
<1>6. kids \in Seq(Nat) /\ Range(kids) = {new[n]} /\ Once(kids)
  <2>1. PICK p \in Nat : p = new[n]
    BY <1>4
  <2>2. <<p>> \in Seq(Nat) /\ Range(<<p>>) = {p} /\ Once(<<p>>)
    BY OneIsSeq
  <2> QED
    BY <1>5, <2>1, <2>2
<1>7. IsNew(block, "Block", 0, kids)
  <2>1. "Block" \in AnyKind /\ 0 \in Nat
    BY DEF AnyKind, NodeKind, OrdinaryKind
  <2> QED
    BY <1>5, <1>6, <2>1, NewFacts
<1>8. b \in Seq(Object) /\ Len(b) = 1 /\ b[1] = block
  BY <1>5, <1>7 DEF IsNew
<1>9. PICK objects : objects = heap \o b
  OBVIOUS
<1>10. IsCat(objects, heap, b)
  BY <1>0, <1>8, <1>9, HeapCat
<1>11. /\ objects \in Seq(Object) /\ Len(objects) = Fresh /\ DOMAIN objects = 1..Fresh /\ DOMAIN heap \subseteq DOMAIN objects
       /\ \A o \in DOMAIN heap : objects[o] = heap[o]
       /\ objects[Fresh] = block /\ Fresh \in DOMAIN objects /\ Fresh \notin DOMAIN heap
       /\ \A o \in DOMAIN objects : o \in DOMAIN heap \/ o = Fresh
  <2>1. Len(heap) + 1 = Fresh /\ 1 \in 1..Len(b)
    BY <1>0, <1>8
  <2>2. /\ objects \in Seq(Object) /\ Len(objects) = Len(heap) + Len(b) /\ DOMAIN objects = 1..(Len(heap) + Len(b))
        /\ DOMAIN heap \subseteq DOMAIN objects /\ \A o \in DOMAIN heap : objects[o] = heap[o]
        /\ Len(heap) + 1 \in DOMAIN objects \ DOMAIN heap /\ objects[Len(heap) + 1] = b[1]
    BY <1>10, <2>1 DEF IsCat
  <2> QED
    BY <1>0, <1>8, <2>1, <2>2
<1>12. g = WithCopies(objects, C, new, dropped) /\ CopyFor(n, r).node = new[n]
  BY <1>5, <1>9, <1>11 DEF CopyFor, WithCopies, DropsFor
<1>13. new = Ranked(Len(objects), C)
  BY <1>11
<1>14. IsLaid(g, objects, C, new, dropped)
  BY <1>2, <1>11, <1>12, <1>13, WithCopiesFacts
<1>15. /\ NewNames(new) /\ DOMAIN new = C /\ g \in Seq(Object)
       /\ DOMAIN g = DOMAIN objects \cup {new[m] : m \in C}
       /\ \A m \in C : new[m] \notin DOMAIN objects /\ IsCopy(g[new[m]], m, new, dropped)
       /\ \A o \in DOMAIN objects : g[o] = objects[o]
  BY <1>14 DEF IsLaid
<1>16. /\ block.kind = "Block" /\ block.live /\ block.one = 0 /\ block.many = kids /\ Range(block.lent) = {}
       /\ Pointers(block) = {new[n]}
  BY <1>4, <1>6, <1>7 DEF IsNew
<1>17. g[Fresh] = block
  BY <1>11, <1>15
<1>18. /\ DOMAIN heap \subseteq DOMAIN g /\ \A o \in DOMAIN heap : g[o] = heap[o]
       /\ Fresh \in DOMAIN g
       /\ \A m \in C : new[m] \in DOMAIN g /\ new[m] \notin DOMAIN heap /\ new[m] # Fresh
       /\ \A o \in DOMAIN g \ DOMAIN heap : o = Fresh \/ \E m \in C : o = new[m]
  BY <1>11, <1>15
<1> QED
  BY <1>6, <1>11, <1>12, <1>15, <1>16, <1>17, <1>18 DEF IsCopyFor
-----------------------------------------------------------------------------
\* A message and its condition.
WithCond(y, cond) == [y EXCEPT !.lent = <<cond>>]

\* The copy of the interaction n, with its condition, and those of its parts.
MessageAt(h2, n, C, new, dropped, y, cond) ==
  /\ h2 \in Seq(Object) /\ SameKinds(heap, h2) /\ NewNames(new) /\ DOMAIN new = C
  /\ \A m \in C : new[m] \in DOMAIN h2 /\ h2[new[m]].kind = heap[m].kind
  /\ \A m \in C : m # n => IsCopy(h2[new[m]], m, new, dropped)
  /\ IsCopy(y, n, new, dropped) /\ h2[new[n]] = WithCond(y, cond)
  /\ cond \in DOMAIN h2 /\ h2[cond].kind = "Role"

\* What the copies point to.
MessagePoints(h2, n, C, new, dropped, y) ==
  /\ Pointers(h2[new[n]]) = Pointers(y) /\ Range(y.lent) = {} /\ CopyPoints(y, n, new, dropped)
  /\ \A m \in C : m # n => CopyPoints(h2[new[m]], m, new, dropped)

\* The condition is a copy of the family, or new.
CondAt(h2, mn2, P, ids, holder, L, o, cond) ==
  \/ \E k : In(P, k, k) /\ k \in L /\ cond = Id(ids, k, k) /\ holder[k] = o
  \/ SoleLent(h2, mn2, P, ids, {}, o, cond)

\* All that the copy of a message allocates points as a member of a family.
MembersAt(h2, mn2, P, ids, holder, L, n, C, new, cond) ==
  /\ \A m \in C : SiteMember(h2, mn2, P, ids, holder, L, n, m, new[m])
  /\ h2[new[n]].kind = "Interaction" /\ Range(h2[new[n]].lent) = {cond}

\* So it does.
LEMMA MessageMembers ==
  ASSUME Safe(heap, mine, lost), NEW n \in Live, heap[n].kind = "Interaction", Cloned(n) \subseteq Live,
         NEW dropped, DropsRoles(n, dropped), NEW C, IsClonedBut(n, dropped, C),
         NEW h2, NEW new, NEW y, NEW cond, MessageAt(h2, n, C, new, dropped, y, cond),
         NEW P, NEW ids, SiteNames(new, P, ids, n), NEW mn2, NEW holder, NEW L,
         CondAt(h2, mn2, P, ids, holder, L, new[n], cond)
  PROVE  MembersAt(h2, mn2, P, ids, holder, L, n, C, new, cond) /\ MessagePoints(h2, n, C, new, dropped, y)
<1>0. n \in DOMAIN heap
  BY DEF Live
<1>1. /\ h2 \in Seq(Object) /\ SameKinds(heap, h2) /\ NewNames(new) /\ DOMAIN new = C
      /\ \A m \in C : new[m] \in DOMAIN h2 /\ h2[new[m]].kind = heap[m].kind
      /\ IsCopy(y, n, new, dropped) /\ h2[new[n]] = WithCond(y, cond)
      /\ cond \in DOMAIN h2 /\ h2[cond].kind = "Role"
  BY DEF MessageAt
<1>2. SameKind(h2, new)
  BY <1>1 DEF SameKind
<1>3. /\ C \subseteq Cloned(n) /\ n \in C
      /\ \A m \in C : m # n => \A q \in ClonedParts(m) : q \in C /\ q # n
      /\ \A q \in ClonedParts(n) : q # n /\ (q \in dropped \/ q \in C)
  BY DEF IsClonedBut
<1>4. heap[n].kind = "Interaction" => \A p \in Range(heap[n].many) : heap[p].kind = "Msg" => p \notin dropped
  BY DEF DropsRoles
<1>5. \A q \in DOMAIN new : In(P, n, q) /\ new[q] = Id(ids, n, q)
  BY DEF SiteNames
<1>6. ASSUME NEW m \in C, m # n
      PROVE  SiteMember(h2, mn2, P, ids, holder, L, n, m, new[m]) /\ CopyPoints(h2[new[m]], m, new, dropped)
  <2>1. PICK o : o = new[m]
    OBVIOUS
  <2>2. m \in Live /\ heap[m].kind \in LeafKind
    BY <1>0, <1>3, <1>6, InteractionParts
  <2>3. heap[m].kind # "Interaction"
    BY <2>2 DEF LeafKind
  <2>4. \A q \in ClonedParts(m) : q # n /\ (q \in dropped \/ q \in DOMAIN new)
    BY <1>1, <1>3, <1>6
  <2>5. IsCopy(h2[o], m, new, dropped)
    BY <1>6, <2>1 DEF MessageAt
  <2>6. SiteMember(h2, mn2, P, ids, holder, L, n, m, o) /\ CopyPoints(h2[o], m, new, dropped)
    BY <1>1, <1>2, <2>2, <2>3, <2>4, <2>5, MemberCopyBut
  <2> QED
    BY <2>1, <2>6
<1>7. Fit(h2, y)
  BY <1>1, <1>2, <1>4, CopyFit
<1>8. CopyPoints(y, n, new, dropped)
  BY <1>0, <1>1, <1>3, CopyPointers
<1>9. /\ y \in Object /\ y.kind = "Interaction" /\ y.live /\ Range(y.lent) = {}
  BY <1>1 DEF IsCopy, IsCopiedList, DropsRoles
<1>10. PICK x : x = h2[new[n]]
  OBVIOUS
<1>11. PICK s : s = <<cond>>
  OBVIOUS
<1>12. s \in Seq(Nat) /\ Range(s) = {cond}
  <2>1. PICK p \in Nat : p = cond
    BY <1>1
  <2>2. <<p>> \in Seq(Nat) /\ Range(<<p>>) = {p}
    BY OneIsSeq
  <2> QED
    BY <1>11, <2>1, <2>2
<1>13. x \in Object /\ x.lent = s /\ x.one = y.one /\ x.many = y.many /\ x.kind = "Interaction" /\ x.live
  <2>1. x = [y EXCEPT !.lent = s]
    BY <1>1, <1>10, <1>11 DEF WithCond
  <2> QED
    BY <1>9, <1>12, <2>1, RecordLent
<1>14. Pointers(x) = Pointers(y)
  BY <1>13 DEF Pointers
<1>15. Fit(h2, x)
  <2>1. Holds(h2, Range(x.lent), HoldsLent(x.kind))
    BY <1>1, <1>12, <1>13 DEF Holds, HoldsLent
  <2> QED
    BY <1>7, <1>9, <1>13, <2>1 DEF Fit
<1>16. \A p \in Pointers(x) :
         \/ p \in Pointers(heap[n]) /\ MayShare(heap, FALSE, n, p)
         \/ \E q \in Pointers(heap[n]) : q # n /\ In(P, n, q) /\ p = Id(ids, n, q)
  <2>1. \A p \in Pointers(y) :
         \/ p \in Pointers(heap[n]) /\ MayShare(heap, FALSE, n, p)
         \/ \E q \in ClonedParts(n) : q \in Pointers(heap[n]) /\ q \in DOMAIN new /\ p = new[q]
    BY <1>8 DEF CopyPoints
  <2> SUFFICES ASSUME NEW p \in Pointers(x)
               PROVE  \/ p \in Pointers(heap[n]) /\ MayShare(heap, FALSE, n, p)
                      \/ \E q \in Pointers(heap[n]) : q # n /\ In(P, n, q) /\ p = Id(ids, n, q)
    OBVIOUS
  <2>2. p \in Pointers(y)
    BY <1>14
  <2>3. CASE p \in Pointers(heap[n]) /\ MayShare(heap, FALSE, n, p)
    BY <2>3
  <2>4. CASE \E q \in ClonedParts(n) : q \in Pointers(heap[n]) /\ q \in DOMAIN new /\ p = new[q]
    <3>1. PICK q \in ClonedParts(n) : q \in Pointers(heap[n]) /\ q \in DOMAIN new /\ p = new[q]
      BY <2>4
    <3>2. q # n
      BY <1>3
    <3>3. In(P, n, q) /\ new[q] = Id(ids, n, q)
      BY <1>5, <3>1
    <3> QED
      BY <3>1, <3>2, <3>3
  <2> QED
    BY <2>1, <2>2, <2>3, <2>4
<1>17. SiteMember(h2, mn2, P, ids, holder, L, n, n, new[n])
  BY <1>10, <1>12, <1>13, <1>15, <1>16 DEF SiteMember, CondAt
<1>18. \A m \in C : SiteMember(h2, mn2, P, ids, holder, L, n, m, new[m])
  BY <1>6, <1>17
<1>19. MessagePoints(h2, n, C, new, dropped, y)
  BY <1>6, <1>8, <1>9, <1>10, <1>14 DEF MessagePoints
<1> QED
  BY <1>10, <1>12, <1>13, <1>18, <1>19 DEF MembersAt

\* Each part is found in the copy of its owner.
LEMMA MessageFound ==
  ASSUME Safe(heap, mine, lost), NEW n \in DOMAIN heap, heap[n].kind = "Interaction",
         NEW dropped, DropsRoles(n, dropped), NEW C, IsClonedBut(n, dropped, C),
         NEW h2, NEW new, NEW y, NEW cond, MessageAt(h2, n, C, new, dropped, y, cond),
         MessagePoints(h2, n, C, new, dropped, y), NEW m \in C, m # n, NEW mn2, NEW ls2
  PROVE  Found(h2, mn2, ls2, new[m])
<1>1. PICK k \in C : m \in ClonedParts(k) /\ (k = n => m \notin dropped)
  BY DEF IsClonedBut
<1>2. k \in Cloned(n)
  BY <1>1 DEF IsClonedBut
<1>3. PICK o : o = new[k]
  OBVIOUS
<1>4. o \in DOMAIN h2 /\ h2[o].kind = heap[k].kind
  BY <1>1, <1>3 DEF MessageAt
<1>5. CASE k = n
  <2>1. /\ Pointers(h2[o]) = Pointers(y) /\ Range(y.lent) = {} /\ CopyPoints(y, k, new, dropped)
    BY <1>3, <1>5 DEF MessagePoints
  <2>2. Pointers(y) \subseteq Pointers(h2[o]) /\ Range(y.lent) \subseteq Range(h2[o].lent)
    BY <2>1
  <2>3. m \in ClonedParts(k) /\ m \notin dropped
    BY <1>1, <1>5
  <2> QED
    BY <1>4, <2>1, <2>2, <2>3, CopyFound
<1>6. CASE k # n
  <2>1. heap[m].kind = "Expr"
    BY <1>1, <1>2, <1>6, InteractionParts
  <2>2. m \notin dropped
    BY <2>1 DEF DropsRoles
  <2>3. PICK x : x = h2[o]
    OBVIOUS
  <2>4. CopyPoints(x, k, new, dropped)
    BY <1>3, <1>6, <2>3 DEF MessagePoints
  <2>5. Pointers(x) \subseteq Pointers(h2[o]) /\ Range(x.lent) \subseteq Range(h2[o].lent)
    BY <2>3
  <2>6. m \in ClonedParts(k)
    BY <1>1
  <2> QED
    BY <1>4, <2>2, <2>4, <2>5, <2>6, CopyFound
<1> QED
  BY <1>5, <1>6
-----------------------------------------------------------------------------
\* The family of the copies of C, that belong to n, and of D, that belong to r.
TwoFamilies(P, ids, n, C, new, r, D, other) ==
  /\ \A k, m : In(P, k, m) <=> (k = n /\ m \in C) \/ (k = r /\ m \in D)
  /\ \A m \in C : Id(ids, n, m) = new[m]
  /\ \A m \in D : Id(ids, r, m) = other[m]

\* The copies at a message and those of its condition are one family.
LEMMA TwoFamiliesExist ==
  ASSUME NEW n, NEW r, n # r, NEW C, NEW D, NEW new, NEW other
  PROVE  \E P, ids : TwoFamilies(P, ids, n, C, new, r, D, other)
<1>1. PICK P : P = ({n} \X C) \cup ({r} \X D)
  OBVIOUS
<1>2. PICK ids : ids = [p \in P |-> IF p[1] = n THEN new[p[2]] ELSE other[p[2]]]
  OBVIOUS
<1>3. \A k, m : In(P, k, m) <=> (k = n /\ m \in C) \/ (k = r /\ m \in D)
  BY <1>1 DEF In
<1>4. ASSUME NEW m \in C PROVE Id(ids, n, m) = new[m]
  <2>1. PICK p \in P : p = <<n, m>>
    BY <1>1
  <2>2. p[1] = n /\ p[2] = m
    BY <2>1
  <2> QED
    BY <1>2, <2>1, <2>2 DEF Id
<1>5. ASSUME NEW m \in D PROVE Id(ids, r, m) = other[m]
  <2>1. PICK p \in P : p = <<r, m>>
    BY <1>1
  <2>2. p[1] = r /\ p[2] = m
    BY <2>1
  <2> QED
    BY <1>2, <2>1, <2>2 DEF Id
<1> QED
  BY <1>3, <1>4, <1>5 DEF TwoFamilies

\* The block of the copy for an endpoint.
BlockFor(h2, o) ==
  /\ h2[Fresh].kind = "Block" /\ h2[Fresh].live /\ Fit(h2, h2[Fresh])
  /\ Pointers(h2[Fresh]) = {o} /\ Range(h2[Fresh].lent) = {}

\* A list of one, and what the projection for an endpoint is made of.
Just(p) == <<p>>

\* The copy for an endpoint, with a clone of a role for its condition.
ForEndpoint(h2, n, C, new, dropped, y, r, D, other) ==
  /\ MessageAt(h2, n, C, new, dropped, y, other[r]) /\ BlockFor(h2, new[n])
  /\ DOMAIN heap \subseteq DOMAIN h2 /\ \A o \in DOMAIN heap : h2[o] = heap[o]
  /\ Fresh \in DOMAIN h2 \ DOMAIN heap
  /\ \A m \in C : new[m] \notin DOMAIN heap /\ new[m] # Fresh
  /\ NewNames(other) /\ DOMAIN other = D
  /\ \A m \in D : other[m] \in DOMAIN h2 /\ other[m] \notin DOMAIN heap /\ other[m] # Fresh /\ IsCopy(h2[other[m]], m, other, {})
  /\ \A m \in C, k \in D : new[m] # other[k]
  /\ \A o \in DOMAIN h2 \ DOMAIN heap : o = Fresh \/ (\E m \in C : o = new[m]) \/ \E m \in D : o = other[m]

\* A heap of that shape has the family.
LEMMA ForEndpointFacts ==
  ASSUME Safe(heap, mine, lost), NEW n \in DOMAIN heap, heap[n].kind = "Interaction",
         NEW r \in DOMAIN heap, heap[r].kind = "Role", NEW dropped, NEW C, IsClonedBut(n, dropped, C), NEW new,
         NEW g, IsCopyFor(g, n, C, new, dropped), NEW other, NEW w, IsWithClone(w, g, r, other),
         NEW s, s = Just(other[r]), NEW h2, h2 = WithLent(w, new[n], s), NEW D, D = Cloned(r)
  PROVE  ForEndpoint(h2, n, C, new, dropped, g[new[n]], r, D, other)
<1>1. /\ g \in Seq(Object) /\ DOMAIN heap \subseteq DOMAIN g /\ \A o \in DOMAIN heap : g[o] = heap[o]
      /\ Fresh \in DOMAIN g /\ Fresh \notin DOMAIN heap
      /\ NewNames(new) /\ DOMAIN new = C
      /\ g[Fresh].kind = "Block" /\ g[Fresh].live /\ Range(g[Fresh].lent) = {} /\ Pointers(g[Fresh]) = {new[n]}
      /\ g[Fresh].one = 0 /\ Range(g[Fresh].many) = {new[n]} /\ Once(g[Fresh].many)
      /\ \A m \in C : new[m] \in DOMAIN g /\ new[m] \notin DOMAIN heap /\ new[m] # Fresh /\ IsCopy(g[new[m]], m, new, dropped)
      /\ \A o \in DOMAIN g \ DOMAIN heap : o = Fresh \/ \E m \in C : o = new[m]
  BY DEF IsCopyFor
<1>2. n \in C /\ C \subseteq DOMAIN heap
  BY DEF IsClonedBut
<1>3. r \in D
  BY ClonedFacts
<1>4. /\ NewNames(other) /\ DOMAIN other = D
      /\ w \in Seq(Object) /\ DOMAIN w = DOMAIN g \cup {other[m] : m \in D}
      /\ \A m \in D : other[m] \notin DOMAIN g /\ IsCopy(w[other[m]], m, other, {})
      /\ \A o \in DOMAIN g : w[o] = g[o]
  BY DEF IsWithClone
<1>5. other[r] \in Nat /\ other[r] \in DOMAIN w
  <2>1. other[r] \in DOMAIN w
    BY <1>3, <1>4
  <2>2. w \in Seq(Object)
    BY <1>4
  <2>3. DOMAIN w = 1..Len(w) /\ Len(w) \in Nat
    BY <2>2
  <2> QED
    BY <2>1, <2>3
<1>6. s \in Seq(Nat)
  <2>1. PICK p \in Nat : p = other[r]
    BY <1>5
  <2>2. <<p>> \in Seq(Nat)
    BY OneIsSeq
  <2> QED
    BY <2>1, <2>2 DEF Just
<1>7. new[n] \in DOMAIN w /\ new[n] \in DOMAIN g
  BY <1>1, <1>2, <1>4
<1>8. /\ h2 \in Seq(Object) /\ DOMAIN h2 = DOMAIN w
      /\ h2[new[n]].kind = w[new[n]].kind
      /\ \A q \in DOMAIN w : q # new[n] => h2[q] = w[q]
  <2>1. PICK o \in DOMAIN w : o = new[n]
    BY <1>7
  <2>2. w \in Seq(Object) /\ h2 = WithLent(w, o, s)
    BY <1>4, <2>1
  <2>3. /\ h2 \in Seq(Object) /\ DOMAIN h2 = DOMAIN w /\ h2[o].kind = w[o].kind
        /\ \A q \in DOMAIN w : q # o => h2[q] = w[q]
    BY <1>6, <2>2, EditLent
  <2> QED
    BY <2>1, <2>3
<1>9. h2[new[n]] = WithCond(w[new[n]], other[r])
  BY <1>7 DEF WithLent, WithCond, Just
<1>10. \A o \in DOMAIN g : o # new[n] => h2[o] = g[o]
  BY <1>4, <1>8
<1>11. \A o \in DOMAIN heap : h2[o] = heap[o]
  BY <1>1, <1>2, <1>10
<1>12. h2[Fresh] = g[Fresh]
  BY <1>1, <1>2, <1>10
<1>13. \A m \in C : m # n => new[m] # new[n]
  BY <1>1, <1>2 DEF NewNames
<1>14. ASSUME NEW m \in C
       PROVE  /\ new[m] \in DOMAIN h2 /\ h2[new[m]].kind = heap[m].kind
              /\ m # n => IsCopy(h2[new[m]], m, new, dropped)
  <2>1. new[m] \in DOMAIN h2 /\ IsCopy(g[new[m]], m, new, dropped) /\ new[m] \in DOMAIN g
    BY <1>1, <1>4, <1>8
  <2>2. g[new[m]].kind = heap[m].kind
    BY <2>1 DEF IsCopy
  <2>3. CASE m = n
    BY <1>4, <1>8, <2>1, <2>2, <2>3
  <2>4. CASE m # n
    <3>1. h2[new[m]] = g[new[m]]
      BY <1>10, <1>13, <2>1, <2>4
    <3> QED
      BY <2>1, <2>2, <3>1
  <2> QED
    BY <2>3, <2>4
<1>15. ASSUME NEW m \in D
       PROVE  /\ other[m] \in DOMAIN h2 /\ other[m] \notin DOMAIN g
              /\ IsCopy(h2[other[m]], m, other, {}) /\ h2[other[m]].kind = heap[m].kind
  <2>1. other[m] \in DOMAIN w /\ other[m] \notin DOMAIN g /\ IsCopy(w[other[m]], m, other, {})
    BY <1>4
  <2>2. h2[other[m]] = w[other[m]]
    BY <1>7, <1>8, <2>1
  <2> QED
    BY <1>8, <2>1, <2>2 DEF IsCopy
<1>16. SameKinds(heap, h2)
  BY <1>1, <1>4, <1>8, <1>11 DEF SameKinds
<1>17. IsCopy(g[new[n]], n, new, dropped) /\ w[new[n]] = g[new[n]]
  BY <1>1, <1>2, <1>4, <1>7
<1>18. MessageAt(h2, n, C, new, dropped, g[new[n]], other[r])
  <2>1. h2[new[n]] = WithCond(g[new[n]], other[r])
    BY <1>9, <1>17
  <2>2. other[r] \in DOMAIN h2 /\ h2[other[r]].kind = "Role"
    BY <1>3, <1>15
  <2> QED
    BY <1>1, <1>8, <1>14, <1>16, <1>17, <2>1, <2>2 DEF MessageAt
<1>19. BlockFor(h2, new[n])
  <2>1. PICK b, many, o : b = h2[Fresh] /\ many = b.many /\ o = new[n]
    OBVIOUS
  <2>2. /\ b.kind = "Block" /\ b.live /\ Range(b.lent) = {} /\ Pointers(b) = {o}
        /\ b.one = 0 /\ Range(many) = {o} /\ Once(many)
    BY <1>1, <1>12, <2>1
  <2>3. o \in DOMAIN h2 /\ h2[o].kind = "Interaction" /\ o # 0
    <3>1. o \in DOMAIN h2 /\ h2[o].kind = "Interaction"
      BY <1>2, <1>14, <2>1
    <3>2. DOMAIN h2 = 1..Len(h2)
      BY <1>8
    <3> QED
      BY <3>1, <3>2
  <2>4. Holds(h2, Range(many), HoldsMany("Block"))
    BY <2>2, <2>3 DEF Holds, HoldsMany, NodeKind, OrdinaryKind
  <2>5. Holds(h2, Range(b.lent), HoldsLent("Block"))
    BY <2>2 DEF Holds
  <2>6. Fit(h2, b)
    BY <2>1, <2>2, <2>3, <2>4, <2>5 DEF Fit, Once
  <2> QED
    BY <2>1, <2>2, <2>6 DEF BlockFor
<1>20. \A m \in C, k \in D : new[m] # other[k]
  BY <1>1, <1>15
<1>21. \A o \in DOMAIN h2 \ DOMAIN heap : o = Fresh \/ (\E m \in C : o = new[m]) \/ \E m \in D : o = other[m]
  BY <1>1, <1>4, <1>8
<1>22. DOMAIN heap \subseteq DOMAIN h2 /\ Fresh \in DOMAIN h2 \ DOMAIN heap
  BY <1>1, <1>4, <1>8
<1>23. \A m \in C : new[m] \notin DOMAIN heap /\ new[m] # Fresh
  BY <1>1
<1>24. \A m \in D : other[m] \in DOMAIN h2 /\ other[m] \notin DOMAIN heap /\ other[m] # Fresh /\ IsCopy(h2[other[m]], m, other, {})
  BY <1>1, <1>15
<1> QED
  BY <1>4, <1>11, <1>18, <1>19, <1>20, <1>21, <1>22, <1>23, <1>24 DEF ForEndpoint
-----------------------------------------------------------------------------
\* A message projected for an endpoint, under a condition.
LEMMA MessageSafe ==
  ASSUME Safe(heap, mine, lost), NEW n \in Live, heap[n].kind = "Interaction", Cloned(n) \subseteq Live,
         NEW r \in DOMAIN heap, heap[r].kind = "Role", NEW D, D = Cloned(r), D \subseteq Live,
         NEW dropped, DropsRoles(n, dropped), NEW C, IsClonedBut(n, dropped, C), NEW new, NEW other, NEW y,
         NEW h2, ForEndpoint(h2, n, C, new, dropped, y, r, D, other), NEW mn2, mn2 = mine \cup {Fresh}
  PROVE  Safe(h2, mn2, lost)
<1>0. n \in DOMAIN heap /\ n # r /\ Formed(heap) /\ mine \subseteq DOMAIN heap /\ lost \subseteq DOMAIN heap
  BY DEF Live, Safe, Held
<1>1. /\ MessageAt(h2, n, C, new, dropped, y, other[r]) /\ BlockFor(h2, new[n])
      /\ DOMAIN heap \subseteq DOMAIN h2 /\ \A o \in DOMAIN heap : h2[o] = heap[o]
      /\ Fresh \in DOMAIN h2 \ DOMAIN heap
      /\ \A m \in C : new[m] \notin DOMAIN heap /\ new[m] # Fresh
      /\ NewNames(other) /\ DOMAIN other = D
      /\ \A m \in D : other[m] \in DOMAIN h2 /\ other[m] \notin DOMAIN heap /\ other[m] # Fresh /\ IsCopy(h2[other[m]], m, other, {})
      /\ \A m \in C, k \in D : new[m] # other[k]
      /\ \A o \in DOMAIN h2 \ DOMAIN heap : o = Fresh \/ (\E m \in C : o = new[m]) \/ \E m \in D : o = other[m]
  BY DEF ForEndpoint
<1>2. /\ h2 \in Seq(Object) /\ SameKinds(heap, h2) /\ NewNames(new) /\ DOMAIN new = C
      /\ \A m \in C : new[m] \in DOMAIN h2 /\ h2[new[m]].kind = heap[m].kind
  BY <1>1 DEF MessageAt
<1>3. C \subseteq DOMAIN heap /\ n \in C
  BY DEF IsClonedBut
<1>4. /\ D \subseteq DOMAIN heap /\ r \in D
      /\ \A p \in D : p = r \/ \E q \in D : p \in ClonedParts(q)
      /\ \A m \in D : ClonedParts(m) \subseteq D
  BY ClonedFacts
<1>5. PICK P, ids : TwoFamilies(P, ids, n, C, new, r, D, other)
  BY <1>0, TwoFamiliesExist
<1>6. /\ \A k, m : In(P, k, m) <=> (k = n /\ m \in C) \/ (k = r /\ m \in D)
      /\ \A m \in C : Id(ids, n, m) = new[m]
      /\ \A m \in D : Id(ids, r, m) = other[m]
  BY <1>5 DEF TwoFamilies
<1>7. PICK o, cond : o = new[n] /\ cond = other[r]
  OBVIOUS
<1>8. PICK holder, L, X, H, roots, r2 :
        /\ holder = [c \in {n, r} |-> IF c = n THEN Fresh ELSE o] /\ L = {r} /\ X = {Fresh}
        /\ H = {} /\ roots = {} /\ r2 = Relic(h2, mn2, lost)
  OBVIOUS
<1>9. holder[n] = Fresh /\ holder[r] = o
  BY <1>0, <1>8
<1>10. NewIn(h2, H) = DOMAIN h2 \ DOMAIN heap
  BY <1>8 DEF NewIn
<1>11. SiteNames(new, P, ids, n) /\ SiteNames(other, P, ids, r)
  BY <1>1, <1>2, <1>6 DEF SiteNames
<1>12. SameKind(h2, other)
  BY <1>1 DEF SameKind, IsCopy
<1>13. ASSUME NEW k, NEW m, In(P, k, m)
       PROVE  /\ k \in DOMAIN heap /\ m \in DOMAIN heap /\ In(P, k, k)
              /\ Id(ids, k, m) \in DOMAIN h2 \ DOMAIN heap /\ Id(ids, k, m) # Fresh
              /\ h2[Id(ids, k, m)].kind = heap[m].kind
  <2>1. CASE k = n /\ m \in C
    BY <1>0, <1>1, <1>2, <1>3, <1>6, <2>1
  <2>2. CASE k = r /\ m \in D
    BY <1>1, <1>4, <1>6, <1>12, <2>2 DEF SameKind
  <2> QED
    BY <1>6, <1>13, <2>1, <2>2
<1>14. ASSUME NEW k, NEW m, NEW j, NEW l, In(P, k, m), In(P, j, l), Id(ids, k, m) = Id(ids, j, l)
       PROVE  k = j /\ m = l
  <2>1. CASE k = n /\ m \in C /\ j = n /\ l \in C
    BY <1>2, <1>6, <1>14, <2>1 DEF NewNames
  <2>2. CASE k = r /\ m \in D /\ j = r /\ l \in D
    BY <1>1, <1>6, <1>14, <2>2 DEF NewNames
  <2>3. CASE (k = n /\ m \in C /\ j = r /\ l \in D) \/ (k = r /\ m \in D /\ j = n /\ l \in C)
    BY <1>1, <1>6, <1>14, <2>3
  <2> QED
    BY <1>6, <1>14, <2>1, <2>2, <2>3
<1>15. Family(h2, mn2, P, ids, holder, H)
  <2>1. \A k, m : In(P, k, m) => Id(ids, k, m) \notin mn2
    BY <1>0, <1>13
  <2> QED
    BY <1>13, <1>14, <2>1 DEF Family
<1>16. Extends(h2, P, ids, X)
  <2>1. \A p \in DOMAIN h2 \ DOMAIN heap : p \in X \/ \E k, m : In(P, k, m) /\ p = Id(ids, k, m)
    BY <1>1, <1>6, <1>8
  <2> QED
    BY <1>1, <1>2, <1>8, <1>13, <2>1 DEF Extends
<1>17. MessageAt(h2, n, C, new, dropped, y, cond)
  BY <1>1, <1>7
<1>18. CondAt(h2, mn2, P, ids, holder, L, new[n], cond)
  BY <1>4, <1>6, <1>7, <1>8, <1>9 DEF CondAt
<1>19. /\ \A m \in C : SiteMember(h2, mn2, P, ids, holder, L, n, m, new[m])
       /\ MessagePoints(h2, n, C, new, dropped, y)
       /\ h2[new[n]].kind = "Interaction" /\ Range(h2[new[n]].lent) = {cond}
  <2>1. MembersAt(h2, mn2, P, ids, holder, L, n, C, new, cond) /\ MessagePoints(h2, n, C, new, dropped, y)
    BY <1>11, <1>17, <1>18, MessageMembers
  <2> QED
    BY <2>1 DEF MembersAt
<1>20. ASSUME NEW m \in D
       PROVE  SiteMember(h2, mn2, P, ids, holder, L, r, m, other[m]) /\ CopyPoints(h2[other[m]], m, other, {})
  <2>1. PICK p, none : p = other[m] /\ none = {}
    OBVIOUS
  <2>2. m \in Live
    OBVIOUS
  <2>3. IsCopy(h2[p], m, other, none)
    BY <1>1, <2>1
  <2>4. r \notin ClonedParts(m)
    BY NotInOwn
  <2>5. \A q \in ClonedParts(m) : q \in DOMAIN other /\ q # r
    BY <1>1, <1>4, <2>4
  <2>6. SiteMember(h2, mn2, P, ids, holder, L, r, m, p) /\ CopyPoints(h2[p], m, other, none)
    <3>1. NewNames(other) /\ SameKinds(heap, h2) /\ none = {}
      BY <1>1, <1>2, <2>1
    <3> QED
      BY <1>11, <1>12, <2>2, <2>3, <2>5, <3>1, MemberCopy
  <2> QED
    BY <2>1, <2>6
<1>21. ASSUME NEW k, NEW m, In(P, k, m) PROVE SiteMember(h2, mn2, P, ids, holder, L, k, m, Id(ids, k, m))
  <2>1. CASE k = n /\ m \in C
    BY <1>6, <1>19, <2>1
  <2>2. CASE k = r /\ m \in D
    BY <1>6, <1>20, <2>2
  <2> QED
    BY <1>6, <1>21, <2>1, <2>2
<1>22. h2[Fresh].kind = "Block" /\ h2[Fresh].live /\ Fit(h2, h2[Fresh]) /\ Pointers(h2[Fresh]) = {o} /\ Range(h2[Fresh].lent) = {}
  BY <1>1, <1>7 DEF BlockFor
<1>23. \A p \in X : /\ h2[p].live /\ Fit(h2, h2[p])
                    /\ PointsAs(h2, mn2, r2, P, ids, holder, L, H, p)
                    /\ BorrowsAs(h2, mn2, roots, P, ids, holder, L, H, p)
  <2>1. In(P, n, n) /\ n \notin L /\ o = Id(ids, n, n) /\ holder[n] = Fresh
    BY <1>0, <1>3, <1>6, <1>7, <1>8, <1>9
  <2>2. PointsAs(h2, mn2, r2, P, ids, holder, L, H, Fresh)
    BY <1>22, <2>1 DEF PointsAs
  <2>3. BorrowsAs(h2, mn2, roots, P, ids, holder, L, H, Fresh)
    BY <1>22 DEF BorrowsAs
  <2> QED
    BY <1>8, <1>22, <2>2, <2>3
<1>24. ASSUME NEW q \in DOMAIN h2 \ DOMAIN heap, NEW p \in Pointers(h2[q])
       PROVE  p \in DOMAIN heap \/ \E k, m : In(P, k, m) /\ p = Id(ids, k, m)
  <2>1. CASE q = Fresh
    BY <1>3, <1>6, <1>7, <1>22, <1>24, <2>1
  <2>2. CASE \E k, m : In(P, k, m) /\ q = Id(ids, k, m)
    <3>1. PICK k, m : In(P, k, m) /\ q = Id(ids, k, m)
      BY <2>2
    <3>2. SiteMember(h2, mn2, P, ids, holder, L, k, m, q)
      BY <1>21, <3>1
    <3>3. Pointers(heap[m]) \subseteq DOMAIN heap
      BY <1>0, <1>13, <3>1, PointersInHeap
    <3>4. \/ p \in Pointers(heap[m])
          \/ \E l : In(P, k, l) /\ p = Id(ids, k, l)
          \/ \E l : In(P, l, l) /\ p = Id(ids, l, l)
      BY <3>2 DEF SiteMember
    <3> QED
      BY <3>3, <3>4
  <2> QED
    BY <1>8, <1>16, <2>1, <2>2 DEF Extends
<1>25. \A q, p : Sole(h2, mn2, P, ids, H, q, p) /\ q \in NewIn(h2, H) /\ p \in Pointers(h2[q]) =>
         h2[q].kind \in LeafKind \ {"Expr"} \/ h2[p].kind \in LeafKind \ {"Expr"}
  BY <1>10, <1>24 DEF Sole
<1>26. \A q \in DOMAIN h2 \ DOMAIN heap : Fresh \notin Pointers(h2[q])
  BY <1>1, <1>13, <1>24
<1>27. Nested(h2, P, ids, holder, NodeKind, H)
  <2> SUFFICES ASSUME NEW k, In(P, k, k), heap[k].kind \in NodeKind
               PROVE  holder[k] \notin H /\ \A q \in NewIn(h2, H) : holder[k] \notin Pointers(h2[q])
    BY DEF Nested
  <2>1. k = n
    BY <1>6 DEF NodeKind, OrdinaryKind, ParamKind
  <2> QED
    BY <1>8, <1>9, <1>10, <1>26, <2>1
<1>28. Nested(h2, P, ids, holder, {"Expr"}, H)
  BY <1>6 DEF Nested
<1>29. ASSUME NEW p \in DOMAIN h2 \ DOMAIN heap PROVE Found(h2, mn2, lost, p)
  <2>1. CASE p = Fresh
    BY <2>1 DEF Found
  <2>2. CASE p = o
    BY <1>1, <1>22, <2>2 DEF Found
  <2>3. CASE \E m \in C : m # n /\ p = new[m]
    <3>1. PICK m \in C : m # n /\ p = new[m]
      BY <2>3
    <3> QED
      BY <1>0, <1>17, <1>19, <3>1, MessageFound
  <2>4. CASE p = cond
    <3>1. Lends(h2, o, cond) /\ o \in DOMAIN h2
      BY <1>2, <1>3, <1>7, <1>19 DEF Lends
    <3> QED
      BY <2>4, <3>1 DEF Found
  <2>5. CASE \E m \in D : m # r /\ p = other[m]
    <3>1. PICK m \in D : m # r /\ p = other[m]
      BY <2>5
    <3>2. PICK k \in D : m \in ClonedParts(k)
      BY <1>4, <3>1
    <3>3. PICK q, none, x : q = other[k] /\ none = {} /\ x = h2[q]
      OBVIOUS
    <3>4. CopyPoints(x, k, other, none) /\ q \in DOMAIN h2 /\ h2[q].kind = heap[k].kind
      BY <1>1, <1>12, <1>20, <3>2, <3>3 DEF SameKind
    <3>5. Pointers(x) \subseteq Pointers(h2[q]) /\ Range(x.lent) \subseteq Range(h2[q].lent) /\ m \notin none
      BY <3>3
    <3>6. Found(h2, mn2, lost, other[m])
      BY <3>2, <3>4, <3>5, CopyFound
    <3> QED
      BY <3>1, <3>6
  <2> QED
    BY <1>1, <1>7, <2>1, <2>2, <2>3, <2>4, <2>5
<1>30. /\ mine \subseteq mn2 /\ \A p \in mn2 : p \in mine \/ p \in DOMAIN h2 \ DOMAIN heap
       /\ lost \subseteq lost /\ lost \subseteq DOMAIN h2
  BY <1>0, <1>1
<1> QED
  BY <1>8, <1>15, <1>16, <1>21, <1>23, <1>25, <1>27, <1>28, <1>29, <1>30, CopiesStep
-----------------------------------------------------------------------------
\* st_param_node_project of a message, for an endpoint that receives or sends it.
MessageMade(n, r) == WithLent(WithClone(CopyFor(n, r).heap, r), CopyFor(n, r).node, Just(CloneIds(CopyFor(n, r).heap, r)[r]))

\* ProjectMessage in parts.
MessageProjected(n, r) ==
  /\ Running /\ heap[n].one # 0 /\ Cloned(n) \subseteq Live
  /\ heap' = MessageMade(n, r) /\ mine' = mine \cup {Fresh}
  /\ profile' = profile /\ lost' = lost /\ ub' = ub

\* Rules 3, 4 and 6 to 8.
LEMMA ProjectMessageStep ==
  ASSUME IInv, ProjectMessage, UNCHANGED <<kept, due>>
  PROVE  IInv' /\ (ub' = Defined => Spares)
<1>1. PICK kinds : kinds = {"Interaction"}
  OBVIOUS
<1>2. PICK n \in Named(kinds) : \E r \in Rcvrs(n) \cup ({heap[n].one} \ {0}) : MessageProjected(n, r)
  <2>1. PICK n \in Named(kinds) : \E r \in Rcvrs(n) \cup ({heap[n].one} \ {0}) :
          /\ heap[n].one # 0 /\ Cloned(n) \subseteq Live
          /\ Room(Len(CopyFor(n, r).heap) - Len(heap) + Cardinality(Cloned(r)))
          /\ heap' = [WithClone(CopyFor(n, r).heap, r) EXCEPT ![CopyFor(n, r).node].lent = <<CloneIds(CopyFor(n, r).heap, r)[r]>>]
          /\ Keep(Fresh, {})
          /\ UNCHANGED <<profile, lost, ub>>
    BY <1>1 DEF ProjectMessage
  <2>2. PICK r \in Rcvrs(n) \cup ({heap[n].one} \ {0}) :
          /\ heap[n].one # 0 /\ Cloned(n) \subseteq Live
          /\ Room(Len(CopyFor(n, r).heap) - Len(heap) + Cardinality(Cloned(r)))
          /\ heap' = [WithClone(CopyFor(n, r).heap, r) EXCEPT ![CopyFor(n, r).node].lent = <<CloneIds(CopyFor(n, r).heap, r)[r]>>]
          /\ Keep(Fresh, {})
          /\ UNCHANGED <<profile, lost, ub>>
    BY <2>1
  <2>3. heap' = MessageMade(n, r)
    BY <2>2 DEF MessageMade, WithLent, Just
  <2>4. mine' = mine \cup {Fresh}
    BY <2>2 DEF Keep
  <2>5. MessageProjected(n, r)
    BY <2>2, <2>3, <2>4 DEF MessageProjected, Room
  <2> QED
    BY <2>5
<1>3. PICK r \in Rcvrs(n) \cup ({heap[n].one} \ {0}) : MessageProjected(n, r)
  BY <1>2
<1>4. /\ ub = Defined /\ Safe(heap, mine, lost) /\ heap[n].one # 0 /\ Cloned(n) \subseteq Live
      /\ heap' = MessageMade(n, r) /\ mine' = mine \cup {Fresh}
      /\ profile' = profile /\ lost' = lost /\ ub' = ub
  BY <1>3 DEF MessageProjected, Running, IInv
<1>5. n \in Live /\ heap[n].kind \in kinds
  BY <1>4, LiveNamed
<1>6. n \in DOMAIN heap /\ heap[n].kind = "Interaction"
  BY <1>1, <1>5 DEF Live
<1>7. PICK dropped, C, new, g : /\ dropped = DropsFor(n, r) /\ C = ClonedBut(n, dropped)
                                /\ new = Ranked(Fresh, C) /\ g = CopyFor(n, r).heap
  OBVIOUS
<1>8. DropsRoles(n, dropped) /\ r \in DOMAIN heap /\ heap[r].kind = "Role" /\ r \in Pointers(heap[n])
  BY <1>3, <1>4, <1>6, <1>7, DropsForRoles
<1>9. IsClonedBut(n, dropped, C)
  BY <1>4, <1>6, <1>7, ClonedButFacts
<1>10. IsCopyFor(g, n, C, new, dropped) /\ CopyFor(n, r).node = new[n]
  BY <1>4, <1>6, <1>7, CopyForFacts
<1>11. PICK w, other : w = WithClone(g, r) /\ other = CloneIds(g, r)
  OBVIOUS
<1>12. IsWithClone(w, g, r, other)
  <2>1. g \in Seq(Object) /\ DOMAIN heap \subseteq DOMAIN g
    BY <1>10 DEF IsCopyFor
  <2> QED
    BY <1>4, <1>8, <1>11, <2>1, WithCloneFacts
<1>13. PICK D : D = Cloned(r)
  OBVIOUS
<1>14. D \subseteq Live
  <2>1. r \in Cloned(n)
    BY <1>4, <1>6, <1>8, InteractionParts
  <2>2. /\ \A m \in Cloned(n) : ClonedParts(m) \subseteq Cloned(n)
        /\ Cloned(n) \in SUBSET DOMAIN heap
    BY <1>4, <1>6, ClonedFacts
  <2>3. \A S \in SUBSET DOMAIN heap : r \in S /\ (\A m \in S : ClonedParts(m) \subseteq S) => Cloned(r) \subseteq S
    BY <1>4, <1>8, ClonedFacts
  <2>4. Cloned(r) \subseteq Cloned(n)
    BY <2>1, <2>2, <2>3
  <2> QED
    BY <1>4, <1>13, <2>4
<1>15. PICK h2, s : s = Just(other[r]) /\ h2 = WithLent(w, new[n], s)
  OBVIOUS
<1>16. heap' = h2
  BY <1>4, <1>7, <1>10, <1>11, <1>15 DEF MessageMade
<1>17. PICK y : y = g[new[n]]
  OBVIOUS
<1>18. ForEndpoint(h2, n, C, new, dropped, y, r, D, other)
  <2>1. ForEndpoint(h2, n, C, new, dropped, g[new[n]], r, D, other)
    BY <1>4, <1>6, <1>8, <1>9, <1>10, <1>12, <1>13, <1>15, ForEndpointFacts
  <2> QED
    BY <1>17, <2>1
<1>19. PICK mn2 : mn2 = mine \cup {Fresh}
  OBVIOUS
<1>20. Safe(h2, mn2, lost)
  BY <1>4, <1>5, <1>6, <1>8, <1>9, <1>13, <1>14, <1>18, <1>19, MessageSafe
<1>21. Safe(heap', mine', lost')
  BY <1>4, <1>16, <1>19, <1>20
<1>22. Alive(h2)
  BY <1>18 DEF ForEndpoint, Alive
<1> QED
  BY <1>4, <1>16, <1>21, <1>22, SafeNext, AliveSpares
-----------------------------------------------------------------------------
\* The indices of the condition and of the sender: new expressions for ranges.
Indices(dims, ranges, own, first) ==
  [i \in dims |-> IF i \in ranges THEN first + Cardinality({j \in ranges : j <= i}) ELSE own[i]]

\* What such a list of indices is: those of ranges are new, the others the role's own.
IsIndices(list, own, first, k) ==
  /\ list \in Seq(Nat) /\ Once(list) /\ list # << >>
  /\ \A p \in Range(list) : p \in Range(own) \/ p \in (first + 1)..(first + k)
  /\ \A p \in (first + 1)..(first + k) : p \in Range(list)

\* Indices makes such lists.
LEMMA IndicesFacts ==
  ASSUME NEW own \in Seq(Nat), Once(own), NEW first \in Nat, \A p \in Range(own) : p <= first,
         NEW m \in Nat, m <= Len(own), NEW ranges \in SUBSET (1..m), ranges # {},
         NEW list, list = Indices(1..m, ranges, own, first), NEW k, k = Cardinality(ranges)
  PROVE  IsIndices(list, own, first, k) /\ k \in Nat
<1>1. PICK ids : ids = Ranked(first, ranges)
  OBVIOUS
<1>2. Numbers(ids, ranges, first)
  BY <1>1, RankedNumbers
<1>3. k \in Nat
  BY PartIsFinite
<1>4. /\ \A p \in ranges : ids[p] \in (first + 1)..(first + k)
      /\ \A p, q \in ranges : ids[p] = ids[q] => p = q
      /\ \A j \in (first + 1)..(first + k) : \E p \in ranges : ids[p] = j
  BY <1>2 DEF Numbers
<1>5. \A i \in ranges : ids[i] = first + Cardinality({j \in ranges : j <= i})
  BY <1>1 DEF Ranked
<1>6. DOMAIN list = 1..m /\ \A i \in 1..m : list[i] = IF i \in ranges THEN ids[i] ELSE own[i]
  BY <1>5 DEF Indices
<1>7. \A i \in 1..m : own[i] \in Nat /\ own[i] <= first /\ own[i] \in Range(own) /\ i \in DOMAIN own
  BY DEF Range
<1>8. \A i \in 1..m : list[i] \in Nat
  <2> SUFFICES ASSUME NEW i \in 1..m PROVE list[i] \in Nat
    OBVIOUS
  <2>1. CASE i \in ranges
    <3>1. list[i] \in (first + 1)..(first + k)
      BY <1>4, <1>6, <2>1
    <3> QED
      BY <1>3, <3>1
  <2>2. CASE i \notin ranges
    BY <1>6, <1>7, <2>2
  <2> QED
    BY <2>1, <2>2
<1>9. list \in Seq(Nat)
  <2>1. list = [i \in 1..m |-> list[i]]
    <3>1. list = [i \in DOMAIN list |-> list[i]]
      BY DEF Indices
    <3> QED
      BY <1>6, <3>1
  <2> QED
    BY <1>8, <2>1
<1>10. Once(list)
  <2> SUFFICES ASSUME NEW i \in 1..m, NEW j \in 1..m, list[i] = list[j] PROVE i = j
    BY <1>6 DEF Once
  <2>1. CASE i \in ranges /\ j \in ranges
    BY <1>4, <1>6, <2>1
  <2>2. CASE i \notin ranges /\ j \notin ranges
    BY <1>6, <1>7, <2>2 DEF Once
  <2>3. CASE i \in ranges /\ j \notin ranges
    <3>1. list[i] \in (first + 1)..(first + k) /\ list[j] \in Nat /\ list[j] <= first
      BY <1>4, <1>6, <1>7, <2>3
    <3> QED
      BY <1>3, <3>1
  <2>4. CASE i \notin ranges /\ j \in ranges
    <3>1. list[j] \in (first + 1)..(first + k) /\ list[i] \in Nat /\ list[i] <= first
      BY <1>4, <1>6, <1>7, <2>4
    <3> QED
      BY <1>3, <3>1
  <2> QED
    BY <2>1, <2>2, <2>3, <2>4
<1>11. list # << >>
  <2>1. DOMAIN list # {}
    BY <1>6
  <2> QED
    BY <2>1
<1>12. \A p \in Range(list) : p \in Range(own) \/ p \in (first + 1)..(first + k)
  <2> SUFFICES ASSUME NEW i \in 1..m PROVE list[i] \in Range(own) \/ list[i] \in (first + 1)..(first + k)
    BY <1>6 DEF Range
  <2> QED
    BY <1>4, <1>6, <1>7
<1>13. \A p \in (first + 1)..(first + k) : p \in Range(list)
  <2> SUFFICES ASSUME NEW p \in (first + 1)..(first + k) PROVE p \in Range(list)
    OBVIOUS
  <2>1. PICK i \in ranges : ids[i] = p
    BY <1>4
  <2>2. i \in DOMAIN list /\ list[i] = p
    BY <1>6, <2>1
  <2> QED
    BY <2>2 DEF Range
<1> QED
  BY <1>3, <1>9, <1>10, <1>11, <1>12, <1>13 DEF IsIndices

\* The heap after Rule 9.
Rule9Heap(h, cond, sndr, fresh) == h \o <<cond, sndr>> \o fresh

\* The heap with the condition, the sender and their expressions behind it.
IsRule9Heap(h2, h, cond, sndr, base, k) ==
  /\ h2 \in Seq(Object) /\ DOMAIN h = 1..base
  /\ \A p \in DOMAIN h2 : p \in DOMAIN h \/ p = base + 1 \/ p = base + 2 \/ p \in (base + 3)..(base + 2 + 2 * k)
  /\ DOMAIN h \subseteq DOMAIN h2 /\ \A p \in DOMAIN h : h2[p] = h[p]
  /\ base + 1 \in DOMAIN h2 \ DOMAIN h /\ h2[base + 1] = cond
  /\ base + 2 \in DOMAIN h2 \ DOMAIN h /\ h2[base + 2] = sndr
  /\ \A p \in (base + 3)..(base + 2 + 2 * k) : p \in DOMAIN h2 \ DOMAIN h /\ IsEmpty(h2[p], "Expr", 0)

\* Rule9Heap makes such a heap.
LEMMA Rule9HeapFacts ==
  ASSUME NEW h \in Seq(Object), NEW cond \in Object, NEW sndr \in Object, NEW k \in Nat, NEW base, base = Len(h),
         NEW fresh, fresh = [i \in 1..(2 * k) |-> New("Expr", 0, << >>)],
         NEW h2, h2 = Rule9Heap(h, cond, sndr, fresh)
  PROVE  IsRule9Heap(h2, h, cond, sndr, base, k)
<1>1. PICK x : x = New("Expr", 0, << >>)
  OBVIOUS
<1>2. IsEmpty(x, "Expr", 0)
  <2>1. "Expr" \in AnyKind /\ 0 \in Nat
    BY DEF AnyKind
  <2> QED
    BY <1>1, <2>1, NewEmpty
<1>3. PICK m \in Nat : m = 2 * k
  OBVIOUS
<1>4. fresh = [i \in 1..m |-> x]
  BY <1>1, <1>3
<1>5. x \in Object
  BY <1>2 DEF IsEmpty
<1>6. fresh \in Seq(Object) /\ Len(fresh) = m /\ \A i \in 1..m : fresh[i] = x
  BY <1>4, <1>5
<1>7. PICK two : two = <<cond, sndr>>
  OBVIOUS
<1>8. two \in Seq(Object) /\ Len(two) = 2 /\ two[1] = cond /\ two[2] = sndr
  BY <1>7
<1>9. PICK c : c = h \o two
  OBVIOUS
<1>10. h2 = c \o fresh
  BY <1>7, <1>9 DEF Rule9Heap
<1>11. IsCat(c, h, two)
  BY <1>8, <1>9, HeapCat
<1>12. c \in Seq(Object)
  BY <1>11 DEF IsCat
<1>13. IsCat(h2, c, fresh)
  BY <1>6, <1>10, <1>12, HeapCat
<1>14. /\ Len(c) = base + 2 /\ base \in Nat /\ DOMAIN h = 1..base /\ DOMAIN c = 1..(base + 2) /\ DOMAIN h \subseteq DOMAIN c
       /\ \A p \in DOMAIN h : c[p] = h[p]
       /\ \A i \in 1..2 : base + i \in DOMAIN c \ DOMAIN h /\ c[base + i] = two[i]
  BY <1>8, <1>11 DEF IsCat
<1>15. /\ h2 \in Seq(Object) /\ DOMAIN h2 = 1..(base + 2 + m) /\ DOMAIN c \subseteq DOMAIN h2
       /\ \A p \in DOMAIN c : h2[p] = c[p]
       /\ \A p \in DOMAIN h2 \ DOMAIN c : p - (base + 2) \in 1..m /\ h2[p] = fresh[p - (base + 2)]
  <2>1. /\ h2 \in Seq(Object) /\ DOMAIN h2 = 1..(Len(c) + Len(fresh)) /\ DOMAIN c \subseteq DOMAIN h2
        /\ \A p \in DOMAIN c : h2[p] = c[p]
        /\ \A p \in DOMAIN h2 \ DOMAIN c : p - Len(c) \in 1..Len(fresh) /\ h2[p] = fresh[p - Len(c)]
    BY <1>13 DEF IsCat
  <2>2. Len(c) = base + 2 /\ Len(fresh) = m
    BY <1>6, <1>14
  <2> QED
    BY <2>1, <2>2
<1>16. base + 1 \in DOMAIN c \ DOMAIN h /\ c[base + 1] = cond /\ base + 2 \in DOMAIN c \ DOMAIN h /\ c[base + 2] = sndr
  BY <1>8, <1>14
<1>17. ASSUME NEW p \in (base + 3)..(base + 2 + m) PROVE p \in DOMAIN h2 \ DOMAIN h /\ IsEmpty(h2[p], "Expr", 0)
  <2>1. p \in DOMAIN h2 \ DOMAIN c /\ p \notin DOMAIN h
    BY <1>14, <1>15
  <2>2. h2[p] = x
    BY <1>6, <1>15, <2>1
  <2> QED
    BY <1>2, <2>1, <2>2
<1>18. ASSUME NEW p \in DOMAIN h2
       PROVE  p \in DOMAIN h \/ p = base + 1 \/ p = base + 2 \/ p \in (base + 3)..(base + 2 + m)
  <2>1. base \in Nat /\ DOMAIN h = 1..base /\ DOMAIN h2 = 1..(base + 2 + m)
    BY <1>14, <1>15
  <2>2. p \in Nat /\ 1 <= p /\ p <= base + 2 + m
    BY <2>1
  <2>3. p \in 1..base \/ p = base + 1 \/ p = base + 2 \/ p \in (base + 3)..(base + 2 + m)
    BY <2>1, <2>2
  <2> QED
    BY <2>1, <2>3
<1> QED
  BY <1>3, <1>14, <1>15, <1>16, <1>17, <1>18 DEF IsRule9Heap
-----------------------------------------------------------------------------
\* What the copies of an interaction and its parts point to.
MessageReaches(h2, n, C, new, cond) ==
  /\ \A m \in C : \A p \in Pointers(h2[new[m]]) : p \in DOMAIN heap \/ \E q \in C : p = new[q]
  /\ \A m \in C : \A c \in Range(h2[new[m]].lent) : c \in DOMAIN heap \/ (m = n /\ c = cond)

\* The node of the message reaches its copies.
LEMMA MessageReach ==
  ASSUME Safe(heap, mine, lost), NEW n \in DOMAIN heap, heap[n].kind = "Interaction",
         NEW dropped, DropsRoles(n, dropped), NEW C, IsClonedBut(n, dropped, C),
         NEW h2, NEW new, NEW y, NEW cond, MessageAt(h2, n, C, new, dropped, y, cond)
  PROVE  MessageReaches(h2, n, C, new, cond)
<1>1. /\ h2 \in Seq(Object) /\ NewNames(new) /\ DOMAIN new = C
      /\ IsCopy(y, n, new, dropped) /\ h2[new[n]] = WithCond(y, cond)
      /\ cond \in DOMAIN h2
  BY DEF MessageAt
<1>2. /\ C \subseteq Cloned(n) /\ n \in C /\ C \subseteq DOMAIN heap
      /\ \A m \in C : m # n => \A q \in ClonedParts(m) : q \in C
      /\ \A q \in ClonedParts(n) : q \in dropped \/ q \in C
  BY DEF IsClonedBut
<1>3. ASSUME NEW m \in DOMAIN heap, NEW x, CopyPoints(x, m, new, dropped)
      PROVE  \A p \in Pointers(x) : p \in DOMAIN heap \/ \E q \in C : p = new[q]
  <2>1. Pointers(heap[m]) \subseteq DOMAIN heap
    BY ObjectFacts
  <2> QED
    BY <1>1, <1>3, <2>1 DEF CopyPoints
<1>4. ASSUME NEW m \in C, m # n
      PROVE  /\ \A p \in Pointers(h2[new[m]]) : p \in DOMAIN heap \/ \E q \in C : p = new[q]
             /\ \A c \in Range(h2[new[m]].lent) : c \in DOMAIN heap
  <2>1. PICK x : x = h2[new[m]]
    OBVIOUS
  <2>2. IsCopy(x, m, new, dropped)
    BY <1>4, <2>1 DEF MessageAt
  <2>3. \A q \in ClonedParts(m) : q \in dropped \/ q \in DOMAIN new
    BY <1>1, <1>2, <1>4
  <2>4. m \in DOMAIN heap
    BY <1>2
  <2>5. CopyPoints(x, m, new, dropped)
    BY <1>1, <2>2, <2>3, <2>4, CopyPointers
  <2>6. \A p \in Pointers(x) : p \in DOMAIN heap \/ \E q \in C : p = new[q]
    BY <1>3, <2>4, <2>5
  <2>7. heap[m].kind # "Interaction"
    <3>1. heap[m].kind \in LeafKind
      BY <1>2, <1>4, InteractionParts
    <3> QED
      BY <3>1 DEF LeafKind
  <2>8. \A c \in Range(x.lent) : c \in Range(heap[m].lent)
    BY <2>5, <2>7 DEF CopyPoints
  <2>9. Range(heap[m].lent) \subseteq DOMAIN heap
    BY <2>4, ObjectFacts
  <2> QED
    BY <2>1, <2>6, <2>8, <2>9
<1>5. CopyPoints(y, n, new, dropped)
  <2>1. \A q \in ClonedParts(n) : q \in dropped \/ q \in DOMAIN new
    BY <1>1, <1>2
  <2> QED
    BY <1>1, <2>1, CopyPointers
<1>6. PICK x, s : x = h2[new[n]] /\ s = Just(cond)
  OBVIOUS
<1>7. s \in Seq(Nat) /\ Range(s) = {cond}
  <2>1. PICK p \in Nat : p = cond
    BY <1>1
  <2>2. <<p>> \in Seq(Nat) /\ Range(<<p>>) = {p}
    BY OneIsSeq
  <2> QED
    BY <1>6, <2>1, <2>2 DEF Just
<1>8. x.lent = s /\ x.one = y.one /\ x.many = y.many
  <2>1. x = [y EXCEPT !.lent = s]
    BY <1>1, <1>6 DEF WithCond, Just
  <2>2. y \in Object
    BY <1>1 DEF IsCopy
  <2> QED
    BY <1>7, <2>1, <2>2, RecordLent
<1>9. Pointers(x) = Pointers(y)
  BY <1>8 DEF Pointers
<1>10. \A p \in Pointers(y) : p \in DOMAIN heap \/ \E q \in C : p = new[q]
  BY <1>3, <1>5
<1>11. /\ \A p \in Pointers(h2[new[n]]) : p \in DOMAIN heap \/ \E q \in C : p = new[q]
       /\ \A c \in Range(h2[new[n]].lent) : c = cond
  BY <1>6, <1>7, <1>8, <1>9, <1>10
<1>12. ASSUME NEW m \in C PROVE \A p \in Pointers(h2[new[m]]) : p \in DOMAIN heap \/ \E q \in C : p = new[q]
  BY <1>4, <1>11
<1>13. ASSUME NEW m \in C PROVE \A c \in Range(h2[new[m]].lent) : c \in DOMAIN heap \/ (m = n /\ c = cond)
  BY <1>4, <1>11
<1> QED
  BY <1>12, <1>13 DEF MessageReaches

\* A role with some indices of its own and others that a role of the heap has.
IsRanged(h2, x, q, first, k) ==
  /\ x.kind = "Role" /\ x.live /\ x.one = 0 /\ Range(x.lent) = {}
  /\ Pointers(x) = Range(x.many) /\ x.many # << >> /\ Fit(h2, x)
  /\ \A p \in Pointers(x) :
       (p \in Pointers(heap[q]) /\ heap[p].kind = "Expr") \/ p \in (first + 1)..(first + k)
  /\ \A p \in (first + 1)..(first + k) : p \in Pointers(x)

\* The condition and the sender fit, and what they point to.
LEMMA RangedFacts ==
  ASSUME Safe(heap, mine, lost), NEW q \in DOMAIN heap, heap[q].kind = "Role", NEW h2, SameKinds(heap, h2),
         NEW list, NEW first \in Nat, NEW k \in Nat, IsIndices(list, heap[q].many, first, k),
         \A p \in (first + 1)..(first + k) : p \in DOMAIN h2 /\ h2[p].kind = "Expr",
         NEW x, IsNew(x, "Role", 0, list)
  PROVE  IsRanged(h2, x, q, first, k)
<1>1. /\ list \in Seq(Nat) /\ Once(list) /\ list # << >>
      /\ \A p \in Range(list) : p \in Range(heap[q].many) \/ p \in (first + 1)..(first + k)
      /\ \A p \in (first + 1)..(first + k) : p \in Range(list)
  BY DEF IsIndices
<1>2. /\ x.kind = "Role" /\ x.live /\ x.one = 0 /\ x.many = list /\ Range(x.lent) = {}
      /\ Pointers(x) = (Range(list) \cup {0}) \ {0}
  BY DEF IsNew
<1>3. /\ Pointers(heap[q]) = (Range(heap[q].many) \cup {heap[q].one}) \ {0} /\ 0 \notin DOMAIN heap
      /\ Range(heap[q].many) \subseteq DOMAIN heap
      /\ \A p \in Range(heap[q].many) : heap[p].kind \in HoldsMany("Role")
  BY ObjectFacts
<1>4. \A p \in Range(heap[q].many) : p \in Pointers(heap[q]) /\ heap[p].kind = "Expr" /\ p \in DOMAIN heap
  BY <1>3 DEF HoldsMany
<1>5. 0 \notin Range(list)
  BY <1>1, <1>3
<1>6. Pointers(x) = Range(list)
  BY <1>2, <1>5
<1>7. \A p \in Range(list) : p \in DOMAIN h2 /\ h2[p].kind = "Expr"
  BY <1>1, <1>4 DEF SameKinds
<1>8. Fit(h2, x)
  <2>1. Holds(h2, Range(x.many), HoldsMany("Role"))
    BY <1>2, <1>7 DEF Holds, HoldsMany
  <2>2. Holds(h2, Range(x.lent), HoldsLent("Role"))
    BY <1>2 DEF Holds
  <2>3. \A i, j \in DOMAIN x.many : x.many[i] = x.many[j] => i = j
    BY <1>1, <1>2 DEF Once
  <2> QED
    BY <1>2, <1>5, <2>1, <2>2, <2>3 DEF Fit
<1> QED
  BY <1>1, <1>2, <1>4, <1>6, <1>8 DEF IsRanged

\* Rule 9: the copy for a receiver, with a new condition, and the sender that is left behind.
Relative(h2, n, r, s, C, new, dropped, y, base, k) ==
  /\ MessageAt(h2, n, C, new, dropped, y, base + 1) /\ BlockFor(h2, new[n])
  /\ DOMAIN heap \subseteq DOMAIN h2 /\ \A o \in DOMAIN heap : h2[o] = heap[o]
  /\ Fresh \in DOMAIN h2 \ DOMAIN heap /\ Fresh <= base
  /\ base \in Nat /\ k \in Nat /\ \A o \in DOMAIN heap : o <= base
  /\ \A m \in C : new[m] \notin DOMAIN heap /\ new[m] # Fresh /\ new[m] <= base
  /\ base + 1 \in DOMAIN h2 /\ IsRanged(h2, h2[base + 1], r, base + 2, k)
  /\ base + 2 \in DOMAIN h2 /\ IsRanged(h2, h2[base + 2], s, base + 2 + k, k)
  /\ \A p \in (base + 3)..(base + 2 + 2 * k) : p \in DOMAIN h2 /\ IsEmpty(h2[p], "Expr", 0)
  /\ \A o \in DOMAIN h2 \ DOMAIN heap :
       \/ o = Fresh \/ (\E m \in C : o = new[m]) \/ o = base + 1 \/ o = base + 2
       \/ o \in (base + 3)..(base + 2 + 2 * k)
-----------------------------------------------------------------------------
\* Rule 9 leaves the heap safe: what its new roles share is the index of a role, and the sender
\* left behind is the sign of it.
LEMMA RelativeSafe ==
  ASSUME Safe(heap, mine, lost), NEW n \in Live, heap[n].kind = "Interaction", Cloned(n) \subseteq Live,
         NEW r \in DOMAIN heap, heap[r].kind = "Role", NEW s \in DOMAIN heap, heap[s].kind = "Role",
         NEW dropped, DropsRoles(n, dropped), NEW C, IsClonedBut(n, dropped, C), NEW new, NEW y,
         NEW h2, NEW base, NEW k, Relative(h2, n, r, s, C, new, dropped, y, base, k),
         NEW mn2, mn2 = mine \cup {Fresh}, NEW ls2, ls2 = lost \cup {base + 2}
  PROVE  Safe(h2, mn2, ls2)
<1>0. n \in DOMAIN heap /\ Formed(heap) /\ mine \subseteq DOMAIN heap /\ lost \subseteq DOMAIN heap
  BY DEF Live, Safe, Held
<1>1. /\ MessageAt(h2, n, C, new, dropped, y, base + 1) /\ BlockFor(h2, new[n])
      /\ DOMAIN heap \subseteq DOMAIN h2 /\ \A o \in DOMAIN heap : h2[o] = heap[o]
      /\ Fresh \in DOMAIN h2 \ DOMAIN heap /\ Fresh <= base
      /\ base \in Nat /\ k \in Nat /\ \A o \in DOMAIN heap : o <= base
      /\ \A m \in C : new[m] \notin DOMAIN heap /\ new[m] # Fresh /\ new[m] <= base
  BY DEF Relative
<1>2. PICK c, t, E1, E2 : /\ c = base + 1 /\ t = base + 2
                          /\ E1 = (base + 3)..(base + 2 + k) /\ E2 = (base + 3 + k)..(base + 2 + 2 * k)
  OBVIOUS
<1>3. /\ c \in DOMAIN h2 /\ IsRanged(h2, h2[c], r, base + 2, k)
      /\ t \in DOMAIN h2 /\ IsRanged(h2, h2[t], s, base + 2 + k, k)
  BY <1>2 DEF Relative
<1>4. (base + 3)..(base + 2 + 2 * k) = E1 \cup E2 /\ E1 \cap E2 = {}
  BY <1>1, <1>2
<1>5. (base + 2 + 1)..(base + 2 + k) = E1 /\ (base + 2 + k + 1)..(base + 2 + k + k) = E2
  BY <1>1, <1>2
<1>6. \A p \in E1 \cup E2 : p \in DOMAIN h2 /\ IsEmpty(h2[p], "Expr", 0)
  BY <1>4 DEF Relative
<1>7. \A o \in DOMAIN h2 \ DOMAIN heap : o = Fresh \/ (\E m \in C : o = new[m]) \/ o = c \/ o = t \/ o \in E1 \cup E2
  BY <1>2, <1>4 DEF Relative
<1>8. /\ h2[c].kind = "Role" /\ h2[c].live /\ h2[c].one = 0 /\ Range(h2[c].lent) = {} /\ Fit(h2, h2[c])
      /\ \A p \in Pointers(h2[c]) : (p \in Pointers(heap[r]) /\ heap[p].kind = "Expr") \/ p \in E1
      /\ \A p \in E1 : p \in Pointers(h2[c])
  BY <1>3, <1>5 DEF IsRanged
<1>9. /\ h2[t].kind = "Role" /\ h2[t].live /\ h2[t].one = 0 /\ Range(h2[t].lent) = {} /\ Fit(h2, h2[t]) /\ h2[t].many # << >>
      /\ \A p \in Pointers(h2[t]) : (p \in Pointers(heap[s]) /\ heap[p].kind = "Expr") \/ p \in E2
      /\ \A p \in E2 : p \in Pointers(h2[t])
  BY <1>3, <1>5 DEF IsRanged
<1>10. ASSUME NEW p \in {c, t} \cup E1 \cup E2
       PROVE  p \notin DOMAIN heap /\ p # Fresh /\ \A m \in C : p # new[m]
  <2>1. p \in Nat /\ p > base
    BY <1>1, <1>2
  <2>2. \A o \in DOMAIN heap : o \in Nat /\ o <= base
    <3>1. DOMAIN heap = 1..Len(heap) /\ Len(heap) \in Nat
      BY <1>0, PointersInHeap
    <3> QED
      BY <1>1, <3>1
  <2>3. Fresh \in Nat /\ \A m \in C : new[m] \in Nat
    <3>1. DOMAIN h2 = 1..Len(h2) /\ h2 \in Seq(Object) /\ \A m \in C : new[m] \in DOMAIN h2
      BY <1>1 DEF MessageAt
    <3> QED
      BY <1>1, <3>1
  <2>4. p \notin DOMAIN heap
    BY <1>1, <2>1, <2>2
  <2>5. p # Fresh
    BY <1>1, <2>1, <2>3
  <2>6. ASSUME NEW m \in C PROVE p # new[m]
    BY <1>1, <2>1, <2>3
  <2> QED
    BY <2>4, <2>5, <2>6
<1>11. c # t /\ c \notin E1 \cup E2 /\ t \notin E1 \cup E2
  BY <1>1, <1>2
<1>12. /\ h2 \in Seq(Object) /\ SameKinds(heap, h2) /\ NewNames(new) /\ DOMAIN new = C
       /\ \A m \in C : new[m] \in DOMAIN h2 /\ h2[new[m]].kind = heap[m].kind
  BY <1>1 DEF MessageAt
<1>13. C \subseteq DOMAIN heap /\ n \in C
  BY DEF IsClonedBut
<1>14. PICK none, nothing : none = {} /\ nothing = [q \in none |-> 0]
  OBVIOUS
<1>15. PICK P, ids : /\ \A j, m : In(P, j, m) <=> j = n /\ m \in C
                     /\ \A m \in C : Id(ids, n, m) = new[m]
  <2>1. \E P, ids : TwoFamilies(P, ids, n, C, new, r, none, nothing)
    BY <1>0, TwoFamiliesExist
  <2> QED
    BY <1>14, <2>1 DEF TwoFamilies
<1>16. PICK o : o = new[n]
  OBVIOUS
<1>17. PICK holder, L, X, H, roots, r2 :
         /\ holder = [q \in {n} |-> Fresh] /\ L = {} /\ X = {Fresh, c, t} \cup E1 \cup E2
         /\ H = {} /\ roots = {} /\ r2 = Relic(h2, mn2, ls2)
  OBVIOUS
<1>18. holder[n] = Fresh /\ NewIn(h2, H) = DOMAIN h2 \ DOMAIN heap
  BY <1>17 DEF NewIn
<1>19. SiteNames(new, P, ids, n)
  BY <1>12, <1>15 DEF SiteNames
<1>20. ASSUME NEW j, NEW m, In(P, j, m)
       PROVE  /\ j = n /\ m \in C /\ m \in DOMAIN heap /\ Id(ids, j, m) = new[m]
              /\ Id(ids, j, m) \in DOMAIN h2 \ DOMAIN heap /\ Id(ids, j, m) # Fresh
              /\ h2[Id(ids, j, m)].kind = heap[m].kind
  BY <1>1, <1>12, <1>13, <1>15, <1>20
<1>21. Family(h2, mn2, P, ids, holder, H)
  <2>1. \A j, m : In(P, j, m) => Id(ids, j, m) \notin mn2
    BY <1>0, <1>20
  <2>2. \A j, m, i, l : In(P, j, m) /\ In(P, i, l) /\ Id(ids, j, m) = Id(ids, i, l) => j = i /\ m = l
    BY <1>12, <1>20 DEF NewNames
  <2>3. In(P, n, n)
    BY <1>13, <1>15
  <2> QED
    BY <1>0, <1>20, <2>1, <2>2, <2>3 DEF Family
<1>22. ASSUME NEW p \in {c, t} \cup E1 \cup E2
       PROVE  /\ p \in DOMAIN h2 \ DOMAIN heap /\ p \notin mn2 /\ \A j, m : In(P, j, m) => p # Id(ids, j, m)
  <2>1. p \notin DOMAIN heap /\ p # Fresh /\ \A m \in C : p # new[m]
    BY <1>10
  <2>2. p \in DOMAIN h2
    BY <1>3, <1>6
  <2> QED
    BY <1>0, <1>20, <2>1, <2>2
<1>23. Extends(h2, P, ids, X)
  <2>1. \A p \in DOMAIN h2 \ DOMAIN heap : p \in X \/ \E j, m : In(P, j, m) /\ p = Id(ids, j, m)
    BY <1>7, <1>15, <1>17
  <2>2. X \subseteq DOMAIN h2 \ DOMAIN heap
    BY <1>1, <1>17, <1>22
  <2>3. \A j, m : In(P, j, m) => Id(ids, j, m) \notin X
    BY <1>17, <1>20, <1>22
  <2> QED
    BY <1>1, <1>12, <2>1, <2>2, <2>3 DEF Extends
<1>24. MessageAt(h2, n, C, new, dropped, y, c)
  BY <1>1, <1>2
<1>25. /\ \A m \in C : \A p \in Pointers(h2[new[m]]) : p \in DOMAIN heap \/ \E q \in C : p = new[q]
       /\ \A m \in C : \A p \in Range(h2[new[m]].lent) : p \in DOMAIN heap \/ (m = n /\ p = c)
  <2>1. MessageReaches(h2, n, C, new, c)
    BY <1>0, <1>24, MessageReach
  <2> QED
    BY <2>1 DEF MessageReaches
<1>26. h2[Fresh].kind = "Block" /\ h2[Fresh].live /\ Fit(h2, h2[Fresh]) /\ Pointers(h2[Fresh]) = {o} /\ Range(h2[Fresh].lent) = {}
  BY <1>1, <1>16 DEF BlockFor
<1>27. \A p \in E1 \cup E2 : /\ h2[p].kind = "Expr" /\ h2[p].live /\ Pointers(h2[p]) = {} /\ Range(h2[p].lent) = {}
                            /\ h2[p].one = 0 /\ h2[p].many = << >> /\ Range(h2[p].many) = {}
  BY <1>6 DEF IsEmpty
\* Who points to what is new.
<1>28. ASSUME NEW q \in DOMAIN h2 \ DOMAIN heap, NEW p \in Pointers(h2[q])
       PROVE  \/ p \in DOMAIN heap \/ (p = o /\ q = Fresh) \/ (\E m \in C : p = new[m])
              \/ (q = c /\ p \in E1) \/ (q = t /\ p \in E2)
  <2>1. CASE q = Fresh
    BY <1>26, <2>1
  <2>2. CASE \E m \in C : q = new[m]
    BY <1>25, <2>2
  <2>3. CASE q = c
    <3>1. Pointers(heap[r]) \subseteq DOMAIN heap
      BY ObjectFacts
    <3> QED
      BY <1>8, <2>3, <3>1
  <2>4. CASE q = t
    <3>1. Pointers(heap[s]) \subseteq DOMAIN heap
      BY ObjectFacts
    <3> QED
      BY <1>9, <2>4, <3>1
  <2>5. CASE q \in E1 \cup E2
    BY <1>27, <2>5
  <2> QED
    BY <1>7, <2>1, <2>2, <2>3, <2>4, <2>5
<1>29. ASSUME NEW q \in DOMAIN h2 \ DOMAIN heap, NEW p \in Range(h2[q].lent)
       PROVE  p \in DOMAIN heap \/ (q = o /\ p = c)
  <2>1. CASE \E m \in C : q = new[m]
    BY <1>16, <1>25, <2>1
  <2> QED
    BY <1>7, <1>8, <1>9, <1>26, <1>27, <2>1
<1>30. \A q \in DOMAIN h2 \ DOMAIN heap : c \notin Pointers(h2[q]) /\ t \notin Pointers(h2[q]) /\ Fresh \notin Pointers(h2[q])
  <2>1. \A m \in C : c # new[m] /\ t # new[m] /\ Fresh # new[m]
    BY <1>1, <1>10
  <2>2. c \notin DOMAIN heap /\ t \notin DOMAIN heap /\ Fresh \notin DOMAIN heap /\ Fresh \notin E1 \cup E2
    BY <1>1, <1>10
  <2>3. o = new[n] /\ n \in C
    BY <1>13, <1>16
  <2> QED
    BY <1>11, <1>28, <2>1, <2>2, <2>3
<1>31. r2 = TRUE
  <2>1. Stray(h2, mn2, t)
    <3>1. ASSUME NEW q \in DOMAIN h2 PROVE t \notin Pointers(h2[q]) /\ t \notin Range(h2[q].lent)
      <4>1. CASE q \in DOMAIN heap
        <5>1. Pointers(heap[q]) \subseteq DOMAIN heap /\ Range(heap[q].lent) \subseteq DOMAIN heap
          BY <4>1, ObjectFacts
        <5>2. t \notin DOMAIN heap
          BY <1>22
        <5> QED
          BY <1>1, <4>1, <5>1, <5>2
      <4>2. CASE q \notin DOMAIN heap
        BY <1>11, <1>22, <1>29, <1>30, <4>2
      <4> QED
        BY <4>1, <4>2
    <3>2. t \in DOMAIN h2 /\ t \notin mn2 \cup kept
      <4>1. kept \subseteq DOMAIN heap
        BY DEF Safe, Conditions
      <4> QED
        BY <1>22, <4>1
    <3> QED
      BY <3>1, <3>2 DEF Stray
  <2>2. t \in ls2
    BY <1>2
  <2>3. Relic(h2, mn2, ls2)
    BY <1>9, <2>1, <2>2 DEF Relic
  <2>4. Relic(h2, mn2, ls2) \in BOOLEAN
    BY DEF Relic
  <2> QED
    BY <1>17, <2>3, <2>4
<1>32. /\ \A p \in E1 : Sole(h2, mn2, P, ids, H, c, p)
       /\ \A p \in E2 : Sole(h2, mn2, P, ids, H, t, p)
  <2>1. ASSUME NEW p \in E1 \cup E2, NEW q \in NewIn(h2, H), p \in Pointers(h2[q])
        PROVE  (q = c /\ p \in E1) \/ (q = t /\ p \in E2)
    <3>1. p \notin DOMAIN heap /\ \A m \in C : p # new[m]
      BY <1>10
    <3> QED
      BY <1>13, <1>16, <1>18, <1>28, <2>1, <3>1
  <2>2. \A p \in E1 : p \notin E2
    BY <1>4
  <2> QED
    BY <1>22, <2>1, <2>2 DEF Sole
<1>33. SoleLent(h2, mn2, P, ids, H, o, c)
  <2>1. \A q \in NewIn(h2, H) : c \in Range(h2[q].lent) => q = o
    BY <1>18, <1>22, <1>29
  <2> QED
    BY <1>18, <1>22, <1>30, <2>1 DEF SoleLent
<1>34. /\ \A m \in C : SiteMember(h2, mn2, P, ids, holder, L, n, m, new[m])
       /\ MessagePoints(h2, n, C, new, dropped, y)
       /\ h2[new[n]].kind = "Interaction" /\ Range(h2[new[n]].lent) = {c}
  <2>1. CondAt(h2, mn2, P, ids, holder, L, new[n], c)
    BY <1>16, <1>17, <1>33 DEF CondAt
  <2>2. MembersAt(h2, mn2, P, ids, holder, L, n, C, new, c) /\ MessagePoints(h2, n, C, new, dropped, y)
    BY <1>19, <1>24, <2>1, MessageMembers
  <2> QED
    BY <2>2 DEF MembersAt
<1>35. ASSUME NEW j, NEW m, In(P, j, m) PROVE SiteMember(h2, mn2, P, ids, holder, L, j, m, Id(ids, j, m))
  <2>1. PICK p : p = Id(ids, j, m)
    OBVIOUS
  <2>2. j = n /\ m \in C /\ p = new[m]
    BY <1>20, <1>35, <2>1
  <2>3. SiteMember(h2, mn2, P, ids, holder, L, n, m, p)
    BY <1>34, <2>2
  <2> QED
    BY <2>1, <2>2, <2>3
<1>36. ASSUME NEW b \in {c, t}, NEW q \in DOMAIN heap, heap[q].kind = "Role", h2[b].kind = "Role",
              \A p \in Pointers(h2[b]) : (p \in Pointers(heap[q]) /\ heap[p].kind = "Expr") \/ Sole(h2, mn2, P, ids, H, b, p)
       PROVE  PointsAs(h2, mn2, r2, P, ids, holder, L, H, b)
  <2>1. ASSUME NEW p \in Pointers(heap[q]), heap[p].kind = "Expr" PROVE SharedWith(h2, r2, b, p)
    <3>1. p \in DOMAIN heap
      BY ObjectFacts
    <3>2. h2[p].kind = "Expr" /\ h2[q].kind = "Role"
      BY <1>1, <1>36, <2>1, <3>1
    <3>3. MayShare(h2, r2, b, p) /\ MayShare(h2, r2, q, p)
      BY <1>31, <1>36, <3>2 DEF MayShare
    <3>4. b \notin DOMAIN heap
      BY <1>22
    <3> QED
      BY <3>3, <3>4 DEF SharedWith
  <2> QED
    BY <1>36, <2>1 DEF PointsAs
<1>37. ASSUME NEW p \in X
       PROVE  /\ h2[p].live /\ Fit(h2, h2[p])
              /\ PointsAs(h2, mn2, r2, P, ids, holder, L, H, p)
              /\ BorrowsAs(h2, mn2, roots, P, ids, holder, L, H, p)
  <2>1. CASE p = Fresh
    <3>1. In(P, n, n) /\ n \notin L /\ o = Id(ids, n, n) /\ holder[n] = Fresh
      BY <1>13, <1>15, <1>16, <1>17, <1>18
    <3>2. PointsAs(h2, mn2, r2, P, ids, holder, L, H, Fresh)
      BY <1>26, <3>1 DEF PointsAs
    <3> QED
      BY <1>26, <2>1, <3>2 DEF BorrowsAs
  <2>2. CASE p = c
    <3>1. PointsAs(h2, mn2, r2, P, ids, holder, L, H, c)
      BY <1>8, <1>32, <1>36
    <3> QED
      BY <1>8, <2>2, <3>1 DEF BorrowsAs
  <2>3. CASE p = t
    <3>1. PointsAs(h2, mn2, r2, P, ids, holder, L, H, t)
      BY <1>9, <1>32, <1>36
    <3> QED
      BY <1>9, <2>3, <3>1 DEF BorrowsAs
  <2>4. CASE p \in E1 \cup E2
    <3>1. PICK x : x = h2[p]
      OBVIOUS
    <3>2. /\ x.kind = "Expr" /\ x.live /\ Pointers(x) = {} /\ Range(x.lent) = {}
          /\ x.one = 0 /\ x.many = << >> /\ Range(x.many) = {}
      BY <1>27, <2>4, <3>1
    <3>3. Fit(h2, x)
      BY <3>2, RangeNone DEF Fit, Holds
    <3> QED
      BY <3>1, <3>2, <3>3 DEF PointsAs, BorrowsAs
  <2> QED
    BY <1>17, <2>1, <2>2, <2>3, <2>4
<1>38. ASSUME NEW q \in NewIn(h2, H), NEW p \in Pointers(h2[q]), Sole(h2, mn2, P, ids, H, q, p)
       PROVE  h2[q].kind \in LeafKind \ {"Expr"}
  <2>1. p \notin DOMAIN heap /\ \A m \in C : p # new[m]
    BY <1>15, <1>38 DEF Sole
  <2>2. q = c \/ q = t
    BY <1>13, <1>16, <1>18, <1>28, <2>1
  <2> QED
    BY <1>8, <1>9, <2>2 DEF LeafKind
<1>39. \A q, p : Sole(h2, mn2, P, ids, H, q, p) /\ q \in NewIn(h2, H) /\ p \in Pointers(h2[q]) =>
         h2[q].kind \in LeafKind \ {"Expr"} \/ h2[p].kind \in LeafKind \ {"Expr"}
  BY <1>38
<1>40. Nested(h2, P, ids, holder, NodeKind, H)
  <2> SUFFICES ASSUME NEW j, In(P, j, j)
               PROVE  holder[j] \notin H /\ \A q \in NewIn(h2, H) : holder[j] \notin Pointers(h2[q])
    BY DEF Nested
  <2> QED
    BY <1>17, <1>18, <1>20, <1>30
<1>41. Nested(h2, P, ids, holder, {"Expr"}, H)
  BY <1>20 DEF Nested
<1>42. ASSUME NEW p \in DOMAIN h2 \ DOMAIN heap PROVE Found(h2, mn2, ls2, p)
  <2>1. CASE p = Fresh
    BY <2>1 DEF Found
  <2>2. CASE p = o
    BY <1>1, <1>26, <2>2 DEF Found
  <2>3. CASE \E m \in C : m # n /\ p = new[m]
    <3>1. PICK m \in C : m # n /\ p = new[m]
      BY <2>3
    <3> QED
      BY <1>0, <1>24, <1>34, <3>1, MessageFound
  <2>4. CASE p = c
    <3>1. Lends(h2, o, c) /\ o \in DOMAIN h2
      BY <1>12, <1>13, <1>16, <1>34 DEF Lends
    <3> QED
      BY <2>4, <3>1 DEF Found
  <2>5. CASE p = t
    BY <1>2, <2>5 DEF Found
  <2>6. CASE p \in E1 \cup E2
    BY <1>3, <1>8, <1>9, <2>6 DEF Found
  <2> QED
    BY <1>7, <1>16, <2>1, <2>2, <2>3, <2>4, <2>5, <2>6
<1>43. /\ mine \subseteq mn2 /\ \A p \in mn2 : p \in mine \/ p \in DOMAIN h2 \ DOMAIN heap
       /\ lost \subseteq ls2 /\ ls2 \subseteq DOMAIN h2
  BY <1>0, <1>1, <1>2, <1>3
<1> QED
  BY <1>17, <1>21, <1>23, <1>35, <1>37, <1>39, <1>40, <1>41, <1>42, <1>43, CopiesStep
-----------------------------------------------------------------------------
\* st_param_node_project of a message by Rule 9.
RelativeMade(n, r, ranges) ==
  LET g == CopyFor(n, r).heap
      base == Len(g)
      k == Cardinality(ranges)
      s == heap[n].one
      dims == DOMAIN heap[s].many
  IN Rule9Heap(WithLent(g, CopyFor(n, r).node, Just(base + 1)),
               New("Role", 0, Indices(dims, ranges, heap[r].many, base + 2)),
               New("Role", 0, Indices(dims, ranges, heap[s].many, base + 2 + k)),
               [i \in 1..(2 * k) |-> New("Expr", 0, << >>)])

\* ProjectRelative in parts.
RelativeProjected(n, r, ranges) ==
  /\ Running /\ heap[n].one # 0 /\ Cloned(n) \subseteq Live
  /\ Len(heap[r].many) >= Len(heap[heap[n].one].many)
  /\ heap' = RelativeMade(n, r, ranges) /\ mine' = mine \cup {Fresh}
  /\ profile' = profile /\ lost' = lost \cup {Len(CopyFor(n, r).heap) + 2} /\ ub' = ub

\* The heap that Rule 9 makes is made of these.
LEMMA RelativeIs ==
  ASSUME IInv, ProjectRelative
  PROVE  \E n \in Named({"Interaction"}) : \E r \in Rcvrs(n) :
           \E ranges \in (SUBSET DOMAIN heap[heap[n].one].many) \ {{}} : RelativeProjected(n, r, ranges)
<1>1. PICK n \in Named({"Interaction"}) : \E r \in Rcvrs(n) :
        /\ heap[n].one # 0 /\ Cloned(n) \subseteq Live /\ Len(heap[r].many) >= Len(heap[heap[n].one].many)
        /\ \E ranges \in (SUBSET DOMAIN heap[heap[n].one].many) \ {{}} :
             /\ Room(Len(CopyFor(n, r).heap) - Len(heap) + 2 + 2 * Cardinality(ranges))
             /\ heap' = RelativeMade(n, r, ranges)
             /\ lost' = lost \cup {Len(CopyFor(n, r).heap) + 2}
        /\ Keep(Fresh, {})
        /\ UNCHANGED <<profile, ub>>
  BY DEF ProjectRelative, RelativeMade, Rule9Heap, WithLent, Just, Indices
<1>2. PICK r \in Rcvrs(n) :
        /\ heap[n].one # 0 /\ Cloned(n) \subseteq Live /\ Len(heap[r].many) >= Len(heap[heap[n].one].many)
        /\ \E ranges \in (SUBSET DOMAIN heap[heap[n].one].many) \ {{}} :
             /\ Room(Len(CopyFor(n, r).heap) - Len(heap) + 2 + 2 * Cardinality(ranges))
             /\ heap' = RelativeMade(n, r, ranges)
             /\ lost' = lost \cup {Len(CopyFor(n, r).heap) + 2}
        /\ Keep(Fresh, {})
        /\ UNCHANGED <<profile, ub>>
  BY <1>1
<1>3. PICK ranges \in (SUBSET DOMAIN heap[heap[n].one].many) \ {{}} :
        /\ Room(Len(CopyFor(n, r).heap) - Len(heap) + 2 + 2 * Cardinality(ranges))
        /\ heap' = RelativeMade(n, r, ranges)
        /\ lost' = lost \cup {Len(CopyFor(n, r).heap) + 2}
  BY <1>2
<1>4. mine' = mine \cup {Fresh}
  BY <1>2 DEF Keep
<1>5. RelativeProjected(n, r, ranges)
  BY <1>2, <1>3, <1>4 DEF RelativeProjected, Room
<1> QED
  BY <1>5

\* That heap has the shape RelativeSafe asks for.
LEMMA RelativeFacts ==
  ASSUME Safe(heap, mine, lost), NEW n \in Live, heap[n].kind = "Interaction",
         NEW r \in DOMAIN heap, heap[r].kind = "Role", NEW s \in DOMAIN heap, heap[s].kind = "Role", s = heap[n].one,
         NEW dropped, DropsRoles(n, dropped), NEW C, IsClonedBut(n, dropped, C), NEW new,
         NEW g, g = CopyFor(n, r).heap, IsCopyFor(g, n, C, new, dropped), CopyFor(n, r).node = new[n],
         NEW m, m = Len(heap[s].many), Len(heap[r].many) >= m,
         NEW ranges \in SUBSET (1..m), ranges # {}, NEW h2, h2 = RelativeMade(n, r, ranges),
         NEW base, base = Len(g), NEW k, k = Cardinality(ranges)
  PROVE  Relative(h2, n, r, s, C, new, dropped, g[new[n]], base, k)
<1>1. /\ g \in Seq(Object) /\ DOMAIN heap \subseteq DOMAIN g /\ \A o \in DOMAIN heap : g[o] = heap[o]
      /\ Fresh \in DOMAIN g /\ Fresh \notin DOMAIN heap
      /\ NewNames(new) /\ DOMAIN new = C
      /\ g[Fresh].kind = "Block" /\ g[Fresh].live /\ Range(g[Fresh].lent) = {} /\ Pointers(g[Fresh]) = {new[n]}
      /\ g[Fresh].one = 0 /\ Range(g[Fresh].many) = {new[n]} /\ Once(g[Fresh].many)
      /\ \A q \in C : new[q] \in DOMAIN g /\ new[q] \notin DOMAIN heap /\ new[q] # Fresh /\ IsCopy(g[new[q]], q, new, dropped)
      /\ \A o \in DOMAIN g \ DOMAIN heap : o = Fresh \/ \E q \in C : o = new[q]
  BY DEF IsCopyFor
<1>2. n \in C /\ C \subseteq DOMAIN heap
  BY DEF IsClonedBut
<1>3. base \in Nat /\ DOMAIN g = 1..base
  BY <1>1
<1>4. PICK own, theirs : own = heap[r].many /\ theirs = heap[s].many
  OBVIOUS
<1>5. own \in Seq(Nat) /\ Once(own) /\ Range(own) \subseteq DOMAIN heap
  BY <1>4, ObjectFacts
<1>6. theirs \in Seq(Nat) /\ Once(theirs) /\ Range(theirs) \subseteq DOMAIN heap
  BY <1>4, ObjectFacts
<1>7. m \in Nat /\ m <= Len(own) /\ m <= Len(theirs) /\ DOMAIN theirs = 1..m
  <2>1. Len(own) \in Nat /\ Len(theirs) \in Nat /\ DOMAIN theirs = 1..Len(theirs)
    BY <1>5, <1>6
  <2> QED
    BY <1>4, <2>1
<1>8. k \in Nat
  BY <1>7, PartIsFinite
<1>9. \A p \in DOMAIN heap : p \in Nat /\ p <= base
  BY <1>1, <1>3
<1>10. PICK f1, f2, l1, l2 : /\ f1 = base + 2 /\ f2 = base + 2 + k
                             /\ l1 = Indices(1..m, ranges, own, f1) /\ l2 = Indices(1..m, ranges, theirs, f2)
  OBVIOUS
<1>11. f1 \in Nat /\ f2 \in Nat
  BY <1>3, <1>8, <1>10
<1>12. IsIndices(l1, own, f1, k)
  <2>1. \A p \in Range(own) : p <= f1
    BY <1>3, <1>5, <1>9, <1>10
  <2> QED
    BY <1>5, <1>7, <1>10, <1>11, <2>1, IndicesFacts
<1>13. IsIndices(l2, theirs, f2, k)
  <2>1. \A p \in Range(theirs) : p <= f2
    BY <1>3, <1>6, <1>8, <1>9, <1>10
  <2> QED
    BY <1>6, <1>7, <1>10, <1>11, <2>1, IndicesFacts
<1>14. PICK cond, sndr : cond = New("Role", 0, l1) /\ sndr = New("Role", 0, l2)
  OBVIOUS
<1>15. IsNew(cond, "Role", 0, l1) /\ IsNew(sndr, "Role", 0, l2)
  <2>1. "Role" \in AnyKind /\ 0 \in Nat /\ l1 \in Seq(Nat) /\ l2 \in Seq(Nat)
    BY <1>12, <1>13 DEF AnyKind, IsIndices
  <2> QED
    BY <1>14, <2>1, NewFacts
<1>16. PICK o, lent, h : o = new[n] /\ lent = Just(base + 1) /\ h = WithLent(g, o, lent)
  OBVIOUS
<1>17. lent \in Seq(Nat)
  <2>1. PICK p \in Nat : p = base + 1
    BY <1>3
  <2>2. <<p>> \in Seq(Nat)
    BY OneIsSeq
  <2> QED
    BY <1>16, <2>1, <2>2 DEF Just
<1>18. o \in DOMAIN g
  BY <1>1, <1>2, <1>16
<1>19. /\ h \in Seq(Object) /\ DOMAIN h = DOMAIN g /\ Len(h) = Len(g)
       /\ h[o].kind = g[o].kind /\ \A q \in DOMAIN g : q # o => h[q] = g[q]
  <2>1. g \in Seq(Object)
    BY <1>1
  <2>2. h = WithLent(g, o, lent)
    BY <1>16
  <2> QED
    BY <1>17, <1>18, <2>1, <2>2, EditLent
<1>20. h[o] = WithCond(g[o], base + 1)
  BY <1>16, <1>18 DEF WithLent, WithCond, Just
<1>21. PICK fresh : fresh = [i \in 1..(2 * k) |-> New("Expr", 0, << >>)]
  OBVIOUS
<1>22. h2 = Rule9Heap(h, cond, sndr, fresh)
  BY <1>4, <1>7, <1>10, <1>14, <1>16, <1>21 DEF RelativeMade
<1>23. IsRule9Heap(h2, h, cond, sndr, base, k)
  <2>1. cond \in Object /\ sndr \in Object /\ base = Len(h)
    BY <1>15, <1>19 DEF IsNew
  <2> QED
    BY <1>8, <1>19, <1>21, <1>22, <2>1, Rule9HeapFacts
<1>24. /\ h2 \in Seq(Object) /\ DOMAIN g \subseteq DOMAIN h2 /\ \A p \in DOMAIN g : h2[p] = h[p]
       /\ \A p \in DOMAIN h2 : p \in DOMAIN g \/ p = base + 1 \/ p = base + 2 \/ p \in (base + 3)..(base + 2 + 2 * k)
       /\ base + 1 \in DOMAIN h2 \ DOMAIN g /\ h2[base + 1] = cond
       /\ base + 2 \in DOMAIN h2 \ DOMAIN g /\ h2[base + 2] = sndr
       /\ \A p \in (base + 3)..(base + 2 + 2 * k) : p \in DOMAIN h2 \ DOMAIN g /\ IsEmpty(h2[p], "Expr", 0)
  BY <1>19, <1>23 DEF IsRule9Heap
<1>25. \A q \in DOMAIN g : q # o => h2[q] = g[q]
  BY <1>19, <1>24
<1>26. h2[o] = WithCond(g[o], base + 1) /\ h2[o].kind = g[o].kind
  BY <1>18, <1>19, <1>20, <1>24
<1>27. \A q \in DOMAIN heap : h2[q] = heap[q]
  BY <1>1, <1>2, <1>16, <1>25
<1>28. h2[Fresh] = g[Fresh]
  BY <1>1, <1>2, <1>16, <1>25
<1>29. SameKinds(heap, h2)
  BY <1>1, <1>24, <1>27 DEF SameKinds
<1>30. ASSUME NEW q \in C
       PROVE  /\ new[q] \in DOMAIN h2 /\ h2[new[q]].kind = heap[q].kind
              /\ q # n => IsCopy(h2[new[q]], q, new, dropped)
  <2>1. new[q] \in DOMAIN h2 /\ IsCopy(g[new[q]], q, new, dropped) /\ new[q] \in DOMAIN g
    BY <1>1, <1>24
  <2>2. g[new[q]].kind = heap[q].kind
    BY <2>1 DEF IsCopy
  <2>3. CASE q = n
    BY <1>16, <1>26, <2>1, <2>2, <2>3
  <2>4. CASE q # n
    <3>1. new[q] # o
      BY <1>1, <1>2, <1>16, <2>4 DEF NewNames
    <3>2. h2[new[q]] = g[new[q]]
      BY <1>25, <2>1, <3>1
    <3> QED
      BY <2>1, <2>2, <3>2
  <2> QED
    BY <2>3, <2>4
<1>31. MessageAt(h2, n, C, new, dropped, g[new[n]], base + 1)
  <2>1. h2[new[n]] = WithCond(g[new[n]], base + 1) /\ IsCopy(g[new[n]], n, new, dropped)
    BY <1>1, <1>2, <1>16, <1>26
  <2>2. base + 1 \in DOMAIN h2 /\ h2[base + 1].kind = "Role"
    BY <1>15, <1>24 DEF IsNew
  <2> QED
    BY <1>1, <1>24, <1>29, <1>30, <2>1, <2>2 DEF MessageAt
<1>32. BlockFor(h2, new[n])
  <2>1. PICK b, many : b = h2[Fresh] /\ many = b.many
    OBVIOUS
  <2>2. /\ b.kind = "Block" /\ b.live /\ Range(b.lent) = {} /\ Pointers(b) = {o}
        /\ b.one = 0 /\ Range(many) = {o} /\ Once(many)
    BY <1>1, <1>16, <1>28, <2>1
  <2>3. o \in DOMAIN h2 /\ h2[o].kind = "Interaction" /\ o # 0
    <3>1. o \in DOMAIN h2 /\ h2[o].kind = "Interaction"
      BY <1>2, <1>16, <1>30
    <3>2. DOMAIN h2 = 1..Len(h2)
      BY <1>24
    <3> QED
      BY <3>1, <3>2
  <2>4. Holds(h2, Range(many), HoldsMany("Block"))
    BY <2>2, <2>3 DEF Holds, HoldsMany, NodeKind, OrdinaryKind
  <2>5. Holds(h2, Range(b.lent), HoldsLent("Block"))
    BY <2>2 DEF Holds
  <2>6. Fit(h2, b)
    BY <2>1, <2>2, <2>3, <2>4, <2>5 DEF Fit, Once
  <2> QED
    BY <1>16, <2>1, <2>2, <2>6 DEF BlockFor
<1>33. /\ \A p \in (f1 + 1)..(f1 + k) : p \in DOMAIN h2 /\ h2[p].kind = "Expr"
       /\ \A p \in (f2 + 1)..(f2 + k) : p \in DOMAIN h2 /\ h2[p].kind = "Expr"
  <2>1. \A p \in (base + 3)..(base + 2 + 2 * k) : p \in DOMAIN h2 /\ h2[p].kind = "Expr"
    BY <1>24 DEF IsEmpty
  <2>2. ASSUME NEW p, p \in (f1 + 1)..(f1 + k) \/ p \in (f2 + 1)..(f2 + k)
        PROVE  p \in (base + 3)..(base + 2 + 2 * k)
    <3>1. 2 * k = k + k
      BY <1>8
    <3>2. f1 = base + 2 /\ f2 = base + 2 + k
      BY <1>10
    <3>3. p \in Int /\ base + 3 <= p /\ p <= base + 2 + (k + k)
      BY <1>3, <1>8, <2>2, <3>2
    <3> QED
      BY <1>3, <1>8, <3>1, <3>3
  <2> QED
    BY <2>1, <2>2
<1>34. IsRanged(h2, cond, r, f1, k)
  BY <1>4, <1>8, <1>11, <1>12, <1>15, <1>29, <1>33, RangedFacts
<1>35. IsRanged(h2, sndr, s, f2, k)
  BY <1>4, <1>8, <1>11, <1>13, <1>15, <1>29, <1>33, RangedFacts
<1>36. /\ base + 1 \in DOMAIN h2 /\ IsRanged(h2, h2[base + 1], r, base + 2, k)
       /\ base + 2 \in DOMAIN h2 /\ IsRanged(h2, h2[base + 2], s, base + 2 + k, k)
  BY <1>10, <1>24, <1>34, <1>35
<1>37. Fresh \in DOMAIN h2 \ DOMAIN heap /\ Fresh <= base /\ DOMAIN heap \subseteq DOMAIN h2
  BY <1>1, <1>3, <1>24
<1>38. \A q \in C : new[q] \notin DOMAIN heap /\ new[q] # Fresh /\ new[q] <= base
  BY <1>1, <1>3
<1>39. \A p \in DOMAIN h2 \ DOMAIN heap :
         \/ p = Fresh \/ (\E q \in C : p = new[q]) \/ p = base + 1 \/ p = base + 2
         \/ p \in (base + 3)..(base + 2 + 2 * k)
  BY <1>1, <1>24
<1>40. \A p \in (base + 3)..(base + 2 + 2 * k) : p \in DOMAIN h2 /\ IsEmpty(h2[p], "Expr", 0)
  BY <1>24
<1> QED
  BY <1>3, <1>8, <1>9, <1>27, <1>31, <1>32, <1>36, <1>37, <1>38, <1>39, <1>40 DEF Relative

\* Rule 9.
LEMMA ProjectRelativeStep ==
  ASSUME IInv, ProjectRelative, UNCHANGED <<kept, due>>
  PROVE  IInv' /\ (ub' = Defined => Spares)
<1>1. PICK kinds : kinds = {"Interaction"}
  OBVIOUS
<1>2. PICK n \in Named(kinds) : \E r \in Rcvrs(n) :
         \E ranges \in (SUBSET DOMAIN heap[heap[n].one].many) \ {{}} : RelativeProjected(n, r, ranges)
  BY <1>1, RelativeIs
<1>3. PICK r \in Rcvrs(n), ranges \in (SUBSET DOMAIN heap[heap[n].one].many) \ {{}} : RelativeProjected(n, r, ranges)
  BY <1>2
<1>4. /\ ub = Defined /\ Safe(heap, mine, lost) /\ heap[n].one # 0 /\ Cloned(n) \subseteq Live
      /\ Len(heap[r].many) >= Len(heap[heap[n].one].many)
      /\ heap' = RelativeMade(n, r, ranges) /\ mine' = mine \cup {Fresh}
      /\ profile' = profile /\ lost' = lost \cup {Len(CopyFor(n, r).heap) + 2} /\ ub' = ub
  BY <1>3 DEF RelativeProjected, Running, IInv
<1>5. n \in Live /\ heap[n].kind \in kinds
  BY <1>4, LiveNamed
<1>6. n \in DOMAIN heap /\ heap[n].kind = "Interaction"
  BY <1>1, <1>5 DEF Live
<1>7. PICK s, m : s = heap[n].one /\ m = Len(heap[s].many)
  OBVIOUS
<1>8. PICK dropped, C, new, g : /\ dropped = DropsFor(n, r) /\ C = ClonedBut(n, dropped)
                                /\ new = Ranked(Fresh, C) /\ g = CopyFor(n, r).heap
  OBVIOUS
<1>9. DropsRoles(n, dropped) /\ r \in DOMAIN heap /\ heap[r].kind = "Role"
  BY <1>3, <1>4, <1>6, <1>8, DropsForRoles
<1>10. s \in DOMAIN heap /\ heap[s].kind = "Role"
  <2>1. heap[n].one \in DOMAIN heap /\ heap[heap[n].one].kind \in HoldsOne("Interaction")
    BY <1>4, <1>6, ObjectFacts
  <2> QED
    BY <1>7, <2>1 DEF HoldsOne
<1>11. IsClonedBut(n, dropped, C)
  BY <1>4, <1>6, <1>8, ClonedButFacts
<1>12. IsCopyFor(g, n, C, new, dropped) /\ CopyFor(n, r).node = new[n]
  BY <1>4, <1>6, <1>8, CopyForFacts
<1>13. ranges \in SUBSET (1..m) /\ ranges # {}
  <2>1. heap[s].many \in Seq(Nat)
    BY <1>4, <1>10, ObjectFacts
  <2>2. DOMAIN heap[s].many = 1..m
    BY <1>7, <2>1
  <2>3. ranges \in SUBSET DOMAIN heap[heap[n].one].many /\ ranges # {}
    OBVIOUS
  <2>4. DOMAIN heap[heap[n].one].many = 1..m
    BY <1>7, <2>2
  <2> QED
    BY <2>3, <2>4
<1>14. PICK h2, base, k, y, mn2, ls2 : /\ h2 = RelativeMade(n, r, ranges) /\ base = Len(g) /\ k = Cardinality(ranges)
                                       /\ y = g[new[n]] /\ mn2 = mine \cup {Fresh} /\ ls2 = lost \cup {base + 2}
  OBVIOUS
<1>15. Relative(h2, n, r, s, C, new, dropped, y, base, k)
  <2>1. Len(heap[r].many) >= m
    BY <1>4, <1>7
  <2>2. Relative(h2, n, r, s, C, new, dropped, g[new[n]], base, k)
    BY <1>4, <1>5, <1>6, <1>7, <1>8, <1>9, <1>10, <1>11, <1>12, <1>13, <1>14, <2>1, RelativeFacts
  <2> QED
    BY <1>14, <2>2
<1>16. Safe(h2, mn2, ls2)
  BY <1>4, <1>5, <1>6, <1>9, <1>10, <1>11, <1>14, <1>15, RelativeSafe
<1>17. Safe(heap', mine', lost')
  BY <1>4, <1>8, <1>14, <1>16
<1>18. Alive(h2) /\ heap' = h2
  BY <1>4, <1>14, <1>15 DEF Relative, Alive
<1> QED
  BY <1>4, <1>17, <1>18, SafeNext, AliveSpares
-----------------------------------------------------------------------------
\* What a program starts with is safe.
LEMMA StartSafe ==
  ASSUME heap \in Seq(Object), WellMade(heap), lost = {},
         mine = DOMAIN heap \ UNION {PointersOf(o) \cup Lent(o) : o \in DOMAIN heap}, kept = {}
  PROVE  Safe(heap, mine, lost)
<1>1. /\ DOMAIN heap = 1..Len(heap) /\ Len(heap) \in Nat /\ 0 \notin DOMAIN heap
      /\ \A o \in DOMAIN heap : heap[o] \in Object
  OBVIOUS
<1>2. \A o \in DOMAIN heap : heap[o].live /\ heap[o].lent = << >>
  BY DEF WellMade
<1>3. ASSUME NEW o \in DOMAIN heap
      PROVE  /\ heap[o].many \in Seq(Nat) /\ heap[o].one \in Nat /\ DOMAIN heap[o].many = 1..Len(heap[o].many)
             /\ Len(heap[o].many) \in Nat
             /\ heap[o].one # 0 => heap[o].one \in DOMAIN heap /\ heap[heap[o].one].kind \in HoldsOne(heap[o].kind)
             /\ \A p \in Range(heap[o].many) : p \in DOMAIN heap /\ heap[p].kind \in HoldsMany(heap[o].kind)
             /\ heap[o].kind = "Interaction" =>
                  \E m \in Range(heap[o].many) : \A p \in Range(heap[o].many) : heap[p].kind = "Msg" <=> p = m
  <2>1. heap[o].many \in Seq(Nat) /\ heap[o].one \in Nat
    BY <1>1 DEF Object
  <2>2. Typed(heap)
    BY DEF WellMade
  <2>3. /\ {heap[o].one} \ {0} \subseteq DOMAIN heap
        /\ {heap[p].kind : p \in {heap[o].one} \ {0}} \subseteq HoldsOne(heap[o].kind)
        /\ Range(heap[o].many) \subseteq DOMAIN heap
        /\ {heap[p].kind : p \in Range(heap[o].many)} \subseteq HoldsMany(heap[o].kind)
        /\ heap[o].live /\ heap[o].kind = "Interaction" =>
             \E m \in Range(heap[o].many) : \A p \in Range(heap[o].many) : heap[p].kind = "Msg" <=> p = m
    BY <2>2 DEF Typed
  <2>4. \A p \in Range(heap[o].many) : p \in DOMAIN heap /\ heap[p].kind \in HoldsMany(heap[o].kind)
    BY <2>3
  <2>5. heap[o].one # 0 => heap[o].one \in DOMAIN heap /\ heap[heap[o].one].kind \in HoldsOne(heap[o].kind)
    BY <2>3
  <2>6. DOMAIN heap[o].many = 1..Len(heap[o].many) /\ Len(heap[o].many) \in Nat
    BY <2>1
  <2> QED
    BY <1>2, <2>1, <2>3, <2>4, <2>5, <2>6
<1>4. \A o, q \in DOMAIN heap : \A i \in Slots(heap[o]), j \in Slots(heap[q]) :
        At(heap[o], i) = At(heap[q], j) /\ At(heap[o], i) # 0 => o = q /\ i = j
  BY DEF WellMade
<1>5. ASSUME NEW o \in DOMAIN heap, NEW p \in Pointers(heap[o])
      PROVE  /\ p \in DOMAIN heap /\ p # 0
             /\ \E i \in Slots(heap[o]) : At(heap[o], i) = p
  <2>1. CASE p = heap[o].one
    <3>1. 0 \in Slots(heap[o]) /\ At(heap[o], 0) = p
      BY <1>3, <2>1 DEF Slots, At
    <3> QED
      BY <1>3, <2>1, <3>1 DEF Pointers
  <2>2. CASE p \in Range(heap[o].many)
    <3>1. PICK i \in 1..Len(heap[o].many) : heap[o].many[i] = p
      BY <1>3, <2>2 DEF Range
    <3>2. i \in Slots(heap[o]) /\ At(heap[o], i) = p
      BY <1>3, <3>1 DEF Slots, At
    <3> QED
      BY <1>1, <1>3, <2>2, <3>2
  <2> QED
    BY <2>1, <2>2 DEF Pointers
<1>6. Formed(heap)
  <2> SUFFICES ASSUME NEW o \in DOMAIN heap PROVE Fit(heap, heap[o])
    BY DEF Formed
  <2>1. heap[o].one \notin Range(heap[o].many)
    <3> SUFFICES ASSUME NEW i \in 1..Len(heap[o].many), heap[o].one = heap[o].many[i] PROVE FALSE
      BY <1>3 DEF Range
    <3>1. heap[o].many[i] \in Range(heap[o].many)
      BY <1>3 DEF Range
    <3>2. heap[o].one # 0
      BY <1>1, <1>3, <3>1
    <3>3. 0 \in Slots(heap[o]) /\ i \in Slots(heap[o]) /\ i # 0 /\ At(heap[o], 0) = heap[o].one /\ At(heap[o], i) = heap[o].many[i]
      BY <1>3 DEF Slots, At
    <3> QED
      BY <1>4, <3>2, <3>3
  <2>2. ASSUME NEW i \in DOMAIN heap[o].many, NEW j \in DOMAIN heap[o].many, heap[o].many[i] = heap[o].many[j] PROVE i = j
    <3>1. heap[o].many[i] \in Range(heap[o].many)
      BY DEF Range
    <3>2. heap[o].many[i] # 0
      BY <1>1, <1>3, <3>1
    <3>3. i \in Slots(heap[o]) /\ j \in Slots(heap[o]) /\ At(heap[o], i) = heap[o].many[i] /\ At(heap[o], j) = heap[o].many[j]
      BY <1>3 DEF Slots, At
    <3> QED
      BY <1>4, <2>2, <3>2, <3>3
  <2>3. Range(heap[o].lent) = {}
    BY <1>2, RangeNone
  <2>4. /\ heap[o].one # 0 => Holds(heap, {heap[o].one}, HoldsOne(heap[o].kind))
        /\ Holds(heap, Range(heap[o].many), HoldsMany(heap[o].kind))
        /\ Holds(heap, Range(heap[o].lent), HoldsLent(heap[o].kind))
    BY <1>3, <2>3 DEF Holds
  <2> QED
    BY <1>2, <1>3, <2>1, <2>2, <2>4 DEF Fit
<1>7. ASSUME NEW o \in DOMAIN heap, NEW q \in DOMAIN heap, NEW p \in Pointers(heap[o]) \cap Pointers(heap[q]) PROVE o = q
  BY <1>4, <1>5
<1>8. Separate(heap, Relic(heap, mine, lost))
  BY <1>7 DEF Separate
<1>9. \A o \in DOMAIN heap : PointersOf(o) = Pointers(heap[o]) /\ Lent(o) = {}
  BY <1>2, RangeNone DEF PointersOf, Lent
<1>10. \A p \in DOMAIN heap : p \in mine \/ \E o \in DOMAIN heap : p \in Pointers(heap[o])
  BY <1>9
<1>11. \A p \in mine : p \in DOMAIN heap /\ \A o \in DOMAIN heap : p \notin Pointers(heap[o])
  BY <1>9
<1>12. Held(heap, mine)
  BY <1>2, <1>11 DEF Held
<1>13. Pointed(heap, Relic(heap, mine, lost))
  BY <1>2, <1>5 DEF Pointed
<1>14. Accounted(heap, mine, lost)
  BY <1>10 DEF Accounted
<1>15. Conditions(heap, mine)
  BY <1>9 DEF Conditions, Lent
<1>16. Acyclic(heap, NodeKind) /\ Acyclic(heap, {"Expr"})
  BY DEF WellMade, Acyclic
<1> QED
  BY <1>6, <1>8, <1>12, <1>13, <1>14, <1>15, <1>16 DEF Safe

\* The invariant holds at the start.
LEMMA Start == ParamInit => IInv
<1> SUFFICES ASSUME ParamInit PROVE IInv
  OBVIOUS
<1>1. /\ profile \in Profiles /\ heap = profile.start /\ lost = {} /\ ub = Defined
      /\ mine = DOMAIN heap \ UNION {PointersOf(o) \cup Lent(o) : o \in DOMAIN heap}
      /\ kept = {} /\ due = {}
  BY DEF ParamInit, Init
<1>2. heap \in Seq(Object) /\ WellMade(heap)
  <2>1. profile \in Profile /\ WellMade(profile.start)
    BY <1>1, ProfilesAssumption
  <2> QED
    BY <1>1, <2>1 DEF Profile
<1>3. Safe(heap, mine, lost)
  BY <1>1, <1>2, StartSafe
<1>4. Formed(heap) /\ mine \subseteq DOMAIN heap /\ lost \subseteq DOMAIN heap
  BY <1>3 DEF Safe, Held
<1>5. Defined.what = "none" /\ Defined.to = {}
  BY DEF Defined
<1>6. UndefinedConfined
  BY <1>1, <1>5 DEF UndefinedConfined
<1> QED
  BY <1>1, <1>3, <1>4, <1>5, <1>6 DEF IInv

\* No call of the interface breaks it.
LEMMA OrdinaryStep == ASSUME IInv, Next, UNCHANGED <<kept, due>> PROVE IInv'
BY MakeSimpleStep, MakeInteractionStep, MakeInteractionWithStep, MakeChoiceAtStep,
   AddPayloadStep, AddRcvrStep, SetMsgStep, SetRoleStep, RemoveSndrStep, RemoveRcvrsStep,
   AppendChildStep, AddArgStep, AddInterruptStep, SetChildStep,
   CloneActionStep, ProjectStep, DeleteStep DEF Next

\* To project a message whose condition is gone reads it: the program kept that condition, or
\* copies share what is gone.
LEMMA ProjectFreedStep == ASSUME IInv, ProjectFreed, UNCHANGED <<kept, due>> PROVE IInv'
<1>1. PICK n \in Named({"Interaction"}) :
        /\ ub = Defined /\ ~(Cloned(n) \subseteq Live)
        /\ ub' = [what |-> "use after free", to |-> Cloned(n) \ Live]
        /\ profile' = profile /\ heap' = heap /\ mine' = mine /\ lost' = lost
  BY DEF ProjectFreed, Running
<1>2. Safe(heap, mine, lost)
  BY <1>1 DEF IInv
<1>3. n \in Live
  BY <1>1, <1>2, LiveNamed
<1>4. \A p \in Cloned(n) \ Live : p \in DOMAIN heap /\ (MayBeShared(p) \/ p \in kept)
  BY <1>2, <1>3, ClonedFreed
<1>5. \A p : MayBeShared(p)' <=> MayBeShared(p)
  BY <1>1 DEF MayBeShared, Shares, IndicesShared, PointersOf
<1>6. UndefinedConfined'
  BY <1>1, <1>4, <1>5 DEF UndefinedConfined
<1>7. ub' # Defined /\ ub'.what = "use after free" /\ ub'.to \subseteq DOMAIN heap'
  BY <1>1, <1>4 DEF Defined
<1> QED
  BY <1>1, <1>6, <1>7 DEF IInv

\* What does not set or delete a condition of the program.
LEMMA OtherStep == ASSUME IInv, OtherCall, UNCHANGED <<kept, due>> PROVE IInv'
<1>1. CASE Next
  BY <1>1, OrdinaryStep
<1>2. CASE MakeExpr \/ SetEnd \/ AddParam \/ MakeFor \/ MakeIf \/ SetBindexpr \/ SetExcept
  BY <1>2, MakeExprStep, SetEndStep, AddParamStep, MakeForStep, MakeIfStep, SetBindexprStep, SetExceptStep
<1>3. CASE SetIfCond \/ MakeAllReduceWith \/ MakeAllReduce \/ SetAllReduceMsg \/ MakeOneof \/ SetSelector \/ SetRange
  BY <1>3, SetIfCondStep, MakeAllReduceWithStep, MakeAllReduceStep, SetAllReduceMsgStep, MakeOneofStep, SetSelectorStep, SetRangeStep
<1>4. CASE ProjectNodes \/ ProjectMessage \/ ProjectRelative \/ ProjectFreed
  BY <1>4, ProjectNodesStep, ProjectMessageStep, ProjectRelativeStep, ProjectFreedStep
<1> QED
  BY <1>1, <1>2, <1>3, <1>4 DEF OtherCall

\* Nor does the invariant depend on anything else.
LEMMA Idle == ASSUME IInv, UNCHANGED paramVars PROVE IInv'
<1>1. profile' = profile /\ heap' = heap /\ mine' = mine /\ lost' = lost /\ ub' = ub /\ UNCHANGED <<kept, due>>
  BY DEF paramVars, vars
<1>2. UndefinedConfined'
  <2>1. \A p : MayBeShared(p)' <=> MayBeShared(p)
    BY <1>1 DEF MayBeShared, Shares, IndicesShared, PointersOf
  <2>2. Live' = Live
    BY <1>1 DEF Live
  <2> QED
    BY <1>1, <2>1, <2>2 DEF IInv, UndefinedConfined
<1>3. CASE ub = Defined
  <2>1. Safe(heap', mine', lost')
    BY <1>1, <1>3 DEF IInv
  <2> QED
    BY <1>1, <1>3, <2>1, SafeNext
<1>4. CASE ub # Defined
  BY <1>1, <1>2, <1>4 DEF IInv
<1> QED
  BY <1>3, <1>4

\* Every step keeps the invariant.
LEMMA Step == IInv /\ [ParamNext]_paramVars => IInv'
<1> SUFFICES ASSUME IInv, [ParamNext]_paramVars PROVE IInv'
  OBVIOUS
<1>1. CASE UNCHANGED paramVars
  BY <1>1, Idle
<1>2. CASE OtherCall /\ UNCHANGED <<kept, due>>
  BY <1>2, OtherStep
<1>3. CASE \E n \in Named({"Interaction"}) : SetCond(n) \/ LendCond(n)
  <2>1. PICK n \in Named({"Interaction"}) : SetCond(n) \/ LendCond(n)
    BY <1>3
  <2>2. CASE SetCond(n)
    <3>1. UNCHANGED <<kept, due>>
      BY <2>2 DEF SetCond
    <3> QED
      BY <2>2, <3>1, SetCondStep
  <2>3. CASE LendCond(n)
    BY <2>3, LendCondStep
  <2> QED
    BY <2>1, <2>2, <2>3
<1>4. CASE DeleteCond
  BY <1>4, DeleteCondStep
<1> QED
  BY <1>1, <1>2, <1>3, <1>4 DEF ParamNext

\* The heap is well formed, every object has its owners and its reason to be shared, lost or freed,
\* whatever calls a program of ordinary or parameterised protocols makes.
THEOREM ParamIInvariant == ParamSpec => []IInv
<1>1. ParamInit => IInv
  BY Start
<1>2. IInv /\ [ParamNext]_paramVars => IInv'
  BY Step
<1> QED
  BY <1>1, <1>2, PTL DEF ParamSpec
-----------------------------------------------------------------------------
\* A well formed heap is Typed.
LEMMA FormedTyped == ASSUME Formed(heap) PROVE Typed(heap)
<1>1. ASSUME NEW o \in DOMAIN heap
      PROVE  /\ heap[o].one # 0 => heap[o].one \in DOMAIN heap /\ heap[heap[o].one].kind \in HoldsOne(heap[o].kind)
             /\ \A p \in Range(heap[o].many) : p \in DOMAIN heap /\ heap[p].kind \in HoldsMany(heap[o].kind)
             /\ \A p \in Range(heap[o].lent) : p \in DOMAIN heap /\ heap[p].kind \in HoldsLent(heap[o].kind)
             /\ heap[o].live /\ heap[o].kind = "Interaction" =>
                  \E m \in Range(heap[o].many) : \A p \in Range(heap[o].many) : heap[p].kind = "Msg" <=> p = m
  <2>1. Fit(heap, heap[o])
    BY DEF Formed
  <2> QED
    BY <2>1 DEF Fit, Holds
<1>2. ASSUME NEW o \in DOMAIN heap
      PROVE  /\ {heap[o].one} \ {0} \subseteq DOMAIN heap
             /\ {heap[p].kind : p \in {heap[o].one} \ {0}} \subseteq HoldsOne(heap[o].kind)
             /\ Range(heap[o].many) \subseteq DOMAIN heap
             /\ {heap[p].kind : p \in Range(heap[o].many)} \subseteq HoldsMany(heap[o].kind)
             /\ Range(heap[o].lent) \subseteq DOMAIN heap
             /\ {heap[p].kind : p \in Range(heap[o].lent)} \subseteq HoldsLent(heap[o].kind)
  BY <1>1
<1> QED
  BY <1>1, <1>2 DEF Typed

\* What the runs check follows from the invariant.
LEMMA TypeHolds == ASSUME IInv PROVE ParamTypeOK
<1>1. TypeOK
  BY FormedTyped DEF IInv, TypeOK, Formed
<1> QED
  BY <1>1 DEF IInv, ParamTypeOK

LEMMA SharingHolds == ASSUME IInv PROVE SharingConfined
<1> SUFFICES ASSUME ub = Defined, NEW p \in Live,
                    Cardinality(Owners(p)) + (IF p \in mine THEN 1 ELSE 0) > 1
             PROVE  MayBeShared(p) /\ p \notin mine
  BY DEF SharingConfined
<1>1. Safe(heap, mine, lost)
  BY DEF IInv
<1>2. p \in DOMAIN heap /\ Formed(heap) /\ Live \in SUBSET DOMAIN heap
  BY <1>1 DEF Live, Safe
<1>3. PICK os \in SUBSET DOMAIN heap : os = Live
  BY <1>2
<1>4. /\ PointersTo(p, os) = {} <=> \A o \in os : p \notin Pointers(heap[o])
      /\ (\A o, q \in os : p \in Pointers(heap[o]) \cap Pointers(heap[q]) => o = q)
           => IsFiniteSet(PointersTo(p, os)) /\ Cardinality(PointersTo(p, os)) \in {0, 1}
  BY <1>2, PointersToFacts
<1>5. Owners(p) = PointersTo(p, os)
  BY <1>3 DEF Owners
<1>6. p \notin mine
  <2> SUFFICES ASSUME p \in mine PROVE FALSE
    OBVIOUS
  <2>1. \A o \in DOMAIN heap : p \notin Pointers(heap[o])
    BY <1>1 DEF Safe, Held
  <2>2. Owners(p) = {}
    BY <1>4, <1>5, <2>1
  <2>3. Cardinality(Owners(p)) = 0
    BY <2>2, FS_EmptySet
  <2> QED
    BY <2>3
<1>7. ~ \A o, q \in os : p \in Pointers(heap[o]) \cap Pointers(heap[q]) => o = q
  <2> SUFFICES ASSUME \A o, q \in os : p \in Pointers(heap[o]) \cap Pointers(heap[q]) => o = q PROVE FALSE
    OBVIOUS
  <2>1. Cardinality(Owners(p)) \in {0, 1}
    BY <1>4, <1>5
  <2> QED
    BY <1>6, <2>1
<1>8. PICK o \in os, q \in os : p \in Pointers(heap[o]) \cap Pointers(heap[q]) /\ o # q
  BY <1>7
<1>9. MayBeShared(p)
  BY <1>1, <1>8, TwoOwners
<1> QED
  BY <1>6, <1>9

LEMMA LeakHolds == ASSUME IInv PROVE LeakConfined
<1> SUFFICES ASSUME ub = Defined, NEW p \in Live, Owners(p) = {}, p \notin mine
             PROVE  p \in lost \/ \E o \in DOMAIN heap : p \in Lent(o)
  BY DEF LeakConfined
<1>1. Safe(heap, mine, lost)
  BY DEF IInv
<1>2. p \in DOMAIN heap /\ heap[p].live /\ Formed(heap) /\ Live \in SUBSET DOMAIN heap
  BY <1>1 DEF Live, Safe
<1>3. PICK os \in SUBSET DOMAIN heap : os = Live
  BY <1>2
<1>4. PointersTo(p, os) = {} <=> \A o \in os : p \notin Pointers(heap[o])
  BY <1>2, PointersToFacts
<1>5. \A o \in Live : p \notin Pointers(heap[o])
  BY <1>3, <1>4 DEF Owners
<1>6. ASSUME NEW o \in DOMAIN heap PROVE p \notin Pointers(heap[o])
  <2>1. CASE heap[o].live
    BY <1>5, <2>1 DEF Live
  <2>2. CASE ~heap[o].live
    <3>1. heap[o].one = 0 /\ heap[o].many = << >>
      BY <1>2, <2>2 DEF Formed, Fit
    <3>2. Pointers(heap[o]) = {}
      BY <3>1, RangeNone DEF Pointers
    <3> QED
      BY <3>2
  <2> QED
    BY <2>1, <2>2
<1>7. p \in mine \cup lost \/ \E o \in DOMAIN heap : p \in Pointers(heap[o]) \/ Lends(heap, o, p)
  BY <1>1, <1>2 DEF Safe, Accounted
<1> QED
  BY <1>6, <1>7 DEF Lends, Lent

LEMMA DanglingHolds == ASSUME IInv PROVE DanglingConfined
<1> SUFFICES ASSUME ub = Defined, NEW o \in Live, NEW p \in PointersOf(o) \ Live PROVE Shares(o, p)
  BY DEF DanglingConfined
<1>1. Safe(heap, mine, lost)
  BY DEF IInv
<1>2. o \in DOMAIN heap /\ p \in Pointers(heap[o])
  BY DEF Live, PointersOf
<1>3. p \in DOMAIN heap /\ ~heap[p].live
  <2>1. p \in DOMAIN heap
    BY <1>1, <1>2, ObjectFacts
  <2> QED
    BY <2>1 DEF Live
<1>4. MayShare(heap, TheRelic, o, p)
  BY <1>1, <1>2, <1>3 DEF Safe, Pointed, TheRelic
<1> QED
  BY <1>1, <1>2, <1>4, MayShareShares

\* No call but set_cond of an interaction and the program itself frees a condition that the program
\* keeps.
LEMMA OtherSpares == ASSUME IInv, OtherCall, UNCHANGED <<kept, due>>, ub' = Defined PROVE Spares
<1>1. CASE Next
  BY <1>1, MakesSpare, PairsSpare, WritesSpare, DeletesSpare, ClonesSpare, ProjectStep DEF Next
<1>2. CASE MakeExpr \/ MakeFor \/ MakeIf \/ MakeAllReduceWith \/ MakeAllReduce \/ MakeOneof
  BY <1>2, MakesSpare, PairsSpare
<1>3. CASE AddParam \/ SetIfCond \/ SetAllReduceMsg \/ SetSelector \/ SetRange
  BY <1>3, WritesSpare
<1>4. CASE SetEnd \/ SetBindexpr \/ SetExcept
  BY <1>4, DeletesSpare
<1>5. CASE ProjectNodes \/ ProjectMessage \/ ProjectRelative
  BY <1>5, ProjectNodesStep, ProjectMessageStep, ProjectRelativeStep
<1>6. CASE ProjectFreed
  BY <1>6 DEF ProjectFreed, Defined
<1> QED
  BY <1>1, <1>2, <1>3, <1>4, <1>5, <1>6 DEF OtherCall

\* set_cond frees at most the condition that the interaction had.
LEMMA CondFreed ==
  ASSUME IInv, IInv', ub' = Defined, NEW n \in Named({"Interaction"}), SetCond(n) \/ LendCond(n),
         NEW c \in (due' \cap Live) \ Live'
  PROVE  n \in Live /\ c \in Lent(n)
<1>1. PICK x \in MineOf({"Role"}) \cup Spare(n) : ReplaceCond(n, x) /\ due' \subseteq due \cup {x}
  BY DEF SetCond, LendCond
<1>2. PICK roots, objects, arg : roots = Lent(n) /\ objects = WithLent(heap, n, <<x>>) /\ arg = 0
  OBVIOUS
<1>3. ub = Defined /\ DeleteFirst(roots, arg, objects)
  BY <1>1, <1>2 DEF ReplaceCond, Running, WithLent
<1>4. n \in Live /\ n \in DOMAIN heap /\ Safe(heap, mine, lost)
  BY <1>3, LiveNamed
<1>5. Alive(objects)
  BY <1>2, <1>3, <1>4, EditedAlive DEF Edited
<1>6. roots \in SUBSET DOMAIN heap
  BY <1>2, <1>4, ObjectFacts DEF Lent
<1>7. c \in mine \cup kept
  BY <1>1 DEF MineOf, Spare, IInv
<1>8. c \in DOMAIN heap /\ heap[c].live /\ \A o \in DOMAIN heap : c \notin Pointers(heap[o])
  BY <1>3, <1>7, Unpointed DEF Live
<1>9. c \notin roots => c \in Live'
  BY <1>3, <1>5, <1>6, <1>8, DeleteLeaves DEF Live
<1> QED
  BY <1>2, <1>4, <1>9

\* Nor does the program free another condition than the one it deletes.
LEMMA OtherKept ==
  ASSUME IInv, ub' = Defined, DeleteCond, NEW c \in due' \cap Live
  PROVE  c \in Live'
<1>1. PICK x \in due : ub = Defined /\ DeleteFirst({x}, 0, heap) /\ due' = due \ {x}
  BY DEF DeleteCond, Running
<1>2. PICK roots, arg : roots = {x} /\ arg = 0
  OBVIOUS
<1>3. roots \in SUBSET DOMAIN heap /\ c \in kept /\ c \notin roots
  BY <1>1, <1>2 DEF IInv
<1>4. c \in DOMAIN heap /\ heap[c].live /\ \A o \in DOMAIN heap : c \notin Pointers(heap[o])
  BY <1>1, <1>3, Unpointed DEF Live
<1>5. Alive(heap) /\ DeleteFirst(roots, arg, heap)
  BY <1>1, <1>2 DEF Alive
<1> QED
  BY <1>1, <1>3, <1>4, <1>5, DeleteLeaves DEF Live

LEMMA CallerStep ==
  ASSUME IInv, IInv', ParamNext, ub' = Defined
  PROVE  /\ mine' \subseteq Live'
         /\ \A c \in (due' \cap Live) \ Live' : \E n \in Live : c \in Lent(n) /\ (SetCond(n) \/ LendCond(n))
<1>1. mine' \subseteq Live'
  <2>1. Held(heap', mine')
    BY DEF IInv, Safe
  <2> QED
    BY <2>1 DEF Held, Live
<1>2. ASSUME NEW c \in (due' \cap Live) \ Live'
      PROVE  \E n \in Live : c \in Lent(n) /\ (SetCond(n) \/ LendCond(n))
  <2>1. CASE OtherCall /\ UNCHANGED <<kept, due>>
    <3>1. Spares
      BY <2>1, OtherSpares
    <3>2. c \in kept
      BY <1>2, <2>1 DEF IInv
    <3> QED
      BY <1>2, <3>1, <3>2 DEF Spares, Live
  <2>2. CASE \E n \in Named({"Interaction"}) : SetCond(n) \/ LendCond(n)
    BY <1>2, <2>2, CondFreed
  <2>3. CASE DeleteCond
    BY <1>2, <2>3, OtherKept
  <2> QED
    BY <2>1, <2>2, <2>3 DEF ParamNext
<1> QED
  BY <1>1, <1>2

\* Pointers lead to allocated objects of a kind their owner may hold, and an interaction always has
\* one message, whatever setters, copies and projections made it.
THEOREM ParamTypeCorrect == ParamSpec => []ParamTypeOK
<1>1. IInv => ParamTypeOK
  BY TypeHolds
<1> QED
  BY <1>1, ParamIInvariant, PTL

\* An object has two owners only where a copy constructor, a projection or Rule 9 copies a pointer
\* that destructors delete; what the program keeps has none.
THEOREM ParamSharingConfined == ParamSpec => []SharingConfined
<1>1. IInv => SharingConfined
  BY SharingHolds
<1> QED
  BY <1>1, ParamIInvariant, PTL

\* An object without owner was lost by set_child, set_cond of an if, set_msg of an allreduce or
\* Rule 9, or is borrowed: destructors and all other calls lose nothing.
THEOREM ParamLeakConfined == ParamSpec => []LeakConfined
<1>1. IInv => LeakConfined
  BY LeakHolds
<1> QED
  BY <1>1, ParamIInvariant, PTL

\* A live object points to a freed one only where copies share.
THEOREM ParamDanglingConfined == ParamSpec => []DanglingConfined
<1>1. IInv => DanglingConfined
  BY DanglingHolds
<1> QED
  BY <1>1, ParamIInvariant, PTL

\* What the program still has to delete is there; a condition that it has set and not given away is
\* freed under it by set_cond of the same interaction, and by no other call, projections included.
THEOREM ParamCallerKeeps == ParamSpec => CallerKeeps
<1>1. IInv /\ IInv' /\ [ParamNext]_paramVars
        => [ub' = Defined =>
              /\ mine' \subseteq Live'
              /\ \A c \in (due' \cap Live) \ Live' :
                   \E n \in Live : c \in Lent(n) /\ (SetCond(n) \/ LendCond(n))]_paramVars
  BY CallerStep
<1> QED
  BY <1>1, ParamIInvariant, PTL DEF ParamSpec, CallerKeeps

\* What is freed twice or read after it was freed is shared by copies, but for the setter that is
\* given the part it deletes first.
THEOREM ParamUndefinedConfined == ParamSpec => []UndefinedConfined
<1>1. IInv => UndefinedConfined
  BY DEF IInv
<1> QED
  BY <1>1, ParamIInvariant, PTL
=============================================================================
