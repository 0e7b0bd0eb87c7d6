---------------------------- MODULE PrintingProofs ----------------------------
(***************************************************************************)
(* Proofs about Printing, for every set of trees: types, the order and the *)
(* numbers of lines, nesting, brackets, and why a print stops.             *)
(***************************************************************************)
EXTENDS Printing, PreOrderProofs

Within(p) == Below(tree, p) \ {p}
-----------------------------------------------------------------------------
\* The inductive invariant.  What is below the node of a call precedes the node of a
\* later one, and a close comes after all that is in its block.
CallsRise == \A i, j \in DOMAIN rest : i < j =>
               IF rest[j].do = "close" THEN rest[i].node \in Within(rest[j].node)
               ELSE \A m \in Below(tree, rest[i].node) : m < rest[j].node
\* All that a call is in is still to be closed.
ClosesAbove == \A i \in DOMAIN rest : \A p \in Above(rest[i].node) :
                 \E j \in DOMAIN rest : i < j /\ rest[j] = Call("close", p)
\* Calls are about statements that are shown, and bodies about blocks.
Fits(c) == /\ c.node \in Visible
           /\ c.do = "body" => tree[c.node].class \in BlockClass
           /\ c.do = "close" => tree[c.node].class \in BlockClass \cup {"Block"}
           /\ c.do = "close" /\ printer = "PrintVisitor" => c.node \in Bodies
CallsFit == \A i \in DOMAIN rest : Fits(rest[i]) /\ (rest[i].do = "body" => i = 1)
\* The level is that of the next call.
LevelOf(c) == IF c.do = "close" THEN Depth(c.node) + 1 ELSE Depth(c.node)
Level == indent_lvl_ = IF rest = << >> THEN 0 ELSE LevelOf(rest[1])

\* What has a line precedes what is to come, or is about to be opened.
Precedes(l, c) == \/ c.do = "close" \/ l.node < c.node
                  \/ c.do = "body" /\ l.what = "statement" /\ l.node = c.node
LinesBehind == \A k \in Here, i \in DOMAIN rest : Precedes(lines[k], rest[i])
\* Nothing is to come in what is closed.
Closed == \A k \in At("close"), i \in DOMAIN rest : rest[i].node \notin Below(tree, lines[k].node)
\* As long as something is to come in a statement, lines are about what is in it.
Inside == \A k, l \in Here, i \in DOMAIN rest :
            /\ k < l /\ lines[k].what # "close"
            /\ rest[i].node \in Below(tree, lines[k].node)
            => lines[l].node \in Below(tree, lines[k].node)
\* What was visited has its lines.
Due(n) == \E i \in DOMAIN rest : /\ n \in Below(tree, rest[i].node) /\ rest[i].do # "close"
                                 /\ (rest[i].do = "body" => n # rest[i].node)
ToDo(do, n)      == \E i \in DOMAIN rest : rest[i] = Call(do, n)
HasLine(what, n) == \E k \in At(what) : lines[k].node = n
Stated  == \A n \in Printable : Due(n) \/ HasLine("statement", n)
Opened  == printer = "PrintVisitor" => \A n \in Bodies : 
             \/ Due(n) \/ ToDo("body", n)
             \/ HasLine("open", n) /\ (ToDo("close", n) \/ HasLine("close", n))
CallsInv == CallsRise /\ ClosesAbove /\ CallsFit /\ Level
RestInv  == CallsInv /\ LinesBehind /\ Closed /\ Inside /\ Stated /\ Opened

\* Of the lines alone: where they are indented and what they are about; a statement comes
\* after all before it, and what is not before it has no line yet.
LineFits(l) ==
  /\ l.indent = Shown(Depth(l.node)) /\ l.node \in DOMAIN tree
  /\ IF l.what = "statement" THEN l.node \in Printable
     ELSE printer = "PrintVisitor" /\ l.node \in Bodies
LinesFit   == \A k \in Here : LineFits(lines[k])
Rise       == \A i \in At("statement"), k \in Here : k < i => lines[k].node < lines[i].node
OpensLate  == \A i \in At("open"), k \in Here : k < i => lines[k].node <= lines[i].node
NoneMissed == \A i \in At("statement") : \A n \in Printable : n < lines[i].node => n \in Printed
Once(what) == \A i, j \in At(what) : lines[i].node = lines[j].node => i = j
\* What is between a pair of brackets.
Pairs == \A i \in At("open"), j \in At("close") : lines[i].node = lines[j].node =>
           /\ i < j
           /\ \A k \in Here : lines[k].node # lines[i].node =>
                (i < k /\ k < j <=> lines[i].node \in Above(lines[k].node))
\* The line that shows a block, and that lines after it are about what is in the block.
Opener   == IF printer = "PrintVisitor" THEN "open" ELSE "statement"
HasOpener(p) == printer = "PrintVisitor" \/ tree[p].class # "Block"
Nested   == \A i \in At("statement") \cup At("open") : \A p \in Parent(lines[i].node) : HasOpener(p) =>
              \E k \in At(Opener) : /\ k < i /\ lines[k].node = p
                                    /\ \A l \in Here : k < l /\ l < i => lines[l].node \in Within(p)
Numbering ==
  /\ \A i \in DOMAIN lines : lines[i].what # "header" => lines[i].number > 0
  /\ \/ lines = << >> /\ line_count_ = 1
     \/ /\ lines # << >> /\ lines[Len(lines)].what # "header"
        /\ line_count_ \in {1, lines[Len(lines)].number + 1}
LinesInv == /\ LinesFit /\ Rise /\ OpensLate /\ NoneMissed /\ Once("open") /\ Once("close")
            /\ Pairs /\ Nested
IInv == TypeOK /\ StopsExplained /\ (status = "running" => RestInv) /\ LinesInv /\ Numbered /\ Numbering
-----------------------------------------------------------------------------
\* Trees.
LEMMA TreeFacts ==
  ASSUME TypeOK
  PROVE  /\ tree \in Seq(Statement) /\ tree # << >> /\ PreOrderTree(tree)
         /\ DOMAIN tree = 1..Len(tree) /\ Len(tree) \in Nat \ {0} /\ 1 \in DOMAIN tree
         /\ \A n \in DOMAIN tree :
              /\ n \in Nat /\ tree[n].class \in Class /\ tree[n].kids \in Seq(Nat)
              /\ tree[n].class \in LeafClass => tree[n].kids = << >>
              /\ "pointer" \in tree[n].lacks => tree[n].class \in PointingClass
<1>1. printer \in DOMAIN Trees /\ tree \in Trees[printer]
  BY DEF TypeOK
<1>2. /\ tree \in Seq(Statement) /\ tree # << >> /\ PreOrderTree(tree)
      /\ \A n \in DOMAIN tree : /\ tree[n].class \in LeafClass => tree[n].kids = << >>
                                /\ "pointer" \in tree[n].lacks => tree[n].class \in PointingClass
  BY <1>1, TreesAssumption
<1>3. DOMAIN tree = 1..Len(tree) /\ Len(tree) \in Nat \ {0} /\ 1 \in DOMAIN tree
  BY <1>2
<1>4. ASSUME NEW n \in DOMAIN tree
      PROVE  n \in Nat /\ tree[n].class \in Class /\ tree[n].kids \in Seq(Nat)
  <2>1. tree[n] \in Statement /\ n \in Nat
    BY <1>2, <1>3
  <2> QED
    BY <2>1 DEF Statement
<1> QED
  BY <1>2, <1>3, <1>4

LEMMA BelowFacts ==
  ASSUME TypeOK, NEW p \in DOMAIN tree, NEW m \in Below(tree, p)
  PROVE  /\ m \in DOMAIN tree /\ m \in Nat /\ p \in Nat /\ p <= m
         /\ \A q \in 1..(p - 1) : \A i \in DOMAIN tree[q].kids : p < tree[q].kids[i] => m < tree[q].kids[i]
         /\ \A l \in DOMAIN tree : p <= l /\ l <= m => l \in Below(tree, p)
<1>1. DOMAIN tree = 1..Len(tree) /\ Len(tree) \in Nat /\ p \in Nat
  BY TreeFacts
<1>2. /\ m \in p..Len(tree)
      /\ \A q \in 1..(p - 1) : \A i \in DOMAIN tree[q].kids : p < tree[q].kids[i] => m < tree[q].kids[i]
  BY DEF Below
<1>3. m \in DOMAIN tree /\ m \in Nat /\ p <= m
  BY <1>1, <1>2
<1>4. ASSUME NEW l \in DOMAIN tree, p <= l, l <= m
      PROVE  l \in Below(tree, p)
  <2>1. l \in p..Len(tree) /\ l \in Nat
    BY <1>1, <1>4
  <2>2. ASSUME NEW q \in 1..(p - 1), NEW i \in DOMAIN tree[q].kids, p < tree[q].kids[i]
        PROVE  l < tree[q].kids[i]
    <3>1. q \in DOMAIN tree
      BY <1>1
    <3>2. tree[q].kids[i] \in Nat
      BY <3>1, KidFacts, TreeFacts
    <3>3. m < tree[q].kids[i]
      BY <1>2, <2>2
    <3> QED
      BY <3>2, <3>3, <2>1, <1>3, <1>4
  <2> QED
    BY <2>1, <2>2 DEF Below
<1> QED
  BY <1>1, <1>2, <1>3, <1>4

LEMMA BelowBelow ==
  ASSUME TypeOK, NEW p \in DOMAIN tree, NEW n \in Below(tree, p), NEW m \in Below(tree, n)
  PROVE  m \in Below(tree, p)
<1>1. /\ n \in DOMAIN tree /\ n \in Nat /\ p \in Nat /\ p <= n
      /\ m \in DOMAIN tree /\ m \in Nat /\ n <= m
  BY BelowFacts
<1>2. m \in p..Len(tree)
  BY <1>1, TreeFacts
<1>3. ASSUME NEW q \in 1..(p - 1), NEW i \in DOMAIN tree[q].kids, p < tree[q].kids[i]
      PROVE  m < tree[q].kids[i]
  <2>1. n < tree[q].kids[i]
    BY <1>3, BelowFacts
  <2>2. q \in 1..(n - 1)
    BY <1>1
  <2> QED
    BY <2>1, <2>2, <1>1, BelowFacts
<1> QED
  BY <1>2, <1>3 DEF Below

LEMMA KidBelow ==
  ASSUME TypeOK, NEW n \in DOMAIN tree, NEW i \in DOMAIN tree[n].kids
  PROVE  /\ tree[n].kids[i] \in DOMAIN tree /\ n < tree[n].kids[i]
         /\ tree[n].kids[i] \in Below(tree, n)
         /\ \A j \in DOMAIN tree[n].kids : i < j =>
              \A m \in Below(tree, tree[n].kids[i]) : m < tree[n].kids[j]
         /\ Above(tree[n].kids[i]) = Above(n) \cup {n}
<1> DEFINE c == tree[n].kids[i]
<1>1. c \in DOMAIN tree /\ n \in Nat /\ c \in Nat /\ n < c
  BY KidFacts, TreeFacts
<1>2. c \in Below(tree, n)
  <2>1. c \in n..Len(tree)
    BY <1>1, TreeFacts
  <2>2. ASSUME NEW q \in 1..(n - 1), NEW j \in DOMAIN tree[q].kids, n < tree[q].kids[j]
        PROVE  c < tree[q].kids[j]
    <3>1. q \in DOMAIN tree /\ q < n
      BY <1>1, TreeFacts
    <3> QED
      BY <3>1, <2>2, KidBeforeUncle, TreeFacts
  <2> QED
    BY <2>1, <2>2 DEF Below
<1>3. ASSUME NEW j \in DOMAIN tree[n].kids, i < j, NEW m \in Below(tree, c)
      PROVE  m < tree[n].kids[j]
  <2>1. i \in 1..(j - 1)
    <3>1. tree[n].kids \in Seq(Nat)
      BY TreeFacts
    <3> QED
      BY <3>1, <1>3
  <2>2. c < tree[n].kids[j]
    BY <2>1, KidFacts, TreeFacts
  <2>3. n \in 1..(c - 1)
    BY <1>1, TreeFacts
  <2> QED
    BY <2>2, <2>3, <1>1, BelowFacts
<1>4. ASSUME NEW p PROVE p \in Above(c) <=> p \in Above(n) \cup {n}
  <2>1. CASE p \in Above(c)
    <3>1. p \in DOMAIN tree /\ p # c /\ c \in Below(tree, p)
      BY <2>1 DEF Above
    <3>2. n \in Below(tree, p)
      BY <3>1, BelowHolder, TreeFacts
    <3> QED
      BY <2>1, <3>1, <3>2 DEF Above
  <2>2. CASE p = n
    BY <2>2, <1>1, <1>2 DEF Above
  <2>3. CASE p \in Above(n)
    <3>1. p \in DOMAIN tree /\ n \in Below(tree, p)
      BY <2>3 DEF Above
    <3>2. c \in Below(tree, p) /\ p <= n /\ p \in Nat
      BY <3>1, <1>2, BelowBelow, BelowFacts
    <3> QED
      BY <2>3, <3>1, <3>2, <1>1 DEF Above
  <2> QED
    BY <2>1, <2>2, <2>3
<1> QED
  BY <1>1, <1>2, <1>3, <1>4

LEMMA AboveFacts ==
  ASSUME TypeOK, NEW n \in DOMAIN tree
  PROVE  /\ Above(n) \subseteq DOMAIN tree /\ \A p \in Above(n) : p < n /\ n \in Within(p)
         /\ n \notin Above(n) /\ n \in Below(tree, n)
         /\ \A p \in DOMAIN tree : n \in Within(p) => p \in Above(n)
         /\ IsFiniteSet(Above(n)) /\ Depth(n) \in Nat
<1>1. Above(n) \in SUBSET (1..Len(tree)) /\ Len(tree) \in Nat
  BY TreeFacts DEF Above
<1>2. IsFiniteSet(Above(n)) /\ Depth(n) \in Nat
  <2>1. IsFiniteSet(Above(n)) /\ Cardinality(Above(n)) \in 0..Len(tree)
    BY <1>1, PartIsFinite
  <2> QED
    BY <2>1, <1>1 DEF Depth
<1>3. ASSUME NEW p \in Above(n) PROVE p \in DOMAIN tree /\ p < n /\ n \in Within(p)
  <2>1. p \in DOMAIN tree /\ p # n /\ n \in Below(tree, p)
    BY DEF Above
  <2>2. p <= n /\ p \in Nat /\ n \in Nat
    BY <2>1, BelowFacts
  <2> QED
    BY <2>1, <2>2 DEF Within
<1>4. n \in Below(tree, n)
  BY BelowSelf, TreeFacts
<1> QED
  BY <1>2, <1>3, <1>4 DEF Above, Within

\* What is within a statement is deeper than it, and a child by one.
LEMMA DepthFacts ==
  ASSUME TypeOK, NEW n \in DOMAIN tree
  PROVE  /\ \A i \in DOMAIN tree[n].kids : Depth(tree[n].kids[i]) = Depth(n) + 1
         /\ \A m \in Within(n) : Depth(m) > Depth(n)
         /\ n = 1 => Above(n) = {} /\ Depth(n) = 0
<1>1. ASSUME NEW m \in DOMAIN tree, Above(n) \cup {n} \subseteq Above(m) PROVE Depth(m) > Depth(n)
  <2>1. Cardinality(Above(n) \cup {n}) = Cardinality(Above(n)) + 1
    BY AboveFacts, FS_AddElement
  <2>2. Cardinality(Above(n) \cup {n}) <= Cardinality(Above(m))
    BY <1>1, AboveFacts, FS_Subset
  <2>3. Cardinality(Above(n)) \in Nat /\ Cardinality(Above(m)) \in Nat
    BY AboveFacts DEF Depth
  <2> QED
    BY <2>1, <2>2, <2>3 DEF Depth
<1>2. ASSUME NEW i \in DOMAIN tree[n].kids PROVE Depth(tree[n].kids[i]) = Depth(n) + 1
  <2>1. Cardinality(Above(n) \cup {n}) = Cardinality(Above(n)) + 1
    BY AboveFacts, FS_AddElement
  <2> QED
    BY <2>1, KidBelow DEF Depth
<1>3. ASSUME NEW m \in Within(n) PROVE Depth(m) > Depth(n)
  <2>1. m \in Below(tree, n) /\ m # n
    BY DEF Within
  <2>2. m \in DOMAIN tree
    BY <2>1, BelowFacts
  <2>3. ASSUME NEW p \in Above(n) PROVE p \in Above(m)
    <3>1. p \in DOMAIN tree /\ n \in Below(tree, p) /\ p < n
      BY AboveFacts DEF Within
    <3>2. m \in Below(tree, p)
      BY <3>1, <2>1, BelowBelow
    <3>3. p # m
      BY <2>1, <3>1, BelowFacts
    <3> QED
      BY <3>1, <3>2, <3>3 DEF Above
  <2>4. n \in Above(m)
    BY <2>1 DEF Above
  <2> QED
    BY <1>1, <2>2, <2>3, <2>4
<1>4. ASSUME n = 1 PROVE Above(n) = {} /\ Depth(n) = 0
  <2>1. Above(n) = {}
    <3> SUFFICES ASSUME NEW p \in Above(n) PROVE FALSE
      OBVIOUS
    <3>1. p \in DOMAIN tree /\ p < n
      BY AboveFacts
    <3> QED
      BY <3>1, <1>4, TreeFacts
  <2> QED
    BY <2>1, FS_EmptySet DEF Depth
<1> QED
  BY <1>2, <1>3, <1>4

LEMMA ParentFacts ==
  ASSUME TypeOK, NEW n \in DOMAIN tree
  PROVE  /\ \A p \in Parent(n) : /\ p \in DOMAIN tree /\ p \in Above(n) /\ Parent(n) = {p}
                                 /\ Depth(n) = Depth(p) + 1 /\ tree[p].kids # << >>
         /\ n # 1 => Parent(n) # {}
<1>1. ASSUME NEW p \in Parent(n)
      PROVE  /\ p \in DOMAIN tree /\ p \in Above(n) /\ Parent(n) = {p}
             /\ Depth(n) = Depth(p) + 1 /\ tree[p].kids # << >>
  <2>1. p \in DOMAIN tree
    BY DEF Parent
  <2>2. PICK i \in DOMAIN tree[p].kids : tree[p].kids[i] = n
    BY DEF Parent
  <2>3. p \in Above(n) /\ Depth(n) = Depth(p) + 1 /\ tree[p].kids # << >>
    BY <2>1, <2>2, KidBelow, DepthFacts
  <2>4. ASSUME NEW q \in Parent(n) PROVE q = p
    <3>1. q \in DOMAIN tree
      BY DEF Parent
    <3>2. PICK j \in DOMAIN tree[q].kids : tree[q].kids[j] = n
      BY DEF Parent
    <3>3. tree[p].kids[i] = tree[q].kids[j]
      BY <2>2, <3>2
    <3>4. tree \in Seq(Statement) /\ PreOrderTree(tree)
      BY TreeFacts
    <3>5. p = q
      BY <2>1, <3>1, <3>3, <3>4, KidFacts
    <3> QED
      BY <3>5
  <2> QED
    BY <2>1, <2>3, <2>4
<1>2. ASSUME n # 1 PROVE Parent(n) # {}
  <2>0. tree \in Seq(Statement) /\ PreOrderTree(tree)
    BY TreeFacts
  <2>1. PICK p \in DOMAIN tree : \E i \in DOMAIN tree[p].kids : tree[p].kids[i] = n
    BY <1>2, <2>0, HasHolder
  <2> QED
    BY <2>1 DEF Parent
<1> QED
  BY <1>1, <1>2

-----------------------------------------------------------------------------
\* Calls.  A step takes the first call and puts others before the rest.
CallSet == [do : {"visit", "body", "close"}, node : DOMAIN tree]
First   == rest[1]

Pushes(a) ==
  /\ status = "running" /\ rest # << >> /\ a \in Seq(CallSet) /\ rest' = Cat(a, Tail(rest))
  /\ UNCHANGED <<printer, tree, from>>
  /\ \A i \in DOMAIN a :
       /\ First.do # "close" /\ a[i].node \in Below(tree, This) /\ Fits(a[i])
       /\ a[i].do = "body" => i = 1 /\ First.do = "visit" /\ a[i].node = This
       /\ a[i].do = "visit" => This < a[i].node
       /\ \A p \in Above(a[i].node) :
            p \in Above(This) \/ \E j \in DOMAIN a : i < j /\ a[j] = Call("close", p)
  /\ \A i, j \in DOMAIN a : i < j =>
       IF a[j].do = "close" THEN a[i].node \in Within(a[j].node)
       ELSE \A m \in Below(tree, a[i].node) : m < a[j].node
  /\ indent_lvl_' = IF a = << >> THEN Depth(This) ELSE LevelOf(a[1])
  /\ First.do # "close" => \A n \in Visible \cap Within(This) :
       \E i \in DOMAIN a : /\ n \in Below(tree, a[i].node) /\ a[i].do # "close"
                           /\ (a[i].do = "body" => n # a[i].node)

LEMMA CallFacts ==
  ASSUME TypeOK, rest # << >>
  PROVE  /\ rest \in Seq(CallSet) /\ DOMAIN rest = 1..Len(rest) /\ Len(rest) \in Nat \ {0}
         /\ 1 \in DOMAIN rest /\ First = Head(rest) /\ This = First.node /\ This \in DOMAIN tree
         /\ \A i \in DOMAIN rest : /\ rest[i].node \in DOMAIN tree /\ i \in Nat \ {0}
                                   /\ rest[i].do \in {"visit", "body", "close"}
                                   /\ rest[i] = Call(rest[i].do, rest[i].node)
<1>1. rest \in Seq(CallSet)
  BY DEF TypeOK, CallSet
<1>2. DOMAIN rest = 1..Len(rest) /\ Len(rest) \in Nat \ {0} /\ 1 \in DOMAIN rest /\ First = Head(rest)
  BY <1>1 DEF First
<1>3. ASSUME NEW i \in DOMAIN rest
      PROVE  /\ rest[i].node \in DOMAIN tree /\ i \in Nat \ {0}
             /\ rest[i].do \in {"visit", "body", "close"}
             /\ rest[i] = Call(rest[i].do, rest[i].node)
  <2>1. rest[i] \in CallSet
    BY <1>1
  <2> QED
    BY <2>1, <1>2 DEF CallSet, Call
<1> QED
  BY <1>1, <1>2, <1>3 DEF This, First

\* A call after the step is one that was put there or was there before.
IsNew(a, i)    == i \in DOMAIN a /\ rest'[i] = a[i]
IsOld(a, i, j) == j \in DOMAIN rest /\ 1 < j /\ i = Len(a) + j - 1 /\ rest'[i] = rest[j]

LEMMA PushedFacts ==
  ASSUME TypeOK, NEW a, Pushes(a)
  PROVE  /\ rest' \in Seq(CallSet) /\ Len(a) \in Nat /\ DOMAIN a = 1..Len(a)
         /\ \A i \in DOMAIN rest' : IsNew(a, i) \/ \E j \in DOMAIN rest : IsOld(a, i, j)
         /\ \A i \in DOMAIN a : i \in DOMAIN rest' /\ rest'[i] = a[i]
         /\ \A j \in DOMAIN rest : 1 < j => \E i \in DOMAIN rest' : rest'[i] = rest[j] /\ i = Len(a) + j - 1
         /\ a # << >> => 1 \in DOMAIN a
<1> DEFINE t == Tail(rest)
<1>1. /\ rest \in Seq(CallSet) /\ rest # << >> /\ a \in Seq(CallSet) /\ rest' = Cat(a, t)
      /\ DOMAIN rest = 1..Len(rest)
  BY CallFacts DEF Pushes
<1>2. /\ t \in Seq(CallSet) /\ Len(t) = Len(rest) - 1 /\ Len(rest) \in Nat \ {0}
      /\ \A i \in 1..(Len(rest) - 1) : t[i] = rest[i + 1]
  BY <1>1
<1> HIDE DEF t
<1>3. /\ Cat(a, t) \in Seq(CallSet) /\ DOMAIN Cat(a, t) = 1..(Len(a) + Len(t))
      /\ Len(a) \in Nat /\ DOMAIN a = 1..Len(a)
      /\ \A i \in 1..Len(a) : Cat(a, t)[i] = a[i]
      /\ \A i \in (Len(a) + 1)..(Len(a) + Len(t)) : Cat(a, t)[i] = t[i - Len(a)]
  <2>1. DOMAIN a = 1..Len(a) /\ a \in Seq(CallSet) /\ t \in Seq(CallSet)
    BY <1>1, <1>2
  <2>2. /\ Cat(a, t) \in Seq(CallSet) /\ DOMAIN Cat(a, t) = 1..(Len(a) + Len(t))
        /\ Len(a) \in Nat
        /\ \A i \in 1..Len(a) : Cat(a, t)[i] = a[i]
        /\ \A i \in (Len(a) + 1)..(Len(a) + Len(t)) : Cat(a, t)[i] = t[i - Len(a)]
    BY <2>1, CatFacts
  <2> QED
    BY <2>1, <2>2
<1>4. DOMAIN rest' = 1..(Len(a) + Len(rest) - 1)
  BY <1>1, <1>2, <1>3
<1>5. ASSUME NEW i \in DOMAIN a PROVE i \in DOMAIN rest' /\ rest'[i] = a[i]
  BY <1>1, <1>2, <1>3, <1>4
<1>6. ASSUME NEW j \in DOMAIN rest, 1 < j
      PROVE  Len(a) + j - 1 \in DOMAIN rest' /\ rest'[Len(a) + j - 1] = rest[j]
  <2>1. /\ j - 1 \in 1..(Len(rest) - 1) /\ (j - 1) + 1 = j /\ (Len(a) + j - 1) - Len(a) = j - 1
        /\ Len(a) + j - 1 \in (Len(a) + 1)..(Len(a) + Len(t)) /\ Len(a) + j - 1 \in DOMAIN rest'
    BY <1>1, <1>2, <1>3, <1>4, <1>6
  <2>2. t[j - 1] = rest[j]
    BY <2>1, <1>2
  <2> QED
    BY <2>1, <2>2, <1>1, <1>3
<1>7. ASSUME NEW i \in DOMAIN rest' PROVE IsNew(a, i) \/ \E j \in DOMAIN rest : IsOld(a, i, j)
  <2>1. CASE i <= Len(a)
    <3>1. i \in DOMAIN a
      BY <2>1, <1>3, <1>4, <1>7
    <3> QED
      BY <3>1, <1>5 DEF IsNew
  <2>2. CASE ~(i <= Len(a))
    <3>1. i - Len(a) + 1 \in DOMAIN rest /\ 1 < i - Len(a) + 1 /\ i = Len(a) + (i - Len(a) + 1) - 1
      BY <2>2, <1>1, <1>2, <1>3, <1>4, <1>7
    <3> QED
      BY <3>1, <1>6 DEF IsOld
  <2> QED
    BY <2>1, <2>2
<1>8. a # << >> => 1 \in DOMAIN a
  BY <1>1, <1>3
<1>9. rest' \in Seq(CallSet)
  BY <1>1, <1>3
<1> QED
  BY <1>3, <1>5, <1>6, <1>7, <1>8, <1>9

\* What the definitions say of the tree stays, as the tree does.
LEMMA TreeStays ==
  ASSUME UNCHANGED <<printer, tree>>
  PROVE  /\ Visible' = Visible /\ Printable' = Printable /\ Bodies' = Bodies
         /\ \A n : /\ Above(n)' = Above(n) /\ Depth(n)' = Depth(n) /\ Within(n)' = Within(n)
                   /\ Parent(n)' = Parent(n) /\ HasOpener(n)' = HasOpener(n)
                   /\ Shown(n)' = Shown(n)
         /\ \A c : Fits(c)' = Fits(c) /\ LevelOf(c)' = LevelOf(c)
         /\ \A l : LineFits(l)' = LineFits(l)
         /\ Opener' = Opener
<1>1. \A n : Above(n)' = Above(n)
  BY DEF Above
<1>2. \A n : Depth(n)' = Depth(n)
  BY <1>1 DEF Depth
<1>3. Visible' = Visible
  BY <1>1 DEF Visible
<1>4. Printable' = Printable /\ Bodies' = Bodies
  BY <1>3 DEF Printable, Bodies
<1>5. \A n : Within(n)' = Within(n) /\ Parent(n)' = Parent(n) /\ HasOpener(n)' = HasOpener(n)
  BY DEF Within, Parent, HasOpener
<1>6. \A n : Shown(n)' = Shown(n)
  BY DEF Shown
<1>7. \A c : Fits(c)' = Fits(c) /\ LevelOf(c)' = LevelOf(c)
  BY <1>2, <1>3, <1>4 DEF Fits, LevelOf
<1>8. \A l : LineFits(l)' = LineFits(l)
  BY <1>2, <1>4, <1>6 DEF LineFits
<1>9. Opener' = Opener
  BY DEF Opener
<1> QED
  BY <1>1, <1>2, <1>3, <1>4, <1>5, <1>6, <1>7, <1>8, <1>9

\* The next call is in what the first one is in, or closes it.
LEMMA NextLevel ==
  ASSUME TypeOK, rest # << >>, CallsRise, ClosesAbove
  PROVE  /\ Len(rest) = 1 => Depth(This) = 0
         /\ 2 \in DOMAIN rest => Depth(This) = LevelOf(rest[2])
<1>1. /\ 1 \in DOMAIN rest /\ This = rest[1].node /\ This \in DOMAIN tree
      /\ DOMAIN rest = 1..Len(rest) /\ Len(rest) \in Nat \ {0}
  BY CallFacts DEF First
<1>2. ASSUME NEW p \in Above(This)
      PROVE  \E j \in DOMAIN rest : 1 < j /\ rest[j] = Call("close", p)
  BY <1>1 DEF ClosesAbove
<1>3. ASSUME Len(rest) = 1 PROVE Depth(This) = 0
  <2>1. Above(This) = {}
    BY <1>1, <1>2, <1>3
  <2> QED
    BY <2>1, FS_EmptySet DEF Depth
<1>4. ASSUME 2 \in DOMAIN rest PROVE Depth(This) = LevelOf(rest[2])
  <2> DEFINE n == rest[2].node
  <2>0. n \in DOMAIN tree /\ 1 \in DOMAIN rest /\ 2 \in DOMAIN rest
    BY <1>1, <1>4, CallFacts
  <2>1. ASSUME NEW p \in Above(This)
        PROVE  p \in Above(n) \/ (rest[2].do = "close" /\ p = n)
    <3>1. PICK j \in DOMAIN rest : 1 < j /\ rest[j] = Call("close", p)
      BY <1>2
    <3>2. rest[j].do = "close" /\ rest[j].node = p /\ p \in DOMAIN tree
      BY <3>1, AboveFacts, <1>1 DEF Call
    <3>3. CASE j = 2
      BY <3>2, <3>3
    <3>4. CASE j # 2
      <4>1. 2 < j
        BY <3>1, <3>4, <1>1
      <4>2. n \in Within(p)
        BY <2>0, <3>2, <4>1 DEF CallsRise
      <4> QED
        BY <2>0, <3>2, <4>2, AboveFacts
    <3> QED
      BY <3>3, <3>4
  <2>2. ASSUME NEW p \in Above(n) PROVE p \in Above(This)
    <3>1. PICK j \in DOMAIN rest : 2 < j /\ rest[j] = Call("close", p)
      BY <2>0 DEF ClosesAbove
    <3>2. rest[j].do = "close" /\ rest[j].node = p /\ p \in DOMAIN tree /\ 1 < j
      BY <3>1, AboveFacts, <1>1, <2>0 DEF Call
    <3>3. This \in Within(p)
      BY <1>1, <3>2 DEF CallsRise
    <3> QED
      BY <1>1, <3>2, <3>3, AboveFacts
  <2>3. CASE rest[2].do = "close"
    <3>1. This \in Within(n)
      BY <2>0, <2>3, <1>1 DEF CallsRise
    <3>2. Above(This) = Above(n) \cup {n}
      BY <1>1, <2>0, <2>1, <2>2, <3>1, AboveFacts
    <3>3. Cardinality(Above(n) \cup {n}) = Cardinality(Above(n)) + 1
      BY <2>0, AboveFacts, FS_AddElement
    <3> QED
      BY <2>3, <3>2, <3>3 DEF Depth, LevelOf
  <2>4. CASE rest[2].do # "close"
    <3>1. Above(This) = Above(n)
      BY <2>1, <2>2, <2>4
    <3> QED
      BY <2>4, <3>1 DEF Depth, LevelOf
  <2> QED
    BY <2>3, <2>4
<1> QED
  BY <1>3, <1>4

LEMMA CallsKept ==
  ASSUME TypeOK, CallsRise, ClosesAbove, CallsFit, NEW a, Pushes(a)
  PROVE  CallsRise' /\ ClosesAbove' /\ CallsFit' /\ Level'
<1>0. /\ rest # << >> /\ a \in Seq(CallSet) /\ UNCHANGED <<printer, tree>>
      /\ \A i \in DOMAIN a : a[i].node \in Below(tree, This)
  BY DEF Pushes
<1>1. /\ 1 \in DOMAIN rest /\ This = rest[1].node /\ This \in DOMAIN tree /\ This \in Nat
      /\ DOMAIN rest = 1..Len(rest) /\ Len(rest) \in Nat \ {0}
      /\ Len(a) \in Nat /\ DOMAIN a = 1..Len(a)
  BY <1>0, CallFacts, PushedFacts, TreeFacts DEF First
<1>2. CallsRise'
  <2> SUFFICES ASSUME NEW i \in DOMAIN rest', NEW j \in DOMAIN rest', i < j
               PROVE  IF rest'[j].do = "close" THEN rest'[i].node \in Within(rest'[j].node)
                      ELSE \A m \in Below(tree, rest'[i].node) : m < rest'[j].node
    BY <1>0 DEF CallsRise, Within
  <2>0. i \in Nat /\ j \in Nat
    BY PushedFacts
  <2>1. CASE IsNew(a, j)
    <3>1. IsNew(a, i)
      BY <2>0, <2>1, <1>1, PushedFacts DEF IsNew, IsOld
    <3> QED
      BY <2>1, <3>1 DEF Pushes, IsNew
  <2>2. ASSUME NEW l \in DOMAIN rest, IsOld(a, j, l), IsNew(a, i)
        PROVE  IF rest'[j].do = "close" THEN rest'[i].node \in Within(rest'[j].node)
               ELSE \A m \in Below(tree, rest'[i].node) : m < rest'[j].node
    <3>1. /\ rest'[i].node \in Below(tree, This) /\ rest'[i].node \in DOMAIN tree
          /\ rest'[j] = rest[l] /\ 1 < l /\ rest[l].node \in DOMAIN tree
      BY <2>2, <1>0, <1>1, BelowFacts, CallFacts DEF IsNew, IsOld
    <3>2. CASE rest[l].do = "close"
      <4>1. This \in Within(rest[l].node)
        BY <3>1, <3>2, <1>1 DEF CallsRise
      <4>2. rest'[i].node \in Below(tree, rest[l].node) /\ rest[l].node < This
        BY <3>1, <4>1, <1>1, BelowBelow, AboveFacts DEF Within
      <4>3. This <= rest'[i].node /\ rest'[i].node \in Nat /\ rest[l].node \in Nat
        BY <3>1, <1>1, BelowFacts, TreeFacts
      <4> QED
        BY <3>1, <3>2, <4>2, <4>3, <1>1 DEF Within
    <3>3. CASE rest[l].do # "close"
      <4>1. \A m \in Below(tree, This) : m < rest[l].node
        BY <3>1, <3>3, <1>1 DEF CallsRise
      <4> QED
        BY <3>1, <3>3, <4>1, <1>1, BelowBelow
    <3> QED
      BY <3>2, <3>3
  <2>3. ASSUME NEW l \in DOMAIN rest, IsOld(a, j, l), NEW k \in DOMAIN rest, IsOld(a, i, k)
        PROVE  IF rest'[j].do = "close" THEN rest'[i].node \in Within(rest'[j].node)
               ELSE \A m \in Below(tree, rest'[i].node) : m < rest'[j].node
    <3>1. rest'[j] = rest[l] /\ rest'[i] = rest[k] /\ k < l
      BY <2>3, <1>1 DEF IsOld
    <3> QED
      BY <3>1 DEF CallsRise
  <2> QED
    BY <2>1, <2>2, <2>3, PushedFacts
<1>3. ClosesAbove'
  <2> SUFFICES ASSUME NEW i \in DOMAIN rest', NEW p \in Above(rest'[i].node)
               PROVE  \E j \in DOMAIN rest' : i < j /\ rest'[j] = Call("close", p)
    BY <1>0, TreeStays DEF ClosesAbove, Call, Above
  <2>1. ASSUME NEW l \in DOMAIN rest, 1 <= l, rest[l] = Call("close", p),
               (i \in DOMAIN a /\ 1 < l) \/ (\E k \in DOMAIN rest : k < l /\ IsOld(a, i, k))
        PROVE  \E j \in DOMAIN rest' : i < j /\ rest'[j] = Call("close", p)
    <3>0. l \in Nat /\ 1 < l
      BY <2>1, <1>1 DEF IsOld
    <3>1. PICK j \in DOMAIN rest' : rest'[j] = rest[l] /\ j = Len(a) + l - 1
      BY <3>0, PushedFacts
    <3>2. i < j
      BY <3>0, <3>1, <2>1, <1>1 DEF IsOld
    <3> QED
      BY <3>1, <3>2, <2>1
  <2>2. CASE IsNew(a, i)
    <3>1. \/ p \in Above(This)
          \/ \E j \in DOMAIN a : i < j /\ a[j] = Call("close", p)
      BY <2>2 DEF Pushes, IsNew
    <3>2. CASE p \in Above(This)
      <4>1. PICK l \in DOMAIN rest : 1 < l /\ rest[l] = Call("close", p)
        BY <3>2, <1>1 DEF ClosesAbove
      <4> QED
        BY <4>1, <2>1, <2>2, <1>1 DEF IsNew
    <3>3. CASE \E j \in DOMAIN a : i < j /\ a[j] = Call("close", p)
      BY <3>3, PushedFacts
    <3> QED
      BY <3>1, <3>2, <3>3
  <2>3. ASSUME NEW k \in DOMAIN rest, IsOld(a, i, k)
        PROVE  \E j \in DOMAIN rest' : i < j /\ rest'[j] = Call("close", p)
    <3>1. PICK l \in DOMAIN rest : k < l /\ rest[l] = Call("close", p)
      BY <2>3 DEF ClosesAbove, IsOld
    <3> QED
      BY <3>1, <2>1, <2>3, <1>1
  <2> QED
    BY <2>2, <2>3, PushedFacts
<1>4. CallsFit'
  <2> SUFFICES ASSUME NEW i \in DOMAIN rest'
               PROVE  Fits(rest'[i]) /\ (rest'[i].do = "body" => i = 1)
    BY <1>0, TreeStays DEF CallsFit, Fits
  <2>1. CASE IsNew(a, i)
    BY <2>1 DEF Pushes, IsNew
  <2>2. ASSUME NEW k \in DOMAIN rest, IsOld(a, i, k) PROVE Fits(rest'[i]) /\ rest'[i].do # "body"
    <3>1. rest'[i] = rest[k] /\ k # 1
      BY <2>2, <1>1 DEF IsOld
    <3> QED
      BY <3>1 DEF CallsFit
  <2> QED
    BY <2>1, <2>2, PushedFacts
<1>5. Level'
  <2>1. indent_lvl_' = IF a = << >> THEN Depth(This) ELSE LevelOf(a[1])
    BY DEF Pushes
  <2>2. rest' \in Seq(CallSet) /\ DOMAIN rest' = 1..Len(rest')
    BY PushedFacts
  <2>3. CASE a # << >>
    <3>1. 1 \in DOMAIN a /\ 1 \in DOMAIN rest' /\ rest'[1] = a[1] /\ rest' # << >>
      BY <2>2, <2>3, PushedFacts
    <3> QED
      BY <2>1, <2>3, <3>1, <1>0, TreeStays DEF Level
  <2>4. CASE a = << >>
    <3>0. Len(a) = 0 /\ DOMAIN a = {}
      BY <2>4, <1>1
    <3>1. CASE Len(rest) = 1
      <4>1. rest' = << >>
        <5> SUFFICES ASSUME rest' # << >> PROVE FALSE
          OBVIOUS
        <5>1. 1 \in DOMAIN rest'
          BY <2>2
        <5>2. PICK j \in DOMAIN rest : IsOld(a, 1, j)
          BY <5>1, <3>0, PushedFacts DEF IsNew
        <5> QED
          BY <5>2, <3>1, <1>1 DEF IsOld
      <4> QED
        BY <4>1, <2>1, <2>4, <3>1, <1>0, NextLevel DEF Level
    <3>2. CASE Len(rest) # 1
      <4>1. 2 \in DOMAIN rest /\ 1 < 2
        BY <3>2, <1>1
      <4>2. 1 \in DOMAIN rest' /\ rest'[1] = rest[2]
        BY <4>1, <3>0, PushedFacts
      <4>3. rest' # << >>
        BY <4>2, <2>2
      <4>4. Depth(This) = LevelOf(rest[2])
        BY <4>1, <1>0, NextLevel
      <4> QED
        BY <4>2, <4>3, <4>4, <2>1, <2>4, <1>0, TreeStays DEF Level
    <3> QED
      BY <3>1, <3>2
  <2> QED
    BY <2>3, <2>4
<1> QED
  BY <1>2, <1>3, <1>4, <1>5

\* What the actions put before the calls to come.
LEMMA HeadFacts ==
  ASSUME TypeOK, CallsFit, Level, rest # << >>
  PROVE  /\ 1 \in DOMAIN rest /\ This = First.node /\ Head(rest) = First /\ This \in DOMAIN tree
         /\ Fits(First) /\ This \in Visible
         /\ indent_lvl_ = LevelOf(First)
         /\ IF First.do = "close" THEN indent_lvl_ = Depth(This) + 1 ELSE indent_lvl_ = Depth(This)
         /\ Depth(This) \in Nat
<1>1. /\ 1 \in DOMAIN rest /\ First = rest[1] /\ Head(rest) = First
      /\ This = First.node /\ This \in DOMAIN tree
  BY CallFacts DEF First
<1>2. Fits(First)
  BY <1>1 DEF CallsFit
<1>3. indent_lvl_ = LevelOf(First) /\ Depth(This) \in Nat
  BY <1>1, AboveFacts DEF Level
<1> QED
  BY <1>1, <1>2, <1>3 DEF Fits, LevelOf

LEMMA NoPush ==
  ASSUME TypeOK, status = "running", rest # << >>, rest' = Tail(rest),
         UNCHANGED <<printer, tree, from>>, indent_lvl_' = Depth(This),
         \/ First.do = "close"
         \/ tree[This].kids = << >>
         \/ tree[This].class = "Interruptible"
  PROVE  Pushes(<< >>)
<1>0. /\ rest \in Seq(CallSet) /\ This \in DOMAIN tree
      /\ tree \in Seq(Statement) /\ PreOrderTree(tree)
  BY CallFacts, TreeFacts
<1>1. rest' = Cat(<< >>, Tail(rest)) /\ << >> \in Seq(CallSet) /\ DOMAIN << >> = {}
  <2>1. Tail(rest) \in Seq(CallSet)
    BY <1>0
  <2>2. << >> \o Tail(rest) = Tail(rest)
    BY <2>1
  <2> QED
    BY <2>2 DEF Cat
<1>2. ASSUME First.do # "close", NEW n \in Visible, n \in Within(This) PROVE FALSE
  <2>1. n \in Below(tree, This) /\ n # This
    BY <1>2 DEF Within
  <2>2. CASE tree[This].kids = << >>
    <3>1. PICK i \in DOMAIN tree[This].kids : n \in Below(tree, tree[This].kids[i])
      BY <2>1, <1>0, BelowSplit
    <3> QED
      BY <2>2, <3>1
  <2>3. CASE tree[This].class = "Interruptible"
    <3>1. This \in Above(n)
      BY <2>1, <1>0 DEF Above
    <3> QED
      BY <2>3, <3>1, <1>2 DEF Visible
  <2> QED
    BY <2>2, <2>3, <1>2
<1> QED
  BY <1>1, <1>2 DEF Pushes

LEMMA CallsFacts ==
  ASSUME TypeOK, NEW n \in DOMAIN tree
  PROVE  LET m == Len(tree[n].kids) IN
         /\ m \in Nat /\ Calls(n) \in Seq(CallSet) /\ DOMAIN Calls(n) = 1..(m + 1)
         /\ DOMAIN tree[n].kids = 1..m
         /\ \A i \in 1..m : Calls(n)[i] = Call("visit", tree[n].kids[i])
         /\ Calls(n)[m + 1] = Call("close", n)
         /\ Calls(n) # << >>
         /\ Calls(n)[1] = IF tree[n].kids = << >> THEN Call("close", n)
                          ELSE Call("visit", tree[n].kids[1])
<1> DEFINE ks == tree[n].kids
           m == Len(ks)
           v == [i \in DOMAIN Body(n) |-> Call("visit", Body(n)[i])]
           c == <<Call("close", n)>>
<1>1. ks \in Seq(Nat) /\ m \in Nat /\ DOMAIN ks = 1..m /\ Body(n) = ks /\ (ks = << >> <=> m = 0)
  BY TreeFacts DEF Body
<1>2. \A i \in 1..m : Call("visit", ks[i]) \in CallSet
  BY <1>1, KidBelow DEF Call, CallSet
<1>3. Call("close", n) \in CallSet
  BY DEF Call, CallSet
<1> HIDE DEF ks, m
<1>4. v \in [1..m -> CallSet] /\ DOMAIN v = 1..m /\ \A i \in 1..m : v[i] = Call("visit", ks[i])
  BY <1>1, <1>2
<1>5. v \in Seq(CallSet) /\ Len(v) = m
  BY <1>1, <1>4
<1>6. c \in Seq(CallSet) /\ Len(c) = 1 /\ c[1] = Call("close", n)
  BY <1>3
<1> HIDE DEF v, c
<1>70. /\ Cat(v, c) \in Seq(CallSet) /\ DOMAIN Cat(v, c) = 1..(Len(v) + Len(c))
       /\ \A i \in 1..Len(v) : Cat(v, c)[i] = v[i]
       /\ \A i \in (Len(v) + 1)..(Len(v) + Len(c)) : Cat(v, c)[i] = c[i - Len(v)]
  BY <1>5, <1>6, CatFacts
<1>7. /\ Cat(v, c) \in Seq(CallSet) /\ DOMAIN Cat(v, c) = 1..(m + 1)
      /\ \A i \in 1..m : Cat(v, c)[i] = v[i]
      /\ Cat(v, c)[m + 1] = c[1]
  <2>1. m + 1 \in (m + 1)..(m + 1) /\ (m + 1) - m = 1
    BY <1>1
  <2> QED
    BY <2>1, <1>1, <1>5, <1>6, <1>70
<1>8. Calls(n) = Cat(v, c)
  BY DEF Calls, v, c, Cat
<1>9. /\ Calls(n) \in Seq(CallSet) /\ DOMAIN Calls(n) = 1..(m + 1)
      /\ \A i \in 1..m : Calls(n)[i] = Call("visit", ks[i])
      /\ Calls(n)[m + 1] = Call("close", n)
  BY <1>4, <1>6, <1>7, <1>8
<1>10. Calls(n) # << >>
  <2>1. 1 \in DOMAIN Calls(n)
    BY <1>1, <1>9
  <2> QED
    BY <2>1
<1>11. Calls(n)[1] = IF ks = << >> THEN Call("close", n) ELSE Call("visit", ks[1])
  BY <1>1, <1>9
<1> QED
  BY <1>1, <1>9, <1>10, <1>11 DEF ks, m

LEMMA BlockPushes ==
  ASSUME TypeOK, CallsFit, Level, VisitBlock
  PROVE  Pushes(<<Call("body", This)>>)
<1> DEFINE c == Call("body", This)
           a == <<c>>
<1>1. /\ status = "running" /\ rest # << >> /\ Head(rest).do = "visit"
      /\ tree[This].class \in BlockClass
      /\ rest' = Cat(a, Tail(rest)) /\ UNCHANGED <<printer, tree, from>>
      /\ indent_lvl_' = indent_lvl_
  BY DEF VisitBlock, Calling, This, Cat
<1>2. /\ This \in DOMAIN tree /\ This \in Visible /\ First.do = "visit"
      /\ indent_lvl_ = Depth(This) /\ This \in Below(tree, This)
  BY <1>1, HeadFacts, AboveFacts
<1>3. c.do = "body" /\ c.node = This /\ c \in CallSet
  BY <1>2 DEF Call, CallSet
<1> HIDE DEF c
<1>4. a \in Seq(CallSet) /\ DOMAIN a = {1} /\ a[1] = c /\ a # << >>
  BY <1>3
<1> HIDE DEF a
<1>5. Fits(c) /\ LevelOf(c) = Depth(This)
  BY <1>1, <1>2, <1>3 DEF Fits, LevelOf
<1>6. ASSUME NEW i \in DOMAIN a, NEW j \in DOMAIN a, i < j PROVE FALSE
  BY <1>4, <1>6
<1>7. ASSUME NEW n \in Within(This)
      PROVE  n \in Below(tree, a[1].node) /\ a[1].do # "close" /\ n # a[1].node
  BY <1>3, <1>4 DEF Within
<1>8. Pushes(a)
  BY <1>1, <1>2, <1>3, <1>4, <1>5, <1>6, <1>7 DEF Pushes
<1> QED
  BY <1>8 DEF a, c

LEMMA BodyPushes ==
  ASSUME TypeOK, CallsFit, Level, EnterBody \/ OpenBody
  PROVE  Pushes(Calls(This))
<1> DEFINE a == Calls(This)
           ks == tree[This].kids
           m == Len(ks)
<1>1. /\ status = "running" /\ rest # << >> /\ Head(rest).do \in {"visit", "body"}
      /\ tree[This].class \in BlockClass \cup {"Block"}
      /\ printer = "PrintVisitor" => tree[This].kids # << >>
      /\ rest' = Cat(a, Tail(rest)) /\ UNCHANGED <<printer, tree, from>>
      /\ indent_lvl_' = indent_lvl_ + 1
  <2>1. IsBody /\ (printer = "PrintVisitor" => tree[This].kids # << >>)
    BY DEF EnterBody, OpenBody
  <2>2. /\ rest' = Cat(a, Tail(rest)) /\ UNCHANGED <<printer, tree, from>>
        /\ indent_lvl_' = indent_lvl_ + 1
    BY DEF EnterBody, OpenBody, Cat
  <2> QED
    BY <2>1, <2>2 DEF IsBody, Calling, This
<1>2. /\ This \in DOMAIN tree /\ This \in Visible /\ First.do \in {"visit", "body"}
      /\ indent_lvl_ = Depth(This)
  BY <1>1, HeadFacts
<1>3. /\ m \in Nat /\ a \in Seq(CallSet) /\ DOMAIN a = 1..(m + 1) /\ DOMAIN ks = 1..m
      /\ \A i \in 1..m : a[i] = Call("visit", ks[i])
      /\ a[m + 1] = Call("close", This)
      /\ a # << >>
      /\ a[1] = IF ks = << >> THEN Call("close", This) ELSE Call("visit", ks[1])
  BY <1>2, CallsFacts
<1>4. ASSUME NEW i \in DOMAIN ks
      PROVE  /\ ks[i] \in DOMAIN tree /\ This < ks[i] /\ ks[i] \in Within(This)
             /\ \A j \in DOMAIN ks : i < j => \A n \in Below(tree, ks[i]) : n < ks[j]
             /\ Above(ks[i]) = Above(This) \cup {This}
             /\ Depth(ks[i]) = Depth(This) + 1
             /\ ks[i] \in Visible
  <2>1. /\ ks[i] \in DOMAIN tree /\ This < ks[i] /\ ks[i] \in Below(tree, This)
        /\ \A j \in DOMAIN ks : i < j => \A n \in Below(tree, ks[i]) : n < ks[j]
        /\ Above(ks[i]) = Above(This) \cup {This}
        /\ Depth(ks[i]) = Depth(This) + 1
    BY <1>2, KidBelow, DepthFacts
  <2>2. This \in Nat /\ ks[i] \in Nat /\ ks[i] # This
    BY <1>2, <2>1, TreeFacts
  <2>3. tree[This].class # "Interruptible"
    BY <1>1 DEF BlockClass
  <2>4. ks[i] \in Visible
    BY <1>2, <2>1, <2>3 DEF Visible
  <2> QED
    BY <2>1, <2>2, <2>4 DEF Within
<1> HIDE DEF a, ks, m
<1>5. ASSUME NEW i \in DOMAIN a
      PROVE  \/ i \in DOMAIN ks /\ a[i].do = "visit" /\ a[i].node = ks[i]
             \/ i = m + 1 /\ a[i].do = "close" /\ a[i].node = This /\ a[i] = Call("close", This)
  <2>1. i \in 1..m \/ i = m + 1
    BY <1>3
  <2>2. CASE i \in 1..m
    <3>1. a[i] = Call("visit", ks[i]) /\ i \in DOMAIN ks
      BY <2>2, <1>3
    <3> QED
      BY <3>1 DEF Call
  <2>3. CASE i = m + 1
    <3>1. a[i] = Call("close", This)
      BY <2>3, <1>3
    <3> QED
      BY <2>3, <3>1 DEF Call
  <2> QED
    BY <2>1, <2>2, <2>3
<1>6. ASSUME NEW i \in DOMAIN a
      PROVE  /\ First.do # "close" /\ a[i].node \in Below(tree, This) /\ Fits(a[i])
             /\ a[i].do = "body" => i = 1 /\ First.do = "visit" /\ a[i].node = This
             /\ a[i].do = "visit" => This < a[i].node
             /\ \A p \in Above(a[i].node) :
                  p \in Above(This) \/ \E j \in DOMAIN a : i < j /\ a[j] = Call("close", p)
  <2>1. CASE i \in DOMAIN ks /\ a[i].do = "visit" /\ a[i].node = ks[i]
    <3>1. Fits(a[i])
      BY <2>1, <1>4 DEF Fits
    <3>2. m + 1 \in DOMAIN a /\ i < m + 1
      BY <2>1, <1>3
    <3> QED
      BY <2>1, <3>1, <3>2, <1>2, <1>3, <1>4 DEF Within
  <2>2. CASE a[i].do = "close" /\ a[i].node = This
    <3>1. printer = "PrintVisitor" => This \in Bodies
      BY <1>1, <1>2 DEF Bodies
    <3>2. Fits(a[i])
      BY <2>2, <3>1, <1>1, <1>2 DEF Fits
    <3> QED
      BY <2>2, <3>2, <1>2, AboveFacts
  <2> QED
    BY <2>1, <2>2, <1>5
<1>7. ASSUME NEW i \in DOMAIN a, NEW j \in DOMAIN a, i < j
      PROVE  IF a[j].do = "close" THEN a[i].node \in Within(a[j].node)
             ELSE \A n \in Below(tree, a[i].node) : n < a[j].node
  <2>1. i \in DOMAIN ks /\ a[i].node = ks[i]
    BY <1>3, <1>5, <1>7
  <2> QED
    BY <2>1, <1>4, <1>5, <1>7
<1>8. indent_lvl_' = LevelOf(a[1])
  <2>1. CASE ks = << >>
    <3>1. LevelOf(a[1]) = Depth(This) + 1
      BY <2>1, <1>3 DEF LevelOf, Call
    <3> QED
      BY <3>1, <1>1, <1>2
  <2>2. CASE ks # << >>
    <3>1. 1 \in DOMAIN ks
      <4>1. m # 0
        BY <2>2, <1>2, TreeFacts DEF m, ks
      <4> QED
        BY <4>1, <1>3
    <3>2. LevelOf(a[1]) = Depth(ks[1])
      BY <2>2, <1>3 DEF LevelOf, Call
    <3> QED
      BY <3>1, <3>2, <1>1, <1>2, <1>4
  <2> QED
    BY <2>1, <2>2
<1>9. ASSUME NEW n \in Within(This)
      PROVE  \E i \in DOMAIN a : n \in Below(tree, a[i].node) /\ a[i].do # "close" /\ a[i].do # "body"
  <2>1. n \in Below(tree, This) /\ n # This
    BY <1>9 DEF Within
  <2>2. PICK i \in DOMAIN ks : n \in Below(tree, ks[i])
    BY <1>2, <2>1, BelowSplit, TreeFacts DEF ks
  <2>3. i \in 1..m /\ i \in DOMAIN a
    BY <1>3
  <2>4. a[i].node = ks[i] /\ a[i].do = "visit"
    <3>1. a[i] = Call("visit", ks[i])
      BY <2>3, <1>3
    <3> QED
      BY <3>1 DEF Call
  <2> QED
    BY <2>2, <2>3, <2>4
<1>10. Pushes(a)
  BY <1>1, <1>3, <1>6, <1>7, <1>8, <1>9 DEF Pushes
<1> QED
  BY <1>10 DEF a

-----------------------------------------------------------------------------
\* Lines.  A step adds a line l, or none: N is the set of its positions.
Grows(N, l) ==
  /\ Here' = Here \cup N
  /\ \A k \in Here : lines'[k] = lines[k]
  /\ \A k \in N : lines'[k] = l /\ k \in Nat /\ (\A i \in Here : i < k) /\ (\A i \in N : i = k)

\* What it says of the first call, and where it is indented.
Writes(N, l) ==
  /\ Grows(N, l) /\ UNCHANGED <<printer, tree>>
  /\ N # {} => /\ l.node = This /\ LineFits(l)
               /\ \/ l.what = "statement" /\ First.do = "visit"
                  \/ l.what = "open" /\ First.do = "visit" /\ tree[This].class = "Block"
                  \/ l.what = "open" /\ First.do = "body"
                  \/ l.what = "close" /\ First.do = "close"

LEMMA HereFacts ==
  ASSUME TypeOK
  PROVE  /\ Here \subseteq DOMAIN lines /\ \A k \in Here : k \in Nat
         /\ \A k \in DOMAIN lines : /\ lines[k].what \in {"header", "statement", "open", "close"}
                                    /\ lines[k].node \in Nat /\ lines[k].number \in Nat
                                    /\ lines[k].indent \in Nat
         /\ \A what : At(what) \subseteq Here /\ \A k \in At(what) : lines[k].what = what
         /\ \A k \in Here : /\ k \in At(lines[k].what)
                            /\ lines[k].what \in {"statement", "open", "close"}
         /\ DOMAIN lines = 1..Len(lines) /\ Len(lines) \in Nat /\ from \in Nat
<1> DEFINE L == [what : {"header", "statement", "open", "close"}, node : Nat,
                 number : Nat, indent : Nat]
<1>1. lines \in Seq(L) /\ from \in 0..Len(lines)
  BY DEF TypeOK
<1>2. DOMAIN lines = 1..Len(lines) /\ Len(lines) \in Nat /\ \A k \in DOMAIN lines : lines[k] \in L
  <2> HIDE DEF L
  <2> QED
    BY <1>1
<1>3. \A k \in DOMAIN lines : /\ lines[k].what \in {"header", "statement", "open", "close"}
                              /\ lines[k].node \in Nat /\ lines[k].number \in Nat
                              /\ lines[k].indent \in Nat
  BY <1>2
<1>4. Here \subseteq DOMAIN lines /\ \A k \in Here : lines[k].what # "header"
  BY DEF Here
<1>5. \A what : At(what) \subseteq Here /\ \A k \in At(what) : lines[k].what = what
  BY DEF At
<1>6. \A k \in Here : k \in At(lines[k].what)
  BY DEF At
<1>7. from \in Nat
  BY <1>1, <1>2
<1> HIDE DEF L
<1> QED
  BY <1>2, <1>3, <1>4, <1>5, <1>6, <1>7

LEMMA GrownFacts ==
  ASSUME TypeOK, NEW N, NEW l, Grows(N, l)
  PROVE  /\ \A k \in Here' : k \in Nat /\ ((k \in Here /\ lines'[k] = lines[k]) \/ (k \in N /\ lines'[k] = l))
         /\ \A what : \A k \in At(what)' :
              \/ k \in At(what) /\ lines'[k] = lines[k]
              \/ k \in N /\ lines'[k] = l /\ l.what = what
         /\ \A what : \A k \in At(what) : k \in At(what)' /\ lines'[k] = lines[k]
         /\ \A k \in N : k \in At(l.what)' /\ lines'[k] = l
         /\ Here \subseteq Here' /\ Printed \subseteq Printed'
<1>1. ASSUME NEW k \in Here'
      PROVE  k \in Nat /\ ((k \in Here /\ lines'[k] = lines[k]) \/ (k \in N /\ lines'[k] = l))
  <2>1. k \in Here \/ k \in N
    BY DEF Grows
  <2> QED
    BY <2>1, HereFacts DEF Grows
<1>2. ASSUME NEW what, NEW k \in At(what)'
      PROVE  \/ k \in At(what) /\ lines'[k] = lines[k]
             \/ k \in N /\ lines'[k] = l /\ l.what = what
  <2>1. k \in Here' /\ lines'[k].what = what
    BY DEF At
  <2> QED
    BY <1>1, <2>1 DEF At
<1>3. ASSUME NEW what, NEW k \in At(what) PROVE k \in At(what)' /\ lines'[k] = lines[k]
  <2>1. k \in Here /\ lines[k].what = what
    BY DEF At
  <2>2. k \in Here' /\ lines'[k] = lines[k]
    BY <2>1 DEF Grows
  <2> QED
    BY <2>1, <2>2 DEF At
<1>4. ASSUME NEW k \in N PROVE k \in At(l.what)' /\ lines'[k] = l
  <2>1. k \in Here' /\ lines'[k] = l
    BY DEF Grows
  <2> QED
    BY <2>1 DEF At
<1>5. Printed \subseteq Printed'
  BY <1>3 DEF Printed
<1>6. Here \subseteq Here'
  BY DEF Grows
<1> QED
  BY <1>1, <1>2, <1>3, <1>4, <1>5, <1>6

\* What the lines say of the first call.
LEMMA FirstFacts ==
  ASSUME TypeOK, rest # << >>, RestInv
  PROVE  /\ 1 \in DOMAIN rest /\ This = rest[1].node /\ First = rest[1] /\ This \in DOMAIN tree
         /\ This \in Nat /\ This \in Visible /\ Fits(First)
         /\ First.do \in {"visit", "body", "close"}
         /\ \A k \in Here : lines[k].node \in Nat
         /\ First.do = "visit" => \A k \in Here : lines[k].node < This
         /\ First.do = "body" => \A k \in Here : \/ lines[k].node < This
                                                 \/ lines[k].node = This /\ lines[k].what = "statement"
         /\ \A k \in At("close") : This \notin Below(tree, lines[k].node)
<1>1. CallsFit /\ Level /\ LinesBehind /\ Closed
  BY DEF RestInv, CallsInv
<1>2. /\ 1 \in DOMAIN rest /\ This = rest[1].node /\ First = rest[1] /\ This \in DOMAIN tree
      /\ First.do \in {"visit", "body", "close"} /\ This \in Visible /\ Fits(First) /\ This \in Nat
  BY <1>1, CallFacts, HeadFacts, TreeFacts DEF First
<1>3. \A k \in Here : lines[k].node \in Nat /\ Precedes(lines[k], First)
  BY <1>1, <1>2, HereFacts DEF LinesBehind
<1>4. \A k \in At("close") : This \notin Below(tree, lines[k].node)
  BY <1>1, <1>2 DEF Closed
<1> QED
  BY <1>2, <1>3, <1>4 DEF Precedes

\* If anything is to come in a statement that was shown, then the first call is in it.
LEMMA FirstInside ==
  ASSUME TypeOK, rest # << >>, RestInv, NEW k \in Here, lines[k].node \in DOMAIN tree,
         NEW i \in DOMAIN rest, rest[i].node \in Below(tree, lines[k].node)
  PROVE  This \in Below(tree, lines[k].node)
<1> DEFINE p == lines[k].node
           r == rest[i].node
<1>0. CallsRise /\ ClosesAbove /\ CallsFit /\ LinesBehind
  BY DEF RestInv, CallsInv
<1>1. /\ 1 \in DOMAIN rest /\ This = rest[1].node /\ This \in DOMAIN tree
      /\ r \in DOMAIN tree /\ i \in Nat \ {0} /\ r \in Nat /\ p \in Nat
  BY FirstFacts, CallFacts, TreeFacts
<1>2. CASE i = 1
  BY <1>1, <1>2
<1>3. CASE i # 1 /\ rest[i].do = "close"
  <2>1. This \in Within(r)
    BY <1>0, <1>1, <1>3 DEF CallsRise
  <2> QED
    BY <2>1, BelowBelow DEF Within
<1>4. CASE i # 1 /\ rest[i].do # "close"
  <2>1. p < r
    BY <1>0, <1>1, <1>4 DEF LinesBehind, Precedes, CallsFit
  <2>2. p \in Above(r)
    BY <1>1, <2>1 DEF Above
  <2>3. PICK j \in DOMAIN rest : i < j /\ rest[j] = Call("close", p)
    BY <1>0, <2>2 DEF ClosesAbove
  <2>4. 1 < j /\ rest[j].do = "close" /\ rest[j].node = p
    BY <2>3, <1>1, CallFacts DEF Call
  <2>5. This \in Within(p)
    BY <1>0, <1>1, <2>4 DEF CallsRise
  <2> QED
    BY <2>5 DEF Within
<1> QED
  BY <1>2, <1>3, <1>4

\* A block that is to be closed was visited and opened.
LEMMA NotDue ==
  ASSUME TypeOK, CallsRise, NEW p \in DOMAIN tree,
         NEW j \in DOMAIN rest, rest[j].do = "close", rest[j].node = p
  PROVE  ~Due(p) /\ ~ToDo("body", p)
<1>0. rest # << >> /\ p \in Nat /\ p \in Below(tree, p) /\ j \in Nat
  <2>1. rest # << >>
    BY DEF TypeOK
  <2> QED
    BY <2>1, CallFacts, TreeFacts, AboveFacts
<1>1. ASSUME NEW i \in DOMAIN rest, rest[i].do # "close", p \in Below(tree, rest[i].node) PROVE FALSE
  <2>0. rest[i].node \in DOMAIN tree /\ i \in Nat /\ rest[i].node \in Nat /\ rest[i].node <= p
    BY <1>0, <1>1, CallFacts, TreeFacts, BelowFacts
  <2>1. CASE i < j
    <3>1. rest[i].node \in Within(p)
      BY <2>1 DEF CallsRise
    <3>2. p <= rest[i].node /\ rest[i].node # p
      BY <3>1, BelowFacts DEF Within
    <3> QED
      BY <3>2, <2>0, <1>0
  <2>2. CASE j < i
    <3>1. p < rest[i].node
      BY <2>2, <1>0, <1>1 DEF CallsRise
    <3> QED
      BY <3>1, <2>0, <1>0
  <2>3. CASE i = j
    BY <2>3, <1>1
  <2> QED
    BY <2>0, <2>1, <2>2, <2>3, <1>0
<1>2. ~Due(p)
  BY <1>1 DEF Due
<1>3. ASSUME ToDo("body", p) PROVE FALSE
  <2>1. PICK i \in DOMAIN rest : rest[i] = Call("body", p)
    BY <1>3 DEF ToDo
  <2>2. rest[i].do # "close" /\ p \in Below(tree, rest[i].node)
    BY <2>1, <1>0 DEF Call
  <2> QED
    BY <2>2, <1>1
<1> QED
  BY <1>2, <1>3

\* What holds the statement of the first call has its line, and all lines since are
\* about what is in it.
LEMMA OpenerShown ==
  ASSUME TypeOK, rest # << >>, RestInv, LinesInv, NEW p \in Parent(This), HasOpener(p)
  PROVE  \E k \in At(Opener) : /\ lines[k].node = p
                               /\ \A l \in Here : k < l => lines[l].node \in Within(p)
<1>0. /\ CallsRise /\ ClosesAbove /\ CallsFit /\ Inside /\ Closed /\ Stated /\ Opened
      /\ LinesFit /\ Rise /\ Once("open")
  BY DEF RestInv, CallsInv, LinesInv
<1>1. /\ 1 \in DOMAIN rest /\ This = rest[1].node /\ This \in DOMAIN tree
      /\ p \in DOMAIN tree /\ p \in Above(This) /\ p \in Nat /\ p \in Below(tree, p)
      /\ printer \in DOMAIN Trees
  BY FirstFacts, ParentFacts, TreeFacts, AboveFacts DEF TypeOK
<1>2. PICK j \in DOMAIN rest : 1 < j /\ rest[j] = Call("close", p)
  BY <1>0, <1>1 DEF ClosesAbove
<1>3. rest[j].do = "close" /\ rest[j].node = p /\ Fits(rest[j])
  BY <1>0, <1>2 DEF Call, CallsFit
<1>4. ~Due(p) /\ ~ToDo("body", p)
  BY <1>0, <1>1, <1>3, NotDue
<1>5. PICK k \in At(Opener) : lines[k].node = p
  <2>1. CASE printer = "PrintVisitor"
    <3>1. p \in Bodies
      BY <2>1, <1>3 DEF Fits
    <3>2. HasLine("open", p)
      BY <2>1, <3>1, <1>0, <1>4 DEF Opened
    <3> QED
      BY <2>1, <3>2 DEF HasLine, Opener
  <2>2. CASE printer # "PrintVisitor"
    <3>1. p \in Printable
      BY <2>2, <1>3 DEF Fits, HasOpener, Printable
    <3>2. HasLine("statement", p)
      BY <3>1, <1>0, <1>4 DEF Stated
    <3> QED
      BY <2>2, <3>2 DEF HasLine, Opener
  <2> QED
    BY <2>1, <2>2
<1>6. k \in Here /\ k \in Nat /\ lines[k].what \in {"open", "statement"}
      /\ (printer # "PrintVisitor" => lines[k].what = "statement")
      /\ (printer = "PrintVisitor" => lines[k].what = "open")
  BY <1>5, HereFacts DEF Opener
<1>7. ASSUME NEW l \in Here, k < l PROVE lines[l].node \in Within(p)
  <2>1. lines[l].node \in Below(tree, p)
    <3>1. rest[j].node \in Below(tree, lines[k].node) /\ lines[k].what # "close"
      BY <1>1, <1>3, <1>5, <1>6
    <3>2. lines[l].node \in Below(tree, lines[k].node)
      BY <3>1, <1>0, <1>6, <1>7 DEF Inside
    <3> QED
      BY <3>2, <1>5
  <2>2. lines[l].node # p
    <3> SUFFICES ASSUME lines[l].node = p PROVE FALSE
      OBVIOUS
    <3>0. l \in At(lines[l].what) /\ lines[l].what \in {"statement", "open", "close"} /\ l \in Nat
      BY HereFacts
    <3>1. CASE lines[l].what = "statement"
      <4>1. lines[k].node < lines[l].node
        BY <3>0, <3>1, <1>0, <1>6, <1>7 DEF Rise
      <4> QED
        BY <4>1, <1>1, <1>5
    <3>2. CASE lines[l].what = "open"
      <4>1. printer = "PrintVisitor"
        BY <3>2, <1>0 DEF LinesFit, LineFits
      <4>2. k \in At("open") /\ l \in At("open")
        BY <3>0, <3>2, <4>1, <1>5 DEF Opener
      <4>3. k = l
        BY <4>2, <1>0, <1>5 DEF Once
      <4> QED
        BY <4>3, <1>6, <1>7
    <3>3. CASE lines[l].what = "close"
      <4>1. l \in At("close")
        BY <3>0, <3>3
      <4>2. rest[j].node \notin Below(tree, lines[l].node)
        BY <4>1, <1>0 DEF Closed
      <4> QED
        BY <4>2, <1>1, <1>3
    <3> QED
      BY <3>0, <3>1, <3>2, <3>3
  <2> QED
    BY <2>1, <2>2 DEF Within
<1> QED
  BY <1>5, <1>7

\* The new line fits those before it.
LEMMA LinesKept ==
  ASSUME TypeOK, rest # << >>, RestInv, LinesInv, NEW N, NEW l, Writes(N, l)
  PROVE  LinesInv'
<1>0. /\ CallsRise /\ Inside /\ Stated
      /\ LinesFit /\ Rise /\ OpensLate /\ NoneMissed /\ Once("open") /\ Once("close") /\ Pairs /\ Nested
  BY DEF RestInv, CallsInv, LinesInv
<1>1. /\ 1 \in DOMAIN rest /\ This = rest[1].node /\ First = rest[1] /\ This \in DOMAIN tree
      /\ This \in Nat /\ This \in Below(tree, This)
      /\ UNCHANGED <<printer, tree>> /\ Grows(N, l)
  BY FirstFacts, AboveFacts DEF Writes
<1>2. ASSUME NEW k \in N
      PROVE  /\ l.node = This /\ LineFits(l) /\ k \in Nat
             /\ \A i \in Here : i < k /\ ~(k < i) /\ i # k /\ i \in Nat /\ lines[i].node \in Nat
             /\ \A i \in N : i = k
             /\ \/ l.what = "statement" /\ First.do = "visit"
                \/ l.what = "open" /\ First.do \in {"visit", "body"}
                \/ l.what = "close" /\ First.do = "close"
  <2>1. k \in Nat /\ \A i \in Here : i < k /\ i \in Nat /\ lines[i].node \in Nat
    BY <1>1, HereFacts DEF Grows
  <2> QED
    BY <2>1, <1>1 DEF Writes, Grows
<1>3. LinesFit'
  <2> SUFFICES ASSUME NEW k \in Here' PROVE LineFits(lines'[k])
    BY <1>1, TreeStays DEF LinesFit
  <2> QED
    BY <1>0, <1>1, <1>2, GrownFacts DEF LinesFit
<1>4. Rise'
  <2> SUFFICES ASSUME NEW i \in At("statement")', NEW k \in Here', k < i
               PROVE  lines'[k].node < lines'[i].node
    BY DEF Rise
  <2>1. CASE i \in At("statement") /\ lines'[i] = lines[i]
    <3>1. i \in Here
      BY <2>1, HereFacts
    <3>2. k \in Here /\ lines'[k] = lines[k]
      BY <3>1, <1>1, <1>2, GrownFacts
    <3> QED
      BY <2>1, <3>2, <1>0 DEF Rise
  <2>2. CASE i \in N /\ lines'[i] = l /\ l.what = "statement"
    <3>1. k \in Here /\ lines'[k] = lines[k]
      BY <2>2, <1>1, <1>2, GrownFacts
    <3>2. First.do = "visit" /\ l.node = This
      BY <2>2, <1>2
    <3> QED
      BY <2>2, <3>1, <3>2, FirstFacts
  <2> QED
    BY <2>1, <2>2, <1>1, GrownFacts
<1>5. OpensLate'
  <2> SUFFICES ASSUME NEW i \in At("open")', NEW k \in Here', k < i
               PROVE  lines'[k].node <= lines'[i].node
    BY DEF OpensLate
  <2>1. CASE i \in At("open") /\ lines'[i] = lines[i]
    <3>1. i \in Here
      BY <2>1, HereFacts
    <3>2. k \in Here /\ lines'[k] = lines[k]
      BY <3>1, <1>1, <1>2, GrownFacts
    <3> QED
      BY <2>1, <3>2, <1>0 DEF OpensLate
  <2>2. CASE i \in N /\ lines'[i] = l /\ l.what = "open"
    <3>1. k \in Here /\ lines'[k] = lines[k]
      BY <2>2, <1>1, <1>2, GrownFacts
    <3>2. First.do \in {"visit", "body"} /\ l.node = This
      BY <2>2, <1>2
    <3>3. lines[k].node < This \/ lines[k].node = This
      BY <3>1, <3>2, FirstFacts
    <3>4. lines[k].node \in Nat
      BY <3>1, HereFacts
    <3> QED
      BY <2>2, <3>1, <3>2, <3>3, <3>4, <1>1
  <2> QED
    BY <2>1, <2>2, <1>1, GrownFacts
<1>6. NoneMissed'
  <2> SUFFICES ASSUME NEW i \in At("statement")', NEW n \in Printable, n < lines'[i].node
               PROVE  n \in Printed'
    BY <1>1, TreeStays DEF NoneMissed
  <2>1. CASE i \in At("statement") /\ lines'[i] = lines[i]
    BY <2>1, <1>0, <1>1, GrownFacts DEF NoneMissed
  <2>2. CASE i \in N /\ lines'[i] = l /\ l.what = "statement"
    <3>1. First.do = "visit" /\ n < This /\ n \in Nat /\ n \in DOMAIN tree
      BY <2>2, <1>2, TreeFacts DEF Printable, Visible
    <3>2. ~Due(n)
      <4> SUFFICES ASSUME NEW j \in DOMAIN rest, n \in Below(tree, rest[j].node), rest[j].do # "close"
                   PROVE  FALSE
        BY DEF Due
      <4>1. rest[j].node \in DOMAIN tree /\ rest[j].node \in Nat /\ rest[j].node <= n /\ j \in Nat \ {0}
        BY CallFacts, TreeFacts, BelowFacts
      <4>2. j # 1 /\ 1 < j
        BY <4>1, <3>1, <1>1
      <4>3. This < rest[j].node
        BY <4>2, <1>0, <1>1 DEF CallsRise
      <4> QED
        BY <4>1, <4>3, <3>1, <1>1
    <3>3. HasLine("statement", n)
      BY <3>2, <1>0 DEF Stated
    <3>4. n \in Printed
      BY <3>3 DEF HasLine, Printed
    <3> QED
      BY <3>4, <1>1, GrownFacts
  <2> QED
    BY <2>1, <2>2, <1>1, GrownFacts
<1>7. Once("open")'
  <2> SUFFICES ASSUME NEW i \in At("open")', NEW j \in At("open")', lines'[i].node = lines'[j].node
               PROVE  i = j
    BY DEF Once
  <2>1. ASSUME NEW b \in N, lines'[b] = l, l.what = "open", NEW c \in At("open"),
               lines'[c] = lines[c], lines'[c].node = lines'[b].node
        PROVE  FALSE
    <3>1. l.node = This /\ First.do \in {"visit", "body"}
      BY <2>1, <1>2
    <3>2. c \in Here /\ lines[c].what = "open" /\ lines[c].node = This
      BY <2>1, <3>1, HereFacts
    <3> QED
      BY <3>1, <3>2, <1>1, FirstFacts
  <2>2. (i \in At("open") /\ lines'[i] = lines[i]) \/ (i \in N /\ lines'[i] = l /\ l.what = "open")
    BY <1>1, GrownFacts
  <2>3. (j \in At("open") /\ lines'[j] = lines[j]) \/ (j \in N /\ lines'[j] = l /\ l.what = "open")
    BY <1>1, GrownFacts
  <2>4. CASE i \in N /\ j \in N
    BY <2>4, <1>2
  <2> QED
    BY <2>1, <2>2, <2>3, <2>4, <1>0 DEF Once
<1>8. Once("close")'
  <2> SUFFICES ASSUME NEW i \in At("close")', NEW j \in At("close")', lines'[i].node = lines'[j].node
               PROVE  i = j
    BY DEF Once
  <2>1. ASSUME NEW b \in N, NEW c \in At("close"), lines'[b] = l,
               lines'[c] = lines[c], lines'[c].node = lines'[b].node
        PROVE  FALSE
    <3>1. lines[c].node = This
      BY <2>1, <1>2
    <3> QED
      BY <3>1, <1>1, FirstFacts
  <2>2. (i \in At("close") /\ lines'[i] = lines[i]) \/ (i \in N /\ lines'[i] = l)
    BY <1>1, GrownFacts
  <2>3. (j \in At("close") /\ lines'[j] = lines[j]) \/ (j \in N /\ lines'[j] = l)
    BY <1>1, GrownFacts
  <2>4. CASE i \in N /\ j \in N
    BY <2>4, <1>2
  <2> QED
    BY <2>1, <2>2, <2>3, <2>4, <1>0 DEF Once
<1>9. Pairs'
  <2> SUFFICES ASSUME NEW i \in At("open")', NEW j \in At("close")', lines'[i].node = lines'[j].node
               PROVE  /\ i < j
                      /\ \A k \in Here' : lines'[k].node # lines'[i].node =>
                           (i < k /\ k < j <=> lines'[i].node \in Above(lines'[k].node))
    BY <1>1, TreeStays DEF Pairs, Above
  <2>1. (i \in At("open") /\ lines'[i] = lines[i]) \/ (i \in N /\ lines'[i] = l /\ l.what = "open")
    BY <1>1, GrownFacts
  <2>2. (j \in At("close") /\ lines'[j] = lines[j]) \/ (j \in N /\ lines'[j] = l /\ l.what = "close")
    BY <1>1, GrownFacts
  <2>3. CASE i \in At("open") /\ lines'[i] = lines[i] /\ j \in At("close") /\ lines'[j] = lines[j]
    <3>1. i < j /\ j \in Here
      BY <2>3, <1>0, HereFacts DEF Pairs
    <3>2. ASSUME NEW k \in Here', lines'[k].node # lines'[i].node
          PROVE  i < k /\ k < j <=> lines'[i].node \in Above(lines'[k].node)
      <4>1. CASE k \in Here /\ lines'[k] = lines[k]
        BY <2>3, <3>2, <4>1, <1>0 DEF Pairs
      <4>2. CASE k \in N /\ lines'[k] = l
        <5>1. ~(k < j) /\ lines'[k].node = This
          BY <3>1, <4>2, <1>2
        <5>2. This \notin Below(tree, lines[j].node)
          BY <2>3, FirstFacts
        <5> QED
          BY <5>1, <5>2, <2>3 DEF Above
      <4> QED
        BY <4>1, <4>2, <1>1, GrownFacts
    <3> QED
      BY <3>1, <3>2
  <2>4. CASE i \in N /\ lines'[i] = l /\ l.what = "open" /\ j \in At("close") /\ lines'[j] = lines[j]
    <3>1. lines[j].node = This
      BY <2>4, <1>2
    <3>2. This \notin Below(tree, lines[j].node)
      BY <2>4, FirstFacts
    <3> QED
      BY <3>1, <3>2, <1>1
  <2>5. CASE i \in At("open") /\ lines'[i] = lines[i] /\ j \in N /\ lines'[j] = l /\ l.what = "close"
    <3>1. i \in Here /\ i < j /\ lines[i].node = This /\ lines[i].what = "open" /\ i \in Nat
      BY <2>5, <1>2, HereFacts
    <3>2. ASSUME NEW k \in Here', lines'[k].node # lines'[i].node
          PROVE  i < k /\ k < j <=> lines'[i].node \in Above(lines'[k].node)
      <4>1. CASE k \in N /\ lines'[k] = l
        BY <2>5, <3>1, <3>2, <4>1, <1>2
      <4>2. CASE k \in Here /\ lines'[k] = lines[k]
        <5>0. k < j /\ k \in Nat /\ lines[k].node \in DOMAIN tree /\ lines[k].node \in Nat
          BY <2>5, <4>2, <1>0, <1>2, HereFacts DEF LinesFit, LineFits
        <5>1. CASE i < k
          <6>1. lines[k].node \in Below(tree, This)
            BY <3>1, <4>2, <5>1, <1>0, <1>1 DEF Inside
          <6>2. This \in Above(lines[k].node)
            BY <6>1, <3>1, <3>2, <4>2, <2>5, <1>1 DEF Above
          <6> QED
            BY <5>0, <5>1, <6>2, <2>5, <3>1, <4>2
        <5>2. CASE ~(i < k)
          <6>1. k < i
            BY <5>0, <5>2, <3>1, <3>2
          <6>2. lines[k].node <= This
            BY <6>1, <3>1, <4>2, <2>5, <1>0 DEF OpensLate
          <6>3. This \notin Above(lines[k].node)
            BY <6>2, <5>0, <1>1, AboveFacts
          <6> QED
            BY <5>2, <6>3, <2>5, <3>1, <4>2
        <5> QED
          BY <5>1, <5>2
      <4> QED
        BY <4>1, <4>2, <1>1, GrownFacts
    <3> QED
      BY <3>1, <3>2
  <2>6. CASE l.what = "open" /\ l.what = "close"
    BY <2>6
  <2> QED
    BY <2>1, <2>2, <2>3, <2>4, <2>5, <2>6
<1>10. Nested'
  <2> SUFFICES ASSUME NEW i \in At("statement")' \cup At("open")', NEW p \in Parent(lines'[i].node),
                      HasOpener(p)
               PROVE  \E k \in At(Opener)' : /\ k < i /\ lines'[k].node = p
                        /\ \A m \in Here' : k < m /\ m < i => lines'[m].node \in Within(p)
    BY <1>1 DEF Nested, Parent, HasOpener, Within
  <2>0. \/ i \in At("statement") \cup At("open") /\ lines'[i] = lines[i]
        \/ i \in N /\ lines'[i] = l /\ l.what \in {"statement", "open"}
    BY <1>1, GrownFacts
  <2>1. CASE i \in At("statement") \cup At("open") /\ lines'[i] = lines[i]
    <3>1. PICK k \in At(Opener) : /\ k < i /\ lines[k].node = p
                                  /\ \A m \in Here : k < m /\ m < i => lines[m].node \in Within(p)
      BY <2>1, <1>0 DEF Nested
    <3>2. i \in Here
      BY <2>1, HereFacts
    <3>3. k \in At(Opener)' /\ lines'[k] = lines[k]
      BY <1>1, TreeStays, GrownFacts DEF At
    <3>4. ASSUME NEW m \in Here', k < m, m < i PROVE lines'[m].node \in Within(p)
      <4>1. m \in Here /\ lines'[m] = lines[m]
        BY <3>2, <3>4, <1>1, <1>2, GrownFacts
      <4> QED
        BY <4>1, <3>1, <3>4
    <3> QED
      BY <3>1, <3>3, <3>4
  <2>2. CASE i \in N /\ lines'[i] = l /\ l.what \in {"statement", "open"}
    <3>1. lines'[i].node = This /\ p \in Parent(This)
      BY <2>2, <1>2
    <3>2. PICK k \in At(Opener) : /\ lines[k].node = p
                                  /\ \A m \in Here : k < m => lines[m].node \in Within(p)
      BY <3>1, OpenerShown
    <3>3. k \in Here /\ k < i
      BY <3>2, <2>2, <1>2, HereFacts
    <3>4. k \in At(Opener)' /\ lines'[k] = lines[k]
      BY <1>1, TreeStays, GrownFacts DEF At
    <3>5. ASSUME NEW m \in Here', k < m, m < i PROVE lines'[m].node \in Within(p)
      <4>1. m \in Here /\ lines'[m] = lines[m]
        BY <2>2, <3>5, <1>1, <1>2, GrownFacts
      <4> QED
        BY <4>1, <3>2, <3>5
    <3> QED
      BY <3>2, <3>3, <3>4, <3>5
  <2> QED
    BY <2>0, <2>1, <2>2
<1> QED
  BY <1>3, <1>4, <1>5, <1>6, <1>7, <1>8, <1>9, <1>10 DEF LinesInv

\* What was visited has its lines after the step.
Completes(a, N, l) ==
  /\ First.do = "visit" /\ tree[This].class # "Block" => N # {} /\ l.what = "statement"
  /\ printer = "PrintVisitor" =>
       /\ First.do # "close" /\ This \in Bodies =>
            \/ \E i \in DOMAIN a : a[i] = Call("body", This)
            \/ N # {} /\ l.what = "open" /\ \E i \in DOMAIN a : a[i] = Call("close", This)
       /\ First.do = "close" => N # {} /\ l.what = "close"

LEMMA DueKept ==
  ASSUME TypeOK, RestInv, NEW a, Pushes(a), NEW n \in Visible, Due(n)
  PROVE  Due(n)' \/ (n = This /\ First.do = "visit")
<1>0. /\ rest # << >> /\ UNCHANGED tree
  BY DEF Pushes
<1>1. 1 \in DOMAIN rest /\ This = rest[1].node /\ First = rest[1]
  BY <1>0, FirstFacts
<1>2. PICK j \in DOMAIN rest : /\ n \in Below(tree, rest[j].node) /\ rest[j].do # "close"
                               /\ (rest[j].do = "body" => n # rest[j].node)
  BY DEF Due
<1>3. CASE j # 1
  <2>1. 1 < j
    BY <1>0, <1>3, CallFacts
  <2>2. PICK i \in DOMAIN rest' : rest'[i] = rest[j]
    BY <2>1, PushedFacts
  <2> QED
    BY <1>0, <1>2, <2>2 DEF Due
<1>4. CASE j = 1 /\ n # This
  <2>1. n \in Within(This)
    BY <1>1, <1>2, <1>4 DEF Within
  <2>2. PICK i \in DOMAIN a : /\ n \in Below(tree, a[i].node) /\ a[i].do # "close"
                              /\ (a[i].do = "body" => n # a[i].node)
    BY <2>1, <1>1, <1>2, <1>4 DEF Pushes
  <2>3. i \in DOMAIN rest' /\ rest'[i] = a[i]
    BY PushedFacts
  <2> QED
    BY <1>0, <2>2, <2>3 DEF Due
<1>5. CASE j = 1 /\ n = This
  <2>1. First.do \in {"visit", "body", "close"}
    BY <1>0, FirstFacts
  <2> QED
    BY <2>1, <1>1, <1>2, <1>5
<1> QED
  BY <1>3, <1>4, <1>5

LEMMA RestKept ==
  ASSUME TypeOK, RestInv, LinesInv, NEW a, Pushes(a), NEW N, NEW l, Writes(N, l), Completes(a, N, l)
  PROVE  RestInv'
<1>0. /\ CallsRise /\ ClosesAbove /\ CallsFit /\ Level
      /\ LinesBehind /\ Closed /\ Inside /\ Stated /\ Opened /\ LinesFit
  BY DEF RestInv, CallsInv, LinesInv
<1>1. /\ rest # << >> /\ UNCHANGED <<printer, tree>> /\ Grows(N, l)
      /\ 1 \in DOMAIN rest /\ This = rest[1].node /\ First = rest[1] /\ This \in DOMAIN tree
      /\ This \in Nat /\ This \in Below(tree, This)
  BY FirstFacts, AboveFacts DEF Pushes, Writes
<1>2. ASSUME NEW k \in N
      PROVE  /\ l.node = This /\ k \in Nat /\ \A i \in Here : i < k /\ ~(k < i) /\ i \in Nat
             /\ \A i \in N : i = k
             /\ \/ l.what = "statement" /\ First.do = "visit"
                \/ l.what = "open" /\ First.do = "visit" /\ tree[This].class = "Block"
                \/ l.what = "open" /\ First.do = "body"
                \/ l.what = "close" /\ First.do = "close"
  <2>1. k \in Nat /\ (\A i \in Here : i < k /\ i \in Nat) /\ \A i \in N : i = k
    BY <1>1, HereFacts DEF Grows
  <2>2. N # {}
    OBVIOUS
  <2>3. \A i \in Here : ~(k < i)
    BY <2>1
  <2>4. /\ l.node = This
        /\ \/ l.what = "statement" /\ First.do = "visit"
           \/ l.what = "open" /\ First.do = "visit" /\ tree[This].class = "Block"
           \/ l.what = "open" /\ First.do = "body"
           \/ l.what = "close" /\ First.do = "close"
    BY <2>2 DEF Writes
  <2> QED
    BY <2>1, <2>3, <2>4
<1>3. ASSUME NEW i \in DOMAIN a
      PROVE  /\ First.do # "close" /\ a[i].node \in Below(tree, This) /\ Fits(a[i])
             /\ a[i].do = "body" => First.do = "visit" /\ a[i].node = This
             /\ a[i].do = "visit" => This < a[i].node
             /\ a[i].do \in {"visit", "body", "close"}
             /\ a[i].node \in DOMAIN tree /\ a[i].node \in Nat /\ This <= a[i].node
  <2>1. a[i] \in CallSet
    BY DEF Pushes
  <2>2. a[i].node \in Below(tree, This)
    BY DEF Pushes
  <2>3. a[i].do \in {"visit", "body", "close"}
    BY <2>1 DEF CallSet
  <2>4. a[i].node \in DOMAIN tree /\ a[i].node \in Nat /\ This <= a[i].node
    BY <2>2, <1>1, BelowFacts
  <2> QED
    BY <2>2, <2>3, <2>4 DEF Pushes
<1>4. ASSUME NEW k \in Here
      PROVE  /\ lines[k].node \in DOMAIN tree /\ lines[k].node \in Nat
             /\ First.do # "close" => lines[k].node <= This
  <2>1. lines[k].node \in DOMAIN tree
    BY <1>0 DEF LinesFit, LineFits
  <2>2. lines[k].node \in Nat
    BY <2>1, TreeFacts
  <2>3. First.do # "close" => lines[k].node < This \/ lines[k].node = This
    BY <1>1, FirstFacts
  <2> QED
    BY <2>1, <2>2, <2>3, <1>1
<1>5. ASSUME NEW k \in Here, NEW i \in DOMAIN rest', rest'[i].node \in Below(tree, lines[k].node)
      PROVE  This \in Below(tree, lines[k].node)
  <2>1. CASE IsNew(a, i)
    <3>1. i \in DOMAIN a /\ rest'[i] = a[i]
      BY <2>1 DEF IsNew
    <3>2. lines[k].node <= This /\ This <= a[i].node
      BY <3>1, <1>3, <1>4
    <3> QED
      BY <3>1, <3>2, <1>1, <1>4, <1>5, BelowFacts
  <2>2. ASSUME NEW j \in DOMAIN rest, IsOld(a, i, j) PROVE This \in Below(tree, lines[k].node)
    <3>1. rest[j].node \in Below(tree, lines[k].node)
      BY <2>2, <1>5 DEF IsOld
    <3> QED
      BY <3>1, <1>1, <1>4, FirstInside
  <2> QED
    BY <2>1, <2>2, PushedFacts
<1>6. CallsInv'
  BY <1>0, CallsKept DEF CallsInv
<1>7. LinesBehind'
  <2> SUFFICES ASSUME NEW k \in Here', NEW i \in DOMAIN rest' PROVE Precedes(lines'[k], rest'[i])
    BY DEF LinesBehind, Precedes
  <2>1. ASSUME k \in Here, lines'[k] = lines[k] PROVE Precedes(lines'[k], rest'[i])
    <3>1. CASE IsNew(a, i)
      <4>1. i \in DOMAIN a /\ rest'[i] = a[i]
        BY <3>1 DEF IsNew
      <4>2. CASE a[i].do = "visit"
        <5>1. lines[k].node < a[i].node
          BY <4>1, <4>2, <2>1, <1>1, <1>3, <1>4
        <5> QED
          BY <4>1, <5>1, <2>1 DEF Precedes
      <4>3. CASE a[i].do = "body"
        <5>1. lines[k].node < a[i].node
          BY <4>1, <4>3, <2>1, <1>1, <1>3, FirstFacts
        <5> QED
          BY <4>1, <5>1, <2>1 DEF Precedes
      <4>4. CASE a[i].do = "close"
        BY <4>1, <4>4 DEF Precedes
      <4> QED
        BY <4>1, <4>2, <4>3, <4>4, <1>3
    <3>2. ASSUME NEW j \in DOMAIN rest, IsOld(a, i, j) PROVE Precedes(lines'[k], rest'[i])
      BY <2>1, <3>2, <1>0 DEF IsOld, LinesBehind
    <3> QED
      BY <3>1, <3>2, PushedFacts
  <2>2. ASSUME k \in N, lines'[k] = l PROVE Precedes(lines'[k], rest'[i])
    <3>0. l.node = This
      BY <2>2, <1>2
    <3>1. CASE IsNew(a, i)
      <4>1. i \in DOMAIN a /\ rest'[i] = a[i]
        BY <3>1 DEF IsNew
      <4>2. CASE a[i].do = "visit"
        BY <4>1, <4>2, <2>2, <3>0, <1>3 DEF Precedes
      <4>3. CASE a[i].do = "body"
        <5>1. tree[This].class # "Block" /\ First.do = "visit" /\ a[i].node = This
          <6>1. a[i].node = This /\ First.do = "visit" /\ Fits(a[i])
            BY <4>1, <4>3, <1>3
          <6> QED
            BY <6>1, <4>3 DEF Fits, BlockClass
        <5>2. l.what = "statement"
          BY <5>1, <2>2, <1>2
        <5> QED
          BY <4>1, <4>3, <5>1, <5>2, <2>2, <3>0 DEF Precedes
      <4>4. CASE a[i].do = "close"
        BY <4>1, <4>4 DEF Precedes
      <4> QED
        BY <4>1, <4>2, <4>3, <4>4, <1>3
    <3>2. ASSUME NEW j \in DOMAIN rest, IsOld(a, i, j) PROVE Precedes(lines'[k], rest'[i])
      <4>1. rest'[i] = rest[j] /\ 1 < j
        BY <3>2 DEF IsOld
      <4>2. rest[j].do # "close" => This < rest[j].node
        BY <4>1, <1>0, <1>1 DEF CallsRise
      <4> QED
        BY <4>1, <4>2, <2>2, <3>0 DEF Precedes
    <3> QED
      BY <3>1, <3>2, PushedFacts
  <2> QED
    BY <2>1, <2>2, <1>1, GrownFacts
<1>8. Closed'
  <2> SUFFICES ASSUME NEW k \in At("close")', NEW i \in DOMAIN rest',
                      rest'[i].node \in Below(tree, lines'[k].node)
               PROVE  FALSE
    BY <1>1 DEF Closed
  <2>1. ASSUME k \in At("close"), lines'[k] = lines[k] PROVE FALSE
    <3>1. This \in Below(tree, lines[k].node)
      BY <2>1, <1>5, HereFacts
    <3> QED
      BY <2>1, <3>1, <1>1, FirstFacts
  <2>2. ASSUME k \in N, lines'[k] = l, l.what = "close" PROVE FALSE
    <3>1. First.do = "close" /\ l.node = This
      BY <2>2, <1>2
    <3>2. PICK j \in DOMAIN rest : IsOld(a, i, j)
      BY <3>1, <1>3, PushedFacts DEF IsNew
    <3>3. rest'[i] = rest[j] /\ 1 < j /\ rest[j].node \in Below(tree, This)
      BY <2>2, <3>1, <3>2 DEF IsOld
    <3>4. rest[j].node \in Nat /\ This <= rest[j].node
      BY <3>3, <1>1, BelowFacts
    <3>5. CASE rest[j].do = "close"
      <4>1. This \in Within(rest[j].node) /\ rest[j].node \in DOMAIN tree
        BY <3>3, <3>5, <1>0, <1>1, CallFacts DEF CallsRise
      <4>2. rest[j].node < This
        BY <4>1, <1>1, AboveFacts
      <4> QED
        BY <4>2, <3>4, <1>1
    <3>6. CASE rest[j].do # "close"
      <4>1. rest[j].node < rest[j].node
        BY <3>3, <3>6, <1>0, <1>1 DEF CallsRise
      <4> QED
        BY <4>1, <3>4
    <3> QED
      BY <3>5, <3>6
  <2> QED
    BY <2>1, <2>2, <1>1, GrownFacts
<1>9. Inside'
  <2> SUFFICES ASSUME NEW k \in Here', NEW m \in Here', NEW i \in DOMAIN rest',
                      k < m, lines'[k].what # "close", rest'[i].node \in Below(tree, lines'[k].node)
               PROVE  lines'[m].node \in Below(tree, lines'[k].node)
    BY <1>1 DEF Inside
  <2>1. k \in Here /\ lines'[k] = lines[k]
    BY <1>1, <1>2, GrownFacts
  <2>2. This \in Below(tree, lines[k].node)
    BY <2>1, <1>5
  <2>3. CASE m \in N /\ lines'[m] = l
    BY <2>1, <2>2, <2>3, <1>2
  <2>4. CASE m \in Here /\ lines'[m] = lines[m]
    BY <2>1, <2>2, <2>4, <1>0, <1>1 DEF Inside
  <2> QED
    BY <2>3, <2>4, <1>1, GrownFacts
<1>10. \A what, n : HasLine(what, n) => HasLine(what, n)'
  BY <1>1, GrownFacts DEF HasLine
<1>11. ASSUME N # {}, NEW n, n = This PROVE HasLine(l.what, n)'
  <2>1. PICK k \in N : TRUE
    BY <1>11
  <2>2. k \in At(l.what)' /\ lines'[k] = l /\ l.node = n
    BY <2>1, <1>1, <1>2, <1>11, GrownFacts
  <2> QED
    BY <2>2 DEF HasLine
<1>12. ASSUME NEW do, NEW n, ToDo(do, n), do # First.do \/ n # This PROVE ToDo(do, n)'
  <2>1. PICK j \in DOMAIN rest : rest[j] = Call(do, n)
    BY <1>12 DEF ToDo
  <2>2. rest[j].do = do /\ rest[j].node = n
    BY <2>1 DEF Call
  <2>3. j # 1 /\ 1 < j
    BY <2>2, <1>1, <1>12, CallFacts
  <2> QED
    BY <2>1, <2>3, PushedFacts DEF ToDo, Call
<1>13. Stated'
  <2> SUFFICES ASSUME NEW n \in Printable PROVE Due(n)' \/ HasLine("statement", n)'
    BY <1>1, TreeStays DEF Stated
  <2>1. n \in Visible /\ tree[n].class # "Block"
    BY DEF Printable
  <2>2. Due(n) \/ HasLine("statement", n)
    BY <1>0 DEF Stated
  <2>3. CASE Due(n)
    <3>1. Due(n)' \/ (n = This /\ First.do = "visit")
      BY <2>1, <2>3, DueKept
    <3> QED
      BY <3>1, <2>1, <1>11 DEF Completes
  <2> QED
    BY <2>2, <2>3, <1>10
<1>14. Opened'
  <2> SUFFICES ASSUME printer = "PrintVisitor", NEW n \in Bodies
               PROVE  \/ Due(n)' \/ ToDo("body", n)'
                      \/ HasLine("open", n)' /\ (ToDo("close", n)' \/ HasLine("close", n)')
    BY <1>1, TreeStays DEF Opened
  <2>1. n \in Visible
    BY DEF Bodies
  <2>2. \/ Due(n) \/ ToDo("body", n)
        \/ HasLine("open", n) /\ (ToDo("close", n) \/ HasLine("close", n))
    BY <1>0 DEF Opened
  <2>3. ASSUME n = This, First.do # "close"
        PROVE  ToDo("body", n)' \/ (HasLine("open", n)' /\ ToDo("close", n)')
    <3>1. \A i \in DOMAIN a : i \in DOMAIN rest' /\ rest'[i] = a[i]
      BY PushedFacts
    <3> QED
      BY <2>3, <3>1, <1>11 DEF Completes, ToDo, Call
  <2>4. CASE Due(n)
    <3>1. Due(n)' \/ (n = This /\ First.do = "visit")
      BY <2>1, <2>4, DueKept
    <3> QED
      BY <3>1, <2>3
  <2>5. CASE ToDo("body", n)
    <3>1. CASE n = This /\ First.do = "body"
      BY <3>1, <2>3
    <3> QED
      BY <3>1, <2>5, <1>12
  <2>6. CASE HasLine("open", n) /\ (ToDo("close", n) \/ HasLine("close", n))
    <3>1. HasLine("open", n)'
      BY <2>6, <1>10
    <3>2. CASE HasLine("close", n)
      BY <3>1, <3>2, <1>10
    <3>3. CASE ToDo("close", n) /\ n = This /\ First.do = "close"
      <4>1. HasLine("close", n)'
        BY <3>3, <1>11 DEF Completes
      <4> QED
        BY <3>1, <4>1
    <3>4. CASE ToDo("close", n) /\ (n # This \/ First.do # "close")
      BY <3>1, <3>4, <1>12
    <3> QED
      BY <2>6, <3>2, <3>3, <3>4
  <2> QED
    BY <2>2, <2>4, <2>5, <2>6
<1> QED
  BY <1>6, <1>7, <1>8, <1>9, <1>13, <1>14 DEF RestInv

-----------------------------------------------------------------------------
\* Writing.
LineSet == [what : {"header", "statement", "open", "close"}, node : Nat, number : Nat, indent : Nat]

LEMMA ShownFacts ==
  ASSUME TypeOK, NEW level \in Nat
  PROVE  /\ Shown(level) \in Nat
         /\ printer = "PrintVisitor" => Shown(level) = level
         /\ printer # "PrintVisitor" => printer = "Print"
         /\ printer = "Print" => Shown(level) = IF level = 0 THEN 0 ELSE level - 1
<1>1. printer \in {"Print", "PrintVisitor"}
  BY TreesAssumption DEF TypeOK
<1>2. ASSUME printer = "PrintVisitor" PROVE Shown(level) = level
  <2>1. printer # "Print"
    BY <1>2
  <2> QED
    BY <1>2, <2>1 DEF Shown
<1>3. ASSUME printer = "Print" PROVE Shown(level) = IF level = 0 THEN 0 ELSE level - 1
  <2>1. printer # "PrintVisitor"
    BY <1>3
  <2>2. CASE level > 1
    <3>1. level \notin 0..1 /\ level # 0
      BY <2>2
    <3> QED
      BY <1>3, <2>1, <2>2, <3>1 DEF Shown
  <2>3. CASE ~(level > 1)
    <3>1. level \in 0..1 /\ (level # 0 => level = 1)
      BY <2>3
    <3>2. Shown(level) = 0
      BY <1>3, <2>1, <2>3, <3>1 DEF Shown
    <3> QED
      BY <3>1, <3>2
  <2> QED
    BY <2>2, <2>3
<1> QED
  BY <1>1, <1>2, <1>3

LEMMA WrittenLines ==
  ASSUME TypeOK, NEW what \in {"statement", "open", "close"}, NEW n \in Nat, NEW level \in Nat,
         Written(what, n, level)
  PROVE  LET m == Len(lines)
             k == Len(lines')
             l == Line(what, n, line_count_, Shown(level)) IN
         /\ lines' \in Seq(LineSet) /\ DOMAIN lines' = 1..k /\ DOMAIN lines = 1..m
         /\ m \in Nat /\ k \in Nat
         /\ \A i \in 1..m : lines'[i] = lines[i]
         /\ lines'[k] = l
         /\ IF line_count_ = 1
            THEN k = m + 2 /\ lines'[m + 1] = Line("header", 0, 0, 0)
            ELSE k = m + 1
         /\ line_count_' = line_count_ + 1 /\ line_count_ \in Nat \ {0}
<1> DEFINE m == Len(lines)
           l == Line(what, n, line_count_, Shown(level))
           h == Line("header", 0, 0, 0)
<1>1. /\ lines \in Seq(LineSet) /\ line_count_ \in Nat \ {0}
      /\ lines' = Append(Headed, l) /\ line_count_' = line_count_ + 1
  BY DEF TypeOK, LineSet, Written
<1>2. l \in LineSet /\ h \in LineSet
  <2>1. Shown(level) \in Nat /\ line_count_ \in Nat
    BY <1>1, ShownFacts
  <2> QED
    BY <2>1 DEF Line, LineSet
<1> HIDE DEF l, h
<1>3. m \in Nat /\ DOMAIN lines = 1..m
  BY <1>1
<1>4. CASE line_count_ = 1
  <2>1. Headed = Append(lines, h)
    BY <1>4 DEF Headed, h
  <2>2. /\ Headed \in Seq(LineSet) /\ Len(Headed) = m + 1
        /\ \A i \in 1..m : Headed[i] = lines[i]
        /\ Headed[m + 1] = h
    BY <2>1, <1>1, <1>2
  <2>3. /\ lines' \in Seq(LineSet) /\ Len(lines') = m + 2
        /\ \A i \in 1..(m + 1) : lines'[i] = Headed[i]
        /\ lines'[m + 2] = l
    BY <2>2, <1>1, <1>2, <1>3
  <2> QED
    BY <2>2, <2>3, <1>1, <1>3, <1>4 DEF h, l
<1>5. CASE line_count_ # 1
  <2>1. Headed = lines
    BY <1>5 DEF Headed
  <2>2. /\ lines' \in Seq(LineSet) /\ Len(lines') = m + 1
        /\ \A i \in 1..m : lines'[i] = lines[i]
        /\ lines'[m + 1] = l
    BY <2>1, <1>1, <1>2, <1>3
  <2> QED
    BY <2>2, <1>1, <1>3, <1>5 DEF l
<1> QED
  BY <1>4, <1>5

LEMMA WrittenGrows ==
  ASSUME TypeOK, NEW what \in {"statement", "open", "close"}, NEW n \in Nat, NEW level \in Nat,
         Written(what, n, level), from' = from
  PROVE  Grows({Len(lines')}, Line(what, n, line_count_, Shown(level)))
<1> DEFINE m == Len(lines)
           k == Len(lines')
           l == Line(what, n, line_count_, Shown(level))
<1>1. /\ DOMAIN lines' = 1..k /\ DOMAIN lines = 1..m /\ m \in Nat /\ k \in Nat
      /\ \A i \in 1..m : lines'[i] = lines[i]
      /\ lines'[k] = l
      /\ m < k
      /\ k # m + 1 => k = m + 2 /\ lines'[m + 1].what = "header"
  BY WrittenLines DEF Line
<1>2. l.what # "header"
  BY DEF Line
<1>3. from \in Nat /\ from <= m
  BY HereFacts DEF TypeOK
<1> HIDE DEF k, l, m
<1>4. ASSUME NEW i PROVE i \in Here' <=> i \in Here \/ i = k
  <2>1. i \in Here' <=> i \in 1..k /\ from < i /\ lines'[i].what # "header"
    BY <1>1 DEF Here
  <2>2. i \in Here <=> i \in 1..m /\ from < i /\ lines[i].what # "header"
    BY <1>1 DEF Here
  <2>3. CASE i \in 1..m
    BY <2>1, <2>2, <2>3, <1>1
  <2>4. CASE i = k
    BY <2>1, <2>4, <1>1, <1>2, <1>3
  <2>5. CASE i \notin 1..m /\ i # k
    <3>1. i \in 1..k => i = m + 1 /\ k = m + 2
      BY <2>5, <1>1
    <3> QED
      BY <2>1, <2>2, <2>5, <3>1, <1>1
  <2> QED
    BY <2>3, <2>4, <2>5
<1>5. ASSUME NEW i \in Here PROVE lines'[i] = lines[i] /\ i < k
  <2>1. i \in 1..m
    BY <1>1 DEF Here
  <2> QED
    BY <2>1, <1>1
<1>6. Here' = Here \cup {k}
  BY <1>4
<1>7. Grows({k}, l)
  BY <1>1, <1>5, <1>6 DEF Grows
<1> QED
  BY <1>7 DEF k, l

LEMMA WrittenNumbers ==
  ASSUME TypeOK, Numbered, Numbering,
         NEW what \in {"statement", "open", "close"}, NEW n \in Nat, NEW level \in Nat,
         Written(what, n, level)
  PROVE  Numbered' /\ Numbering'
<1> DEFINE m == Len(lines)
           k == Len(lines')
<1>1. /\ DOMAIN lines' = 1..k /\ DOMAIN lines = 1..m /\ m \in Nat /\ k \in Nat
      /\ \A i \in 1..m : lines'[i] = lines[i]
      /\ lines'[k].what # "header" /\ lines'[k].number = line_count_
      /\ line_count_ = 1 => k = m + 2 /\ lines'[m + 1].what = "header" /\ lines'[m + 1].number = 0
      /\ line_count_ # 1 => k = m + 1
      /\ line_count_' = line_count_ + 1 /\ line_count_ \in Nat \ {0}
      /\ \A i \in 1..m : lines[i].number \in Nat
  <2>1. DOMAIN lines = 1..m /\ \A i \in 1..m : lines[i].number \in Nat
    BY HereFacts
  <2>2. /\ DOMAIN lines' = 1..k /\ m \in Nat /\ k \in Nat
        /\ \A i \in 1..m : lines'[i] = lines[i]
        /\ lines'[k] = Line(what, n, line_count_, Shown(level))
        /\ line_count_ = 1 => k = m + 2 /\ lines'[m + 1] = Line("header", 0, 0, 0)
        /\ line_count_ # 1 => k = m + 1
        /\ line_count_' = line_count_ + 1 /\ line_count_ \in Nat \ {0}
    BY WrittenLines
  <2>3. lines'[k].what # "header" /\ lines'[k].number = line_count_
    <3> DEFINE l == Line(what, n, line_count_, Shown(level))
    <3>1. l.what = what /\ l.number = line_count_
      BY DEF Line
    <3> HIDE DEF l, k
    <3>2. lines'[k] = l
      BY <2>2 DEF l, k
    <3> QED
      BY <3>1, <3>2
  <2>4. line_count_ = 1 => lines'[m + 1].what = "header" /\ lines'[m + 1].number = 0
    BY <2>2 DEF Line
  <2> HIDE DEF m, k
  <2> QED
    BY <2>1, <2>2, <2>3, <2>4
<1>2. m # 0 => lines[m].what # "header" /\ lines[m].number > 0
               /\ line_count_ \in {1, lines[m].number + 1}
  <2>1. m # 0 => lines # << >> /\ m \in DOMAIN lines
    <3>0. m \in Nat /\ DOMAIN lines = 1..m
      BY <1>1
    <3> HIDE DEF m
    <3>1. m # 0 => m \in 1..m
      BY <3>0
    <3>2. m \in DOMAIN lines => lines # << >>
      OBVIOUS
    <3> QED
      BY <3>0, <3>1, <3>2
  <2> QED
    BY <2>1 DEF Numbering
<1>3. m = 0 => line_count_ = 1
  <2>1. m = 0 => lines = << >>
    BY DEF TypeOK
  <2> QED
    BY <2>1 DEF Numbering
<1>4. lines' # << >>
  <2>1. k \in DOMAIN lines'
    <3> HIDE DEF k, m
    <3>1. k # 0
      BY <1>1
    <3> QED
      BY <3>1, <1>1
  <2> QED
    BY <2>1
<1>41. Numbered
  OBVIOUS
<1>42. \A i \in 1..m : lines[i].what # "header" => lines[i].number > 0
  BY <1>1 DEF Numbering
<1> HIDE DEF k
<1>5. ASSUME NEW i \in 1..m
      PROVE  /\ lines[i].what = "header" <=> i < m /\ lines[i + 1].number = 1
             /\ i > 1 /\ lines[i].what # "header" => lines[i].number = lines[i - 1].number + 1
  BY <1>1, <1>41 DEF Numbered
<1> HIDE DEF m
<1>6. ASSUME NEW i \in 1..k
      PROVE  /\ lines'[i].what = "header" <=> i < k /\ lines'[i + 1].number = 1
             /\ i > 1 /\ lines'[i].what # "header" => lines'[i].number = lines'[i - 1].number + 1
  <2>1. CASE i \in 1..m /\ i # m
    <3>1. i + 1 \in 1..m /\ i < m /\ i < k /\ (i > 1 => i - 1 \in 1..m)
      BY <2>1, <1>1
    <3>2. lines'[i] = lines[i] /\ lines'[i + 1] = lines[i + 1] /\ (i > 1 => lines'[i - 1] = lines[i - 1])
      BY <2>1, <3>1, <1>1
    <3> QED
      BY <2>1, <3>1, <3>2, <1>5
  <2>2. CASE i \in 1..m /\ i = m
    <3>1. m # 0 /\ i < k /\ (i > 1 => i - 1 \in 1..m)
      BY <2>2, <1>1
    <3>2. lines'[i] = lines[i] /\ (i > 1 => lines'[i - 1] = lines[i - 1])
      BY <2>2, <3>1, <1>1
    <3>3. lines'[m + 1].number # 1
      <4>1. CASE line_count_ = 1
        BY <4>1, <1>1
      <4>2. CASE line_count_ # 1
        <5>1. lines'[m + 1].number = lines[m].number + 1 /\ lines[m].number \in Nat /\ lines[m].number > 0
          BY <4>2, <3>1, <2>2, <1>1, <1>2
        <5> QED
          BY <5>1
      <4> QED
        BY <4>1, <4>2
    <3> QED
      BY <2>2, <3>1, <3>2, <3>3, <1>2, <1>5
  <2>3. CASE i \notin 1..m /\ line_count_ = 1
    <3>1. /\ i = m + 1 \/ i = m + 2
          /\ k = m + 2 /\ (m + 1) + 1 = m + 2 /\ (m + 2) - 1 = m + 1 /\ m + 1 < m + 2 /\ m + 2 # m + 1
      BY <2>3, <1>1
    <3>2. lines'[m + 1].what = "header" /\ lines'[m + 1].number = 0
          /\ lines'[m + 2].what # "header" /\ lines'[m + 2].number = 1
      BY <2>3, <3>1, <1>1
    <3> QED
      BY <3>1, <3>2, <1>1
  <2>4. CASE i \notin 1..m /\ line_count_ # 1
    <3>1. i = m + 1 /\ k = m + 1 /\ m # 0 /\ (m + 1) - 1 = m /\ m \in 1..m
      BY <2>4, <1>1, <1>3
    <3>2. lines'[m + 1].number = lines[m].number + 1 /\ lines'[m + 1].what # "header" /\ lines'[m] = lines[m]
      BY <2>4, <3>1, <1>1, <1>2
    <3> QED
      BY <3>1, <3>2, <1>1
  <2> QED
    BY <2>1, <2>2, <2>3, <2>4
<1>7. Numbered'
  BY <1>1, <1>6 DEF Numbered, k
<1>8. ASSUME NEW i \in 1..k, lines'[i].what # "header" PROVE lines'[i].number > 0
  <2>1. CASE i \in 1..m
    BY <2>1, <1>1, <1>8, <1>42
  <2>2. CASE i \notin 1..m
    <3>1. i = m + 1 \/ i = k
      BY <2>2, <1>1
    <3>2. i = k
      BY <3>1, <1>1, <1>8
    <3> QED
      BY <3>2, <1>1
  <2> QED
    BY <2>1, <2>2
<1>9. Numbering'
  BY <1>1, <1>4, <1>8 DEF Numbering, k
<1> QED
  BY <1>7, <1>9

-----------------------------------------------------------------------------
\* Steps.  What StopsExplained says of a statement, and that it is what the code meets.
Stops(n) == \/ tree[n].class # "Interaction" /\ "pointer" \in tree[n].lacks
            \/ printer = "PrintVisitor" /\ "part" \in tree[n].lacks

LEMMA StopsFacts ==
  ASSUME TypeOK, NEW n \in DOMAIN tree
  PROVE  Stops(n) <=> Unguarded(n)
BY TreeFacts DEF Stops, Unguarded, PointingClass, BlockClass

\* The lines and their count after a step.
LinesTyped == lines \in Seq(LineSet) /\ line_count_ \in Nat \ {0} /\ Numbered /\ Numbering

LEMMA QuietStep ==
  ASSUME IInv, UNCHANGED <<printer, tree, lines, line_count_, from>>
  PROVE  /\ LinesTyped' /\ Len(lines') >= Len(lines)
         /\ \A l : Writes({}, l)
<1>1. TypeOK /\ Numbered /\ Numbering
  BY DEF IInv
<1>2. Here' = Here
  BY DEF Here
<1>3. \A l : Grows({}, l)
  BY <1>2 DEF Grows
<1>4. \A l : Writes({}, l)
  BY <1>3 DEF Writes
<1>5. LinesTyped'
  BY <1>1 DEF LinesTyped, TypeOK, LineSet, Numbered, Numbering
<1>6. Len(lines) \in Nat
  BY <1>1, HereFacts
<1> QED
  BY <1>4, <1>5, <1>6

LEMMA WritingStep ==
  ASSUME IInv, RestInv, rest # << >>, NEW what \in {"statement", "open", "close"},
         NEW level \in Nat, level = Depth(This), Written(what, This, level),
         UNCHANGED <<printer, tree, from>>,
         what = "statement" => First.do = "visit" /\ tree[This].class # "Block",
         what = "open" => /\ printer = "PrintVisitor" /\ This \in Bodies
                          /\ First.do = "body" \/ (First.do = "visit" /\ tree[This].class = "Block"),
         what = "close" => printer = "PrintVisitor" /\ First.do = "close"
  PROVE  /\ LinesTyped' /\ Len(lines') >= Len(lines)
         /\ \E N, l : Writes(N, l) /\ N # {} /\ l.what = what
<1> DEFINE l == Line(what, This, line_count_, Shown(level))
           n == This
<1>1. TypeOK /\ Numbered /\ Numbering
  BY DEF IInv
<1>2. /\ This \in DOMAIN tree /\ This \in Nat /\ This \in Visible /\ Fits(First)
      /\ First.node = This
  BY <1>1, FirstFacts
<1>3. /\ Grows({Len(lines')}, l) /\ Numbered' /\ Numbering'
  BY <1>1, <1>2, WrittenGrows, WrittenNumbers
<1>4. /\ lines' \in Seq(LineSet) /\ line_count_' = line_count_ + 1 /\ line_count_ \in Nat \ {0}
      /\ Len(lines) \in Nat /\ Len(lines') \in Nat
      /\ (Len(lines') = Len(lines) + 2 \/ Len(lines') = Len(lines) + 1)
  BY <1>1, <1>2, WrittenLines
<1>5. LinesTyped' /\ Len(lines') >= Len(lines)
  BY <1>3, <1>4 DEF LinesTyped
<1>6. l.what = what /\ l.node = This /\ l.indent = Shown(Depth(This))
  BY DEF Line
<1> HIDE DEF l
<1>7. LineFits(l)
  <2>1. CASE what = "statement"
    <3>1. This \in Printable
      BY <2>1, <1>2 DEF Printable
    <3> QED
      BY <2>1, <3>1, <1>2, <1>6 DEF LineFits
  <2>2. CASE what = "open"
    BY <2>2, <1>2, <1>6 DEF LineFits
  <2>3. CASE what = "close"
    <3>1. This \in Bodies
      BY <2>3, <1>2 DEF Fits
    <3> QED
      BY <2>3, <3>1, <1>2, <1>6 DEF LineFits
  <2> QED
    BY <2>1, <2>2, <2>3
<1>8. Writes({Len(lines')}, l)
  BY <1>3, <1>6, <1>7 DEF Writes
<1> QED
  BY <1>5, <1>6, <1>8

\* No statement that is written to its end has anything that would stop the print.
LEMMA StopsKept ==
  ASSUME TypeOK, StopsExplained, status = "running", status' = "running",
         NEW N, NEW l, Writes(N, l), rest # << >>,
         N # {} /\ l.what = "statement" => ~Unguarded(This)
  PROVE  StopsExplained'
<1>0. UNCHANGED <<printer, tree>> /\ Grows(N, l) /\ This \in DOMAIN tree
  BY CallFacts DEF Writes
<1>1. ASSUME NEW i \in At("statement")' PROVE ~Stops(lines'[i].node)
  <2>1. CASE i \in At("statement") /\ lines'[i] = lines[i]
    BY <2>1 DEF StopsExplained, Stops
  <2>2. CASE i \in N /\ lines'[i] = l /\ l.what = "statement"
    <3>1. l.node = This /\ ~Unguarded(This)
      BY <2>2 DEF Writes
    <3>2. ~Stops(This)
      BY <3>1, <1>0, StopsFacts
    <3> QED
      BY <2>2, <3>1, <3>2
  <2> QED
    BY <2>1, <2>2, <1>0, GrownFacts
<1> QED
  BY <1>0, <1>1 DEF StopsExplained, Stops

LEMMA StepKept ==
  ASSUME IInv, NEW a, Pushes(a), NEW N, NEW l, Writes(N, l), Completes(a, N, l),
         LinesTyped', Len(lines') >= Len(lines), UNCHANGED <<status, prints>>,
         N # {} /\ l.what = "statement" => ~Unguarded(This)
  PROVE  IInv'
<1>0. /\ status = "running" /\ rest # << >> /\ UNCHANGED <<printer, tree, from>>
      /\ TypeOK /\ StopsExplained /\ RestInv /\ LinesInv
      /\ CallsRise /\ ClosesAbove /\ CallsFit
  BY DEF IInv, Pushes, RestInv, CallsInv
<1>1. RestInv' /\ LinesInv'
  BY <1>0, RestKept, LinesKept
<1>2. StopsExplained'
  BY <1>0, StopsKept
<1>3. TypeOK'
  <2>1. rest' \in Seq(CallSet) /\ CallSet' = CallSet
    BY <1>0, PushedFacts DEF CallSet
  <2>2. indent_lvl_' \in Nat
    <3>1. This \in DOMAIN tree /\ Depth(This) \in Nat
      BY <1>0, FirstFacts, AboveFacts
    <3>2. CASE a = << >>
      BY <3>1, <3>2 DEF Pushes
    <3>3. CASE a # << >>
      <4>1. 1 \in DOMAIN a
        BY <3>3, <1>0, PushedFacts
      <4>2. a[1] \in CallSet
        BY <4>1 DEF Pushes
      <4>3. Depth(a[1].node) \in Nat
        BY <4>2, <1>0, AboveFacts DEF CallSet
      <4>4. LevelOf(a[1]) \in Nat
        BY <4>3 DEF LevelOf
      <4> QED
        BY <3>3, <4>4 DEF Pushes
    <3> QED
      BY <3>2, <3>3
  <2>3. from' \in 0..Len(lines')
    <3>1. from \in 0..Len(lines) /\ Len(lines) \in Nat
      BY <1>0, HereFacts DEF TypeOK
    <3>2. Len(lines') \in Nat
      BY DEF LinesTyped
    <3> QED
      BY <3>1, <3>2, <1>0
  <2>4. lines' \in Seq(LineSet) /\ line_count_' \in Nat \ {0}
    BY DEF LinesTyped
  <2> QED
    BY <2>1, <2>2, <2>3, <2>4, <1>0 DEF TypeOK, CallSet, LineSet
<1> QED
  BY <1>0, <1>1, <1>2, <1>3 DEF IInv, LinesTyped

LEMMA FollowKept ==
  ASSUME IInv, Follow
  PROVE  IInv'
<1>0. /\ status = "running" /\ rest # << >> /\ Head(rest).do = "visit"
      /\ tree[This].class \in Class \ {"Block"} /\ Unguarded(This)
      /\ Written("statement", This, indent_lvl_) /\ status' = "undefined"
      /\ UNCHANGED <<printer, tree, rest, indent_lvl_, from, prints>>
  BY DEF Follow, Calling, This
<1>1. TypeOK /\ StopsExplained /\ RestInv /\ LinesInv /\ CallsFit /\ Level
  BY <1>0 DEF IInv, RestInv, CallsInv
<1>2. /\ First.do = "visit" /\ This \in DOMAIN tree /\ indent_lvl_ = Depth(This)
      /\ Depth(This) \in Nat
  BY <1>0, <1>1, HeadFacts
<1>3. /\ LinesTyped' /\ Len(lines') >= Len(lines)
      /\ \E N, l : Writes(N, l) /\ N # {} /\ l.what = "statement"
  BY <1>0, <1>1, <1>2, WritingStep
<1>4. PICK N, l : Writes(N, l) /\ N # {} /\ l.what = "statement"
  BY <1>3
<1>5. LinesInv'
  BY <1>0, <1>1, <1>4, LinesKept
<1>6. StopsExplained'
  <2>0. Grows(N, l) /\ l.node = This /\ Stops(This)
    BY <1>0, <1>1, <1>2, <1>4, StopsFacts DEF Writes
  <2>1. PICK k \in N : TRUE
    BY <1>4
  <2>2. k \in Nat /\ (\A i \in Here : i < k) /\ (\A i \in N : i = k) /\ k \in At("statement")'
    BY <1>1, <1>4, <2>0, GrownFacts DEF Grows
  <2> SUFFICES ASSUME NEW i \in At("statement")'
               PROVE  Stops(lines'[i].node) <=> \A j \in At("statement")' : j <= i
    BY <1>0 DEF StopsExplained, Stops
  <2>3. CASE i \in At("statement") /\ lines'[i] = lines[i]
    <3>1. ~Stops(lines[i].node)
      BY <2>3, <1>0, <1>1 DEF StopsExplained, Stops
    <3>2. i < k /\ i \in Nat
      BY <2>2, <2>3, <1>1, HereFacts
    <3>3. ~(k <= i)
      BY <3>2, <2>2
    <3> QED
      BY <2>2, <2>3, <3>1, <3>3
  <2>4. CASE i \in N /\ lines'[i] = l
    <3>1. Stops(lines'[i].node) /\ i = k
      BY <2>0, <2>2, <2>4
    <3>2. ASSUME NEW j \in At("statement")' PROVE j <= k
      <4>1. j \in At("statement") \/ j \in N
        BY <1>1, <2>0, GrownFacts
      <4>2. CASE j \in At("statement")
        <5>1. j < k /\ j \in Nat
          BY <4>2, <2>2, <1>1, HereFacts
        <5> QED
          BY <5>1, <2>2
      <4>3. CASE j \in N
        BY <4>3, <2>2
      <4> QED
        BY <4>1, <4>2, <4>3
    <3> QED
      BY <3>1, <3>2
  <2> QED
    BY <2>3, <2>4, <1>1, <2>0, GrownFacts
<1>7. TypeOK'
  <2>1. from' \in 0..Len(lines')
    <3>1. from \in 0..Len(lines) /\ Len(lines) \in Nat
      BY <1>1, HereFacts DEF TypeOK
    <3>2. Len(lines') \in Nat
      BY <1>3 DEF LinesTyped
    <3> QED
      BY <3>1, <3>2, <1>0, <1>3
  <2>2. lines' \in Seq(LineSet) /\ line_count_' \in Nat \ {0}
    BY <1>3 DEF LinesTyped
  <2> QED
    BY <2>1, <2>2, <1>0, <1>1 DEF TypeOK, LineSet
<1> QED
  BY <1>0, <1>3, <1>5, <1>6, <1>7 DEF IInv, LinesTyped

LEMMA LeafKept ==
  ASSUME IInv, VisitLeaf
  PROVE  IInv'
<1>0. /\ status = "running" /\ rest # << >> /\ Head(rest).do = "visit"
      /\ tree[This].class \in LeafClass \cup {"Interruptible"} /\ ~Unguarded(This)
      /\ Written("statement", This, indent_lvl_) /\ rest' = Tail(rest)
      /\ UNCHANGED <<printer, tree, indent_lvl_, from, prints, status>>
  BY DEF VisitLeaf, Calling, This
<1>1. TypeOK /\ RestInv /\ CallsFit /\ Level
  BY <1>0 DEF IInv, RestInv, CallsInv
<1>2. /\ First.do = "visit" /\ This \in DOMAIN tree /\ indent_lvl_ = Depth(This)
      /\ Depth(This) \in Nat
  BY <1>0, <1>1, HeadFacts
<1>3. tree[This].class \notin BlockClass \cup {"Block"} /\ tree[This].class # "Block"
  BY <1>0 DEF LeafClass, BlockClass
<1>4. /\ LinesTyped' /\ Len(lines') >= Len(lines)
      /\ \E N, l : Writes(N, l) /\ N # {} /\ l.what = "statement"
  BY <1>0, <1>1, <1>2, <1>3, WritingStep
<1>5. PICK N, l : Writes(N, l) /\ N # {} /\ l.what = "statement"
  BY <1>4
<1>6. Pushes(<< >>)
  BY <1>0, <1>1, <1>2, NoPush, TreeFacts
<1>7. Completes(<< >>, N, l)
  BY <1>2, <1>3, <1>5 DEF Completes, Bodies
<1> QED
  BY <1>0, <1>4, <1>5, <1>6, <1>7, StepKept

LEMMA BlockKept ==
  ASSUME IInv, VisitBlock
  PROVE  IInv'
<1>0. /\ status = "running" /\ rest # << >> /\ Head(rest).do = "visit"
      /\ tree[This].class \in BlockClass /\ ~Unguarded(This)
      /\ Written("statement", This, indent_lvl_)
      /\ UNCHANGED <<printer, tree, indent_lvl_, from, prints, status>>
  BY DEF VisitBlock, Calling, This
<1>1. TypeOK /\ RestInv /\ CallsFit /\ Level
  BY <1>0 DEF IInv, RestInv, CallsInv
<1>2. /\ First.do = "visit" /\ This \in DOMAIN tree /\ indent_lvl_ = Depth(This)
      /\ Depth(This) \in Nat
  BY <1>0, <1>1, HeadFacts
<1>3. tree[This].class # "Block"
  BY <1>0 DEF BlockClass
<1>4. /\ LinesTyped' /\ Len(lines') >= Len(lines)
      /\ \E N, l : Writes(N, l) /\ N # {} /\ l.what = "statement"
  BY <1>0, <1>1, <1>2, <1>3, WritingStep
<1>5. PICK N, l : Writes(N, l) /\ N # {} /\ l.what = "statement"
  BY <1>4
<1> DEFINE a == <<Call("body", This)>>
<1>6. Pushes(a)
  BY <1>1, BlockPushes
<1>7. 1 \in DOMAIN a /\ a[1] = Call("body", This)
  OBVIOUS
<1> HIDE DEF a
<1>8. Completes(a, N, l)
  BY <1>2, <1>5, <1>7 DEF Completes
<1> QED
  BY <1>0, <1>4, <1>5, <1>6, <1>8, StepKept

LEMMA EnterKept ==
  ASSUME IInv, EnterBody
  PROVE  IInv'
<1>0. /\ status = "running" /\ rest # << >>
      /\ Head(rest).do = "visit" => tree[This].class = "Block"
      /\ printer = "Print"
      /\ UNCHANGED <<printer, tree, line_count_, lines, from, prints, status>>
  BY DEF EnterBody, IsBody, Calling, This
<1>1. TypeOK /\ RestInv /\ CallsFit /\ Level
  BY <1>0 DEF IInv, RestInv, CallsInv
<1>2. First = Head(rest) /\ printer # "PrintVisitor"
  BY <1>0, <1>1, HeadFacts
<1>3. /\ LinesTyped' /\ Len(lines') >= Len(lines) /\ \A l : Writes({}, l)
  BY <1>0, QuietStep
<1>4. Pushes(Calls(This))
  BY <1>1, BodyPushes
<1>5. \A l : Completes(Calls(This), {}, l)
  BY <1>0, <1>2 DEF Completes
<1> QED
  BY <1>0, <1>3, <1>4, <1>5, StepKept

LEMMA OpenKept ==
  ASSUME IInv, OpenBody
  PROVE  IInv'
<1>0. /\ status = "running" /\ rest # << >>
      /\ \/ Head(rest).do = "visit" /\ tree[This].class = "Block"
         \/ Head(rest).do = "body" /\ tree[This].class \in BlockClass
      /\ printer = "PrintVisitor" /\ tree[This].kids # << >>
      /\ Written("open", This, indent_lvl_)
      /\ UNCHANGED <<printer, tree, from, prints, status>>
  BY DEF OpenBody, IsBody, Calling, This
<1>1. TypeOK /\ RestInv /\ CallsFit /\ Level
  BY <1>0 DEF IInv, RestInv, CallsInv
<1>2. /\ First = Head(rest) /\ This \in DOMAIN tree /\ This \in Visible /\ indent_lvl_ = Depth(This)
      /\ Depth(This) \in Nat
  BY <1>0, <1>1, HeadFacts
<1>3. This \in Bodies
  BY <1>0, <1>2 DEF Bodies
<1>4. /\ LinesTyped' /\ Len(lines') >= Len(lines)
      /\ \E N, l : Writes(N, l) /\ N # {} /\ l.what = "open"
  BY <1>0, <1>1, <1>2, <1>3, WritingStep
<1>5. PICK N, l : Writes(N, l) /\ N # {} /\ l.what = "open"
  BY <1>4
<1>6. Pushes(Calls(This))
  BY <1>1, BodyPushes
<1>7. \E i \in DOMAIN Calls(This) : Calls(This)[i] = Call("close", This)
  <2> DEFINE m == Len(tree[This].kids)
  <2>1. /\ m \in Nat /\ DOMAIN Calls(This) = 1..(m + 1)
        /\ Calls(This)[m + 1] = Call("close", This)
    BY <1>1, <1>2, CallsFacts
  <2>2. m + 1 \in 1..(m + 1)
    BY <2>1
  <2> QED
    BY <2>1, <2>2
<1>8. Completes(Calls(This), N, l)
  BY <1>0, <1>2, <1>5, <1>7 DEF Completes
<1> QED
  BY <1>0, <1>4, <1>5, <1>6, <1>8, StepKept

LEMMA SkipKept ==
  ASSUME IInv, SkipBody
  PROVE  IInv'
<1>0. /\ status = "running" /\ rest # << >>
      /\ \/ Head(rest).do = "visit" /\ tree[This].class = "Block"
         \/ Head(rest).do = "body" /\ tree[This].class \in BlockClass
      /\ tree[This].kids = << >> /\ rest' = Tail(rest)
      /\ UNCHANGED <<printer, tree, indent_lvl_, line_count_, lines, from, prints, status>>
  BY DEF SkipBody, IsBody, Calling, This
<1>1. TypeOK /\ RestInv /\ CallsFit /\ Level
  BY <1>0 DEF IInv, RestInv, CallsInv
<1>2. /\ First = Head(rest) /\ This \in DOMAIN tree /\ indent_lvl_ = Depth(This)
  BY <1>0, <1>1, HeadFacts
<1>3. /\ LinesTyped' /\ Len(lines') >= Len(lines) /\ \A l : Writes({}, l)
  BY <1>0, QuietStep
<1>4. Pushes(<< >>)
  BY <1>0, <1>1, <1>2, NoPush
<1>5. \A l : Completes(<< >>, {}, l)
  BY <1>0, <1>2 DEF Completes, Bodies
<1> QED
  BY <1>0, <1>3, <1>4, <1>5, StepKept

LEMMA LeaveKept ==
  ASSUME IInv, LeaveBody
  PROVE  IInv'
<1>0. /\ status = "running" /\ rest # << >> /\ Head(rest).do = "close" /\ printer = "Print"
      /\ rest' = Tail(rest) /\ indent_lvl_' = indent_lvl_ - 1
      /\ UNCHANGED <<printer, tree, line_count_, lines, from, prints, status>>
  BY DEF LeaveBody, Calling, Left
<1>1. TypeOK /\ RestInv /\ CallsFit /\ Level
  BY <1>0 DEF IInv, RestInv, CallsInv
<1>2. /\ First.do = "close" /\ indent_lvl_ = Depth(This) + 1 /\ Depth(This) \in Nat
      /\ printer # "PrintVisitor"
  BY <1>0, <1>1, HeadFacts
<1>3. /\ LinesTyped' /\ Len(lines') >= Len(lines) /\ \A l : Writes({}, l)
  BY <1>0, QuietStep
<1>4. indent_lvl_' = Depth(This)
  BY <1>0, <1>2
<1>5. Pushes(<< >>)
  BY <1>0, <1>1, <1>2, <1>4, NoPush
<1>6. \A l : Completes(<< >>, {}, l)
  BY <1>2 DEF Completes
<1> QED
  BY <1>0, <1>3, <1>5, <1>6, StepKept

LEMMA CloseKept ==
  ASSUME IInv, CloseBody
  PROVE  IInv'
<1>0. /\ status = "running" /\ rest # << >> /\ Head(rest).do = "close" /\ printer = "PrintVisitor"
      /\ rest' = Tail(rest) /\ indent_lvl_' = indent_lvl_ - 1
      /\ Written("close", This, indent_lvl_ - 1)
      /\ UNCHANGED <<printer, tree, from, prints, status>>
  BY DEF CloseBody, Calling, Left
<1>1. TypeOK /\ RestInv /\ CallsFit /\ Level
  BY <1>0 DEF IInv, RestInv, CallsInv
<1>2. /\ First.do = "close" /\ indent_lvl_ = Depth(This) + 1 /\ Depth(This) \in Nat
  BY <1>0, <1>1, HeadFacts
<1>3. indent_lvl_ - 1 = Depth(This)
  BY <1>2
<1>4. /\ LinesTyped' /\ Len(lines') >= Len(lines)
      /\ \E N, l : Writes(N, l) /\ N # {} /\ l.what = "close"
  BY <1>0, <1>1, <1>2, <1>3, WritingStep
<1>5. PICK N, l : Writes(N, l) /\ N # {} /\ l.what = "close"
  BY <1>4
<1>6. Pushes(<< >>)
  BY <1>0, <1>1, <1>2, <1>3, NoPush
<1>7. Completes(<< >>, N, l)
  BY <1>2, <1>5 DEF Completes
<1> QED
  BY <1>0, <1>4, <1>5, <1>6, <1>7, StepKept

\* A print that has not begun.
Fresh == /\ TypeOK /\ status = "running" /\ rest = <<Call("visit", 1)>> /\ indent_lvl_ = 0
         /\ Here = {}

LEMMA FreshFacts ==
  Fresh => RestInv /\ LinesInv /\ StopsExplained
<1> SUFFICES ASSUME Fresh PROVE RestInv /\ LinesInv /\ StopsExplained
  OBVIOUS
<1> DEFINE c == Call("visit", 1)
<1>1. /\ TypeOK /\ rest = <<c>> /\ indent_lvl_ = 0 /\ Here = {}
      /\ c.do = "visit" /\ c.node = 1
  BY DEF Fresh, Call
<1>2. \A what : At(what) = {}
  BY <1>1 DEF At
<1>3. LinesInv
  BY <1>1, <1>2 DEF LinesInv, LinesFit, Rise, OpensLate, NoneMissed, Once, Pairs, Nested
<1>4. StopsExplained
  BY <1>2 DEF StopsExplained
<1>5. 1 \in DOMAIN tree /\ Above(1) = {} /\ Depth(1) = 0
  BY <1>1, TreeFacts, DepthFacts
<1> HIDE DEF c
<1>6. rest # << >> /\ DOMAIN rest = {1} /\ rest[1] = c
  BY <1>1
<1>7. CallsInv
  <2>1. CallsRise
    <3> SUFFICES ASSUME NEW i \in DOMAIN rest, NEW j \in DOMAIN rest, i < j PROVE FALSE
      BY DEF CallsRise
    <3> QED
      BY <1>6
  <2>2. ClosesAbove
    BY <1>1, <1>5, <1>6 DEF ClosesAbove
  <2>3. 1 \in Visible
    BY <1>5 DEF Visible
  <2>4. CallsFit
    BY <2>3, <1>1, <1>6 DEF CallsFit, Fits
  <2>5. Level
    BY <1>1, <1>5, <1>6 DEF Level, LevelOf
  <2> QED
    BY <2>1, <2>2, <2>4, <2>5 DEF CallsInv
<1>8. LinesBehind /\ Closed /\ Inside
  BY <1>1, <1>2 DEF LinesBehind, Closed, Inside
<1>9. ASSUME NEW n \in Visible PROVE Due(n)
  <2>1. n \in 1..Len(tree)
    BY <1>1, TreeFacts DEF Visible
  <2>2. n \in Below(tree, 1)
    BY <2>1 DEF Below
  <2> QED
    BY <2>2, <1>1, <1>6 DEF Due
<1>10. Stated /\ Opened
  BY <1>9 DEF Stated, Opened, Printable, Bodies
<1> QED
  BY <1>3, <1>4, <1>7, <1>8, <1>10 DEF RestInv

LEMMA AgainKept ==
  ASSUME IInv, Again
  PROVE  IInv'
<1>0. /\ status = "running" /\ rest = << >> /\ prints < MaxPrints
      /\ tree' \in Later[printer] /\ rest' = <<Call("visit", 1)>>
      /\ \/ indent_lvl_' = 0 /\ line_count_' = 1
         \/ UNCHANGED <<indent_lvl_, line_count_>>
      /\ from' = Len(lines) /\ prints' = prints + 1
      /\ UNCHANGED <<printer, lines, status>>
  BY DEF Again
<1>1. TypeOK /\ Level /\ Numbered /\ Numbering
  BY <1>0 DEF IInv, RestInv, CallsInv
<1>2. indent_lvl_' = 0
  BY <1>0, <1>1 DEF Level
<1>3. printer \in DOMAIN Trees /\ tree' \in Trees[printer]
  BY <1>0, <1>1, TreesAssumption DEF TypeOK
<1>4. TypeOK'
  <2>1. tree' \in Seq(Statement) /\ tree' # << >>
    BY <1>3, TreesAssumption
  <2>2. 1 \in DOMAIN tree'
    BY <2>1
  <2>3. Call("visit", 1) \in CallSet'
    BY <2>2 DEF Call, CallSet
  <2>4. rest' \in Seq(CallSet')
    BY <2>3, <1>0
  <2>5. from' \in 0..Len(lines')
    BY <1>0, <1>1, HereFacts
  <2>6. prints' \in 1..MaxPrints
    BY <1>0, <1>1, TreesAssumption DEF TypeOK
  <2>7. line_count_' \in Nat \ {0}
    BY <1>0, <1>1 DEF TypeOK
  <2> QED
    BY <2>4, <2>5, <2>6, <2>7, <1>0, <1>1, <1>2, <1>3 DEF TypeOK, CallSet
<1>5. Here' = {}
  <2>1. DOMAIN lines = 1..Len(lines) /\ Len(lines) \in Nat
    BY <1>1, HereFacts
  <2>2. \A i \in DOMAIN lines : ~(Len(lines) < i)
    BY <2>1
  <2> QED
    BY <2>2, <1>0 DEF Here
<1>6. Fresh'
  BY <1>0, <1>2, <1>4, <1>5 DEF Fresh, Call
<1>7. RestInv' /\ LinesInv' /\ StopsExplained'
  BY <1>6, FreshFacts, PTL
<1>8. Numbered' /\ Numbering'
  BY <1>0, <1>1 DEF Numbered, Numbering
<1> QED
  BY <1>4, <1>7, <1>8 DEF IInv

LEMMA InitOK ==
  ASSUME Init
  PROVE  IInv
<1>1. TypeOK
  <2>1. printer \in DOMAIN Trees /\ tree \in Trees[printer]
    BY DEF Init
  <2>2. tree \in Seq(Statement) /\ tree # << >>
    BY <2>1, TreesAssumption
  <2>3. 1 \in DOMAIN tree
    BY <2>2
  <2>4. Call("visit", 1) \in CallSet
    BY <2>3 DEF Call, CallSet
  <2>5. rest \in Seq(CallSet)
    BY <2>4 DEF Init
  <2>6. lines \in Seq(LineSet) /\ Len(lines) = 0
    BY DEF Init
  <2>7. 1 \in 1..MaxPrints
    BY TreesAssumption
  <2> QED
    BY <2>1, <2>5, <2>6, <2>7 DEF Init, TypeOK, CallSet, LineSet
<1>2. Here = {}
  BY DEF Init, Here
<1>3. Fresh
  BY <1>1, <1>2 DEF Fresh, Init
<1>4. Numbered /\ Numbering
  BY DEF Init, Numbered, Numbering
<1> QED
  BY <1>1, <1>3, <1>4, FreshFacts DEF IInv

LEMMA StutterKept ==
  ASSUME IInv, UNCHANGED vars
  PROVE  IInv'
<1>1. UNCHANGED <<printer, tree, rest, indent_lvl_, line_count_, lines, from, prints, status>>
  BY DEF vars
<1>2. Here' = Here
  BY <1>1 DEF Here
<1>3. \A what : At(what)' = At(what)
  BY <1>1, <1>2 DEF At
<1>4. UNCHANGED <<printer, tree>>
  BY <1>1
<1>5. TypeOK' /\ Numbered' /\ Numbering'
  BY <1>1 DEF IInv, TypeOK, Numbered, Numbering
<1>6. StopsExplained'
  BY <1>1, <1>3 DEF IInv, StopsExplained
<1>7. Printed' = Printed
  BY <1>1, <1>3 DEF Printed
<1>8. LinesInv'
  <2>1. LinesFit' /\ Rise' /\ OpensLate' /\ NoneMissed' /\ Once("open")' /\ Once("close")'
    BY <1>1, <1>2, <1>3, <1>4, <1>7, TreeStays
       DEF IInv, LinesInv, LinesFit, Rise, OpensLate, NoneMissed, Once
  <2>2. Pairs'
    BY <1>1, <1>2, <1>3 DEF IInv, LinesInv, Pairs, Above
  <2>3. Nested'
    BY <1>1, <1>2, <1>3 DEF IInv, LinesInv, Nested, Parent, HasOpener, Opener, Within
  <2> QED
    BY <2>1, <2>2, <2>3 DEF LinesInv
<1>9. status = "running" => RestInv'
  <2> SUFFICES ASSUME RestInv PROVE RestInv'
    BY DEF IInv
  <2>1. CallsInv'
    BY <1>1, <1>4, TreeStays
       DEF RestInv, CallsInv, CallsRise, ClosesAbove, CallsFit, Level, Fits, LevelOf, Call, Within, Above
  <2>2. LinesBehind' /\ Closed' /\ Inside'
    BY <1>1, <1>2, <1>3 DEF RestInv, LinesBehind, Precedes, Closed, Inside
  <2>3. \A n : Due(n)' = Due(n)
    BY <1>1 DEF Due
  <2>4. \A n : \A what : HasLine(what, n)' = HasLine(what, n)
    BY <1>1, <1>3 DEF HasLine
  <2>5. \A n : \A do : ToDo(do, n)' = ToDo(do, n)
    BY <1>1 DEF ToDo, Call
  <2>6. Stated' /\ Opened'
    BY <1>1, <1>4, <2>3, <2>4, <2>5, TreeStays DEF RestInv, Stated, Opened
  <2> QED
    BY <2>1, <2>2, <2>6 DEF RestInv
<1> QED
  BY <1>1, <1>5, <1>6, <1>8, <1>9 DEF IInv

\* The invariant is inductive.
THEOREM Invariance == Spec => []IInv
<1>1. Init => IInv
  BY InitOK
<1>2. IInv /\ [Next]_vars => IInv'
  <2> SUFFICES ASSUME IInv, [Next]_vars PROVE IInv'
    OBVIOUS
  <2>1. CASE Follow
    BY <2>1, FollowKept
  <2>2. CASE VisitLeaf
    BY <2>2, LeafKept
  <2>3. CASE VisitBlock
    BY <2>3, BlockKept
  <2>4. CASE EnterBody
    BY <2>4, EnterKept
  <2>5. CASE OpenBody
    BY <2>5, OpenKept
  <2>6. CASE SkipBody
    BY <2>6, SkipKept
  <2>7. CASE LeaveBody
    BY <2>7, LeaveKept
  <2>8. CASE CloseBody
    BY <2>8, CloseKept
  <2>9. CASE Again
    BY <2>9, AgainKept
  <2>10. CASE UNCHANGED vars
    BY <2>10, StutterKept
  <2> QED
    BY <2>1, <2>2, <2>3, <2>4, <2>5, <2>6, <2>7, <2>8, <2>9, <2>10 DEF Next
<1> QED
  BY <1>1, <1>2, PTL DEF Spec

\* What is written, and the state of the printer, has its type.
THEOREM TypeCorrect == Spec => []TypeOK
<1>1. IInv => TypeOK
  BY DEF IInv
<1> QED
  BY <1>1, Invariance, PTL

-----------------------------------------------------------------------------
\* When the print is done, nothing is due.
LEMMA DoneFacts ==
  ASSUME IInv, Done
  PROVE  /\ RestInv /\ indent_lvl_ = 0
         /\ \A n \in Printable : HasLine("statement", n)
         /\ printer = "PrintVisitor" => \A n \in Bodies : HasLine("open", n) /\ HasLine("close", n)
<1>1. RestInv /\ Stated /\ Opened /\ Level /\ rest = << >>
  BY DEF IInv, Done, RestInv, CallsInv
<1>2. \A n : ~Due(n)
  BY <1>1 DEF Due
<1>3. \A do, n : ~ToDo(do, n)
  BY <1>1 DEF ToDo
<1> QED
  BY <1>1, <1>2, <1>3 DEF Stated, Opened, Level

\* A print shows the statements in the order of the protocol, each once and none left
\* out, with numbers that have no gap.
THEOREM OrderShown == Spec => []LinesInOrder
<1>1. IInv => LinesInOrder
  <2> SUFFICES ASSUME IInv PROVE LinesInOrder
    OBVIOUS
  <2>1. TypeOK /\ LinesFit /\ Rise /\ NoneMissed /\ Numbered
    BY DEF IInv, LinesInv
  <2>2. ASSUME NEW i \in At("statement"), NEW j \in At("statement"), i < j
        PROVE  lines[i].node < lines[j].node
    BY <2>1, <2>2, HereFacts DEF Rise
  <2>3. Printed \subseteq Printable
    <3> SUFFICES ASSUME NEW i \in At("statement") PROVE lines[i].node \in Printable
      BY DEF Printed
    <3>1. i \in Here /\ lines[i].what = "statement"
      BY <2>1, HereFacts
    <3> QED
      BY <3>1, <2>1 DEF LinesFit, LineFits
  <2>4. Done => Printed = Printable
    BY <2>3, DoneFacts DEF HasLine, Printed
  <2> QED
    BY <2>1, <2>2, <2>3, <2>4 DEF LinesInOrder, StatementsInOrder, NoneMissed
<1> QED
  BY <1>1, Invariance, PTL

\* PrintVisitor puts brackets around the children of each block that has any, once, and
\* what is between them is what is below the block.
THEOREM BracketsRight == Spec => []BracketsMatch
<1>1. IInv => BracketsMatch
  <2> SUFFICES ASSUME IInv PROVE BracketsMatch
    OBVIOUS
  <2>1. TypeOK /\ LinesFit /\ Once("open") /\ Once("close") /\ Pairs
    BY DEF IInv, LinesInv
  <2>2. ASSUME NEW what \in {"open", "close"}, NEW i \in At(what)
        PROVE  /\ printer = "PrintVisitor" /\ lines[i].node \in Bodies
               /\ lines[i].indent = Shown(Depth(lines[i].node))
    <3>1. i \in Here /\ lines[i].what = what
      BY <2>1, HereFacts
    <3> QED
      BY <3>1, <2>1 DEF LinesFit, LineFits
  <2>3. printer = "Print" => At("open") \cup At("close") = {}
    BY <2>2
  <2>4. \A what \in {"open", "close"} : Once(what)
    BY <2>1
  <2>5. ASSUME NEW i \in At("open"), NEW j \in At("close"), lines[i].node = lines[j].node
        PROVE  /\ i < j /\ lines[i].indent = lines[j].indent
               /\ \A k \in Here : lines[k].node # lines[i].node =>
                    (i < k /\ k < j <=> lines[i].node \in Above(lines[k].node))
    <3>1. lines[i].indent = lines[j].indent
      BY <2>2, <2>5
    <3> QED
      BY <3>1, <2>1, <2>5 DEF Pairs
  <2>6. ASSUME Done, printer = "PrintVisitor", NEW what \in {"open", "close"}
        PROVE  {lines[i].node : i \in At(what)} = Bodies
    <3>1. \A n \in Bodies : HasLine(what, n)
      BY <2>6, DoneFacts
    <3> QED
      BY <3>1, <2>2 DEF HasLine
  <2> QED
    BY <2>3, <2>4, <2>5, <2>6 DEF BracketsMatch, Once
<1> QED
  BY <1>1, Invariance, PTL

\* A print stops at the first statement that has to show what is not there, and only
\* there.
THEOREM StopsRight == Spec => []StopsExplained
<1>1. IInv => StopsExplained
  BY DEF IInv
<1> QED
  BY <1>1, Invariance, PTL

\* A line that shows what statement i is in: the nearest above that is indented less.
LEMMA Nearest ==
  ASSUME IInv, NEW i \in At("statement") \cup At("open"), NEW p \in Parent(lines[i].node),
         HasOpener(p), NEW d \in Nat, Shown(Depth(p)) < d, d = lines[i].indent,
         \A m \in DOMAIN tree : m \in Within(p) => d <= Shown(Depth(m))
  PROVE  \E k \in Here : /\ k < i /\ lines[k].indent < lines[i].indent /\ lines[k].node = p
                         /\ \A j \in Here : j < i /\ lines[j].indent < lines[i].indent => j <= k
<1>1. TypeOK /\ Nested /\ LinesFit
  BY DEF IInv, LinesInv
<1>2. PICK k \in At(Opener) : /\ k < i /\ lines[k].node = p
                              /\ \A l \in Here : k < l /\ l < i => lines[l].node \in Within(p)
  BY <1>1 DEF Nested
<1>3. k \in Here /\ k \in Nat
  BY <1>1, <1>2, HereFacts
<1>4. lines[k].indent = Shown(Depth(p))
  BY <1>1, <1>2, <1>3 DEF LinesFit, LineFits
<1>5. ASSUME NEW j \in Here, j < i, lines[j].indent < lines[i].indent PROVE j <= k
  <2>0. j \in Nat /\ lines[j].node \in DOMAIN tree /\ lines[j].indent = Shown(Depth(lines[j].node))
        /\ lines[j].indent \in Nat
    BY <1>1, HereFacts DEF LinesFit, LineFits
  <2> SUFFICES ASSUME k < j PROVE FALSE
    BY <2>0, <1>3
  <2>1. lines[j].node \in Within(p)
    BY <1>2, <1>5
  <2>2. d <= lines[j].indent
    BY <2>0, <2>1
  <2> QED
    BY <2>0, <2>2, <1>5
<1> QED
  BY <1>2, <1>3, <1>4, <1>5

\* The nearest line above that is indented less is the one a statement is below, for
\* PrintVisitor always and for Print where only the root is a plain block; and a print
\* leaves the printer at the level it found it at.
THEOREM NestingRight == Spec => []NestingShown
<1>1. IInv => NestingShown
  <2> SUFFICES ASSUME IInv PROVE NestingShown
    OBVIOUS
  <2> DEFINE plain == {n \in DOMAIN tree : tree[n].class = "Block"}
             above(i) == {k \in Here : k < i /\ lines[k].indent < lines[i].indent}
             shown(n) == IF printer = "Print" THEN Parent(n) \ {1} ELSE Parent(n)
  <2>1. TypeOK /\ LinesFit
    BY DEF IInv, LinesInv
  <2>2. Done => indent_lvl_ = 0
    BY DoneFacts
  <2>3. ASSUME printer = "PrintVisitor" \/ plain = {1}, NEW i \in At("statement") \cup At("open")
        PROVE  IF above(i) = {} THEN shown(lines[i].node) = {}
               ELSE \E k \in above(i) : shown(lines[i].node) = {lines[k].node} /\ \A j \in above(i) : j <= k
    <3> DEFINE n == lines[i].node
               d == lines[i].indent
    <3>1. /\ i \in Here /\ n \in DOMAIN tree /\ d = Shown(Depth(n)) /\ d \in Nat /\ Depth(n) \in Nat
          /\ lines[i].what = "statement" => n \in Printable
          /\ lines[i].what # "statement" => lines[i].what = "open" /\ printer = "PrintVisitor"
      <4>1. i \in Here /\ lines[i].what \in {"statement", "open"} /\ d \in Nat
        BY <2>1, HereFacts
      <4>2. LineFits(lines[i])
        BY <4>1, <2>1 DEF LinesFit
      <4> QED
        BY <4>1, <4>2, <2>1, AboveFacts DEF LineFits
    <3>2. \A k \in Here : lines[k].indent \in Nat
      BY <2>1, HereFacts
    <3>3. ASSUME NEW p \in Parent(n)
          PROVE  /\ p \in DOMAIN tree /\ Parent(n) = {p} /\ Depth(p) \in Nat /\ Depth(n) = Depth(p) + 1
                 /\ \A m \in DOMAIN tree : m \in Within(p) => Depth(m) \in Nat /\ Depth(n) <= Depth(m)
      <4>1. p \in DOMAIN tree /\ Parent(n) = {p} /\ Depth(n) = Depth(p) + 1
        BY <2>1, <3>1, ParentFacts
      <4>2. Depth(p) \in Nat
        BY <4>1, <2>1, AboveFacts
      <4>3. ASSUME NEW m \in DOMAIN tree, m \in Within(p) PROVE Depth(m) \in Nat /\ Depth(n) <= Depth(m)
        <5>1. Depth(m) > Depth(p) /\ Depth(m) \in Nat
          BY <4>1, <4>3, <2>1, DepthFacts, AboveFacts
        <5> QED
          BY <5>1, <4>1, <4>2
      <4> QED
        BY <4>1, <4>2, <4>3
    <3>4. d = 0 => above(i) = {}
      BY <3>2
    <3> HIDE DEF n, d
    <3>5. ASSUME NEW p \in Parent(n), HasOpener(p), shown(n) = {p}, Shown(Depth(p)) < d,
                 \A m \in DOMAIN tree : m \in Within(p) => d <= Shown(Depth(m))
          PROVE  above(i) # {} /\ \E k \in above(i) : shown(n) = {lines[k].node} /\ \A j \in above(i) : j <= k
      <4>1. \E k \in Here : /\ k < i /\ lines[k].indent < lines[i].indent /\ lines[k].node = p
                            /\ \A j \in Here : j < i /\ lines[j].indent < lines[i].indent => j <= k
        BY <3>1, <3>5, Nearest DEF n, d
      <4> HIDE DEF shown
      <4> QED
        BY <4>1, <3>5
    <3>6. CASE printer = "PrintVisitor"
      <4>0. printer # "Print" /\ d = Depth(n)
        BY <3>1, <3>6, <2>1, ShownFacts
      <4>1. CASE Parent(n) = {}
        <5>1. n = 1
          BY <4>1, <2>1, <3>1, ParentFacts
        <5>2. Depth(n) = 0
          BY <5>1, <2>1, <3>1, DepthFacts
        <5>3. above(i) = {}
          BY <4>0, <5>2, <3>4
        <5> QED
          BY <5>3, <4>0, <4>1 DEF n
      <4>2. ASSUME NEW p \in Parent(n)
            PROVE  above(i) # {} /\ \E k \in above(i) : shown(n) = {lines[k].node} /\ \A j \in above(i) : j <= k
        <5>1. HasOpener(p) /\ shown(n) = {p}
          BY <3>3, <3>6, <4>0 DEF HasOpener
        <5>2. Shown(Depth(p)) = Depth(p) /\ Depth(p) < d
          BY <3>3, <3>6, <4>0, <2>1, ShownFacts
        <5>3. ASSUME NEW m \in DOMAIN tree, m \in Within(p) PROVE d <= Shown(Depth(m))
          BY <5>3, <3>3, <3>6, <4>0, <2>1, ShownFacts
        <5> HIDE DEF above, shown
        <5> QED
          BY <5>1, <5>2, <5>3, <3>5
      <4> HIDE DEF above, shown
      <4> QED
        BY <4>1, <4>2 DEF n
    <3>7. CASE printer # "PrintVisitor"
      <4>0. /\ printer = "Print" /\ plain = {1} /\ d = IF Depth(n) = 0 THEN 0 ELSE Depth(n) - 1
            /\ n \in Printable
        BY <3>1, <3>7, <2>1, <2>3, ShownFacts
      <4>1. n # 1
        <5>1. tree[n].class # "Block"
          BY <4>0 DEF Printable
        <5>2. n \notin plain
          BY <5>1
        <5> QED
          BY <5>2, <4>0
      <4>2. PICK p \in Parent(n) : TRUE
        BY <4>1, <2>1, <3>1, ParentFacts
      <4>3. /\ p \in DOMAIN tree /\ Parent(n) = {p} /\ Depth(p) \in Nat /\ Depth(n) = Depth(p) + 1
            /\ \A m \in DOMAIN tree : m \in Within(p) => Depth(m) \in Nat /\ Depth(n) <= Depth(m)
        BY <3>3
      <4>4. d = Depth(p)
        BY <4>0, <4>3
      <4>5. CASE p = 1
        <5>1. Depth(p) = 0
          BY <4>3, <4>5, <2>1, DepthFacts
        <5>2. above(i) = {}
          BY <5>1, <4>4, <3>4
        <5>3. shown(n) = {}
          BY <4>0, <4>3, <4>5
        <5> QED
          BY <5>2, <5>3 DEF n
      <4>6. CASE p # 1
        <5>1. HasOpener(p)
          <6>1. p \notin plain
            BY <4>0, <4>6
          <6> QED
            BY <6>1, <4>3 DEF HasOpener
        <5>2. shown(n) = {p}
          BY <4>0, <4>3, <4>6
        <5>3. Depth(p) # 0
          <6>1. PICK q \in Parent(p) : TRUE
            BY <4>3, <4>6, <2>1, ParentFacts
          <6>2. Depth(p) = Depth(q) + 1 /\ Depth(q) \in Nat
            BY <4>3, <6>1, <2>1, ParentFacts, AboveFacts
          <6> QED
            BY <6>2
        <5>4. Shown(Depth(p)) < d
          <6>1. Shown(Depth(p)) = Depth(p) - 1
            BY <4>0, <4>3, <5>3, <2>1, ShownFacts
          <6> QED
            BY <6>1, <4>3, <4>4
        <5>5. ASSUME NEW m \in DOMAIN tree, m \in Within(p) PROVE d <= Shown(Depth(m))
          <6>1. Depth(m) \in Nat /\ Depth(n) <= Depth(m) /\ Depth(m) # 0
            BY <5>5, <4>3
          <6>2. Shown(Depth(m)) = Depth(m) - 1
            BY <6>1, <4>0, <2>1, ShownFacts
          <6> QED
            BY <6>1, <6>2, <4>3, <4>4
        <5> HIDE DEF above, shown
        <5>6. above(i) # {} /\ \E k \in above(i) : shown(n) = {lines[k].node} /\ \A j \in above(i) : j <= k
          BY <5>1, <5>2, <5>4, <5>5, <3>5
        <5> QED
          BY <5>6 DEF n
      <4> HIDE DEF above, shown
      <4> QED
        BY <4>5, <4>6
    <3> HIDE DEF above, shown
    <3> QED
      BY <3>6, <3>7
  <2> QED
    BY <2>2, <2>3 DEF NestingShown
<1> QED
  BY <1>1, Invariance, PTL
=============================================================================
