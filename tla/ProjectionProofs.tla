-------------------------- MODULE ProjectionProofs --------------------------
(***************************************************************************)
(* Proofs about Projection, for every set of roles and every set of        *)
(* protocols: types, the lockstep of the two stacks, the single place of   *)
(* each projected node and the order of children; then that the traversal  *)
(* projects exactly what it has visited, and that the visitor implements   *)
(* projection as LocalType states it. The strengthening for the traversal  *)
(* is about the C++ call stack: what its frames have still to visit comes  *)
(* innermost frame first, and nothing between the statements visited and   *)
(* those is forgotten. The one for the refinement says for each node under *)
(* construction where it belongs: the visitor's stack holds the blocks     *)
(* that enclose the next statement, the nearest one on top, and a child is *)
(* only put below the nearest one.                                         *)
(***************************************************************************)
EXTENDS ProjectionRefinement, PreOrderProofs

\* A node as NewNode makes it: typed, and without children of its own.
Fresh == {n \in OutNode : n.kids = << >>}

\* Some call of accept is due: on a node of the tree.
Calling == /\ ~crashed
           /\ Here.idx \in 1..Len(Kids(Here.node))
           /\ Arg \in DOMAIN global

\* Statement n has the roles that its visit method dereferences.
Sound(n) == /\ global[n].class = "Interaction" => global[n].sndr # NoRole
            /\ global[n].class = "Choice" => global[n].at # NoRole

\* A node is of the class of its source, and a send is the one without a sender.
Shape(node) == /\ node.class = global[node.src].class
               /\ node.class = "Interaction" =>
                    (node.sndr = NoRole <=> global[node.src].sndr = endpoint)

EmitStep  == /\ Calling /\ Relevant(Arg) /\ Sound(Arg) /\ Kids(Arg) = << >>
             /\ \E node \in Fresh : node.src = Arg /\ Shape(node) /\ Emit(node)
EnterStep == /\ Calling /\ Relevant(Arg) /\ Sound(Arg)
             /\ \E node \in Fresh : /\ node.src = Arg /\ Shape(node)
                                    /\ node.class \in BlockClass /\ Enter(node)
BlockStep == /\ Calling /\ ~Relevant(Arg) /\ global[Arg].class = "Block"
             /\ frames' = Append(Advanced, [node |-> Arg, idx |-> 1, own |-> 0])
             /\ UNCHANGED <<global, endpoint, out, stack_, crashed>>
SkipStep  == Calling /\ ~Relevant(Arg) /\ Sound(Arg) /\ Kids(Arg) = << >> /\ Skip
CrashStep == Calling /\ ~Sound(Arg) /\ Crash

\* What TypeOK needs of the constants.
Rooted == global \in Protocols

LEMMA TreeFacts ==
  ASSUME Rooted
  PROVE  /\ global \in Seq(SourceNode) /\ global # << >>
         /\ PreOrderTree(global)
         /\ \A n \in DOMAIN global : global[n].class \notin BlockClass => global[n].kids = << >>
BY ProtocolsAssumption DEF Rooted

\* The children of a node, and of the client, are nodes of the tree.
LEMMA KidsInTree ==
  ASSUME Rooted, NEW n \in 0..Len(global)
  PROVE  /\ Kids(n) \in Seq(Nat)
         /\ \A i \in 1..Len(Kids(n)) : Kids(n)[i] \in 1..Len(global)
<1> USE TreeFacts
<1>1. CASE n = Client
  BY <1>1 DEF Kids, Client
<1>2. CASE n # Client
  <2>1. n \in DOMAIN global /\ global[n] \in SourceNode
    BY <1>2 DEF Client
  <2>2. Kids(n) = global[n].kids /\ Kids(n) \in Seq(Nat)
    BY <1>2, <2>1 DEF Kids, SourceNode
  <2> QED
    BY <2>1, <2>2 DEF PreOrderTree
<1> QED
  BY <1>1, <1>2

\* AppendChild changes one list of children, and nothing else.
LEMMA AppendChildFacts ==
  ASSUME NEW nodes \in Seq(OutNode), NEW p \in DOMAIN nodes, NEW k \in Nat
  PROVE  /\ AppendChild(nodes, p, k) \in Seq(OutNode)
         /\ Len(AppendChild(nodes, p, k)) = Len(nodes)
         /\ \A q \in DOMAIN nodes :
              /\ AppendChild(nodes, p, k)[q] =
                   [nodes[q] EXCEPT !.kids = AppendChild(nodes, p, k)[q].kids]
              /\ AppendChild(nodes, p, k)[q].kids =
                   IF q = p THEN Append(nodes[p].kids, k) ELSE nodes[q].kids
<1> DEFINE a == AppendChild(nodes, p, k)
<1>1. a = [nodes EXCEPT ![p] = [nodes[p] EXCEPT !.kids = Append(nodes[p].kids, k)]]
  BY DEF AppendChild
<1>2. nodes[p] \in OutNode
  OBVIOUS
<1>21. nodes[p].kids \in Seq(Nat)
  BY <1>2 DEF OutNode
<1>22. Append(nodes[p].kids, k) \in Seq(Nat)
  BY <1>21
<1>3. [nodes[p] EXCEPT !.kids = Append(nodes[p].kids, k)] \in OutNode
  BY <1>2, <1>22 DEF OutNode
<1>4. a \in Seq(OutNode) /\ Len(a) = Len(nodes)
  BY <1>1, <1>3
<1>5. ASSUME NEW q \in DOMAIN nodes
      PROVE  /\ a[q] = [nodes[q] EXCEPT !.kids = a[q].kids]
             /\ a[q].kids = IF q = p THEN Append(nodes[p].kids, k) ELSE nodes[q].kids
  <2>1. nodes[q] \in OutNode
    BY <1>5
  <2>2. CASE q = p
    <3>1. a[q] = [nodes[p] EXCEPT !.kids = Append(nodes[p].kids, k)]
      BY <1>1, <2>2
    <3>2. a[q].kids = Append(nodes[p].kids, k)
      BY <3>1, <1>2 DEF OutNode
    <3> QED
      BY <3>1, <3>2, <2>2
  <2>3. CASE q # p
    <3>1. a[q] = nodes[q]
      BY <1>1, <2>3
    <3>2. nodes[q] = [nodes[q] EXCEPT !.kids = nodes[q].kids]
      BY <2>1 DEF OutNode
    <3> QED
      BY <3>1, <3>2, <2>3
  <2> QED
    BY <2>2, <2>3
<1> QED
  BY <1>4, <1>5

-----------------------------------------------------------------------------
LEMMA HereFacts ==
  ASSUME TypeOK
  PROVE  /\ Len(frames) \in Nat \ {0} /\ Len(frames) \in DOMAIN frames
         /\ Here \in Frame
         /\ Here.node \in 0..Len(global)
         /\ Here.idx \in 1..(Len(Kids(Here.node)) + 1)
         /\ Here.own \in 0..Len(out)
<1>1. Len(frames) \in Nat \ {0} /\ Len(frames) \in DOMAIN frames
  BY DEF TypeOK
<1>2. Here \in Frame
  BY <1>1 DEF TypeOK, Here
<1> QED
  BY <1>1, <1>2 DEF TypeOK, Here

LEMMA AcceptingCalls ==
  ASSUME Rooted, TypeOK, NEW c, Accepting(c)
  PROVE  Calling
<1>1. Here.idx \in 1..Len(Kids(Here.node))
  <2>1. Kids(Here.node) \in Seq(Nat)
    BY HereFacts, KidsInTree
  <2> QED
    BY <2>1, HereFacts DEF Accepting
<1>2. Arg \in DOMAIN global
  BY <1>1, HereFacts, KidsInTree, TreeFacts DEF Arg
<1> QED
  BY <1>1, <1>2 DEF Calling, Accepting

\* What the class of the node that is called says: leaves have no children, and
\* the visit methods test what Relevant states.
LEMMA CalledClass ==
  ASSUME Rooted, TypeOK, NEW c, Accepting(c)
  PROVE  /\ c \in LeafClass => Kids(Arg) = << >>
         /\ c \in {"Choice", "Recur", "Par", "Interruptible", "Continue"} => Relevant(Arg)
         /\ c = "Block" => ~Relevant(Arg)
         /\ c = "Interaction" => (Relevant(Arg) <=> Sends(Arg) \/ Receives(Arg))
         /\ c = "Nested" => (Relevant(Arg) <=> Matches(global[Arg].args))
<1>1. global[Arg].class = c /\ Arg \in DOMAIN global
  BY AcceptingCalls DEF Accepting, Calling
<1>2. ASSUME c \in LeafClass PROVE Kids(Arg) = << >>
  <2>1. c \notin BlockClass
    BY <1>2 DEF LeafClass, BlockClass
  <2>2. global[Arg].kids = << >> /\ Arg # Client
    BY <2>1, <1>1, TreeFacts DEF Client
  <2> QED
    BY <2>2 DEF Kids
<1> QED
  BY <1>1, <1>2 DEF Relevant, Sends, Receives, Matches

\* Every step is one of six kinds; what the visit methods differ in is only the
\* node they make.
LEMMA StepKinds ==
  ASSUME Rooted, TypeOK, Next
  PROVE  EmitStep \/ EnterStep \/ BlockStep \/ SkipStep \/ CrashStep \/ Return
<1> USE TreeFacts
<1>a. << >> \in Seq(Nat) /\ << >> \in Seq(Role) /\ NoRole \in Role \cup {NoRole}
  OBVIOUS
<1>b. /\ "Interaction" \in Class /\ "Choice" \in Class /\ "Recur" \in Class
      /\ "Continue" \in Class /\ "Par" \in Class /\ "Nested" \in Class
      /\ "Interruptible" \in Class /\ "Block" \in Class
      /\ {"Choice", "Recur", "Par", "Interruptible"} \subseteq BlockClass
  BY DEF Class, BlockClass, LeafClass
<1>c. ASSUME Calling
      PROVE  /\ Arg \in Nat
             /\ global[Arg].sndr \in Role \cup {NoRole}
             /\ global[Arg].rcvrs \in Seq(Role)
             /\ Kids(Arg) \in Seq(Nat)
  <2>1. Arg \in 1..Len(global) /\ global[Arg] \in SourceNode
    BY <1>c DEF Calling
  <2> QED
    BY <2>1, KidsInTree DEF SourceNode
<1>1. CASE VisitBlock
  BY <1>1, AcceptingCalls, CalledClass DEF VisitBlock, BlockStep, Accepting
<1>2. CASE VisitInteraction
  <2>1. Calling /\ global[Arg].class = "Interaction"
    BY <1>2, AcceptingCalls DEF VisitInteraction, Accepting
  <2> DEFINE n == global[Arg]
             sent == NewNode(Arg, "Interaction", "Interaction", << >>, NoRole, n.rcvrs)
             received == NewNode(Arg, "Interaction", "Interaction", << >>, n.sndr, << >>)
  <2>2. /\ sent \in Fresh /\ sent.src = Arg
        /\ received \in Fresh /\ received.src = Arg
    BY <2>1, <1>a, <1>b, <1>c DEF NewNode, Fresh, OutNode
  <2>3. /\ Sends(Arg) => Shape(sent)
        /\ Receives(Arg) /\ n.sndr # NoRole => Shape(received)
    BY <2>1 DEF NewNode, Shape, Sends, Receives
  <2>4. /\ Kids(Arg) = << >> /\ (Relevant(Arg) <=> Sends(Arg) \/ Receives(Arg))
        /\ Sound(Arg) <=> n.sndr # NoRole
    BY <1>2, <2>1, CalledClass DEF VisitInteraction, LeafClass, Sound
  <2>5. CASE n.sndr = NoRole /\ Crash
    BY <2>1, <2>4, <2>5 DEF CrashStep
  <2>6. CASE n.sndr # NoRole /\ Sends(Arg) /\ Emit(sent)
    BY <2>1, <2>2, <2>3, <2>4, <2>6 DEF EmitStep
  <2>7. CASE n.sndr # NoRole /\ Receives(Arg) /\ Emit(received)
    BY <2>1, <2>2, <2>3, <2>4, <2>7 DEF EmitStep
  <2>8. CASE n.sndr # NoRole /\ ~Sends(Arg) /\ ~Receives(Arg) /\ Skip
    BY <2>1, <2>4, <2>8 DEF SkipStep
  <2> QED
    BY <1>2, <2>5, <2>6, <2>7, <2>8 DEF VisitInteraction
<1>3. CASE VisitChoice
  <2> DEFINE new == NewNode(Arg, "Choice", "Choice", << >>, NoRole, << >>)
  <2>1. Calling /\ global[Arg].class = "Choice" /\ Relevant(Arg)
    BY <1>3, AcceptingCalls, CalledClass DEF VisitChoice, Accepting
  <2>2. new \in Fresh /\ new.src = Arg /\ new.class = "Choice"
    BY <2>1, <1>a, <1>b, <1>c DEF NewNode, Fresh, OutNode
  <2>3. Shape(new)
    BY <2>1, <2>2 DEF Shape
  <2>4. CASE global[Arg].at = NoRole /\ Crash
    BY <2>1, <2>4 DEF CrashStep, Sound
  <2>5. CASE global[Arg].at # NoRole /\ Enter(new)
    BY <2>1, <2>2, <2>3, <2>5, <1>b DEF EnterStep, Sound
  <2> QED
    BY <1>3, <2>4, <2>5 DEF VisitChoice
<1>4. CASE VisitRecur
  <2> DEFINE new == NewNode(Arg, "Recur", "Recur", << >>, NoRole, << >>)
  <2>1. Calling /\ global[Arg].class = "Recur" /\ Relevant(Arg) /\ Enter(new)
    BY <1>4, AcceptingCalls, CalledClass DEF VisitRecur, Accepting
  <2>2. new \in Fresh /\ new.src = Arg /\ new.class = "Recur"
    BY <2>1, <1>a, <1>b, <1>c DEF NewNode, Fresh, OutNode
  <2>3. Shape(new) /\ Sound(Arg)
    BY <2>1, <2>2 DEF Shape, Sound
  <2> QED
    BY <2>1, <2>2, <2>3, <1>b DEF EnterStep
<1>5. CASE VisitContinue
  <2> DEFINE new == NewNode(Arg, "Continue", "Continue", << >>, NoRole, << >>)
  <2>1. Calling /\ global[Arg].class = "Continue" /\ Relevant(Arg) /\ Kids(Arg) = << >> /\ Emit(new)
    BY <1>5, AcceptingCalls, CalledClass DEF VisitContinue, Accepting, LeafClass
  <2>2. new \in Fresh /\ new.src = Arg /\ new.class = "Continue"
    BY <2>1, <1>a, <1>b, <1>c DEF NewNode, Fresh, OutNode
  <2>3. Shape(new) /\ Sound(Arg)
    BY <2>1, <2>2 DEF Shape, Sound
  <2> QED
    BY <2>1, <2>2, <2>3 DEF EmitStep
<1>6. CASE VisitPar
  <2> DEFINE new == NewNode(Arg, "Par", "Par", << >>, NoRole, << >>)
  <2>1. Calling /\ global[Arg].class = "Par" /\ Relevant(Arg) /\ Enter(new)
    BY <1>6, AcceptingCalls, CalledClass DEF VisitPar, Accepting
  <2>2. new \in Fresh /\ new.src = Arg /\ new.class = "Par"
    BY <2>1, <1>a, <1>b, <1>c DEF NewNode, Fresh, OutNode
  <2>3. Shape(new) /\ Sound(Arg)
    BY <2>1, <2>2 DEF Shape, Sound
  <2> QED
    BY <2>1, <2>2, <2>3, <1>b DEF EnterStep
<1>7. CASE VisitNested
  <2> DEFINE new == NewNode(Arg, "Nested", "Nested", << >>, NoRole, << >>)
  <2>1. /\ Calling /\ global[Arg].class = "Nested" /\ Kids(Arg) = << >>
        /\ (Relevant(Arg) /\ Emit(new)) \/ (~Relevant(Arg) /\ Skip)
    BY <1>7, AcceptingCalls, CalledClass DEF VisitNested, Accepting, LeafClass
  <2>2. new \in Fresh /\ new.src = Arg /\ new.class = "Nested"
    BY <2>1, <1>a, <1>b, <1>c DEF NewNode, Fresh, OutNode
  <2>3. Shape(new) /\ Sound(Arg)
    BY <2>1, <2>2 DEF Shape, Sound
  <2> QED
    BY <2>1, <2>2, <2>3 DEF EmitStep, SkipStep
<1>8. CASE VisitInterruptible
  <2> DEFINE new == NewNode(Arg, "Interruptible", "Block", Kids(Arg), NoRole, << >>)
  <2>1. Calling /\ global[Arg].class = "Interruptible" /\ Relevant(Arg) /\ Enter(new)
    BY <1>8, AcceptingCalls, CalledClass DEF VisitInterruptible, Accepting
  <2>2. new \in Fresh /\ new.src = Arg /\ new.class = "Interruptible"
    BY <2>1, <1>a, <1>b, <1>c DEF NewNode, Fresh, OutNode
  <2>3. Shape(new) /\ Sound(Arg)
    BY <2>1, <2>2 DEF Shape, Sound
  <2> QED
    BY <2>1, <2>2, <2>3, <1>b DEF EnterStep
<1> QED
  BY <1>1, <1>2, <1>3, <1>4, <1>5, <1>6, <1>7, <1>8 DEF Next

-----------------------------------------------------------------------------
\* A call moves the caller's loop on by one child and leaves the rest alone.
LEMMA AdvancedFacts ==
  ASSUME TypeOK, Calling
  PROVE  /\ Advanced \in Seq(Frame) /\ Len(Advanced) = Len(frames)
         /\ \A i \in DOMAIN frames :
              /\ Advanced[i].node = frames[i].node
              /\ Advanced[i].own = frames[i].own
              /\ Advanced[i].idx = IF i = Len(frames) THEN frames[i].idx + 1 ELSE frames[i].idx
<1>1. /\ frames \in Seq(Frame) /\ Here = frames[Len(frames)]
      /\ Len(frames) \in DOMAIN frames /\ Here \in Frame
  BY HereFacts DEF TypeOK, Here
<1>2. Advanced = [frames EXCEPT ![Len(frames)] = [Here EXCEPT !.idx = Here.idx + 1]]
  BY <1>1 DEF Advanced
<1>3. [Here EXCEPT !.idx = Here.idx + 1] \in Frame
  <2> DEFINE h == Here
  <2>1. h \in Frame
    BY <1>1
  <2> HIDE DEF h
  <2>2. [h EXCEPT !.idx = h.idx + 1] \in Frame
    BY <2>1 DEF Frame
  <2> QED
    BY <2>2 DEF h
<1>4. Advanced \in Seq(Frame) /\ Len(Advanced) = Len(frames)
  BY <1>1, <1>2, <1>3
<1>5. \A i \in DOMAIN frames : i # Len(frames) => Advanced[i] = frames[i]
  BY <1>1, <1>2
<1>6. Advanced[Len(frames)] = [Here EXCEPT !.idx = Here.idx + 1]
  BY <1>1, <1>2
<1>7. /\ Advanced[Len(frames)].node = Here.node
      /\ Advanced[Len(frames)].own = Here.own
      /\ Advanced[Len(frames)].idx = Here.idx + 1
  BY <1>1, <1>6 DEF Frame
<1> QED
  BY <1>1, <1>4, <1>5, <1>7

FrameOK(i) == /\ frames[i].node \in 0..Len(global)
              /\ frames[i].idx \in 1..(Len(Kids(frames[i].node)) + 1)
              /\ frames[i].own \in 0..Len(out)
FramesOK   == /\ frames \in Seq(Frame) /\ frames # << >> /\ frames[1].node = Client
              /\ \A i \in DOMAIN frames : FrameOK(i)

\* The frames after a call: typed, and with the pushed nodes of before.
LEMMA CallFrames ==
  ASSUME Rooted, TypeOK, Calling, UNCHANGED global, frames' = Advanced,
         Len(out') \in Nat, Len(out) <= Len(out')
  PROVE  /\ FramesOK'
         /\ DOMAIN frames' = DOMAIN frames
         /\ \A i \in DOMAIN frames : frames'[i].own = frames[i].own
         /\ Pushed' = Pushed
<1> USE AdvancedFacts
<1>1. /\ frames \in Seq(Frame) /\ frames # << >> /\ frames[1].node = Client
      /\ \A i \in DOMAIN frames :
           /\ frames[i].node \in 0..Len(global)
           /\ frames[i].idx \in 1..(Len(Kids(frames[i].node)) + 1)
           /\ frames[i].own \in 0..Len(out)
      /\ Len(out) \in Nat
  BY DEF TypeOK
<1>2. /\ frames' \in Seq(Frame) /\ DOMAIN frames' = DOMAIN frames /\ frames' # << >>
      /\ Len(frames) \in DOMAIN frames /\ 1 \in DOMAIN frames
  BY <1>1
<1>3. \A i \in DOMAIN frames : frames'[i].own = frames[i].own /\ frames'[i].node = frames[i].node
  OBVIOUS
<1>4. Pushed' = Pushed
  BY <1>2, <1>3 DEF Pushed
<1>5. ASSUME NEW i \in DOMAIN frames'
      PROVE  FrameOK(i)'
  <2>1. i \in DOMAIN frames /\ frames'[i].node = frames[i].node
    BY <1>2, <1>3
  <2>2. Len(Kids(frames[i].node)) \in Nat
    BY KidsInTree, <1>1, <2>1
  <2>3. frames'[i].idx \in 1..(Len(Kids(frames[i].node)) + 1)
    <3>1. CASE i = Len(frames)
      BY <2>1, <2>2, <3>1, <1>1, <1>2 DEF Calling, Here
    <3>2. CASE i # Len(frames)
      BY <2>1, <2>2, <3>2, <1>1, <1>2
    <3> QED
      BY <3>1, <3>2
  <2>4. Kids(frames[i].node)' = Kids(frames[i].node)
    BY <2>1 DEF Kids
  <2>5. frames'[i].node \in 0..Len(global)
    BY <2>1, <1>1
  <2>6. frames'[i].own \in 0..Len(out')
    <3>1. frames'[i].own = frames[i].own /\ frames[i].own \in 0..Len(out)
      BY <2>1, <1>1, <1>3
    <3>2. \A x \in 0..Len(out) : x \in 0..Len(out')
      BY <1>1
    <3> QED
      BY <3>1, <3>2
  <2> QED
    BY <2>3, <2>4, <2>5, <2>6 DEF FrameOK
<1> QED
  BY <1>1, <1>2, <1>3, <1>4, <1>5 DEF FramesOK

LEMMA OneMoreOwn ==
  ASSUME NEW f, NEW g, NEW n \in Nat, \A i \in 1..n : g[i].own = f[i].own
  PROVE  {g[i].own : i \in 1..(n + 1)} = {f[i].own : i \in 1..n} \cup {g[n + 1].own}
<1>1. 1..(n + 1) = 1..n \cup {n + 1}
  OBVIOUS
<1> QED
  BY <1>1, Zenon

\* The same for a call that opens a frame of its own, with or without a push.
LEMMA OpenFrames ==
  ASSUME Rooted, TypeOK, Calling, UNCHANGED global, NEW own \in 0..Len(out'),
         frames' = Append(Advanced, [node |-> Arg, idx |-> 1, own |-> own]),
         Len(out') \in Nat, Len(out) <= Len(out')
  PROVE  /\ FramesOK'
         /\ Len(frames') = Len(frames) + 1
         /\ \A i \in DOMAIN frames : frames'[i].own = frames[i].own
         /\ frames'[Len(frames')].own = own
         /\ Pushed' = IF own = 0 THEN Pushed ELSE Pushed \cup {own}
<1> USE AdvancedFacts
<1>1. /\ frames \in Seq(Frame) /\ frames # << >> /\ frames[1].node = Client
      /\ \A i \in DOMAIN frames :
           /\ frames[i].node \in 0..Len(global)
           /\ frames[i].idx \in 1..(Len(Kids(frames[i].node)) + 1)
           /\ frames[i].own \in 0..Len(out)
      /\ Len(out) \in Nat
  BY DEF TypeOK
<1>2. Arg \in 1..Len(global)
  BY TreeFacts DEF Calling
<1> DEFINE new == [node |-> Arg, idx |-> 1, own |-> own]
<1>3. new \in Frame /\ new.node = Arg /\ new.idx = 1 /\ new.own = own
  BY <1>2 DEF Frame
<1>4. /\ frames' \in Seq(Frame) /\ Len(frames') = Len(frames) + 1
      /\ frames'[Len(frames) + 1] = new
      /\ \A i \in DOMAIN frames : frames'[i] = Advanced[i]
      /\ Len(frames) \in Nat \ {0}
      /\ DOMAIN frames' = 1..(Len(frames) + 1) /\ DOMAIN frames = 1..Len(frames)
  BY <1>1, <1>3
<1>5. \A i \in DOMAIN frames : frames'[i].own = frames[i].own /\ frames'[i].node = frames[i].node
  BY <1>4
<1>6. Pushed' = IF own = 0 THEN Pushed ELSE Pushed \cup {own}
  <2>1. Pushed' = {frames'[i].own : i \in 1..(Len(frames) + 1)} \ {0}
    BY <1>4 DEF Pushed
  <2>2. Pushed = {frames[i].own : i \in 1..Len(frames)} \ {0}
    BY <1>4 DEF Pushed
  <2>3. frames'[Len(frames) + 1].own = own
    BY <1>3, <1>4
  <2>4. \A i \in 1..Len(frames) : frames'[i].own = frames[i].own
    BY <1>4, <1>5
  <2>5. {frames'[i].own : i \in 1..(Len(frames) + 1)} = {frames[i].own : i \in 1..Len(frames)} \cup {own}
    <3>1. Len(frames) \in Nat
      BY <1>4
    <3>2. {frames'[i].own : i \in 1..(Len(frames) + 1)}
            = {frames[i].own : i \in 1..Len(frames)} \cup {frames'[Len(frames) + 1].own}
      BY <2>4, <3>1, OneMoreOwn
    <3> QED
      BY <2>3, <3>2, Zenon
  <2>6. Pushed' = (Pushed \cup {own}) \ {0}
    BY <2>1, <2>2, <2>5, Zenon
  <2>7. 0 \notin Pushed
    BY DEF Pushed
  <2> QED
    BY <2>6, <2>7
<1>7. ASSUME NEW i \in DOMAIN frames'
      PROVE  FrameOK(i)'
  <2>1. CASE i = Len(frames) + 1
    <3>1. frames'[i].node = Arg /\ frames'[i].idx = 1 /\ frames'[i].own = own
      BY <2>1, <1>3, <1>4
    <3>2. Kids(frames[i].node)' = Kids(Arg) /\ Len(Kids(Arg)) \in Nat
      BY <3>1, KidsInTree, <1>2 DEF Kids
    <3> QED
      BY <3>1, <3>2, <1>2 DEF FrameOK
  <2>2. CASE i \in DOMAIN frames
    <3>1. Kids(frames[i].node)' = Kids(frames[i].node)
      BY <2>2, <1>5 DEF Kids
    <3>2. Len(Kids(frames[i].node)) \in Nat
      BY KidsInTree, <1>1, <2>2
    <3>3. frames'[i].idx = IF i = Len(frames) THEN frames[i].idx + 1 ELSE frames[i].idx
      BY <1>4, <2>2
    <3>4. frames'[i].idx \in 1..(Len(Kids(frames[i].node)) + 1)
      <4>1. CASE i = Len(frames)
        <5>1. frames[i].idx \in 1..Len(Kids(frames[i].node))
          BY <4>1 DEF Calling, Here
        <5>2. frames'[i].idx = frames[i].idx + 1
          BY <3>3, <4>1
        <5> QED
          BY <3>2, <5>1, <5>2
      <4>2. CASE i # Len(frames)
        <5>1. frames'[i].idx = frames[i].idx
          BY <3>3, <4>2
        <5> QED
          BY <5>1, <1>1, <2>2
      <4> QED
        BY <4>1, <4>2
    <3>5. frames'[i].node \in 0..Len(global)
      BY <2>2, <1>1, <1>5
    <3>6. frames'[i].own \in 0..Len(out')
      <4>1. frames'[i].own = frames[i].own /\ frames[i].own \in 0..Len(out)
        BY <2>2, <1>1, <1>5
      <4>2. \A x \in 0..Len(out) : x \in 0..Len(out')
        BY <1>1
      <4> QED
        BY <4>1, <4>2
    <3> QED
      BY <3>1, <3>4, <3>5, <3>6, <1>5, <2>2 DEF FrameOK
  <2> QED
    BY <2>1, <2>2, <1>4
<1>8. FramesOK'
  BY <1>1, <1>4, <1>5, <1>7 DEF FramesOK
<1> QED
  BY <1>3, <1>4, <1>5, <1>6, <1>8

-----------------------------------------------------------------------------
\* What is wanted of the nodes: the part of TypeOK about them.
OutOK == /\ out \in Seq(OutNode) /\ out # << >>
         /\ \A p \in DOMAIN out : \A i \in DOMAIN out[p].kids :
               out[p].kids[i] \in DOMAIN out \ {1}

\* The block on top of the stack is an allocated block.
LEMMA TopFacts ==
  ASSUME TypeOK, StackDiscipline
  PROVE  /\ Len(stack_) \in Nat \ {0} /\ Len(stack_) \in DOMAIN stack_
         /\ Len(out) \in Nat \ {0}
         /\ Top \in DOMAIN out /\ out[Top].class \in BlockClass
         /\ \A i \in DOMAIN stack_ : stack_[i] \in 1..Len(out) /\ stack_[i] <= Top
<1>1. /\ stack_ \in Seq(DOMAIN out) /\ stack_ # << >>
      /\ out \in Seq(OutNode) /\ out # << >>
  BY DEF TypeOK, StackDiscipline
<1>2. /\ Len(stack_) \in Nat \ {0} /\ Len(stack_) \in DOMAIN stack_
      /\ Len(out) \in Nat \ {0} /\ DOMAIN out = 1..Len(out)
  BY <1>1
<1>3. \A i \in DOMAIN stack_ : stack_[i] \in 1..Len(out)
  BY <1>1, <1>2
<1>4. ASSUME NEW i \in DOMAIN stack_ PROVE stack_[i] <= Top
  <2>1. CASE i = Len(stack_)
    BY <2>1, <1>2, <1>3 DEF Top
  <2>2. CASE i # Len(stack_)
    <3>1. i < Len(stack_)
      BY <2>2, <1>1, <1>2
    <3>2. stack_[i] < Top
      BY <3>1, <1>2 DEF StackDiscipline, Top
    <3> QED
      BY <3>2, <1>2, <1>3 DEF Top
  <2> QED
    BY <2>1, <2>2
<1> QED
  BY <1>1, <1>2, <1>3, <1>4 DEF StackDiscipline, Top

LEMMA EmitEffect ==
  ASSUME TypeOK, StackDiscipline, NEW node \in Fresh, Emit(node)
  PROVE  /\ OutOK' /\ Len(out') = Len(out) + 1
         /\ out'[Len(out) + 1] = node
         /\ \A q \in DOMAIN out :
              /\ out'[q] = [out[q] EXCEPT !.kids = out'[q].kids]
              /\ out'[q].kids = IF q = Top THEN Append(out[q].kids, Len(out) + 1)
                                ELSE out[q].kids
<1> DEFINE nodes == Append(out, node)
           new   == Len(out) + 1
<1>1. /\ node \in OutNode /\ out \in Seq(OutNode) /\ out # << >>
      /\ out' = AppendChild(nodes, Top, new)
  BY DEF Fresh, Emit, TypeOK
<1>2. /\ nodes \in Seq(OutNode) /\ Len(nodes) = new /\ nodes[new] = node
      /\ DOMAIN nodes = 1..new /\ DOMAIN out = 1..Len(out) /\ Len(out) \in Nat \ {0}
      /\ \A q \in DOMAIN out : nodes[q] = out[q]
  BY <1>1
<1>3. Top \in DOMAIN out /\ Top # new /\ Top \in DOMAIN nodes
  BY <1>2, TopFacts
<1> HIDE DEF nodes
<1>4. /\ out' \in Seq(OutNode) /\ Len(out') = new
      /\ \A q \in DOMAIN nodes :
           /\ out'[q] = [nodes[q] EXCEPT !.kids = out'[q].kids]
           /\ out'[q].kids = IF q = Top THEN Append(nodes[Top].kids, new) ELSE nodes[q].kids
  BY <1>1, <1>2, <1>3, AppendChildFacts
<1>5. \A q \in DOMAIN out :
         /\ out'[q] = [out[q] EXCEPT !.kids = out'[q].kids]
         /\ out'[q].kids = IF q = Top THEN Append(out[q].kids, new) ELSE out[q].kids
  BY <1>2, <1>3, <1>4
<1>6. out'[new] = node
  <2>1. /\ new \in DOMAIN nodes
        /\ out'[new] = [node EXCEPT !.kids = out'[new].kids] /\ out'[new].kids = node.kids
    BY <1>2, <1>3, <1>4
  <2>2. node = [node EXCEPT !.kids = node.kids]
    BY <1>1 DEF OutNode
  <2> QED
    BY <2>1, <2>2
<1>7. \A q \in DOMAIN out : out[q].kids \in Seq(Nat)
  <2>1. \A q \in DOMAIN out : out[q] \in OutNode
    BY <1>1, <1>2
  <2> QED
    BY <2>1 DEF OutNode
<1>8. ASSUME NEW q \in DOMAIN out', NEW i \in DOMAIN out'[q].kids
      PROVE  out'[q].kids[i] \in DOMAIN out' \ {1}
  <2>0. DOMAIN out' = 1..new /\ new \in DOMAIN out' \ {1} /\ DOMAIN out \subseteq DOMAIN out'
    BY <1>2, <1>4
  <2>1. CASE q = new
    BY <2>1, <1>6, <1>8 DEF Fresh
  <2>2. CASE q \in DOMAIN out /\ q # Top
    BY <2>0, <2>2, <1>5, <1>8 DEF TypeOK
  <2>3. CASE q = Top
    <3>1. out'[q].kids = Append(out[q].kids, new) /\ out[q].kids \in Seq(Nat)
      BY <2>3, <1>3, <1>5, <1>7
    <3>2. i \in DOMAIN out[q].kids \/ i = Len(out[q].kids) + 1
      BY <3>1, <1>8
    <3>3. CASE i = Len(out[q].kids) + 1
      BY <3>1, <3>3, <2>0
    <3>4. CASE i \in DOMAIN out[q].kids
      <4>1. out'[q].kids[i] = out[q].kids[i]
        BY <3>1, <3>4
      <4> QED
        BY <4>1, <3>4, <2>0, <2>3, <1>3 DEF TypeOK
    <3> QED
      BY <3>2, <3>3, <3>4
  <2> QED
    BY <2>0, <2>1, <2>2, <2>3, <1>2
<1>9. OutOK'
  <2>1. out' # << >>
    BY <1>2, <1>4
  <2> QED
    BY <1>4, <1>8, <2>1 DEF OutOK
<1> QED
  BY <1>4, <1>5, <1>6, <1>9

LEMMA EnterEffect ==
  ASSUME TypeOK, StackDiscipline, NEW node \in Fresh, Enter(node)
  PROVE  /\ OutOK' /\ Len(out') = Len(out) + 1
         /\ out'[Len(out) + 1] = node
         /\ \A q \in DOMAIN out : out'[q] = out[q]
         /\ stack_' = Append(stack_, Len(out) + 1)
<1> DEFINE new == Len(out) + 1
<1>1. /\ node \in OutNode /\ node.kids = << >> /\ out \in Seq(OutNode) /\ out # << >>
      /\ out' = Append(out, node) /\ stack_' = Append(stack_, new)
  BY DEF Fresh, Enter, TypeOK
<1>2. /\ out' \in Seq(OutNode) /\ Len(out') = new /\ out'[new] = node
      /\ DOMAIN out' = 1..new /\ DOMAIN out = 1..Len(out) /\ Len(out) \in Nat \ {0}
      /\ \A q \in DOMAIN out : out'[q] = out[q]
  BY <1>1
<1>3. ASSUME NEW q \in DOMAIN out', NEW i \in DOMAIN out'[q].kids
      PROVE  out'[q].kids[i] \in DOMAIN out' \ {1}
  <2>1. q # new
    BY <1>1, <1>2, <1>3
  <2>2. q \in DOMAIN out /\ out'[q] = out[q]
    BY <2>1, <1>2
  <2>3. out[q].kids[i] \in DOMAIN out \ {1}
    BY <2>2, <1>3 DEF TypeOK
  <2> QED
    BY <2>2, <2>3, <1>2
<1> QED
  BY <1>1, <1>2, <1>3 DEF OutOK

\* The innermost visit method that pushed is the one whose node is on top.
LEMMA ReturnEffect ==
  ASSUME TypeOK, StackDiscipline, Return, Here.own # 0
  PROVE  /\ Here.own = Top /\ Len(stack_) > 1
         /\ stack_' \in Seq(DOMAIN out) /\ Len(stack_') = Len(stack_) - 1
         /\ \A i \in 1..(Len(stack_) - 1) : stack_'[i] = stack_[i]
         /\ stack_[Len(stack_) - 1] < Top
         /\ OutOK' /\ Len(out') = Len(out)
         /\ \A q \in DOMAIN out :
              /\ out'[q] = [out[q] EXCEPT !.kids = out'[q].kids]
              /\ out'[q].kids = IF q = stack_[Len(stack_) - 1] THEN Append(out[q].kids, Top)
                                ELSE out[q].kids
<1> DEFINE n == Len(stack_)
           parent == stack_[n - 1]
<1>1. /\ Len(frames) \in DOMAIN frames /\ Here.own \in 1..Len(out) /\ Here.own \in Pushed
      /\ n \in Nat \ {0} /\ n \in DOMAIN stack_ /\ DOMAIN stack_ = 1..n
  BY HereFacts, TopFacts DEF Pushed, Here, TypeOK
<1>2. n > 1 /\ \E i \in 2..n : stack_[i] = Here.own
  <2>1. Here.own \in {stack_[i] : i \in 2..n}
    BY <1>1 DEF StackDiscipline
  <2>2. PICK i \in 2..n : stack_[i] = Here.own
    BY <2>1
  <2>3. n > 1
    BY <2>2, <1>1
  <2> QED
    BY <2>2, <2>3
<1>3. Here.own = Top
  <2>1. Here.own <= Top
    BY <1>1, <1>2, TopFacts
  <2>2. Top \in Pushed
    <3>1. Top \in {stack_[i] : i \in 2..n}
      BY <1>1, <1>2 DEF Top
    <3> QED
      BY <3>1 DEF StackDiscipline
  <2>3. PICK j \in DOMAIN frames : frames[j].own = Top /\ Top # 0
    BY <2>2 DEF Pushed
  <2>4. j = Len(frames) \/ j < Len(frames)
    BY <1>1 DEF TypeOK
  <2>5. Top <= Here.own
    <3>1. CASE j = Len(frames)
      BY <3>1, <2>3, <1>1, TopFacts DEF Here
    <3>2. CASE j < Len(frames)
      BY <3>2, <2>3, <1>1, TopFacts DEF Here, StackDiscipline
    <3> QED
      BY <2>4, <3>1, <3>2
  <2> QED
    BY <2>1, <2>5, <1>1, TopFacts
<1>4. /\ stack_' = SubSeq(stack_, 1, n - 1)
      /\ out' = AppendChild(out, stack_'[Len(stack_')], Here.own)
  BY DEF Return, Popped
<1>5. /\ stack_' \in Seq(DOMAIN out) /\ Len(stack_') = n - 1
      /\ \A i \in 1..(n - 1) : stack_'[i] = stack_[i]
  BY <1>1, <1>2, <1>4 DEF TypeOK
<1>6. /\ parent \in DOMAIN out /\ parent < Top /\ Top \in DOMAIN out \ {1} /\ Top \in Nat
      /\ out' = AppendChild(out, parent, Top)
  <2>1. n - 1 \in DOMAIN stack_ /\ n - 1 < n
    BY <1>1, <1>2
  <2>2. parent < Top
    BY <2>1, <1>1 DEF StackDiscipline, Top
  <2>3. parent \in 1..Len(out) /\ Top \in 1..Len(out) /\ DOMAIN out = 1..Len(out)
    BY <2>1, TopFacts DEF TypeOK
  <2>4. stack_'[Len(stack_')] = parent
    BY <1>1, <1>2, <1>5
  <2>5. out' = AppendChild(out, parent, Top)
    BY <2>4, <1>3, <1>4
  <2>6. Top \in DOMAIN out \ {1} /\ Top \in Nat
    <3> HIDE DEF parent
    <3> QED
      BY <2>2, <2>3, TopFacts
  <2> QED
    BY <2>2, <2>3, <2>5, <2>6
<1> HIDE DEF parent
<1>7. /\ out' \in Seq(OutNode) /\ Len(out') = Len(out)
      /\ \A q \in DOMAIN out :
           /\ out'[q] = [out[q] EXCEPT !.kids = out'[q].kids]
           /\ out'[q].kids = IF q = parent THEN Append(out[q].kids, Top) ELSE out[q].kids
  <2>1. out \in Seq(OutNode)
    BY DEF TypeOK
  <2> QED
    BY <2>1, <1>6, AppendChildFacts
<1>8. OutOK'
  <2>1. out \in Seq(OutNode) /\ out # << >>
    BY DEF TypeOK
  <2>2. DOMAIN out' = DOMAIN out /\ out' # << >>
    BY <2>1, <1>7
  <2>3. ASSUME NEW q \in DOMAIN out', NEW i \in DOMAIN out'[q].kids
        PROVE  out'[q].kids[i] \in DOMAIN out' \ {1}
    <3>1. CASE q # parent
      BY <3>1, <2>2, <2>3, <1>7 DEF TypeOK
    <3>2. CASE q = parent
      <4>1. out[q] \in OutNode
        BY <2>1, <2>2
      <4>2. out[q].kids \in Seq(Nat)
        BY <4>1 DEF OutNode
      <4>3. out'[q].kids = Append(out[q].kids, Top)
        BY <3>2, <2>2, <1>7
      <4>4. i \in DOMAIN out[q].kids \/ i = Len(out[q].kids) + 1
        BY <4>2, <4>3, <2>3
      <4>5. CASE i = Len(out[q].kids) + 1
        BY <4>5, <4>2, <4>3, <2>2, <1>6
      <4>6. CASE i \in DOMAIN out[q].kids
        <5>1. out'[q].kids[i] = out[q].kids[i]
          BY <4>2, <4>3, <4>6
        <5> QED
          BY <5>1, <4>6, <2>2 DEF TypeOK
      <4> QED
        BY <4>4, <4>5, <4>6
    <3> QED
      BY <3>1, <3>2
  <2> QED
    BY <2>2, <2>3, <1>7 DEF OutOK
<1> QED
  BY <1>2, <1>3, <1>5, <1>6, <1>7, <1>8 DEF parent

-----------------------------------------------------------------------------
\* Return pops the frame: what is left is what it was.
LEMMA ReturnFrames ==
  ASSUME Rooted, TypeOK, Return, Len(out') = Len(out)
  PROVE  /\ FramesOK' /\ Len(frames') = Len(frames) - 1
         /\ \A i \in DOMAIN frames' : i \in DOMAIN frames /\ frames'[i] = frames[i]
<1>1. /\ frames \in Seq(Frame) /\ Len(frames) > 1 /\ frames[1].node = Client
      /\ frames' = SubSeq(frames, 1, Len(frames) - 1) /\ UNCHANGED global
  BY DEF Return, TypeOK
<1>2. /\ frames' \in Seq(Frame) /\ Len(frames') = Len(frames) - 1 /\ frames' # << >>
      /\ \A i \in DOMAIN frames' : i \in DOMAIN frames /\ frames'[i] = frames[i]
      /\ 1 \in DOMAIN frames'
  <2> DEFINE m == Len(frames) - 1
  <2>1. m \in Nat \ {0} /\ frames' = SubSeq(frames, 1, m) /\ m <= Len(frames)
    BY <1>1
  <2> HIDE DEF m
  <2>2. frames' \in Seq(Frame) /\ Len(frames') = m /\ \A i \in 1..m : frames'[i] = frames[i]
    BY <1>1, <2>1
  <2>3. DOMAIN frames' = 1..m /\ DOMAIN frames = 1..Len(frames) /\ Len(frames) \in Nat
    BY <1>1, <2>2
  <2>4. 1 \in DOMAIN frames'
    BY <2>1, <2>3
  <2>5. \A i \in DOMAIN frames' : i \in DOMAIN frames /\ frames'[i] = frames[i]
    BY <2>1, <2>2, <2>3
  <2>6. frames' # << >>
    BY <2>1, <2>2
  <2> QED
    BY <2>2, <2>4, <2>5, <2>6 DEF m
<1>3. ASSUME NEW i \in DOMAIN frames' PROVE FrameOK(i)'
  <2>1. Kids(frames[i].node)' = Kids(frames[i].node)
    BY <1>1, <1>2 DEF Kids
  <2> QED
    BY <2>1, <1>1, <1>2 DEF FrameOK, TypeOK
<1> QED
  BY <1>1, <1>2, <1>3 DEF FramesOK

-----------------------------------------------------------------------------
\* The parts of StackDiscipline.
Bottom     == stack_ # << >> /\ stack_[1] = 1
SameNodes  == {stack_[i] : i \in 2..Len(stack_)} = Pushed
StackRises == \A i, j \in DOMAIN stack_ : i < j => stack_[i] < stack_[j]
OwnsRise   == \A i, j \in DOMAIN frames :
                i < j /\ frames[i].own # 0 /\ frames[j].own # 0 => frames[i].own < frames[j].own
AllBlocks  == \A i \in DOMAIN stack_ : out[stack_[i]].class \in BlockClass

LEMMA StackParts ==
  StackDiscipline <=> Bottom /\ SameNodes /\ StackRises /\ OwnsRise /\ AllBlocks
BY DEF StackDiscipline, Bottom, SameNodes, StackRises, OwnsRise, AllBlocks

\* A class is never rewritten: what is on the stack stays a block.
LEMMA ClassKept ==
  ASSUME TypeOK, NEW q \in DOMAIN out, out'[q] = [out[q] EXCEPT !.kids = out'[q].kids]
  PROVE  /\ out'[q].class = out[q].class /\ out'[q].src = out[q].src
         /\ [out'[q] EXCEPT !.kids = << >>] = [out[q] EXCEPT !.kids = << >>]
<1>1. out[q] \in OutNode
  BY DEF TypeOK
<1> DEFINE o == out[q]
           k == out'[q].kids
<1>2. o \in OutNode /\ out'[q] = [o EXCEPT !.kids = k]
  BY <1>1
<1> HIDE DEF o, k
<1> QED
  BY <1>2 DEF OutNode, o

LEMMA EmitStack ==
  ASSUME Rooted, TypeOK, StackDiscipline, EmitStep
  PROVE  TypeOK' /\ StackDiscipline'
<1>1. PICK node \in Fresh : Emit(node)
  BY DEF EmitStep
<1>2. Calling /\ frames' = Advanced /\ UNCHANGED <<global, endpoint, stack_, crashed>>
  BY <1>1 DEF EmitStep, Emit
<1>3. Len(out) \in Nat /\ Len(out') = Len(out) + 1 /\ OutOK'
  BY <1>1, EmitEffect, TopFacts
<1>4. /\ FramesOK' /\ DOMAIN frames' = DOMAIN frames /\ Pushed' = Pushed
      /\ \A i \in DOMAIN frames : frames'[i].own = frames[i].own
  BY <1>2, <1>3, CallFrames
<1>5. DOMAIN out \subseteq DOMAIN out' /\ stack_ \in Seq(DOMAIN out')
  <2>1. DOMAIN out = 1..Len(out) /\ DOMAIN out' = 1..Len(out') /\ stack_ \in Seq(DOMAIN out)
    BY <1>3 DEF TypeOK, OutOK
  <2> QED
    BY <2>1, <1>3
<1>6. TypeOK'
  BY <1>2, <1>3, <1>4, <1>5 DEF TypeOK, OutOK, FramesOK, FrameOK
<1>7. Bottom' /\ SameNodes' /\ StackRises' /\ OwnsRise'
  BY <1>2, <1>4, StackParts DEF Bottom, SameNodes, StackRises, OwnsRise
<1>8. AllBlocks'
  <2> SUFFICES ASSUME NEW i \in DOMAIN stack_ PROVE out'[stack_[i]].class \in BlockClass
    BY <1>2 DEF AllBlocks
  <2>1. stack_[i] \in DOMAIN out
    BY DEF TypeOK
  <2> DEFINE q == stack_[i]
  <2> HIDE DEF q
  <2>2. out'[q].class = out[q].class
    <3>1. q \in DOMAIN out
      BY <2>1 DEF q
    <3>2. out'[q] = [out[q] EXCEPT !.kids = out'[q].kids]
      BY <1>1, <3>1, EmitEffect
    <3> QED
      BY <3>1, <3>2, ClassKept
  <2> QED
    BY <2>2, StackParts DEF AllBlocks, q
<1> QED
  BY <1>6, <1>7, <1>8, StackParts DEF StackDiscipline, Bottom, SameNodes, StackRises, OwnsRise, AllBlocks

LEMMA EnterStack ==
  ASSUME Rooted, TypeOK, StackDiscipline, EnterStep
  PROVE  TypeOK' /\ StackDiscipline'
<1> DEFINE new == Len(out) + 1
           n   == Len(stack_)
<1>1. PICK node \in Fresh : node.class \in BlockClass /\ Enter(node)
  BY DEF EnterStep
<1>2. /\ Calling /\ UNCHANGED <<global, endpoint, crashed>>
      /\ frames' = Append(Advanced, [node |-> Arg, idx |-> 1, own |-> new])
  BY <1>1 DEF EnterStep, Enter
<1>3. /\ Len(out) \in Nat /\ Len(out') = new /\ OutOK' /\ out'[new] = node
      /\ \A q \in DOMAIN out : out'[q] = out[q]
      /\ stack_' = Append(stack_, new)
  BY <1>1, EnterEffect, TopFacts
<1>4. /\ FramesOK' /\ Len(frames') = Len(frames) + 1 /\ Pushed' = Pushed \cup {new}
      /\ \A i \in DOMAIN frames : frames'[i].own = frames[i].own
      /\ frames'[Len(frames')].own = new
  <2>1. new \in 0..Len(out') /\ new # 0 /\ Len(out') \in Nat /\ Len(out) <= Len(out')
    BY <1>3
  <2> QED
    BY <1>2, <2>1, OpenFrames
<1>5. /\ DOMAIN out = 1..Len(out) /\ DOMAIN out' = 1..new /\ new \in DOMAIN out'
      /\ stack_ \in Seq(DOMAIN out) /\ n \in Nat \ {0} /\ DOMAIN stack_ = 1..n
  BY <1>3, TopFacts DEF TypeOK, OutOK
<1>6. /\ stack_' \in Seq(DOMAIN out') /\ Len(stack_') = n + 1 /\ DOMAIN stack_' = 1..(n + 1)
      /\ stack_'[n + 1] = new /\ \A i \in 1..n : stack_'[i] = stack_[i]
  <2>1. DOMAIN out \subseteq DOMAIN out'
    BY <1>3, <1>5
  <2>2. stack_ \in Seq(DOMAIN out')
    BY <1>5, <2>1
  <2> QED
    BY <2>2, <1>3, <1>5
<1>7. TypeOK'
  BY <1>2, <1>3, <1>4, <1>6 DEF TypeOK, OutOK, FramesOK, FrameOK
<1>8. \A i \in 1..n : stack_[i] < new
  BY <1>3, <1>5, TopFacts
<1>9. Bottom' /\ StackRises'
  <2>1. Bottom'
    BY <1>5, <1>6, StackParts DEF Bottom
  <2>2. StackRises'
    <3>1. \A i, j \in 1..n : i < j => stack_[i] < stack_[j]
      BY <1>5, StackParts DEF StackRises
    <3>2. \A j \in 1..(n + 1) : j = n + 1 \/ j \in 1..n
      BY <1>5
    <3>3. \A i \in 1..(n + 1) : ~(n + 1 < i)
      BY <1>5
    <3> QED
      BY <3>1, <3>2, <3>3, <1>6, <1>8 DEF StackRises
  <2> QED
    BY <2>1, <2>2
<1>10. SameNodes'
  <2>1. \A x : x \in {stack_'[i] : i \in 2..(n + 1)} <=> x = new \/ x \in {stack_[i] : i \in 2..n}
    <3>1. \A i \in 2..(n + 1) : i = n + 1 \/ (i \in 2..n /\ stack_'[i] = stack_[i])
      BY <1>5, <1>6
    <3>2. n + 1 \in 2..(n + 1) /\ \A i \in 2..n : i \in 2..(n + 1) /\ stack_'[i] = stack_[i]
      BY <1>5, <1>6
    <3> QED
      BY <3>1, <3>2, <1>6
  <2> QED
    BY <2>1, <1>4, <1>6, StackParts DEF SameNodes
<1>11. OwnsRise'
  <2> SUFFICES ASSUME NEW i \in DOMAIN frames', NEW j \in DOMAIN frames', i < j,
                      frames'[i].own # 0, frames'[j].own # 0
               PROVE  frames'[i].own < frames'[j].own
    BY DEF OwnsRise
  <2>1. /\ DOMAIN frames = 1..Len(frames) /\ DOMAIN frames' = 1..(Len(frames) + 1)
        /\ Len(frames) \in Nat
    BY <1>4 DEF TypeOK, FramesOK
  <2>2. i \in DOMAIN frames /\ frames'[i].own = frames[i].own
    BY <2>1, <1>4
  <2>3. CASE j = Len(frames) + 1
    BY <2>2, <2>3, <1>3, <1>4 DEF TypeOK
  <2>4. CASE j # Len(frames) + 1
    <3>1. j \in DOMAIN frames /\ frames'[j].own = frames[j].own
      BY <2>1, <2>4, <1>4
    <3> QED
      BY <3>1, <2>2, StackParts DEF OwnsRise
  <2> QED
    BY <2>3, <2>4
<1>12. AllBlocks'
  <2> SUFFICES ASSUME NEW i \in 1..(n + 1) PROVE out'[stack_'[i]].class \in BlockClass
    BY <1>6 DEF AllBlocks
  <2>1. CASE i = n + 1
    BY <2>1, <1>1, <1>3, <1>6
  <2>2. CASE i \in 1..n
    <3>1. stack_'[i] = stack_[i] /\ stack_[i] \in DOMAIN out
      BY <2>2, <1>5, <1>6
    <3> QED
      BY <3>1, <2>2, <1>3, <1>5, StackParts DEF AllBlocks
  <2> QED
    BY <2>1, <2>2, <1>5
<1>13. StackDiscipline'
  BY <1>9, <1>10, <1>11, <1>12
     DEF StackDiscipline, Bottom, SameNodes, StackRises, OwnsRise, AllBlocks
<1> QED
  BY <1>7, <1>13

LEMMA LastOrBefore ==
  ASSUME NEW k \in Nat, NEW lo \in Nat, NEW i \in lo..k
  PROVE  i = k \/ (i \in lo..(k - 1) /\ i < k)
OBVIOUS

\* Dropping the last of a list whose last element occurs once.
LEMMA PoppedImage ==
  ASSUME NEW k \in Nat, NEW lo \in Nat, lo <= k, NEW f, NEW g,
         \A i \in lo..(k - 1) : g[i] = f[i] /\ f[i] # f[k]
  PROVE  {g[i] : i \in lo..(k - 1)} = {f[i] : i \in lo..k} \ {f[k]}
<1>1. ASSUME NEW i \in lo..k PROVE i = k \/ i \in lo..(k - 1)
  OBVIOUS
<1>2. ASSUME NEW i \in lo..(k - 1) PROVE i \in lo..k
  OBVIOUS
<1> QED
  BY <1>1, <1>2

LEMMA ReturnStack ==
  ASSUME Rooted, TypeOK, StackDiscipline, Return
  PROVE  TypeOK' /\ StackDiscipline'
<1> DEFINE n == Len(stack_)
           m == Len(frames)
<1>1. /\ UNCHANGED <<global, endpoint, crashed>>
      /\ \/ Here.own = 0 /\ UNCHANGED <<out, stack_>>
         \/ Here.own # 0
  BY DEF Return, Popped
<1>2. /\ n \in Nat \ {0} /\ DOMAIN stack_ = 1..n
      /\ m \in Nat \ {0} /\ DOMAIN frames = 1..m /\ Here = frames[m]
      /\ n = Len(stack_) /\ m = Len(frames) /\ Top = stack_[n]
  BY TopFacts, HereFacts DEF TypeOK, Here, Top
<1> HIDE DEF n, m
<1>3. CASE Here.own = 0 /\ UNCHANGED <<out, stack_>>
  <2>1. /\ FramesOK' /\ Len(frames') = m - 1
        /\ \A i \in DOMAIN frames' : i \in DOMAIN frames /\ frames'[i] = frames[i]
    BY <1>2, <1>3, ReturnFrames
  <2>2. TypeOK'
    BY <1>1, <1>3, <2>1 DEF TypeOK, FramesOK, FrameOK
  <2>3. Pushed' = Pushed
    <3>1. DOMAIN frames' = 1..(m - 1)
      BY <2>1 DEF FramesOK
    <3>2. \A i \in 1..m : i = m \/ i \in 1..(m - 1)
      BY <1>2, LastOrBefore
    <3>3. \A x : x \in {frames'[i].own : i \in 1..(m - 1)} \ {0}
                 <=> x \in {frames[i].own : i \in 1..m} \ {0}
      BY <3>1, <3>2, <2>1, <1>2, <1>3
    <3> QED
      BY <3>1, <3>3, <1>2 DEF Pushed
  <2>4. OwnsRise'
    BY <2>1, StackParts DEF OwnsRise
  <2>5. Bottom' /\ SameNodes' /\ StackRises' /\ AllBlocks'
    BY <1>3, <2>3, StackParts DEF Bottom, SameNodes, StackRises, AllBlocks
  <2> QED
    BY <2>2, <2>4, <2>5 DEF StackDiscipline, Bottom, SameNodes, StackRises, OwnsRise, AllBlocks
<1>4. CASE Here.own # 0
  <2>1. /\ Here.own = Top /\ n > 1
        /\ stack_' \in Seq(DOMAIN out) /\ Len(stack_') = n - 1
        /\ \A i \in 1..(n - 1) : stack_'[i] = stack_[i]
        /\ OutOK' /\ Len(out') = Len(out)
        /\ \A q \in DOMAIN out : out'[q] = [out[q] EXCEPT !.kids = out'[q].kids]
    BY <1>2, <1>4, ReturnEffect
  <2>2. /\ FramesOK' /\ Len(frames') = m - 1
        /\ \A i \in DOMAIN frames' : i \in DOMAIN frames /\ frames'[i] = frames[i]
    BY <1>2, <2>1, ReturnFrames
  <2>3. /\ DOMAIN out' = DOMAIN out /\ DOMAIN stack_' = 1..(n - 1)
        /\ DOMAIN frames' = 1..(m - 1)
    BY <2>1, <2>2 DEF OutOK, TypeOK, FramesOK
  <2>4. TypeOK'
    <3>1. stack_' \in Seq(DOMAIN out')
      BY <2>1, <2>3
    <3> QED
      BY <1>1, <2>1, <2>2, <3>1 DEF TypeOK, OutOK, FramesOK, FrameOK
  <2>5. Bottom' /\ StackRises' /\ OwnsRise'
    <3>1. Bottom'
      BY <1>2, <2>1, <2>3, StackParts DEF Bottom
    <3>2. StackRises'
      BY <1>2, <2>1, <2>3, StackParts DEF StackRises
    <3>3. OwnsRise'
      BY <2>2, StackParts DEF OwnsRise
    <3> QED
      BY <3>1, <3>2, <3>3
  <2>6. Pushed' = Pushed \ {Top}
    <3>1. \A i \in 1..m : i = m \/ (i \in 1..(m - 1) /\ i < m)
      BY <1>2, LastOrBefore
    <3>2. \A i \in 1..(m - 1) : i \in 1..m /\ i < m /\ frames'[i] = frames[i]
      BY <1>2, <2>2, <2>3
    <3>3. \A i \in 1..(m - 1) : frames[i].own # 0 => frames[i].own < Top
      BY <3>2, <1>2, <1>4, <2>1, StackParts DEF OwnsRise
    <3>4. \A i \in 1..(m - 1) : frames[i].own # Top
      BY <3>2, <3>3, <1>2, <1>4, <2>1, TopFacts DEF TypeOK
    <3>5. {frames'[i].own : i \in 1..(m - 1)} = {frames[i].own : i \in 1..m} \ {Top}
      <4> DEFINE f == [i \in 1..m |-> frames[i].own]
                 g == [i \in 1..(m - 1) |-> frames'[i].own]
      <4>1. 1 <= m /\ m \in 1..m /\ f[m] = Top
        BY <1>2, <2>1
      <4>2. \A i \in 1..(m - 1) : g[i] = f[i] /\ f[i] # f[m]
        BY <3>2, <3>4, <4>1
      <4>3. {g[i] : i \in 1..(m - 1)} = {frames'[i].own : i \in 1..(m - 1)}
        OBVIOUS
      <4>4. {f[i] : i \in 1..m} = {frames[i].own : i \in 1..m}
        OBVIOUS
      <4> HIDE DEF f, g
      <4>5. {g[i] : i \in 1..(m - 1)} = {f[i] : i \in 1..m} \ {f[m]}
        BY <4>1, <4>2, <1>2, PoppedImage
      <4> QED
        BY <4>1, <4>3, <4>4, <4>5
    <3> QED
      BY <3>5, <1>2, <2>3 DEF Pushed
  <2>7. SameNodes'
    <3>2. \A i \in 2..(n - 1) : i \in 2..n /\ i < n /\ stack_'[i] = stack_[i]
      BY <1>2, <2>1
    <3>3. \A i \in 2..(n - 1) : stack_[i] # Top
      <4> SUFFICES ASSUME NEW i \in 2..(n - 1) PROVE stack_[i] # Top
        OBVIOUS
      <4>1. i \in DOMAIN stack_ /\ n \in DOMAIN stack_ /\ i < n
        BY <1>2, <2>1
      <4>2. stack_[i] < Top
        BY <4>1, StackParts DEF StackRises, Top
      <4> QED
        BY <4>1, <4>2, TopFacts
    <3>4. {stack_'[i] : i \in 2..(n - 1)} = {stack_[i] : i \in 2..n} \ {stack_[n]}
      <4> DEFINE f == stack_
                 g == stack_'
      <4>1. 2 <= n /\ \A i \in 2..(n - 1) : g[i] = f[i] /\ f[i] # f[n]
        BY <3>2, <3>3, <1>2, <2>1
      <4> HIDE DEF f, g
      <4>2. {g[i] : i \in 2..(n - 1)} = {f[i] : i \in 2..n} \ {f[n]}
        BY <4>1, <1>2, PoppedImage
      <4> QED
        BY <4>2 DEF f, g
    <3> QED
      BY <3>4, <1>2, <2>1, <2>6, StackParts DEF SameNodes
  <2>8. AllBlocks'
    <3> SUFFICES ASSUME NEW i \in 1..(n - 1) PROVE out'[stack_'[i]].class \in BlockClass
      BY <2>3 DEF AllBlocks
    <3> DEFINE q == stack_[i]
    <3>1. q \in DOMAIN out /\ stack_'[i] = q /\ out[q].class \in BlockClass
      <4>1. i \in DOMAIN stack_ /\ stack_'[i] = q
        BY <1>2, <2>1
      <4>2. q \in DOMAIN out
        BY <4>1 DEF TypeOK
      <4> QED
        BY <4>1, <4>2, StackParts DEF AllBlocks
    <3> HIDE DEF q
    <3>2. out'[q] = [out[q] EXCEPT !.kids = out'[q].kids]
      BY <2>1, <3>1
    <3>3. out'[q].class = out[q].class
      BY <3>1, <3>2, ClassKept
    <3> QED
      BY <3>1, <3>3
  <2> QED
    BY <2>4, <2>5, <2>7, <2>8
       DEF StackDiscipline, Bottom, SameNodes, StackRises, OwnsRise, AllBlocks
<1> QED
  BY <1>1, <1>3, <1>4

LEMMA SameStack ==
  ASSUME Rooted, TypeOK, StackDiscipline, BlockStep \/ SkipStep \/ CrashStep
  PROVE  TypeOK' /\ StackDiscipline'
<1>1. /\ UNCHANGED <<global, endpoint, out, stack_>>
      /\ crashed' \in BOOLEAN /\ Len(out) \in Nat
  <2>1. Len(out) \in Nat /\ crashed \in BOOLEAN
    BY DEF TypeOK
  <2>2. UNCHANGED <<global, endpoint, out, stack_>> /\ (crashed' = crashed \/ crashed' = TRUE)
    BY DEF BlockStep, SkipStep, CrashStep, Crash, Skip
  <2> QED
    BY <2>1, <2>2
<1>2. FramesOK' /\ Pushed' = Pushed /\ OwnsRise'
  <2>1. CASE BlockStep
    <3>1. /\ Calling
          /\ frames' = Append(Advanced, [node |-> Arg, idx |-> 1, own |-> 0])
          /\ 0 \in 0..Len(out')
      BY <2>1, <1>1 DEF BlockStep
    <3>2. /\ FramesOK' /\ Pushed' = Pushed /\ Len(frames') = Len(frames) + 1
          /\ \A i \in DOMAIN frames : frames'[i].own = frames[i].own
          /\ frames'[Len(frames')].own = 0
      BY <1>1, <3>1, OpenFrames
    <3>3. /\ DOMAIN frames' = 1..(Len(frames) + 1) /\ DOMAIN frames = 1..Len(frames)
          /\ Len(frames) \in Nat
      BY <3>2 DEF FramesOK, TypeOK
    <3>4. \A i \in DOMAIN frames' : frames'[i].own # 0 =>
             i \in DOMAIN frames /\ frames'[i].own = frames[i].own
      BY <3>2, <3>3
    <3> QED
      BY <3>2, <3>4, StackParts DEF OwnsRise
  <2>2. CASE SkipStep
    <3>1. /\ FramesOK' /\ Pushed' = Pushed /\ DOMAIN frames' = DOMAIN frames
          /\ \A i \in DOMAIN frames : frames'[i].own = frames[i].own
      BY <2>2, <1>1, CallFrames DEF SkipStep, Skip
    <3> QED
      BY <3>1, StackParts DEF OwnsRise
  <2>3. CASE CrashStep
    BY <2>3, StackParts DEF CrashStep, Crash, FramesOK, FrameOK, TypeOK, Kids, Pushed, OwnsRise
  <2> QED
    BY <2>1, <2>2, <2>3
<1>3. TypeOK'
  BY <1>1, <1>2 DEF TypeOK, FramesOK, FrameOK
<1>4. Bottom' /\ SameNodes' /\ StackRises' /\ AllBlocks'
  BY <1>1, <1>2, StackParts DEF Bottom, SameNodes, StackRises, AllBlocks
<1> QED
  BY <1>2, <1>3, <1>4 DEF StackDiscipline, Bottom, SameNodes, StackRises, OwnsRise, AllBlocks

-----------------------------------------------------------------------------
LEMMA InitStack == Init => Rooted /\ TypeOK /\ StackDiscipline
<1> SUFFICES ASSUME Init PROVE Rooted /\ TypeOK /\ StackDiscipline
  OBVIOUS
<1> DEFINE root == NewNode(0, "Block", "Block", << >>, NoRole, << >>)
<1>1. Rooted /\ endpoint \in Role /\ crashed = FALSE
  BY DEF Init, Rooted
<1>2. root \in OutNode /\ root.kids = << >> /\ root.class = "Block"
  BY DEF NewNode, OutNode, Class, BlockClass
<1>3. /\ out = <<root>> /\ stack_ = <<1>>
      /\ frames = <<[node |-> Client, idx |-> 1, own |-> 0]>>
  BY DEF Init
<1> HIDE DEF root
<1>4. /\ out \in Seq(OutNode) /\ out # << >> /\ Len(out) = 1 /\ DOMAIN out = {1} /\ out[1] = root
      /\ stack_ \in Seq(DOMAIN out) /\ Len(stack_) = 1 /\ stack_[1] = 1 /\ DOMAIN stack_ = {1}
  BY <1>2, <1>3
<1>5. /\ frames \in Seq(Frame) /\ frames # << >> /\ Len(frames) = 1 /\ DOMAIN frames = {1}
      /\ frames[1].node = Client /\ frames[1].idx = 1 /\ frames[1].own = 0
  BY <1>3 DEF Frame, Client
<1>6. global \in Seq(SourceNode) /\ global # << >> /\ Len(global) \in Nat
  BY <1>1, TreeFacts
<1>7. FrameOK(1)
  BY <1>4, <1>5, <1>6 DEF FrameOK, Kids, Client
<1>8. TypeOK
  <2>1. \A i \in DOMAIN frames : FrameOK(i)
    BY <1>5, <1>7
  <2>2. \A p \in DOMAIN out : \A i \in DOMAIN out[p].kids : out[p].kids[i] \in DOMAIN out \ {1}
    BY <1>2, <1>4
  <2>3. endpoint \in Role /\ crashed \in BOOLEAN
    BY <1>1
  <2> QED
    BY <2>1, <2>2, <2>3, <1>4, <1>5, <1>6 DEF TypeOK, FrameOK
<1>9. Pushed = {} /\ {stack_[i] : i \in 2..Len(stack_)} = {}
  BY <1>4, <1>5 DEF Pushed
<1>10. StackDiscipline
  BY <1>2, <1>4, <1>5, <1>9 DEF StackDiscipline, BlockClass
<1> QED
  BY <1>1, <1>8, <1>10

LEMMA NextStack ==
  ASSUME Rooted, TypeOK, StackDiscipline, [Next]_vars
  PROVE  Rooted' /\ TypeOK' /\ StackDiscipline'
<1>1. CASE Next
  <2>1. TypeOK' /\ StackDiscipline'
    BY <1>1, StepKinds, EmitStack, EnterStack, ReturnStack, SameStack
  <2>2. Rooted'
    BY <1>1, StepKinds DEF Rooted, EmitStep, Emit, EnterStep, Enter, BlockStep,
                           SkipStep, Skip, CrashStep, Crash, Return
  <2> QED
    BY <2>1, <2>2
<1>2. CASE UNCHANGED vars
  <2>1. UNCHANGED <<global, endpoint, out, stack_, frames, crashed>>
    BY <1>2 DEF vars
  <2>2. Rooted'
    BY <2>1 DEF Rooted
  <2>3. TypeOK'
    <3>1. \A n : Kids(n)' = Kids(n)
      BY <2>1 DEF Kids
    <3> QED
      BY <2>1, <3>1 DEF TypeOK
  <2>4. StackDiscipline'
    BY <2>1 DEF StackDiscipline, Pushed
  <2> QED
    BY <2>2, <2>3, <2>4
<1> QED
  BY <1>1, <1>2

\* Ids, indices and children always name what exists; no visit method reads a
\* child beyond the end or appends to a node that is not there.
THEOREM TypeCorrect == Spec => []TypeOK
<1>1. Rooted /\ TypeOK /\ StackDiscipline /\ [Next]_vars
        => (Rooted /\ TypeOK /\ StackDiscipline)'
  BY NextStack
<1> QED
  BY <1>1, InitStack, PTL DEF Spec

\* The visitor's stack follows the calls in every run: top() is always a block
\* under construction, and the one of the innermost call.
THEOREM StackSafe == Spec => []StackDiscipline
<1>1. Rooted /\ TypeOK /\ StackDiscipline /\ [Next]_vars
        => (Rooted /\ TypeOK /\ StackDiscipline)'
  BY NextStack
<1> QED
  BY <1>1, InitStack, PTL DEF Spec

-----------------------------------------------------------------------------
LEMMA KidsTyped ==
  ASSUME TypeOK, NEW q \in DOMAIN out
  PROVE  out[q].kids \in Seq(Nat)
<1>1. out[q] \in OutNode
  BY DEF TypeOK
<1> QED
  BY <1>1 DEF OutNode

\* One child c more, under parent; the other children are where they were.
OneMore(parent, c) ==
  /\ \A q \in DOMAIN out : q \in DOMAIN out' /\ \A i \in DOMAIN out[q].kids :
        i \in DOMAIN out'[q].kids /\ out'[q].kids[i] = out[q].kids[i]
  /\ \A q \in DOMAIN out' : \A i \in DOMAIN out'[q].kids :
        \/ q \in DOMAIN out /\ i \in DOMAIN out[q].kids
        \/ q = parent /\ i = Len(out[parent].kids) + 1 /\ out'[q].kids[i] = c
  /\ Len(out[parent].kids) + 1 \in DOMAIN out'[parent].kids
  /\ out'[parent].kids[Len(out[parent].kids) + 1] = c

LEMMA AppendIsOneMore ==
  ASSUME TypeOK, NEW parent \in DOMAIN out, NEW c \in Nat, DOMAIN out \subseteq DOMAIN out',
         \A q \in DOMAIN out' \ DOMAIN out : out'[q].kids = << >>,
         \A q \in DOMAIN out : out'[q].kids = IF q = parent THEN Append(out[q].kids, c)
                                              ELSE out[q].kids
  PROVE  OneMore(parent, c)
<1> DEFINE s == out[parent].kids
           t == out'[parent].kids
<1>1. s \in Seq(Nat) /\ t = Append(s, c)
  BY KidsTyped
<1>2. /\ DOMAIN s = 1..Len(s) /\ DOMAIN t = 1..(Len(s) + 1) /\ Len(s) \in Nat
      /\ t[Len(s) + 1] = c /\ \A i \in DOMAIN s : t[i] = s[i]
  BY <1>1
<1> HIDE DEF s, t
<1>3. /\ \A i \in DOMAIN s : i \in DOMAIN t /\ t[i] = s[i]
      /\ \A i \in DOMAIN t : i \in DOMAIN s \/ (i = Len(s) + 1 /\ t[i] = c)
      /\ Len(s) + 1 \in DOMAIN t
  BY <1>2
<1>4. ASSUME NEW q \in DOMAIN out PROVE q \in DOMAIN out' /\ \A i \in DOMAIN out[q].kids :
         i \in DOMAIN out'[q].kids /\ out'[q].kids[i] = out[q].kids[i]
  <2>1. CASE q = parent
    BY <2>1, <1>3 DEF s, t
  <2>2. CASE q # parent
    BY <2>2
  <2> QED
    BY <2>1, <2>2
<1>5. ASSUME NEW q \in DOMAIN out', NEW i \in DOMAIN out'[q].kids
      PROVE  \/ q \in DOMAIN out /\ i \in DOMAIN out[q].kids
             \/ q = parent /\ i = Len(out[parent].kids) + 1 /\ out'[q].kids[i] = c
  <2>1. CASE q = parent
    BY <2>1, <1>3, <1>5 DEF s, t
  <2>2. CASE q # parent /\ q \in DOMAIN out
    BY <2>2, <1>5
  <2>3. CASE q \notin DOMAIN out
    BY <2>3, <1>5
  <2> QED
    BY <2>1, <2>2, <2>3
<1> QED
  BY <1>2, <1>3, <1>4, <1>5 DEF OneMore, s, t

LEMMA PlaceKept ==
  ASSUME NEW parent \in DOMAIN out, NEW c, OneMore(parent, c), NEW k \in DOMAIN out \ {1}, k # c,
         OnStack(k)' <=> OnStack(k), SinglePlace, DOMAIN out = 1..Len(out), Len(out) \in Nat
  PROVE  \/ OnStack(k)' /\ NoChild(k)'
         \/ ~OnStack(k)' /\ \E p \in 1..(k - 1) : \E i \in DOMAIN out'[p].kids : OnlyChild(p, i, k)'
<1>1. CASE OnStack(k)
  <2>1. NoChild(k)
    BY <1>1 DEF SinglePlace
  <2>2. NoChild(k)'
    BY <2>1 DEF NoChild, OneMore
  <2> QED
    BY <1>1, <2>2
<1>2. CASE ~OnStack(k)
  <2>1. PICK p \in 1..(k - 1) : \E i \in DOMAIN out[p].kids : OnlyChild(p, i, k)
    BY <1>2 DEF SinglePlace
  <2>2. PICK i \in DOMAIN out[p].kids : OnlyChild(p, i, k)
    BY <2>1
  <2>3. p \in DOMAIN out
    BY <2>1
  <2>4. i \in DOMAIN out'[p].kids /\ OnlyChild(p, i, k)'
    BY <2>2, <2>3 DEF OnlyChild, OneMore
  <2> QED
    BY <1>2, <2>4
<1> QED
  BY <1>1, <1>2

LEMMA PlaceNew ==
  ASSUME NEW parent \in DOMAIN out, NEW c, OneMore(parent, c), parent \in 1..(c - 1), ~OnStack(c)',
         NoChild(c)
  PROVE  \E p \in 1..(c - 1) : \E i \in DOMAIN out'[p].kids : OnlyChild(p, i, c)'
<1>0. PICK last : last = Len(out[parent].kids) + 1
  OBVIOUS
<1>1. last \in DOMAIN out'[parent].kids /\ out'[parent].kids[last] = c
  BY <1>0 DEF OneMore
<1>2. ASSUME NEW q \in DOMAIN out', NEW j \in DOMAIN out'[q].kids, out'[q].kids[j] = c
      PROVE  q = parent /\ j = last
  BY <1>0, <1>2 DEF OneMore, NoChild
<1>3. OnlyChild(parent, last, c)'
  BY <1>1, <1>2 DEF OnlyChild
<1> QED
  BY <1>1, <1>3

LEMMA EmitPlace ==
  ASSUME TypeOK, StackDiscipline, SinglePlace, EmitStep, TypeOK'
  PROVE  SinglePlace'
<1>0. PICK new \in Nat : new = Len(out) + 1
  BY TopFacts
<1>1. PICK node \in Fresh : Emit(node)
  BY DEF EmitStep
<1>2. /\ Len(out') = new /\ out'[new].kids = << >> /\ stack_' = stack_
      /\ \A q \in DOMAIN out : out'[q].kids = IF q = Top THEN Append(out[q].kids, new)
                                              ELSE out[q].kids
  BY <1>0, <1>1, EmitEffect DEF Fresh, Emit
<1>3. /\ DOMAIN out = 1..Len(out) /\ DOMAIN out' = 1..new /\ Len(out) \in Nat \ {0}
      /\ Top \in DOMAIN out /\ Top \in 1..(new - 1)
      /\ \A i \in DOMAIN stack_ : stack_[i] \in 1..Len(out)
  <2>1. /\ DOMAIN out = 1..Len(out) /\ DOMAIN out' = 1..Len(out') /\ Len(out) \in Nat \ {0}
        /\ Top \in DOMAIN out
    BY TopFacts DEF TypeOK
  <2>2. \A i \in DOMAIN stack_ : stack_[i] \in DOMAIN out
    BY DEF TypeOK
  <2> QED
    BY <2>1, <2>2, <1>0, <1>2
<1>4. OneMore(Top, new)
  <2>1. \A q \in DOMAIN out' \ DOMAIN out : q = new
    BY <1>0, <1>3
  <2>2. DOMAIN out \subseteq DOMAIN out' /\ new \in Nat
    BY <1>0, <1>3
  <2> QED
    BY <2>1, <2>2, <1>2, <1>3, AppendIsOneMore
<1>5. NoChild(new) /\ ~OnStack(new)
  BY <1>0, <1>3 DEF NoChild, TypeOK, OnStack
<1>6. \A k : OnStack(k)' <=> OnStack(k)
  BY <1>2 DEF OnStack
<1>7. \A k \in DOMAIN out' : k = new \/ (k \in DOMAIN out /\ k # new)
  BY <1>0, <1>3
<1>8. ASSUME NEW k \in DOMAIN out' \ {1}
      PROVE  \/ OnStack(k)' /\ NoChild(k)'
             \/ ~OnStack(k)' /\ \E p \in 1..(k - 1) : \E i \in DOMAIN out'[p].kids : OnlyChild(p, i, k)'
  <2>1. CASE k = new
    <3>1. ~OnStack(new)'
      BY <1>5, <1>6
    <3>2. \E p \in 1..(new - 1) : \E i \in DOMAIN out'[p].kids : OnlyChild(p, i, new)'
      BY <3>1, <1>3, <1>4, <1>5, PlaceNew
    <3> QED
      BY <2>1, <3>1, <3>2
  <2>2. CASE k \in DOMAIN out /\ k # new
    BY <2>2, <1>3, <1>4, <1>6, PlaceKept
  <2> QED
    BY <2>1, <2>2, <1>7
<1> QED
  BY <1>8 DEF SinglePlace

LEMMA EnterPlace ==
  ASSUME TypeOK, StackDiscipline, SinglePlace, EnterStep, TypeOK'
  PROVE  SinglePlace'
<1>0. PICK new \in Nat : new = Len(out) + 1
  BY TopFacts
<1>1. PICK node \in Fresh : Enter(node)
  BY DEF EnterStep
<1>2. /\ Len(out') = new /\ out'[new].kids = << >> /\ stack_' = Append(stack_, new)
      /\ \A q \in DOMAIN out : out'[q].kids = out[q].kids
  BY <1>0, <1>1, EnterEffect DEF Fresh
<1>3. /\ DOMAIN out = 1..Len(out) /\ DOMAIN out' = 1..new /\ Len(out) \in Nat \ {0}
      /\ stack_ \in Seq(Nat)
      /\ \A i \in DOMAIN stack_ : stack_[i] \in 1..Len(out)
  <2>1. /\ DOMAIN out = 1..Len(out) /\ DOMAIN out' = 1..Len(out') /\ Len(out) \in Nat \ {0}
        /\ stack_ \in Seq(DOMAIN out)
    BY TopFacts DEF TypeOK
  <2>2. stack_ \in Seq(Nat)
    BY <2>1
  <2>3. \A i \in DOMAIN stack_ : stack_[i] \in DOMAIN out
    BY <2>1
  <2> QED
    BY <2>1, <2>2, <2>3, <1>0, <1>2
<1>4. \A k \in DOMAIN out' : k = new \/ (k \in DOMAIN out /\ k # new)
  BY <1>0, <1>3
<1>5. \A k : OnStack(k)' <=> OnStack(k) \/ k = new
  <2>1. /\ DOMAIN stack_ = 1..Len(stack_) /\ DOMAIN stack_' = 1..(Len(stack_) + 1)
        /\ Len(stack_) \in Nat /\ stack_'[Len(stack_) + 1] = new
        /\ \A i \in DOMAIN stack_ : stack_'[i] = stack_[i]
    BY <1>2, <1>3
  <2>2. /\ Len(stack_) + 1 \in DOMAIN stack_'
        /\ \A i \in DOMAIN stack_' : i = Len(stack_) + 1 \/ i \in DOMAIN stack_
        /\ \A i \in DOMAIN stack_ : i \in DOMAIN stack_'
    BY <2>1
  <2> QED
    BY <2>1, <2>2 DEF OnStack
<1>6. ASSUME NEW k \in DOMAIN out' \ {1}
      PROVE  \/ OnStack(k)' /\ NoChild(k)'
             \/ ~OnStack(k)' /\ \E p \in 1..(k - 1) : \E i \in DOMAIN out'[p].kids : OnlyChild(p, i, k)'
  <2>1. CASE k = new
    <3>1. \A q \in DOMAIN out : \A j \in DOMAIN out[q].kids : out[q].kids[j] # new
      BY <1>0, <1>3 DEF TypeOK
    <3>2. NoChild(k)'
      BY <2>1, <3>1, <1>2, <1>4 DEF NoChild
    <3> QED
      BY <2>1, <3>2, <1>5
  <2>2. CASE k \in DOMAIN out /\ k # new
    <3>1. NoChild(k) => NoChild(k)'
      <4>1. \A q \in DOMAIN out' : out'[q].kids = << >> \/ (q \in DOMAIN out /\ out'[q].kids = out[q].kids)
        BY <1>2, <1>4
      <4> QED
        BY <4>1 DEF NoChild
    <3>2. \A p \in DOMAIN out : \A i \in DOMAIN out[p].kids : OnlyChild(p, i, k) => OnlyChild(p, i, k)'
      BY <1>2, <1>4 DEF OnlyChild
    <3>3. \A p \in 1..(k - 1) : p \in DOMAIN out /\ DOMAIN out'[p].kids = DOMAIN out[p].kids
      BY <2>2, <1>2, <1>3
    <3>4. OnStack(k)' <=> OnStack(k)
      BY <2>2, <1>5
    <3> QED
      BY <2>2, <3>1, <3>2, <3>3, <3>4 DEF SinglePlace
  <2> QED
    BY <2>1, <2>2, <1>4
<1> QED
  BY <1>6 DEF SinglePlace

LEMMA ReturnPlace ==
  ASSUME TypeOK, StackDiscipline, SinglePlace, Return, TypeOK'
  PROVE  SinglePlace'
<1>1. CASE Here.own = 0
  <2>1. UNCHANGED <<out, stack_>>
    BY <1>1 DEF Return
  <2> QED
    BY <2>1 DEF SinglePlace, NoChild, OnlyChild, OnStack
<1>2. CASE Here.own # 0
  <2>0. PICK c \in DOMAIN out, n \in Nat, parent \in DOMAIN out :
           c = Top /\ n = Len(stack_) /\ n > 1 /\ parent = stack_[n - 1] /\ parent < c
    <3>1. Top \in DOMAIN out /\ Len(stack_) \in Nat /\ Len(stack_) > 1
      BY <1>2, TopFacts, ReturnEffect
    <3>2. stack_[Len(stack_) - 1] \in DOMAIN out
      BY <3>1 DEF TypeOK
    <3> QED
      BY <1>2, <3>1, <3>2, ReturnEffect
  <2>1. /\ Len(stack_') = n - 1 /\ stack_' \in Seq(DOMAIN out)
        /\ \A i \in 1..(n - 1) : stack_'[i] = stack_[i]
        /\ Len(out') = Len(out)
        /\ \A q \in DOMAIN out : out'[q].kids = IF q = parent THEN Append(out[q].kids, c)
                                                ELSE out[q].kids
    BY <1>2, <2>0, ReturnEffect
  <2>2. /\ DOMAIN out' = DOMAIN out /\ DOMAIN out = 1..Len(out) /\ Len(out) \in Nat
        /\ c \in Nat \ {0, 1} /\ parent \in 1..(c - 1)
    <3>1. DOMAIN out' = DOMAIN out /\ DOMAIN out = 1..Len(out) /\ Len(out) \in Nat
      BY <2>1 DEF TypeOK
    <3>2. c \in 1..Len(out) /\ parent \in 1..Len(out) /\ parent < c
      BY <2>0, <3>1
    <3> QED
      BY <3>1, <3>2
  <2>3. OneMore(parent, c)
    BY <2>1, <2>2, AppendIsOneMore
  <2>4. /\ DOMAIN stack_ = 1..n /\ DOMAIN stack_' = 1..(n - 1) /\ stack_[n] = c
        /\ \A i \in 1..(n - 1) : stack_[i] # c
    <3>1. DOMAIN stack_ = 1..n /\ DOMAIN stack_' = 1..(n - 1) /\ stack_[n] = c
      BY <2>0, <2>1 DEF TypeOK, Top
    <3>2. ASSUME NEW i \in 1..(n - 1) PROVE stack_[i] # c
      <4>1. i \in DOMAIN stack_ /\ n \in DOMAIN stack_ /\ i < n /\ stack_[i] \in Nat
        BY <3>1, <2>0, TopFacts
      <4>2. stack_[i] < c
        BY <4>1, <3>1 DEF StackDiscipline
      <4> QED
        BY <4>1, <4>2
    <3> QED
      BY <3>1, <3>2
  <2>5. \A k : OnStack(k)' <=> OnStack(k) /\ k # c
    <3>1. \A i \in 1..n : i = n \/ i \in 1..(n - 1)
      BY <2>0
    <3>2. \A i \in 1..(n - 1) : i \in 1..n
      BY <2>0
    <3> QED
      BY <2>1, <2>4, <3>1, <3>2 DEF OnStack
  <2>6. OnStack(c)
    BY <2>0, <2>4 DEF OnStack
  <2>7. ASSUME NEW k \in DOMAIN out' \ {1}
        PROVE  \/ OnStack(k)' /\ NoChild(k)'
               \/ ~OnStack(k)' /\ \E p \in 1..(k - 1) : \E i \in DOMAIN out'[p].kids : OnlyChild(p, i, k)'
    <3>1. CASE k = c
      <4>1. NoChild(c)
        BY <2>2, <2>6 DEF SinglePlace
      <4>2. ~OnStack(c)'
        BY <2>5
      <4>3. \E p \in 1..(c - 1) : \E i \in DOMAIN out'[p].kids : OnlyChild(p, i, c)'
        BY <4>1, <4>2, <2>2, <2>3, PlaceNew
      <4> QED
        BY <3>1, <4>2, <4>3
    <3>2. CASE k # c
      BY <3>2, <2>2, <2>3, <2>5, PlaceKept
    <3> QED
      BY <3>1, <3>2
  <2> QED
    BY <2>7 DEF SinglePlace
<1> QED
  BY <1>1, <1>2

LEMMA NextPlace ==
  ASSUME Rooted, TypeOK, StackDiscipline, SinglePlace, [Next]_vars
  PROVE  SinglePlace'
<1>1. TypeOK'
  BY NextStack
<1>2. CASE BlockStep \/ SkipStep \/ CrashStep \/ UNCHANGED vars
  <2>1. UNCHANGED <<out, stack_>>
    BY <1>2 DEF BlockStep, SkipStep, Skip, CrashStep, Crash, vars
  <2> QED
    BY <2>1 DEF SinglePlace, NoChild, OnlyChild, OnStack
<1> QED
  BY <1>1, <1>2, StepKinds, EmitPlace, EnterPlace, ReturnPlace

LEMMA InitPlace == Init => SinglePlace
<1> SUFFICES ASSUME Init PROVE SinglePlace
  OBVIOUS
<1>1. DOMAIN out = {1}
  BY DEF Init
<1> QED
  BY <1>1 DEF SinglePlace

\* Every projected node has one owner in every run: the tree is a tree, nothing
\* the visitor allocated is lost and nothing would be freed twice.
THEOREM OneOwner == Spec => []SinglePlace
<1>1. /\ Rooted /\ TypeOK /\ StackDiscipline /\ SinglePlace /\ [Next]_vars
      => (Rooted /\ TypeOK /\ StackDiscipline /\ SinglePlace)'
  BY NextStack, NextPlace
<1> QED
  BY <1>1, InitStack, InitPlace, PTL DEF Spec

-----------------------------------------------------------------------------
\* The two halves of SiblingOrder.
KidsRise ==
  \A p \in DOMAIN out : \A i, j \in DOMAIN out[p].kids : i < j => out[p].kids[i] < out[p].kids[j]
KidsBelow ==
  \A s \in DOMAIN stack_ : \A i \in DOMAIN out[stack_[s]].kids :
    s < Len(stack_) => out[stack_[s]].kids[i] < stack_[s + 1]

LEMMA OrderParts == SiblingOrder <=> KidsRise /\ KidsBelow
BY DEF SiblingOrder, KidsRise, KidsBelow

\* A list that rises goes on rising when something larger is put at its end.
LEMMA AppendRises ==
  ASSUME NEW s \in Seq(Nat), NEW c \in Nat, \A i \in DOMAIN s : s[i] < c,
         \A i, j \in DOMAIN s : i < j => s[i] < s[j]
  PROVE  \A i, j \in DOMAIN Append(s, c) : i < j => Append(s, c)[i] < Append(s, c)[j]
<1> DEFINE t == Append(s, c)
<1>1. /\ DOMAIN s = 1..Len(s) /\ DOMAIN t = 1..(Len(s) + 1) /\ Len(s) \in Nat
      /\ t[Len(s) + 1] = c /\ \A i \in DOMAIN s : t[i] = s[i]
  OBVIOUS
<1> HIDE DEF t
<1>2. ASSUME NEW i \in DOMAIN t, NEW j \in DOMAIN t, i < j PROVE t[i] < t[j]
  <2>1. i \in DOMAIN s /\ t[i] = s[i]
    BY <1>1, <1>2
  <2>2. CASE j = Len(s) + 1
    BY <2>1, <2>2, <1>1
  <2>3. CASE j \in DOMAIN s
    BY <2>1, <2>3, <1>1, <1>2
  <2> QED
    BY <2>2, <2>3, <1>1
<1> QED
  BY <1>2 DEF t

\* A child that is younger than those its parent has keeps all lists rising.
LEMMA RiseKept ==
  ASSUME TypeOK, KidsRise, NEW parent \in DOMAIN out, NEW c \in Nat,
         \A i \in DOMAIN out[parent].kids : out[parent].kids[i] < c,
         \A q \in DOMAIN out' \ DOMAIN out : out'[q].kids = << >>,
         \A q \in DOMAIN out : out'[q].kids = IF q = parent THEN Append(out[q].kids, c)
                                              ELSE out[q].kids
  PROVE  KidsRise'
<1>1. ASSUME NEW p \in DOMAIN out', NEW i \in DOMAIN out'[p].kids, NEW j \in DOMAIN out'[p].kids, i < j
      PROVE  out'[p].kids[i] < out'[p].kids[j]
  <2>1. CASE p \notin DOMAIN out
    BY <2>1, <1>1
  <2>2. CASE p \in DOMAIN out /\ p # parent
    BY <2>2, <1>1 DEF KidsRise
  <2>3. CASE p = parent
    <3>1. out[parent].kids \in Seq(Nat) /\ out'[parent].kids = Append(out[parent].kids, c)
      BY KidsTyped
    <3>2. \A k, l \in DOMAIN out[parent].kids : k < l => out[parent].kids[k] < out[parent].kids[l]
      BY DEF KidsRise
    <3> QED
      BY <2>3, <3>1, <3>2, <1>1, AppendRises
  <2> QED
    BY <2>1, <2>2, <2>3
<1> QED
  BY <1>1 DEF KidsRise

\* A leaf is the youngest node and goes to the top, so that no list but the last grows.
LEMMA EmitOrder ==
  ASSUME TypeOK, StackDiscipline, SiblingOrder, EmitStep
  PROVE  SiblingOrder'
<1>0. PICK new \in Nat : new = Len(out) + 1
  BY TopFacts
<1>1. PICK node \in Fresh : Emit(node)
  BY DEF EmitStep
<1>2. /\ Len(out') = new /\ out' \in Seq(OutNode) /\ out'[new].kids = << >> /\ stack_' = stack_
      /\ \A q \in DOMAIN out : out'[q].kids = IF q = Top THEN Append(out[q].kids, new)
                                              ELSE out[q].kids
  BY <1>0, <1>1, EmitEffect DEF Fresh, Emit, OutOK
<1>3. /\ DOMAIN out = 1..Len(out) /\ DOMAIN out' = 1..new /\ Len(out) \in Nat \ {0}
      /\ Top \in DOMAIN out
  BY <1>0, <1>2, TopFacts DEF TypeOK
<1>4. \A i \in DOMAIN out[Top].kids : out[Top].kids[i] < new
  BY <1>0, <1>3 DEF TypeOK
<1>5. KidsRise'
  <2>1. \A q \in DOMAIN out' \ DOMAIN out : out'[q].kids = << >>
    BY <1>0, <1>2, <1>3
  <2> QED
    BY <2>1, <1>2, <1>3, <1>4, RiseKept, OrderParts
<1>6. ASSUME NEW s \in DOMAIN stack_, s < Len(stack_)
      PROVE  stack_[s] \in DOMAIN out /\ out'[stack_[s]].kids = out[stack_[s]].kids
  <2>1. stack_[s] \in 1..Len(out) /\ Len(stack_) \in DOMAIN stack_
    BY TopFacts
  <2>2. stack_[s] < Top
    BY <1>6, <2>1 DEF StackDiscipline, Top
  <2> QED
    BY <2>1, <2>2, <1>2, <1>3
<1>7. KidsBelow'
  BY <1>2, <1>6, OrderParts DEF KidsBelow
<1> QED
  BY <1>5, <1>7 DEF SiblingOrder, KidsRise, KidsBelow

\* A block is the youngest node and has no children; it goes above those that have.
LEMMA EnterOrder ==
  ASSUME TypeOK, StackDiscipline, SiblingOrder, EnterStep
  PROVE  SiblingOrder'
<1>0. PICK new \in Nat : new = Len(out) + 1
  BY TopFacts
<1>1. PICK node \in Fresh : Enter(node)
  BY DEF EnterStep
<1>2. /\ Len(out') = new /\ out' \in Seq(OutNode) /\ out'[new].kids = << >>
      /\ stack_' = Append(stack_, new)
      /\ \A q \in DOMAIN out : out'[q].kids = out[q].kids
  BY <1>0, <1>1, EnterEffect DEF Fresh, OutOK
<1>3. /\ DOMAIN out = 1..Len(out) /\ DOMAIN out' = 1..new /\ Len(out) \in Nat \ {0}
      /\ stack_ \in Seq(Nat) /\ \A i \in DOMAIN stack_ : stack_[i] \in DOMAIN out
  BY <1>0, <1>2, TopFacts DEF TypeOK
<1>4. KidsRise'
  <2>1. \A p \in DOMAIN out' : out'[p].kids = << >> \/ (p \in DOMAIN out /\ out'[p].kids = out[p].kids)
    BY <1>0, <1>2, <1>3
  <2> QED
    BY <2>1, OrderParts DEF KidsRise
<1>5. PICK n \in Nat : /\ n = Len(stack_) /\ DOMAIN stack_ = 1..n /\ DOMAIN stack_' = 1..(n + 1)
                       /\ Len(stack_') = n + 1 /\ stack_'[n + 1] = new
                       /\ \A i \in 1..n : stack_'[i] = stack_[i]
  BY <1>2, <1>3
<1>6. ASSUME NEW s \in DOMAIN stack_', NEW i \in DOMAIN out'[stack_'[s]].kids, s < Len(stack_')
      PROVE  out'[stack_'[s]].kids[i] < stack_'[s + 1]
  <2>1. /\ s \in 1..n /\ stack_'[s] = stack_[s] /\ stack_[s] \in DOMAIN out
        /\ out'[stack_'[s]].kids = out[stack_[s]].kids
    BY <1>2, <1>3, <1>5, <1>6
  <2>2. CASE s = n
    <3>1. out[stack_[s]].kids[i] \in 1..Len(out)
      BY <2>1, <1>3, <1>6 DEF TypeOK
    <3> QED
      BY <3>1, <2>1, <2>2, <1>0, <1>3, <1>5
  <2>3. CASE s # n
    <3>1. s + 1 \in 1..n /\ s < Len(stack_) /\ stack_'[s + 1] = stack_[s + 1]
      BY <2>1, <2>3, <1>5
    <3> QED
      BY <3>1, <2>1, <1>5, <1>6, OrderParts DEF KidsBelow
  <2> QED
    BY <2>2, <2>3
<1> QED
  BY <1>4, <1>6 DEF SiblingOrder, KidsRise

\* A finished block is younger than the children its parent has, which came before it.
LEMMA ReturnOrder ==
  ASSUME TypeOK, StackDiscipline, SiblingOrder, Return
  PROVE  SiblingOrder'
<1>1. CASE Here.own = 0
  <2>1. UNCHANGED <<out, stack_>>
    BY <1>1 DEF Return
  <2> QED
    BY <2>1 DEF SiblingOrder
<1>2. CASE Here.own # 0
  <2>0. PICK c \in DOMAIN out, n \in Nat, parent \in DOMAIN out :
           c = Top /\ n = Len(stack_) /\ n > 1 /\ parent = stack_[n - 1] /\ parent < c
    <3>1. Top \in DOMAIN out /\ Len(stack_) \in Nat /\ Len(stack_) > 1
      BY <1>2, TopFacts, ReturnEffect
    <3>2. stack_[Len(stack_) - 1] \in DOMAIN out
      BY <3>1 DEF TypeOK
    <3> QED
      BY <1>2, <3>1, <3>2, ReturnEffect
  <2>1. /\ Len(stack_') = n - 1 /\ stack_' \in Seq(DOMAIN out)
        /\ \A i \in 1..(n - 1) : stack_'[i] = stack_[i]
        /\ Len(out') = Len(out) /\ out' \in Seq(OutNode)
        /\ \A q \in DOMAIN out : out'[q].kids = IF q = parent THEN Append(out[q].kids, c)
                                                ELSE out[q].kids
    BY <1>2, <2>0, ReturnEffect DEF OutOK
  <2>2. /\ DOMAIN out' = DOMAIN out /\ c \in Nat
        /\ DOMAIN stack_ = 1..n /\ DOMAIN stack_' = 1..(n - 1) /\ stack_[n] = c
        /\ \A i \in 1..n : stack_[i] \in DOMAIN out
    <3>1. DOMAIN out = 1..Len(out) /\ DOMAIN out' = 1..Len(out') /\ Len(out) \in Nat
      BY <2>1 DEF TypeOK
    <3>2. DOMAIN stack_ = 1..n /\ \A i \in 1..n : stack_[i] \in DOMAIN out
      BY <2>0 DEF TypeOK
    <3>3. DOMAIN stack_' = 1..(n - 1)
      BY <2>1
    <3> QED
      BY <3>1, <3>2, <3>3, <2>0, <2>1 DEF Top
  <2>3. \A i \in DOMAIN out[parent].kids : out[parent].kids[i] < c
    <3>1. n - 1 \in DOMAIN stack_ /\ n - 1 < Len(stack_) /\ (n - 1) + 1 = n
      BY <2>0, <2>2
    <3> QED
      BY <3>1, <2>0, <2>2, OrderParts DEF KidsBelow
  <2>4. KidsRise'
    BY <2>1, <2>2, <2>3, RiseKept, OrderParts
  <2>5. ASSUME NEW s \in DOMAIN stack_', NEW i \in DOMAIN out'[stack_'[s]].kids, s < Len(stack_')
        PROVE  out'[stack_'[s]].kids[i] < stack_'[s + 1]
    <3>1. /\ s \in 1..n /\ s < n - 1 /\ s + 1 \in 1..(n - 1) /\ n - 1 \in 1..n /\ s \in 1..(n - 1)
      BY <2>0, <2>1, <2>2, <2>5
    <3>2. stack_[s] # parent
      <4>1. stack_[s] < stack_[n - 1]
        BY <3>1, <2>2 DEF StackDiscipline
      <4>2. stack_[s] \in Nat /\ stack_[n - 1] \in Nat
        <5>1. DOMAIN out \subseteq Nat
          BY DEF TypeOK
        <5> QED
          BY <5>1, <3>1, <2>2
      <4> QED
        BY <4>1, <4>2, <2>0
    <3>3. /\ stack_'[s] = stack_[s] /\ stack_'[s + 1] = stack_[s + 1]
          /\ out'[stack_'[s]].kids = out[stack_[s]].kids
      BY <3>1, <3>2, <2>1, <2>2
    <3>4. s \in DOMAIN stack_ /\ s < Len(stack_)
      BY <3>1, <2>0, <2>2
    <3> QED
      BY <3>3, <3>4, <2>5, OrderParts DEF KidsBelow
  <2> QED
    BY <2>4, <2>5 DEF SiblingOrder, KidsRise
<1> QED
  BY <1>1, <1>2

LEMMA NextOrder ==
  ASSUME Rooted, TypeOK, StackDiscipline, SiblingOrder, [Next]_vars
  PROVE  SiblingOrder'
<1>1. CASE BlockStep \/ SkipStep \/ CrashStep \/ UNCHANGED vars
  <2>1. UNCHANGED <<out, stack_>>
    BY <1>1 DEF BlockStep, SkipStep, Skip, CrashStep, Crash, vars
  <2> QED
    BY <2>1 DEF SiblingOrder
<1> QED
  BY <1>1, StepKinds, EmitOrder, EnterOrder, ReturnOrder

LEMMA InitOrder == Init => SiblingOrder
<1> SUFFICES ASSUME Init PROVE SiblingOrder
  OBVIOUS
<1>1. DOMAIN out = {1} /\ out[1].kids = << >> /\ stack_ = <<1>>
  BY DEF Init, NewNode
<1> QED
  BY <1>1 DEF SiblingOrder

\* In every run the children of a node stand in the order in which they were allocated,
\* and nothing below a block under construction is younger than the block above it on
\* the stack: leaves, which are appended at once, and blocks, which are appended when
\* they are finished, do not change places.
THEOREM InOrder == Spec => []SiblingOrder
<1>1. /\ Rooted /\ TypeOK /\ StackDiscipline /\ SiblingOrder /\ [Next]_vars
      => (Rooted /\ TypeOK /\ StackDiscipline /\ SiblingOrder)'
  BY NextStack, NextOrder
<1> QED
  BY <1>1, InitStack, InitOrder, PTL DEF Spec

-----------------------------------------------------------------------------
\* What AppendOnly says of one node in one step.
OnlyGrows(k) ==
  /\ k \in DOMAIN out'
  /\ [out'[k] EXCEPT !.kids = << >>] = [out[k] EXCEPT !.kids = << >>]
  /\ \/ out'[k].kids = out[k].kids
     \/ OnStack(k) /\ \E c \in DOMAIN out' : out'[k].kids = Append(out[k].kids, c)

\* The leaf is appended to the block on top of the stack.
LEMMA EmitGrows ==
  ASSUME TypeOK, StackDiscipline, EmitStep, NEW k \in DOMAIN out
  PROVE  OnlyGrows(k)
<1>1. PICK node \in Fresh : Emit(node)
  BY DEF EmitStep
<1>2. /\ Len(out') = Len(out) + 1 /\ out' \in Seq(OutNode)
      /\ out'[k] = [out[k] EXCEPT !.kids = out'[k].kids]
      /\ out'[k].kids = IF k = Top THEN Append(out[k].kids, Len(out) + 1) ELSE out[k].kids
  BY <1>1, EmitEffect DEF OutOK
<1>3. Len(out) + 1 \in DOMAIN out' /\ k \in DOMAIN out'
  BY <1>2, TopFacts DEF TypeOK
<1>4. k = Top => OnStack(k)
  BY TopFacts DEF OnStack, Top
<1>5. [out'[k] EXCEPT !.kids = << >>] = [out[k] EXCEPT !.kids = << >>]
  BY <1>2, ClassKept
<1> QED
  BY <1>2, <1>3, <1>4, <1>5 DEF OnlyGrows

\* A block is allocated and put on the stack; no list changes.
LEMMA EnterGrows ==
  ASSUME TypeOK, StackDiscipline, EnterStep, NEW k \in DOMAIN out
  PROVE  OnlyGrows(k)
<1>1. PICK node \in Fresh : Enter(node)
  BY DEF EnterStep
<1>2. Len(out') = Len(out) + 1 /\ out' \in Seq(OutNode) /\ out'[k] = out[k]
  BY <1>1, EnterEffect DEF OutOK
<1>3. k \in DOMAIN out'
  BY <1>2, TopFacts DEF TypeOK
<1> QED
  BY <1>2, <1>3 DEF OnlyGrows

\* The finished block is appended to the one below it, which is still on the stack.
LEMMA ReturnGrows ==
  ASSUME TypeOK, StackDiscipline, Return, NEW k \in DOMAIN out
  PROVE  OnlyGrows(k)
<1>1. CASE Here.own = 0
  BY <1>1 DEF Return, OnlyGrows
<1>2. CASE Here.own # 0
  <2>1. PICK n \in Nat : n = Len(stack_) /\ n > 1
    BY <1>2, TopFacts, ReturnEffect
  <2>2. /\ Len(out') = Len(out) /\ out' \in Seq(OutNode)
        /\ out'[k] = [out[k] EXCEPT !.kids = out'[k].kids]
        /\ out'[k].kids = IF k = stack_[n - 1] THEN Append(out[k].kids, Top) ELSE out[k].kids
    BY <1>2, <2>1, ReturnEffect DEF OutOK
  <2>3. k \in DOMAIN out' /\ Top \in DOMAIN out'
    <3>1. DOMAIN out = 1..Len(out) /\ DOMAIN out' = 1..Len(out')
      BY <2>2 DEF TypeOK
    <3> QED
      BY <3>1, <2>2, TopFacts
  <2>4. k = stack_[n - 1] => OnStack(k)
    <3>1. DOMAIN stack_ = 1..n
      BY <2>1 DEF TypeOK
    <3>2. n - 1 \in DOMAIN stack_
      BY <2>1, <3>1
    <3> QED
      BY <3>2 DEF OnStack
  <2>5. [out'[k] EXCEPT !.kids = << >>] = [out[k] EXCEPT !.kids = << >>]
    BY <2>2, ClassKept
  <2> QED
    BY <2>2, <2>3, <2>4, <2>5 DEF OnlyGrows
<1> QED
  BY <1>1, <1>2

LEMMA NextGrows ==
  ASSUME Rooted, TypeOK, StackDiscipline, Next, NEW k \in DOMAIN out
  PROVE  OnlyGrows(k)
<1>1. CASE BlockStep \/ SkipStep \/ CrashStep
  BY <1>1 DEF BlockStep, SkipStep, Skip, CrashStep, Crash, OnlyGrows
<1> QED
  BY <1>1, StepKinds, EmitGrows, EnterGrows, ReturnGrows

\* No step frees or rewrites a node or drops or moves a child, and only a block that is
\* on the visitor's stack gets one: what a visit method has built is never touched by
\* the methods called after it.
THEOREM OnlyAppends == Spec => AppendOnly
<1>1. /\ Rooted /\ TypeOK /\ StackDiscipline /\ [Next]_vars
      => (Rooted /\ TypeOK /\ StackDiscipline)'
  BY NextStack
<1>2. /\ Rooted /\ TypeOK /\ StackDiscipline /\ [Next]_vars
      => [\A k \in DOMAIN out : OnlyGrows(k)]_vars
  BY NextGrows
<1>3. (\A k \in DOMAIN out : OnlyGrows(k)) <=>
      \A k \in DOMAIN out :
         /\ k \in DOMAIN out'
         /\ [out'[k] EXCEPT !.kids = << >>] = [out[k] EXCEPT !.kids = << >>]
         /\ \/ out'[k].kids = out[k].kids
            \/ OnStack(k) /\ \E c \in DOMAIN out' : out'[k].kids = Append(out[k].kids, c)
  BY DEF OnlyGrows
<1> QED
  BY <1>1, <1>2, <1>3, InitStack, PTL DEF Spec, AppendOnly
-----------------------------------------------------------------------------
\* The children that the i-th frame has still to visit, and all children of n.
Due(i)    == {Kids(frames[i].node)[j] : j \in frames[i].idx..Len(Kids(frames[i].node))}
KidSet(n) == {Kids(n)[i] : i \in DOMAIN Kids(n)}

\* Inner frames come first; what is due comes after the nodes of all frames; and
\* a child of a visited node is visited or due.
InnerFirst  == \A i, k \in DOMAIN frames : i < k =>
                 \A a \in Due(i), b \in Due(k) : b < a
AfterNodes  == \A i, k \in DOMAIN frames : \A b \in Due(k) : frames[i].node < b
NoneSkipped == \A p \in 0..Len(global) : \A c \in KidSet(p) :
                 p = Client \/ Visited(p) => Visited(c) \/ c \in Pending
Frontier    == InnerFirst /\ AfterNodes /\ NoneSkipped

LEMMA PendingIsDue == Pending = UNION {Due(i) : i \in DOMAIN frames}
BY DEF Pending, Due

\* Children are younger than their parent and in increasing order.
LEMMA ChildFacts ==
  ASSUME Rooted, NEW n \in 0..Len(global)
  PROVE  /\ Len(global) \in Nat \ {0} /\ DOMAIN global = 1..Len(global)
         /\ Len(Kids(n)) \in Nat /\ DOMAIN Kids(n) = 1..Len(Kids(n))
         /\ \A i \in DOMAIN Kids(n) : Kids(n)[i] \in 1..Len(global) /\ n < Kids(n)[i]
         /\ \A i, j \in DOMAIN Kids(n) : i < j => Kids(n)[i] < Kids(n)[j]
<1>1. /\ Len(global) \in Nat \ {0} /\ DOMAIN global = 1..Len(global) /\ PreOrderTree(global)
  BY TreeFacts
<1>2. Kids(n) \in Seq(Nat) /\ \A i \in 1..Len(Kids(n)) : Kids(n)[i] \in 1..Len(global)
  BY KidsInTree
<1>3. Len(Kids(n)) \in Nat /\ DOMAIN Kids(n) = 1..Len(Kids(n))
  BY <1>2
<1>4. CASE n = Client
  <2>1. Kids(n) = <<1>>
    BY <1>4 DEF Kids
  <2> QED
    BY <2>1, <1>1, <1>2, <1>3, <1>4 DEF Client
<1>5. CASE n # Client
  <2>1. n \in DOMAIN global /\ Kids(n) = global[n].kids
    BY <1>1, <1>5 DEF Kids, Client
  <2>2. \A i \in DOMAIN Kids(n) : /\ Kids(n)[i] \in (n + 1)..Len(global)
                                  /\ \A j \in 1..(i - 1) : Kids(n)[j] < Kids(n)[i]
    BY <2>1, <1>1 DEF PreOrderTree
  <2>3. ASSUME NEW i \in DOMAIN Kids(n), NEW j \in DOMAIN Kids(n), i < j
        PROVE  Kids(n)[i] < Kids(n)[j]
    <3>1. i \in 1..(j - 1)
      BY <2>3, <1>3
    <3> QED
      BY <3>1, <2>2
  <2> QED
    BY <1>1, <1>2, <1>3, <2>2, <2>3
<1> QED
  BY <1>4, <1>5

\* What stands between a node and a later child of it has its children there.
LEMMA BelowEarlier ==
  ASSUME Rooted, NEW p \in 0..Len(global), NEW q \in 1..Len(global),
         NEW m \in KidSet(p), NEW c \in KidSet(q), p < q, q < m
  PROVE  c < m
<1>1. PICK i \in DOMAIN Kids(p) : m = Kids(p)[i]
  BY DEF KidSet
<1>2. PICK j \in DOMAIN Kids(q) : c = Kids(q)[j]
  BY DEF KidSet
<1>3. q \in 0..Len(global) /\ p \in Nat /\ q \in Nat /\ Len(global) \in Nat
  BY ChildFacts
<1>4. m \in Nat /\ c \in Nat /\ q < c
  BY <1>1, <1>2, <1>3, ChildFacts
<1>5. p # Client
  <2>1. p = Client => m = 1
    BY <1>1 DEF Kids
  <2> QED
    BY <2>1, <1>3
<1>6. /\ p \in DOMAIN global /\ q \in DOMAIN global /\ q # Client
      /\ Kids(p) = global[p].kids /\ Kids(q) = global[q].kids
  BY <1>5, <1>3, ChildFacts DEF Kids, Client
<1>7. PreOrderTree(global)
  BY TreeFacts
<1>8. m # c
  <2>1. /\ i \in DOMAIN global[p].kids /\ m = global[p].kids[i]
        /\ j \in DOMAIN global[q].kids /\ c = global[q].kids[j]
    BY <1>1, <1>2, <1>6
  <2>2. \A a, b \in DOMAIN global : \A k \in DOMAIN global[a].kids, l \in DOMAIN global[b].kids :
           global[a].kids[k] = global[b].kids[l] => a = b
    BY <1>7 DEF PreOrderTree
  <2> QED
    BY <2>1, <2>2, <1>3, <1>6
<1>9. ~(m < c)
  <2> SUFFICES ASSUME m < c PROVE FALSE
    OBVIOUS
  <2>1. q <= p
    BY <1>1, <1>2, <1>6, <1>7 DEF PreOrderTree
  <2> QED
    BY <2>1, <1>3
<1> QED
  BY <1>4, <1>8, <1>9

\* Every node has a parent before it; that of the root is the client.
LEMMA HasParent ==
  ASSUME Rooted, NEW n \in 1..Len(global)
  PROVE  \E p \in 0..(n - 1) : n \in KidSet(p)
<1>1. Len(global) \in Nat \ {0} /\ DOMAIN global = 1..Len(global) /\ n \in Nat
  BY TreeFacts
<1>2. CASE n = 1
  <2>1. Kids(Client) = <<1>>
    BY DEF Kids
  <2>2. 1 \in KidSet(0)
    BY <2>1 DEF KidSet, Client
  <2> QED
    BY <1>2, <2>2
<1>3. CASE n # 1
  <2>1. n \in 2..Len(global)
    BY <1>1, <1>3
  <2>a. PICK p \in DOMAIN global : \E i \in DOMAIN global[p].kids : global[p].kids[i] = n
    BY <2>1, TreeFacts DEF PreOrderTree
  <2>2. PICK i \in DOMAIN global[p].kids : global[p].kids[i] = n
    BY <2>a
  <2>3. Kids(p) = global[p].kids /\ p \in 0..Len(global)
    BY <2>2, <1>1 DEF Kids, Client
  <2>4. n \in KidSet(p)
    BY <2>2, <2>3 DEF KidSet
  <2>5. p < n
    BY <2>2, <2>3, ChildFacts
  <2> QED
    BY <2>3, <2>4, <2>5, <1>1
<1> QED
  BY <1>2, <1>3

\* What is due is a child of its frame's node and a node of the tree.
LEMMA DueFacts ==
  ASSUME Rooted, TypeOK, NEW i \in DOMAIN frames
  PROVE  /\ frames[i].node \in 0..Len(global) /\ Due(i) \subseteq KidSet(frames[i].node)
         /\ Due(i) \subseteq 1..Len(global)
<1> DEFINE n == frames[i].node
<1>1. n \in 0..Len(global) /\ frames[i].idx \in 1..(Len(Kids(n)) + 1)
  BY DEF TypeOK
<1>2. /\ Len(Kids(n)) \in Nat /\ DOMAIN Kids(n) = 1..Len(Kids(n))
      /\ \A j \in DOMAIN Kids(n) : Kids(n)[j] \in 1..Len(global)
  BY <1>1, ChildFacts
<1>3. \A j \in frames[i].idx..Len(Kids(n)) : j \in DOMAIN Kids(n)
  BY <1>1, <1>2
<1> QED
  BY <1>1, <1>2, <1>3 DEF Due, KidSet

-----------------------------------------------------------------------------
\* A call on Arg: the caller's loop moves on and, where Arg has children, a frame
\* for them is opened.
Opens(own) == frames' = Append(Advanced, [node |-> Arg, idx |-> 1, own |-> own])
Called     == /\ Calling /\ UNCHANGED global
              /\ \/ frames' = Advanced /\ Kids(Arg) = << >>
                 \/ \E own \in Nat : Opens(own)

\* The statement that is called is the first of those that are due in the frame
\* on top; the call takes it away and puts its children in a frame above.
LEMMA CallDue ==
  ASSUME Rooted, TypeOK, Called
  PROVE  /\ Arg \in Due(Len(frames)) /\ \A m \in Due(Len(frames)) : m = Arg \/ Arg < m
         /\ DOMAIN frames \subseteq DOMAIN frames'
         /\ \A i \in DOMAIN frames :
              /\ frames'[i].node = frames[i].node
              /\ Due(i)' = IF i = Len(frames) THEN Due(i) \ {Arg} ELSE Due(i)
         /\ \A i \in DOMAIN frames' \ DOMAIN frames :
              i = Len(frames) + 1 /\ frames'[i].node = Arg /\ Due(i)' = KidSet(Arg)
         /\ KidSet(Arg) = {} \/ Len(frames) + 1 \in DOMAIN frames'
<1>0. PICK L \in Nat, n \in 0..Len(global), x \in Nat :
         L = Len(frames) /\ n = Here.node /\ x = Here.idx
  BY HereFacts, ChildFacts
<1>1. /\ L \in Nat \ {0} /\ DOMAIN frames = 1..L /\ L \in DOMAIN frames
      /\ n \in 0..Len(global) /\ x \in 1..Len(Kids(n)) /\ Arg = Kids(n)[x]
      /\ frames[L].node = n /\ frames[L].idx = x
  BY <1>0, HereFacts DEF TypeOK, Called, Calling, Here, Arg
<1>2. /\ Len(Kids(n)) \in Nat /\ DOMAIN Kids(n) = 1..Len(Kids(n))
      /\ \A i \in DOMAIN Kids(n) : Kids(n)[i] \in 1..Len(global)
      /\ \A i, j \in DOMAIN Kids(n) : i < j => Kids(n)[i] < Kids(n)[j]
      /\ Len(global) \in Nat
  BY <1>1, ChildFacts
<1>3. Due(L) = {Kids(n)[j] : j \in x..Len(Kids(n))}
  BY <1>1 DEF Due
<1>4. Arg \in Due(L) /\ \A m \in Due(L) : m = Arg \/ Arg < m
  <2>1. \A j \in x..Len(Kids(n)) : j = x \/ (j \in DOMAIN Kids(n) /\ x \in DOMAIN Kids(n) /\ x < j)
    BY <1>1, <1>2
  <2> QED
    BY <2>1, <1>1, <1>2, <1>3
<1>5. {Kids(n)[j] : j \in (x + 1)..Len(Kids(n))} = Due(L) \ {Arg}
  <2>1. \A j \in x..Len(Kids(n)) : j \in (x + 1)..Len(Kids(n)) \/ Kids(n)[j] = Arg
    BY <1>1, <1>2
  <2>2. \A j \in (x + 1)..Len(Kids(n)) : j \in x..Len(Kids(n)) /\ Kids(n)[j] # Arg
    <3> TAKE j \in (x + 1)..Len(Kids(n))
    <3>1. /\ j \in x..Len(Kids(n)) /\ x < j /\ j \in DOMAIN Kids(n) /\ x \in DOMAIN Kids(n)
      BY <1>1, <1>2
    <3>2. Arg < Kids(n)[j] /\ Arg \in Nat
      BY <3>1, <1>1, <1>2
    <3> QED
      BY <3>1, <3>2
  <2> QED
    BY <2>1, <2>2, <1>3
<1>6. /\ Advanced \in Seq(Frame) /\ Len(Advanced) = L /\ DOMAIN Advanced = 1..L
      /\ \A i \in 1..L : /\ Advanced[i].node = frames[i].node
                         /\ Advanced[i].idx = IF i = L THEN x + 1 ELSE frames[i].idx
  <2>1. Advanced \in Seq(Frame) /\ Len(Advanced) = L
    BY <1>0, AdvancedFacts DEF Called
  <2> QED
    BY <2>1, <1>0, <1>1, AdvancedFacts DEF Called
<1> DEFINE new(own) == [node |-> Arg, idx |-> 1, own |-> own]
<1>7. \A own \in Nat : new(own) \in Frame
  BY <1>1, <1>2 DEF Frame
<1>8. \A i \in 1..L : i \in DOMAIN frames' /\ frames'[i] = Advanced[i]
  <2>1. CASE frames' = Advanced
    BY <2>1, <1>6
  <2>2. ASSUME NEW own \in Nat, Opens(own)
        PROVE  \A i \in 1..L : i \in DOMAIN frames' /\ frames'[i] = Advanced[i]
    BY <2>2, <1>1, <1>6, <1>7 DEF Opens
  <2> QED
    BY <2>1, <2>2 DEF Called
<1>9. ASSUME NEW i \in DOMAIN frames
      PROVE  /\ frames'[i].node = frames[i].node
             /\ Due(i)' = IF i = L THEN Due(i) \ {Arg} ELSE Due(i)
  <2>1. /\ frames'[i].node = frames[i].node /\ frames[i].node \in Nat
        /\ frames'[i].idx = IF i = L THEN x + 1 ELSE frames[i].idx
    BY <1>1, <1>6, <1>8 DEF TypeOK
  <2>2. Kids(frames[i].node)' = Kids(frames[i].node)
    BY <2>1 DEF Called, Kids
  <2>3. Due(i)' = {Kids(frames[i].node)[j] : j \in frames'[i].idx..Len(Kids(frames[i].node))}
    BY <2>1, <2>2 DEF Due
  <2>4. CASE i = L
    <3>1. Due(i)' = {Kids(n)[j] : j \in (x + 1)..Len(Kids(n))}
      BY <2>1, <2>3, <2>4, <1>1
    <3> QED
      BY <3>1, <1>5, <2>1, <2>4
  <2>5. CASE i # L
    BY <2>1, <2>3, <2>5 DEF Due
  <2> QED
    BY <2>1, <2>4, <2>5
<1>10. ASSUME NEW own \in Nat, Opens(own)
       PROVE  /\ DOMAIN frames' = 1..(L + 1) /\ frames'[L + 1].node = Arg
              /\ Due(L + 1)' = KidSet(Arg)
  <2>1. /\ DOMAIN frames' = 1..(L + 1)
        /\ frames'[L + 1] = [node |-> Arg, idx |-> 1, own |-> own]
    BY <1>1, <1>6, <1>10, <1>7 DEF Opens
  <2>2. Arg \in 0..Len(global) /\ DOMAIN Kids(Arg) = 1..Len(Kids(Arg))
    BY <1>1, <1>2, ChildFacts
  <2>3. Kids(frames[L + 1].node)' = Kids(Arg)
    BY <2>1 DEF Called, Kids
  <2>4. Due(L + 1)' = {Kids(Arg)[j] : j \in 1..Len(Kids(Arg))}
    BY <2>1, <2>3 DEF Due
  <2> QED
    BY <2>1, <2>2, <2>4 DEF KidSet
<1>11. /\ \A i \in DOMAIN frames' \ DOMAIN frames :
             i = L + 1 /\ frames'[i].node = Arg /\ Due(i)' = KidSet(Arg)
       /\ KidSet(Arg) = {} \/ L + 1 \in DOMAIN frames'
  <2>1. CASE frames' = Advanced /\ Kids(Arg) = << >>
    <3>1. DOMAIN frames' = DOMAIN frames /\ KidSet(Arg) = {}
      BY <2>1, <1>1, <1>6 DEF KidSet
    <3> QED
      BY <3>1
  <2>2. CASE \E own \in Nat : Opens(own)
    BY <2>2, <1>1, <1>10
  <2> QED
    BY <2>1, <2>2 DEF Called
<1> QED
  BY <1>0, <1>4, <1>8, <1>9, <1>11, <1>1

-----------------------------------------------------------------------------
\* The statement called is the least of those due anywhere; the call takes it out
\* of what is pending and puts its children in.
LEMMA CallPending ==
  ASSUME Rooted, TypeOK, Frontier, Called
  PROVE  /\ Arg \in Pending /\ Arg \in 1..Len(global) /\ Pending \subseteq 1..Len(global)
         /\ \A m \in Pending : m = Arg \/ Arg < m
         /\ Pending' = (Pending \ {Arg}) \cup KidSet(Arg)
<1>1. PICK L \in Nat : L = Len(frames) /\ L \in DOMAIN frames /\ DOMAIN frames = 1..L
  BY HereFacts DEF TypeOK
<1>2. \A i \in DOMAIN frames : i = L \/ i < L
  BY <1>1
<1>3. Arg \in Due(L) /\ \A m \in Due(L) : m = Arg \/ Arg < m
  BY <1>1, CallDue
<1>4. \A i \in DOMAIN frames : Due(i) \subseteq 1..Len(global)
  BY DueFacts
<1>5. \A i \in DOMAIN frames : i # L => \A m \in Due(i) : Arg < m
  BY <1>1, <1>2, <1>3 DEF Frontier, InnerFirst
<1>6. Arg \in Pending /\ Pending \subseteq 1..Len(global) /\ \A m \in Pending : m = Arg \/ Arg < m
  BY <1>1, <1>3, <1>4, <1>5, PendingIsDue
<1>7. \A i \in DOMAIN frames : Due(i)' = Due(i) \ {Arg}
  <2>1. Arg \in 1..Len(global) /\ Len(global) \in Nat
    BY <1>6, TreeFacts
  <2>2. \A i \in DOMAIN frames : i # L => Arg \notin Due(i)
    BY <2>1, <1>5
  <2> QED
    BY <2>2, <1>1, CallDue
<1>8. Pending' = UNION {Due(i)' : i \in DOMAIN frames'}
  BY DEF Pending, Due
<1>9. Pending' = (Pending \ {Arg}) \cup KidSet(Arg)
  <2>1. \A i \in DOMAIN frames' : i \in DOMAIN frames \/ Due(i)' = KidSet(Arg)
    BY CallDue
  <2>2. KidSet(Arg) = {} \/ (L + 1 \in DOMAIN frames' /\ Due(L + 1)' = KidSet(Arg))
    BY <1>1, CallDue
  <2>3. DOMAIN frames \subseteq DOMAIN frames'
    BY CallDue
  <2>4. Pending' \subseteq (Pending \ {Arg}) \cup KidSet(Arg)
    BY <2>1, <1>7, <1>8, PendingIsDue
  <2>5. Pending \ {Arg} \subseteq Pending'
    BY <2>3, <1>7, <1>8, PendingIsDue
  <2>6. KidSet(Arg) \subseteq Pending'
    BY <2>2, <1>8
  <2> QED
    BY <2>4, <2>5, <2>6
<1> QED
  BY <1>6, <1>9

\* A call visits the statement called and no other: the one after it in pre-order
\* is a child of it, or was due already.
LEMMA CallVisits ==
  ASSUME Rooted, TypeOK, Frontier, Called, NEW n \in 1..Len(global)
  PROVE  /\ Visited(n)' <=> Visited(n) \/ n = Arg
         /\ Visited(n) => n < Arg
<1>1. /\ Arg \in Pending /\ Arg \in 1..Len(global) /\ Pending \subseteq 1..Len(global)
      /\ \A m \in Pending : m = Arg \/ Arg < m
      /\ Pending' = (Pending \ {Arg}) \cup KidSet(Arg)
  BY CallPending
<1>2. /\ Len(global) \in Nat \ {0} /\ Arg \in 0..Len(global)
      /\ \A m \in KidSet(Arg) : m \in 1..Len(global) /\ Arg < m
  <2>1. Len(global) \in Nat \ {0}
    BY TreeFacts
  <2> QED
    BY <2>1, <1>1, ChildFacts DEF KidSet
<1>3. Visited(n) => n < Arg
  BY <1>1 DEF Visited
<1>4. Visited(n) \/ n = Arg => Visited(n)'
  BY <1>1, <1>2, <1>3 DEF Visited
<1>5. ASSUME Visited(n)', ~Visited(n), n # Arg PROVE FALSE
  <2>1. Arg < n
    <3>1. n < Arg => Visited(n)
      BY <1>1, <1>2 DEF Visited
    <3> QED
      BY <3>1, <1>1, <1>2, <1>5
  <2>2. PICK c \in 1..Len(global) : c = Arg + 1 /\ c <= n
    BY <2>1, <1>1, <1>2
  <2>3. \A m \in Pending' : c < m
    BY <2>2, <1>1, <1>2, <1>5 DEF Visited
  <2>4. PICK p \in 0..(c - 1) : c \in KidSet(p)
    BY HasParent
  <2>5. c \notin KidSet(Arg)
    BY <2>3, <1>1, <1>2
  <2>6. p \in 0..Len(global) /\ (p = Client \/ p \in 1..Len(global)) /\ p < Arg
    BY <2>2, <2>4, <2>5, <1>1, <1>2 DEF Client
  <2>7. p = Client \/ Visited(p)
    BY <2>6, <1>1, <1>2 DEF Visited
  <2>8. Visited(c) \/ c \in Pending
    BY <2>4, <2>6, <2>7 DEF Frontier, NoneSkipped
  <2>9. ~Visited(c)
    BY <2>2, <1>1, <1>2 DEF Visited
  <2>10. c \in Pending'
    BY <2>2, <2>8, <2>9, <1>1, <1>2
  <2> QED
    BY <2>3, <2>10, <2>2
<1> QED
  BY <1>3, <1>4, <1>5

LEMMA CallFrontier ==
  ASSUME Rooted, TypeOK, Frontier, Called
  PROVE  Frontier'
<1>1. PICK L \in Nat : L = Len(frames) /\ L \in DOMAIN frames /\ DOMAIN frames = 1..L
  BY HereFacts DEF TypeOK
<1>2. /\ Arg \in Pending /\ Arg \in 1..Len(global) /\ Pending \subseteq 1..Len(global)
      /\ \A m \in Pending : m = Arg \/ Arg < m
      /\ Pending' = (Pending \ {Arg}) \cup KidSet(Arg)
  BY CallPending
<1>3. /\ Len(global) \in Nat \ {0} /\ Arg \in 0..Len(global) /\ UNCHANGED global
      /\ \A m \in KidSet(Arg) : m \in 1..Len(global) /\ Arg < m
  <2>1. Len(global) \in Nat \ {0}
    BY TreeFacts
  <2> QED
    BY <2>1, <1>2, ChildFacts DEF KidSet, Called
<1>4. ASSUME NEW i \in DOMAIN frames
      PROVE  /\ frames'[i].node = frames[i].node /\ frames[i].node \in 0..Len(global)
             /\ frames[i].node < Arg
             /\ Due(i)' \subseteq Due(i) /\ Due(i)' \subseteq Pending \ {Arg}
             /\ Due(i) \subseteq KidSet(frames[i].node)
  <2>1. Due(i)' = IF i = L THEN Due(i) \ {Arg} ELSE Due(i)
    BY <1>1, CallDue
  <2>2. Due(i) \subseteq Pending /\ Due(i) \subseteq KidSet(frames[i].node)
    BY PendingIsDue, DueFacts
  <2>3. Arg \in Due(L) /\ (i # L => Arg \notin Due(i))
    <3>1. Arg \in Due(L)
      BY <1>1, CallDue
    <3>2. i # L => \A a \in Due(i) : Arg < a
      BY <3>1, <1>1 DEF Frontier, InnerFirst
    <3> QED
      BY <3>1, <3>2, <1>2, <1>3
  <2>4. frames'[i].node = frames[i].node /\ frames[i].node \in 0..Len(global)
    BY CallDue, DueFacts
  <2>5. frames[i].node < Arg
    BY <2>3, <1>1 DEF Frontier, AfterNodes
  <2> QED
    BY <2>1, <2>2, <2>3, <2>4, <2>5
<1>5. ASSUME NEW i \in DOMAIN frames', i \notin DOMAIN frames
      PROVE  i = L + 1 /\ frames'[i].node = Arg /\ Due(i)' = KidSet(Arg)
  BY <1>1, <1>5, CallDue
<1>6. InnerFirst'
  <2> SUFFICES ASSUME NEW i \in DOMAIN frames', NEW k \in DOMAIN frames', i < k,
                      NEW a \in Due(i)', NEW b \in Due(k)'
               PROVE  b < a
    BY DEF InnerFirst
  <2>1. i \in DOMAIN frames
    <3>1. CASE k \in DOMAIN frames
      BY <3>1, <1>1, CallDue, <1>5
    <3>2. CASE k \notin DOMAIN frames
      BY <3>2, <1>5
    <3> QED
      BY <3>1, <3>2
  <2>2. CASE k \in DOMAIN frames
    BY <2>1, <2>2, <1>4 DEF Frontier, InnerFirst
  <2>3. CASE k \notin DOMAIN frames
    <3>1. b \in KidSet(Arg) /\ a \in KidSet(frames[i].node) /\ a \in Pending \ {Arg}
      BY <2>1, <2>3, <1>4, <1>5
    <3>2. frames[i].node \in 0..Len(global) /\ frames[i].node < Arg /\ Arg < a
      BY <2>1, <3>1, <1>2, <1>4
    <3> QED
      BY <3>1, <3>2, <1>2, BelowEarlier
  <2> QED
    BY <2>2, <2>3
<1>7. AfterNodes'
  <2> SUFFICES ASSUME NEW i \in DOMAIN frames', NEW k \in DOMAIN frames', NEW b \in Due(k)'
               PROVE  frames'[i].node < b
    BY DEF AfterNodes
  <2>1. frames'[i].node \in 0..Len(global) /\ frames'[i].node <= Arg
    BY <1>2, <1>3, <1>4, <1>5
  <2>2. b \in 1..Len(global) /\ Arg < b
    BY <1>2, <1>3, <1>4, <1>5
  <2> QED
    BY <2>1, <2>2, <1>2, <1>3
<1>8. NoneSkipped'
  <2>1. Len(global)' = Len(global) /\ \A p \in 0..Len(global) : KidSet(p)' = KidSet(p)
    BY <1>3 DEF KidSet, Kids
  <2> SUFFICES ASSUME NEW p \in 0..Len(global), NEW c \in KidSet(p), p = Client \/ Visited(p)'
               PROVE  Visited(c)' \/ c \in Pending'
    BY <2>1 DEF NoneSkipped
  <2>2. c \in 1..Len(global)
    BY ChildFacts DEF KidSet
  <2>3. CASE p = Arg
    BY <2>3, <1>2
  <2>4. CASE p # Arg
    <3>1. p = Client \/ p \in 1..Len(global)
      BY <1>3 DEF Client
    <3>2. p = Client \/ Visited(p)
      BY <2>4, <3>1, CallVisits
    <3>3. Visited(c) \/ c \in Pending
      BY <3>2 DEF Frontier, NoneSkipped
    <3> QED
      BY <3>3, <2>2, <1>2, CallVisits
  <2> QED
    BY <2>3, <2>4
<1> QED
  BY <1>6, <1>7, <1>8 DEF Frontier

\* A frame whose loop is over owes nothing: popping it changes nothing that is due.
LEMMA ReturnFrontier ==
  ASSUME Rooted, TypeOK, Frontier, Return, Len(out') = Len(out)
  PROVE  Frontier' /\ Pending' = Pending
<1>1. PICK L \in Nat : L = Len(frames) /\ L \in DOMAIN frames /\ DOMAIN frames = 1..L
  BY HereFacts DEF TypeOK
<1>2. Due(L) = {}
  <2>1. /\ Here.idx > Len(Kids(Here.node)) /\ Len(Kids(Here.node)) \in Nat /\ Here.idx \in Nat
    BY HereFacts, ChildFacts DEF Return
  <2> QED
    BY <2>1, <1>1 DEF Due, Here
<1>3. /\ DOMAIN frames' = 1..(L - 1) /\ UNCHANGED global
      /\ \A i \in DOMAIN frames' : i \in DOMAIN frames /\ frames'[i] = frames[i]
  BY <1>1, ReturnFrames DEF FramesOK, Return
<1>4. \A i \in DOMAIN frames' : Due(i)' = Due(i)
  BY <1>3 DEF Due, Kids
<1>5. Pending' = Pending
  <2>1. Pending' = UNION {Due(i)' : i \in DOMAIN frames'}
    BY DEF Pending, Due
  <2>2. \A i \in DOMAIN frames : i = L \/ i \in DOMAIN frames'
    BY <1>1, <1>3
  <2> QED
    BY <2>1, <2>2, <1>2, <1>3, <1>4, PendingIsDue
<1>6. InnerFirst' /\ AfterNodes'
  BY <1>3, <1>4 DEF Frontier, InnerFirst, AfterNodes
<1>7. NoneSkipped'
  <2>1. \A n : Visited(n)' <=> Visited(n)
    BY <1>5 DEF Visited
  <2>2. Len(global)' = Len(global) /\ \A p \in 0..Len(global) : KidSet(p)' = KidSet(p)
    BY <1>3 DEF KidSet, Kids
  <2> QED
    BY <2>1, <2>2, <1>5 DEF Frontier, NoneSkipped
<1> QED
  BY <1>5, <1>6, <1>7 DEF Frontier

-----------------------------------------------------------------------------
\* What PrefixProjected says, and that sources are nodes of the tree.
SourcesRise == \A k, l \in DOMAIN out : k < l => out[k].src < out[l].src
Exactly     == \A n \in DOMAIN global :
                 (\E k \in DOMAIN out : out[k].src = n) <=> (Visited(n) /\ Relevant(n))
SourcesIn   == \A k \in DOMAIN out : out[k].src \in 0..Len(global)
PrefixInv   == Frontier /\ PrefixProjected /\ SourcesIn

LEMMA InitPrefix == Init => PrefixInv
<1> SUFFICES ASSUME Init PROVE PrefixInv
  OBVIOUS
<1>1. Rooted /\ Len(global) \in Nat \ {0} /\ DOMAIN global = 1..Len(global)
  BY TreeFacts DEF Init, Rooted
<1>2. /\ DOMAIN frames = {1} /\ frames[1].node = Client /\ frames[1].idx = 1
      /\ DOMAIN out = {1} /\ out[1].src = 0
  BY DEF Init, NewNode
<1>3. Kids(Client) = <<1>> /\ Client = 0
  BY DEF Kids, Client
<1>4. Due(1) = {1} /\ Pending = {1} /\ KidSet(0) = {1}
  <2>1. Due(1) = {1} /\ KidSet(0) = {1}
    BY <1>2, <1>3 DEF Due, KidSet
  <2> QED
    BY <2>1, <1>2, PendingIsDue
<1>5. \A n \in 1..Len(global) : ~Visited(n)
  BY <1>1, <1>4 DEF Visited
<1>6. InnerFirst /\ AfterNodes
  BY <1>2, <1>3, <1>4 DEF InnerFirst, AfterNodes
<1>7. NoneSkipped
  <2> SUFFICES ASSUME NEW p \in 0..Len(global), NEW c \in KidSet(p), p = Client \/ Visited(p)
               PROVE  c \in Pending
    BY DEF NoneSkipped
  <2>1. p = 0
    BY <1>1, <1>3, <1>5
  <2> QED
    BY <2>1, <1>4
<1>8. PrefixProjected /\ SourcesIn
  BY <1>1, <1>2, <1>5 DEF PrefixProjected, SourcesIn
<1> QED
  BY <1>6, <1>7, <1>8 DEF PrefixInv, Frontier

\* A call that makes a node for a relevant statement, or none for one that is not.
LEMMA CallPrefix ==
  ASSUME Rooted, TypeOK, PrefixInv, Called, UNCHANGED endpoint,
         \/ Relevant(Arg) /\ DOMAIN out' = 1..(Len(out) + 1) /\ out'[Len(out) + 1].src = Arg
         \/ ~Relevant(Arg) /\ DOMAIN out' = DOMAIN out,
         \A k \in DOMAIN out : out'[k].src = out[k].src
  PROVE  PrefixInv'
<1>1. Frontier' /\ Frontier
  BY CallFrontier DEF PrefixInv
<1>2. /\ Arg \in 1..Len(global) /\ DOMAIN global = 1..Len(global) /\ Len(global) \in Nat
      /\ UNCHANGED global /\ DOMAIN out = 1..Len(out) /\ Len(out) \in Nat
  BY <1>1, CallPending, TreeFacts DEF Called, TypeOK
<1>3. \A n \in 1..Len(global) : /\ Visited(n)' <=> Visited(n) \/ n = Arg
                                /\ Visited(n) => n < Arg
  BY <1>1, CallVisits
<1>4. \A n : Relevant(n)' <=> Relevant(n)
  BY <1>2 DEF Relevant
<1>5. \A k \in DOMAIN out : out[k].src \in 0..Len(global) /\ out[k].src < Arg
  <2> SUFFICES ASSUME NEW k \in DOMAIN out
               PROVE  out[k].src \in 0..Len(global) /\ out[k].src < Arg
    OBVIOUS
  <2>1. out[k].src \in 0..Len(global)
    BY DEF PrefixInv, SourcesIn
  <2>2. CASE out[k].src = 0
    BY <2>2, <2>1, <1>2
  <2>3. CASE out[k].src # 0
    <3>1. out[k].src \in DOMAIN global
      BY <2>1, <2>3, <1>2
    <3>2. Visited(out[k].src)
      BY <3>1 DEF PrefixInv, PrefixProjected
    <3> QED
      BY <2>1, <3>1, <3>2, <1>2, <1>3
  <2> QED
    BY <2>2, <2>3
<1>6. \A k \in DOMAIN out' : \/ k \in DOMAIN out /\ out'[k].src = out[k].src
                             \/ k = Len(out) + 1 /\ out'[k].src = Arg /\ Relevant(Arg)
  BY <1>2
<1>7. DOMAIN out \subseteq DOMAIN out' /\ (Relevant(Arg) => Len(out) + 1 \in DOMAIN out' /\ out'[Len(out) + 1].src = Arg)
  BY <1>2
<1>8. SourcesIn'
  BY <1>2, <1>5, <1>6 DEF SourcesIn
<1>9. SourcesRise'
  <2> SUFFICES ASSUME NEW k \in DOMAIN out', NEW l \in DOMAIN out', k < l
               PROVE  out'[k].src < out'[l].src
    BY DEF SourcesRise
  <2>1. k \in DOMAIN out /\ out'[k].src = out[k].src
    BY <1>2, <1>6
  <2>2. CASE l \in DOMAIN out
    BY <2>1, <2>2, <1>2, <1>6 DEF PrefixInv, PrefixProjected
  <2>3. CASE l = Len(out) + 1 /\ out'[l].src = Arg
    BY <2>1, <2>3, <1>5
  <2> QED
    BY <2>2, <2>3, <1>6
<1>10. Exactly'
  <2> SUFFICES ASSUME NEW n \in DOMAIN global
               PROVE  (\E k \in DOMAIN out' : out'[k].src = n) <=> (Visited(n)' /\ Relevant(n))
    BY <1>2, <1>4 DEF Exactly
  <2>1. (\E k \in DOMAIN out : out[k].src = n) <=> (Visited(n) /\ Relevant(n))
    BY DEF PrefixInv, PrefixProjected
  <2>2. (\E k \in DOMAIN out' : out'[k].src = n)
          <=> (\E k \in DOMAIN out : out[k].src = n) \/ (n = Arg /\ Relevant(Arg))
    BY <1>6, <1>7
  <2> QED
    BY <2>1, <2>2, <1>2, <1>3
<1> QED
  BY <1>1, <1>8, <1>9, <1>10 DEF PrefixInv, PrefixProjected, SourcesRise, Exactly

\* Each kind of step, as the lemmas above want it.
LEMMA NextPrefix ==
  ASSUME Rooted, TypeOK, StackDiscipline, PrefixInv, [Next]_vars
  PROVE  PrefixInv'
<1>1. DOMAIN out = 1..Len(out) /\ Len(out) \in Nat
  BY DEF TypeOK
<1>2. CASE EmitStep
  <2>1. PICK node \in Fresh : node.src = Arg /\ Emit(node)
    BY <1>2 DEF EmitStep
  <2>2. Called /\ UNCHANGED endpoint /\ Relevant(Arg)
    BY <1>2, <2>1 DEF EmitStep, Emit, Called
  <2>3. /\ out' \in Seq(OutNode) /\ Len(out') = Len(out) + 1 /\ out'[Len(out) + 1] = node
        /\ \A q \in DOMAIN out : out'[q].src = out[q].src
    <3>1. /\ out' \in Seq(OutNode) /\ Len(out') = Len(out) + 1 /\ out'[Len(out) + 1] = node
          /\ \A q \in DOMAIN out : out'[q] = [out[q] EXCEPT !.kids = out'[q].kids]
      BY <2>1, EmitEffect DEF OutOK
    <3>2. \A q \in DOMAIN out : out'[q].src = out[q].src
      BY <3>1, ClassKept
    <3> QED
      BY <3>1, <3>2
  <2>4. DOMAIN out' = 1..(Len(out) + 1) /\ out'[Len(out) + 1].src = Arg
    BY <2>1, <2>3
  <2> QED
    BY <2>2, <2>3, <2>4, CallPrefix
<1>3. CASE EnterStep
  <2>1. PICK node \in Fresh : node.src = Arg /\ Enter(node)
    BY <1>3 DEF EnterStep
  <2>2. Called /\ UNCHANGED endpoint /\ Relevant(Arg)
    <3>1. Opens(Len(out) + 1) /\ Len(out) + 1 \in Nat
      BY <1>1, <2>1 DEF Enter, Opens
    <3> QED
      BY <1>3, <2>1, <3>1 DEF EnterStep, Enter, Called
  <2>3. /\ out' \in Seq(OutNode) /\ Len(out') = Len(out) + 1 /\ out'[Len(out) + 1] = node
        /\ \A q \in DOMAIN out : out'[q].src = out[q].src
    BY <2>1, EnterEffect DEF OutOK
  <2>4. DOMAIN out' = 1..(Len(out) + 1) /\ out'[Len(out) + 1].src = Arg
    BY <2>1, <2>3
  <2> QED
    BY <2>2, <2>3, <2>4, CallPrefix
<1>4. CASE BlockStep \/ SkipStep
  <2>1. Called /\ ~Relevant(Arg) /\ UNCHANGED <<endpoint, out>>
    <3>1. 0 \in Nat
      OBVIOUS
    <3> QED
      BY <1>4, <3>1 DEF BlockStep, SkipStep, Skip, Called, Opens
  <2> QED
    BY <2>1, CallPrefix
<1>5. CASE Return
  <2>1. Len(out') = Len(out) /\ DOMAIN out' = DOMAIN out /\ \A q \in DOMAIN out : out'[q].src = out[q].src
    <3>1. CASE Here.own = 0
      BY <1>5, <3>1 DEF Return
    <3>2. CASE Here.own # 0
      <4>1. /\ out' \in Seq(OutNode) /\ Len(out') = Len(out)
            /\ \A q \in DOMAIN out : out'[q] = [out[q] EXCEPT !.kids = out'[q].kids]
        BY <1>5, <3>2, ReturnEffect DEF OutOK
      <4>2. \A q \in DOMAIN out : out'[q].src = out[q].src
        BY <4>1, ClassKept
      <4>3. DOMAIN out' = DOMAIN out
        BY <4>1, <1>1
      <4> QED
        BY <4>1, <4>2, <4>3
    <3> QED
      BY <3>1, <3>2
  <2>2. Frontier' /\ Pending' = Pending /\ UNCHANGED <<global, endpoint>>
    BY <1>5, <2>1, ReturnFrontier DEF PrefixInv, Return
  <2>3. \A n : (Visited(n)' <=> Visited(n)) /\ (Relevant(n)' <=> Relevant(n))
    BY <2>2 DEF Visited, Relevant
  <2>4. PrefixProjected' /\ SourcesIn'
    BY <2>1, <2>2, <2>3 DEF PrefixInv, PrefixProjected, SourcesIn
  <2> QED
    BY <2>2, <2>4 DEF PrefixInv
<1>6. CASE CrashStep \/ UNCHANGED vars
  <2>1. UNCHANGED <<global, endpoint, out, frames>>
    BY <1>6 DEF CrashStep, Crash, vars
  <2>2. /\ Pending' = Pending /\ \A n : Kids(n)' = Kids(n) /\ (Relevant(n)' <=> Relevant(n))
        /\ \A n : Due(n)' = Due(n) /\ KidSet(n)' = KidSet(n)
    BY <2>1 DEF Pending, Due, KidSet, Kids, Relevant
  <2>3. \A n : Visited(n)' <=> Visited(n)
    BY <2>2 DEF Visited
  <2>4. InnerFirst' /\ AfterNodes'
    BY <2>1, <2>2 DEF PrefixInv, Frontier, InnerFirst, AfterNodes
  <2>5. NoneSkipped'
    BY <2>1, <2>2, <2>3 DEF PrefixInv, Frontier, NoneSkipped
  <2>6. PrefixProjected' /\ SourcesIn'
    BY <2>1, <2>2, <2>3 DEF PrefixInv, PrefixProjected, SourcesIn
  <2> QED
    BY <2>4, <2>5, <2>6 DEF PrefixInv, Frontier
<1> QED
  BY <1>2, <1>3, <1>4, <1>5, <1>6, StepKinds

\* At every moment of every run the nodes made are those of the relevant statements
\* before the next one to be visited, each once and in source order: the early return
\* of visit(InteractionNode), the blocks that are descended into without a node, and
\* the pops of nested blocks lose nothing and repeat nothing.
THEOREM PrefixSafe == Spec => []PrefixProjected
<1>1. /\ Rooted /\ TypeOK /\ StackDiscipline /\ PrefixInv /\ [Next]_vars
      => (Rooted /\ TypeOK /\ StackDiscipline /\ PrefixInv)'
  BY NextStack, NextPrefix
<1>2. PrefixInv => PrefixProjected
  BY DEF PrefixInv
<1> QED
  BY <1>1, <1>2, InitStack, InitPrefix, PTL DEF Spec

\* What get_root() answers to st_node_project: a node for each statement of the global
\* type that the endpoint takes part in or that gives structure, one and no more, and
\* none for any other.
WholeProjected ==
  Done => /\ \A n \in DOMAIN global :
               (\E k \in DOMAIN out : out[k].src = n) <=> Relevant(n)
          /\ \A k, l \in DOMAIN out : out[k].src = out[l].src => k = l

LEMMA AllVisited ==
  ASSUME Rooted, TypeOK, Done
  PROVE  \A n : Visited(n)
<1>1. DOMAIN frames = {1} /\ Len(frames) = 1
  BY DEF Done, TypeOK
<1>2. /\ Here.idx > Len(Kids(Here.node)) /\ Len(Kids(Here.node)) \in Nat /\ Here.idx \in Nat
  BY HereFacts, ChildFacts DEF Done
<1>3. Due(1) = {}
  BY <1>1, <1>2 DEF Due, Here
<1>4. Pending = {}
  BY <1>1, <1>3, PendingIsDue
<1> QED
  BY <1>4 DEF Visited

\* No statement has two nodes.
LEMMA SourcesDiffer ==
  ASSUME TypeOK, PrefixProjected, NEW k \in DOMAIN out, NEW l \in DOMAIN out, out[k].src = out[l].src
  PROVE  k = l
<1>1. k \in Nat /\ l \in Nat /\ out[k] \in OutNode /\ out[l] \in OutNode
  BY DEF TypeOK
<1>2. out[k].src \in Nat /\ out[l].src \in Nat
  BY <1>1 DEF OutNode
<1>3. ~(k < l) /\ ~(l < k)
  BY <1>2 DEF PrefixProjected
<1> QED
  BY <1>1, <1>3

\* When the traversal is over nothing is pending, so that PrefixProjected speaks of the
\* whole global type.
THEOREM WholeAtTheEnd == Spec => []WholeProjected
<1>1. Rooted /\ TypeOK /\ PrefixProjected => WholeProjected
  <2> SUFFICES ASSUME Rooted, TypeOK, PrefixProjected, Done PROVE WholeProjected
    BY DEF WholeProjected
  <2> QED
    BY AllVisited, SourcesDiffer DEF WholeProjected, PrefixProjected
<1>2. Spec => []Rooted
  <2>1. /\ Rooted /\ TypeOK /\ StackDiscipline /\ [Next]_vars
        => (Rooted /\ TypeOK /\ StackDiscipline)'
    BY NextStack
  <2> QED
    BY <2>1, InitStack, PTL DEF Spec
<1> QED
  BY <1>1, <1>2, TypeCorrect, PrefixSafe, PTL
-----------------------------------------------------------------------------
LEMMA SameEncloser ==
  ASSUME NEW n
  PROVE  Abstract!Encloser(global, n) = NearestBlock(global, n)
BY DEF Abstract!Encloser, Abstract!Enclosing, Abstract!Below, NearestBlock, BlocksOver, Below

LEMMA SameOrdered ==
  ASSUME NEW P
  PROVE  Abstract!Ordered(P) = Ordered(P)
<1>1. \A S : Abstract!Cardinality(S) = Cardinality(S)
  BY DEF Abstract!Cardinality, Cardinality
<1>2. \A j : Abstract!Nth(P, j) = Nth(P, j)
  BY <1>1 DEF Abstract!Nth, Nth
<1> QED
  BY <1>1, <1>2 DEF Abstract!Ordered, Ordered

\* Where what stands below statement n belongs, as the source of the node to put it in.
Where(n) == IF n = Client THEN 0 ELSE IF global[n].class = "Block" THEN NearestBlock(global, n) ELSE n

\* Each frame is that of a statement below the statement of the frame before it, and
\* has a node of its own unless it is that of a plain block or of the client.
FramesNest == /\ frames[1].own = 0
              /\ \A i \in 2..Len(frames) :
                   /\ frames[i].node \in DOMAIN global
                   /\ NearestBlock(global, frames[i].node) = Where(frames[i - 1].node)
                   /\ IF global[frames[i].node].class = "Block" THEN frames[i].own = 0
                      ELSE frames[i].own # 0 /\ out[frames[i].own].src = frames[i].node
\* Each block on the stack belongs in the one before it, and what comes next in the top.
StackNests == /\ \A s \in 2..Len(stack_) :
                   NearestBlock(global, out[stack_[s]].src) = out[stack_[s - 1]].src
              /\ out[Top].src = Where(Here.node)
\* Each child is where it belongs.
KidsPlaced == \A p \in DOMAIN out : \A i \in DOMAIN out[p].kids :
                NearestBlock(global, out[out[p].kids[i]].src) = out[p].src
NodesShaped == /\ out[1].src = 0 /\ out[1].class = "Block"
               /\ \A k \in DOMAIN out \ {1} : Shape(out[k])
\* A visitor that is still running has not met a statement that lacks a role.
SoundSoFar == IF crashed THEN \E n \in DOMAIN global : ~Sound(n)
              ELSE \A n \in DOMAIN global : Visited(n) => Sound(n)

\* The statement that is called belongs in the block on top of the stack.
LEMMA ArgFacts ==
  ASSUME Rooted, TypeOK, Calling
  PROVE  /\ Arg \in 1..Len(global) /\ DOMAIN global = 1..Len(global) /\ Arg # Client
         /\ NearestBlock(global, Arg) = Where(Here.node)
<1>1. /\ global \in Seq(SourceNode) /\ PreOrderTree(global) /\ DOMAIN global = 1..Len(global)
  BY TreeFacts
<1>2. /\ Here.node \in 0..Len(global) /\ Here.idx \in 1..Len(Kids(Here.node))
      /\ Arg \in DOMAIN global /\ Arg = Kids(Here.node)[Here.idx]
  BY HereFacts DEF Calling, Arg
<1>3. CASE Here.node = Client
  <2>1. Arg = 1
    <3>1. Kids(Here.node) = <<1>>
      BY <1>3 DEF Kids
    <3> QED
      BY <3>1, <1>2
  <2>2. BlocksOver(global, 1) = {}
    BY DEF BlocksOver
  <2>3. NearestBlock(global, 1) = 0
    BY <2>2, NearestFacts
  <2> QED
    BY <1>1, <1>2, <1>3, <2>1, <2>3 DEF Where, Client
<1>4. CASE Here.node # Client
  <2>1. Here.node \in DOMAIN global /\ Kids(Here.node) = global[Here.node].kids
    BY <1>1, <1>2, <1>4 DEF Kids, Client
  <2>2. Here.idx \in DOMAIN global[Here.node].kids /\ Arg = global[Here.node].kids[Here.idx]
    <3>1. Kids(Here.node) \in Seq(Nat)
      BY <1>2, KidsInTree
    <3> QED
      BY <3>1, <2>1, <1>2
  <2>3. NearestBlock(global, Arg) = IF global[Here.node].class = "Block" THEN NearestBlock(global, Here.node)
                               ELSE Here.node
    BY <1>1, <2>1, <2>2, NearestKid
  <2> QED
    BY <1>1, <1>2, <1>4, <2>3 DEF Where, Client
<1> QED
  BY <1>3, <1>4

\* What a node is made for does not change with its children.
LEMMA NodeKept ==
  ASSUME TypeOK, UNCHANGED <<global, endpoint>>, NEW q \in DOMAIN out,
         out'[q] = [out[q] EXCEPT !.kids = out'[q].kids]
  PROVE  /\ out'[q].src = out[q].src /\ out'[q].class = out[q].class
         /\ Shape(out[q]) => Shape(out[q])'
<1>1. out[q] \in OutNode
  BY DEF TypeOK
<1>2. /\ out'[q].src = out[q].src /\ out'[q].class = out[q].class /\ out'[q].sndr = out[q].sndr
  <2> DEFINE o == out[q]
             k == out'[q].kids
  <2>1. o \in OutNode /\ out'[q] = [o EXCEPT !.kids = k]
    BY <1>1
  <2> HIDE DEF o, k
  <2>2. [o EXCEPT !.kids = k].src = o.src /\ [o EXCEPT !.kids = k].class = o.class
        /\ [o EXCEPT !.kids = k].sndr = o.sndr
    BY <2>1 DEF OutNode
  <2> QED
    BY <2>1, <2>2 DEF o
<1> QED
  BY <1>2 DEF Shape

LEMMA ShapesKept ==
  ASSUME TypeOK, UNCHANGED <<global, endpoint>>, NodesShaped, NEW new,
         DOMAIN out' \subseteq DOMAIN out \cup {new}, new \notin DOMAIN out,
         new \in DOMAIN out' => Shape(out[new])',
         \A q \in DOMAIN out : out'[q] = [out[q] EXCEPT !.kids = out'[q].kids]
  PROVE  NodesShaped'
<1>1. 1 \in DOMAIN out
  BY DEF TypeOK
<1>2. out'[1].src = 0 /\ out'[1].class = "Block"
  BY <1>1, NodeKept DEF NodesShaped
<1>3. ASSUME NEW k \in DOMAIN out' \ {1} PROVE Shape(out[k])'
  <2>1. CASE k \in DOMAIN out
    BY <2>1, <1>3, NodeKept DEF NodesShaped
  <2> QED
    BY <2>1, <1>3
<1> QED
  BY <1>2, <1>3 DEF NodesShaped

\* One child more, where it belongs.
LEMMA PlacedKept ==
  ASSUME TypeOK, UNCHANGED global, KidsPlaced, NEW parent \in DOMAIN out, NEW c \in DOMAIN out',
         \A q \in DOMAIN out : out'[q].src = out[q].src,
         \A q \in DOMAIN out' \ DOMAIN out : out'[q].kids = << >>,
         \A q \in DOMAIN out : out'[q].kids = IF q = parent THEN Append(out[q].kids, c)
                                              ELSE out[q].kids,
         NearestBlock(global, out'[c].src) = out[parent].src
  PROVE  KidsPlaced'
<1> SUFFICES ASSUME NEW p \in DOMAIN out', NEW i \in DOMAIN out'[p].kids
             PROVE  NearestBlock(global, out'[out'[p].kids[i]].src) = out'[p].src
  BY DEF KidsPlaced
<1>1. p \in DOMAIN out
  OBVIOUS
<1>2. ASSUME i \in DOMAIN out[p].kids, out'[p].kids[i] = out[p].kids[i]
      PROVE  NearestBlock(global, out'[out'[p].kids[i]].src) = out'[p].src
  <2>1. out[p].kids[i] \in DOMAIN out
    BY <1>1, <1>2 DEF TypeOK
  <2>2. out'[out'[p].kids[i]].src = out[out[p].kids[i]].src
    BY <2>1, <1>2
  <2> QED
    BY <2>2, <1>1, <1>2 DEF KidsPlaced
<1>3. CASE p # parent
  BY <1>1, <1>2, <1>3
<1>4. CASE p = parent
  <2>1. out'[p].kids = Append(out[p].kids, c) /\ out[p].kids \in Seq(Nat)
    BY <1>1, <1>4, KidsTyped
  <2>2. CASE i \in DOMAIN out[p].kids
    BY <2>1, <2>2, <1>2
  <2>3. CASE i \notin DOMAIN out[p].kids
    <3>1. out'[p].kids[i] = c
      BY <2>1, <2>3
    <3> QED
      BY <3>1, <1>1, <1>4
  <2> QED
    BY <2>2, <2>3
<1> QED
  BY <1>3, <1>4

\* As long as the nodes of frames keep their sources, frames are where they were.
LEMMA FramesKept ==
  ASSUME Rooted, TypeOK, FramesNest, UNCHANGED global, NEW m \in Nat \ {0}, m <= Len(frames),
         \A q \in DOMAIN out : out'[q].src = out[q].src,
         \A i \in 1..m : frames'[i].node = frames[i].node /\ frames'[i].own = frames[i].own
  PROVE  /\ frames'[1].own = 0
         /\ \A i \in 2..m :
              /\ frames'[i].node \in DOMAIN global
              /\ NearestBlock(global, frames'[i].node) = Where(frames'[i - 1].node)
              /\ IF global[frames'[i].node].class = "Block" THEN frames'[i].own = 0
                 ELSE frames'[i].own # 0 /\ out'[frames'[i].own].src = frames'[i].node
<1>1. Len(frames) \in Nat /\ DOMAIN frames = 1..Len(frames) /\ 1 \in 1..m /\ DOMAIN out = 1..Len(out)
  BY DEF TypeOK
<1>2. frames'[1].own = 0
  BY <1>1 DEF FramesNest
<1>3. ASSUME NEW i \in 2..m
      PROVE  /\ frames'[i].node \in DOMAIN global
             /\ NearestBlock(global, frames'[i].node) = Where(frames'[i - 1].node)
             /\ IF global[frames'[i].node].class = "Block" THEN frames'[i].own = 0
                ELSE frames'[i].own # 0 /\ out'[frames'[i].own].src = frames'[i].node
  <2>1. i \in 1..m /\ i - 1 \in 1..m /\ i \in 2..Len(frames) /\ i \in DOMAIN frames
    BY <1>1
  <2>2. frames[i].own \in 0..Len(out)
    BY <2>1 DEF TypeOK
  <2>3. frames[i].own # 0 => frames[i].own \in DOMAIN out
    BY <2>2, <1>1 DEF TypeOK
  <2>4. /\ frames[i].node \in DOMAIN global
        /\ NearestBlock(global, frames[i].node) = Where(frames[i - 1].node)
        /\ IF global[frames[i].node].class = "Block" THEN frames[i].own = 0
           ELSE frames[i].own # 0 /\ out[frames[i].own].src = frames[i].node
    BY <2>1 DEF FramesNest
  <2> QED
    BY <2>1, <2>3, <2>4
<1> QED
  BY <1>2, <1>3

PlaceInv == FramesNest /\ StackNests /\ KidsPlaced /\ NodesShaped

LEMMA SameEnclosing ==
  ASSUME UNCHANGED global, NEW n
  PROVE  Where(n)' = Where(n)
BY DEF Where

\* The frames after a call that returned to the caller's loop.
LEMMA AdvancedNests ==
  ASSUME Rooted, TypeOK, FramesNest, Calling, UNCHANGED global, frames' = Advanced,
         \A q \in DOMAIN out : out'[q].src = out[q].src
  PROVE  FramesNest' /\ Here.node' = Here.node
<1>1. /\ Len(frames) \in Nat \ {0} /\ DOMAIN frames = 1..Len(frames) /\ Len(frames') = Len(frames)
      /\ \A i \in 1..Len(frames) : frames'[i].node = frames[i].node /\ frames'[i].own = frames[i].own
  BY AdvancedFacts, HereFacts DEF TypeOK
<1>2. FramesNest'
  <2> DEFINE m == Len(frames)
  <2>1. m \in Nat \ {0} /\ m <= Len(frames) /\ Len(frames') = m /\ global' = global
    BY <1>1
  <2>2. \A i \in 1..m : frames'[i].node = frames[i].node /\ frames'[i].own = frames[i].own
    BY <1>1
  <2> HIDE DEF m
  <2>3. /\ frames'[1].own = 0
        /\ \A i \in 2..m :
             /\ frames'[i].node \in DOMAIN global
             /\ NearestBlock(global, frames'[i].node) = Where(frames'[i - 1].node)
             /\ IF global[frames'[i].node].class = "Block" THEN frames'[i].own = 0
                ELSE frames'[i].own # 0 /\ out'[frames'[i].own].src = frames'[i].node
    BY <2>1, <2>2, FramesKept
  <2>4. \A n : Where(n)' = Where(n)
    BY SameEnclosing
  <2> QED
    BY <2>1, <2>3, <2>4 DEF FramesNest, Where
<1>3. Here.node' = Here.node
  BY <1>1 DEF Here
<1> QED
  BY <1>2, <1>3

LEMMA EmitRef ==
  ASSUME Rooted, TypeOK, StackDiscipline, PlaceInv, EmitStep
  PROVE  PlaceInv'
<1>0. PICK new \in Nat : new = Len(out) + 1
  BY TopFacts
<1>1. PICK node \in Fresh : node.src = Arg /\ Shape(node) /\ Emit(node)
  BY DEF EmitStep
<1>2. /\ Calling /\ UNCHANGED <<global, endpoint, stack_>> /\ frames' = Advanced
  BY <1>1 DEF EmitStep, Emit
<1>3. /\ Len(out') = new /\ out' \in Seq(OutNode) /\ out'[new] = node /\ node.kids = << >>
      /\ \A q \in DOMAIN out : out'[q] = [out[q] EXCEPT !.kids = out'[q].kids]
      /\ \A q \in DOMAIN out : out'[q].kids = IF q = Top THEN Append(out[q].kids, new)
                                              ELSE out[q].kids
  BY <1>0, <1>1, EmitEffect DEF Fresh, OutOK
<1>4. /\ DOMAIN out = 1..Len(out) /\ DOMAIN out' = 1..new /\ Len(out) \in Nat \ {0}
      /\ Top \in DOMAIN out /\ new \in DOMAIN out' /\ new \notin DOMAIN out
      /\ DOMAIN out' \subseteq DOMAIN out \cup {new}
  BY <1>0, <1>3, TopFacts DEF TypeOK
<1>5. \A q \in DOMAIN out : out'[q].src = out[q].src
  BY <1>2, <1>3, NodeKept
<1>6. FramesNest' /\ Here.node' = Here.node
  BY <1>2, <1>5, AdvancedNests DEF PlaceInv
<1>7. StackNests'
  <2>1. \A s \in DOMAIN stack_ : stack_[s] \in DOMAIN out
    BY DEF TypeOK
  <2>2. stack_ \in Seq(DOMAIN out) /\ stack_' = stack_ /\ Top' = Top
    BY <1>2 DEF TypeOK, Top
  <2>3. ASSUME NEW s \in 2..Len(stack_)
        PROVE  NearestBlock(global', out'[stack_'[s]].src) = out'[stack_'[s - 1]].src
    <3>1. s \in DOMAIN stack_ /\ s - 1 \in DOMAIN stack_
      BY <2>2
    <3>2. out'[stack_[s]].src = out[stack_[s]].src /\ out'[stack_[s - 1]].src = out[stack_[s - 1]].src
      BY <3>1, <2>1, <1>5
    <3> QED
      BY <3>2, <1>2, <2>2 DEF PlaceInv, StackNests
  <2>4. out'[Top'].src = Where(Here.node)'
    <3>1. Where(Here.node)' = Where(Here.node)
      BY <1>2, <1>6 DEF Where
    <3> QED
      BY <3>1, <2>2, <1>4, <1>5 DEF PlaceInv, StackNests
  <2> QED
    BY <2>2, <2>3, <2>4 DEF StackNests
<1>8. KidsPlaced'
  <2>1. NearestBlock(global, out'[new].src) = out[Top].src
    BY <1>1, <1>2, <1>3, ArgFacts DEF PlaceInv, StackNests
  <2>2. \A q \in DOMAIN out' \ DOMAIN out : out'[q].kids = << >>
    BY <1>3, <1>4
  <2> QED
    BY <2>1, <2>2, <1>2, <1>3, <1>4, <1>5, PlacedKept DEF PlaceInv
<1>9. NodesShaped'
  <2>1. Shape(out[new])'
    BY <1>1, <1>2, <1>3 DEF Shape
  <2> QED
    BY <2>1, <1>2, <1>3, <1>4, ShapesKept DEF PlaceInv
<1> QED
  BY <1>6, <1>7, <1>8, <1>9 DEF PlaceInv

\* A frame is opened for the called statement.
LEMMA OpenedNests ==
  ASSUME Rooted, TypeOK, FramesNest, Calling, UNCHANGED global, NEW own,
         frames' = Append(Advanced, [node |-> Arg, idx |-> 1, own |-> own]),
         own \in Nat,
         IF global[Arg].class = "Block" THEN own = 0 ELSE own # 0 /\ out'[own].src = Arg,
         \A q \in DOMAIN out : out'[q].src = out[q].src
  PROVE  FramesNest' /\ Here.node' = Arg
<1>0. PICK m \in Nat \ {0} : m = Len(frames)
  BY HereFacts
<1>1. /\ Len(frames') = m + 1 /\ Here = frames[m]
      /\ \A i \in 1..m : frames'[i].node = frames[i].node /\ frames'[i].own = frames[i].own
      /\ frames'[m + 1].node = Arg /\ frames'[m + 1].own = own
  <2>1. /\ Advanced \in Seq(Frame) /\ Len(Advanced) = m
        /\ \A i \in 1..m : Advanced[i].node = frames[i].node /\ Advanced[i].own = frames[i].own
    <3>1. DOMAIN frames = 1..m
      BY <1>0 DEF TypeOK
    <3> QED
      BY <3>1, <1>0, AdvancedFacts
  <2> DEFINE last == [node |-> Arg, idx |-> 1, own |-> own]
  <2>2. last.node = Arg /\ last.own = own /\ last \in Frame
    BY ArgFacts DEF Frame
  <2> HIDE DEF last
  <2>3. /\ Len(frames') = m + 1 /\ frames'[m + 1] = last
        /\ \A i \in 1..m : frames'[i] = Advanced[i]
    BY <2>1, <2>2 DEF last
  <2> QED
    BY <2>1, <2>2, <2>3, <1>0 DEF Here
<1>2. /\ frames'[1].own = 0
      /\ \A i \in 2..m :
           /\ frames'[i].node \in DOMAIN global
           /\ NearestBlock(global, frames'[i].node) = Where(frames'[i - 1].node)
           /\ IF global[frames'[i].node].class = "Block" THEN frames'[i].own = 0
              ELSE frames'[i].own # 0 /\ out'[frames'[i].own].src = frames'[i].node
  BY <1>0, <1>1, FramesKept
<1>3. /\ frames'[m + 1].node \in DOMAIN global
      /\ NearestBlock(global, frames'[m + 1].node) = Where(frames'[m].node)
      /\ IF global[frames'[m + 1].node].class = "Block" THEN frames'[m + 1].own = 0
         ELSE frames'[m + 1].own # 0 /\ out'[frames'[m + 1].own].src = frames'[m + 1].node
  BY <1>0, <1>1, ArgFacts
<1>4. \A i \in 2..(m + 1) : i \in 2..m \/ (i = m + 1 /\ i - 1 = m)
  BY <1>0
<1>5. ASSUME NEW i \in 2..Len(frames')
      PROVE  /\ frames'[i].node \in DOMAIN global
             /\ NearestBlock(global, frames'[i].node) = Where(frames'[i - 1].node)
             /\ IF global[frames'[i].node].class = "Block" THEN frames'[i].own = 0
                ELSE frames'[i].own # 0 /\ out'[frames'[i].own].src = frames'[i].node
  BY <1>1, <1>2, <1>3, <1>4
<1>6. FramesNest'
  BY <1>2, <1>5 DEF FramesNest, Where
<1>7. Here.node' = Arg
  BY <1>0, <1>1 DEF Here
<1> QED
  BY <1>6, <1>7

LEMMA EnterRef ==
  ASSUME Rooted, TypeOK, StackDiscipline, PlaceInv, EnterStep
  PROVE  PlaceInv'
<1>0. PICK new \in Nat : new = Len(out) + 1
  BY TopFacts
<1>1. PICK node \in Fresh : node.src = Arg /\ Shape(node) /\ Enter(node)
  BY DEF EnterStep
<1>2. /\ Calling /\ UNCHANGED <<global, endpoint>> /\ Relevant(Arg)
      /\ frames' = Append(Advanced, [node |-> Arg, idx |-> 1, own |-> new])
  BY <1>0, <1>1 DEF EnterStep, Enter
<1>3. /\ Len(out') = new /\ out' \in Seq(OutNode) /\ out'[new] = node /\ node.kids = << >>
      /\ \A q \in DOMAIN out : out'[q] = out[q]
      /\ stack_' = Append(stack_, new)
  BY <1>0, <1>1, EnterEffect DEF Fresh, OutOK
<1>4. /\ DOMAIN out = 1..Len(out) /\ DOMAIN out' = 1..new /\ Len(out) \in Nat \ {0}
      /\ Top \in DOMAIN out /\ new \in DOMAIN out' /\ new \notin DOMAIN out
      /\ DOMAIN out' \subseteq DOMAIN out \cup {new}
  BY <1>0, <1>3, TopFacts DEF TypeOK
<1>5. \A q \in DOMAIN out : out'[q].src = out[q].src
  BY <1>3
<1>51. global[Arg].class # "Block"
  BY <1>2 DEF Relevant
<1>6. FramesNest' /\ Here.node' = Arg
  <2>1. new # 0 /\ out'[new].src = Arg
    BY <1>0, <1>1, <1>3, <1>4
  <2> QED
    BY <2>1, <1>2, <1>5, <1>51, OpenedNests DEF PlaceInv
<1>7. StackNests'
  <2>0. PICK n \in Nat \ {0} : n = Len(stack_)
    BY TopFacts
  <2>1. /\ \A s \in 1..n : stack_[s] \in DOMAIN out /\ stack_'[s] = stack_[s]
        /\ Len(stack_') = n + 1 /\ stack_'[n + 1] = new /\ Top' = new /\ Top = stack_[n]
    <3>1. stack_ \in Seq(Nat) /\ new \in Nat /\ \A s \in 1..n : stack_[s] \in DOMAIN out
      <4>1. stack_ \in Seq(DOMAIN out) /\ new \in Nat
        BY <1>4 DEF TypeOK
      <4>2. DOMAIN out \subseteq Nat
        BY <1>4
      <4> QED
        BY <4>1, <4>2, <2>0
    <3>2. Len(stack_') = n + 1 /\ stack_'[n + 1] = new /\ \A s \in 1..n : stack_'[s] = stack_[s]
      BY <3>1, <1>3, <2>0
    <3> QED
      BY <3>1, <3>2, <2>0 DEF Top
  <2>2. ASSUME NEW s \in 2..(n + 1)
        PROVE  NearestBlock(global, out'[stack_'[s]].src) = out'[stack_'[s - 1]].src
    <3>1. CASE s = n + 1
      <4>1. stack_'[s] = new /\ stack_'[s - 1] = Top /\ out'[new].src = Arg
        BY <3>1, <2>0, <2>1, <1>1, <1>3
      <4>2. out'[Top].src = Where(Here.node)
        BY <1>4, <1>5 DEF PlaceInv, StackNests
      <4> QED
        BY <4>1, <4>2, <1>2, ArgFacts
    <3>2. CASE s # n + 1
      <4>1. s \in 2..n /\ s \in 1..n /\ s - 1 \in 1..n
        BY <3>2, <2>0
      <4>2. NearestBlock(global, out[stack_[s]].src) = out[stack_[s - 1]].src
        BY <4>1, <2>0 DEF PlaceInv, StackNests
      <4> QED
        BY <4>1, <4>2, <2>1, <1>5
    <3> QED
      BY <3>1, <3>2
  <2>3. out'[Top'].src = Where(Here.node)'
    <3>1. Where(Here.node)' = Where(Arg) /\ Where(Arg) = Arg
      BY <1>2, <1>6, <1>51, ArgFacts DEF Where
    <3> QED
      BY <3>1, <2>1, <1>1, <1>3
  <2> QED
    BY <2>1, <2>2, <2>3, <1>2 DEF StackNests
<1>8. KidsPlaced'
  <2> SUFFICES ASSUME NEW p \in DOMAIN out', NEW i \in DOMAIN out'[p].kids
               PROVE  NearestBlock(global, out'[out'[p].kids[i]].src) = out'[p].src
    BY <1>2 DEF KidsPlaced
  <2>1. p \in DOMAIN out /\ out'[p] = out[p]
    BY <1>3, <1>4
  <2>2. i \in DOMAIN out[p].kids /\ out[p].kids[i] \in DOMAIN out
    BY <2>1 DEF TypeOK
  <2> QED
    BY <2>1, <2>2, <1>5 DEF PlaceInv, KidsPlaced
<1>9. NodesShaped'
  <2>1. Shape(out[new])'
    BY <1>1, <1>2, <1>3 DEF Shape
  <2>2. \A q \in DOMAIN out : out'[q] = [out[q] EXCEPT !.kids = out'[q].kids]
    <3>1. \A q \in DOMAIN out : out[q] \in OutNode
      BY DEF TypeOK
    <3>2. \A o \in OutNode : o = [o EXCEPT !.kids = o.kids]
      BY DEF OutNode
    <3> QED
      BY <3>1, <3>2, <1>3
  <2> QED
    BY <2>1, <2>2, <1>2, <1>4, ShapesKept DEF PlaceInv
<1> QED
  BY <1>6, <1>7, <1>8, <1>9 DEF PlaceInv

LEMMA SameRef ==
  ASSUME Rooted, TypeOK, StackDiscipline, PlaceInv, BlockStep \/ SkipStep
  PROVE  PlaceInv'
<1>1. /\ Calling /\ UNCHANGED <<global, endpoint, out, stack_>>
      /\ \A q \in DOMAIN out : out'[q].src = out[q].src
  BY DEF BlockStep, SkipStep, Skip
<1>2. FramesNest' /\ Where(Here.node)' = Where(Here.node)
  <2>1. CASE SkipStep
    <3>1. FramesNest' /\ Here.node' = Here.node
      BY <2>1, <1>1, AdvancedNests DEF PlaceInv, SkipStep, Skip
    <3> QED
      BY <3>1, <1>1 DEF Where
  <2>2. CASE BlockStep
    <3>1. global[Arg].class = "Block" /\ 0 \in Nat
      BY <2>2 DEF BlockStep
    <3>2. FramesNest' /\ Here.node' = Arg
      BY <2>2, <3>1, <1>1, OpenedNests DEF PlaceInv, BlockStep
    <3>3. Where(Here.node)' = Where(Arg)
      BY <3>2, <1>1 DEF Where
    <3>4. Where(Arg) = NearestBlock(global, Arg)
      BY <3>1, <1>1, ArgFacts DEF Where
    <3> QED
      BY <3>2, <3>3, <3>4, <1>1, ArgFacts
  <2> QED
    BY <2>1, <2>2
<1>3. StackNests' /\ KidsPlaced' /\ NodesShaped'
  <2>1. Top' = Top
    BY <1>1 DEF Top
  <2>2. StackNests'
    BY <2>1, <1>1, <1>2 DEF PlaceInv, StackNests
  <2>3. NodesShaped'
    BY <1>1 DEF PlaceInv, NodesShaped, Shape
  <2> QED
    BY <2>2, <2>3, <1>1 DEF PlaceInv, KidsPlaced
<1> QED
  BY <1>2, <1>3 DEF PlaceInv

\* A frame is left: what belonged below its statement belongs above it.
LEMMA ReturnedNests ==
  ASSUME Rooted, TypeOK, FramesNest, Return, Len(out') = Len(out),
         \A q \in DOMAIN out : out'[q].src = out[q].src
  PROVE  /\ FramesNest'
         /\ Here.node \in DOMAIN global /\ Here.node # Client
         /\ NearestBlock(global, Here.node) = Where(Here.node)'
         /\ IF global[Here.node].class = "Block" THEN Here.own = 0
            ELSE Here.own # 0 /\ out[Here.own].src = Here.node
<1>0. PICK m \in Nat \ {0} : m + 1 = Len(frames)
  <2>1. PICK k \in Nat : k = Len(frames) /\ k > 1
    BY HereFacts DEF Return
  <2>2. k - 1 \in Nat \ {0} /\ (k - 1) + 1 = k
    BY <2>1
  <2> QED
    BY <2>1, <2>2
<1>1. /\ UNCHANGED global /\ Len(frames') = m /\ m <= Len(frames) /\ Here = frames[m + 1]
      /\ \A i \in 1..m : frames'[i] = frames[i]
  <2>1. Len(frames') = m /\ \A i \in DOMAIN frames' : frames'[i] = frames[i]
    BY <1>0, ReturnFrames
  <2>2. DOMAIN frames' = 1..m
    BY <2>1, ReturnFrames DEF FramesOK
  <2> QED
    BY <2>1, <2>2, <1>0 DEF Return, Here
<1>2. /\ frames'[1].own = 0
      /\ \A i \in 2..m :
           /\ frames'[i].node \in DOMAIN global
           /\ NearestBlock(global, frames'[i].node) = Where(frames'[i - 1].node)
           /\ IF global[frames'[i].node].class = "Block" THEN frames'[i].own = 0
              ELSE frames'[i].own # 0 /\ out'[frames'[i].own].src = frames'[i].node
  BY <1>0, <1>1, FramesKept
<1>3. FramesNest'
  BY <1>1, <1>2 DEF FramesNest, Where
<1>4. Here.node' = frames[m].node
  BY <1>0, <1>1 DEF Here
<1>5. m + 1 \in 2..Len(frames) /\ (m + 1) - 1 = m
  BY <1>0
<1>6. /\ Here.node \in DOMAIN global
      /\ NearestBlock(global, Here.node) = Where(frames[m].node)
      /\ IF global[Here.node].class = "Block" THEN Here.own = 0
         ELSE Here.own # 0 /\ out[Here.own].src = Here.node
  BY <1>1, <1>5 DEF FramesNest
<1>7. Where(Here.node)' = Where(frames[m].node)
  BY <1>1, <1>4 DEF Where
<1>8. Here.node # Client
  BY <1>6, TreeFacts DEF Client
<1> QED
  BY <1>3, <1>6, <1>7, <1>8

LEMMA ReturnRef ==
  ASSUME Rooted, TypeOK, StackDiscipline, PlaceInv, Return
  PROVE  PlaceInv'
<1>0. UNCHANGED <<global, endpoint>> /\ DOMAIN out = 1..Len(out) /\ Len(out) \in Nat
  BY DEF Return, TypeOK
<1>1. CASE Here.own = 0
  <2>1. UNCHANGED <<out, stack_>> /\ Top' = Top
    BY <1>1 DEF Return, Top
  <2>2. /\ FramesNest' /\ Here.node # Client
        /\ NearestBlock(global, Here.node) = Where(Here.node)' /\ global[Here.node].class = "Block"
    BY <2>1, <1>1, ReturnedNests DEF PlaceInv
  <2>3. Where(Here.node)' = Where(Here.node)
    BY <2>2 DEF Where
  <2>4. StackNests'
    BY <2>1, <2>3, <1>0 DEF PlaceInv, StackNests
  <2>5. NodesShaped' /\ KidsPlaced'
    BY <2>1, <1>0 DEF PlaceInv, NodesShaped, Shape, KidsPlaced
  <2> QED
    BY <2>2, <2>4, <2>5 DEF PlaceInv
<1>2. CASE Here.own # 0
  <2>0. PICK c \in DOMAIN out, n \in Nat, parent \in DOMAIN out :
           c = Top /\ n + 1 = Len(stack_) /\ n > 0 /\ parent = stack_[n] /\ parent < c
    <3>1. Top \in DOMAIN out /\ Len(stack_) \in Nat /\ Len(stack_) > 1
      BY <1>2, TopFacts, ReturnEffect
    <3>2. stack_[Len(stack_) - 1] \in DOMAIN out
      BY <3>1 DEF TypeOK
    <3>3. Len(stack_) - 1 \in Nat /\ (Len(stack_) - 1) + 1 = Len(stack_) /\ Len(stack_) - 1 > 0
      BY <3>1
    <3> QED
      BY <1>2, <3>1, <3>2, <3>3, ReturnEffect
  <2>1. /\ Here.own = c /\ Len(stack_') = n
        /\ \A i \in 1..n : stack_'[i] = stack_[i]
        /\ Len(out') = Len(out) /\ out' \in Seq(OutNode)
        /\ \A q \in DOMAIN out : out'[q].kids = IF q = parent THEN Append(out[q].kids, c)
                                                ELSE out[q].kids
        /\ \A q \in DOMAIN out : out'[q] = [out[q] EXCEPT !.kids = out'[q].kids]
    <3>1. Len(stack_) - 1 = n
      BY <2>0
    <3> QED
      BY <3>1, <1>2, <2>0, ReturnEffect DEF OutOK
  <2>2. \A q \in DOMAIN out : out'[q].src = out[q].src
    BY <2>1, <1>0, NodeKept
  <2>3. DOMAIN out' = DOMAIN out
    BY <2>1, <1>0
  <2>4. /\ FramesNest' /\ Here.node # Client
        /\ NearestBlock(global, Here.node) = Where(Here.node)'
        /\ out[c].src = Here.node
    BY <1>2, <2>1, <2>2, ReturnedNests DEF PlaceInv
  <2>5. NearestBlock(global, out[c].src) = out[parent].src
    <3>1. n + 1 \in 2..Len(stack_) /\ (n + 1) - 1 = n /\ stack_[n + 1] = c
      BY <2>0 DEF Top
    <3> QED
      BY <3>1, <2>0 DEF PlaceInv, StackNests
  <2>6. StackNests'
    <3>1. Top' = parent
      BY <2>0, <2>1 DEF Top
    <3>2. out'[Top'].src = Where(Here.node)'
      BY <3>1, <2>0, <2>2, <2>4, <2>5
    <3>3. ASSUME NEW s \in 2..n
          PROVE  NearestBlock(global, out'[stack_'[s]].src) = out'[stack_'[s - 1]].src
      <4>1. s \in 1..n /\ s - 1 \in 1..n /\ s \in 2..Len(stack_)
        BY <2>0
      <4>2. \A i \in 1..n : stack_[i] \in DOMAIN out
        BY <2>0 DEF TypeOK
      <4>3. NearestBlock(global, out[stack_[s]].src) = out[stack_[s - 1]].src
        BY <4>1 DEF PlaceInv, StackNests
      <4> QED
        BY <4>1, <4>2, <4>3, <2>1, <2>2
    <3> QED
      BY <3>2, <3>3, <2>1, <1>0 DEF StackNests
  <2>7. KidsPlaced'
    <3>1. NearestBlock(global, out'[c].src) = out[parent].src /\ c \in DOMAIN out'
      BY <2>0, <2>2, <2>3, <2>5
    <3>2. \A q \in DOMAIN out' \ DOMAIN out : out'[q].kids = << >>
      BY <2>3
    <3> QED
      BY <3>1, <3>2, <2>0, <2>1, <2>2, <1>0, PlacedKept DEF PlaceInv
  <2>8. NodesShaped'
    <3>1. PICK new \in Nat : new = Len(out) + 1
      BY <1>0
    <3>2. new \notin DOMAIN out /\ new \notin DOMAIN out' /\ DOMAIN out' \subseteq DOMAIN out \cup {new}
      BY <3>1, <2>3, <1>0
    <3> QED
      BY <3>2, <2>1, <1>0, ShapesKept DEF PlaceInv
  <2> QED
    BY <2>4, <2>6, <2>7, <2>8 DEF PlaceInv
<1> QED
  BY <1>1, <1>2

LEMMA NextPlaced ==
  ASSUME Rooted, TypeOK, StackDiscipline, PlaceInv, [Next]_vars
  PROVE  PlaceInv'
<1>1. CASE CrashStep \/ UNCHANGED vars
  <2>1. UNCHANGED <<global, endpoint, out, stack_, frames>>
    BY <1>1 DEF CrashStep, Crash, vars
  <2>2. Top' = Top /\ Here' = Here
    BY <2>1 DEF Top, Here
  <2>3. FramesNest' /\ StackNests'
    BY <2>1, <2>2 DEF PlaceInv, FramesNest, StackNests, Where
  <2>4. KidsPlaced' /\ NodesShaped'
    BY <2>1 DEF PlaceInv, KidsPlaced, NodesShaped, Shape
  <2> QED
    BY <2>3, <2>4 DEF PlaceInv
<1> QED
  BY <1>1, StepKinds, EmitRef, EnterRef, SameRef, ReturnRef

\* What a step visits has the roles that it needs, or the step is the last.
LEMMA NextSound ==
  ASSUME Rooted, TypeOK, StackDiscipline, PrefixInv, SoundSoFar, [Next]_vars
  PROVE  SoundSoFar'
<1>1. ASSUME UNCHANGED <<global, crashed>>, Pending' = Pending PROVE SoundSoFar'
  <2>1. \A n : (Visited(n)' <=> Visited(n)) /\ (Sound(n)' <=> Sound(n))
    BY <1>1 DEF Visited, Sound
  <2> QED
    BY <2>1, <1>1 DEF SoundSoFar
<1>2. ASSUME UNCHANGED crashed, ~crashed, Called, Sound(Arg) PROVE SoundSoFar'
  <2>1. /\ UNCHANGED global /\ DOMAIN global = 1..Len(global)
        /\ \A n \in 1..Len(global) : Visited(n)' <=> Visited(n) \/ n = Arg
    BY <1>2, CallVisits, TreeFacts DEF Called, PrefixInv
  <2>2. \A n : Sound(n)' <=> Sound(n)
    BY <2>1 DEF Sound
  <2> QED
    BY <2>1, <2>2, <1>2 DEF SoundSoFar
<1>3. CASE UNCHANGED vars
  <2>1. UNCHANGED <<global, crashed, frames>>
    BY <1>3 DEF vars
  <2>2. Pending' = Pending
    BY <2>1 DEF Pending, Kids
  <2> QED
    BY <2>1, <2>2, <1>1
<1>4. CASE EmitStep \/ EnterStep
  <2>1. UNCHANGED <<global, crashed>> /\ ~crashed /\ Sound(Arg) /\ Calling
    BY <1>4 DEF EmitStep, EnterStep, Emit, Enter, Calling
  <2>2. Called
    <3>1. CASE EmitStep
      BY <2>1, <3>1 DEF EmitStep, Emit, Called
    <3>2. CASE EnterStep
      <4>1. Len(out) + 1 \in Nat
        BY TopFacts
      <4>2. Opens(Len(out) + 1)
        BY <3>2 DEF EnterStep, Enter, Opens
      <4> QED
        BY <4>1, <4>2, <2>1 DEF Called
    <3> QED
      BY <1>4, <3>1, <3>2
  <2> QED
    BY <2>1, <2>2, <1>2
<1>5. CASE BlockStep \/ SkipStep
  <2>1. UNCHANGED <<global, crashed>> /\ ~crashed /\ Sound(Arg)
    BY <1>5 DEF BlockStep, SkipStep, Skip, Sound, Calling
  <2>2. Called
    <3>1. 0 \in Nat
      OBVIOUS
    <3> QED
      BY <1>5, <3>1 DEF BlockStep, SkipStep, Skip, Called, Opens
  <2> QED
    BY <2>1, <2>2, <1>2
<1>6. CASE CrashStep
  <2>1. PICK n \in DOMAIN global : crashed' /\ ~Sound(n) /\ UNCHANGED global
    BY <1>6 DEF CrashStep, Crash, Calling
  <2>2. ~Sound(n)'
    BY <2>1 DEF Sound
  <2> QED
    BY <2>1, <2>2 DEF SoundSoFar
<1>7. CASE Return
  <2>1. Len(out') = Len(out)
    <3>1. CASE Here.own = 0
      BY <1>7, <3>1 DEF Return
    <3>2. CASE Here.own # 0
      BY <1>7, <3>2, ReturnEffect
    <3> QED
      BY <3>1, <3>2
  <2>2. Pending' = Pending
    BY <1>7, <2>1, ReturnFrontier DEF PrefixInv
  <2> QED
    BY <1>7, <2>2, <1>1 DEF Return
<1> QED
  BY <1>3, <1>4, <1>5, <1>6, <1>7, StepKinds
LEMMA InitPlaced == Init => PlaceInv /\ SoundSoFar
<1> SUFFICES ASSUME Init PROVE PlaceInv /\ SoundSoFar
  OBVIOUS
<1>1. Rooted /\ Len(global) \in Nat \ {0} /\ DOMAIN global = 1..Len(global)
  BY TreeFacts DEF Init, Rooted
<1>2. /\ Len(frames) = 1 /\ DOMAIN frames = {1}
      /\ frames[1] = [node |-> Client, idx |-> 1, own |-> 0]
      /\ Len(stack_) = 1 /\ stack_[1] = 1 /\ DOMAIN out = {1}
      /\ out[1].src = 0 /\ out[1].class = "Block" /\ out[1].kids = << >> /\ crashed = FALSE
  BY DEF Init, NewNode
<1>3. FramesNest
  BY <1>2 DEF FramesNest
<1>4. StackNests
  BY <1>2 DEF StackNests, Top, Here, Where
<1>5. KidsPlaced /\ NodesShaped
  BY <1>2 DEF KidsPlaced, NodesShaped
<1>6. SoundSoFar
  <2>1. Kids(Client) = <<1>>
    BY DEF Kids
  <2>2. 1 \in Pending
    BY <1>2, <2>1 DEF Pending
  <2>3. \A n \in DOMAIN global : ~Visited(n)
    BY <1>1, <2>2 DEF Visited
  <2> QED
    BY <1>2, <2>3 DEF SoundSoFar
<1> QED
  BY <1>3, <1>4, <1>5, <1>6 DEF PlaceInv
-----------------------------------------------------------------------------
\* What is kept is what is relevant, and what has all roles is complete.
LEMMA SameKept ==
  ASSUME Rooted, NEW n
  PROVE  n \in Abstract!Kept(global, endpoint) <=> n \in DOMAIN global /\ Relevant(n)
<1>1. ASSUME n \in DOMAIN global PROVE global[n].class \in Class
  <2>1. global[n] \in SourceNode
    BY <1>1, TreeFacts
  <2> QED
    BY <2>1 DEF SourceNode
<1>2. n \in DOMAIN global => (Abstract!TakesPart(global, endpoint, n) <=> Relevant(n))
  BY <1>1 DEF Abstract!TakesPart, Relevant, Class, BlockClass, LeafClass
<1> QED
  BY <1>2 DEF Abstract!Kept

LEMMA SameComplete ==
  Abstract!Complete(global) <=> \A n \in DOMAIN global : Sound(n)
BY DEF Abstract!Complete, Abstract!Whole, Sound

\* The invariants together.
AllInv == /\ Rooted /\ TypeOK /\ StackDiscipline /\ PrefixInv /\ SinglePlace /\ SiblingOrder
          /\ PlaceInv /\ SoundSoFar

\* At the end all statements that are kept have a node, and all nodes but the root are
\* children.
LEMMA EndFacts ==
  ASSUME AllInv, Done
  PROVE  /\ \A n : n \in Abstract!Kept(global, endpoint)
                     <=> n \in DOMAIN global /\ \E k \in DOMAIN out \ {1} : out[k].src = n
         /\ \A k \in DOMAIN out \ {1} :
              /\ out[k].src \in Abstract!Kept(global, endpoint)
              /\ \E p \in DOMAIN out : \E i \in DOMAIN out[p].kids : out[p].kids[i] = k
         /\ 1 \in DOMAIN out /\ out[1].src = 0
<1>0. Rooted /\ TypeOK /\ StackDiscipline /\ PrefixProjected /\ SinglePlace /\ PlaceInv
  BY DEF AllInv, PrefixInv
<1>1. /\ DOMAIN global = 1..Len(global) /\ DOMAIN out = 1..Len(out) /\ Len(out) \in Nat \ {0}
      /\ 1 \in DOMAIN out /\ out[1].src = 0
  BY <1>0, TreeFacts DEF TypeOK, PlaceInv, NodesShaped
<1>2. \A n \in DOMAIN global : (\E k \in DOMAIN out : out[k].src = n) <=> Relevant(n)
  BY <1>0, AllVisited DEF PrefixProjected
<1>3. \A n : n \in Abstract!Kept(global, endpoint)
               <=> n \in DOMAIN global /\ \E k \in DOMAIN out \ {1} : out[k].src = n
  BY <1>0, <1>1, <1>2, SameKept
<1>4. ASSUME NEW k \in DOMAIN out \ {1}
      PROVE  /\ out[k].src \in Abstract!Kept(global, endpoint)
             /\ \E p \in DOMAIN out : \E i \in DOMAIN out[p].kids : out[p].kids[i] = k
  <2>1. out[k].src \in DOMAIN global
    <3>1. out[k].src \in 0..Len(global)
      BY DEF AllInv, PrefixInv, SourcesIn
    <3>2. 1 < k
      BY <1>1
    <3>3. out[1].src < out[k].src
      BY <1>0, <1>1, <3>2 DEF PrefixProjected
    <3> QED
      BY <3>1, <3>3, <1>1
  <2>2. ~OnStack(k)
    <3>1. Pushed = {}
      <4>1. DOMAIN frames = {1} /\ frames[1].own = 0
        BY <1>0 DEF Done, TypeOK, PlaceInv, FramesNest
      <4> QED
        BY <4>1 DEF Pushed
    <3>2. stack_[1] = 1 /\ DOMAIN stack_ = 1..Len(stack_) /\ Len(stack_) \in Nat
      BY <1>0 DEF StackDiscipline, TypeOK
    <3>3. \A i \in 2..Len(stack_) : FALSE
      BY <1>0, <3>1 DEF StackDiscipline
    <3> QED
      BY <3>2, <3>3 DEF OnStack
  <2>3. PICK p \in 1..(k - 1) : \E i \in DOMAIN out[p].kids : OnlyChild(p, i, k)
    BY <1>0, <2>2 DEF SinglePlace
  <2>4. p \in DOMAIN out
    BY <1>1
  <2> QED
    BY <2>1, <2>3, <2>4, <1>3 DEF OnlyChild
<1> QED
  BY <1>1, <1>3, <1>4

\* The children of a node are, in order, the statements that it is the nearest for.
LEMMA KidsAnswer ==
  ASSUME AllInv, Done, NEW k \in DOMAIN out
  PROVE  [i \in DOMAIN out[k].kids |-> out[out[k].kids[i]].src]
           = Abstract!Ordered({m \in Abstract!Kept(global, endpoint) :
                                 Abstract!Encloser(global, m) = out[k].src})
<1> DEFINE K == Abstract!Kept(global, endpoint)
           n == out[k].src
           P == {m \in K : NearestBlock(global, m) = n}
           s == [i \in DOMAIN out[k].kids |-> out[out[k].kids[i]].src]
<1>0. Rooted /\ TypeOK /\ PrefixProjected /\ SiblingOrder /\ KidsPlaced
  BY DEF AllInv, PrefixInv, PlaceInv
<1>1. Len(global) \in Nat /\ P \in SUBSET (1..Len(global))
  BY <1>0, SameKept, TreeFacts
<1>2. /\ out[k].kids \in Seq(Nat)
      /\ \A i \in DOMAIN out[k].kids : out[k].kids[i] \in DOMAIN out \ {1}
  BY <1>0, KidsTyped DEF TypeOK
<1>3. \A q \in DOMAIN out : out[q].src \in Nat /\ q \in Nat
  <2>1. \A q \in DOMAIN out : out[q] \in OutNode /\ q \in Nat
    BY <1>0 DEF TypeOK
  <2> QED
    BY <2>1 DEF OutNode
<1>4. s \in Seq(Nat) /\ DOMAIN s = DOMAIN out[k].kids
  BY <1>2, <1>3
<1>5. \A i, j \in DOMAIN s : i < j => s[i] < s[j]
  <2> SUFFICES ASSUME NEW i \in DOMAIN out[k].kids, NEW j \in DOMAIN out[k].kids, i < j
               PROVE  out[out[k].kids[i]].src < out[out[k].kids[j]].src
    BY <1>4
  <2>1. out[k].kids[i] < out[k].kids[j]
    BY <1>0 DEF SiblingOrder
  <2> QED
    BY <2>1, <1>0, <1>2 DEF PrefixProjected
<1>6. ASSUME NEW m PROVE m \in P <=> \E i \in DOMAIN s : s[i] = m
  <2>1. ASSUME NEW i \in DOMAIN out[k].kids PROVE out[out[k].kids[i]].src \in P
    <3>1. out[out[k].kids[i]].src \in K
      BY <1>2, EndFacts
    <3>2. NearestBlock(global, out[out[k].kids[i]].src) = n
      BY <1>0 DEF KidsPlaced
    <3> QED
      BY <3>1, <3>2
  <2>2. ASSUME m \in P PROVE \E i \in DOMAIN out[k].kids : out[out[k].kids[i]].src = m
    <3>1. PICK c \in DOMAIN out \ {1} : out[c].src = m
      BY <2>2, EndFacts
    <3>2. PICK p \in DOMAIN out : \E i \in DOMAIN out[p].kids : out[p].kids[i] = c
      BY EndFacts
    <3>3. PICK i \in DOMAIN out[p].kids : out[p].kids[i] = c
      BY <3>2
    <3>4. out[p].src = out[k].src
      BY <2>2, <3>1, <3>3, <1>0 DEF KidsPlaced
    <3>5. p = k
      BY <3>4, <1>0, SourcesDiffer
    <3> QED
      BY <3>1, <3>3, <3>5
  <2> QED
    BY <2>1, <2>2, <1>4
<1> HIDE DEF P, s
<1>7. s = Ordered(P)
  BY <1>1, <1>4, <1>5, <1>6, OrderedUnique
<1>8. P = {m \in K : Abstract!Encloser(global, m) = n}
  BY SameEncloser DEF P
<1>9. s = Abstract!Ordered({m \in K : Abstract!Encloser(global, m) = n})
  BY <1>7, <1>8, SameOrdered
<1> QED
  BY <1>9 DEF s

\* Sends and receives are told apart by the party that is left.
LEMMA MadeAnswer ==
  ASSUME AllInv, Done
  PROVE  /\ Made("send") = {n \in Abstract!Interactions(global, endpoint) : global[n].sndr = endpoint}
         /\ Made("receive") = {n \in Abstract!Interactions(global, endpoint) : global[n].sndr # endpoint}
<1> DEFINE K == Abstract!Kept(global, endpoint)
<1>1. ASSUME NEW k \in DOMAIN out \ {1}
      PROVE  /\ out[k].src \in K /\ out[k].class = global[out[k].src].class
             /\ out[k].class = "Interaction" =>
                  (out[k].sndr = NoRole <=> global[out[k].src].sndr = endpoint)
  BY EndFacts DEF AllInv, PlaceInv, NodesShaped, Shape
<1>2. out[1].class # "Interaction"
  BY DEF AllInv, PlaceInv, NodesShaped
<1>3. \A n \in K : \E k \in DOMAIN out \ {1} : out[k].src = n
  BY EndFacts
<1>4. ASSUME NEW side \in {"send", "receive"}, NEW n
      PROVE  n \in Made(side) <=> /\ n \in K /\ global[n].class = "Interaction"
                                  /\ (global[n].sndr = endpoint) = (side = "send")
  <2>1. n \in Made(side) <=> \E k \in DOMAIN out : /\ out[k].src = n /\ out[k].class = "Interaction"
                                                   /\ (out[k].sndr = NoRole) = (side = "send")
    BY DEF Made
  <2> QED
    BY <2>1, <1>1, <1>2, <1>3
<1>5. "send" # "receive"
  OBVIOUS
<1> QED
  BY <1>4, <1>5 DEF Abstract!Interactions

\* What the visitor answers is the local type.
LEMMA DoneAnswer ==
  ASSUME AllInv, Done
  PROVE  Abstract!Complete(global) /\ Result = Abstract!LocalTypeOf(global, endpoint)
<1> DEFINE K == Abstract!Kept(global, endpoint)
           below(n) == Abstract!Ordered({m \in K : Abstract!Encloser(global, m) = n})
           shown(n) == [i \in DOMAIN out[PlaceOf(n)].kids |-> out[out[PlaceOf(n)].kids[i]].src]
<1>1. ~crashed /\ Abstract!Complete(global)
  <2>1. ~crashed /\ \A n : Visited(n)
    BY AllVisited DEF Done, AllInv
  <2> QED
    BY <2>1, SameComplete DEF AllInv, SoundSoFar
<1>2. {out[k].src : k \in DOMAIN out} = K \cup {0}
  BY EndFacts
<1>3. ASSUME NEW n \in K \cup {0} PROVE shown(n) = below(n)
  <2>1. \E k \in DOMAIN out : out[k].src = n
    BY <1>2
  <2>2. PlaceOf(n) \in DOMAIN out /\ out[PlaceOf(n)].src = n
    BY <2>1 DEF PlaceOf
  <2> QED
    BY <2>2, KidsAnswer
<1>4. [n \in {out[k].src : k \in DOMAIN out} |-> shown(n)] = [n \in K \cup {0} |-> below(n)]
  BY <1>2, <1>3
<1>5. Result = [status   |-> "done",
                kids     |-> [n \in {out[k].src : k \in DOMAIN out} |-> shown(n)],
                sends    |-> Made("send"),
                receives |-> Made("receive")]
  BY <1>1 DEF Result
<1> QED
  BY <1>1, <1>4, <1>5, MadeAnswer DEF Abstract!LocalTypeOf

LEMMA RunningAnswer ==
  ASSUME ~crashed, ~Done
  PROVE  Result = Abstract!Unanswered
BY DEF Result, Abstract!Unanswered

LEMMA CrashAnswer ==
  ASSUME AllInv, crashed
  PROVE  ~Abstract!Complete(global) /\ Result = Abstract!Undefined
<1>1. Result = Abstract!Undefined
  BY DEF Result, Done, Abstract!Undefined
<1> QED
  BY <1>1, SameComplete DEF AllInv, SoundSoFar

LEMMA NextAll == AllInv /\ [Next]_vars => AllInv'
<1> SUFFICES ASSUME AllInv, [Next]_vars PROVE AllInv'
  OBVIOUS
<1> USE DEF AllInv
<1>1. Rooted' /\ TypeOK' /\ StackDiscipline'
  BY NextStack
<1>2. PrefixInv' /\ SinglePlace' /\ SiblingOrder' /\ PlaceInv' /\ SoundSoFar'
  BY NextPrefix, NextPlace, NextOrder, NextPlaced, NextSound
<1> QED
  BY <1>1, <1>2

LEMMA NextRuns ==
  ASSUME Rooted, TypeOK, Next
  PROVE  UNCHANGED <<global, endpoint>> /\ ~crashed /\ ~Done
<1>1. /\ Len(frames) \in Nat
      /\ Here.idx \in Nat /\ Len(Kids(Here.node)) \in Nat
  BY HereFacts, ChildFacts
<1>2. CASE Return
  <2>1. UNCHANGED <<global, endpoint>> /\ ~crashed /\ Len(frames) > 1
    BY <1>2 DEF Return
  <2>2. PICK k \in Nat : k = Len(frames)
    BY <1>1
  <2>3. k # 1
    BY <2>1, <2>2
  <2> QED
    BY <2>1, <2>2, <2>3 DEF Done
<1>3. CASE Calling /\ UNCHANGED <<global, endpoint>>
  BY <1>1, <1>3 DEF Calling, Done
<1> QED
  BY <1>2, <1>3, StepKinds DEF EmitStep, EnterStep, BlockStep, SkipStep, CrashStep,
     Emit, Enter, Skip, Crash

\* A traversal that is over takes no step, and one that is not has no answer yet: the
\* step that ends it is the step of LocalType.
LEMMA StepRefines ==
  ASSUME AllInv, AllInv', [Next]_vars
  PROVE  [Abstract!Project]_(Abstract!absVars)
<1>1. CASE UNCHANGED vars
  <2>1. UNCHANGED <<global, endpoint, out, frames, crashed>>
    BY <1>1 DEF vars
  <2>2. Result' = Result
    BY <2>1 DEF Result, Done, Made, PlaceOf, Here, Kids
  <2> QED
    BY <2>1, <2>2 DEF Abstract!absVars
<1>2. CASE Next
  <2>1. UNCHANGED <<global, endpoint>> /\ ~crashed /\ ~Done
    <3>1. Rooted /\ TypeOK
      BY DEF AllInv
    <3> QED
      BY <1>2, <3>1, NextRuns
  <2>2. Result = Abstract!Unanswered
    BY <2>1, RunningAnswer
  <2>3. CASE crashed'
    <3>1. (~Abstract!Complete(global) /\ Result = Abstract!Undefined)'
      BY <2>3, CrashAnswer, PTL
    <3> QED
      BY <2>1, <2>2, <3>1 DEF Abstract!Project
  <2>4. CASE Done'
    <3>1. (Abstract!Complete(global) /\ Result = Abstract!LocalTypeOf(global, endpoint))'
      BY <2>4, DoneAnswer, PTL
    <3> QED
      BY <2>1, <2>2, <3>1 DEF Abstract!Project
  <2>5. CASE ~crashed' /\ ~Done'
    <3>1. (Result = Abstract!Unanswered)'
      BY <2>5, RunningAnswer, PTL
    <3> QED
      BY <2>1, <2>2, <3>1 DEF Abstract!absVars
  <2> QED
    BY <2>3, <2>4, <2>5
<1> QED
  BY <1>1, <1>2

\* What st_node_project answers for a global type and an endpoint is the local type that
\* LocalType states, with each statement the endpoint takes part in under the nearest
\* block that is kept and in the order of the global type; and no role is dereferenced
\* that was never set unless the global type is incomplete, for every set of roles and
\* every global type.
THEOREM Refinement == Spec => ImplementsLocalType
<1>1. Init => AllInv
  BY InitStack, InitPlace, InitOrder, InitPrefix, InitPlaced DEF AllInv
<1>2. Init => Abstract!AbsInit
  <2>1. Init => ~crashed /\ ~Done
    <3>1. Kids(Client) = <<1>>
      BY DEF Kids
    <3> QED
      BY <3>1 DEF Init, Done, Here
  <2> QED
    BY <2>1, RunningAnswer DEF Abstract!AbsInit
<1>3. AllInv /\ AllInv' /\ [Next]_vars => [Abstract!Project]_(Abstract!absVars)
  BY StepRefines
<1> QED
  BY <1>1, <1>2, <1>3, NextAll, PTL DEF Spec, ImplementsLocalType, Abstract!AbsSpec
=============================================================================
