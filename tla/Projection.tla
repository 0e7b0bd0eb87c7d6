----------------------------- MODULE Projection -----------------------------
(***************************************************************************)
(* Endpoint projection of a global session type: ProjectionVisitor of      *)
(* util/project.h, run by st_node_project, with the tree dispatch of       *)
(* util/node_visitor.cc and the node classes it builds.                    *)
(*                                                                         *)
(* The global type is a tree of source nodes, numbered in pre-order, node  *)
(* 1 being the root.  One step of the specification is one call of a visit *)
(* method up to the next nested accept, or one return from a block.  The   *)
(* C++ call stack (frames) and the visitor's own stack of blocks under     *)
(* construction (stack_) are separate variables, because whether the two   *)
(* stay in step is what can go wrong in a visitor written this way.        *)
(***************************************************************************)
EXTENDS PreOrder

CONSTANTS Role,        \* role names: Role::matches compares nothing else
          NoRole,      \* the null Role pointer
          Protocols    \* the global types that may be projected

BlockClass == {"Block", "Choice", "Recur", "Par", "Interruptible"}
LeafClass  == {"Interaction", "Continue", "Nested"}
Class      == BlockClass \cup LeafClass

\* A node of the global type.  Messages, labels and scopes are copied as they
\* are, so a projected node refers to its source node instead of repeating them.
SourceNode == [class : Class,
               kids  : Seq(Nat),                \* children_ of a block
               sndr  : Role \cup {NoRole},      \* sndr_ of an interaction
               rcvrs : Seq(Role),               \* rcvrs_ of an interaction
               at    : Role \cup {NoRole},      \* at_ of a choice
               args  : Seq(Role)]               \* role_args_ of a nested session

\* A node the visitor allocates.  src = 0 is the root of the constructor; copied
\* are the children that came with clone(), in front of those appended later.
OutNode == [src    : Nat,
            class  : Class,                     \* its C++ class
            type   : Class,                     \* what type() answers
            copied : Seq(Nat),
            kids   : Seq(Nat),
            sndr   : Role \cup {NoRole},
            rcvrs  : Seq(Role)]

ASSUME RolesAssumption == NoRole \notin Role
ASSUME ProtocolsAssumption ==
  \A g \in Protocols :
    /\ g \in Seq(SourceNode) /\ g # << >> /\ PreOrderTree(g)
    /\ \A n \in DOMAIN g : g[n].class \notin BlockClass => g[n].kids = << >>

VARIABLES global,     \* the tree being projected
          endpoint,   \* endpoint_ of the visitor
          out,        \* nodes allocated so far, by order of allocation
          stack_,     \* the visitor's stack: positions in out
          frames,     \* active calls that iterate over children, client first
          crashed     \* a null Role was dereferenced

vars == <<global, endpoint, out, stack_, frames, crashed>>

-----------------------------------------------------------------------------
\* The client that calls root->accept(visitor) is the frame of node 0; it makes
\* one call.  own is the node the frame's visit method pushed, 0 when none.
Client == 0
Frame  == [node : Nat, idx : Nat, own : Nat]

Kids(n) == IF n = Client THEN <<1>> ELSE global[n].kids
Here    == frames[Len(frames)]
Arg     == Kids(Here.node)[Here.idx]
Top     == stack_[Len(stack_)]

NewNode(src, class, type, copied, sndr, rcvrs) ==
  [src |-> src, class |-> class, type |-> type, copied |-> copied,
   kids |-> << >>, sndr |-> sndr, rcvrs |-> rcvrs]

\* Mutants of AppendChild: the call is lost, the child goes to the front, the
\* child replaces the ones before it.
AppendNothing(nodes, parent, child) == nodes
PrependChild(nodes, parent, child) ==
  [nodes EXCEPT ![parent].kids = <<child>> \o @]
ReplaceChildren(nodes, parent, child) == [nodes EXCEPT ![parent].kids = <<child>>]

AppendChild(nodes, parent, child) ==
  [nodes EXCEPT ![parent].kids = Append(@, child)]

\* The loop of visit(BlockNode) calls accept on the child at idx, of class c.
Accepting(c) ==
  /\ ~crashed
  /\ Here.idx <= Len(Kids(Here.node))
  /\ global[Arg].class = c

\* Mutant of Advanced: the loop counts a child twice.
AdvancedByTwo == [frames EXCEPT ![Len(frames)].idx = @ + 2]

Advanced == [frames EXCEPT ![Len(frames)].idx = @ + 1]

\* A leaf: append the new node to the block on top of the stack.
Emit(node) ==
  /\ out' = AppendChild(Append(out, node), Top, Len(out) + 1)
  /\ frames' = Advanced
  /\ UNCHANGED <<global, endpoint, stack_, crashed>>

\* A block: push the new node and start on the children of the source node.
Enter(node) ==
  /\ out' = Append(out, node)
  /\ stack_' = Append(stack_, Len(out) + 1)
  /\ frames' = Append(Advanced, [node |-> Arg, idx |-> 1, own |-> Len(out) + 1])
  /\ UNCHANGED <<global, endpoint, crashed>>

\* Mutant of Skip: the loop stays at the child that it has left out.
SkipForever == UNCHANGED vars

Skip  == frames' = Advanced /\ UNCHANGED <<global, endpoint, out, stack_, crashed>>
Crash == crashed' = TRUE /\ UNCHANGED <<global, endpoint, out, stack_, frames>>

\* Mutants: only the first role of a list is compared, and a role that receives
\* its own message is taken for a receiver.
MatchesFirst(roles)    == roles # << >> /\ roles[1] = endpoint
SendsToOthersOnly(n)   == global[n].sndr = endpoint /\ \A i \in DOMAIN global[n].rcvrs :
                                                         global[n].rcvrs[i] # endpoint
\* Mutant of Popped: pop() is forgotten.
NotPopped == stack_

Matches(roles) == \E i \in DOMAIN roles : roles[i] = endpoint
Sends(n)    == global[n].sndr = endpoint
Receives(n) == ~Sends(n) /\ Matches(global[n].rcvrs)
Popped      == SubSeq(stack_, 1, Len(stack_) - 1)

-----------------------------------------------------------------------------
\* visit(BlockNode *): no node of its own, children go to the current top.
VisitBlock ==
  /\ Accepting("Block")
  /\ frames' = Append(Advanced, [node |-> Arg, idx |-> 1, own |-> 0])
  /\ UNCHANGED <<global, endpoint, out, stack_, crashed>>

\* visit(InteractionNode *): the sender is tested first and returns early, so a
\* role that is both sender and receiver keeps only the send.
VisitInteraction ==
  /\ Accepting("Interaction")
  /\ LET n == global[Arg] IN
     \/ n.sndr = NoRole /\ Crash
     \/ /\ n.sndr # NoRole /\ Sends(Arg)
        /\ Emit(NewNode(Arg, "Interaction", "Interaction", << >>, NoRole, n.rcvrs))
     \/ /\ n.sndr # NoRole /\ Receives(Arg)
        /\ Emit(NewNode(Arg, "Interaction", "Interaction", << >>, n.sndr, << >>))
     \/ n.sndr # NoRole /\ ~Sends(Arg) /\ ~Receives(Arg) /\ Skip

\* visit(ChoiceNode *): endpoint_->matches(at()) reads the name of at().
VisitChoice ==
  /\ Accepting("Choice")
  /\ \/ global[Arg].at = NoRole /\ Crash
     \/ /\ global[Arg].at # NoRole
        /\ Enter(NewNode(Arg, "Choice", "Choice", << >>, NoRole, << >>))

VisitRecur ==
  Accepting("Recur") /\ Enter(NewNode(Arg, "Recur", "Recur", << >>, NoRole, << >>))

VisitContinue ==
  /\ Accepting("Continue")
  /\ Emit(NewNode(Arg, "Continue", "Continue", << >>, NoRole, << >>))

VisitPar ==
  Accepting("Par") /\ Enter(NewNode(Arg, "Par", "Par", << >>, NoRole, << >>))

\* visit(NestedNode *): one clone at the first role argument that matches.
VisitNested ==
  /\ Accepting("Nested")
  /\ \/ /\ Matches(global[Arg].args)
        /\ Emit(NewNode(Arg, "Nested", "Nested", << >>, NoRole, << >>))
     \/ ~Matches(global[Arg].args) /\ Skip

\* visit(InterruptibleNode *): clone() brings a deep copy of every child along
\* and, being a block's copy constructor, the type tag of a plain block.
VisitInterruptible ==
  /\ Accepting("Interruptible")
  /\ Enter(NewNode(Arg, "Interruptible", "Block", Kids(Arg), NoRole, << >>))

\* The loop over the children is over: visit(BlockNode) returns and, when the
\* visit method that called it had pushed a node, that node is popped and
\* appended to the block now on top.
Return ==
  /\ ~crashed
  /\ Len(frames) > 1
  /\ Here.idx > Len(Kids(Here.node))
  /\ frames' = SubSeq(frames, 1, Len(frames) - 1)
  /\ \/ Here.own = 0 /\ UNCHANGED <<out, stack_>>
     \/ /\ Here.own # 0
        /\ stack_' = Popped
        /\ out' = AppendChild(out, stack_'[Len(stack_')], Here.own)
  /\ UNCHANGED <<global, endpoint, crashed>>

Done == ~crashed /\ Len(frames) = 1 /\ Here.idx > Len(Kids(Here.node))

Init ==
  /\ global \in Protocols
  /\ endpoint \in Role
  /\ out = <<NewNode(0, "Block", "Block", << >>, NoRole, << >>)>>
  /\ stack_ = <<1>>
  /\ frames = <<[node |-> Client, idx |-> 1, own |-> 0]>>
  /\ crashed = FALSE

Next ==
  \/ VisitBlock \/ VisitInteraction \/ VisitChoice \/ VisitRecur
  \/ VisitContinue \/ VisitPar \/ VisitNested \/ VisitInterruptible \/ Return

Spec     == Init /\ [][Next]_vars
\* The visitor runs in one thread that nothing blocks: it keeps taking steps.
FairSpec == Spec /\ WF_vars(Next)
-----------------------------------------------------------------------------
\* Every variable has its type: the ids on the stack, in children and in frames
\* name allocated nodes, and the client's frame is never left.
TypeOK ==
  /\ global \in Seq(SourceNode) /\ global # << >>
  /\ endpoint \in Role
  /\ out \in Seq(OutNode) /\ out # << >>
  /\ \A p \in DOMAIN out : \A i \in DOMAIN out[p].kids : out[p].kids[i] \in DOMAIN out \ {1}
  /\ stack_ \in Seq(DOMAIN out)
  /\ frames \in Seq(Frame) /\ frames # << >>
  /\ frames[1].node = Client
  /\ \A i \in DOMAIN frames :
        /\ frames[i].node \in 0..Len(global)
        /\ frames[i].idx \in 1..(Len(Kids(frames[i].node)) + 1)
        /\ frames[i].own \in 0..Len(out)
  /\ crashed \in BOOLEAN

OnStack(k) == \E i \in DOMAIN stack_ : stack_[i] = k
Pushed     == {frames[i].own : i \in DOMAIN frames} \ {0}

\* The visitor's stack holds the constructor's root and, above it, exactly the
\* nodes pushed by the active visit methods, innermost last, all of them blocks:
\* top() is never called on an empty stack, the dynamic_cast to BlockNode never
\* yields null, and get_root() after the traversal answers the root.
StackDiscipline ==
  /\ stack_ # << >> /\ stack_[1] = 1
  /\ {stack_[i] : i \in 2..Len(stack_)} = Pushed
  /\ \A i, j \in DOMAIN stack_ : i < j => stack_[i] < stack_[j]
  /\ \A i, j \in DOMAIN frames :
        i < j /\ frames[i].own # 0 /\ frames[j].own # 0 => frames[i].own < frames[j].own
  /\ \A i \in DOMAIN stack_ : out[stack_[i]].class \in BlockClass

\* Where k is a child: the i-th of p, and of no other, or not at all.
OnlyChild(p, i, k) ==
  /\ out[p].kids[i] = k
  /\ \A q \in DOMAIN out : \A j \in DOMAIN out[q].kids : out[q].kids[j] = k => q = p /\ j = i
NoChild(k) == \A q \in DOMAIN out : \A j \in DOMAIN out[q].kids : out[q].kids[j] # k

\* Every node the visitor allocated has one place: it waits on the stack, or it
\* is a child of one older node, once.  So what get_root() answers is a tree
\* that holds all of them, and its destructor frees each of them once.
SinglePlace ==
  \A k \in DOMAIN out \ {1} :
    \/ OnStack(k) /\ NoChild(k)
    \/ ~OnStack(k) /\ \E p \in 1..(k - 1) : \E i \in DOMAIN out[p].kids : OnlyChild(p, i, k)

\* Children stand in the order in which their sources are met, and none of them
\* is younger than a block still under construction above their parent.
SiblingOrder ==
  /\ \A p \in DOMAIN out : \A i, j \in DOMAIN out[p].kids :
        i < j => out[p].kids[i] < out[p].kids[j]
  /\ \A s \in DOMAIN stack_ : \A i \in DOMAIN out[stack_[s]].kids :
        s < Len(stack_) => out[stack_[s]].kids[i] < stack_[s + 1]

\* Statements the endpoint takes part in, and statements that give structure.
Relevant(n) ==
  CASE global[n].class = "Block"       -> FALSE
    [] global[n].class = "Interaction" -> \/ global[n].sndr = endpoint
                                          \/ endpoint \in {global[n].rcvrs[i] : i \in DOMAIN global[n].rcvrs}
    [] global[n].class = "Nested"      -> endpoint \in {global[n].args[i] : i \in DOMAIN global[n].args}
    [] OTHER                           -> TRUE

\* Children of active blocks that no call has reached yet.
Pending == UNION {{Kids(frames[i].node)[j] : j \in frames[i].idx..Len(Kids(frames[i].node))} :
                   i \in DOMAIN frames}
Visited(n) == \A m \in Pending : n < m

\* At every moment exactly the part of the global type that precedes the next
\* statement is projected: each relevant statement of it once, in source order,
\* nothing of the rest, and nothing the endpoint takes no part in.
PrefixProjected ==
  /\ \A k, l \in DOMAIN out : k < l => out[k].src < out[l].src
  /\ \A n \in DOMAIN global :
        (\E k \in DOMAIN out : out[k].src = n) <=> (Visited(n) /\ Relevant(n))

\* A step only adds: nodes are not freed or rewritten, a child is not dropped or
\* moved, and only a block that is on the stack gets a child.
AppendOnly ==
  [][\A k \in DOMAIN out :
       /\ k \in DOMAIN out'
       /\ [out'[k] EXCEPT !.kids = << >>] = [out[k] EXCEPT !.kids = << >>]
       /\ \/ out'[k].kids = out[k].kids
          \/ OnStack(k) /\ \E c \in DOMAIN out' : out'[k].kids = Append(out[k].kids, c)]_vars
=============================================================================
