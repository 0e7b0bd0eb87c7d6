---------------------------- MODULE MCProjection ----------------------------
(***************************************************************************)
(* Model checking of Projection: every tree of up to MaxNodes nodes over a *)
(* catalogue of statements, and larger trees over a smaller catalogue.     *)
(***************************************************************************)
EXTENDS ProjectionRefinement, SequencesExt

CONSTANTS Alice, Bob, Carol, MaxNodes, MaxNodesDeep

Roles == {Alice, Bob, Carol}

Statement(class, sndr, rcvrs, at, args) ==
  [class |-> class, sndr |-> sndr, rcvrs |-> rcvrs, at |-> at, args |-> args]
Plain(class)     == Statement(class, NoRole, << >>, NoRole, << >>)
Message(s, rs)   == Statement("Interaction", s, rs, NoRole, << >>)
ChoiceAt(r)      == Statement("Choice", NoRole, << >>, r, << >>)
NestedWith(rs)   == Statement("Nested", NoRole, << >>, NoRole, rs)

Blocks == {Plain("Block"), ChoiceAt(Alice), ChoiceAt(NoRole), Plain("Recur"),
           Plain("Par"), Plain("Interruptible")}
Leaves == {Message(Alice, <<Bob>>), Message(Bob, <<Carol, Alice>>),
           Message(Carol, <<Carol, Alice>>), Message(NoRole, <<Alice>>),
           Plain("Continue"), NestedWith(<<Bob, Bob>>)}

\* Trees of n nodes in pre-order are the vectors of parents in which the parent
\* of a node is the node before it or one of that node's ancestors.
Ancestors(p, n) == LET up[m \in 1..n] == IF m = 1 THEN {1} ELSE {m} \cup up[p[m]]
                   IN up[n]
Shapes(n) == {p \in [2..n -> 1..(n - 1)] :
                \A i \in 2..n : p[i] < i /\ p[i] \in Ancestors(p, i - 1)}

KidsOf(p, n, m) == SetToSortSeq({i \in 2..n : p[i] = m}, <)

\* All ways to put a statement on each node of shape p, node by node.
Labelled(p, n, roots, blocks, leaves) ==
  LET kids == [m \in 1..n |-> KidsOf(p, n, m)]
      choices(m) == CASE m = 1 -> roots
                      [] m > 1 /\ kids[m] # << >> -> blocks
                      [] OTHER -> blocks \cup leaves
      node(s, m) == [class |-> s.class, kids |-> kids[m], sndr |-> s.sndr,
                     rcvrs |-> s.rcvrs, at |-> s.at, args |-> s.args]
      upTo[m \in 0..n] ==
        IF m = 0 THEN {<< >>}
        ELSE {Append(t, node(s, m)) : t \in upTo[m - 1], s \in choices(m)}
  IN upTo[n]

Trees(n, roots, blocks, leaves) ==
  UNION {Labelled(p, n, roots, blocks, leaves) : p \in Shapes(n)}

\* One enumerated set, so that membership is a lookup.
AllProtocols ==
  LET sizes == [n \in 1..MaxNodes |->
                  Trees(n, {Plain("Block")}, Blocks, Leaves)]
      deep  == Trees(MaxNodesDeep, {Plain("Block"), ChoiceAt(Bob)},
                     {Plain("Block"), Plain("Interruptible")}, {Message(Alice, <<Bob>>)})
  IN {SubSeq(g, 1, Len(g)) : g \in UNION {sizes[n] : n \in 1..MaxNodes} \cup deep}

-----------------------------------------------------------------------------
\* project.h:82, "Remove this node because is does not match from/to": a message
\* the endpoint neither sends nor receives does not occur in its projection, the
\* subtrees that came with a clone included.
Copies == UNION {UNION {Below(global, out[k].copied[i]) : i \in DOMAIN out[k].copied} : k \in DOMAIN out}
OnlyMatchingMessages ==
  Done => \A n \in Copies \cup {out[k].src : k \in DOMAIN out \ {1}} :
            global[n].class = "Interaction" => Sends(n) \/ Receives(n)

\* choice.h:63, "choice Node to add as a branch": a projected choice has no more
\* branches than the choice it is projected from.
NoMoreBranches ==
  Done => \A k \in DOMAIN out : out[k].class = "Choice" =>
            Len(out[k].kids) <= Len(global[out[k].src].kids)

\* node.h:48, "returns type of Node": an interruptible block in the projection
\* answers the type of an interruptible block.
TypeOfNode == \A k \in DOMAIN out : out[k].type = out[k].class
=============================================================================
