------------------------------ MODULE MCPrinting ------------------------------
(***************************************************************************)
(* Model checking of Printing: all trees of up to four statements of a few *)
(* classes, with and without the pointers that are printed.                *)
(***************************************************************************)
EXTENDS Printing, SequencesExt

\* Trees of n statements in the order of the protocol: parent[i] is where statement i is.
Shapes(n) ==
  {parent \in [2..n -> 1..n] : \A i \in 2..n :
     /\ parent[i] < i
     /\ \A j \in (parent[i] + 1)..(i - 1) : parent[j] >= parent[i]}
Kids(parent, n) == SetToSortSeq({i \in DOMAIN parent : parent[i] = n}, <)
TreesOf(n, leaves, blocks) ==
  UNION {{[i \in 1..n |-> [class |-> of[i][1], lacks |-> of[i][2], kids |-> Kids(parent, i)]] :
            of \in {of \in [1..n -> leaves \cup blocks] :
                      \A i \in 1..n : of[i] \in leaves => \A j \in 2..n : parent[j] # i}} :
         parent \in Shapes(n)}

Ordinary == TreesOf(4, {<<"Interaction", {"pointer"}>>}, {<<"Block", {}>>, <<"Choice", {}>>, <<"Interruptible", {}>>})
        \cup TreesOf(3, {<<"Interaction", {}>>, <<"Continue", {}>>, <<"Nested", {}>>},
                        {<<"Recur", {}>>, <<"Par", {}>>, <<"Choice", {"pointer"}>>})
Parameterised ==
  TreesOf(4, {<<"Interaction", {"pointer"}>>}, {<<"Block", {}>>, <<"For", {}>>, <<"Oneof", {"pointer"}>>})
    \cup TreesOf(3, {<<"Interaction", {"part"}>>, <<"AllReduce", {}>>},
                    {<<"If", {}>>, <<"For", {"part"}>>, <<"Oneof", {}>>, <<"Interruptible", {}>>})

MCTrees == ("Print" :> Ordinary) @@ ("PrintVisitor" :> Parameterised)
Complete(t, roots) == Len(t) = 3 /\ t[1].class \in roots /\ \A i \in 1..3 : t[i].lacks = {}
MCLater == ("Print"        :> {t \in Ordinary : Complete(t, {"Recur"})})
        @@ ("PrintVisitor" :> {t \in Parameterised : Complete(t, {"If"})})
=============================================================================
