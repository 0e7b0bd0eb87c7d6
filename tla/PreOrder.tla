------------------------------- MODULE PreOrder -------------------------------
(***************************************************************************)
(* Trees as sequences of statements in pre-order, each with the list of    *)
(* its children, and parts of sequences given by sets of positions.        *)
(***************************************************************************)
EXTENDS Integers, Sequences, FiniteSets

\* What the lists of children are in a tree that is numbered in pre-order: the first
\* child follows its parent, children are increasing, every statement but the root is
\* a child, of one parent, and what stands between a statement and a child of it
\* belongs to an earlier child.
PreOrderTree(g) ==
  /\ \A n \in DOMAIN g : \A i \in DOMAIN g[n].kids :
        /\ g[n].kids[i] \in (n + 1)..Len(g)
        /\ i = 1 => g[n].kids[i] = n + 1
        /\ \A j \in 1..(i - 1) : g[n].kids[j] < g[n].kids[i]
  /\ \A m, n \in DOMAIN g : \A i \in DOMAIN g[m].kids, j \in DOMAIN g[n].kids :
        /\ g[m].kids[i] = g[n].kids[j] => m = n /\ i = j
        /\ m < g[n].kids[j] /\ g[n].kids[j] < g[m].kids[i] => m <= n
  /\ \A c \in 2..Len(g) : \E m \in DOMAIN g : \E i \in DOMAIN g[m].kids : g[m].kids[i] = c

\* Statement n and those below it: in pre-order, all that come before the next child
\* of a block above n.
Below(g, n) ==
  {m \in n..Len(g) : \A p \in 1..(n - 1) : \A i \in DOMAIN g[p].kids :
                        n < g[p].kids[i] => m < g[p].kids[i]}
-----------------------------------------------------------------------------
\* The j-th of a set of positions, and what a sequence has at them.  (SelectSeq and
\* SetToSortSeq are the same, but recursive, so that nothing is proved of them.)
Nth(P, j)      == CHOOSE i \in P : Cardinality({k \in P : k < i}) = j - 1
Selected(s, P) == [j \in 1..Cardinality(P) |-> s[Nth(P, j)]]
Ordered(P)     == [j \in 1..Cardinality(P) |-> Nth(P, j)]
=============================================================================
