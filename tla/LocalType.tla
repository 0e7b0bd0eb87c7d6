------------------------------ MODULE LocalType ------------------------------
(***************************************************************************)
(* What projection promises, without a traversal: the local type of a role *)
(* keeps, of the global type's statements, those the role takes part in    *)
(* and those that structure the protocol, each under the nearest block     *)
(* that is kept and in the order of the global type; an interaction keeps  *)
(* the other party only.  There is no answer for a tree in which an        *)
(* interaction has no sender or a choice has no role that chooses.         *)
(***************************************************************************)
EXTENDS PreOrder

CONSTANT NoRole

VARIABLES global, endpoint, result

absVars == <<global, endpoint, result>>

Unanswered == [status |-> "running", kids |-> << >>, sends |-> {}, receives |-> {}]
Undefined  == [status |-> "undefined", kids |-> << >>, sends |-> {}, receives |-> {}]

TakesPart(g, r, n) ==
  CASE g[n].class = "Interaction" -> r = g[n].sndr \/ \E i \in DOMAIN g[n].rcvrs : r = g[n].rcvrs[i]
    [] g[n].class = "Nested"      -> \E i \in DOMAIN g[n].args : r = g[n].args[i]
    [] OTHER                      -> g[n].class # "Block"

Kept(g, r) == {n \in DOMAIN g : TakesPart(g, r, n)}

\* The nearest statement above n that is not a plain block, 0 for the root of the
\* local type.
Enclosing(g, n) == {m \in 1..(n - 1) : n \in Below(g, m) /\ g[m].class # "Block"}
Encloser(g, n)  == CHOOSE m \in Enclosing(g, n) \cup {0} : \A k \in Enclosing(g, n) : k <= m

Interactions(g, r) == {n \in Kept(g, r) : g[n].class = "Interaction"}

LocalTypeOf(g, r) ==
  [status   |-> "done",
   kids     |-> [n \in Kept(g, r) \cup {0} |-> Ordered({m \in Kept(g, r) : Encloser(g, m) = n})],
   sends    |-> {n \in Interactions(g, r) : g[n].sndr = r},
   receives |-> {n \in Interactions(g, r) : g[n].sndr # r}]

\* What an answer needs of a statement.
Whole(g, n) == /\ g[n].class = "Interaction" => g[n].sndr # NoRole
               /\ g[n].class = "Choice" => g[n].at # NoRole
Complete(g) == \A n \in DOMAIN g : Whole(g, n)

\* For any tree and any role: neither ever changes.
AbsInit == result = Unanswered

Project ==
  /\ result = Unanswered
  /\ result' = IF Complete(global) THEN LocalTypeOf(global, endpoint) ELSE Undefined
  /\ UNCHANGED <<global, endpoint>>

AbsSpec == AbsInit /\ [][Project]_absVars
=============================================================================
