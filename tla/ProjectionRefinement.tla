-------------------- MODULE ProjectionRefinement ---------------------
(***************************************************************************)
(* How Projection implements LocalType: what the visitor has allocated is  *)
(* read as a local type once the traversal is over.                        *)
(***************************************************************************)
EXTENDS Projection

\* The finished projection read as a local type: children by their sources.
PlaceOf(n) == CHOOSE k \in DOMAIN out : out[k].src = n
Made(side) == {out[k].src : k \in {k \in DOMAIN out :
                 out[k].class = "Interaction" /\ (out[k].sndr = NoRole) = (side = "send")}}
Result ==
  CASE crashed -> [status |-> "undefined", kids |-> << >>, sends |-> {}, receives |-> {}]
    [] Done    -> [status   |-> "done",
                   kids     |-> [n \in {out[k].src : k \in DOMAIN out} |->
                                   [i \in DOMAIN out[PlaceOf(n)].kids |->
                                      out[out[PlaceOf(n)].kids[i]].src]],
                   sends    |-> Made("send"),
                   receives |-> Made("receive")]
    [] OTHER   -> [status |-> "running", kids |-> << >>, sends |-> {}, receives |-> {}]

Abstract == INSTANCE LocalType WITH result <- Result

\* What get_root() answers is projection as LocalType states it: the local type of the
\* endpoint, all of it and nothing else, and a null Role is dereferenced exactly when
\* the global type is incomplete.
ImplementsLocalType == Abstract!AbsSpec

\* Each traversal ends, with an answer or at a null Role.
Terminates == <>(crashed \/ Done)
=============================================================================
