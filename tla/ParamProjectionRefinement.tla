---------------------- MODULE ParamProjectionRefinement ----------------------
(***************************************************************************)
(* What ParamProjection has in common with LocalType: indices, groups and  *)
(* conditions extend ordinary projection, and change nothing of it.        *)
(***************************************************************************)
EXTENDS ParamProjection

\* The finished projection read as a local type: children by their sources.
PlaceOf(n) == CHOOSE k \in DOMAIN out : out[k].src = n
Result ==
  [status   |-> "done",
   kids     |-> [n \in Sources |-> [i \in DOMAIN out[PlaceOf(n)].kids |-> out[out[PlaceOf(n)].kids[i]].src]],
   sends    |-> {out[k].src : k \in {k \in DOMAIN out : IsSend(k)}},
   receives |-> {out[k].src : k \in {k \in DOMAIN out : IsReceive(k)}}]

Abstract == INSTANCE LocalType WITH result <- Result

\* A protocol without indices, groups and the blocks that are dropped, in which nobody
\* sends to himself, as LocalType has it.  Only a group has members.
OrdinaryRole(r) == r.dims = << >> /\ ~r.grp /\ r.members = << >>
IsOrdinary(n) ==
  /\ global[n].class \notin DroppedClass
  /\ \A r \in Range(global[n].roles) \cup ({global[n].sndr} \ {NoRole}) : OrdinaryRole(r)
  /\ global[n].sndr \notin Range(global[n].roles)
OrdinaryTree ==
  [n \in DOMAIN global |-> [class |-> global[n].class, kids |-> global[n].kids, sndr |-> global[n].sndr,
                            rcvrs |-> global[n].roles, args |-> global[n].roles]]

\* Where every role is ordinary and none is sender and receiver at once, the
\* projection is that of an ordinary protocol, as LocalType states it: indices and
\* groups extend the ordinary projection and change nothing of it.
SameAsOrdinary ==
  rest = << >> /\ OrdinaryRole(endpoint) /\ (\A n \in DOMAIN global : IsOrdinary(n)) =>
    Result = Abstract!LocalTypeOf(OrdinaryTree, endpoint)
=============================================================================
