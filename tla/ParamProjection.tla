--------------------------- MODULE ParamProjection ---------------------------
(***************************************************************************)
(* Endpoint projection of a parameterised protocol: ProjectionVisitor of   *)
(* parameterised/util/project.h, with the roles, role groups and nodes     *)
(* that exist only there.  For one interaction up to nine rules apply,     *)
(* several of them at once when the endpoint is an array of roles; how     *)
(* Rule 9 calculates with indices is the subject of ExprVisitors.          *)
(*                                                                         *)
(* One step is one call of a visit method, or what such a method does      *)
(* after the children of its node have been visited.                       *)
(***************************************************************************)
EXTENDS PreOrder, SequencesExt

CONSTANTS Name,       \* names of roles
          NoRole,     \* the null Role pointer
          Protocols,  \* the global types that may be projected
          Endpoints   \* the roles they may be projected to

\* An index of a role: a range that binds a variable; an expression in that variable
\* for which Rule 9 has a range and an inverse; one whose arithmetic is undefined at an
\* end of the range of its interaction (6/i from 0); one without an inverse, or with one
\* that cannot be copied (%, a << i); a sequence, which ExprApply refuses; one with a
\* logarithm in it, which cannot be copied.  In a local type: a range after apply, an
\* expression after invert.
Index  == {"range", "expr", "partial", "mod", "seq", "log", "applied", "inverse"}
\* The members of a group are here no groups.
Member == [name : Name, dims : Seq(Index)]
Role   == [name : Name, dims : Seq(Index), grp : BOOLEAN, members : Seq(Member)]

\* Blocks that are pushed, a plain block, the blocks that are dropped, leaves.
PushedClass  == {"Choice", "Recur", "Par", "Interruptible", "For"}
DroppedClass == {"Oneof", "If"}
LeafClass    == {"Continue", "AllReduce"}
BlockClass == PushedClass \cup DroppedClass \cup {"Block"}
Class == BlockClass \cup LeafClass \cup {"Interaction", "Nested"}

\* roles: the receivers of an interaction, the role arguments of a nested session, the
\* roles of interrupts; sndr: also the role that chooses.
SourceNode == [class : Class, kids : Seq(Nat), sndr : Role \cup {NoRole}, roles : Seq(Role)]
OutNode    == [src : Nat, class : Class, kids : Seq(Nat), copied : Seq(Nat),
               sndr : Role \cup {NoRole}, roles : Seq(Role), cond : Role \cup {NoRole}]

ASSUME RolesAssumption == NoRole \notin Role /\ Endpoints \subseteq Role
ASSUME ProtocolsAssumption ==
  \A g \in Protocols :
    /\ g \in Seq(SourceNode) /\ g # << >> /\ PreOrderTree(g)
    /\ \A n \in DOMAIN g : g[n].class \notin BlockClass => g[n].kids = << >>

VARIABLES global,     \* the tree being projected
          endpoint,   \* endpoint_
          rest,       \* calls still to come: source nodes to visit, 0 for a block to close
          stack_,     \* the visitor's stack: positions in out
          out,        \* nodes allocated so far
          status      \* "running", "thrown" (out_of_range), "undefined"

vars == <<global, endpoint, rest, stack_, out, status>>

Close == 0
-----------------------------------------------------------------------------
\* Role::matches compares the name and the number of indices.
SameRole(r, e) == r.name = e.name /\ Len(r.dims) = Len(e.dims)
\* RoleGrp::matches asks every member.
Matches(r, e) == IF r.grp THEN \A i \in DOMAIN r.members : SameRole(r.members[i], e)
                 ELSE SameRole(r, e)
IsBindable(r) == \E i \in DOMAIN r.dims : r.dims[i] = "range"
Ordinary      == endpoint.dims = << >>
Receiving(n)  == {i \in DOMAIN global[n].roles : Matches(global[n].roles[i], endpoint)}
Receivers(n)  == Selected(global[n].roles, Receiving(n))
SentBy(n)     == global[n].sndr # NoRole /\ Matches(global[n].sndr, endpoint)

NewNode(n, class, sndr, roles, cond, copied) ==
  [src |-> n, class |-> class, kids |-> << >>, copied |-> copied,
   sndr |-> sndr, roles |-> roles, cond |-> cond]
Plain(n)               == NewNode(n, global[n].class, NoRole, << >>, NoRole, << >>)
SendNode(n, cond)      == NewNode(n, "Interaction", NoRole, global[n].roles, cond, << >>)
ReceiveNode(n, s, cond) == NewNode(n, "Interaction", s, << >>, cond, << >>)

\* Rules 1 and 2, for an endpoint without indices: a receiver is looked for before
\* the sender is, and the rule returns.  Mutant: only the first receiver is looked at.
FirstReceiver(n) ==
  IF 1 \in Receiving(n) THEN <<ReceiveNode(n, global[n].sndr, NoRole)>>
  ELSE IF SentBy(n) THEN <<SendNode(n, NoRole)>>
  ELSE << >>
OrdinaryRules(n) ==
  IF Receivers(n) # << >> THEN <<ReceiveNode(n, global[n].sndr, NoRole)>>
  ELSE IF Matches(global[n].sndr, endpoint) THEN <<SendNode(n, NoRole)>>
  ELSE << >>

\* Rule 9, for the index of each dimension of the sender: a range is applied to the
\* receiver's expression for the condition, and the expression inverted for the
\* sender; anything else is taken as it is.  Mutant: only the ranges make a dimension
\* of the condition.
AppliedRanges(s, r) ==
  [name |-> r.name, grp |-> FALSE, members |-> << >>,
   dims |-> [k \in DOMAIN SelectSeq(s.dims, LAMBDA d : d = "range") |-> "applied"]]
AppliedRole(s, r) ==
  [name |-> r.name, grp |-> FALSE, members |-> << >>,
   dims |-> [k \in DOMAIN s.dims |-> IF s.dims[k] = "range" THEN "applied" ELSE r.dims[k]]]
InverseRole(s, r) ==
  [name |-> s.name, grp |-> FALSE, members |-> << >>,
   dims |-> [k \in DOMAIN s.dims |-> IF s.dims[k] = "range" THEN "inverse" ELSE s.dims[k]]]

\* Rules 4, 7 and 8: the send, under the condition that the process is the sender.
Sends(n) == IF Matches(global[n].sndr, endpoint) THEN <<SendNode(n, global[n].sndr)>> ELSE << >>

\* Rules 9, 3 and 6: a receive for each of the receivers, under the condition that the
\* process is that one.
Receives(n, rcvrs) ==
  LET s == global[n].sndr IN
  [i \in DOMAIN rcvrs |->
     IF IsBindable(s) THEN ReceiveNode(n, InverseRole(s, rcvrs[i]), AppliedRole(s, rcvrs[i]))
     ELSE ReceiveNode(n, s, rcvrs[i])]

\* Rules 9 and 8 for a sender that binds a variable, Rules 3 and 4 for one with
\* indices only.  Mutant: the send is put first.
SendBefore(n)   == Sends(n) \o Receives(n, Receivers(n))
IndexedRules(n) == Receives(n, Receivers(n)) \o Sends(n)

\* Rules 6 and 7 for a sender without indices: only groups receive, or send.  Mutant:
\* Rule 7 is missing.
GroupReceives(n) == Receives(n, Selected(Receivers(n), {i \in DOMAIN Receivers(n) : Receivers(n)[i].grp}))
GroupRules(n) ==
  GroupReceives(n) \o (IF global[n].sndr.grp THEN Sends(n) ELSE << >>)

Nodes(n) == CASE Ordinary                              -> OrdinaryRules(n)
              [] ~Ordinary /\ global[n].sndr.dims # << >> -> IndexedRules(n)
              [] OTHER                                 -> GroupRules(n)

\* Some rule applies to interaction n.
Applies(n) ==
  \/ SentBy(n)
  \/ IF Ordinary \/ global[n].sndr.dims # << >> THEN Receivers(n) # << >>
     ELSE \E r \in Range(Receivers(n)) : r.grp

\* Every rule starts from a clone of its node.  The copy of a role copies its indices,
\* where a logarithm dereferences null, but not the members of a group; the copy of a
\* block copies what is below, but for a loop, and shares the role that chooses.
HasLog(r)      == "log" \in Range(r.dims)
CopiedRoles(n) == Range(global[n].roles) \cup
                  IF global[n].class = "Interaction" THEN {global[n].sndr} \ {NoRole} ELSE {}
Copied(n)      == {m \in Below(global, n) : \A f \in Below(global, n) \ {m} :
                     global[f].class = "For" => m \notin Below(global, f)}
Uncopyable(n)  == \E m \in Copied(n) : \E r \in CopiedRoles(m) : HasLog(r)

\* Rule 9 goes wrong for receiver r of interaction n: at() throws for an index that r
\* does not have; the loop uses apply() at once, which is null for a range or sequence,
\* and ExprEval calculates with it; the result of invert() is copied after the loop.
Related(n, r, classes) ==
  \E k \in DOMAIN global[n].sndr.dims \cap DOMAIN r.dims :
    global[n].sndr.dims[k] = "range" /\ r.dims[k] \in classes
NoApply(n, r)   == Related(n, r, {"range", "seq"})
NoEval(n, r)    == Related(n, r, {"partial"})
OffByOne(n, r)  == Len(global[n].sndr.dims) >= Len(r.dims)  \* mutant of NoIndex
NoIndex(n, r)   == Len(global[n].sndr.dims) > Len(r.dims)
NoInverse(n, r) == Related(n, r, {"mod"})
Throws(n, r)    == NoIndex(n, r) /\ ~NoApply(n, r) /\ ~NoEval(n, r)
Fails(n, r)     == NoApply(n, r) \/ NoEval(n, r) \/ NoIndex(n, r) \/ NoInverse(n, r)
RuleNine(n)     == IF ~Ordinary /\ global[n].sndr # NoRole /\ IsBindable(global[n].sndr)
                   THEN Range(Receivers(n)) ELSE {}
-----------------------------------------------------------------------------
Visiting(classes) ==
  status = "running" /\ rest # << >> /\ Head(rest) # Close /\ global[Head(rest)].class \in classes
This == Head(rest)
Top  == stack_[Len(stack_)]

Stop(how) == status' = how /\ UNCHANGED <<global, endpoint, rest, stack_, out>>

\* append_child of each node to the block on top.
Emit(nodes) ==
  /\ out' = [out EXCEPT ![Top].kids = @ \o [i \in DOMAIN nodes |-> Len(out) + i]] \o nodes
  /\ rest' = Tail(rest)
  /\ UNCHANGED <<global, endpoint, stack_, status>>

\* Mutant of Enter: the block is never closed.
EnterForever(node) ==
  /\ out' = Append(out, node)
  /\ stack_' = Append(stack_, Len(out) + 1)
  /\ rest' = global[This].kids \o Tail(rest)
  /\ UNCHANGED <<global, endpoint, status>>

Enter(node) ==
  /\ out' = Append(out, node)
  /\ stack_' = Append(stack_, Len(out) + 1)
  /\ rest' = global[This].kids \o <<Close>> \o Tail(rest)
  /\ UNCHANGED <<global, endpoint, status>>

VisitBlock ==
  /\ Visiting({"Block"})
  /\ rest' = global[This].kids \o Tail(rest)
  /\ UNCHANGED <<global, endpoint, stack_, out, status>>

\* A null sender is dereferenced, unless the endpoint is ordinary and receives.
\* Receivers are handled in turn, each from a clone of the node: the first for which
\* Rule 9 fails decides how, and what became of the nodes before it cannot be told, as
\* nothing is returned.
VisitInteraction ==
  /\ Visiting({"Interaction"})
  /\ LET n == This
         null     == global[n].sndr = NoRole /\ ~(Ordinary /\ Receivers(n) # << >>)
         uncopied == Applies(n) /\ Uncopyable(n)
         failing  == {i \in DOMAIN Receivers(n) : Receivers(n)[i] \in RuleNine(n) /\ Fails(n, Receivers(n)[i])}
     IN
     \/ null /\ Stop("undefined")
     \/ ~null /\ uncopied /\ Stop("undefined")
     \/ ~null /\ ~uncopied /\ \E i \in failing :
          /\ \A j \in failing : i <= j
          /\ Stop(IF Throws(n, Receivers(n)[i]) THEN "thrown" ELSE "undefined")
     \/ ~null /\ ~uncopied /\ failing = {} /\ Emit(Nodes(n))

\* at() is cloned: a null at() is dereferenced, and so is the null in a logarithm.
VisitChoice ==
  /\ Visiting({"Choice"})
  /\ LET at == global[This].sndr IN
     \/ at = NoRole /\ Stop("undefined")
     \/ at # NoRole /\ HasLog(at) /\ Stop("undefined")
     \/ at # NoRole /\ ~HasLog(at) /\ Enter(Plain(This))

VisitRecurOrPar == Visiting({"Recur", "Par"}) /\ Enter(Plain(This))
\* The clone of an interruptible block brings its children, that of a loop does not.
VisitInterruptible ==
  /\ Visiting({"Interruptible"})
  /\ \/ Uncopyable(This) /\ Stop("undefined")
     \/ ~Uncopyable(This) /\ Enter([Plain(This) EXCEPT !.copied = global[This].kids])
VisitFor   == Visiting({"For"}) /\ Enter(Plain(This))
VisitLeaf  == Visiting(LeafClass) /\ Emit(<<Plain(This)>>)
VisitNested ==
  /\ Visiting({"Nested"})
  /\ LET included == Receivers(This) # << >> IN
     \/ included /\ Uncopyable(This) /\ Stop("undefined")
     \/ ~(included /\ Uncopyable(This)) /\ Emit(IF included THEN <<Plain(This)>> ELSE << >>)

\* Mutant of VisitDropped: the children are visited all the same.
VisitThrough ==
  /\ Visiting(DroppedClass)
  /\ rest' = global[This].kids \o Tail(rest)
  /\ UNCHANGED <<global, endpoint, stack_, out, status>>

\* Mutant of VisitDropped: the visit comes back to the same block.
VisitAgain == Visiting(DroppedClass) /\ UNCHANGED vars

\* visit(OneofNode *) and visit(IfNode *) do nothing, whatever is below.
VisitDropped == Visiting(DroppedClass) /\ Emit(<< >>)

CloseBlock ==
  /\ status = "running" /\ rest # << >> /\ Head(rest) = Close
  /\ stack_' = SubSeq(stack_, 1, Len(stack_) - 1)
  /\ out' = [out EXCEPT ![stack_[Len(stack_) - 1]].kids = Append(@, Top)]
  /\ rest' = Tail(rest)
  /\ UNCHANGED <<global, endpoint, status>>

Finished == rest = << >> \/ status # "running"
Done     == Finished /\ UNCHANGED vars

Init ==
  /\ global \in Protocols /\ endpoint \in Endpoints
  /\ rest = <<1>> /\ stack_ = <<1>> /\ status = "running"
  /\ out = <<NewNode(0, "Block", NoRole, << >>, NoRole, << >>)>>

Next ==
  \/ VisitBlock \/ VisitInteraction \/ VisitChoice \/ VisitRecurOrPar \/ VisitInterruptible
  \/ VisitFor \/ VisitLeaf \/ VisitNested \/ VisitDropped \/ CloseBlock
  \/ Done

Spec == Init /\ [][Next]_vars

\* A visit that can go on goes on: nothing else runs.
FairSpec == Spec /\ WF_vars(Next)
-----------------------------------------------------------------------------
\* Every variable has its type, and for each block on the stack above the root one
\* closing is to come: top() is the innermost open block, and the root in the end.
TypeOK ==
  /\ global \in Seq(SourceNode) /\ endpoint \in Role
  /\ rest \in Seq(0..Len(global))
  /\ out \in Seq(OutNode) /\ stack_ \in Seq(DOMAIN out)
  /\ \A p \in DOMAIN out : \A i \in DOMAIN out[p].kids : out[p].kids[i] \in DOMAIN out \ {1}
  /\ status \in {"running", "thrown", "undefined"}
  /\ stack_[1] = 1 /\ Cardinality({i \in DOMAIN rest : rest[i] = Close}) = Len(stack_) - 1

\* What has not been visited, and what never will be: the statements below a block
\* that is dropped.
Pending == UNION {Below(global, n) : n \in Range(rest) \ {Close}}
Lost    == UNION {Below(global, n) : n \in {m \in DOMAIN global : global[m].class \in DroppedClass}}
Visited == DOMAIN global \ (Pending \cup Lost)
Sources == {out[k].src : k \in DOMAIN out}

IsSend(k)    == out[k].class = "Interaction" /\ out[k].sndr = NoRole /\ global[out[k].src].sndr # NoRole
IsReceive(k) == out[k].class = "Interaction" /\ ~IsSend(k)

\* The receivers that hear interaction n.  The rules for a sender without indices, an
\* ordinary role or a group, ask for a group on the side of the receiver too: a plain
\* array does not hear either of them.
Hearing(n) == {i \in DOMAIN Receivers(n) : global[n].sndr.dims # << >> \/ Receivers(n)[i].grp}

\* The local type has no send and no receive in which the endpoint has no part, and of
\* every interaction that was visited those in which it has one: for an array the send,
\* beside one receive for each receiver that matches and hears it; for an ordinary role
\* one receive or else the send.
Participates ==
  /\ \A k \in DOMAIN out :
       /\ IsSend(k) => SentBy(out[k].src)
       /\ IsReceive(k) => Receivers(out[k].src) # << >>
  /\ \A n \in Visited : status = "running" /\ global[n].class = "Interaction" =>
       LET received == Cardinality({k \in DOMAIN out : out[k].src = n /\ IsReceive(k)})
           sent     == Cardinality({k \in DOMAIN out : out[k].src = n /\ IsSend(k)})
           matching == Len(Receivers(n)) IN
       IF Ordinary THEN /\ received = (IF matching > 0 THEN 1 ELSE 0)
                        /\ sent = (IF SentBy(n) /\ matching = 0 THEN 1 ELSE 0)
       ELSE /\ received = Cardinality(Hearing(n))
            /\ sent = (IF SentBy(n) THEN 1 ELSE 0)

\* What the endpoint does comes in the order of the global type, and where one
\* interaction makes it receive and send, it receives first: a process in the middle
\* of a chain passes on what it was given.
ReceivesFirst ==
  \A p \in DOMAIN out : \A i, j \in DOMAIN out[p].kids : i < j =>
    LET a == out[p].kids[i]
        b == out[p].kids[j] IN
    out[a].src < out[b].src \/ (out[a].src = out[b].src /\ ~(IsSend(a) /\ IsReceive(b)))

\* A statement for an array is guarded by a condition on the process that runs it,
\* which concerns the endpoint and has as many indices, and one for an ordinary role
\* has no condition.  Rule 9 makes a condition with the name of the receiver and the
\* dimensions of the sender, so it fits only if sender and receiver have as many, and
\* not at all for a group that was given indices.
ConditionFits ==
  \A k \in DOMAIN out : out[k].class = "Interaction" =>
    IF Ordinary THEN out[k].cond = NoRole
    ELSE LET sndr == global[out[k].src].sndr
             relative == IsReceive(k) /\ IsBindable(sndr) IN
         /\ out[k].cond # NoRole
         /\ \/ Matches(out[k].cond, endpoint)
            \/ relative /\ Len(sndr.dims) < Len(endpoint.dims)
            \/ relative /\ \E r \in Range(Receivers(out[k].src)) : r.grp /\ out[k].cond = AppliedRole(sndr, r)

\* Projection is cut short only by a role that was never set, by an index of a receiver
\* that Rule 9 misses, cannot apply, evaluate or invert, or by a logarithm in a role of
\* what it copies.
StopsExplained ==
  /\ status = "thrown" =>
       \E r \in RuleNine(This) : Len(r.dims) < Len(global[This].sndr.dims)
  /\ status = "undefined" =>
       \/ global[This].class \in {"Interaction", "Choice"} /\ global[This].sndr = NoRole
       \/ global[This].class = "Choice" /\ HasLog(global[This].sndr)
       \/ \E r \in RuleNine(This) : Range(r.dims) \cap {"range", "seq", "partial", "mod"} # {}
       \/ Uncopyable(This)

\* Blocks that are dropped are dropped with all that is below them, and all other
\* structure is kept: nothing else is missing from the local type.
StructureKept ==
  /\ Sources \cap Lost = {}
  /\ \A n \in Visited : status = "running" /\ global[n].class \in PushedClass \cup LeafClass => n \in Sources

\* Every projection comes to an end, with a local type or without one.
Terminates == <>Finished
=============================================================================
