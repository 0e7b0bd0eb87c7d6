---------------------------- MODULE ParamOwnership ----------------------------
(***************************************************************************)
(* Who deletes what, continued: the classes of parameterised protocols.    *)
(* Expressions, the indices of roles and payloads, conditions of messages, *)
(* for, if, oneof and allreduce, and the parameterised projection as far   *)
(* as it allocates, shares and drops objects.                              *)
(*                                                                         *)
(* A pointer that a class takes and deletes when it is replaced, or that   *)
(* its own constructor fills, is taken over; the selector and the range of *)
(* a oneof, which the class never deletes, stay with the program.  Whose   *)
(* the condition of an interaction is, the class does not settle: set_cond *)
(* deletes the old one and the destructor deletes none.  A program may     *)
(* give it away, or keep it to delete it itself, as tests/node.cc does.    *)
(***************************************************************************)
EXTENDS Ownership

VARIABLES kept,  \* conditions it has set on interactions as its own
          due    \* those of them it has yet to delete

paramVars == <<vars, kept, due>>

\* BinExpr and RngExpr take their operands over; Expr stands for all expressions but
\* logarithms, which have no operands once they are made.
MakeExpr ==
  \E l, r \in MineOf({"Expr"}) : l # r /\ Make(New("Expr", 0, <<l, r>>), {l, r})

\* set_from and set_to of a range delete the old end.
SetEnd ==
  \E e \in Named({"Expr"}), x \in MineOf({"Expr"}) :
    \E i \in DOMAIN heap[e].many :
      /\ Running /\ ~Within(e, {x})
      /\ DeleteFirst({heap[e].many[i]}, 0, [heap EXCEPT ![e].many[i] = x])
      /\ mine' = mine \ {x}
      /\ UNCHANGED <<profile, lost>>

\* add_param of a role and of a payload.
AddParam == \E o \in Named({"Role", "Payload"}), e \in MineOf({"Expr"}) : Take(o, <<e>>)

MakeFor == \E e \in MineOf({"Expr"}) : Make(New("For", e, << >>), {e})
MakeIf  == \E c \in MineOf({"Role"}) : Make(New("If", c, << >>), {c})

\* set_bindexpr and set_except of a for delete the old object.
SetBindexpr ==
  \E f \in Named({"For"}), e \in MineOf({"Expr"}) :
    /\ Running
    /\ DeleteFirst({heap[f].one} \ {0}, 0, [heap EXCEPT ![f].one = e])
    /\ mine' = mine \ {e}
    /\ UNCHANGED <<profile, lost>>
SetExcept ==
  \E f \in Named({"For"}), e \in MineOf({"Expr"}) :
    LET bodies == Children(f) IN
    /\ Running
    /\ DeleteFirst(Range(heap[f].many) \ Range(bodies), 0, [heap EXCEPT ![f].many = bodies \o <<e>>])
    /\ mine' = mine \ {e}
    /\ UNCHANGED <<profile, lost>>

\* set_cond of an interaction does so too, whoever regards the old condition as its own.
ReplaceCond(n, c) ==
  /\ Running
  /\ DeleteFirst(Lent(n), 0, [heap EXCEPT ![n].lent = <<c>>])
  /\ mine' = mine \ {c}
  /\ UNCHANGED <<profile, lost>>
SetCond(n) == \E c \in MineOf({"Role"}) : ReplaceCond(n, c) /\ UNCHANGED <<kept, due>>

\* set_cond of a condition that the program keeps, which is that of no other message, and
\* its delete of one.
Spare(n) == {c \in due \cap Live : \A o \in DOMAIN heap : heap[o].kind = "Interaction" /\ o # n => c \notin Lent(o)}
LendCond(n) ==
  \E c \in MineOf({"Role"}) \cup Spare(n) :
    ReplaceCond(n, c) /\ kept' = kept \cup {c} /\ due' = due \cup {c}
DeleteCond ==
  \E c \in due :
    /\ Running
    /\ DeleteFirst({c}, 0, heap)
    /\ due' = due \ {c}
    /\ UNCHANGED <<profile, mine, lost, kept>>

\* set_cond of an if deletes nothing.
SetIfCond ==
  \E n \in Named({"If"}), c \in MineOf({"Role"}) :
    /\ Running
    /\ heap' = [heap EXCEPT ![n].one = c]
    /\ lost' = lost \cup ({heap[n].one} \ {0})
    /\ mine' = mine \ {c}
    /\ UNCHANGED <<profile, ub>>

\* AllReduceNode(msg), and AllReduceNode() with a message of its own.
MakeAllReduceWith ==
  \E m \in MineOf({"Msg"}) : Make([New("AllReduce", 0, << >>) EXCEPT !.lent = <<m>>], {m})
MakeAllReduce ==
  /\ "AllReduce" \in profile.makes /\ Room(2)
  /\ heap' = heap \o <<[New("AllReduce", 0, << >>) EXCEPT !.lent = <<Fresh + 1>>], New("Msg", 0, << >>)>>
  /\ Keep(Fresh, {})
  /\ UNCHANGED <<profile, lost, ub>>

\* set_msg of an allreduce: the pointer is written over.
SetAllReduceMsg ==
  \E n \in Named({"AllReduce"}), m \in MineOf({"Msg"}) :
    /\ Running
    /\ heap' = [heap EXCEPT ![n].lent = <<m>>]
    /\ lost' = lost \cup Lent(n)
    /\ mine' = mine \ {m}
    /\ UNCHANGED <<profile, ub>>

\* OneofNode(selector), set_selector and set_range borrow what they are given.
MakeOneof == \E r \in Named({"Role"}) : Make([New("Oneof", 0, << >>) EXCEPT !.lent = <<r>>], {})
Borrow(n, kind, p) ==
  /\ Running
  /\ heap' = [heap EXCEPT ![n].lent = OnlyKinds(@, AnyKind \ {kind}) \o <<p>>]
  /\ UNCHANGED <<profile, mine, lost, ub>>
SetSelector == \E n \in Named({"Oneof"}), r \in Named({"Role"}) : Borrow(n, "Role", r)
SetRange    == \E n \in Named({"Oneof"}), e \in Named({"Expr"}) : Borrow(n, "Expr", e)
-----------------------------------------------------------------------------
\* st_param_node_project of a tree without messages: the copy of a for shares its
\* expressions and that of an allreduce its message; a choice gets a clone of its
\* role; oneof and if are dropped with what is below them.
Visited(x) ==
  Reached({x}, [o \in DOMAIN heap |-> IF heap[o].kind \in {"Oneof", "If"} THEN {} ELSE Range(Children(o))])
Projected(n) == heap[n].kind \notin {"Block", "Oneof", "If"}
CopiesAt(n) ==
  {n} \cup (IF heap[n].kind = "Choice" THEN Cloned(heap[n].one) ELSE {})
\* As for an ordinary projection.
Around(n) ==
  Reached({n}, [o \in DOMAIN heap |-> {c \in Range(Children(o)) : heap[c].kind = "Block"}])
Nearest(n) == {c \in UNION {Range(Children(o)) : o \in Around(n)} : Projected(c)}
ParamProjection(x, ids) ==
  LET below(n) == LET kids == Ordered(Nearest(n)) IN [i \in DOMAIN kids |-> ids[<<kids[i], kids[i]>>]]
      copy(n, m) ==
        LET new == [q \in CopiesAt(n) |-> ids[<<n, q>>]]
            own == [CopyOf(n, new, Range(Children(n))) EXCEPT !.many = @ \o below(n)] IN
        CASE n # m                                -> CopyOf(m, new, {})
          [] n = m /\ heap[n].kind = "Choice" -> [own EXCEPT !.one = new[@]]
          [] n = m /\ heap[n].kind # "Choice" -> own
      top == IF Projected(x) THEN <<ids[<<x, x>>]>> ELSE IF heap[x].kind = "Block" THEN below(x) ELSE << >>
  IN <<New("Block", 0, top)>> \o [i \in 1..Cardinality(DOMAIN ids) |->
                                   LET p == AtId(ids, Fresh + i) IN copy(p[1], p[2])]

ProjectNodes ==
  \E x \in Named(ParamKind \cup {"Block", "Choice", "Recur"}) :
    LET ids == IdsOf(UNION {{n} \X CopiesAt(n) : n \in {n \in Visited(x) : Projected(n)}}) IN
    /\ Running
    /\ \A o \in Visited(x) : heap[o].kind \in ParamKind \cup {"Block", "Choice", "Recur"}
    /\ \A o \in Visited(x) : heap[o].kind = "Choice" => heap[o].one # 0 /\ Cloned(heap[o].one) \subseteq Live
    /\ Room(1 + Cardinality(DOMAIN ids))
    /\ heap' = heap \o ParamProjection(x, ids)
    /\ Keep(Fresh, {})
    /\ UNCHANGED <<profile, lost, ub>>

\* A message between roles with indices, for an endpoint that receives it (Rules 3 and
\* 6), or sends it (Rules 4, 7 and 8): the copy is without the receivers, or the
\* sender, and has a clone of that role as its condition.
Indexed(r) == heap[r].many # << >>
CopyFor(n, r) ==
  LET dropped == Lent(n) \cup (IF r = heap[n].one THEN {r} ELSE Rcvrs(n))
      parts   == ClonedBut(n, dropped)
      ids     == Ranked(Fresh, parts)
  IN [node |-> ids[n],
      heap |-> heap \o <<New("Block", 0, <<ids[n]>>)>>
               \o [i \in 1..Cardinality(parts) |-> CopyOf(AtId(ids, Fresh + i), ids, dropped)]]
ProjectMessage ==
  \E n \in Named({"Interaction"}) : \E r \in Rcvrs(n) \cup ({heap[n].one} \ {0}) :
    LET made == CopyFor(n, r) IN
    /\ Indexed(r) /\ heap[n].one # 0 /\ Cloned(n) \subseteq Live
    /\ Room(Len(made.heap) - Len(heap) + Cardinality(Cloned(r)))
    /\ LET cond == CloneIds(made.heap, r)[r] IN
       heap' = [WithClone(made.heap, r) EXCEPT ![made.node].lent = <<cond>>]
    /\ Keep(Fresh, {})
    /\ UNCHANGED <<profile, lost, ub>>

\* Rule 9: for each dimension that is a range, new expressions in the condition and in
\* the sender; for any other the receiver's own expression in the condition and the
\* sender's own in the sender, which set_sndr clones and nobody deletes.
ProjectRelative ==
  \E n \in Named({"Interaction"}) : \E r \in Rcvrs(n) :
    LET s == heap[n].one IN
    /\ s # 0 /\ Cloned(n) \subseteq Live /\ Len(heap[r].many) >= Len(heap[s].many)
    /\ \E ranges \in (SUBSET DOMAIN heap[s].many) \ {{}} :
         LET made  == CopyFor(n, r)
             base  == Len(made.heap)
             k     == Cardinality(ranges)
             nth(i) == Cardinality({j \in ranges : j <= i})
             indices(own, first) ==
               [i \in DOMAIN heap[s].many |-> IF i \in ranges THEN first + nth(i) ELSE own[i]]
             cond  == New("Role", 0, indices(heap[r].many, base + 2))
             sndr  == New("Role", 0, indices(heap[s].many, base + 2 + k))
             fresh == [i \in 1..(2 * k) |-> New("Expr", 0, << >>)]
         IN /\ Room(base - Len(heap) + 2 + 2 * k)
            /\ heap' = [made.heap EXCEPT ![made.node].lent = <<base + 1>>] \o <<cond, sndr>> \o fresh
            /\ lost' = lost \cup {base + 2}
    /\ Keep(Fresh, {})
    /\ UNCHANGED <<profile, ub>>

\* The copy is made with the condition, which may be gone.
ProjectFreed ==
  \E n \in Named({"Interaction"}) : \E r \in Rcvrs(n) \cup ({heap[n].one} \ {0}) :
    /\ Running /\ Indexed(r) /\ heap[n].one # 0 /\ ~(Cloned(n) \subseteq Live)
    /\ ub' = [what |-> "use after free", to |-> Cloned(n) \ Live]
    /\ UNCHANGED <<profile, heap, mine, lost>>

\* What does not set or delete a condition that the program keeps.
OtherCall ==
  \/ Next
  \/ MakeExpr \/ SetEnd \/ AddParam \/ MakeFor \/ MakeIf \/ SetBindexpr \/ SetExcept
  \/ SetIfCond \/ MakeAllReduceWith \/ MakeAllReduce \/ SetAllReduceMsg
  \/ MakeOneof \/ SetSelector \/ SetRange
  \/ ProjectNodes \/ ProjectMessage \/ ProjectRelative \/ ProjectFreed

ParamInit == Init /\ kept = {} /\ due = {}

ParamNext ==
  \/ OtherCall /\ UNCHANGED <<kept, due>>
  \/ \E n \in Named({"Interaction"}) : SetCond(n) \/ LendCond(n)
  \/ DeleteCond

ParamSpec == ParamInit /\ [][ParamNext]_paramVars
-----------------------------------------------------------------------------
\* Every variable has its type, and the conditions that the program keeps are roles
\* that it has handed to a setter.
ParamTypeOK ==
  /\ TypeOK
  /\ due \subseteq kept /\ kept \subseteq DOMAIN heap \ mine
  /\ \A c \in kept : heap[c].kind = "Role"

\* What the program still has to delete exists: the only call that frees any of it is
\* set_cond of an interaction, to whose condition the program has not given up its
\* claim.
CallerKeeps ==
  [][ub' = Defined =>
       /\ mine' \subseteq Live'
       /\ \A c \in (due' \cap Live) \ Live' :
            \E n \in Live : c \in Lent(n) /\ (SetCond(n) \/ LendCond(n))]_paramVars

\* Only an object that copies share or a condition that the program keeps is ever
\* freed twice, or read after it was freed by an earlier call; any other is read by a
\* setter that is given what it replaces, which it deletes first.
UndefinedConfined ==
  \A p \in ub.to :
    MayBeShared(p) \/ p \in kept \/ (ub.what = "use after free" /\ p \in Live /\ p \notin mine)
=============================================================================
