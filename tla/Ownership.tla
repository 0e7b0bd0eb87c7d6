------------------------------ MODULE Ownership ------------------------------
(***************************************************************************)
(* Who deletes what.  The nodes, roles, messages and payloads a program    *)
(* builds with the library are heap objects that own one another through   *)
(* raw pointers: a destructor deletes what its object points to, a copy    *)
(* constructor clones some of it and shares the rest, a method clones its  *)
(* argument or takes it over.  The program keeps the pointers it has to    *)
(* delete itself (mine).                                                   *)
(*                                                                         *)
(* Every action is one call of the public interface by such a program.  It *)
(* deletes only what is its own, once, and passes only pointers to objects *)
(* that exist, so whatever goes wrong is the library's doing.              *)
(***************************************************************************)
EXTENDS PreOrder, Functions

CONSTANT Profiles  \* the programs: what each makes instances of and starts with

\* Recur stands for ParNode too: the two own the same things.  What the classes
\* below ParamKind do is in ParamOwnership.
OrdinaryKind == {"Interaction", "Block", "Recur", "Choice", "Nested", "Interruptible"}
ParamKind    == {"For", "If", "Oneof", "AllReduce"}
NodeKind     == OrdinaryKind \cup ParamKind
BlockKind    == {"Block", "Recur", "Choice", "Interruptible", "For", "If", "Oneof"}
AnyKind      == {"Role", "Payload", "Msg", "Expr"} \cup NodeKind

\* one: sndr_ of an interaction, at_ of a choice, cond_ of an if, bindexpr_ of a for,
\* 0 for null.  many: the other pointers that the destructor deletes; children,
\* payloads, receivers, arguments, interrupt rules, indices, operands, and the message
\* of an interaction.  lent: the pointers that it does not delete.
Object == [kind : AnyKind, live : BOOLEAN, one : Nat, many : Seq(Nat), lent : Seq(Nat)]

\* start: the objects it has made; makes and clones: the classes it goes on to make
\* instances of, and has copied; nests: whether it puts nodes into others; bounds on the
\* objects ever allocated, and on those it keeps.
Profile == [start : Seq(Object), makes : SUBSET AnyKind, clones : SUBSET AnyKind,
            nests : BOOLEAN, objects : Nat, mine : Nat]

\* The pointers of an object that its destructor deletes are in slots, 0 for one.
Slots(object)    == 0..Len(object.many)
At(object, i)    == IF i = 0 THEN object.one ELSE object.many[i]
Pointers(object) == (Range(object.many) \cup {object.one}) \ {0}

\* What a class may point to, in one, in many and in lent.
HoldsOne(kind) ==
  CASE kind \in {"Interaction", "Choice", "If"} -> {"Role"}
    [] kind = "For"                             -> {"Expr"}
    [] OTHER                                    -> {}
HoldsMany(kind) ==
  CASE kind \in {"Role", "Payload", "Expr"}            -> {"Expr"}
    [] kind = "Msg"                                    -> {"Payload"}
    [] kind \in {"Interaction", "Nested"}              -> {"Msg", "Role"}
    [] kind \in {"Block", "Recur", "Choice", "If", "Oneof"} -> NodeKind
    [] kind = "For"                                    -> NodeKind \cup {"Expr"}
    [] kind = "Interruptible"                          -> NodeKind \cup {"Msg", "Role"}
    [] OTHER                                           -> {}
HoldsLent(kind) ==
  CASE kind = "Interaction" -> {"Role"}
    [] kind = "AllReduce"   -> {"Msg"}
    [] kind = "Oneof"       -> {"Role", "Expr"}
    [] OTHER                -> {}

\* Pointers lead to objects of a kind their owner may hold, and an interaction always
\* has one message.
Typed(objects) ==
  \A o \in DOMAIN objects :
    LET kinds(ps) == {objects[p].kind : p \in ps}
        Holds(ps, may) == ps \subseteq DOMAIN objects /\ kinds(ps) \subseteq may
        object == objects[o] IN
    /\ Holds({object.one} \ {0}, HoldsOne(object.kind))
    /\ Holds(Range(object.many), HoldsMany(object.kind))
    /\ Holds(Range(object.lent), HoldsLent(object.kind))
    /\ object.live /\ object.kind = "Interaction" =>
         \E m \in Range(object.many) : \A p \in Range(object.many) : objects[p].kind = "Msg" <=> p = m

\* What constructors and adders make of objects that are passed to one other each:
\* nobody has two owners, and nobody is in itself.
WellMade(objects) ==
  /\ Typed(objects)
  /\ \A o \in DOMAIN objects : objects[o].live /\ objects[o].lent = << >>
  /\ \A o, q \in DOMAIN objects : \A i \in Slots(objects[o]), j \in Slots(objects[q]) :
       At(objects[o], i) = At(objects[q], j) /\ At(objects[o], i) # 0 => o = q /\ i = j
  /\ \A S \in SUBSET DOMAIN objects :
       S # {} => \E p \in S : \A o \in S : p \notin Pointers(objects[o])

ASSUME ProfilesAssumption ==
  \A f \in Profiles : f \in Profile /\ Len(f.start) <= f.objects /\ WellMade(f.start)

VARIABLES profile,    \* the program
          heap,       \* the objects, by order of allocation
          mine,       \* objects the program has to delete itself
          lost,       \* objects to which a method dropped the last pointer
          ub          \* undefined behaviour: what happened, and to which objects

vars == <<profile, heap, mine, lost, ub>>

Defined == [what |-> "none", to |-> {}]
-----------------------------------------------------------------------------
Live          == {o \in DOMAIN heap : heap[o].live}
PointersOf(o) == Pointers(heap[o])
OfKind(kinds) == {o \in Live : heap[o].kind \in kinds}
MineOf(kinds) == {o \in mine : heap[o].kind \in kinds}
Lent(o)       == Range(heap[o].lent)
PartsOf(o, kinds) == {p \in PointersOf(o) \cup Lent(o) : heap[p].kind \in kinds}
\* The pointers to p in objects: <<o, i>> for the one in slot i.
PointersTo(p, objects) ==
  UNION {{o} \X {i \in Slots(heap[o]) : At(heap[o], i) = p} : o \in objects}
OnlyKinds(ps, kinds) == Selected(ps, {i \in DOMAIN ps : heap[ps[i]].kind \in kinds})
Children(o)   == OnlyKinds(heap[o].many, NodeKind)

\* What is reached from the objects of roots through next, roots included.
Grown(met, next) == met \cup UNION {next[o] : o \in met}
Reached(roots, next) ==
  LET closure[met \in SUBSET DOMAIN heap] ==
        IF Grown(met, next) = met THEN met ELSE closure[Grown(met, next)]
  IN closure[roots]

LivePointers(o) == PointersOf(o) \cap Live
LiveParts(o)    == (PointersOf(o) \cup Lent(o)) \cap Live

\* Objects the program can name: its own and what the getters lead to.
Named(kinds) ==
  {o \in Reached(mine, [q \in DOMAIN heap |-> LiveParts(q)]) : heap[o].kind \in kinds}

Copyable(kinds) == Named(kinds \cap profile.clones)

\* Mutant of SharedParts: a copied interaction points to the same message.
SharedMessage(o) ==
  CASE heap[o].kind = "Msg"              -> PartsOf(o, {"Payload"})
    [] heap[o].kind = "Interaction"      -> PartsOf(o, {"Msg"})
    [] heap[o].kind = "For"              -> PartsOf(o, {"Expr"})
    [] heap[o].kind \in {"Choice", "If"} -> {heap[o].one} \ {0}
    [] OTHER                             -> {}

\* What a copy constructor copies the pointers to: the payloads of a message, the
\* role of a choice, the expressions of a for, the condition of an if, the message
\* of an allreduce, the selector of a oneof.
SharedParts(o) ==
  CASE heap[o].kind = "Msg"              -> PartsOf(o, {"Payload"})
    [] heap[o].kind = "For"              -> PartsOf(o, {"Expr"})
    [] heap[o].kind \in {"Choice", "If"} -> {heap[o].one} \ {0}
    [] heap[o].kind = "AllReduce"        -> Lent(o)
    [] heap[o].kind = "Oneof"            -> PartsOf(o, {"Role"})
    [] OTHER                             -> {}

\* What it leaves out: the body of a for, the range of a oneof; the indices of a
\* payload, of which clone() makes an ordinary payload.
LeftOut(o) ==
  CASE heap[o].kind = "For"                  -> PartsOf(o, NodeKind)
    [] heap[o].kind \in {"Oneof", "Payload"} -> PartsOf(o, {"Expr"})
    [] OTHER                                 -> {}

\* The pointers it follows with clone().
ClonedParts(o) == (PointersOf(o) \cup Lent(o)) \ (SharedParts(o) \cup LeftOut(o))

Parts     == [o \in DOMAIN heap |-> ClonedParts(o)]
Cloned(o) == Reached({o}, Parts)

New(kind, one, many) == [kind |-> kind, live |-> TRUE, one |-> one, many |-> many, lent |-> << >>]
Fresh == Len(heap) + 1

\* The copy of o without what is dropped; new is where the other copies are.
CopyOf(o, new, dropped) ==
  LET renamed(p) == IF p \in ClonedParts(o) \cap DOMAIN new THEN new[p] ELSE p
      copied(ps) == LET kept == Selected(ps, {i \in DOMAIN ps : ps[i] \notin dropped \cup LeftOut(o)})
                    IN [i \in DOMAIN kept |-> renamed(kept[i])]
      one == IF heap[o].one \in dropped THEN 0 ELSE renamed(heap[o].one)
  IN [New(heap[o].kind, one, copied(heap[o].many)) EXCEPT !.lent = copied(heap[o].lent)]

\* clone() of o onto the end of objects: the copies, and where each of them is.
Ranked(base, os) == [o \in os |-> base + Cardinality({q \in os : q <= o})]
AtId(ids, k)     == CHOOSE o \in DOMAIN ids : ids[o] = k
CloneIds(objects, o) == Ranked(Len(objects), Cloned(o))
WithClone(objects, o) ==
  LET ids == CloneIds(objects, o) IN
  objects \o [i \in 1..Cardinality(Cloned(o)) |-> CopyOf(AtId(ids, Len(objects) + i), ids, {})]

\* Mutants of Deleted: a destructor that deletes no members, and one that deletes what
\* it was lent.
DeletedAlone(roots) == roots
DeletedLent(roots)  == Reached(roots, [o \in DOMAIN heap |-> LiveParts(o)])

\* delete of every object of roots: destructors follow all pointers.  An object
\* met twice, or met after it was freed, is a double free.
Deleted(roots) == Reached(roots, [o \in DOMAIN heap |-> LivePointers(o)])
FreedTwice(roots) ==
  LET deleted == Deleted(roots)
      met == roots \cup UNION {PointersOf(o) : o \in deleted}
      times(p) == Cardinality(PointersTo(p, deleted)) + (IF p \in roots THEN 1 ELSE 0)
  IN {p \in met : ~heap[p].live \/ times(p) > 1}
Freed(objects, gone) ==
  [o \in DOMAIN objects |->
     IF o \in gone THEN [objects[o] EXCEPT !.live = FALSE, !.one = 0, !.many = << >>] ELSE objects[o]]

\* What a call does that deletes roots and then clones arg.
Wrong(roots, arg) ==
  LET twice == FreedTwice(roots)
      dead  == IF arg = 0 THEN {} ELSE Cloned(arg) \ (Live \ Deleted(roots)) IN
  CASE twice # {}              -> [what |-> "double free", to |-> twice]
    [] twice = {} /\ dead # {} -> [what |-> "use after free", to |-> dead]
    [] OTHER                   -> Defined
-----------------------------------------------------------------------------
\* The program runs on while its behaviour is defined and it has room.
Running == ub = Defined
Room(n) == Running /\ Len(heap) + n <= profile.objects
Keep(o, taken) == mine' = (mine \ taken) \cup {o} /\ Cardinality(mine') <= profile.mine

\* A call that allocates object and hands it to the program, which no longer
\* has to delete the objects the new one takes over.
Make(object, taken) ==
  /\ object.kind \in profile.makes /\ Room(1)
  /\ heap' = Append(heap, object)
  /\ Keep(Fresh, taken)
  /\ UNCHANGED <<profile, lost, ub>>

MakeSimple == \E kind \in AnyKind \ ({"Interaction"} \cup ParamKind) : Make(New(kind, 0, << >>), {})

\* InteractionNode(): a message with an empty label of its own.
MakeInteraction ==
  /\ "Interaction" \in profile.makes /\ Room(2)
  /\ heap' = heap \o <<New("Interaction", 0, <<Fresh + 1>>), New("Msg", 0, << >>)>>
  /\ Keep(Fresh, {})
  /\ UNCHANGED <<profile, lost, ub>>

\* InteractionNode(msg): a clone of msg, which stays the caller's.
MakeInteractionWith ==
  \E m \in Copyable({"Msg"}) :
    /\ "Interaction" \in profile.makes /\ Room(1 + Cardinality(Cloned(m)))
    /\ heap' = WithClone(Append(heap, New("Interaction", 0, <<Fresh + 1>>)), m)
    /\ Keep(Fresh, {})
    /\ UNCHANGED <<profile, lost, ub>>

\* ChoiceNode(at): the node takes the role over.
MakeChoiceAt == \E r \in MineOf({"Role"}) : Make(New("Choice", r, << >>), {r})

\* Delete roots and clone arg; when that is well defined, objects are what is left.
DeleteFirst(roots, arg, objects) ==
  LET wrong == Wrong(roots, arg) IN
  /\ ub' = wrong
  /\ heap' = IF wrong = Defined THEN Freed(objects, Deleted(roots)) ELSE heap
Replace(roots, arg, objects) ==
  DeleteFirst(roots, arg, objects) /\ UNCHANGED <<profile, mine, lost>>

\* add_payload and add_rcvr: a clone of the argument goes to the end of a list.
AddClone(o, a) ==
  /\ Room(Cardinality(Cloned(a)))
  /\ Replace({}, a, WithClone([heap EXCEPT ![o].many = Append(@, CloneIds(heap, a)[a])], a))
AddPayload == \E m \in Named({"Msg"}), p \in Copyable({"Payload"}) : AddClone(m, p)
AddRcvr    == \E n \in Named({"Interaction"}), r \in Copyable({"Role"}) : AddClone(n, r)

SetMsg ==
  \E n \in Named({"Interaction"}), m \in Copyable({"Msg"}) :
    LET old == PartsOf(n, {"Msg"}) IN
    /\ Room(Cardinality(Cloned(m)))
    /\ Replace(old, m,
         WithClone([heap EXCEPT ![n].many = [i \in DOMAIN @ |-> IF @[i] \in old THEN Fresh ELSE @[i]]], m))

\* set_sndr and set_at are the same on an interaction and on a choice.
SetRole ==
  \E n \in Named({"Interaction", "Choice"}), r \in Copyable({"Role"}) :
    /\ Room(Cardinality(Cloned(r)))
    /\ Replace({heap[n].one} \ {0}, r, WithClone([heap EXCEPT ![n].one = CloneIds(heap, r)[r]], r))

RemoveSndr ==
  \E n \in Named({"Interaction"}) :
    Running /\ heap[n].one # 0 /\ Replace({heap[n].one}, 0, [heap EXCEPT ![n].one = 0])

\* Mutants of NoRcvrs: the list is not cleared after its roles were deleted, and
\* the message goes with them.
RcvrsKept(n)  == heap[n].many
NothingKept(n) == << >>

NoRcvrs(n) == OnlyKinds(heap[n].many, {"Msg"})

RemoveRcvrs ==
  \E n \in Named({"Interaction"}) :
    LET rcvrs == Range(heap[n].many) \cap OfKind({"Role"}) IN
    Running /\ rcvrs # {} /\ Replace(rcvrs, 0, [heap EXCEPT ![n].many = NoRcvrs(n)])

\* o is one of roots or in one of them.
Within(o, roots) == o \in Reached(roots, [q \in DOMAIN heap |-> PointersOf(q)])

\* A container takes objects over: append_child, add_choice and add_parallel,
\* both add_arg of a nested session, add_interrupt, add_throw and add_catch.
Take(o, args) ==
  /\ Running
  /\ Range(args) \subseteq mine /\ ~Within(o, Range(args))
  /\ heap' = [heap EXCEPT ![o].many = @ \o args]
  /\ mine' = mine \ Range(args)
  /\ UNCHANGED <<profile, lost, ub>>
AppendChild  == profile.nests /\ \E b \in Named(BlockKind), n \in MineOf(NodeKind) : Take(b, <<n>>)
AddArg       == \E n \in Named({"Nested"}), a \in MineOf({"Msg", "Role"}) : Take(n, <<a>>)
AddInterrupt == \E n \in Named({"Interruptible"}), r \in MineOf({"Role"}), m \in MineOf({"Msg"}) :
                  Take(n, <<r, m>>)

\* set_child: the pointer is written over, and what it pointed to is not deleted.
SetChild ==
  \E b \in Named(BlockKind), n \in MineOf(NodeKind) :
    \E i \in DOMAIN heap[b].many :
      /\ Running /\ profile.nests
      /\ heap[b].many[i] \in Range(Children(b)) /\ ~Within(b, {n})
      /\ heap' = [heap EXCEPT ![b].many[i] = n]
      /\ lost' = lost \cup {heap[b].many[i]}
      /\ mine' = mine \ {n}
      /\ UNCHANGED <<profile, ub>>

Clone ==
  \E o \in Copyable(AnyKind) :
    /\ Room(Cardinality(Cloned(o)))
    /\ DeleteFirst({}, o, WithClone(heap, o))
    /\ IF Wrong({}, o) = Defined THEN Keep(CloneIds(heap, o)[o], {}) ELSE UNCHANGED mine
    /\ UNCHANGED <<profile, lost>>

\* st_node_project: ProjectionVisitor allocates a root block and, below it, a new
\* choice or recursion for each one visited, sharing at_ of the choice, and a clone
\* of each interaction, nested session and interruptible block the endpoint is in.
\* sides says, by the names of the roles, where the endpoint is in a statement:
\* it sends or is an argument, it receives, or neither.
Statements(x) == Reached({x}, [o \in DOMAIN heap |-> Range(Children(o))])
Parties(x)    == Statements(x) \cap OfKind({"Interaction", "Nested"})
Rcvrs(o)      == {p \in Range(heap[o].many) : heap[p].kind = "Role"}
CanBe(o) ==
  {"neither"} \cup (IF heap[o].kind = "Interaction" \/ Rcvrs(o) # {} THEN {"first"} ELSE {})
              \cup (IF heap[o].kind = "Interaction" /\ Rcvrs(o) # {} THEN {"receiver"} ELSE {})
Kept(n, sides) == IF n \in DOMAIN sides THEN sides[n] # "neither" ELSE heap[n].kind # "Block"

\* remove_sndr and remove_rcvrs, on the copy; the copies they delete are not made.
Dropped(o, sides) ==
  CASE heap[o].kind # "Interaction" -> {}
    [] sides[o] = "first"           -> {heap[o].one}
    [] OTHER                        -> Rcvrs(o)

\* What is copied of n when parts of it are dropped.
ClonedBut(n, dropped) == {n} \cup UNION {Cloned(p) : p \in ClonedParts(n) \ dropped}

\* The objects allocated, <<n, m>> for the copy of m made at statement n.
Allocated(x, sides) ==
  UNION {{n} \X (IF heap[n].kind \in {"Recur", "Choice"} THEN {n}
                 ELSE ClonedBut(n, Dropped(n, sides))) :
         n \in {n \in Statements(x) : Kept(n, sides)}}
IdsOf(pairs) ==
  [p \in pairs |-> Len(heap) + 1 +
     Cardinality({q \in pairs : q[1] < p[1] \/ (q[1] = p[1] /\ q[2] <= p[2])})]

\* The kept statements nearest below n, under the statements between that are not kept.
\* Their order, which nothing here depends on, is that of their allocation.
Between(n, sides) ==
  Reached({n}, [o \in DOMAIN heap |-> {c \in Range(Children(o)) : ~Kept(c, sides)}])
Under(n, sides) ==
  {c \in UNION {Range(Children(o)) : o \in Between(n, sides)} : Kept(c, sides)}

Projection(x, sides, ids) ==
  LET below(n) == LET kids == Ordered(Under(n, sides))
                  IN [i \in DOMAIN kids |-> ids[<<kids[i], kids[i]>>]]
      copies(n) == [q \in {q \in DOMAIN heap : <<n, q>> \in DOMAIN ids} |-> ids[<<n, q>>]]
      copy(n, m) ==
        CASE n # m -> CopyOf(m, copies(n), {})
          [] n = m /\ heap[n].kind \in {"Recur", "Choice"} -> New(heap[n].kind, heap[n].one, below(n))
          [] OTHER -> [CopyOf(n, copies(n), Dropped(n, sides)) EXCEPT !.many = @ \o below(n)]
      top == IF Kept(x, sides) THEN <<ids[<<x, x>>]>> ELSE below(x)
  IN <<New("Block", 0, top)>>
     \o [i \in 1..Cardinality(DOMAIN ids) |-> LET p == AtId(ids, Fresh + i) IN copy(p[1], p[2])]

\* What it reads: the roles of choices, and what it makes clones of.
ReadOf(x, sides) ==
  {heap[o].one : o \in {o \in Statements(x) : heap[o].kind = "Choice"}} \cup
  UNION {Cloned(o) : o \in {o \in Statements(x) : Kept(o, sides) /\ heap[o].kind \notin {"Recur", "Choice"}}}

\* A choice or an interaction without its role is left to the model of projection.
Project ==
  \E x \in Named(NodeKind) : \E sides \in [Parties(x) -> {"first", "receiver", "neither"}] :
    /\ Running
    /\ \A o \in Statements(x) :
         /\ heap[o].kind \in OrdinaryKind /\ heap[o].lent = << >>
         /\ heap[o].kind \in {"Choice", "Interaction"} => heap[o].one # 0
    /\ \A o \in Parties(x) : sides[o] \in CanBe(o)
    /\ \/ /\ ~(ReadOf(x, sides) \subseteq Live)
          /\ ub' = [what |-> "use after free", to |-> ReadOf(x, sides) \ Live]
          /\ UNCHANGED <<profile, heap, mine, lost>>
       \/ /\ ReadOf(x, sides) \subseteq Live
          /\ Room(1 + Cardinality(Allocated(x, sides)))
          /\ heap' = heap \o Projection(x, sides, IdsOf(Allocated(x, sides)))
          /\ Keep(Fresh, {})
          /\ UNCHANGED <<profile, lost, ub>>

Delete ==
  \E o \in mine :
    /\ Running
    /\ DeleteFirst({o}, 0, heap)
    /\ mine' = mine \ {o}
    /\ UNCHANGED <<profile, lost>>

Init ==
  /\ profile \in Profiles
  /\ heap = profile.start
  /\ mine = DOMAIN heap \ UNION {PointersOf(o) \cup Lent(o) : o \in DOMAIN heap}
  /\ lost = {} /\ ub = Defined

Next ==
  \/ MakeSimple \/ MakeInteraction \/ MakeInteractionWith \/ MakeChoiceAt
  \/ AddPayload \/ AddRcvr \/ SetMsg \/ SetRole \/ RemoveSndr \/ RemoveRcvrs
  \/ AppendChild \/ AddArg \/ AddInterrupt \/ SetChild
  \/ Clone \/ Project \/ Delete

Spec == Init /\ [][Next]_vars
-----------------------------------------------------------------------------
\* Every variable has its type, pointers lead to allocated objects of a kind
\* their owner may hold, and an interaction always has one message.
TypeOK ==
  /\ profile \in Profiles /\ heap \in Seq(Object) /\ Typed(heap)
  /\ mine \subseteq DOMAIN heap /\ lost \subseteq DOMAIN heap
  /\ ub.what \in {"none", "double free", "use after free"} /\ ub.to \subseteq DOMAIN heap

\* The pointers to p that somebody deletes some day.
Owners(p) == PointersTo(p, Live)

\* Rule 9 of parameterised projection has left the role of a sender behind.
IndicesShared == \E s \in lost : heap[s].kind = "Role" /\ heap[s].many # << >>

\* The pointer of o to p is one that a copy of o, or what o is a copy of, may have
\* too: to a payload, the role of a choice, the condition of an if, the expressions of
\* a for; and an index of a role to which Rule 9 was applied.
Shares(o, p) ==
  \/ heap[p].kind = "Payload"
  \/ heap[o].kind \in {"Choice", "If"} /\ heap[p].kind = "Role"
  \/ heap[o].kind = "For" /\ heap[p].kind = "Expr"
  \/ heap[o].kind = "Role" /\ heap[p].kind = "Expr" /\ IndicesShared
MayBeShared(p) == \E o \in DOMAIN heap : p \in PointersOf(o) /\ Shares(o, p)

\* Whatever calls made it, an object has at most one owner, the program included,
\* unless it is one of those that copies share.
SharingConfined ==
  ub = Defined => \A p \in Live :
    Cardinality(Owners(p)) + (IF p \in mine THEN 1 ELSE 0) > 1 => MayBeShared(p) /\ p \notin mine

\* An object nobody owns was taken over through a pointer that is never deleted, the
\* condition of an interaction or the message of an allreduce, or was dropped by
\* set_child, set_cond of an if, set_msg of an allreduce or Rule 9: no other call
\* loses an object.
LeakConfined ==
  ub = Defined => \A p \in Live :
    Owners(p) = {} /\ p \notin mine => p \in lost \/ \E o \in DOMAIN heap : p \in Lent(o)

\* A live object points to a freed one only where copies share: nothing else is
\* ever freed under an owner.
DanglingConfined == ub = Defined => \A o \in Live : \A p \in PointersOf(o) \ Live : Shares(o, p)

\* styleguide.md:152-156: whoever allocates frees, and a container frees what it
\* was given, so that a program that keeps to the rule frees nothing twice.
NoDoubleFree == ub.what # "double free"
=============================================================================
