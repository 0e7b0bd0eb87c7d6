-------------------------- MODULE ContainersProofs --------------------------
(***************************************************************************)
(* Proofs about Containers, for every set of names and of programs. First, *)
(* types, what is freed twice, and what is read after it was freed; the    *)
(* argument is one of ownership: what a destructor will delete lives, no   *)
(* two of them delete the same, and the program deletes none of it. Then,  *)
(* what is never freed, what names lead to, and where the lookup of an     *)
(* interrupt rule ends; the argument for the first two is a balance of     *)
(* what was passed to containers: an object that was passed is the entry   *)
(* of its name or was refused, and a live object is the program's, or a    *)
(* live container's, or a session, or was refused.                         *)
(***************************************************************************)
EXTENDS Containers, PreOrderProofs, SequenceTheorems

\* The parts of TypeOK.
HeapOK    == /\ heap \in Seq(Object)
             /\ \A o \in DOMAIN heap : /\ {heap[o].root_, heap[o].me_} \subseteq DOMAIN heap \cup {Null}
                                       /\ heap[o].members \subseteq DOMAIN heap
RoleAt(c, p) == heap[c].rules[p[1]][p[2]].role
MsgAt(c, p)  == heap[c].rules[p[1]][p[2]].msg
RulesOK   == \A c \in DOMAIN heap : \A p \in Rules(c) :
               heap[RoleAt(c, p)].kind = "Role" /\ heap[MsgAt(c, p)].kind = "Msg"
EntriesOK == /\ \A e \in entries : e \in Entry /\ {e.in, e.obj} \subseteq DOMAIN heap
             /\ \A d, e \in entries :
                  <<d.in, d.kind, d.key>> = <<e.in, e.kind, e.key>> => d = e
OthersOK  == /\ mine \subseteq DOMAIN heap
             /\ given \in Seq([in : DOMAIN heap, obj : DOMAIN heap, name : Name])
             /\ fault \in {"no", "double free", "use after free", "null"}

LEMMA TypeParts == TypeOK <=> HeapOK /\ RulesOK /\ EntriesOK /\ OthersOK
BY DEF TypeOK, HeapOK, RulesOK, EntriesOK, OthersOK, RoleAt, MsgAt

\* The same after a step.
LEMMA TypePartsNext == TypeOK' <=> HeapOK' /\ RulesOK' /\ EntriesOK' /\ OthersOK'
BY DEF TypeOK, HeapOK, RulesOK, EntriesOK, OthersOK, RoleAt, MsgAt

\* What kinds of objects are where.
KindOf(o) ==
  /\ heap[o].kind \notin Nameless => heap[o].name \in Name
  /\ heap[o].as # NoName => heap[o].kind = "Import"
  /\ heap[o].root_ # Null => heap[o].kind = "Session"
  /\ heap[o].me_ # Null => heap[heap[o].me_].kind = "Role"
  /\ heap[o].type_ = "LOCAL" => heap[o].me_ # Null
  /\ \A r \in heap[o].members : heap[r].kind = "Role"
  /\ Rules(o) # {} => heap[o].kind = "Interruptible"
  /\ \A p \in Rules(o) : RoleAt(o, p) \in DOMAIN heap /\ MsgAt(o, p) \in DOMAIN heap
KindsOK ==
  /\ \A o \in DOMAIN heap : KindOf(o)
  /\ \A e \in entries : /\ heap[e.in].kind = Containers(heap[e.obj].kind)
                        /\ e.kind = heap[e.obj].kind
                        /\ e.alias => e.kind = "Import"

\* Two rules of c that have the role r.
TwoRulesOf(c, r) == \E p, q \in Rules(c) : p # q /\ RoleAt(c, p) = r /\ RoleAt(c, q) = r

\* The ownership: of the program, of a container, and of two containers.
Alive(o) == heap[o].live
Holds(c) == {d.obj : d \in Owned(c)}
MineLives  == \A o \in mine : Alive(o)
HeldLives  == \A c \in DOMAIN heap : Alive(c) => \A o \in Holds(c) : o \in DOMAIN heap /\ Alive(o) /\ o \notin mine
HeldByOne  == \A b, c \in DOMAIN heap : Alive(b) /\ Alive(c) /\ b # c => Holds(b) \cap Holds(c) = {}
HeldOnce   == \A c \in DOMAIN heap : Alive(c) =>
                \A d, e \in Owned(c) : d.obj = e.obj => d = e \/ TwoRulesOf(c, d.obj)
Owners     == MineLives /\ HeldLives /\ HeldByOne /\ HeldOnce

FaultOK == /\ fault = "double free" => \E c \in DOMAIN heap : \E r : TwoRulesOf(c, r)
           /\ UsesExplained

IInv == TypeOK /\ KindsOK /\ Owners /\ FaultOK

-----------------------------------------------------------------------------
\* What the type of the heap says of one object.
LEMMA ObjectFacts ==
  ASSUME HeapOK
  PROVE  /\ Len(heap) \in Nat /\ DOMAIN heap = 1..Len(heap) /\ Null \notin DOMAIN heap
         /\ \A o \in DOMAIN heap :
              /\ heap[o] \in Object
              /\ heap[o].kind \in Kind /\ heap[o].live \in BOOLEAN
              /\ \A map \in RuleMap : heap[o].rules[map] \in Seq(Rule)
<1>1. Len(heap) \in Nat /\ DOMAIN heap = 1..Len(heap) /\ \A o \in DOMAIN heap : heap[o] \in Object
  BY DEF HeapOK
<1>2. \A x \in Object : x.kind \in Kind /\ x.live \in BOOLEAN /\ x.rules \in [RuleMap -> Seq(Rule)]
  BY DEF Object
<1> QED
  BY <1>1, <1>2 DEF Null

\* A position in the rules of c.
LEMMA RuleFacts ==
  ASSUME NEW c, NEW p
  PROVE  p \in Rules(c) <=> \E map \in RuleMap : \E i \in DOMAIN heap[c].rules[map] : p = <<map, i>>
BY DEF Rules

\* What a destructor deletes: an entry, the body, the role or the message of a rule.
LEMMA OwnedFacts ==
  ASSUME NEW c, NEW d
  PROVE  d \in Owned(c) <=>
           \/ \E e \in entries : /\ e.in = c /\ e.kind # "Session" /\ ~e.alias
                                 /\ d = [obj |-> e.obj, key |-> e.key]
           \/ heap[c].root_ # Null /\ d = [obj |-> heap[c].root_, key |-> NoName]
           \/ \E p \in Rules(c) : \/ d = [obj |-> RoleAt(c, p), key |-> p]
                                  \/ d = [obj |-> MsgAt(c, p), key |-> p]
<1>1. \A p : LET rule == heap[c].rules[p[1]][p[2]] IN
             {[obj |-> o, key |-> p] : o \in {rule.role, rule.msg}}
             = {[obj |-> RoleAt(c, p), key |-> p], [obj |-> MsgAt(c, p), key |-> p]}
  BY DEF RoleAt, MsgAt
<1>2. Owned(c) = {[obj |-> e.obj, key |-> e.key] : e \in {e \in Entries(c) : e.kind # "Session" /\ ~e.alias}}
                 \cup {[obj |-> o, key |-> NoName] : o \in {heap[c].root_} \ {Null}}
                 \cup UNION {{[obj |-> RoleAt(c, p), key |-> p], [obj |-> MsgAt(c, p), key |-> p]} : p \in Rules(c)}
  BY <1>1 DEF Owned
<1> QED
  BY <1>2 DEF Entries

\* One object is replaced by another.
LEMMA OneObject ==
  ASSUME heap \in Seq(Object), NEW c \in DOMAIN heap, NEW x \in Object,
         heap' = [heap EXCEPT ![c] = x]
  PROVE  /\ heap' \in Seq(Object) /\ DOMAIN heap' = DOMAIN heap /\ heap'[c] = x
         /\ \A o \in DOMAIN heap : o # c => heap'[o] = heap[o]
OBVIOUS

\* Where kinds, lives, bodies, rules, entries and the program's part stay, the
\* ownership does.
LEMMA OwnersKept ==
  ASSUME TypeOK, Owners, DOMAIN heap' = DOMAIN heap, UNCHANGED <<entries, mine>>,
         \A o \in DOMAIN heap : /\ heap'[o].live = heap[o].live /\ heap'[o].root_ = heap[o].root_
                                /\ heap'[o].rules = heap[o].rules
  PROVE  /\ Owners'
         /\ \A c \in DOMAIN heap : Rules(c)' = Rules(c) /\ Owned(c)' = Owned(c)
         /\ \A c \in DOMAIN heap : \A p : RoleAt(c, p)' = RoleAt(c, p) /\ MsgAt(c, p)' = MsgAt(c, p)
<1>1. \A c \in DOMAIN heap : \A p : RoleAt(c, p)' = RoleAt(c, p) /\ MsgAt(c, p)' = MsgAt(c, p)
  BY DEF RoleAt, MsgAt
<1>2. \A c \in DOMAIN heap : Rules(c)' = Rules(c)
  BY DEF Rules
<1>3. \A c \in DOMAIN heap : Owned(c)' = Owned(c)
  BY <1>2 DEF Owned, Entries
<1>4. \A c \in DOMAIN heap : /\ Holds(c)' = Holds(c) /\ Alive(c)' = Alive(c)
                             /\ \A r : TwoRulesOf(c, r)' <=> TwoRulesOf(c, r)
  BY <1>1, <1>2, <1>3 DEF Holds, Alive, TwoRulesOf
<1>5. MineLives' /\ HeldLives' /\ HeldByOne'
  <2>1. MineLives'
    BY TypeParts DEF Owners, MineLives, Alive, OthersOK
  <2>2. HeldLives' /\ HeldByOne'
    BY <1>4 DEF Owners, HeldLives, HeldByOne
  <2> QED
    BY <2>1, <2>2
<1>6. HeldOnce'
  BY <1>3, <1>4 DEF Owners, HeldOnce
<1> QED
  BY <1>1, <1>2, <1>3, <1>5, <1>6 DEF Owners

\* What such a step leaves of the types, when it puts x in the place of c.
Like(c, x) ==
  /\ x.kind = heap[c].kind /\ x.as = heap[c].as /\ x.live = heap[c].live
  /\ x.root_ = heap[c].root_ /\ x.rules = heap[c].rules
  /\ x.me_ \in DOMAIN heap \cup {Null} /\ x.members \subseteq DOMAIN heap
  /\ x.me_ # Null => heap[x.me_].kind = "Role"
  /\ x.type_ = "LOCAL" => x.me_ # Null
  /\ \A r \in x.members : heap[r].kind = "Role"
  /\ x.kind \notin Nameless => x.name \in Name

\* Such a step keeps the invariant.
LEMMA QuietStep ==
  ASSUME IInv, fault = "no", NEW c \in DOMAIN heap, NEW x \in Object, Like(c, x),
         heap' = [heap EXCEPT ![c] = x], UNCHANGED <<entries, mine, given, fault>>
  PROVE  IInv'
<1>1. HeapOK /\ RulesOK /\ EntriesOK /\ OthersOK /\ KindsOK /\ Owners /\ TypeOK
  BY TypeParts DEF IInv
<1>2. /\ heap' \in Seq(Object) /\ DOMAIN heap' = DOMAIN heap /\ heap'[c] = x
      /\ \A o \in DOMAIN heap : o # c => heap'[o] = heap[o]
  BY <1>1, OneObject DEF HeapOK
<1>3. \A o \in DOMAIN heap : /\ heap'[o].live = heap[o].live /\ heap'[o].root_ = heap[o].root_
                             /\ heap'[o].rules = heap[o].rules
                             /\ heap'[o].kind = heap[o].kind /\ heap'[o].as = heap[o].as
  BY <1>2 DEF Like
<1>4. /\ Owners'
      /\ \A o \in DOMAIN heap : Rules(o)' = Rules(o) /\ Owned(o)' = Owned(o)
      /\ \A o \in DOMAIN heap : \A p : RoleAt(o, p)' = RoleAt(o, p) /\ MsgAt(o, p)' = MsgAt(o, p)
  BY <1>1, <1>2, <1>3, OwnersKept
<1>5. HeapOK'
  BY <1>1, <1>2 DEF HeapOK, Like
<1>6. RulesOK'
  <2>1. \A o \in DOMAIN heap : \A p \in Rules(o) : RoleAt(o, p) \in DOMAIN heap /\ MsgAt(o, p) \in DOMAIN heap
    BY <1>1 DEF KindsOK, KindOf
  <2> QED
    BY <2>1, <1>1, <1>2, <1>3, <1>4 DEF RulesOK
<1>7. EntriesOK' /\ OthersOK'
  BY <1>1, <1>2 DEF EntriesOK, OthersOK
<1>8. KindsOK'
  <2>1. ASSUME NEW o \in DOMAIN heap PROVE KindOf(o)'
    <3>1. KindOf(o)
      BY <1>1 DEF KindsOK
    <3>2. /\ heap'[o].me_ \in DOMAIN heap \cup {Null} /\ heap'[o].members \subseteq DOMAIN heap
          /\ heap'[o].me_ # Null => heap[heap'[o].me_].kind = "Role"
          /\ heap'[o].type_ = "LOCAL" => heap'[o].me_ # Null
          /\ \A r \in heap'[o].members : heap[r].kind = "Role"
          /\ heap'[o].kind \notin Nameless => heap'[o].name \in Name
      <4>1. CASE o = c
        BY <4>1, <1>2 DEF Like
      <4>2. CASE o # c
        BY <4>2, <3>1, <1>1, <1>2 DEF KindOf, HeapOK
      <4> QED
        BY <4>1, <4>2
    <3> QED
      BY <3>1, <3>2, <1>2, <1>3, <1>4 DEF KindOf
  <2> QED
    BY <2>1, <1>1, <1>2, <1>3 DEF KindsOK, EntriesOK
<1>9. FaultOK'
  BY DEF FaultOK, UsesExplained, IInv
<1> QED
  BY <1>4, <1>5, <1>6, <1>7, <1>8, <1>9, TypePartsNext DEF IInv

\* set_endpoint owns nothing: the role stays whose it was.
LEMMA SetEndpointInv ==
  ASSUME IInv, SetEndpoint
  PROVE  IInv'
<1>1. PICK c \in Live("Session"), r \in Live("Role") :
         /\ fault = "no" /\ heap' = [heap EXCEPT ![c].me_ = r, ![c].type_ = "LOCAL"]
         /\ UNCHANGED <<entries, mine, given, fault>>
  BY DEF SetEndpoint, Running
<1>2. c \in DOMAIN heap /\ r \in DOMAIN heap /\ heap[r].kind = "Role"
  BY DEF Live
<1>3. HeapOK /\ KindOf(c) /\ heap[c] \in Object
  BY <1>2, TypeParts, ObjectFacts DEF IInv, KindsOK
<1> DEFINE x == [heap[c] EXCEPT !.me_ = r, !.type_ = "LOCAL"]
<1>4. /\ x.me_ = r /\ x.type_ = "LOCAL" /\ x \in Object
      /\ x.kind = heap[c].kind /\ x.as = heap[c].as /\ x.live = heap[c].live /\ x.name = heap[c].name
      /\ x.root_ = heap[c].root_ /\ x.rules = heap[c].rules /\ x.members = heap[c].members
  <2> DEFINE y == heap[c]
  <2>1. y \in Object /\ r \in Nat /\ x = [y EXCEPT !.me_ = r, !.type_ = "LOCAL"]
    BY <1>2, <1>3, ObjectFacts
  <2> HIDE DEF y, x
  <2> QED
    BY <2>1 DEF Object, y
<1>5. heap' = [heap EXCEPT ![c] = x]
  BY <1>1, <1>2, <1>3 DEF HeapOK
<1> HIDE DEF x
<1>6. Like(c, x)
  BY <1>2, <1>3, <1>4, ObjectFacts DEF Like, KindOf, HeapOK
<1> QED
  BY <1>1, <1>2, <1>4, <1>5, <1>6, QuietStep

\* Nor does a group own its members.
LEMMA AddMemberInv ==
  ASSUME IInv, AddMember
  PROVE  IInv'
<1>1. PICK c \in Live("Group"), r \in Live("Role") :
         /\ fault = "no" /\ heap' = [heap EXCEPT ![c].members = @ \cup {r}]
         /\ UNCHANGED <<entries, mine, given, fault>>
  BY DEF AddMember, Running
<1>2. c \in DOMAIN heap /\ r \in DOMAIN heap /\ heap[r].kind = "Role"
  BY DEF Live
<1>3. HeapOK /\ KindOf(c) /\ heap[c] \in Object
  BY <1>2, TypeParts, ObjectFacts DEF IInv, KindsOK
<1> DEFINE x == [heap[c] EXCEPT !.members = heap[c].members \cup {r}]
<1>4. /\ x.members = heap[c].members \cup {r} /\ x \in Object
      /\ x.kind = heap[c].kind /\ x.as = heap[c].as /\ x.live = heap[c].live /\ x.name = heap[c].name
      /\ x.root_ = heap[c].root_ /\ x.rules = heap[c].rules /\ x.me_ = heap[c].me_
      /\ x.type_ = heap[c].type_
  <2> DEFINE y == heap[c]
             z == heap[c].members \cup {r}
  <2>1. y \in Object /\ r \in Nat /\ x = [y EXCEPT !.members = z] /\ z = y.members \cup {r}
    BY <1>2, <1>3, ObjectFacts
  <2> HIDE DEF y, x, z
  <2>2. z \in SUBSET Nat
    BY <2>1 DEF Object
  <2>3. /\ x.members = z /\ x \in Object /\ x.kind = y.kind /\ x.as = y.as /\ x.live = y.live
        /\ x.name = y.name /\ x.root_ = y.root_ /\ x.rules = y.rules /\ x.me_ = y.me_ /\ x.type_ = y.type_
    BY <2>1, <2>2 DEF Object
  <2> QED
    BY <2>3 DEF y, z
<1>5. heap' = [heap EXCEPT ![c] = x]
  BY <1>1, <1>2, <1>3 DEF HeapOK
<1> HIDE DEF x
<1>6. Like(c, x)
  BY <1>2, <1>3, <1>4, ObjectFacts DEF Like, KindOf, HeapOK
<1> QED
  BY <1>1, <1>2, <1>4, <1>5, <1>6, QuietStep

\* A new name changes no pointer.
LEMMA SetNameInv ==
  ASSUME IInv, SetName
  PROVE  IInv'
<1>1. PICK c \in Live("Role") \cup Live("Group"), name \in Name :
         /\ fault = "no" /\ heap' = [heap EXCEPT ![c].name = name]
         /\ UNCHANGED <<entries, mine, given, fault>>
  BY DEF SetName, Running
<1>2. c \in DOMAIN heap
  BY DEF Live
<1>3. HeapOK /\ KindOf(c) /\ heap[c] \in Object
  BY <1>2, TypeParts, ObjectFacts DEF IInv, KindsOK
<1> DEFINE x == [heap[c] EXCEPT !.name = name]
<1>4. /\ x.name = name /\ x \in Object
      /\ x.kind = heap[c].kind /\ x.as = heap[c].as /\ x.live = heap[c].live
      /\ x.root_ = heap[c].root_ /\ x.rules = heap[c].rules /\ x.members = heap[c].members
      /\ x.me_ = heap[c].me_ /\ x.type_ = heap[c].type_
  <2> DEFINE y == heap[c]
  <2>1. y \in Object /\ x = [y EXCEPT !.name = name]
    BY <1>3
  <2> HIDE DEF y, x
  <2> QED
    BY <2>1 DEF Object, y
<1>5. heap' = [heap EXCEPT ![c] = x]
  BY <1>1, <1>2, <1>3 DEF HeapOK
<1> HIDE DEF x
<1>6. Like(c, x)
  BY <1>2, <1>3, <1>4, ObjectFacts DEF Like, KindOf, HeapOK
<1> QED
  BY <1>1, <1>2, <1>4, <1>5, <1>6, QuietStep

-----------------------------------------------------------------------------
\* The entries of a session are what its destructor deletes, so they live; what else
\* is read is the endpoint or the member of a group.
LEMMA PrintTreeInv ==
  ASSUME IInv, PrintTree
  PROVE  IInv'
<1>1. PICK c \in Live("Session") :
         /\ fault = "no" /\ UNCHANGED <<heap, entries, mine, given>>
         /\ fault' = CASE \E o \in Read(c) : ~heap[o].live -> "use after free"
                       [] (\A o \in Read(c) : heap[o].live) /\ heap[c].root_ = Null -> "null"
                       [] OTHER -> "no"
  BY DEF PrintTree, Running
<1>2. TypeOK /\ HeapOK /\ RulesOK /\ EntriesOK /\ OthersOK /\ KindsOK /\ Owners
  BY TypeParts DEF IInv
<1>3. fault' = "use after free" \/ fault' = "null" \/ fault' = "no"
  BY <1>1
<1>5. /\ Owners'
      /\ \A o \in DOMAIN heap : Rules(o)' = Rules(o)
      /\ \A o \in DOMAIN heap : \A p : RoleAt(o, p)' = RoleAt(o, p) /\ MsgAt(o, p)' = MsgAt(o, p)
  BY <1>1, <1>2, OwnersKept
<1>4. HeapOK' /\ RulesOK' /\ EntriesOK' /\ OthersOK' /\ KindsOK'
  <2>1. HeapOK' /\ EntriesOK' /\ OthersOK'
    BY <1>1, <1>2, <1>3 DEF HeapOK, EntriesOK, OthersOK
  <2>a. heap' = heap
    BY <1>1
  <2>2. RulesOK'
    <3> SUFFICES ASSUME NEW o \in DOMAIN heap, NEW p \in Rules(o)
                 PROVE  heap[RoleAt(o, p)].kind = "Role" /\ heap[MsgAt(o, p)].kind = "Msg"
      BY <2>a, <1>5 DEF RulesOK
    <3> QED
      BY <1>2 DEF RulesOK
  <2>3. ASSUME NEW o \in DOMAIN heap PROVE KindOf(o)'
    <3>1. KindOf(o)
      BY <1>2 DEF KindsOK
    <3>2. Rules(o)' = Rules(o) /\ \A p : RoleAt(o, p)' = RoleAt(o, p) /\ MsgAt(o, p)' = MsgAt(o, p)
      BY <1>5
    <3> QED
      BY <3>1, <3>2, <2>a DEF KindOf
  <2>4. KindsOK'
    BY <2>3, <1>1, <1>2 DEF KindsOK
  <2> QED
    BY <2>1, <2>2, <2>4
<1>6. ASSUME fault' = "use after free"
      PROVE  \E r \in Read(c) \ {e.obj : e \in Entries(c)} : heap[r].kind = "Role" /\ ~heap[r].live
  <2>1. PICK r \in Read(c) : ~heap[r].live
    BY <1>1, <1>6
  <2>2. c \in DOMAIN heap /\ heap[c].kind = "Session" /\ Alive(c)
    BY DEF Live, Alive
  <2>3. ASSUME NEW e \in Entries(c) PROVE heap[e.obj].live
    <3>1. e \in entries /\ e.in = c /\ heap[e.in].kind = "Session"
      BY <2>2 DEF Entries
    <3>2. e.kind # "Session" /\ e.kind # "Import"
      BY <3>1, <1>2 DEF KindsOK, Containers
    <3>3. ~e.alias
      BY <3>1, <3>2, <1>2 DEF KindsOK
    <3>4. [obj |-> e.obj, key |-> e.key] \in Owned(c)
      BY <3>1, <3>2, <3>3, OwnedFacts
    <3>5. e.obj \in Holds(c)
      BY <3>4 DEF Holds
    <3> QED
      BY <3>5, <2>2, <1>2 DEF Owners, HeldLives, Alive
  <2>4. r \notin {e.obj : e \in Entries(c)}
    BY <2>1, <2>3
  <2>5. \/ heap[c].type_ = "LOCAL" /\ r = heap[c].me_
        \/ \E e \in Entries(c) : e.kind = "Group" /\ r \in heap[e.obj].members
    BY <2>1, <2>4 DEF Read
  <2>6. heap[r].kind = "Role"
    <3>1. CASE heap[c].type_ = "LOCAL" /\ r = heap[c].me_
      BY <3>1, <2>2, <1>2 DEF KindsOK, KindOf
    <3>2. CASE \E e \in Entries(c) : e.kind = "Group" /\ r \in heap[e.obj].members
      BY <3>2, <1>2 DEF KindsOK, KindOf, EntriesOK, Entries
    <3> QED
      BY <2>5, <3>1, <3>2
  <2> QED
    BY <2>1, <2>4, <2>6
<1>7. FaultOK'
  <2>1. fault' # "double free"
    BY <1>3
  <2>2. UsesExplained'
    <3>1. heap' = heap /\ entries' = entries
      BY <1>1
    <3>2. c \in Live("Session")' /\ Entries(c)' = Entries(c)
      BY <3>1 DEF Live, Entries
    <3>3. Read(c)' = Read(c)
      BY <3>1, <3>2, Zenon DEF Read
    <3> QED
      BY <3>1, <3>2, <3>3, <1>6 DEF UsesExplained
  <2> QED
    BY <2>1, <2>2 DEF FaultOK
<1> QED
  BY <1>4, <1>5, <1>7, TypePartsNext DEF IInv

-----------------------------------------------------------------------------
\* A step that frees objects, gives a session a body, or drops entries.
Named(o)   == /\ heap'[o].kind = heap[o].kind /\ heap'[o].name = heap[o].name
              /\ heap'[o].as = heap[o].as
Pointed(o) == /\ heap'[o].me_ = heap[o].me_ /\ heap'[o].type_ = heap[o].type_
              /\ heap'[o].members = heap[o].members
NewRoot(o) == \/ heap'[o].root_ = heap[o].root_
              \/ heap[o].kind = "Session" /\ heap'[o].root_ \in DOMAIN heap

\* It keeps types and kinds, and moves no rule.
LEMMA FreeingTypes ==
  ASSUME TypeOK, KindsOK, heap' \in Seq(Object), DOMAIN heap' = DOMAIN heap,
         \A o \in DOMAIN heap : Named(o) /\ Pointed(o) /\ NewRoot(o) /\ heap'[o].rules = heap[o].rules,
         entries' \subseteq entries, mine' \subseteq mine, UNCHANGED given,
         fault' \in {"no", "double free", "use after free", "null"}
  PROVE  /\ TypeOK' /\ KindsOK'
         /\ \A c \in DOMAIN heap : Rules(c)' = Rules(c)
         /\ \A c \in DOMAIN heap : \A p : RoleAt(c, p)' = RoleAt(c, p) /\ MsgAt(c, p)' = MsgAt(c, p)
<1>1. HeapOK /\ RulesOK /\ EntriesOK /\ OthersOK
  BY TypeParts
<1>2. /\ \A c \in DOMAIN heap : Rules(c)' = Rules(c)
      /\ \A c \in DOMAIN heap : \A p : RoleAt(c, p)' = RoleAt(c, p) /\ MsgAt(c, p)' = MsgAt(c, p)
  BY DEF Rules, RoleAt, MsgAt
<1>a. \A o \in DOMAIN heap : heap'[o].kind = heap[o].kind
  BY DEF Named
<1>b. ASSUME NEW o \in DOMAIN heap
      PROVE  /\ heap[o].members \subseteq DOMAIN heap /\ heap[o].me_ \in DOMAIN heap \cup {Null}
             /\ heap[o].root_ \in DOMAIN heap \cup {Null}
  BY <1>1 DEF HeapOK
<1>3. ASSUME NEW o \in DOMAIN heap PROVE KindOf(o)'
  <2>1. KindOf(o)
    BY DEF KindsOK
  <2>2. heap'[o].root_ # Null => heap'[o].kind = "Session"
    BY <2>1, <1>a DEF KindOf, NewRoot
  <2>3. heap'[o].me_ # Null => heap'[heap'[o].me_].kind = "Role"
    BY <2>1, <1>a, <1>b DEF KindOf, Pointed
  <2>4. ASSUME NEW r \in heap'[o].members PROVE heap'[r].kind = "Role"
    <3>1. heap'[o].members = heap[o].members
      BY DEF Pointed
    <3>2. r \in heap[o].members /\ r \in DOMAIN heap
      BY <3>1, <1>b
    <3>3. heap[r].kind = "Role"
      BY <3>2, <2>1 DEF KindOf
    <3> QED
      BY <3>2, <3>3, <1>a
  <2>5. /\ heap'[o].kind \notin Nameless => heap'[o].name \in Name
        /\ heap'[o].as # NoName => heap'[o].kind = "Import"
        /\ heap'[o].type_ = "LOCAL" => heap'[o].me_ # Null
    BY <2>1 DEF KindOf, Named, Pointed
  <2>6. /\ Rules(o)' # {} => heap'[o].kind = "Interruptible"
        /\ \A p \in Rules(o)' : RoleAt(o, p)' \in DOMAIN heap' /\ MsgAt(o, p)' \in DOMAIN heap'
    <3>1. Rules(o)' = Rules(o) /\ \A p : RoleAt(o, p)' = RoleAt(o, p) /\ MsgAt(o, p)' = MsgAt(o, p)
      BY <1>2
    <3>2. /\ Rules(o) # {} => heap[o].kind = "Interruptible"
          /\ \A p \in Rules(o) : RoleAt(o, p) \in DOMAIN heap /\ MsgAt(o, p) \in DOMAIN heap
      BY <2>1 DEF KindOf
    <3>3. heap'[o].kind = heap[o].kind
      BY <1>a
    <3> QED
      BY <3>1, <3>2, <3>3
  <2> QED
    BY <2>2, <2>3, <2>4, <2>5, <2>6 DEF KindOf
<1>4. KindsOK'
  <2>1. \A e \in entries : e.in \in DOMAIN heap /\ e.obj \in DOMAIN heap
    BY <1>1 DEF EntriesOK
  <2> QED
    BY <2>1, <1>3, <1>a DEF KindsOK
<1>5. HeapOK'
  <2> SUFFICES ASSUME NEW o \in DOMAIN heap
               PROVE  /\ heap'[o].root_ \in DOMAIN heap \cup {Null} /\ heap'[o].me_ \in DOMAIN heap \cup {Null}
                      /\ heap'[o].members \subseteq DOMAIN heap
    BY DEF HeapOK
  <2> QED
    BY <1>b DEF Pointed, NewRoot
<1>6. RulesOK'
  <2>1. ASSUME NEW c \in DOMAIN heap, NEW p \in Rules(c)'
        PROVE  heap'[RoleAt(c, p)'].kind = "Role" /\ heap'[MsgAt(c, p)'].kind = "Msg"
    <3>1. p \in Rules(c) /\ RoleAt(c, p)' = RoleAt(c, p) /\ MsgAt(c, p)' = MsgAt(c, p)
      BY <1>2
    <3>2. RoleAt(c, p) \in DOMAIN heap /\ MsgAt(c, p) \in DOMAIN heap
      BY <3>1 DEF KindsOK, KindOf
    <3>3. heap[RoleAt(c, p)].kind = "Role" /\ heap[MsgAt(c, p)].kind = "Msg"
      BY <3>1, <1>1 DEF RulesOK
    <3> QED
      BY <3>1, <3>2, <3>3, <1>a
  <2> QED
    BY <2>1 DEF RulesOK
<1>7. EntriesOK' /\ OthersOK'
  BY <1>1 DEF EntriesOK, OthersOK
<1> QED
  BY <1>2, <1>4, <1>5, <1>6, <1>7, TypePartsNext

\* The object i when those in the set F have been deleted.
After(i, F) == [heap[i] EXCEPT !.live = @ /\ i \notin F]

\* A destructor changes nothing of an object but its life.
LEMMA DeleteEffect ==
  ASSUME TypeOK, NEW freed, heap' = [i \in DOMAIN heap |-> After(i, freed)]
  PROVE  /\ heap' \in Seq(Object) /\ DOMAIN heap' = DOMAIN heap
         /\ \A i \in DOMAIN heap :
              /\ Named(i) /\ Pointed(i) /\ heap'[i].rules = heap[i].rules
              /\ heap'[i].root_ = heap[i].root_
              /\ heap'[i].live <=> heap[i].live /\ i \notin freed
<1>1. HeapOK /\ Len(heap) \in Nat /\ DOMAIN heap = 1..Len(heap) /\ \A i \in DOMAIN heap : heap[i] \in Object
  BY TypeParts, ObjectFacts
<1>2. ASSUME NEW i \in DOMAIN heap
      PROVE  /\ heap'[i] \in Object
             /\ Named(i) /\ Pointed(i) /\ heap'[i].rules = heap[i].rules
             /\ heap'[i].root_ = heap[i].root_
             /\ heap'[i].live <=> heap[i].live /\ i \notin freed
  <2> DEFINE y == heap[i]
             b == heap[i].live /\ i \notin freed
  <2>1. y \in Object /\ heap'[i] = [y EXCEPT !.live = b] /\ b \in BOOLEAN
    BY <1>1 DEF After
  <2> HIDE DEF y, b
  <2>2. /\ heap'[i] \in Object /\ heap'[i].live = b
        /\ heap'[i].kind = y.kind /\ heap'[i].name = y.name /\ heap'[i].as = y.as
        /\ heap'[i].me_ = y.me_ /\ heap'[i].type_ = y.type_
        /\ heap'[i].members = y.members /\ heap'[i].rules = y.rules /\ heap'[i].root_ = y.root_
    BY <2>1 DEF Object
  <2> QED
    BY <2>2 DEF y, b, Named, Pointed
<1>3. heap' \in Seq(Object) /\ DOMAIN heap' = DOMAIN heap
  <2>1. DOMAIN heap' = 1..Len(heap) /\ heap' \in [1..Len(heap) -> Object]
    BY <1>1, <1>2
  <2> QED
    BY <2>1, <1>1
<1> QED
  BY <1>2, <1>3
\* A container whose deletes are all of different objects deletes as many as there are.
LEMMA DeletesCount ==
  ASSUME TypeOK, NEW o \in DOMAIN heap, Holds(o) \subseteq DOMAIN heap,
         \A d, e \in Owned(o) : d.obj = e.obj => d = e
  PROVE  Cardinality(Owned(o)) = Cardinality(Holds(o))
<1> DEFINE f == [x \in Holds(o) |-> CHOOSE d \in Owned(o) : d.obj = x]
<1>1. IsFiniteSet(Holds(o))
  <2>1. DOMAIN heap = 1..Len(heap) /\ Len(heap) \in Nat
    BY TypeParts, ObjectFacts
  <2>2. IsFiniteSet(1..Len(heap))
    BY <2>1, FS_Interval
  <2> QED
    BY <2>1, <2>2, FS_Subset
<1>2. \A x \in Holds(o) : f[x] \in Owned(o) /\ f[x].obj = x
  BY DEF Holds
<1>3. \A d \in Owned(o) : d.obj \in Holds(o)
  BY DEF Holds
<1>4. \A d \in Owned(o) : f[d.obj] = d
  BY <1>2, <1>3
<1>5. f \in [Holds(o) -> Owned(o)]
  BY <1>2
<1> HIDE DEF f
<1>6. f \in Bijection(Holds(o), Owned(o))
  BY <1>2, <1>3, <1>4, <1>5 DEF Bijection, Injection, Surjection, IsInjective
<1> QED
  BY <1>1, <1>6, FS_Bijection DEF ExistsBijection

\* A destructor frees what nobody else owns: the rest of the ownership stays.
LEMMA DeleteInv ==
  ASSUME IInv, Delete
  PROVE  IInv'
<1> DEFINE Frees(o) == {o} \cup Holds(o)
<1>1. PICK o \in mine :
         /\ fault = "no"
         /\ heap' = [i \in DOMAIN heap |-> [heap[i] EXCEPT !.live = @ /\ i \notin Frees(o)]]
         /\ entries' = entries \ Entries(o) /\ mine' = mine \ {o} /\ UNCHANGED given
         /\ fault' = IF Cardinality(Owned(o)) # Cardinality(Frees(o) \ {o}) \/ \E i \in Frees(o) : ~heap[i].live
                     THEN "double free" ELSE "no"
  BY DEF Delete, Running, Holds
<1> DEFINE freed == Frees(o)
<1>2. /\ TypeOK /\ KindsOK /\ EntriesOK /\ MineLives /\ HeldLives /\ HeldByOne /\ HeldOnce
      /\ mine \subseteq DOMAIN heap
  BY TypeParts DEF IInv, Owners, OthersOK
<1>3. o \in DOMAIN heap /\ Alive(o)
  BY <1>2 DEF MineLives
<1>4. /\ heap' \in Seq(Object) /\ DOMAIN heap' = DOMAIN heap
      /\ \A i \in DOMAIN heap :
           /\ Named(i) /\ Pointed(i) /\ heap'[i].rules = heap[i].rules
           /\ heap'[i].root_ = heap[i].root_
           /\ heap'[i].live <=> heap[i].live /\ i \notin freed
  <2>1. heap' = [i \in DOMAIN heap |-> After(i, freed)]
    BY <1>1 DEF After
  <2> HIDE DEF freed, Frees
  <2> QED
    BY <2>1, <1>2, DeleteEffect
<1>5. \A x \in Holds(o) : x \in DOMAIN heap /\ Alive(x) /\ x \notin mine
  BY <1>2, <1>3 DEF HeldLives
<1>6. freed \ {o} = Holds(o) /\ \A i \in freed : heap[i].live
  BY <1>3, <1>5 DEF Alive
<1>a. o \in freed /\ \A x \in Holds(o) : x \in freed
  OBVIOUS
<1>b. \A x \in freed : x = o \/ x \in Holds(o)
  OBVIOUS
<1>c. fault' = IF Cardinality(Owned(o)) # Cardinality(Holds(o)) THEN "double free" ELSE "no"
  BY <1>1, <1>6
<1> HIDE DEF freed, Frees
<1>7. /\ TypeOK' /\ KindsOK'
      /\ \A c \in DOMAIN heap : Rules(c)' = Rules(c)
      /\ \A c \in DOMAIN heap : \A p : RoleAt(c, p)' = RoleAt(c, p) /\ MsgAt(c, p)' = MsgAt(c, p)
  <2>1. entries' \subseteq entries /\ mine' \subseteq mine /\ UNCHANGED given
    BY <1>1
  <2>2. fault' \in {"no", "double free", "use after free", "null"}
    BY <1>c
  <2>3. \A i \in DOMAIN heap : Named(i) /\ Pointed(i) /\ NewRoot(i) /\ heap'[i].rules = heap[i].rules
    BY <1>4 DEF NewRoot
  <2> QED
    BY <1>2, <1>4, <2>1, <2>2, <2>3, FreeingTypes
<1>8. \A c, r : c \in DOMAIN heap => (TwoRulesOf(c, r)' <=> TwoRulesOf(c, r))
  BY <1>7 DEF TwoRulesOf
<1>9. ASSUME NEW c \in DOMAIN heap, Alive(c)'
      PROVE  Alive(c) /\ c # o /\ Owned(c)' = Owned(c) /\ Holds(c)' = Holds(c)
  <2>1. Alive(c) /\ c \notin freed
    BY <1>4, <1>9 DEF Alive
  <2>2. c # o
    BY <2>1, <1>a
  <2>3. Entries(c)' = Entries(c)
    BY <2>2, <1>1 DEF Entries
  <2>4. /\ heap'[c].root_ = heap[c].root_ /\ heap'[c].rules = heap[c].rules
        /\ Rules(c)' = Rules(c)
    BY <1>4, <1>7
  <2>5. Owned(c)' = Owned(c)
    BY <2>3, <2>4 DEF Owned
  <2> QED
    BY <2>1, <2>2, <2>5 DEF Holds
<1>10. MineLives'
  BY <1>1, <1>2, <1>4, <1>5, <1>b DEF MineLives, Alive
<1>11. HeldLives'
  <2> SUFFICES ASSUME NEW c \in DOMAIN heap, Alive(c)', NEW x \in Holds(c)'
               PROVE  x \in DOMAIN heap /\ Alive(x)' /\ x \notin mine'
    BY <1>4 DEF HeldLives
  <2>1. Alive(c) /\ c # o /\ x \in Holds(c)
    BY <1>9
  <2>2. x \in DOMAIN heap /\ Alive(x) /\ x \notin mine
    BY <2>1, <1>2 DEF HeldLives
  <2>3. x \notin Holds(o)
    BY <2>1, <1>2, <1>3 DEF HeldByOne
  <2> QED
    BY <2>2, <2>3, <1>1, <1>4, <1>b DEF Alive
<1>12. HeldByOne'
  <2> SUFFICES ASSUME NEW b \in DOMAIN heap, NEW c \in DOMAIN heap, Alive(b)', Alive(c)', b # c
               PROVE  Holds(b)' \cap Holds(c)' = {}
    BY <1>4 DEF HeldByOne
  <2>1. Alive(b) /\ Alive(c) /\ Holds(b)' = Holds(b) /\ Holds(c)' = Holds(c)
    BY <1>9
  <2> QED
    BY <2>1, <1>2 DEF HeldByOne
<1>13. HeldOnce'
  <2> SUFFICES ASSUME NEW c \in DOMAIN heap, Alive(c)', NEW d \in Owned(c)', NEW e \in Owned(c)', d.obj = e.obj
               PROVE  d = e \/ TwoRulesOf(c, d.obj)'
    BY <1>4 DEF HeldOnce
  <2>1. Alive(c) /\ d \in Owned(c) /\ e \in Owned(c)
    BY <1>9
  <2>2. d = e \/ TwoRulesOf(c, d.obj)
    BY <2>1, <1>2 DEF HeldOnce
  <2> QED
    BY <2>2, <1>8
<1>14. FaultOK'
  <2>1. ASSUME \A r : ~TwoRulesOf(o, r) PROVE fault' # "double free"
    <3>1. \A d, e \in Owned(o) : d.obj = e.obj => d = e
      BY <2>1, <1>2, <1>3 DEF HeldOnce
    <3>2. Cardinality(Owned(o)) = Cardinality(Holds(o))
      BY <3>1, <1>2, <1>3, <1>5, DeletesCount
    <3> QED
      BY <3>2, <1>c
  <2>2. ASSUME fault' = "double free" PROVE \E c \in DOMAIN heap' : \E r : TwoRulesOf(c, r)'
    <3>1. PICK r : TwoRulesOf(o, r)
      BY <2>1, <2>2
    <3>2. TwoRulesOf(o, r)'
      BY <3>1, <1>3, <1>8
    <3> QED
      BY <3>2, <1>3, <1>4
  <2>3. UsesExplained'
    BY <1>c DEF UsesExplained
  <2> QED
    BY <2>2, <2>3 DEF FaultOK
<1> QED
  BY <1>7, <1>10, <1>11, <1>12, <1>13, <1>14 DEF IInv, Owners
\* The old body was held by the session only, and once; the new one was the program's.
LEMMA SetRootInv ==
  ASSUME IInv, SetRoot
  PROVE  IInv'
<1>1. PICK c \in Live("Session"), n \in mine \cap Live("Node") :
         /\ fault = "no"
         /\ heap' = [o \in DOMAIN heap |->
                       IF o = c THEN [heap[o] EXCEPT !.root_ = n]
                       ELSE [heap[o] EXCEPT !.live = @ /\ o # heap[c].root_]]
         /\ mine' = mine \ {n} /\ UNCHANGED <<entries, given, fault>>
  BY DEF SetRoot, Running
<1>2. /\ TypeOK /\ KindsOK /\ EntriesOK /\ MineLives /\ HeldLives /\ HeldByOne /\ HeldOnce
      /\ mine \subseteq DOMAIN heap /\ HeapOK
  BY TypeParts DEF IInv, Owners, OthersOK
<1>3. /\ c \in DOMAIN heap /\ n \in DOMAIN heap /\ n \in mine /\ c # n
      /\ Alive(c) /\ Alive(n) /\ heap[c].kind = "Session"
  BY DEF Live, Alive
<1>d. /\ DOMAIN heap = 1..Len(heap) /\ Len(heap) \in Nat /\ Null \notin DOMAIN heap
      /\ \A o \in DOMAIN heap : heap[o] \in Object
  BY <1>2, ObjectFacts
<1> DEFINE old == heap[c].root_
<1>4. ASSUME NEW o \in DOMAIN heap
      PROVE  /\ heap'[o] \in Object
             /\ Named(o) /\ Pointed(o) /\ heap'[o].rules = heap[o].rules
             /\ heap'[o].root_ = IF o = c THEN n ELSE heap[o].root_
             /\ heap'[o].live <=> heap[o].live /\ (o # c => o # old)
  <2> DEFINE y == heap[o]
             b == heap[o].live /\ o # old
  <2>1. y \in Object /\ b \in BOOLEAN /\ n \in Nat
    BY <1>3, <1>d
  <2>2. CASE o = c
    <3>1. heap'[o] = [y EXCEPT !.root_ = n]
      BY <2>2, <1>1
    <3> HIDE DEF y, b, old
    <3>2. /\ heap'[o] \in Object /\ heap'[o].live = y.live
          /\ heap'[o].kind = y.kind /\ heap'[o].name = y.name /\ heap'[o].as = y.as
          /\ heap'[o].me_ = y.me_ /\ heap'[o].type_ = y.type_
          /\ heap'[o].members = y.members /\ heap'[o].rules = y.rules /\ heap'[o].root_ = n
      BY <3>1, <2>1 DEF Object
    <3> QED
      BY <3>2, <2>2 DEF y, b, Named, Pointed
  <2>3. CASE o # c
    <3>1. heap'[o] = [y EXCEPT !.live = b]
      BY <2>3, <1>1
    <3> HIDE DEF y, b, old
    <3>2. /\ heap'[o] \in Object /\ heap'[o].live = b
          /\ heap'[o].kind = y.kind /\ heap'[o].name = y.name /\ heap'[o].as = y.as
          /\ heap'[o].me_ = y.me_ /\ heap'[o].type_ = y.type_
          /\ heap'[o].members = y.members /\ heap'[o].rules = y.rules /\ heap'[o].root_ = y.root_
      BY <3>1, <2>1 DEF Object
    <3> QED
      BY <3>2, <2>3 DEF y, b, Named, Pointed
  <2> QED
    BY <2>2, <2>3
<1>5. heap' \in Seq(Object) /\ DOMAIN heap' = DOMAIN heap
  <2>1. DOMAIN heap' = 1..Len(heap) /\ heap' \in [1..Len(heap) -> Object]
    BY <1>1, <1>4, <1>d
  <2> QED
    BY <2>1, <1>d
<1>f. [obj |-> old, key |-> NoName] \in Owned(c) \/ old = Null
  BY OwnedFacts
<1>e. ASSUME old # Null PROVE old \in Holds(c)
  <2> DEFINE d == [obj |-> old, key |-> NoName]
  <2>1. d \in Owned(c) /\ d.obj = old
    BY <1>e, <1>f
  <2> HIDE DEF d
  <2> QED
    BY <2>1 DEF Holds
<1> HIDE DEF old
<1>6. /\ TypeOK' /\ KindsOK'
      /\ \A o \in DOMAIN heap : Rules(o)' = Rules(o)
      /\ \A o \in DOMAIN heap : \A p : RoleAt(o, p)' = RoleAt(o, p) /\ MsgAt(o, p)' = MsgAt(o, p)
  <2>1. entries' \subseteq entries /\ mine' \subseteq mine /\ UNCHANGED given
    BY <1>1
  <2>2. fault' \in {"no", "double free", "use after free", "null"}
    BY <1>1
  <2>3. \A i \in DOMAIN heap : Named(i) /\ Pointed(i) /\ NewRoot(i) /\ heap'[i].rules = heap[i].rules
    BY <1>3, <1>4 DEF NewRoot
  <2> QED
    BY <1>2, <1>5, <2>1, <2>2, <2>3, FreeingTypes
<1>7. \A b, r : b \in DOMAIN heap => (TwoRulesOf(b, r)' <=> TwoRulesOf(b, r))
  BY <1>6 DEF TwoRulesOf
<1>8. \A r : ~TwoRulesOf(c, r)
  <2>1. Rules(c) = {}
    BY <1>2, <1>3 DEF KindsOK, KindOf
  <2> QED
    BY <2>1 DEF TwoRulesOf
<1>9. \A b \in DOMAIN heap : Alive(b)' => Alive(b)
  BY <1>4 DEF Alive
<1>10. ASSUME NEW b \in DOMAIN heap, b # c
       PROVE  Owned(b)' = Owned(b) /\ Holds(b)' = Holds(b)
  <2>1. heap'[b].root_ = heap[b].root_ /\ heap'[b].rules = heap[b].rules /\ Rules(b)' = Rules(b)
    BY <1>4, <1>6, <1>10
  <2>2. Entries(b)' = Entries(b)
    BY <1>1 DEF Entries
  <2>3. Owned(b)' = Owned(b)
    BY <2>1, <2>2 DEF Owned
  <2> QED
    BY <2>3 DEF Holds
\* What the session deletes now: the new body, and what it had besides the old one.
<1>11. ASSUME NEW d \in Owned(c)'
       PROVE  d = [obj |-> n, key |-> NoName] \/ (d \in Owned(c) /\ d.obj # old)
  <2>1. heap'[c].root_ = n /\ Rules(c)' = {} /\ entries' = entries
    <3>1. Rules(c) = {}
      BY <1>2, <1>3 DEF KindsOK, KindOf
    <3> QED
      BY <3>1, <1>1, <1>3, <1>4, <1>6
  <2>2. \/ \E e \in entries : /\ e.in = c /\ e.kind # "Session" /\ ~e.alias
                              /\ d = [obj |-> e.obj, key |-> e.key]
        \/ d = [obj |-> n, key |-> NoName]
    <3>1. Owned(c)' = {[obj |-> e.obj, key |-> e.key] : e \in {e \in Entries(c)' : e.kind # "Session" /\ ~e.alias}}
                      \cup {[obj |-> x, key |-> NoName] : x \in {n} \ {Null}}
      BY <2>1 DEF Owned
    <3>2. Entries(c)' = {e \in entries : e.in = c}
      BY <2>1 DEF Entries
    <3> QED
      BY <3>1, <3>2
  <2>3. ASSUME NEW e \in entries, e.in = c, e.kind # "Session", ~e.alias,
               d = [obj |-> e.obj, key |-> e.key]
        PROVE  d \in Owned(c) /\ d.obj # old
    <3>1. d \in Owned(c)
      BY <2>3, OwnedFacts
    <3>2. e.key \in Name /\ e.obj \in DOMAIN heap
      BY <1>2 DEF EntriesOK, Entry
    <3>3. d # [obj |-> old, key |-> NoName] /\ d.obj \in DOMAIN heap
      BY <2>3, <3>2, NamesAssumption
    <3> QED
      BY <3>1, <3>3, <1>d, <1>f, <1>2, <1>3, <1>8 DEF HeldOnce
  <2> QED
    BY <2>2, <2>3
<1>12. n \notin Holds(c) /\ \A b \in DOMAIN heap : Alive(b) => n \notin Holds(b)
  BY <1>2, <1>3 DEF HeldLives
<1>13. old \notin mine /\ old # n /\ \A b \in DOMAIN heap : Alive(b) /\ b # c => old \notin Holds(b)
  <2>1. CASE old = Null
    BY <2>1, <1>2, <1>3, <1>d DEF HeldLives
  <2>2. CASE old # Null
    BY <2>2, <1>e, <1>2, <1>3 DEF HeldLives, HeldByOne
  <2> QED
    BY <2>1, <2>2
<1>14. \A x \in Holds(c)' : x = n \/ (x \in Holds(c) /\ x # old)
  BY <1>11 DEF Holds
<1>15. MineLives'
  <2>1. \A x \in mine : x \in DOMAIN heap /\ Alive(x) /\ x # old
    BY <1>2, <1>13 DEF MineLives
  <2> QED
    BY <2>1, <1>1, <1>4 DEF MineLives, Alive
<1>16. HeldLives'
  <2> SUFFICES ASSUME NEW b \in DOMAIN heap, Alive(b)', NEW x \in Holds(b)'
               PROVE  x \in DOMAIN heap /\ Alive(x)' /\ x \notin mine'
    BY <1>5 DEF HeldLives
  <2>1. CASE b = c /\ x = n
    BY <2>1, <1>1, <1>3, <1>4, <1>13 DEF Alive
  <2>2. CASE b = c /\ x # n
    <3>1. x \in Holds(c) /\ x # old
      BY <2>2, <1>14
    <3>2. x \in DOMAIN heap /\ Alive(x) /\ x \notin mine
      BY <3>1, <1>2, <1>3 DEF HeldLives
    <3> QED
      BY <3>1, <3>2, <1>1, <1>4 DEF Alive
  <2>3. CASE b # c
    <3>1. x \in Holds(b) /\ Alive(b)
      BY <2>3, <1>9, <1>10
    <3>2. x \in DOMAIN heap /\ Alive(x) /\ x \notin mine
      BY <3>1, <1>2 DEF HeldLives
    <3>3. x # old
      BY <3>1, <2>3, <1>13
    <3> QED
      BY <3>2, <3>3, <1>1, <1>4 DEF Alive
  <2> QED
    BY <2>1, <2>2, <2>3
<1>17. HeldByOne'
  <2>1. ASSUME NEW a \in DOMAIN heap, NEW b \in DOMAIN heap, Alive(a)', Alive(b)', a # b
        PROVE  Holds(a)' \cap Holds(b)' = {}
    <3>1. Alive(a) /\ Alive(b) /\ Holds(a) \cap Holds(b) = {}
      BY <2>1, <1>9, <1>2 DEF HeldByOne
    <3>2. \A x \in Holds(a)' : x \in Holds(a) \/ (a = c /\ x = n)
      BY <1>10, <1>14
    <3>3. \A x \in Holds(b)' : x \in Holds(b) \/ (b = c /\ x = n)
      BY <1>10, <1>14
    <3> QED
      BY <3>1, <3>2, <3>3, <2>1, <1>12
  <2> QED
    BY <2>1, <1>5 DEF HeldByOne
<1>18. HeldOnce'
  <2>1. ASSUME NEW b \in DOMAIN heap, Alive(b)', NEW d \in Owned(b)', NEW e \in Owned(b)', d.obj = e.obj
        PROVE  d = e \/ TwoRulesOf(b, d.obj)'
    <3>1. CASE b # c
      <4>1. Alive(b) /\ d \in Owned(b) /\ e \in Owned(b)
        BY <3>1, <2>1, <1>9, <1>10
      <4>2. d = e \/ TwoRulesOf(b, d.obj)
        BY <4>1, <2>1, <1>2 DEF HeldOnce
      <4> QED
        BY <4>2, <1>7
    <3>2. CASE b = c
      <4>1. \A g \in Owned(c) : g.obj \in Holds(c)
        BY DEF Holds
      <4>2. \A g \in Owned(c)' : g = [obj |-> n, key |-> NoName] \/ (g \in Owned(c) /\ g.obj # n)
        BY <1>11, <1>12, <4>1
      <4>3. \/ d = e
            \/ d \in Owned(c) /\ e \in Owned(c)
        BY <4>2, <3>2, <2>1
      <4>4. d = e \/ TwoRulesOf(b, d.obj)
        BY <4>3, <3>2, <2>1, <1>2, <1>3 DEF HeldOnce
      <4> QED
        BY <4>4, <1>7
    <3> QED
      BY <3>1, <3>2
  <2> QED
    BY <2>1, <1>5 DEF HeldOnce
<1>19. FaultOK'
  BY <1>1 DEF FaultOK, UsesExplained
<1> QED
  BY <1>6, <1>15, <1>16, <1>17, <1>18, <1>19 DEF IInv, Owners

\* A program starts with objects that nothing points to, and that are all its own.
LEMMA InitInv ==
  ASSUME Init
  PROVE  IInv
<1>1. PICK h \in Heaps : heap = [o \in DOMAIN h |-> New(h[o])]
  BY DEF Init
<1>2. entries = {} /\ mine = DOMAIN heap /\ given = << >> /\ fault = "no"
  BY DEF Init
<1>3. /\ h \in Seq(Made)
      /\ \A o \in DOMAIN h : /\ h[o].name = NoName <=> h[o].kind \in Nameless
                             /\ h[o].as # NoName => h[o].kind = "Import"
  BY <1>1, HeapsAssumption
<1>4. ASSUME NEW o \in DOMAIN h
      PROVE  /\ heap[o] \in Object
             /\ heap[o].kind = h[o].kind /\ heap[o].name = h[o].name /\ heap[o].as = h[o].as
             /\ heap[o].live = TRUE /\ heap[o].root_ = Null /\ heap[o].me_ = Null
             /\ heap[o].type_ = "GLOBAL" /\ heap[o].members = {}
             /\ \A map \in RuleMap : heap[o].rules[map] = << >>
             /\ h[o].kind \notin Nameless => h[o].name \in Name
  <2>1. h[o] \in Made
    BY <1>3
  <2>2. heap[o] = New(h[o])
    BY <1>1
  <2> DEFINE m == h[o]
             rs == [map \in RuleMap |-> << >>]
  <2>3. rs \in [RuleMap -> Seq(Rule)] /\ \A map \in RuleMap : rs[map] = << >>
    OBVIOUS
  <2> HIDE DEF rs
  <2>4. New(m) = [kind |-> m.kind, name |-> m.name, as |-> m.as, live |-> TRUE, root_ |-> Null, me_ |-> Null,
                  type_ |-> "GLOBAL", members |-> {}, rules |-> rs]
    BY DEF New, rs
  <2> HIDE DEF m
  <2>5. m \in Made
    BY <2>1 DEF m
  <2>6. /\ New(m) \in Object /\ New(m).kind = m.kind /\ New(m).name = m.name /\ New(m).as = m.as
        /\ New(m).live = TRUE /\ New(m).root_ = Null /\ New(m).me_ = Null /\ New(m).type_ = "GLOBAL"
        /\ New(m).members = {} /\ New(m).rules = rs
    BY <2>3, <2>4, <2>5 DEF Object, Made, Null
  <2>7. h[o].kind \notin Nameless => h[o].name \in Name
    BY <1>3, <2>1 DEF Made
  <2> QED
    BY <2>2, <2>3, <2>6, <2>7 DEF m
<1>5. heap \in Seq(Object) /\ DOMAIN heap = DOMAIN h
  <2>1. DOMAIN h = 1..Len(h) /\ Len(h) \in Nat
    BY <1>3
  <2>2. heap \in [1..Len(h) -> Object]
    BY <2>1, <1>1, <1>4
  <2> QED
    BY <2>1, <2>2
<1>6. \A c \in DOMAIN heap : Rules(c) = {}
  <2> SUFFICES ASSUME NEW c \in DOMAIN heap, NEW p \in Rules(c) PROVE FALSE
    OBVIOUS
  <2>1. PICK map \in RuleMap : \E i \in DOMAIN heap[c].rules[map] : p = <<map, i>>
    BY RuleFacts
  <2>2. heap[c].rules[map] = << >>
    BY <1>4, <1>5
  <2> QED
    BY <2>1, <2>2
<1>7. \A c \in DOMAIN heap : Owned(c) = {}
  <2> SUFFICES ASSUME NEW c \in DOMAIN heap, NEW d \in Owned(c) PROVE FALSE
    OBVIOUS
  <2>1. heap[c].root_ = Null /\ Rules(c) = {}
    BY <1>4, <1>5, <1>6
  <2> QED
    BY <2>1, <1>2, OwnedFacts
<1>8. TypeOK
  <2>1. HeapOK
    BY <1>4, <1>5 DEF HeapOK
  <2>2. RulesOK /\ EntriesOK /\ OthersOK
    BY <1>2, <1>6 DEF RulesOK, EntriesOK, OthersOK
  <2> QED
    BY <2>1, <2>2, TypeParts
<1>9. KindsOK
  <2>1. ASSUME NEW o \in DOMAIN heap PROVE KindOf(o)
    BY <1>3, <1>4, <1>5, <1>6 DEF KindOf
  <2> QED
    BY <2>1, <1>2 DEF KindsOK
<1>10. Owners
  <2>1. \A c \in DOMAIN heap : Holds(c) = {}
    BY <1>7 DEF Holds
  <2>2. MineLives
    BY <1>2, <1>4, <1>5 DEF MineLives, Alive
  <2> QED
    BY <2>1, <2>2, <1>7 DEF Owners, HeldLives, HeldByOne, HeldOnce
<1>11. FaultOK
  BY <1>2 DEF FaultOK, UsesExplained
<1> QED
  BY <1>8, <1>9, <1>10, <1>11 DEF IInv
\* A map gets at most the entry that is inserted, and keeps one entry for a key.
LEMMA InsertFacts ==
  ASSUME NEW es, NEW e,
         \A a, d \in es : <<a.in, a.kind, a.key>> = <<d.in, d.kind, d.key>> => a = d
  PROVE  /\ es \subseteq Insert(es, e) /\ Insert(es, e) \subseteq es \cup {e}
         /\ \A a, d \in Insert(es, e) : <<a.in, a.kind, a.key>> = <<d.in, d.kind, d.key>> => a = d
BY DEF Insert

\* What is passed to a container was the program's, so no container has it; an alias
\* makes no owner, nor does a session.
LEMMA AddInv ==
  ASSUME IInv, Add
  PROVE  IInv'
<1>1. PICK o \in mine, c \in DOMAIN heap :
         /\ fault = "no" /\ heap[c].live
         /\ heap[c].kind = Containers(heap[o].kind) /\ heap[o].kind \notin Nameless
         /\ LET named == Insert(entries, EntryFor(c, o, heap[o].name, FALSE)) IN
            entries' = IF heap[o].as = NoName THEN named
                       ELSE Insert(named, EntryFor(c, o, heap[o].as, TRUE))
         /\ given' = Append(given, [in |-> c, obj |-> o, name |-> heap[o].name])
         /\ mine' \in {mine \ {o}} \cup (IF heap[o].kind = "Session" THEN {mine} ELSE {})
         /\ UNCHANGED <<heap, fault>>
  BY DEF Add, Running
<1>2. /\ TypeOK /\ KindsOK /\ HeapOK /\ RulesOK /\ EntriesOK /\ OthersOK /\ Owners
      /\ MineLives /\ HeldLives /\ HeldByOne /\ HeldOnce
  BY TypeParts DEF IInv, Owners
<1>3. /\ o \in DOMAIN heap /\ Alive(o) /\ Alive(c) /\ heap[o].name \in Name
      /\ heap[o].as # NoName => heap[o].as \in Name /\ heap[o].kind = "Import"
      /\ heap[o].kind \in Kind /\ o \in Nat /\ c \in Nat /\ heap[o].live \in BOOLEAN
  <2>1. o \in DOMAIN heap /\ Alive(o) /\ Alive(c)
    BY <1>1, <1>2 DEF OthersOK, MineLives, Alive
  <2>2. KindOf(o)
    BY <2>1, <1>2 DEF KindsOK
  <2>3. heap[o] \in Object
    BY <2>1, <1>2 DEF HeapOK
  <2> QED
    BY <2>1, <2>2, <2>3, <1>1, <1>2, ObjectFacts DEF KindOf, Object
<1> DEFINE first == EntryFor(c, o, heap[o].name, FALSE)
           other == EntryFor(c, o, heap[o].as, TRUE)
<1>4. /\ first.in = c /\ first.kind = heap[o].kind /\ first.key = heap[o].name
      /\ first.obj = o /\ first.alias = FALSE /\ first \in Entry
      /\ other.in = c /\ other.kind = heap[o].kind /\ other.obj = o /\ other.alias = TRUE
      /\ heap[o].as # NoName => other \in Entry
  BY <1>3 DEF EntryFor, Entry
<1> HIDE DEF first, other
<1>5. /\ entries \subseteq entries'
      /\ \A e \in entries' : e \in entries \/ e = first \/ (e = other /\ heap[o].as # NoName)
      /\ \A a, d \in entries' : <<a.in, a.kind, a.key>> = <<d.in, d.kind, d.key>> => a = d
  <2> DEFINE named == Insert(entries, first)
  <2>1. /\ entries \subseteq named /\ named \subseteq entries \cup {first}
        /\ \A a, d \in named : <<a.in, a.kind, a.key>> = <<d.in, d.kind, d.key>> => a = d
    BY <1>2, InsertFacts DEF EntriesOK
  <2>2. entries' = IF heap[o].as = NoName THEN named ELSE Insert(named, other)
    BY <1>1 DEF first, other
  <2> HIDE DEF named
  <2>3. /\ named \subseteq Insert(named, other) /\ Insert(named, other) \subseteq named \cup {other}
        /\ \A a, d \in Insert(named, other) : <<a.in, a.kind, a.key>> = <<d.in, d.kind, d.key>> => a = d
    BY <2>1, InsertFacts
  <2>4. CASE heap[o].as = NoName
    BY <2>4, <2>1, <2>2
  <2>5. CASE heap[o].as # NoName
    BY <2>5, <2>1, <2>2, <2>3
  <2> QED
    BY <2>4, <2>5
<1>6. \A e \in entries' : e \in entries \/
        /\ e \in Entry /\ e.in = c /\ e.obj = o /\ e.kind = heap[o].kind
        /\ e.alias => e.kind = "Import"
        /\ ~e.alias => e.key = heap[o].name
  BY <1>3, <1>4, <1>5
<1>a. heap' = heap /\ mine' \subseteq mine /\ fault' = "no"
  BY <1>1
<1>7. /\ \A b \in DOMAIN heap : Rules(b)' = Rules(b)
      /\ \A b \in DOMAIN heap : \A p : RoleAt(b, p)' = RoleAt(b, p) /\ MsgAt(b, p)' = MsgAt(b, p)
  BY <1>a DEF Rules, RoleAt, MsgAt
<1>8. TypeOK'
  <2>1. HeapOK'
    BY <1>a, <1>2 DEF HeapOK
  <2>2. RulesOK'
    <3>1. ASSUME NEW b \in DOMAIN heap, NEW p \in Rules(b)'
          PROVE  heap[RoleAt(b, p)'].kind = "Role" /\ heap[MsgAt(b, p)'].kind = "Msg"
      <4>1. p \in Rules(b) /\ RoleAt(b, p)' = RoleAt(b, p) /\ MsgAt(b, p)' = MsgAt(b, p)
        BY <1>7
      <4> QED
        BY <4>1, <1>2 DEF RulesOK
    <3> QED
      BY <3>1, <1>a DEF RulesOK
  <2>3. EntriesOK'
    BY <1>2, <1>3, <1>5, <1>6, <1>a DEF EntriesOK
  <2>4. OthersOK'
    <3>1. [in |-> c, obj |-> o, name |-> heap[o].name] \in [in : DOMAIN heap, obj : DOMAIN heap, name : Name]
      BY <1>3
    <3>2. given' \in Seq([in : DOMAIN heap, obj : DOMAIN heap, name : Name])
      BY <3>1, <1>1, <1>2 DEF OthersOK
    <3> QED
      BY <3>2, <1>a, <1>2 DEF OthersOK
  <2> QED
    BY <2>1, <2>2, <2>3, <2>4, TypePartsNext
<1>9. KindsOK'
  <2>1. ASSUME NEW b \in DOMAIN heap PROVE KindOf(b)'
    <3>1. KindOf(b)
      BY <1>2 DEF KindsOK
    <3>2. Rules(b)' = Rules(b) /\ \A p : RoleAt(b, p)' = RoleAt(b, p) /\ MsgAt(b, p)' = MsgAt(b, p)
      BY <1>7
    <3> QED
      BY <3>1, <3>2, <1>a DEF KindOf
  <2>2. ASSUME NEW e \in entries'
        PROVE  /\ heap[e.in].kind = Containers(heap[e.obj].kind) /\ e.kind = heap[e.obj].kind
               /\ e.alias => e.kind = "Import"
    BY <1>1, <1>2, <1>6 DEF KindsOK
  <2> QED
    BY <2>1, <2>2, <1>a DEF KindsOK
<1> DEFINE new == [obj |-> o, key |-> heap[o].name]
<1>10. ASSUME NEW b \in DOMAIN heap, NEW d \in Owned(b)'
       PROVE  d \in Owned(b) \/ (b = c /\ d = new /\ heap[o].kind # "Session")
  <2>1. \/ \E e \in entries' : /\ e.in = b /\ e.kind # "Session" /\ ~e.alias
                               /\ d = [obj |-> e.obj, key |-> e.key]
        \/ d \in Owned(b)
    <3>1. Owned(b)' = {[obj |-> e.obj, key |-> e.key] : e \in {e \in Entries(b)' : e.kind # "Session" /\ ~e.alias}}
                      \cup {[obj |-> x, key |-> NoName] : x \in {heap[b].root_} \ {Null}}
                      \cup UNION {LET rule == heap[b].rules[r[1]][r[2]] IN
                                  {[obj |-> x, key |-> r] : x \in {rule.role, rule.msg}} : r \in Rules(b)}
      <4>1. heap' = heap /\ Rules(b)' = Rules(b)
        BY <1>a, <1>7
      <4> QED
        BY <4>1 DEF Owned
    <3>2. Entries(b)' = {e \in entries' : e.in = b}
      BY DEF Entries
    <3> QED
      BY <3>1, <3>2 DEF Owned
  <2>2. ASSUME NEW e \in entries', e.in = b, e.kind # "Session", ~e.alias,
               d = [obj |-> e.obj, key |-> e.key]
        PROVE  d \in Owned(b) \/ (b = c /\ d = new /\ heap[o].kind # "Session")
    <3>1. CASE e \in entries
      BY <3>1, <2>2, OwnedFacts
    <3>2. CASE e \notin entries
      BY <3>2, <2>2, <1>6
    <3> QED
      BY <3>1, <3>2
  <2> QED
    BY <2>1, <2>2
<1>11. new.obj = o
  OBVIOUS
<1> HIDE DEF new
<1>12. ASSUME NEW b \in DOMAIN heap, NEW x \in Holds(b)'
       PROVE  x \in Holds(b) \/ (b = c /\ x = o /\ heap[o].kind # "Session")
  <2>1. PICK d \in Owned(b)' : x = d.obj
    BY DEF Holds
  <2> QED
    BY <2>1, <1>10, <1>11 DEF Holds
<1>13. \A b \in DOMAIN heap : Alive(b) => o \notin Holds(b)
  BY <1>2 DEF HeldLives
<1>14. heap[o].kind # "Session" => o \notin mine'
  BY <1>1
<1>15. MineLives'
  BY <1>a, <1>2 DEF MineLives, Alive
<1>16. HeldLives'
  <2>1. ASSUME NEW b \in DOMAIN heap, Alive(b), NEW x \in Holds(b)'
        PROVE  x \in DOMAIN heap /\ Alive(x) /\ x \notin mine'
    <3>1. CASE x \in Holds(b)
      BY <3>1, <2>1, <1>a, <1>2 DEF HeldLives
    <3>2. CASE x \notin Holds(b)
      BY <3>2, <1>3, <1>12, <1>14
    <3> QED
      BY <3>1, <3>2
  <2> QED
    BY <2>1, <1>a DEF HeldLives, Alive
<1>17. HeldByOne'
  <2>1. ASSUME NEW a \in DOMAIN heap, NEW b \in DOMAIN heap, Alive(a), Alive(b), a # b
        PROVE  Holds(a)' \cap Holds(b)' = {}
    <3>1. Holds(a) \cap Holds(b) = {}
      BY <2>1, <1>2 DEF HeldByOne
    <3> QED
      BY <3>1, <2>1, <1>12, <1>13
  <2> QED
    BY <2>1, <1>a DEF HeldByOne, Alive
<1>18. HeldOnce'
  <2>1. ASSUME NEW b \in DOMAIN heap, Alive(b), NEW d \in Owned(b)', NEW e \in Owned(b)', d.obj = e.obj
        PROVE  d = e \/ TwoRulesOf(b, d.obj)
    <3>1. \A g \in Owned(b) : g.obj \in Holds(b)
      BY DEF Holds
    <3>2. d = e \/ (d \in Owned(b) /\ e \in Owned(b))
      BY <3>1, <2>1, <1>10, <1>11, <1>13
    <3> QED
      BY <3>2, <2>1, <1>2 DEF HeldOnce
  <2>2. ASSUME NEW b \in DOMAIN heap, NEW r, TwoRulesOf(b, r) PROVE TwoRulesOf(b, r)'
    BY <2>2, <1>7 DEF TwoRulesOf
  <2>3. \A b \in DOMAIN heap : Alive(b)' <=> Alive(b)
    BY <1>a DEF Alive
  <2>4. ASSUME NEW b \in DOMAIN heap, Alive(b)', NEW d \in Owned(b)', NEW e \in Owned(b)', d.obj = e.obj
        PROVE  d = e \/ TwoRulesOf(b, d.obj)'
    BY <2>1, <2>2, <2>3, <2>4
  <2> QED
    BY <2>4, <1>a DEF HeldOnce
<1>19. FaultOK'
  BY <1>a DEF FaultOK, UsesExplained
<1> QED
  BY <1>8, <1>9, <1>15, <1>16, <1>17, <1>18, <1>19 DEF IInv, Owners
\* A list of rules after one was inserted at position i.
LEMMA InsertAtFacts ==
  ASSUME NEW s \in Seq(Rule), NEW i \in 1..(Len(s) + 1), NEW e \in Rule
  PROVE  /\ InsertAt(s, i, e) \in Seq(Rule) /\ Len(InsertAt(s, i, e)) = Len(s) + 1
         /\ \A j \in 1..(Len(s) + 1) :
              InsertAt(s, i, e)[j] = IF j < i THEN s[j] ELSE IF j = i THEN e ELSE s[j - 1]
<1> DEFINE a == SubSeq(s, 1, i - 1)
           b == SubSeq(s, i, Len(s))
<1>1. /\ a \in Seq(Rule) /\ Len(a) = i - 1 /\ \A j \in 1..(i - 1) : a[j] = s[j]
  <2>1. \A j \in 1..(i - 1) : s[j] \in Rule
    OBVIOUS
  <2>2. 1 \in Int /\ i - 1 \in Int
    OBVIOUS
  <2> QED
    BY <2>1, <2>2, SubSeqProperties
<1>2. /\ b \in Seq(Rule) /\ Len(b) = Len(s) - i + 1 /\ \A j \in 1..(Len(s) - i + 1) : b[j] = s[i + j - 1]
  <2>1. \A j \in i..Len(s) : s[j] \in Rule
    OBVIOUS
  <2>2. i \in Int /\ Len(s) \in Int
    OBVIOUS
  <2> QED
    BY <2>1, <2>2, SubSeqProperties
<1> DEFINE pre == a \o <<e>>
           all == pre \o b
<1>3. InsertAt(s, i, e) = all
  BY DEF InsertAt
<1> HIDE DEF a, b
<1>4. /\ pre \in Seq(Rule) /\ Len(pre) = i
      /\ \A j \in 1..i : pre[j] = IF j < i THEN s[j] ELSE e
  <2>1. <<e>> \in Seq(Rule) /\ Len(<<e>>) = 1 /\ <<e>>[1] = e
    OBVIOUS
  <2> QED
    BY <2>1, <1>1, ConcatProperties
<1> HIDE DEF pre
<1>5. /\ all \in Seq(Rule) /\ Len(all) = Len(s) + 1
      /\ \A j \in 1..(Len(s) + 1) : all[j] = IF j <= i THEN pre[j] ELSE b[j - i]
  <2>1. /\ all \in Seq(Rule) /\ Len(all) = Len(pre) + Len(b)
        /\ \A j \in 1..(Len(pre) + Len(b)) : all[j] = IF j <= Len(pre) THEN pre[j] ELSE b[j - Len(pre)]
    BY <1>2, <1>4, ConcatProperties
  <2>2. Len(pre) = i /\ Len(pre) + Len(b) = Len(s) + 1
    BY <1>2, <1>4
  <2> QED
    BY <2>1, <2>2
<1> HIDE DEF all
<1>6. ASSUME NEW j \in 1..(Len(s) + 1)
      PROVE  all[j] = IF j < i THEN s[j] ELSE IF j = i THEN e ELSE s[j - 1]
  <2>1. CASE j <= i
    <3>1. all[j] = pre[j] /\ j \in 1..i
      BY <2>1, <1>5
    <3> QED
      BY <3>1, <1>4, <2>1
  <2>2. CASE ~(j <= i)
    <3>1. all[j] = b[j - i]
      BY <2>2, <1>5
    <3>2. j - i \in 1..(Len(s) - i + 1) /\ i + (j - i) - 1 = j - 1 /\ ~(j < i) /\ j # i
      BY <2>2
    <3>3. b[j - i] = s[i + (j - i) - 1]
      BY <3>2, <1>2
    <3> QED
      BY <3>1, <3>2, <3>3
  <2> QED
    BY <2>1, <2>2
<1> QED
  BY <1>3, <1>5, <1>6

\* What comes of a rule with role r and message m that is added to the block b.
RuleAdded(b, r, m) ==
  /\ b \in DOMAIN heap /\ Alive(b) /\ m \in mine /\ heap[m].kind = "Msg" /\ heap[r].kind = "Role"
  /\ r \in mine \/ \E q \in Rules(b) : r = RoleAt(b, q)
  /\ mine' = mine \ {r, m} /\ UNCHANGED <<entries, given, fault>>
  /\ Holds(b) \cup {r, m} \subseteq Holds(b)'
  /\ \A p \in Rules(b)' : RoleAt(b, p)' = r \/ \E q \in Rules(b) : RoleAt(b, p)' = RoleAt(b, q)
  /\ DOMAIN heap' = DOMAIN heap
  /\ \A o \in DOMAIN heap \ {b} : /\ Holds(o)' = Holds(o) /\ Rules(o)' = Rules(o)
                                   /\ \A p : RoleAt(o, p)' = RoleAt(o, p)
  /\ \A o \in DOMAIN heap : /\ heap'[o].kind = heap[o].kind /\ heap'[o].as = heap[o].as
                            /\ heap'[o].live = heap[o].live /\ heap'[o].root_ = heap[o].root_

\* A rule is put among the others, which move up by one in their map.  Its message was
\* the program's; so was its role, or it is the role of another rule of the block.
LEMMA AddRuleInv ==
  ASSUME IInv, AddRule
  PROVE  IInv' /\ \E b, r, m : RuleAdded(b, r, m)
<1>1. PICK b \in Live("Interruptible"), m \in mine \cap Live("Msg"), map \in RuleMap :
      \E r \in (mine \cap Live("Role")) \cup {heap[b].rules[at[1]][at[2]].role : at \in Rules(b)} :
      \E i \in 1..(Len(heap[b].rules[map]) + 1) :
        LET added == InsertAt(heap[b].rules[map], i, [role |-> r, msg |-> m])
            of    == {j \in DOMAIN added : added[j].role = r} IN
        /\ Running
        /\ \A j \in DOMAIN added : (\E k, l \in of : k <= j /\ j <= l) => j \in of
        /\ heap' = [heap EXCEPT ![b].rules[map] = added]
        /\ mine' = mine \ {r, m}
        /\ UNCHANGED <<entries, given, fault>>
  BY Zenon DEF AddRule
<1>2. PICK r \in (mine \cap Live("Role")) \cup {heap[b].rules[at[1]][at[2]].role : at \in Rules(b)},
           i \in 1..(Len(heap[b].rules[map]) + 1) :
         /\ fault = "no"
         /\ heap' = [heap EXCEPT ![b].rules[map] = InsertAt(heap[b].rules[map], i, [role |-> r, msg |-> m])]
         /\ mine' = mine \ {r, m} /\ UNCHANGED <<entries, given, fault>>
  BY <1>1 DEF Running
<1>3. /\ TypeOK /\ KindsOK /\ HeapOK /\ RulesOK /\ EntriesOK /\ OthersOK /\ Owners
      /\ MineLives /\ HeldLives /\ HeldByOne /\ HeldOnce
  BY TypeParts DEF IInv, Owners
<1>4. /\ b \in DOMAIN heap /\ Alive(b) /\ heap[b].kind = "Interruptible" /\ KindOf(b)
      /\ m \in DOMAIN heap /\ m \in mine /\ heap[m].kind = "Msg"
  BY <1>3 DEF Live, Alive, KindsOK
<1>5. (r \in mine /\ r \in DOMAIN heap /\ heap[r].kind = "Role") \/ (\E q \in Rules(b) : r = RoleAt(b, q))
  BY DEF Live, RoleAt
<1>6. r \in DOMAIN heap /\ heap[r].kind = "Role"
  BY <1>3, <1>4, <1>5 DEF KindOf, RulesOK
<1> DEFINE old == heap[b].rules[map]
           rule == [role |-> r, msg |-> m]
           added == InsertAt(old, i, rule)
<1>7. DOMAIN heap = 1..Len(heap) /\ Len(heap) \in Nat /\ heap[b] \in Object /\ old \in Seq(Rule)
  BY <1>3, <1>4, ObjectFacts
<1>8. rule \in Rule /\ rule.role = r /\ rule.msg = m
  BY <1>4, <1>6, <1>7 DEF Rule
<1>9. /\ added \in Seq(Rule) /\ Len(added) = Len(old) + 1
      /\ \A j \in 1..(Len(old) + 1) :
           added[j] = IF j < i THEN old[j] ELSE IF j = i THEN rule ELSE old[j - 1]
  <2>1. old \in Seq(Rule) /\ i \in 1..(Len(old) + 1) /\ rule \in Rule
    BY <1>7, <1>8
  <2> HIDE DEF rule, old
  <2>2. added = InsertAt(old, i, rule)
    OBVIOUS
  <2> HIDE DEF added
  <2>3. /\ InsertAt(old, i, rule) \in Seq(Rule) /\ Len(InsertAt(old, i, rule)) = Len(old) + 1
        /\ \A j \in 1..(Len(old) + 1) :
             InsertAt(old, i, rule)[j] = IF j < i THEN old[j] ELSE IF j = i THEN rule ELSE old[j - 1]
    BY <2>1, InsertAtFacts
  <2> QED
    BY <2>2, <2>3
<1>i. i \in 1..(Len(old) + 1) /\ Len(old) \in Nat
  BY <1>7
<1>10. /\ heap' \in Seq(Object) /\ DOMAIN heap' = DOMAIN heap
       /\ \A o \in DOMAIN heap : o # b => heap'[o] = heap[o]
       /\ heap'[b].kind = heap[b].kind /\ heap'[b].name = heap[b].name /\ heap'[b].as = heap[b].as
       /\ heap'[b].live = heap[b].live /\ heap'[b].root_ = heap[b].root_ /\ heap'[b].me_ = heap[b].me_
       /\ heap'[b].type_ = heap[b].type_ /\ heap'[b].members = heap[b].members
       /\ \A k \in RuleMap : heap'[b].rules[k] = IF k = map THEN added ELSE heap[b].rules[k]
  <2> DEFINE rs == [heap[b].rules EXCEPT ![map] = added]
             x == [heap[b] EXCEPT !.rules = rs]
  <2>1. heap' = [heap EXCEPT ![b] = x]
    BY <1>2, <1>7
  <2>2. /\ rs \in [RuleMap -> Seq(Rule)]
        /\ \A k \in RuleMap : rs[k] = IF k = map THEN added ELSE heap[b].rules[k]
    <3>1. heap[b].rules \in [RuleMap -> Seq(Rule)]
      BY <1>7 DEF Object
    <3> HIDE DEF added
    <3> QED
      BY <3>1, <1>9
  <2>3. /\ x \in Object /\ x.kind = heap[b].kind /\ x.name = heap[b].name /\ x.as = heap[b].as
        /\ x.live = heap[b].live /\ x.root_ = heap[b].root_ /\ x.me_ = heap[b].me_
        /\ x.type_ = heap[b].type_ /\ x.members = heap[b].members /\ x.rules = rs
    <3> DEFINE y == heap[b]
    <3>1. x = [y EXCEPT !.rules = rs] /\ y \in Object
      BY <1>7
    <3> HIDE DEF y, rs, x
    <3> QED
      BY <3>1, <2>2 DEF Object, y
  <2> HIDE DEF x
  <2>4. /\ heap' \in Seq(Object) /\ DOMAIN heap' = DOMAIN heap /\ heap'[b] = x
        /\ \A o \in DOMAIN heap : o # b => heap'[o] = heap[o]
    BY <2>1, <2>3, <1>3, <1>4, OneObject DEF HeapOK
  <2> QED
    BY <2>2, <2>3, <2>4
<1>11. ASSUME NEW o \in DOMAIN heap, o # b
       PROVE  /\ Rules(o)' = Rules(o) /\ Owned(o)' = Owned(o) /\ Holds(o)' = Holds(o)
              /\ \A p : RoleAt(o, p)' = RoleAt(o, p) /\ MsgAt(o, p)' = MsgAt(o, p)
  <2>1. heap'[o] = heap[o] /\ entries' = entries
    BY <1>2, <1>10, <1>11
  <2>2. Rules(o)' = Rules(o)
    BY <2>1 DEF Rules
  <2>3. Owned(o)' = Owned(o)
    BY <2>1, <2>2 DEF Owned, Entries
  <2> QED
    BY <2>1, <2>2, <2>3 DEF Holds, RoleAt, MsgAt
\* The position of the new rule, and where the others were and are.
<1> DEFINE here == <<map, i>>
           Back(p)  == IF p[1] # map \/ p[2] < i THEN p ELSE <<p[1], p[2] - 1>>
           Shift(q) == IF q[1] # map \/ q[2] < i THEN q ELSE <<q[1], q[2] + 1>>
<1> HIDE DEF old, added, rule
<1>r. \A p : p \in Rules(b) <=> \E k \in RuleMap : \E j \in 1..Len(heap[b].rules[k]) : p = <<k, j>>
  <2>1. \A k \in RuleMap : DOMAIN heap[b].rules[k] = 1..Len(heap[b].rules[k])
    BY <1>3, <1>4, ObjectFacts
  <2> QED
    BY <2>1, RuleFacts
<1>s. \A p : p \in Rules(b)' <=> \E k \in RuleMap : \E j \in 1..Len(heap'[b].rules[k]) : p = <<k, j>>
  <2>1. \A k \in RuleMap : DOMAIN heap'[b].rules[k] = 1..Len(heap'[b].rules[k])
    <3>1. \A k \in RuleMap : heap[b].rules[k] \in Seq(Rule)
      BY <1>3, <1>4, ObjectFacts
    <3> QED
      BY <3>1, <1>9, <1>10
  <2>2. \A p : p \in Rules(b)' <=> \E k \in RuleMap : \E j \in DOMAIN heap'[b].rules[k] : p = <<k, j>>
    BY DEF Rules
  <2> QED
    BY <2>1, <2>2
<1>l. old = heap[b].rules[map] /\ heap'[b].rules[map] = added
  BY <1>10 DEF old
<1>n. \A k \in RuleMap : heap[b].rules[k] \in Seq(Rule) /\ Len(heap[b].rules[k]) \in Nat
  BY <1>3, <1>4, ObjectFacts
<1>12. /\ here \in Rules(b)' /\ RoleAt(b, here)' = r /\ MsgAt(b, here)' = m
  <2>1. here \in Rules(b)'
    BY <1>s, <1>l, <1>9, <1>i
  <2>2. added[i] = rule
    BY <1>9, <1>i
  <2> QED
    BY <2>1, <2>2, <1>l, <1>8 DEF RoleAt, MsgAt
<1>13. ASSUME NEW p \in Rules(b)', p # here
       PROVE  /\ Back(p) \in Rules(b)
              /\ RoleAt(b, p)' = RoleAt(b, Back(p)) /\ MsgAt(b, p)' = MsgAt(b, Back(p))
  <2>1a. PICK k \in RuleMap : \E j \in 1..Len(heap'[b].rules[k]) : p = <<k, j>>
    BY <1>s
  <2>1. PICK j \in 1..Len(heap'[b].rules[k]) : p = <<k, j>>
    BY <2>1a
  <2>2. CASE k # map
    <3>1. Back(p) = p /\ heap'[b].rules[k] = heap[b].rules[k]
      BY <2>1, <2>2, <1>10
    <3> QED
      BY <3>1, <2>1, <1>r DEF RoleAt, MsgAt
  <2>3. CASE k = map /\ j < i
    <3>1. Back(p) = p /\ j \in 1..Len(old) /\ added[j] = old[j]
      BY <2>1, <2>3, <1>i, <1>l, <1>9
    <3> QED
      BY <3>1, <2>1, <2>3, <1>l, <1>r DEF RoleAt, MsgAt
  <2>4. CASE k = map /\ j > i
    <3>1. /\ Back(p) = <<map, j - 1>> /\ j - 1 \in 1..Len(old) /\ added[j] = old[j - 1]
      BY <2>1, <2>4, <1>i, <1>l, <1>9
    <3> QED
      BY <3>1, <2>1, <2>4, <1>l, <1>r DEF RoleAt, MsgAt
  <2>5. ~(k = map /\ j = i) /\ j \in Int /\ i \in Int
    BY <2>1, <1>13, <1>i
  <2> QED
    BY <2>2, <2>3, <2>4, <2>5
<1>14. ASSUME NEW p \in Rules(b)', NEW q \in Rules(b)', p # here, q # here, Back(p) = Back(q)
       PROVE  p = q
  <2>1a. PICK k \in RuleMap : \E j \in 1..Len(heap'[b].rules[k]) : p = <<k, j>>
    BY <1>s
  <2>1. PICK j \in 1..Len(heap'[b].rules[k]) : p = <<k, j>>
    BY <2>1a
  <2>2a. PICK l \in RuleMap : \E h \in 1..Len(heap'[b].rules[l]) : q = <<l, h>>
    BY <1>s
  <2>2. PICK h \in 1..Len(heap'[b].rules[l]) : q = <<l, h>>
    BY <2>2a
  <2>3. j \in Int /\ h \in Int /\ i \in Int
    BY <1>i
  <2>4. /\ Back(p) = <<k, IF k # map \/ j < i THEN j ELSE j - 1>>
        /\ Back(q) = <<l, IF l # map \/ h < i THEN h ELSE h - 1>>
    BY <2>1, <2>2
  <2>5. k = l /\ (IF k # map \/ j < i THEN j ELSE j - 1) = (IF l # map \/ h < i THEN h ELSE h - 1)
    BY <2>4, <1>14
  <2>6. ~(k = map /\ j = i) /\ ~(l = map /\ h = i)
    BY <2>1, <2>2, <1>14
  <2> QED
    BY <2>1, <2>2, <2>3, <2>5, <2>6
<1>15. ASSUME NEW q \in Rules(b)
       PROVE  Shift(q) \in Rules(b)' /\ Shift(q) # here /\ Back(Shift(q)) = q
  <2>1a. PICK k \in RuleMap : \E j \in 1..Len(heap[b].rules[k]) : q = <<k, j>>
    BY <1>r
  <2>1. PICK j \in 1..Len(heap[b].rules[k]) : q = <<k, j>>
    BY <2>1a
  <2>2. CASE k # map
    <3>1. Shift(q) = q /\ Back(q) = q /\ q # here /\ heap'[b].rules[k] = heap[b].rules[k]
      BY <2>1, <2>2, <1>10
    <3> QED
      BY <3>1, <2>1, <1>s
  <2>3. CASE k = map /\ j < i
    <3>1. Shift(q) = q /\ Back(q) = q /\ q # here /\ j \in 1..Len(added)
      BY <2>1, <2>3, <1>i, <1>l, <1>9
    <3> QED
      BY <3>1, <2>1, <2>3, <1>l, <1>s
  <2>4. CASE k = map /\ ~(j < i)
    <3>1. Shift(q) = <<map, j + 1>> /\ j + 1 \in 1..Len(added) /\ j \in Int /\ j >= i
      BY <2>1, <2>4, <1>i, <1>l, <1>9
    <3>2. ~(j + 1 < i) /\ j + 1 # i /\ j + 1 - 1 = j
      BY <3>1, <1>i
    <3>3. Back(<<map, j + 1>>) = <<map, j>>
      BY <3>2
    <3>4. <<map, j + 1>> # here
      BY <3>2
    <3> QED
      BY <3>1, <3>3, <3>4, <2>1, <2>4, <1>l, <1>s
  <2> QED
    BY <2>2, <2>3, <2>4
<1>16. RoleAt(b, here)' = r /\ \A p \in Rules(b)' : p = here \/ p # here
  BY <1>12
<1> HIDE DEF Back, Shift, here
<1>17. ASSUME NEW p \in Rules(b)'
       PROVE  /\ RoleAt(b, p)' \in DOMAIN heap /\ MsgAt(b, p)' \in DOMAIN heap
              /\ heap[RoleAt(b, p)'].kind = "Role" /\ heap[MsgAt(b, p)'].kind = "Msg"
  <2>1. CASE p = here
    BY <2>1, <1>4, <1>6, <1>12
  <2>2. CASE p # here
    BY <2>2, <1>3, <1>4, <1>13 DEF KindOf, RulesOK
  <2> QED
    BY <2>1, <2>2
<1>k. \A o \in DOMAIN heap : /\ heap'[o].kind = heap[o].kind /\ heap'[o].name = heap[o].name
                             /\ heap'[o].as = heap[o].as /\ heap'[o].live = heap[o].live
                             /\ heap'[o].root_ = heap[o].root_ /\ heap'[o].me_ = heap[o].me_
                             /\ heap'[o].type_ = heap[o].type_ /\ heap'[o].members = heap[o].members
  BY <1>10
<1>18. TypeOK'
  <2>1. HeapOK'
    BY <1>3, <1>10, <1>k DEF HeapOK
  <2>2. RulesOK'
    <3>1. ASSUME NEW o \in DOMAIN heap, NEW p \in Rules(o)'
          PROVE  heap'[RoleAt(o, p)'].kind = "Role" /\ heap'[MsgAt(o, p)'].kind = "Msg"
      <4>1. CASE o = b
        BY <4>1, <3>1, <1>17, <1>k
      <4>2. CASE o # b
        <5>1. p \in Rules(o) /\ RoleAt(o, p)' = RoleAt(o, p) /\ MsgAt(o, p)' = MsgAt(o, p)
          BY <4>2, <3>1, <1>11
        <5>2. /\ RoleAt(o, p) \in DOMAIN heap /\ MsgAt(o, p) \in DOMAIN heap
              /\ heap[RoleAt(o, p)].kind = "Role" /\ heap[MsgAt(o, p)].kind = "Msg"
          BY <5>1, <1>3 DEF KindsOK, KindOf, RulesOK
        <5> QED
          BY <5>1, <5>2, <1>k
      <4> QED
        BY <4>1, <4>2
    <3> QED
      BY <3>1, <1>10 DEF RulesOK
  <2>3. EntriesOK' /\ OthersOK'
    BY <1>2, <1>3, <1>10 DEF EntriesOK, OthersOK
  <2> QED
    BY <2>1, <2>2, <2>3, TypePartsNext
<1>19. KindsOK'
  <2>1. ASSUME NEW o \in DOMAIN heap PROVE KindOf(o)'
    <3>1. KindOf(o)
      BY <1>3 DEF KindsOK
    <3>2. heap[o].members \subseteq DOMAIN heap /\ heap[o].me_ \in DOMAIN heap \cup {Null}
      BY <1>3 DEF HeapOK
    <3>3. \A x \in heap'[o].members : heap'[x].kind = "Role"
      <4>1. heap'[o].members = heap[o].members
        BY <1>k
      <4> QED
        BY <4>1, <3>1, <3>2, <1>k DEF KindOf
    <3>4. heap'[o].me_ # Null => heap'[heap'[o].me_].kind = "Role"
      BY <3>1, <3>2, <1>k DEF KindOf
    <3>5. /\ Rules(o)' # {} => heap'[o].kind = "Interruptible"
          /\ \A p \in Rules(o)' : RoleAt(o, p)' \in DOMAIN heap' /\ MsgAt(o, p)' \in DOMAIN heap'
      <4>1. CASE o = b
        BY <4>1, <1>4, <1>10, <1>17
      <4>2. CASE o # b
        <5>1. Rules(o)' = Rules(o) /\ \A p : RoleAt(o, p)' = RoleAt(o, p) /\ MsgAt(o, p)' = MsgAt(o, p)
          BY <4>2, <1>11
        <5>2. /\ Rules(o) # {} => heap[o].kind = "Interruptible"
              /\ \A p \in Rules(o) : RoleAt(o, p) \in DOMAIN heap /\ MsgAt(o, p) \in DOMAIN heap
          BY <3>1 DEF KindOf
        <5> QED
          BY <5>1, <5>2, <1>k, <1>10
      <4> QED
        BY <4>1, <4>2
    <3>6. /\ heap'[o].kind \notin Nameless => heap'[o].name \in Name
          /\ heap'[o].as # NoName => heap'[o].kind = "Import"
          /\ heap'[o].root_ # Null => heap'[o].kind = "Session"
          /\ heap'[o].type_ = "LOCAL" => heap'[o].me_ # Null
      BY <3>1, <1>k DEF KindOf
    <3> QED
      BY <3>3, <3>4, <3>5, <3>6 DEF KindOf
  <2>2. ASSUME NEW e \in entries
        PROVE  /\ heap'[e.in].kind = Containers(heap'[e.obj].kind) /\ e.kind = heap'[e.obj].kind
               /\ e.alias => e.kind = "Import"
    <3>1. e.in \in DOMAIN heap /\ e.obj \in DOMAIN heap
      BY <1>3 DEF EntriesOK
    <3>2. heap'[e.in].kind = heap[e.in].kind /\ heap'[e.obj].kind = heap[e.obj].kind
      BY <3>1, <1>k
    <3> QED
      BY <3>2, <1>3 DEF KindsOK
  <2>3. DOMAIN heap' = DOMAIN heap /\ entries' = entries
    BY <1>2, <1>10
  <2> QED
    BY <2>1, <2>2, <2>3 DEF KindsOK
\* What the block deletes: only the roles and the messages of its rules.
<1>20. \A d : d \in Owned(b) <=> \E p \in Rules(b) : \/ d = [obj |-> RoleAt(b, p), key |-> p]
                                                    \/ d = [obj |-> MsgAt(b, p), key |-> p]
  <2>1. heap[b].root_ = Null /\ \A e \in entries : e.in # b
    <3>1. heap[b].root_ = Null
      BY <1>4 DEF KindOf
    <3>2. \A k : Containers(k) # "Interruptible"
      BY DEF Containers
    <3> QED
      BY <3>1, <3>2, <1>3, <1>4 DEF KindsOK
  <2> QED
    BY <2>1, OwnedFacts
<1>21. ASSUME NEW d \in Owned(b)'
       PROVE  \E p \in Rules(b)' : \/ d = [obj |-> RoleAt(b, p)', key |-> p]
                                  \/ d = [obj |-> MsgAt(b, p)', key |-> p]
  <2>1. Entries(b)' = {} /\ heap'[b].root_ = Null
    <3>1. heap[b].root_ = Null
      BY <1>4 DEF KindOf
    <3>2. \A k : Containers(k) # "Interruptible"
      BY DEF Containers
    <3>3. \A e \in entries' : e.in # b
      BY <3>2, <1>2, <1>3, <1>4 DEF KindsOK
    <3> QED
      BY <3>1, <3>3, <1>10 DEF Entries
  <2>2. PICK p \in Rules(b)' : d \in LET x == heap'[b].rules[p[1]][p[2]] IN {[obj |-> o, key |-> p] : o \in {x.role, x.msg}}
    BY <2>1 DEF Owned
  <2> QED
    BY <2>2 DEF RoleAt, MsgAt
<1>22. ASSUME NEW d \in Owned(b)'
       PROVE  \/ d.key = here /\ d.obj \in {r, m} /\ d = [obj |-> d.obj, key |-> here]
              \/ \E p \in Rules(b)' : /\ p # here /\ d = [obj |-> d.obj, key |-> p]
                                      /\ [obj |-> d.obj, key |-> Back(p)] \in Owned(b)
  <2>1. PICK p \in Rules(b)' : \/ d = [obj |-> RoleAt(b, p)', key |-> p]
                               \/ d = [obj |-> MsgAt(b, p)', key |-> p]
    BY <1>21
  <2>2. d = [obj |-> d.obj, key |-> p] /\ (d.obj = RoleAt(b, p)' \/ d.obj = MsgAt(b, p)') /\ d.key = p
    BY <2>1
  <2>3. CASE p = here
    BY <2>2, <2>3, <1>12
  <2>4. CASE p # here
    <3>1. /\ Back(p) \in Rules(b)
          /\ RoleAt(b, p)' = RoleAt(b, Back(p)) /\ MsgAt(b, p)' = MsgAt(b, Back(p))
      BY <2>4, <1>13
    <3>2. [obj |-> d.obj, key |-> Back(p)] \in Owned(b)
      BY <3>1, <2>2, <1>20
    <3> QED
      BY <3>2, <2>2, <2>4
  <2> QED
    BY <2>3, <2>4
<1>23. \A d \in Owned(b) : d.obj \in Holds(b)
  BY DEF Holds
<1>24. ASSUME NEW x \in Holds(b)' PROVE x \in Holds(b) \/ x = r \/ x = m
  <2>1. PICK d \in Owned(b)' : x = d.obj
    BY DEF Holds
  <2>2. CASE d.obj \in {r, m}
    BY <2>1, <2>2
  <2>3. CASE \E p : [obj |-> d.obj, key |-> Back(p)] \in Owned(b)
    <3>1. PICK p : [obj |-> d.obj, key |-> Back(p)] \in Owned(b)
      BY <2>3
    <3> DEFINE g == [obj |-> d.obj, key |-> Back(p)]
    <3>2. g \in Owned(b) /\ g.obj = x
      BY <3>1, <2>1
    <3> HIDE DEF g
    <3> QED
      BY <3>2, <1>23
  <2> QED
    BY <2>2, <2>3, <1>22
<1>25. r \in mine \/ r \in Holds(b)
  <2>1. CASE \E q \in Rules(b) : r = RoleAt(b, q)
    <3>1. PICK q \in Rules(b) : r = RoleAt(b, q)
      BY <2>1
    <3> DEFINE g == [obj |-> r, key |-> q]
    <3>2. g \in Owned(b) /\ g.obj = r
      BY <3>1, <1>20
    <3> HIDE DEF g
    <3> QED
      BY <3>2, <1>23
  <2> QED
    BY <2>1, <1>5
<1>26. /\ \A a \in DOMAIN heap : Alive(a) => m \notin Holds(a)
       /\ \A a \in DOMAIN heap : Alive(a) /\ a # b => r \notin Holds(a)
       /\ Alive(m) /\ Alive(r)
  <2>1. \A a \in DOMAIN heap : Alive(a) => m \notin Holds(a)
    BY <1>3, <1>4 DEF HeldLives
  <2>2. \A a \in DOMAIN heap : Alive(a) /\ a # b => r \notin Holds(a)
    BY <1>3, <1>4, <1>25 DEF HeldLives, HeldByOne
  <2>3. Alive(m) /\ Alive(r)
    BY <1>3, <1>4, <1>25 DEF HeldLives, MineLives
  <2> QED
    BY <2>1, <2>2, <2>3
<1>27. \A a \in DOMAIN heap : Alive(a)' <=> Alive(a)
  BY <1>k DEF Alive
<1>28. MineLives'
  <2>1. \A o \in mine : o \in DOMAIN heap /\ Alive(o)
    BY <1>3 DEF MineLives, OthersOK
  <2> QED
    BY <2>1, <1>2, <1>27 DEF MineLives
<1>29. HeldLives'
  <2>1. ASSUME NEW a \in DOMAIN heap, Alive(a)', NEW x \in Holds(a)'
        PROVE  x \in DOMAIN heap /\ Alive(x)' /\ x \notin mine'
    <3>1. x \in Holds(a) \/ (a = b /\ (x = r \/ x = m))
      BY <2>1, <1>11, <1>24
    <3>2. CASE x \in Holds(a)
      BY <3>2, <2>1, <1>2, <1>3, <1>27 DEF HeldLives
    <3>3. CASE x = r \/ x = m
      BY <3>3, <1>2, <1>4, <1>6, <1>26, <1>27
    <3> QED
      BY <3>1, <3>2, <3>3
  <2> QED
    BY <2>1, <1>10 DEF HeldLives
<1>30. HeldByOne'
  <2>1. ASSUME NEW a \in DOMAIN heap, NEW c \in DOMAIN heap, Alive(a)', Alive(c)', a # c
        PROVE  Holds(a)' \cap Holds(c)' = {}
    <3>1. Alive(a) /\ Alive(c) /\ Holds(a) \cap Holds(c) = {}
      BY <2>1, <1>3, <1>27 DEF HeldByOne
    <3>2. \A x \in Holds(a)' : x \in Holds(a) \/ (a = b /\ (x = r \/ x = m))
      BY <1>11, <1>24
    <3>3. \A x \in Holds(c)' : x \in Holds(c) \/ (c = b /\ (x = r \/ x = m))
      BY <1>11, <1>24
    <3> QED
      BY <3>1, <3>2, <3>3, <2>1, <1>26
  <2> QED
    BY <2>1, <1>10 DEF HeldByOne
\* Two rules of the block that had the same role have it still.
<1>31. ASSUME NEW x, TwoRulesOf(b, x) PROVE TwoRulesOf(b, x)'
  <2>1. PICK p \in Rules(b), q \in Rules(b) : p # q /\ RoleAt(b, p) = x /\ RoleAt(b, q) = x
    BY <1>31 DEF TwoRulesOf
  <2>2. Shift(p) # Shift(q)
    BY <2>1, <1>15
  <2>3. RoleAt(b, Shift(p))' = x /\ RoleAt(b, Shift(q))' = x
    BY <2>1, <1>13, <1>15
  <2> QED
    BY <2>2, <2>3, <1>15 DEF TwoRulesOf
<1>32. ASSUME NEW p \in Rules(b)', p # here, [obj |-> r, key |-> Back(p)] \in Owned(b)
       PROVE  TwoRulesOf(b, r)'
  <2> DEFINE g == [obj |-> r, key |-> Back(p)]
  <2>1. g \in Owned(b) /\ g.obj = r
    BY <1>32
  <2>2. r \in Holds(b)
    <3> HIDE DEF g
    <3> QED
      BY <2>1, <1>23
  <2>3. PICK q \in Rules(b) : r = RoleAt(b, q)
    BY <2>2, <1>3, <1>4, <1>5 DEF HeldLives
  <2>4. Shift(q) \in Rules(b)' /\ Shift(q) # here /\ RoleAt(b, Shift(q))' = r
    BY <2>3, <1>13, <1>15
  <2> QED
    BY <2>4, <1>12 DEF TwoRulesOf
<1>33. HeldOnce'
  <2>1. ASSUME NEW a \in DOMAIN heap, Alive(a)', NEW d \in Owned(a)', NEW e \in Owned(a)', d.obj = e.obj
        PROVE  d = e \/ TwoRulesOf(a, d.obj)'
    <3>1. CASE a # b
      <4>1. Alive(a) /\ d \in Owned(a) /\ e \in Owned(a)
        BY <3>1, <2>1, <1>11, <1>27
      <4>2. d = e \/ TwoRulesOf(a, d.obj)
        BY <4>1, <2>1, <1>3 DEF HeldOnce
      <4>3. Rules(a)' = Rules(a) /\ \A p : RoleAt(a, p)' = RoleAt(a, p)
        BY <3>1, <1>11
      <4> QED
        BY <4>2, <4>3 DEF TwoRulesOf
    <3>2. CASE a = b
      <4> DEFINE IsNew(g) == g.obj \in {r, m} /\ g = [obj |-> g.obj, key |-> here]
                 IsOld(g, p) == /\ p \in Rules(b)' /\ p # here /\ g = [obj |-> g.obj, key |-> p]
                                /\ [obj |-> g.obj, key |-> Back(p)] \in Owned(b)
      <4>1. (IsNew(d) \/ \E p : IsOld(d, p)) /\ (IsNew(e) \/ \E q : IsOld(e, q))
        BY <3>2, <2>1, <1>22
      <4>2. CASE IsNew(d) /\ IsNew(e)
        BY <4>2, <2>1
      <4>3. ASSUME NEW g, NEW p, IsOld(g, p), g.obj \in {r, m} PROVE TwoRulesOf(b, g.obj)'
        <5> DEFINE u == [obj |-> g.obj, key |-> Back(p)]
        <5>1. u \in Owned(b) /\ u.obj = g.obj
          BY <4>3
        <5>2. g.obj # m
          <6> HIDE DEF u
          <6> QED
            BY <5>1, <1>4, <1>23, <1>26
        <5>3. g.obj = r
          BY <5>2, <4>3
        <5> QED
          BY <5>3, <4>3, <1>32
      <4>4. ASSUME NEW p, NEW q, IsOld(d, p), IsOld(e, q)
            PROVE  d = e \/ TwoRulesOf(b, d.obj)'
        <5> DEFINE u == [obj |-> d.obj, key |-> Back(p)]
                   v == [obj |-> e.obj, key |-> Back(q)]
        <5>1. u \in Owned(b) /\ v \in Owned(b) /\ u.obj = v.obj /\ u.obj = d.obj
          BY <4>4, <2>1
        <5>2. u = v \/ TwoRulesOf(b, d.obj)
          <6> HIDE DEF u, v
          <6> QED
            BY <5>1, <1>3, <1>4 DEF HeldOnce
        <5>3. CASE u = v
          <6>1. Back(p) = Back(q)
            BY <5>3
          <6>2. p = q
            BY <6>1, <4>4, <1>14
          <6> QED
            BY <6>2, <4>4, <2>1
        <5> QED
          BY <5>2, <5>3, <1>31
      <4> QED
        BY <4>1, <4>2, <4>3, <4>4, <3>2, <2>1
    <3> QED
      BY <3>1, <3>2
  <2> QED
    BY <2>1, <1>10 DEF HeldOnce
<1>34. FaultOK'
  BY <1>2 DEF FaultOK, UsesExplained
<1>35. ASSUME NEW d \in Owned(b)' PROVE d.obj \in Holds(b)'
  BY DEF Holds
<1>36. ASSUME NEW p \in Rules(b)'
       PROVE  RoleAt(b, p)' \in Holds(b)' /\ MsgAt(b, p)' \in Holds(b)'
  <2> DEFINE u == [obj |-> RoleAt(b, p)', key |-> p]
             v == [obj |-> MsgAt(b, p)', key |-> p]
  <2>1. [obj |-> RoleAt(b, p)', key |-> p] \in Owned(b)' /\ [obj |-> MsgAt(b, p)', key |-> p] \in Owned(b)'
    <3> DEFINE at(q) == heap'[b].rules[q[1]][q[2]]
               of(q) == {[obj |-> x, key |-> q] : x \in {at(q).role, at(q).msg}}
    <3>1. UNION {of(q) : q \in Rules(b)'} \subseteq Owned(b)'
      BY Zenon DEF Owned
    <3>2. [obj |-> RoleAt(b, p)', key |-> p] \in of(p) /\ [obj |-> MsgAt(b, p)', key |-> p] \in of(p)
      BY DEF RoleAt, MsgAt
    <3> HIDE DEF of
    <3>3. of(p) \subseteq UNION {of(q) : q \in Rules(b)'}
      OBVIOUS
    <3> QED
      BY <3>1, <3>2, <3>3
  <2>2. u \in Owned(b)' /\ v \in Owned(b)' /\ u.obj = RoleAt(b, p)' /\ v.obj = MsgAt(b, p)'
    BY <2>1
  <2> HIDE DEF u, v
  <2> QED
    BY <2>2, <1>35
<1>37. Holds(b) \cup {r, m} \subseteq Holds(b)'
  <2>1. r \in Holds(b)' /\ m \in Holds(b)'
    BY <1>12, <1>36
  <2>2. ASSUME NEW x \in Holds(b) PROVE x \in Holds(b)'
    <3>1. PICK d \in Owned(b) : x = d.obj
      BY DEF Holds
    <3>2. PICK q \in Rules(b) : x = RoleAt(b, q) \/ x = MsgAt(b, q)
      BY <3>1, <1>20
    <3>3. /\ Shift(q) \in Rules(b)' /\ RoleAt(b, Shift(q))' = RoleAt(b, q)
          /\ MsgAt(b, Shift(q))' = MsgAt(b, q)
      BY <1>13, <1>15
    <3> QED
      BY <3>2, <3>3, <1>36
  <2> QED
    BY <2>1, <2>2
<1>38. ASSUME NEW p \in Rules(b)' PROVE RoleAt(b, p)' = r \/ \E q \in Rules(b) : RoleAt(b, p)' = RoleAt(b, q)
  BY <1>12, <1>13
<1>39. RuleAdded(b, r, m)
  BY <1>2, <1>4, <1>5, <1>6, <1>10, <1>11, <1>37, <1>38, <1>k DEF RuleAdded
<1> QED
  BY <1>18, <1>19, <1>28, <1>29, <1>30, <1>33, <1>34, <1>39 DEF IInv, Owners

-----------------------------------------------------------------------------
\* Every action of Containers keeps types, kinds, ownership and the account of faults:
\* each member function of session.h, module.h and node/interruptible.h that moves a pointer.
THEOREM Inductive == Spec => []IInv
<1>1. Init => IInv
  BY InitInv
<1>2. IInv /\ [Next]_vars => IInv'
  <2> SUFFICES ASSUME IInv, [Next]_vars
               PROVE  IInv'
    OBVIOUS
  <2>1. CASE Next
    BY <2>1, AddInv, AddRuleInv, SetRootInv, SetEndpointInv, AddMemberInv, SetNameInv, DeleteInv, PrintTreeInv
       DEF Next
  <2>2. CASE UNCHANGED vars
    <3>1. heap' = heap /\ UNCHANGED <<entries, mine, given, fault>>
      BY <2>2 DEF vars
    <3>2. TypeOK' <=> TypeOK
      BY <3>1 DEF TypeOK, Rules
    <3>3. KindsOK' <=> KindsOK
      BY <3>1 DEF KindsOK, KindOf, Rules, RoleAt, MsgAt
    <3>4. Owners'
      BY <3>1, OwnersKept DEF IInv
    <3>5. FaultOK' <=> FaultOK
      BY <3>1 DEF FaultOK, UsesExplained, TwoRulesOf, Rules, RoleAt, Live, Read, Entries
    <3> QED
      BY <3>2, <3>3, <3>4, <3>5 DEF IInv
  <2> QED
    BY <2>1, <2>2
<1> QED
  BY <1>1, <1>2, PTL DEF Spec
\* Every variable keeps its type and no map has two entries for a key, whatever the
\* names are and whatever the program allocates.
THEOREM Types == Spec => []TypeOK
<1>1. IInv => TypeOK
  BY DEF IInv
<1> QED
  BY <1>1, Inductive, PTL

\* The destructors of session.cc, module.cc and node/interruptible.h free an object once:
\* a double free takes two rules with one role, and what a destructor has yet to delete
\* lives.
THEOREM EachFreedOnce == Spec => []FreedOnce
<1>1. IInv => FreedOnce
  <2> SUFFICES ASSUME IInv PROVE FreedOnce
    OBVIOUS
  <2>1. ASSUME fault = "double free"
        PROVE  \E b \in DOMAIN heap : \E p, q \in Rules(b) :
                 p # q /\ heap[b].rules[p[1]][p[2]].role = heap[b].rules[q[1]][q[2]].role
    <3>1. PICK b \in DOMAIN heap : \E r : TwoRulesOf(b, r)
      BY <2>1 DEF IInv, FaultOK
    <3> QED
      BY <3>1 DEF TwoRulesOf, RoleAt
  <2>2. ASSUME NEW c \in DOMAIN heap, heap[c].live, NEW d \in Owned(c)
        PROVE  heap[d.obj].live
    <3>1. d.obj \in Holds(c)
      BY DEF Holds
    <3> QED
      BY <3>1, <2>2 DEF IInv, Owners, HeldLives, Alive
  <2> QED
    BY <2>1, <2>2 DEF FreedOnce
<1> QED
  BY <1>1, Inductive, PTL

\* st_param_tree_print reads freed memory only by way of the endpoint, or of a member
\* of a group, that is no role of the session.
THEOREM ReadsAfterFree == Spec => []UsesExplained
<1>1. IInv => UsesExplained
  BY DEF IInv, FaultOK
<1> QED
  BY <1>1, Inductive, PTL
-----------------------------------------------------------------------------
Passed(o) == \E i \in DOMAIN given : given[i].obj = o
HeldBy(o) == \E c \in DOMAIN heap : Alive(c) /\ o \in Holds(c)

\* The names by which the object of given[i] asked to be found.
Asked(i) == {given[i].name, heap[given[i].obj].as} \ {NoName}

\* Nothing is passed twice, and what is passed is no longer the program's, unless it is
\* a session.
PassedOnce ==
  /\ \A i, j \in DOMAIN given : given[i].obj = given[j].obj => i = j
  /\ \A o \in DOMAIN heap : Passed(o) => heap[o].kind \notin Nameless /\ (heap[o].kind = "Session" \/ o \notin mine)

\* The maps of a live container have an entry for each name that was asked for, each from
\* an object that asked, and no owning one from an object that was refused.
Listed ==
  /\ \A e \in entries : /\ \E i \in DOMAIN given : given[i].in = e.in /\ given[i].obj = e.obj /\ e.key \in Asked(i)
                        /\ ~e.alias => ~Refused(e.obj)
  /\ \A i \in DOMAIN given : \A key \in Asked(i) : Alive(given[i].in) =>
       \E e \in entries : e.in = given[i].in /\ e.kind = heap[given[i].obj].kind /\ e.key = key

\* Where live objects are, and what bodies and the roles of rules are.
Placed ==
  /\ \A o \in DOMAIN heap : Alive(o) => o \in mine \/ heap[o].kind = "Session" \/ HeldBy(o) \/ Refused(o)
  /\ \A o \in DOMAIN heap : Alive(o) /\ heap[o].kind \in {"Module", "Interruptible"} => o \in mine
  /\ \A o \in DOMAIN heap : heap[o].root_ # Null => heap[heap[o].root_].kind = "Node"
  /\ \A o \in DOMAIN heap : Alive(o) => \A p \in Rules(o) : ~Passed(RoleAt(o, p))

Account == PassedOnce /\ Listed /\ Placed
-----------------------------------------------------------------------------
\* What may be held, and what may hold.
LEMMA HeldKinds ==
  ASSUME TypeOK, KindsOK, Placed, NEW c \in DOMAIN heap, NEW x \in Holds(c)
  PROVE  /\ heap[x].kind \in {"Role", "Group", "Import", "Const", "Node", "Msg"}
         /\ heap[c].kind \in {"Session", "Module", "Interruptible"}
<1>1. EntriesOK /\ RulesOK /\ HeapOK
  BY TypeParts
<1>2. PICK d \in Owned(c) : x = d.obj
  BY DEF Holds
<1>3. CASE \E e \in entries : /\ e.in = c /\ e.kind # "Session" /\ ~e.alias
                              /\ d = [obj |-> e.obj, key |-> e.key]
  <2>1. PICK e \in entries : e.in = c /\ e.kind # "Session" /\ d = [obj |-> e.obj, key |-> e.key]
    BY <1>3
  <2>2. heap[c].kind = Containers(heap[x].kind) /\ e.kind = heap[x].kind
    BY <1>2, <2>1 DEF KindsOK
  <2>3. heap[c].kind \in Kind
    BY <1>1, ObjectFacts
  <2> QED
    BY <2>1, <2>2, <2>3 DEF Containers, Kind
<1>4. CASE heap[c].root_ # Null /\ d = [obj |-> heap[c].root_, key |-> NoName]
  BY <1>2, <1>4 DEF KindsOK, KindOf, Placed
<1>5. CASE \E p \in Rules(c) : \/ d = [obj |-> RoleAt(c, p), key |-> p]
                               \/ d = [obj |-> MsgAt(c, p), key |-> p]
  <2>1. PICK p \in Rules(c) : x = RoleAt(c, p) \/ x = MsgAt(c, p)
    BY <1>2, <1>5
  <2>2. heap[RoleAt(c, p)].kind = "Role" /\ heap[MsgAt(c, p)].kind = "Msg"
    BY <1>1 DEF RulesOK
  <2>3. heap[c].kind = "Interruptible"
    BY <2>1 DEF KindsOK, KindOf
  <2> QED
    BY <2>1, <2>2, <2>3
<1> QED
  BY <1>3, <1>4, <1>5, OwnedFacts

\* A refused object was passed.
LEMMA RefusedPassed ==
  ASSUME NEW o, Refused(o)
  PROVE  Passed(o)
BY DEF Refused, Passed

\* A refused object that is no session has no owner.
LEMMA RefusedFree ==
  ASSUME IInv, Account, NEW o \in DOMAIN heap, Refused(o), heap[o].kind # "Session"
  PROVE  o \notin mine /\ ~HeldBy(o)
<1>1. Passed(o) /\ o \notin mine /\ heap[o].kind \notin Nameless
  BY RefusedPassed DEF Account, PassedOnce
<1>2. ASSUME NEW c \in DOMAIN heap, Alive(c), o \in Holds(c) PROVE FALSE
  <2>1. PICK d \in Owned(c) : o = d.obj
    BY <1>2 DEF Holds
  <2>2. CASE \E e \in entries : /\ e.in = c /\ e.kind # "Session" /\ ~e.alias
                                /\ d = [obj |-> e.obj, key |-> e.key]
    BY <2>1, <2>2 DEF Account, Listed
  <2>3. CASE heap[c].root_ # Null /\ d = [obj |-> heap[c].root_, key |-> NoName]
    BY <2>1, <2>3, <1>1 DEF Account, Placed, Nameless
  <2>4. CASE \E p \in Rules(c) : \/ d = [obj |-> RoleAt(c, p), key |-> p]
                                 \/ d = [obj |-> MsgAt(c, p), key |-> p]
    <3>1. PICK p \in Rules(c) : o = RoleAt(c, p) \/ o = MsgAt(c, p)
      BY <2>1, <2>4
    <3>2. ~Passed(RoleAt(c, p))
      BY <1>2 DEF Account, Placed
    <3>3. heap[MsgAt(c, p)].kind = "Msg"
      BY TypeParts DEF IInv, RulesOK
    <3> QED
      BY <3>1, <3>2, <3>3, <1>1 DEF Nameless
  <2> QED
    BY <2>2, <2>3, <2>4, OwnedFacts
<1> QED
  BY <1>1, <1>2 DEF HeldBy

\* The balance explains what is leaked.
LEMMA Balance ==
  ASSUME IInv, Account
  PROVE  LeaksExplained
<1> DEFINE Lost(o) == \/ Refused(o) /\ heap[o].kind # "Session"
                      \/ o \in Abandoned
                      \/ \E c \in Abandoned : o \in Holds(c)
<1>1. /\ TypeOK /\ KindsOK /\ MineLives /\ HeldLives /\ HeldByOne
      /\ mine \subseteq DOMAIN heap
  BY TypeParts DEF IInv, Owners, OthersOK
<1>2. \A o : o \in WillBeFreed <=> o \in mine \/ \E c \in mine : o \in Holds(c)
  BY DEF WillBeFreed, Holds
<1>3. \A o : o \in Leaked <=> o \in DOMAIN heap /\ heap[o].live /\ o \notin WillBeFreed
  BY DEF Leaked
<1>4. \A o : o \in Abandoned <=> o \in DOMAIN heap /\ Alive(o) /\ heap[o].kind = "Session" /\ o \notin mine
  <2>1. ASSUME NEW o \in DOMAIN heap, heap[o].kind = "Session", o \in WillBeFreed PROVE o \in mine
    BY <2>1, <1>1, <1>2, HeldKinds DEF Account
  <2> QED
    BY <2>1, <1>2, <1>3 DEF Abandoned, Alive
<1>5. ASSUME NEW o \in Leaked PROVE Lost(o)
  <2>1. o \in DOMAIN heap /\ Alive(o) /\ o \notin mine /\ \A c \in mine : o \notin Holds(c)
    BY <1>2, <1>3 DEF Alive
  <2>2. heap[o].kind = "Session" \/ HeldBy(o) \/ Refused(o)
    BY <2>1 DEF Account, Placed
  <2>3. CASE heap[o].kind = "Session"
    BY <2>1, <2>3, <1>4
  <2>4. CASE HeldBy(o)
    <3>1. PICK c \in DOMAIN heap : Alive(c) /\ o \in Holds(c)
      BY <2>4 DEF HeldBy
    <3>2. c \notin mine
      BY <3>1, <2>1
    <3>3. heap[c].kind = "Session"
      BY <3>1, <3>2, <1>1, HeldKinds DEF Account, Placed
    <3> QED
      BY <3>1, <3>2, <3>3, <1>4
  <2>5. CASE Refused(o) /\ heap[o].kind # "Session"
    BY <2>5
  <2> QED
    BY <2>2, <2>3, <2>4, <2>5
<1>6. ASSUME NEW o \in DOMAIN heap, heap[o].live, Lost(o) PROVE o \in Leaked
  <2>2. CASE Refused(o) /\ heap[o].kind # "Session"
    <3>1. o \notin mine /\ ~HeldBy(o)
      BY <2>2, RefusedFree
    <3> QED
      BY <3>1, <1>1, <1>2, <1>3, <1>6 DEF HeldBy, MineLives
  <2>3. CASE o \in Abandoned
    BY <2>3 DEF Abandoned
  <2>4. ASSUME NEW c \in Abandoned, o \in Holds(c) PROVE o \in Leaked
    <3>1. c \in DOMAIN heap /\ Alive(c) /\ c \notin mine
      BY <1>4
    <3>2. o \notin mine
      BY <2>4, <3>1, <1>1 DEF HeldLives
    <3>3. ASSUME NEW b \in mine PROVE o \notin Holds(b)
      BY <2>4, <3>1, <1>1 DEF HeldByOne, MineLives
    <3> QED
      BY <3>2, <3>3, <1>2, <1>3, <1>6
  <2> QED
    BY <2>2, <2>3, <2>4, <1>6
<1>7. Leaked = {o \in DOMAIN heap : heap[o].live /\ Lost(o)}
  BY <1>3, <1>5, <1>6
<1>8. \A o : Lost(o) <=> \/ Refused(o) /\ heap[o].kind # "Session"
                         \/ o \in Abandoned
                         \/ \E c \in Abandoned : o \in {d.obj : d \in Owned(c)}
  BY DEF Holds
<1> HIDE DEF Lost
<1> QED
  BY <1>7, <1>8 DEF LeaksExplained
-----------------------------------------------------------------------------
\* A step that passes nothing: who asked for what, and who was refused, stays.
Steady == /\ DOMAIN heap' = DOMAIN heap /\ UNCHANGED given
          /\ \A o \in DOMAIN heap : heap'[o].kind = heap[o].kind /\ heap'[o].as = heap[o].as

\* And that takes no entry from a container that lives on.
NamesStay == Steady /\ \A c \in DOMAIN heap : Alive(c)' => Alive(c) /\ Entries(c)' = Entries(c)

LEMMA GivenKept ==
  ASSUME TypeOK, Steady
  PROVE  /\ \A i \in DOMAIN given : /\ given[i].in \in DOMAIN heap /\ given[i].obj \in DOMAIN heap
                                    /\ Asked(i)' = Asked(i)
         /\ \A o : Passed(o)' <=> Passed(o)
         /\ \A o \in DOMAIN heap : Refused(o)' <=> Refused(o)
<1>1. given \in Seq([in : DOMAIN heap, obj : DOMAIN heap, name : Name])
  BY TypeParts DEF OthersOK
<1>2. \A i \in DOMAIN given : given[i].in \in DOMAIN heap /\ given[i].obj \in DOMAIN heap
  <2> DEFINE G == [in : DOMAIN heap, obj : DOMAIN heap, name : Name]
  <2>1. \A g \in G : g.in \in DOMAIN heap /\ g.obj \in DOMAIN heap
    OBVIOUS
  <2>2. given \in Seq(G)
    BY <1>1
  <2> HIDE DEF G
  <2>3. \A i \in DOMAIN given : given[i] \in G
    BY <2>2
  <2> QED
    BY <2>1, <2>3
<1>3. \A i \in DOMAIN given : Asked(i)' = Asked(i)
  BY <1>2 DEF Asked, Steady
<1>4. \A o : Passed(o)' <=> Passed(o)
  BY DEF Passed, Steady
<1>5. ASSUME NEW o \in DOMAIN heap PROVE Refused(o)' <=> Refused(o)
  BY <1>2 DEF Refused, Steady
<1> QED
  BY <1>2, <1>3, <1>4, <1>5

\* Such a step keeps what was passed, if it gives the program nothing.
LEMMA PassedKept ==
  ASSUME TypeOK, Steady, PassedOnce, mine' \subseteq mine
  PROVE  PassedOnce'
<1>1. \A o \in DOMAIN heap : Passed(o)' <=> Passed(o)
  BY GivenKept
<1> QED
  BY <1>1 DEF PassedOnce, Steady

\* And what is listed, if no container comes to life and none that lives loses entries.
LEMMA ListedKept ==
  ASSUME TypeOK, Steady, Listed, entries' \subseteq entries,
         \A o \in DOMAIN heap : Alive(o)' => Alive(o) /\ \A e \in entries : e.in = o => e \in entries'
  PROVE  Listed'
<1>1. \A e \in entries : e.in \in DOMAIN heap /\ e.obj \in DOMAIN heap
  BY TypeParts DEF EntriesOK
<1>2. /\ \A i \in DOMAIN given : /\ given[i].in \in DOMAIN heap /\ given[i].obj \in DOMAIN heap
                                 /\ Asked(i)' = Asked(i)
      /\ \A o \in DOMAIN heap : Refused(o)' <=> Refused(o)
  BY GivenKept
<1>3. given' = given /\ \A i \in DOMAIN given : heap'[given[i].obj].kind = heap[given[i].obj].kind
  BY <1>2 DEF Steady
<1>4. ASSUME NEW e \in entries'
      PROVE  /\ \E i \in DOMAIN given : given[i].in = e.in /\ given[i].obj = e.obj /\ e.key \in Asked(i)'
             /\ ~e.alias => ~Refused(e.obj)'
  BY <1>1, <1>2 DEF Listed
<1>5. ASSUME NEW i \in DOMAIN given, NEW key \in Asked(i), NEW c \in DOMAIN heap, given[i].in = c, Alive(c)'
      PROVE  \E e \in entries' : e.in = c /\ e.kind = heap[given[i].obj].kind /\ e.key = key
  <2>1. Alive(c)
    BY <1>5
  <2>2. PICK e \in entries : e.in = c /\ e.kind = heap[given[i].obj].kind /\ e.key = key
    BY <2>1, <1>5 DEF Listed
  <2> QED
    BY <2>2, <1>5
<1>6. \A e \in entries' : /\ \E i \in DOMAIN given' : given'[i].in = e.in /\ given'[i].obj = e.obj /\ e.key \in Asked(i)'
                          /\ ~e.alias => ~Refused(e.obj)'
  BY <1>3, <1>4
<1>7. ASSUME NEW i \in DOMAIN given', NEW key \in Asked(i)', Alive(given[i].in)'
      PROVE  \E e \in entries' : e.in = given'[i].in /\ e.kind = heap'[given'[i].obj].kind /\ e.key = key
  <2>0. PICK c \in DOMAIN heap : c = given[i].in
    BY <1>2, <1>3
  <2>1. i \in DOMAIN given /\ key \in Asked(i) /\ c = given'[i].in
    BY <2>0, <1>2, <1>3
  <2>2. heap'[c].live
    BY <1>7, <2>1 DEF Alive
  <2>3. Alive(c)'
    BY <2>2, <2>1 DEF Alive
  <2>4. \E e \in entries' : e.in = c /\ e.kind = heap[given[i].obj].kind /\ e.key = key
    BY <2>0, <2>1, <2>3, <1>3, <1>5
  <2> QED
    BY <2>1, <2>4, <1>3
<1> QED
  BY <1>6, <1>7 DEF Listed

\* Where neither bodies nor rules nor lives change.
LEMMA AccountKept ==
  ASSUME TypeOK, Owners, Account, Steady, UNCHANGED <<entries, mine>>,
         \A o \in DOMAIN heap : /\ heap'[o].live = heap[o].live /\ heap'[o].root_ = heap[o].root_
                                /\ heap'[o].rules = heap[o].rules
  PROVE  Account'
<1>1. PassedOnce' /\ Listed'
  BY PassedKept, ListedKept DEF Account, Alive
<1>2. /\ \A c \in DOMAIN heap : Rules(c)' = Rules(c) /\ Owned(c)' = Owned(c)
      /\ \A c \in DOMAIN heap : \A p : RoleAt(c, p)' = RoleAt(c, p)
  BY OwnersKept DEF Steady
<1>3. \A c \in DOMAIN heap : Holds(c)' = Holds(c) /\ (Alive(c)' <=> Alive(c))
  BY <1>2 DEF Holds, Alive
<1>4. \A o : HeldBy(o)' <=> HeldBy(o)
  BY <1>3 DEF HeldBy, Steady
<1>5. /\ \A o : Passed(o)' <=> Passed(o)
      /\ \A o \in DOMAIN heap : Refused(o)' <=> Refused(o)
  BY GivenKept
<1>6. \A o \in DOMAIN heap : heap[o].root_ \in DOMAIN heap \cup {Null}
  BY TypeParts DEF HeapOK
<1>7. Placed'
  <2>1. \A o \in DOMAIN heap : Alive(o)' => o \in mine' \/ heap'[o].kind = "Session" \/ HeldBy(o)' \/ Refused(o)'
    BY <1>3, <1>4, <1>5 DEF Account, Placed, Steady
  <2>2. \A o \in DOMAIN heap : Alive(o)' /\ heap'[o].kind \in {"Module", "Interruptible"} => o \in mine'
    BY <1>3 DEF Account, Placed, Steady
  <2>3. \A o \in DOMAIN heap : heap'[o].root_ # Null => heap'[heap'[o].root_].kind = "Node"
    BY <1>6 DEF Account, Placed, Steady
  <2>4. \A o \in DOMAIN heap : Alive(o)' => \A p \in Rules(o)' : ~Passed(RoleAt(o, p))'
    BY <1>2, <1>3, <1>5 DEF Account, Placed
  <2> QED
    BY <2>1, <2>2, <2>3, <2>4 DEF Placed, Steady
<1> QED
  BY <1>1, <1>7 DEF Account
-----------------------------------------------------------------------------
\* set_endpoint, add_member, set_name and printing move nothing.
LEMMA QuietAccount ==
  ASSUME IInv, Account, SetEndpoint \/ AddMember \/ SetName \/ PrintTree
  PROVE  Account' /\ NamesStay
<1>1. TypeOK /\ Owners /\ HeapOK
  BY TypeParts DEF IInv
<1>2. UNCHANGED <<entries, mine, given>>
  BY DEF SetEndpoint, AddMember, SetName, PrintTree
<1>3. /\ DOMAIN heap' = DOMAIN heap
      /\ \A o \in DOMAIN heap : /\ heap'[o].kind = heap[o].kind /\ heap'[o].as = heap[o].as
                                /\ heap'[o].live = heap[o].live /\ heap'[o].root_ = heap[o].root_
                                /\ heap'[o].rules = heap[o].rules
  <2>1. CASE SetEndpoint
    <3>1. PICK c \in Live("Session"), r \in Live("Role") : heap' = [heap EXCEPT ![c].me_ = r, ![c].type_ = "LOCAL"]
      BY <2>1 DEF SetEndpoint
    <3> QED
      BY <3>1, <1>1, ObjectFacts DEF Object
  <2>2. CASE AddMember
    <3>1. PICK g \in Live("Group"), r \in Live("Role") : heap' = [heap EXCEPT ![g].members = @ \cup {r}]
      BY <2>2 DEF AddMember
    <3> QED
      BY <3>1, <1>1, ObjectFacts DEF Object
  <2>3. CASE SetName
    <3>1. PICK r \in Live("Role") \cup Live("Group"), name \in Name : heap' = [heap EXCEPT ![r].name = name]
      BY <2>3 DEF SetName
    <3> QED
      BY <3>1, <1>1, ObjectFacts DEF Object
  <2>4. CASE PrintTree
    BY <2>4 DEF PrintTree
  <2> QED
    BY <2>1, <2>2, <2>3, <2>4
<1>4. Steady /\ \A c \in DOMAIN heap : (Alive(c)' <=> Alive(c)) /\ Entries(c)' = Entries(c)
  BY <1>2, <1>3 DEF Steady, Alive, Entries
<1> QED
  BY <1>1, <1>2, <1>3, <1>4, AccountKept DEF NamesStay

\* A destructor takes its entries with it, and frees no other container.
LEMMA DeleteAccount ==
  ASSUME IInv, Account, Delete
  PROVE  Account' /\ NamesStay
<1> DEFINE Frees(o) == {o} \cup Holds(o)
<1>1. PICK o \in mine :
         /\ heap' = [i \in DOMAIN heap |-> [heap[i] EXCEPT !.live = @ /\ i \notin Frees(o)]]
         /\ entries' = entries \ Entries(o) /\ mine' = mine \ {o} /\ UNCHANGED given
  BY DEF Delete, Holds
<1>2. /\ TypeOK /\ KindsOK /\ EntriesOK /\ HeapOK /\ MineLives /\ HeldLives /\ HeldByOne
      /\ mine \subseteq DOMAIN heap /\ Placed
  BY TypeParts DEF IInv, Owners, OthersOK, Account
<1>3. o \in DOMAIN heap /\ Alive(o)
  BY <1>2 DEF MineLives
<1>4. /\ DOMAIN heap' = DOMAIN heap
      /\ \A i \in DOMAIN heap :
           /\ Named(i) /\ heap'[i].rules = heap[i].rules /\ heap'[i].root_ = heap[i].root_
           /\ heap'[i].live <=> heap[i].live /\ i # o /\ i \notin Holds(o)
  <2> DEFINE F == Frees(o)
  <2>1. F = {o} \cup Holds(o)
    OBVIOUS
  <2>2. heap' = [i \in DOMAIN heap |-> After(i, F)]
    BY <1>1 DEF After
  <2> HIDE DEF F
  <2>3. /\ heap' \in Seq(Object) /\ DOMAIN heap' = DOMAIN heap
        /\ \A i \in DOMAIN heap :
             /\ Named(i) /\ Pointed(i) /\ heap'[i].rules = heap[i].rules
             /\ heap'[i].root_ = heap[i].root_
             /\ heap'[i].live <=> heap[i].live /\ i \notin F
    BY <2>2, <1>2, DeleteEffect
  <2> QED
    BY <2>1, <2>3
<1> HIDE DEF Frees
<1>5. \A c \in DOMAIN heap : Alive(c)' <=> Alive(c) /\ c # o /\ c \notin Holds(o)
  BY <1>4 DEF Alive
<1>6. Steady
  BY <1>1, <1>4 DEF Steady, Named
<1>7. PassedOnce' /\ Listed'
  BY <1>1, <1>2, <1>5, <1>6, PassedKept, ListedKept DEF Account, Entries
<1>8. ASSUME NEW c \in DOMAIN heap, c # o PROVE Holds(c)' = Holds(c)
  <2>1. heap'[c].root_ = heap[c].root_ /\ heap'[c].rules = heap[c].rules
    BY <1>4
  <2>2. Entries(c)' = Entries(c)
    BY <1>1, <1>8 DEF Entries
  <2>3. Rules(c)' = Rules(c)
    BY <2>1 DEF Rules
  <2>4. Owned(c)' = Owned(c)
    BY <2>1, <2>2, <2>3 DEF Owned
  <2> QED
    BY <2>4 DEF Holds
<1>9. /\ \A x : Passed(x)' <=> Passed(x)
      /\ \A x \in DOMAIN heap : Refused(x)' <=> Refused(x)
  BY <1>2, <1>6, GivenKept
<1>10. ASSUME NEW x \in DOMAIN heap, Alive(x)'
       PROVE  x \in mine' \/ heap'[x].kind = "Session" \/ HeldBy(x)' \/ Refused(x)'
  <2>1. Alive(x) /\ x # o /\ x \notin Holds(o)
    BY <1>5, <1>10
  <2>2. CASE HeldBy(x)
    <3>1. PICK c \in DOMAIN heap : Alive(c) /\ x \in Holds(c)
      BY <2>2 DEF HeldBy
    <3>2. c # o
      BY <3>1, <2>1
    <3>3. c \notin Holds(o)
      BY <3>1, <1>2, <1>3, HeldKinds
    <3>4. Alive(c)' /\ x \in Holds(c)'
      BY <3>1, <3>2, <3>3, <1>5, <1>8
    <3> QED
      BY <3>4, <1>4 DEF HeldBy
  <2>3. CASE ~HeldBy(x)
    BY <2>1, <2>3, <1>1, <1>2, <1>6, <1>9 DEF Placed, Steady
  <2> QED
    BY <2>2, <2>3
<1>11. ASSUME NEW x \in DOMAIN heap, Alive(x)', heap'[x].kind \in {"Module", "Interruptible"}
       PROVE  x \in mine'
  <2>1. Alive(x) /\ x # o /\ heap'[x].kind = heap[x].kind
    BY <1>5, <1>6, <1>11 DEF Steady
  <2> QED
    BY <2>1, <1>1, <1>2, <1>11 DEF Placed
<1>12. ASSUME NEW x \in DOMAIN heap, heap'[x].root_ # Null PROVE heap'[heap'[x].root_].kind = "Node"
  <2>1. heap'[x].root_ = heap[x].root_ /\ heap[x].root_ \in DOMAIN heap \cup {Null}
    BY <1>2, <1>4 DEF HeapOK
  <2> QED
    BY <2>1, <1>2, <1>6, <1>12 DEF Placed, Steady
<1>13. ASSUME NEW x \in DOMAIN heap, Alive(x)', NEW p \in Rules(x)' PROVE ~Passed(RoleAt(x, p))'
  <2>1. heap'[x].rules = heap[x].rules /\ Alive(x)
    BY <1>4, <1>5, <1>13
  <2>2. p \in Rules(x) /\ RoleAt(x, p)' = RoleAt(x, p)
    BY <2>1 DEF Rules, RoleAt
  <2> QED
    BY <2>1, <2>2, <1>2, <1>9 DEF Placed
<1>14. Placed'
  BY <1>4, <1>10, <1>11, <1>12, <1>13 DEF Placed
<1>15. ASSUME NEW c \in DOMAIN heap, Alive(c)' PROVE Alive(c) /\ Entries(c)' = Entries(c)
  BY <1>1, <1>5, <1>15 DEF Entries
<1> QED
  BY <1>6, <1>7, <1>14, <1>15 DEF Account, NamesStay

\* The old body dies, and the new one is held.
LEMMA SetRootAccount ==
  ASSUME IInv, Account, SetRoot
  PROVE  Account' /\ NamesStay
<1>1. PICK c \in Live("Session"), n \in mine \cap Live("Node") :
         /\ heap' = [o \in DOMAIN heap |->
                       IF o = c THEN [heap[o] EXCEPT !.root_ = n]
                       ELSE [heap[o] EXCEPT !.live = @ /\ o # heap[c].root_]]
         /\ mine' = mine \ {n} /\ UNCHANGED <<entries, given>>
  BY DEF SetRoot
<1>2. /\ TypeOK /\ KindsOK /\ EntriesOK /\ HeapOK /\ MineLives /\ HeldLives /\ Placed
      /\ mine \subseteq DOMAIN heap
  BY TypeParts DEF IInv, Owners, OthersOK, Account
<1>3. /\ c \in DOMAIN heap /\ n \in DOMAIN heap /\ c # n /\ n # Null
      /\ Alive(c) /\ heap[c].kind = "Session" /\ heap[n].kind = "Node"
  BY <1>2, ObjectFacts DEF Live, Alive
<1>4. PICK old : old = heap[c].root_
  OBVIOUS
<1>5. /\ DOMAIN heap' = DOMAIN heap
      /\ \A o \in DOMAIN heap :
           /\ heap'[o].kind = heap[o].kind /\ heap'[o].as = heap[o].as /\ heap'[o].rules = heap[o].rules
           /\ heap'[o].root_ = IF o = c THEN n ELSE heap[o].root_
           /\ heap'[o].live <=> heap[o].live /\ (o # c => o # old)
  <2>1. ASSUME NEW o \in DOMAIN heap
        PROVE  /\ heap'[o].kind = heap[o].kind /\ heap'[o].as = heap[o].as /\ heap'[o].rules = heap[o].rules
               /\ heap'[o].root_ = IF o = c THEN n ELSE heap[o].root_
               /\ heap'[o].live <=> heap[o].live /\ (o # c => o # old)
    <3>1. PICK y : y = heap[o]
      OBVIOUS
    <3>2. y \in Object
      BY <3>1, <1>2, ObjectFacts
    <3>3. PICK b : b = (heap[o].live /\ o # old)
      OBVIOUS
    <3>4. CASE o = c
      <4>1. heap'[o] = [y EXCEPT !.root_ = n]
        BY <3>1, <3>4, <1>1
      <4> QED
        BY <4>1, <3>1, <3>2, <3>4 DEF Object
    <3>5. CASE o # c
      <4>1. heap'[o] = [y EXCEPT !.live = b]
        BY <3>1, <3>3, <3>5, <1>1, <1>4
      <4>2. heap'[o].live = b
        BY <4>1, <3>2 DEF Object
      <4>3. /\ heap'[o].kind = y.kind /\ heap'[o].as = y.as /\ heap'[o].rules = y.rules
            /\ heap'[o].root_ = y.root_
        BY <4>1, <3>2 DEF Object
      <4> QED
        BY <4>2, <4>3, <3>1, <3>3, <3>5
    <3> QED
      BY <3>4, <3>5
  <2> QED
    BY <2>1, <1>1
<1>6. \A o \in DOMAIN heap : Alive(o)' <=> Alive(o) /\ (o # c => o # old)
  BY <1>5 DEF Alive
<1>7. Steady
  BY <1>1, <1>5 DEF Steady
<1>8. PassedOnce' /\ Listed'
  BY <1>1, <1>2, <1>6, <1>7, PassedKept, ListedKept DEF Account
<1>9. /\ \A x : Passed(x)' <=> Passed(x)
      /\ \A x \in DOMAIN heap : Refused(x)' <=> Refused(x)
  BY <1>2, <1>7, GivenKept
<1>10. \A o \in DOMAIN heap : Rules(o)' = Rules(o) /\ Entries(o)' = Entries(o)
  BY <1>1, <1>5 DEF Rules, Entries
<1>11. ASSUME NEW b \in DOMAIN heap, b # c PROVE Holds(b)' = Holds(b)
  <2>1. heap'[b].root_ = heap[b].root_ /\ heap'[b].rules = heap[b].rules
        /\ Rules(b)' = Rules(b) /\ Entries(b)' = Entries(b)
    BY <1>5, <1>10, <1>11
  <2>2. Owned(b)' = Owned(b)
    BY <2>1 DEF Owned
  <2> QED
    BY <2>2 DEF Holds
<1>12. n \in Holds(c)' /\ \A x \in Holds(c) : x # old => x \in Holds(c)'
  <2>1. heap'[c].root_ = n /\ heap'[c].rules = heap[c].rules
        /\ Rules(c)' = Rules(c) /\ Entries(c)' = Entries(c)
    BY <1>3, <1>5, <1>10
  <2>2. Owned(c) \subseteq Owned(c)' \cup {[obj |-> old, key |-> NoName]}
    <3> DEFINE X    == {[obj |-> e.obj, key |-> e.key] : e \in {e \in Entries(c) : e.kind # "Session" /\ ~e.alias}}
               U    == UNION {LET rule == heap[c].rules[r[1]][r[2]] IN
                              {[obj |-> o, key |-> r] : o \in {rule.role, rule.msg}} : r \in Rules(c)}
               R(x) == {[obj |-> o, key |-> NoName] : o \in {x} \ {Null}}
    <3>1. Owned(c) = X \cup R(old) \cup U
      BY <1>4 DEF Owned
    <3>2. Owned(c)' = X \cup R(n) \cup U
      BY <2>1 DEF Owned
    <3>3. R(old) \subseteq {[obj |-> old, key |-> NoName]}
      OBVIOUS
    <3> HIDE DEF X, U, R
    <3> QED
      BY <3>1, <3>2, <3>3
  <2>3. PICK d : d = [obj |-> n, key |-> NoName]
    OBVIOUS
  <2>4. d \in Owned(c)' /\ d.obj = n
    <3>1. n \in {heap'[c].root_} \ {Null}
      BY <2>1, <1>3
    <3> QED
      BY <2>3, <3>1 DEF Owned
  <2>5. PICK e : e = [obj |-> old, key |-> NoName]
    OBVIOUS
  <2>6. e.obj = old /\ Owned(c) \subseteq Owned(c)' \cup {e}
    BY <2>2, <2>5
  <2> QED
    BY <2>4, <2>6 DEF Holds
<1>13. ASSUME NEW x \in DOMAIN heap, Alive(x)'
       PROVE  x \in mine' \/ heap'[x].kind = "Session" \/ HeldBy(x)' \/ Refused(x)'
  <2>1. Alive(x) /\ (x # c => x # old) /\ Alive(c)'
    BY <1>3, <1>6, <1>13
  <2>2. CASE x = n
    BY <2>1, <2>2, <1>3, <1>5, <1>12 DEF HeldBy
  <2>3. CASE HeldBy(x)
    <3>1. PICK b \in DOMAIN heap : Alive(b) /\ x \in Holds(b)
      BY <2>3 DEF HeldBy
    <3>2. CASE b = c
      <4>1. x # c
        BY <3>1, <3>2, <1>2, <1>3, HeldKinds
      <4>2. x \in Holds(c)'
        BY <4>1, <3>1, <3>2, <2>1, <1>12
      <4> QED
        BY <4>2, <2>1, <1>3, <1>5 DEF HeldBy
    <3>3. CASE b # c
      <4>1. b # old
        <5>1. heap[b].kind \in {"Session", "Module", "Interruptible"}
          BY <3>1, <1>2, HeldKinds
        <5>2. old # Null => heap[old].kind = "Node"
          BY <1>2, <1>3, <1>4 DEF Placed
        <5>3. b # Null
          BY <1>2, ObjectFacts
        <5> QED
          BY <5>1, <5>2, <5>3
      <4>2. Alive(b)' /\ x \in Holds(b)'
        BY <4>1, <3>1, <3>3, <1>6, <1>11
      <4> QED
        BY <4>2, <1>5 DEF HeldBy
    <3> QED
      BY <3>2, <3>3
  <2>4. CASE x # n /\ ~HeldBy(x)
    BY <2>1, <2>4, <1>1, <1>2, <1>7, <1>9 DEF Placed, Steady
  <2> QED
    BY <2>2, <2>3, <2>4
<1>14. ASSUME NEW x \in DOMAIN heap, Alive(x)', heap'[x].kind \in {"Module", "Interruptible"}
       PROVE  x \in mine'
  <2>1. Alive(x) /\ x # n /\ heap'[x].kind = heap[x].kind
    BY <1>3, <1>6, <1>7, <1>14 DEF Steady
  <2> QED
    BY <2>1, <1>1, <1>2, <1>14 DEF Placed
<1>15. ASSUME NEW x \in DOMAIN heap, heap'[x].root_ # Null PROVE heap'[heap'[x].root_].kind = "Node"
  <2>1. heap'[x].root_ = (IF x = c THEN n ELSE heap[x].root_) /\ heap[x].root_ \in DOMAIN heap \cup {Null}
    BY <1>2, <1>5 DEF HeapOK
  <2> QED
    BY <2>1, <1>2, <1>3, <1>7, <1>15 DEF Placed, Steady
<1>16. ASSUME NEW x \in DOMAIN heap, Alive(x)', NEW p \in Rules(x)' PROVE ~Passed(RoleAt(x, p))'
  <2>1. heap'[x].rules = heap[x].rules /\ Alive(x)
    BY <1>5, <1>6, <1>16
  <2>2. p \in Rules(x) /\ RoleAt(x, p)' = RoleAt(x, p)
    BY <2>1 DEF Rules, RoleAt
  <2> QED
    BY <2>1, <2>2, <1>2, <1>9 DEF Placed
<1>17. Placed'
  BY <1>5, <1>13, <1>14, <1>15, <1>16 DEF Placed
<1> QED
  BY <1>6, <1>7, <1>8, <1>10, <1>17 DEF Account, NamesStay
\* The message and the role of a rule are held by the block, and nobody has passed them.
LEMMA AddRuleAccount ==
  ASSUME IInv, Account, AddRule
  PROVE  Account' /\ NamesStay
<1>1. PICK b, r, m : RuleAdded(b, r, m)
  BY AddRuleInv
<1>2. TypeOK /\ KindsOK /\ HeapOK /\ MineLives /\ HeldLives /\ Placed /\ PassedOnce /\ Listed
  BY TypeParts DEF IInv, Owners, Account
<1>3. /\ b \in DOMAIN heap /\ Alive(b) /\ m \in mine /\ heap[m].kind = "Msg" /\ heap[r].kind = "Role"
      /\ mine' = mine \ {r, m} /\ entries' = entries
  BY <1>1 DEF RuleAdded
<1>4. Steady
  BY <1>1 DEF RuleAdded, Steady
<1>5. /\ DOMAIN heap' = DOMAIN heap
      /\ \A o \in DOMAIN heap : (Alive(o)' <=> Alive(o)) /\ heap'[o].root_ = heap[o].root_
  BY <1>1 DEF RuleAdded, Alive
<1>6. PassedOnce' /\ Listed'
  BY <1>2, <1>3, <1>4, <1>5, PassedKept, ListedKept
<1>7. /\ \A x : Passed(x)' <=> Passed(x)
      /\ \A x \in DOMAIN heap : Refused(x)' <=> Refused(x)
  BY <1>2, <1>4, GivenKept
<1>8. /\ \A o \in DOMAIN heap : Holds(o) \subseteq Holds(o)'
      /\ r \in Holds(b)' /\ m \in Holds(b)'
  BY <1>1 DEF RuleAdded
<1>9. ~Passed(r)
  <2>1. CASE r \in mine
    <3>1. r \in DOMAIN heap
      BY <2>1, TypeParts, <1>2 DEF OthersOK
    <3> QED
      BY <3>1, <2>1, <1>2, <1>3 DEF PassedOnce
  <2>2. CASE \E q \in Rules(b) : r = RoleAt(b, q)
    BY <2>2, <1>2, <1>3 DEF Placed
  <2> QED
    BY <2>1, <2>2, <1>1 DEF RuleAdded
<1>10. ASSUME NEW x \in DOMAIN heap, Alive(x)'
       PROVE  x \in mine' \/ heap'[x].kind = "Session" \/ HeldBy(x)' \/ Refused(x)'
  <2>1. Alive(x)
    BY <1>5, <1>10
  <2>2. CASE x = r \/ x = m
    BY <2>2, <1>3, <1>5, <1>8 DEF HeldBy
  <2>3. CASE HeldBy(x)
    BY <2>3, <1>5, <1>8 DEF HeldBy
  <2>4. CASE x # r /\ x # m /\ ~HeldBy(x)
    BY <2>1, <2>4, <1>2, <1>3, <1>4, <1>7 DEF Placed, Steady
  <2> QED
    BY <2>2, <2>3, <2>4
<1>11. ASSUME NEW x \in DOMAIN heap, Alive(x)', heap'[x].kind \in {"Module", "Interruptible"}
       PROVE  x \in mine'
  <2>1. Alive(x) /\ heap'[x].kind = heap[x].kind /\ x # r /\ x # m
    BY <1>3, <1>4, <1>5, <1>11 DEF Steady
  <2> QED
    BY <2>1, <1>2, <1>3, <1>11 DEF Placed
<1>12. ASSUME NEW x \in DOMAIN heap, heap'[x].root_ # Null PROVE heap'[heap'[x].root_].kind = "Node"
  <2>1. heap'[x].root_ = heap[x].root_ /\ heap[x].root_ \in DOMAIN heap \cup {Null}
    BY <1>2, <1>5 DEF HeapOK
  <2> QED
    BY <2>1, <1>2, <1>4, <1>12 DEF Placed, Steady
<1>13. ASSUME NEW x \in DOMAIN heap, Alive(x)', NEW p \in Rules(x)' PROVE ~Passed(RoleAt(x, p))'
  <2>1. Alive(x)
    BY <1>5, <1>13
  <2>2. RoleAt(x, p)' = r \/ \E q \in Rules(x) : RoleAt(x, p)' = RoleAt(x, q)
    <3>1. CASE x = b
      BY <3>1, <1>1, <1>13 DEF RuleAdded
    <3>2. CASE x # b
      BY <3>2, <1>1, <1>13 DEF RuleAdded
    <3> QED
      BY <3>1, <3>2
  <2>3. PICK y : y = RoleAt(x, p)'
    OBVIOUS
  <2>4. ~Passed(y)
    BY <2>1, <2>2, <2>3, <1>2, <1>9 DEF Placed
  <2>5. ~Passed(y)'
    BY <2>4, <1>7
  <2> QED
    BY <2>3, <2>5 DEF Passed
<1>14. Placed'
  BY <1>5, <1>10, <1>11, <1>12, <1>13 DEF Placed
<1>15. \A o \in DOMAIN heap : Entries(o)' = Entries(o)
  BY <1>3 DEF Entries
<1> QED
  BY <1>4, <1>5, <1>6, <1>14, <1>15 DEF Account, NamesStay

\* What is passed goes to the end of the history.
LEMMA GivenAppended ==
  ASSUME TypeOK, NEW new, given' = Append(given, new)
  PROVE  LET k == Len(given) + 1 IN
         /\ DOMAIN given' = DOMAIN given \cup {k} /\ k \notin DOMAIN given /\ given'[k] = new
         /\ k \in Int
         /\ \A i \in DOMAIN given : /\ given'[i] = given[i] /\ i < k /\ i \in Int
                                    /\ given[i].in \in DOMAIN heap /\ given[i].obj \in DOMAIN heap
                                    /\ given[i].name \in Name
<1>1. PICK G : G = [in : DOMAIN heap, obj : DOMAIN heap, name : Name]
  OBVIOUS
<1>2. given \in Seq(G) /\ \A g \in G : g.in \in DOMAIN heap /\ g.obj \in DOMAIN heap /\ g.name \in Name
  BY <1>1, TypeParts DEF OthersOK
<1>3. \A i \in DOMAIN given : given[i] \in G
  BY <1>2
<1>4. /\ Len(given) \in Nat /\ DOMAIN given = 1..Len(given)
      /\ DOMAIN given' = 1..(Len(given) + 1) /\ given'[Len(given) + 1] = new
      /\ \A i \in 1..Len(given) : given'[i] = given[i]
  BY <1>2
<1> QED
  BY <1>2, <1>3, <1>4

\* What is passed is listed and held, or refused.
LEMMA AddAccount ==
  ASSUME IInv, Account, Add
  PROVE  Account'
<1>1. PICK o \in mine, c \in DOMAIN heap :
         /\ heap[c].live
         /\ heap[c].kind = Containers(heap[o].kind) /\ heap[o].kind \notin Nameless
         /\ ~\E i \in DOMAIN given : given[i].obj = o
         /\ LET named == Insert(entries, EntryFor(c, o, heap[o].name, FALSE)) IN
            entries' = IF heap[o].as = NoName THEN named
                       ELSE Insert(named, EntryFor(c, o, heap[o].as, TRUE))
         /\ given' = Append(given, [in |-> c, obj |-> o, name |-> heap[o].name])
         /\ mine' \in {mine \ {o}} \cup (IF heap[o].kind = "Session" THEN {mine} ELSE {})
         /\ UNCHANGED heap
  BY DEF Add
<1>2. /\ TypeOK /\ KindsOK /\ HeapOK /\ EntriesOK /\ OthersOK /\ HeldLives /\ Placed /\ PassedOnce /\ Listed
      /\ mine \subseteq DOMAIN heap
  BY TypeParts DEF IInv, Owners, OthersOK, Account
<1>3. o \in DOMAIN heap /\ Alive(c) /\ ~Passed(o) /\ heap[o].name # NoName
  BY <1>1, <1>2, NamesAssumption DEF Alive, Passed, KindsOK, KindOf
<1>4. PICK new : new = [in |-> c, obj |-> o, name |-> heap[o].name]
  OBVIOUS
<1>5. PICK k : k = Len(given) + 1
  OBVIOUS
\* The history: one more, the last.
<1>6. /\ DOMAIN given' = DOMAIN given \cup {k} /\ k \notin DOMAIN given /\ given'[k] = new
      /\ new.in = c /\ new.obj = o /\ new.name = heap[o].name
      /\ k \in Int
      /\ \A i \in DOMAIN given : /\ given'[i] = given[i] /\ i < k /\ i \in Int
                                 /\ given[i].in \in DOMAIN heap /\ given[i].obj \in DOMAIN heap
  <2>1. new.in = c /\ new.obj = o /\ new.name = heap[o].name
    BY <1>4
  <2>2. given' = Append(given, new)
    BY <1>1, <1>4
  <2> QED
    BY <2>1, <2>2, <1>2, <1>5, GivenAppended
<1>7. heap' = heap /\ mine' \subseteq mine /\ (heap[o].kind # "Session" => mine' = mine \ {o}) /\ mine \ {o} \subseteq mine'
  BY <1>1
<1>8. \A i \in DOMAIN given : Asked(i)' = Asked(i)
  BY <1>6, <1>7 DEF Asked
<1>9. Asked(k)' = {heap[o].name, heap[o].as} \ {NoName}
  BY <1>6, <1>7 DEF Asked
<1>10. \A x : Passed(x)' <=> Passed(x) \/ x = o
  BY <1>6 DEF Passed
<1>11. ASSUME NEW x \in DOMAIN heap, x # o PROVE Refused(x)' <=> Refused(x)
  <2>1. Refused(x)' <=> \E i, j \in DOMAIN given :
          /\ j < i /\ given[i].obj = x /\ given[j].in = given[i].in
          /\ heap[given[j].obj].kind = heap[x].kind
          /\ given[i].name \in {given[j].name, heap[given[j].obj].as}
    <3>1. \A i \in DOMAIN given : ~(k < i)
      BY <1>6
    <3> QED
      BY <3>1, <1>6, <1>7, <1>11 DEF Refused
  <2> QED
    BY <2>1 DEF Refused
<1>12. Refused(o)' <=> \E j \in DOMAIN given :
          /\ given[j].in = c /\ heap[given[j].obj].kind = heap[o].kind
          /\ heap[o].name \in {given[j].name, heap[given[j].obj].as}
  <2>1. ASSUME NEW i \in DOMAIN given', given'[i].obj = o PROVE i = k
    BY <2>1, <1>3, <1>6 DEF Passed
  <2>2. ASSUME NEW j \in DOMAIN given', j < k PROVE j \in DOMAIN given
    <3>1. ~(k < k)
      BY <1>6
    <3> QED
      BY <2>2, <3>1, <1>6
  <2>3. Refused(o)' <=> \E j \in DOMAIN given' :
          /\ j < k /\ given'[j].in = c /\ heap[given'[j].obj].kind = heap[o].kind
          /\ heap[o].name \in {given'[j].name, heap[given'[j].obj].as}
    BY <2>1, <1>6, <1>7 DEF Refused
  <2> QED
    BY <2>2, <2>3, <1>6
\* The maps.
<1>13. PICK first, other : /\ first = EntryFor(c, o, heap[o].name, FALSE)
                           /\ other = EntryFor(c, o, heap[o].as, TRUE)
  OBVIOUS
<1>14. /\ first.in = c /\ first.kind = heap[o].kind /\ first.key = heap[o].name
       /\ first.obj = o /\ first.alias = FALSE
       /\ other.in = c /\ other.kind = heap[o].kind /\ other.key = heap[o].as
       /\ other.obj = o /\ other.alias = TRUE
  BY <1>13 DEF EntryFor
<1> DEFINE Taken(es, e) == \E d \in es : d.in = e.in /\ d.kind = e.kind /\ d.key = e.key
<1>15. /\ entries \subseteq entries'
       /\ \A e \in entries' : e \in entries \/ (e = first /\ ~Taken(entries, first)) \/ (e = other /\ heap[o].as # NoName)
       /\ Taken(entries', first)
       /\ heap[o].as # NoName => Taken(entries', other)
       /\ ~Taken(entries, first) => first \in entries'
  <2>1. PICK named : named = Insert(entries, first)
    OBVIOUS
  <2>2. /\ entries \subseteq named /\ \A e \in named : e \in entries \/ (e = first /\ ~Taken(entries, first))
        /\ Taken(named, first) /\ (~Taken(entries, first) => first \in named)
    BY <2>1 DEF Insert
  <2>3. entries' = IF heap[o].as = NoName THEN named ELSE Insert(named, other)
    BY <2>1, <1>1, <1>13
  <2>4. CASE heap[o].as = NoName
    BY <2>2, <2>3, <2>4
  <2>5. CASE heap[o].as # NoName
    <3>1. entries' = Insert(named, other)
      BY <2>3, <2>5
    <3>2. /\ named \subseteq entries' /\ entries' \subseteq named \cup {other} /\ Taken(entries', other)
      BY <3>1 DEF Insert
    <3> QED
      BY <3>2, <2>2, <2>5
  <2> QED
    BY <2>4, <2>5
\* The name was taken exactly if the object is refused.
<1>16. Taken(entries, first) <=> Refused(o)'
  <2>1. ASSUME NEW d \in entries, d.in = c, d.kind = heap[o].kind, d.key = heap[o].name PROVE Refused(o)'
    <3>1. PICK j \in DOMAIN given : given[j].in = d.in /\ given[j].obj = d.obj /\ d.key \in Asked(j)
      BY <1>2 DEF Listed
    <3>2. heap[given[j].obj].kind = heap[o].kind
      BY <2>1, <3>1, <1>2 DEF KindsOK
    <3>3. heap[o].name \in {given[j].name, heap[given[j].obj].as}
      BY <2>1, <3>1 DEF Asked
    <3> QED
      BY <2>1, <3>1, <3>2, <3>3, <1>12
  <2>2. ASSUME Refused(o)' PROVE Taken(entries, first)
    <3>1. PICK j \in DOMAIN given :
            /\ given[j].in = c /\ heap[given[j].obj].kind = heap[o].kind
            /\ heap[o].name \in {given[j].name, heap[given[j].obj].as}
      BY <2>2, <1>12
    <3>2. heap[o].name \in Asked(j)
      BY <3>1, <1>3 DEF Asked
    <3>3. \E e \in entries : e.in = given[j].in /\ e.kind = heap[given[j].obj].kind /\ e.key = heap[o].name
      BY <3>1, <3>2, <1>2, <1>3 DEF Listed
    <3> QED
      BY <3>1, <3>3, <1>14
  <2> QED
    BY <2>1, <2>2, <1>14
<1> HIDE DEF Taken
<1>17. PassedOnce'
  <2>1. \A i, j \in DOMAIN given' : given'[i].obj = given'[j].obj => i = j
    BY <1>2, <1>3, <1>6 DEF PassedOnce, Passed
  <2>2. \A x \in DOMAIN heap : Passed(x)' => heap[x].kind \notin Nameless /\ (heap[x].kind = "Session" \/ x \notin mine')
    BY <1>1, <1>2, <1>7, <1>10 DEF PassedOnce
  <2> QED
    BY <2>1, <2>2, <1>7 DEF PassedOnce
<1>18. Listed'
  <2>1. ASSUME NEW e \in entries'
        PROVE  /\ \E i \in DOMAIN given' : given'[i].in = e.in /\ given'[i].obj = e.obj /\ e.key \in Asked(i)'
               /\ ~e.alias => ~Refused(e.obj)'
    <3>1. CASE e \in entries
      <4>1. PICK i \in DOMAIN given : given[i].in = e.in /\ given[i].obj = e.obj /\ e.key \in Asked(i)
        BY <3>1, <1>2 DEF Listed
      <4>2. e.obj # o /\ e.obj \in DOMAIN heap
        BY <4>1, <1>3, <1>6 DEF Passed
      <4>3. ~e.alias => ~Refused(e.obj)'
        BY <4>2, <3>1, <1>2, <1>11 DEF Listed
      <4> QED
        BY <4>1, <4>3, <1>6, <1>8
    <3>2. CASE e = first /\ ~Taken(entries, first)
      <4>1. ~Refused(e.obj)'
        BY <3>2, <1>14, <1>16
      <4> QED
        BY <4>1, <3>2, <1>3, <1>6, <1>9, <1>14
    <3>3. CASE e = other /\ heap[o].as # NoName
      BY <3>3, <1>6, <1>9, <1>14
    <3> QED
      BY <3>1, <3>2, <3>3, <1>15
  <2>2. ASSUME NEW i \in DOMAIN given', NEW key \in Asked(i)', Alive(given[i].in)'
        PROVE  \E e \in entries' : e.in = given'[i].in /\ e.kind = heap'[given'[i].obj].kind /\ e.key = key
    <3>1. CASE i = k
      <4>1. key = heap[o].name \/ (key = heap[o].as /\ heap[o].as # NoName)
        BY <3>1, <1>9
      <4>2. CASE key = heap[o].name
        BY <4>2, <3>1, <1>6, <1>7, <1>14, <1>15 DEF Taken
      <4>3. CASE key = heap[o].as /\ heap[o].as # NoName
        BY <4>3, <3>1, <1>6, <1>7, <1>14, <1>15 DEF Taken
      <4> QED
        BY <4>1, <4>2, <4>3
    <3>2. CASE i \in DOMAIN given
      <4>1. given'[i] = given[i] /\ key \in Asked(i)
        BY <3>2, <1>6, <1>8
      <4>2. Alive(given[i].in)
        BY <4>1, <2>2, <1>7 DEF Alive
      <4>3. \E e \in entries : e.in = given[i].in /\ e.kind = heap[given[i].obj].kind /\ e.key = key
        BY <3>2, <4>1, <4>2, <1>2 DEF Listed
      <4> QED
        BY <4>1, <4>3, <1>7, <1>15
    <3> QED
      BY <3>1, <3>2, <1>6
  <2> QED
    BY <2>1, <2>2 DEF Listed
<1>19. /\ \A b \in DOMAIN heap : Rules(b)' = Rules(b) /\ Alive(b)' = Alive(b)
       /\ \A b \in DOMAIN heap : \A p : RoleAt(b, p)' = RoleAt(b, p)
  BY <1>7 DEF Rules, RoleAt, Alive
<1>20. ASSUME NEW b \in DOMAIN heap PROVE Holds(b) \subseteq Holds(b)'
  <2>1. Entries(b) \subseteq Entries(b)'
    BY <1>15 DEF Entries
  <2>2. heap' = heap /\ Rules(b)' = Rules(b)
    BY <1>7, <1>19
  <2>3. Owned(b) \subseteq Owned(b)'
    BY <2>1, <2>2 DEF Owned
  <2> QED
    BY <2>3 DEF Holds
<1>21. ASSUME first \in entries', heap[o].kind # "Session" PROVE o \in Holds(c)'
  <2>1. first \in Entries(c)' /\ first.kind # "Session" /\ ~first.alias
    BY <1>14, <1>21 DEF Entries
  <2>2. PICK d : d = [obj |-> first.obj, key |-> first.key]
    OBVIOUS
  <2>3. d \in Owned(c)' /\ d.obj = o
    BY <2>1, <2>2, <1>14 DEF Owned
  <2> QED
    BY <2>3 DEF Holds
<1>22. ASSUME NEW x \in DOMAIN heap, Alive(x)
       PROVE  x \in mine' \/ heap[x].kind = "Session" \/ HeldBy(x)' \/ Refused(x)'
  <2>1. CASE x = o /\ heap[o].kind # "Session"
    <3>1. CASE Taken(entries, first)
      BY <2>1, <3>1, <1>16
    <3>2. CASE ~Taken(entries, first)
      BY <2>1, <3>2, <1>3, <1>7, <1>15, <1>19, <1>21 DEF HeldBy
    <3> QED
      BY <3>1, <3>2
  <2>2. CASE x # o /\ HeldBy(x)
    BY <2>2, <1>7, <1>19, <1>20 DEF HeldBy
  <2>3. CASE x # o /\ ~HeldBy(x)
    BY <2>3, <1>2, <1>7, <1>11, <1>22 DEF Placed
  <2> QED
    BY <2>1, <2>2, <2>3
<1>23. ASSUME NEW x \in DOMAIN heap, Alive(x), heap[x].kind \in {"Module", "Interruptible"}
       PROVE  x \in mine'
  <2>1. heap[o].kind # "Module" /\ heap[o].kind # "Interruptible"
    <3>1. heap[c].kind \in Kind
      BY <1>2, ObjectFacts
    <3> QED
      BY <3>1, <1>1 DEF Containers, Kind, Nameless
  <2> QED
    BY <2>1, <1>2, <1>7, <1>23 DEF Placed
<1>24. ASSUME NEW x \in DOMAIN heap, Alive(x), NEW p \in Rules(x) PROVE ~Passed(RoleAt(x, p))'
  <2>1. ~Passed(RoleAt(x, p))
    BY <1>2, <1>24 DEF Placed
  <2>2. RoleAt(x, p) \in Holds(x)
    <3>1. PICK d : d = [obj |-> RoleAt(x, p), key |-> p]
      OBVIOUS
    <3>2. d \in Owned(x) /\ d.obj = RoleAt(x, p)
      BY <3>1, OwnedFacts
    <3> QED
      BY <3>2 DEF Holds
  <2>3. RoleAt(x, p) # o
    BY <2>2, <1>2, <1>24 DEF HeldLives
  <2>4. PICK y : y = RoleAt(x, p)
    OBVIOUS
  <2>5. ~Passed(y)' /\ RoleAt(x, p)' = y
    BY <2>1, <2>3, <2>4, <1>10, <1>19
  <2> QED
    BY <2>5 DEF Passed
<1>25. Placed'
  BY <1>2, <1>7, <1>19, <1>22, <1>23, <1>24 DEF Placed
<1> QED
  BY <1>17, <1>18, <1>25 DEF Account

\* At the start all is the program's.
LEMMA InitAccount ==
  ASSUME Init
  PROVE  Account
<1>1. entries = {} /\ mine = DOMAIN heap /\ given = << >>
  BY DEF Init
<1>2. TypeOK /\ \A o \in DOMAIN heap : heap[o].root_ = Null
  <2>1. PICK h \in Heaps : heap = [o \in DOMAIN h |-> New(h[o])]
    BY DEF Init
  <2>2. \A m : New(m).root_ = Null
    BY DEF New
  <2> QED
    BY <2>1, <2>2, InitInv DEF IInv
<1>3. \A o : ~Passed(o)
  BY <1>1 DEF Passed
<1>4. Listed
  BY <1>1 DEF Listed
<1> QED
  BY <1>1, <1>2, <1>3, <1>4 DEF Account, PassedOnce, Placed

LEMMA StepAccount == IInv /\ Account /\ [Next]_vars => Account'
<1> SUFFICES ASSUME IInv, Account, [Next]_vars
             PROVE  Account'
  OBVIOUS
<1>1. CASE Next
  BY <1>1, AddAccount, AddRuleAccount, SetRootAccount, DeleteAccount, QuietAccount DEF Next
<1>2. CASE UNCHANGED vars
  <2>1. heap' = heap /\ UNCHANGED <<entries, mine, given>>
    BY <1>2 DEF vars
  <2> QED
    BY <2>1, AccountKept DEF IInv, Steady
<1> QED
  BY <1>1, <1>2

\* An object is lost to every destructor exactly if the container it was passed to had
\* its name taken (session.cc and module.cc insert and do not look whether they did), or
\* it is a session left to a module, whose destructor deletes no session, or is owned by
\* such a session: for any names and any programs.
THEOREM LostExactly == Spec => []LeaksExplained
<1>1. Init => IInv /\ Account
  BY InitInv, InitAccount
<1>2. IInv /\ Account /\ [Next]_vars => Account'
  BY StepAccount
<1>3. IInv /\ Account => LeaksExplained
  BY Balance
<1> QED
  BY <1>1, <1>2, <1>3, Inductive, PTL DEF Spec
-----------------------------------------------------------------------------
\* What a claim makes, if it is the first.
Claimed(c, q) == EntryFor(c, given[q[1]].obj, ClaimedKey(q), q[2])

LEMMA ClaimFacts ==
  ASSUME TypeOK, NEW c, NEW q \in Claims(c)
  PROVE  /\ q = <<q[1], q[2]>> /\ q[1] \in DOMAIN given /\ q[2] \in BOOLEAN /\ given[q[1]].in = c
         /\ given[q[1]].obj \in DOMAIN heap
         /\ ClaimedKey(q) \in Asked(q[1])
<1>1. /\ q = <<q[1], q[2]>> /\ q[1] \in DOMAIN given /\ q[2] \in BOOLEAN /\ given[q[1]].in = c
      /\ q[2] => heap[given[q[1]].obj].as # NoName
  BY DEF Claims
<1>2. PICK G : G = [in : DOMAIN heap, obj : DOMAIN heap, name : Name]
  OBVIOUS
<1>3. given \in Seq(G) /\ \A g \in G : g.obj \in DOMAIN heap /\ g.name # NoName
  BY <1>2, TypeParts, NamesAssumption DEF OthersOK
<1>4. given[q[1]].obj \in DOMAIN heap /\ given[q[1]].name # NoName
  BY <1>1, <1>3
<1> QED
  BY <1>1, <1>4 DEF ClaimedKey, Asked

\* The converse: what was asked for was claimed.
LEMMA AskedClaimed ==
  ASSUME NEW i \in DOMAIN given, NEW key \in Asked(i)
  PROVE  \E q \in Claims(given[i].in) : q[1] = i /\ ClaimedKey(q) = key
<1>1. CASE key = given[i].name
  <2>1. PICK q : q = <<i, FALSE>>
    OBVIOUS
  <2>2. q \in (DOMAIN given) \X BOOLEAN /\ q[1] = i /\ q[2] = FALSE
    BY <2>1
  <2>3. q \in Claims(given[i].in)
    BY <2>2, <1>1 DEF Claims
  <2>4. ClaimedKey(q) = key
    BY <2>2, <1>1 DEF ClaimedKey
  <2> QED
    BY <2>2, <2>3, <2>4
<1>2. CASE key = heap[given[i].obj].as /\ key # NoName
  <2>1. PICK q : q = <<i, TRUE>>
    OBVIOUS
  <2>2. q \in (DOMAIN given) \X BOOLEAN /\ q[1] = i /\ q[2] = TRUE
    BY <2>1
  <2>3. q \in Claims(given[i].in)
    BY <2>2, <1>2 DEF Claims
  <2>4. ClaimedKey(q) = key
    BY <2>2, <1>2 DEF ClaimedKey
  <2> QED
    BY <2>2, <2>3, <2>4
<1> QED
  BY <1>1, <1>2 DEF Asked

\* A step that passes nothing and takes no entry from a container that lives on.
LEMMA FirstKept ==
  ASSUME TypeOK, NamesStay, FirstWins
  PROVE  FirstWins'
<1> Steady
  BY DEF NamesStay
<1>1. \A i \in DOMAIN given : given[i].obj \in DOMAIN heap
  BY GivenKept
<1>2. \A c : Claims(c)' = Claims(c)
  BY <1>1 DEF Claims, Steady
<1>3. ASSUME NEW c, NEW q \in Claims(c)
      PROVE  /\ ClaimedKey(q)' = ClaimedKey(q) /\ Claimed(c, q)' = Claimed(c, q)
             /\ given'[q[1]].obj = given[q[1]].obj
             /\ heap'[given[q[1]].obj].kind = heap[given[q[1]].obj].kind
  <2>1. q[1] \in DOMAIN given /\ given[q[1]].obj \in DOMAIN heap
    BY <1>1 DEF Claims
  <2> QED
    BY <2>1 DEF ClaimedKey, Claimed, EntryFor, Steady
<1>4. ASSUME NEW c PROVE FirstClaims(c)' = FirstClaims(c)
  <2>1. \A p, q \in Claims(c) : SameClaim(p, q)' <=> SameClaim(p, q)
    BY <1>3 DEF SameClaim
  <2> QED
    BY <2>1, <1>2 DEF FirstClaims
<1>5. \A c : FirstClaims(c) \subseteq Claims(c)
  BY DEF FirstClaims
<1>6. ASSUME NEW c \in DOMAIN heap, Alive(c)'
      PROVE  Entries(c)' = {Claimed(c, q)' : q \in FirstClaims(c)'}
  <2>1. Alive(c) /\ Entries(c)' = Entries(c)
    BY <1>6 DEF NamesStay
  <2>2. Entries(c) = {Claimed(c, q) : q \in FirstClaims(c)}
    BY <2>1 DEF FirstWins, Claimed, Alive
  <2>3. \A q \in FirstClaims(c) : Claimed(c, q)' = Claimed(c, q)
    BY <1>3, <1>5
  <2> QED
    BY <2>1, <2>2, <2>3, <1>4
<1> QED
  BY <1>6 DEF FirstWins, Claimed, Alive, Steady

\* A name is in the map of a live container exactly if it was claimed there.
LEMMA TakenClaimed ==
  ASSUME IInv, Account, NEW c \in DOMAIN heap, Alive(c), NEW kind, NEW key, key # NoName
  PROVE  (\E e \in entries : e.in = c /\ e.kind = kind /\ e.key = key)
         <=> \E q \in Claims(c) : ClaimedKey(q) = key /\ heap[given[q[1]].obj].kind = kind
<1>1. TypeOK /\ Listed /\ KindsOK
  BY DEF IInv, Account
<1>2. ASSUME NEW e \in entries, e.in = c, e.kind = kind, e.key = key
      PROVE  \E q \in Claims(c) : ClaimedKey(q) = key /\ heap[given[q[1]].obj].kind = kind
  <2>1. PICK i \in DOMAIN given : given[i].in = c /\ given[i].obj = e.obj /\ key \in Asked(i)
    BY <1>1, <1>2 DEF Listed
  <2>2. PICK q \in Claims(given[i].in) : q[1] = i /\ ClaimedKey(q) = key
    BY <2>1, AskedClaimed
  <2>3. heap[e.obj].kind = kind
    BY <1>1, <1>2 DEF KindsOK
  <2> QED
    BY <2>1, <2>2, <2>3
<1>3. ASSUME NEW q \in Claims(c), ClaimedKey(q) = key, heap[given[q[1]].obj].kind = kind
      PROVE  \E e \in entries : e.in = c /\ e.kind = kind /\ e.key = key
  <2>1. q[1] \in DOMAIN given /\ given[q[1]].in = c /\ key \in Asked(q[1])
    BY <1>1, <1>3, ClaimFacts
  <2> QED
    BY <2>1, <1>1, <1>3 DEF Listed
<1> QED
  BY <1>2, <1>3

\* An object is passed: its name and its alias are the latest claims.
LEMMA AddFirst ==
  ASSUME IInv, Account, FirstWins, Add
  PROVE  FirstWins'
<1>1. PICK o \in mine, c \in DOMAIN heap :
         /\ heap[c].live
         /\ LET named == Insert(entries, EntryFor(c, o, heap[o].name, FALSE)) IN
            entries' = IF heap[o].as = NoName THEN named
                       ELSE Insert(named, EntryFor(c, o, heap[o].as, TRUE))
         /\ given' = Append(given, [in |-> c, obj |-> o, name |-> heap[o].name])
         /\ heap[o].kind \notin Nameless
         /\ UNCHANGED heap
  BY DEF Add
<1>2. TypeOK /\ OthersOK /\ KindsOK /\ mine \subseteq DOMAIN heap
  BY TypeParts DEF IInv, OthersOK
<1>3. o \in DOMAIN heap /\ Alive(c) /\ heap[o].name # NoName /\ heap' = heap
  BY <1>1, <1>2, NamesAssumption DEF Alive, KindsOK, KindOf
<1>4. PICK new : new = [in |-> c, obj |-> o, name |-> heap[o].name]
  OBVIOUS
<1>5. PICK k : k = Len(given) + 1
  OBVIOUS
<1>6. /\ DOMAIN given' = DOMAIN given \cup {k} /\ k \notin DOMAIN given /\ k \in Int
      /\ given'[k].in = c /\ given'[k].obj = o /\ given'[k].name = heap[o].name
      /\ \A i \in DOMAIN given : given'[i] = given[i] /\ i < k /\ i \in Int
  <2>1. given' = Append(given, new) /\ new.in = c /\ new.obj = o /\ new.name = heap[o].name
    BY <1>1, <1>4
  <2> QED
    BY <2>1, <1>2, <1>5, GivenAppended
<1>7. PICK own, other : own = <<k, FALSE>> /\ other = <<k, TRUE>>
  OBVIOUS
<1>8. /\ own[1] = k /\ own[2] = FALSE /\ other[1] = k /\ other[2] = TRUE /\ own # other
      /\ ClaimedKey(own)' = heap[o].name /\ ClaimedKey(other)' = heap[o].as
  BY <1>3, <1>6, <1>7 DEF ClaimedKey
\* The claims: two more, after all others.
<1>9. ASSUME NEW d, NEW q
      PROVE  q \in Claims(d)' <=> \/ q \in Claims(d)
                                  \/ d = c /\ q = own
                                  \/ d = c /\ q = other /\ heap[o].as # NoName
  <2>1. q \in Claims(d)' <=> /\ q \in (DOMAIN given \cup {k}) \X BOOLEAN
                             /\ given'[q[1]].in = d /\ (q[2] => heap[given'[q[1]].obj].as # NoName)
    BY <1>3, <1>6 DEF Claims
  <2>2. q \in Claims(d) <=> /\ q \in (DOMAIN given) \X BOOLEAN
                            /\ given[q[1]].in = d /\ (q[2] => heap[given[q[1]].obj].as # NoName)
    BY DEF Claims
  <2>3. q \in {k} \X BOOLEAN <=> q = own \/ q = other
    <3>1. ASSUME q \in {k} \X BOOLEAN PROVE q = own \/ q = other
      <4>1. PICK b \in BOOLEAN : q = <<k, b>>
        BY <3>1
      <4> QED
        BY <4>1, <1>7
    <3>2. own \in {k} \X BOOLEAN /\ other \in {k} \X BOOLEAN
      BY <1>7
    <3> QED
      BY <3>1, <3>2
  <2>4. q \in (DOMAIN given \cup {k}) \X BOOLEAN <=> q \in (DOMAIN given) \X BOOLEAN \/ q \in {k} \X BOOLEAN
    OBVIOUS
  <2>5. CASE q \in (DOMAIN given) \X BOOLEAN
    <3>1. q[1] \in DOMAIN given
      BY <2>5
    <3> QED
      BY <2>1, <2>2, <2>4, <2>5, <3>1, <1>6, <1>8
  <2>6. CASE q \notin (DOMAIN given) \X BOOLEAN
    BY <2>1, <2>2, <2>3, <2>4, <2>6, <1>6, <1>8
  <2> QED
    BY <2>5, <2>6
<1>10. ASSUME NEW d, NEW q \in Claims(d)
       PROVE  /\ ClaimedKey(q)' = ClaimedKey(q) /\ Claimed(d, q)' = Claimed(d, q)
              /\ given'[q[1]].obj = given[q[1]].obj
              /\ Before(q, own) /\ Before(q, other) /\ ~Before(own, q) /\ ~Before(other, q)
              /\ q # own /\ q # other
  <2>1. q[1] \in DOMAIN given
    BY DEF Claims
  <2>2. given'[q[1]] = given[q[1]] /\ q[1] < k /\ q[1] \in Int
    BY <2>1, <1>6
  <2>3. ~(k < q[1]) /\ k # q[1]
    BY <2>2, <1>6
  <2> QED
    BY <2>2, <2>3, <1>3, <1>8 DEF ClaimedKey, Claimed, EntryFor, Before
<1>11. \A d : \A p, q \in Claims(d) : SameClaim(p, q)' <=> SameClaim(p, q)
  BY <1>3, <1>10 DEF SameClaim
<1>12. Before(own, other) /\ ~Before(other, own) /\ ~Before(own, own) /\ ~Before(other, other)
  BY <1>6, <1>8 DEF Before
<1> DEFINE Claim(key) == \E p \in Claims(c) : ClaimedKey(p) = key /\ heap[given[p[1]].obj].kind = heap[o].kind
           In(key)    == \E e \in entries : e.in = c /\ e.kind = heap[o].kind /\ e.key = key
<1>13. ASSUME NEW d, NEW q \in Claims(d) PROVE q \in FirstClaims(d)' <=> q \in FirstClaims(d)
  <2>1. q \in FirstClaims(d)' <=> ~\E p \in Claims(d)' : Before(p, q) /\ SameClaim(p, q)'
    BY <1>9, <1>13 DEF FirstClaims
  <2>2. \A p \in Claims(d)' : Before(p, q) => p \in Claims(d)
    BY <1>9, <1>10
  <2>3. Claims(d) \subseteq Claims(d)'
    BY <1>9
  <2> QED
    BY <2>1, <2>2, <2>3, <1>11 DEF FirstClaims
<1>14. ASSUME NEW q \in {own, other}
       PROVE  \A p \in Claims(c) : SameClaim(p, q)' <=> /\ ClaimedKey(p) = ClaimedKey(q)'
                                                        /\ heap[given[p[1]].obj].kind = heap[o].kind
  BY <1>3, <1>6, <1>8, <1>10 DEF SameClaim
<1>15. own \in FirstClaims(c)' <=> ~Claim(heap[o].name)
  <2>1. own \in FirstClaims(c)' <=> ~\E p \in Claims(c)' : Before(p, own) /\ SameClaim(p, own)'
    BY <1>9 DEF FirstClaims
  <2>2. \A p \in Claims(c)' : Before(p, own) <=> p \in Claims(c)
    BY <1>9, <1>10, <1>12
  <2>3. Claims(c) \subseteq Claims(c)'
    BY <1>9
  <2> QED
    BY <2>1, <2>2, <2>3, <1>8, <1>14
<1>16. other \in FirstClaims(c)' <=> /\ heap[o].as # NoName /\ heap[o].as # heap[o].name
                                     /\ ~Claim(heap[o].as)
  <2>1. other \in Claims(c)' <=> heap[o].as # NoName
    BY <1>8, <1>9, <1>10
  <2>2. other \in FirstClaims(c)' <=>
          other \in Claims(c)' /\ ~\E p \in Claims(c)' : Before(p, other) /\ SameClaim(p, other)'
    BY DEF FirstClaims
  <2>3. \A p \in Claims(c)' : Before(p, other) <=> p \in Claims(c) \/ p = own
    BY <1>9, <1>10, <1>12
  <2>4. Claims(c) \cup {own} \subseteq Claims(c)'
    BY <1>9
  <2>5. SameClaim(own, other)' <=> heap[o].name = heap[o].as
    BY <1>3, <1>6, <1>8 DEF SameClaim
  <2> QED
    BY <2>1, <2>2, <2>3, <2>4, <2>5, <1>8, <1>14
\* The maps: an entry for each of them that is new.
<1>17. PICK first, second : /\ first = EntryFor(c, o, heap[o].name, FALSE)
                            /\ second = EntryFor(c, o, heap[o].as, TRUE)
  OBVIOUS
<1>18. /\ first.in = c /\ first.kind = heap[o].kind /\ first.key = heap[o].name
       /\ second.in = c /\ second.kind = heap[o].kind /\ second.key = heap[o].as
       /\ first = Claimed(c, own)' /\ second = Claimed(c, other)'
  BY <1>3, <1>6, <1>8, <1>17 DEF EntryFor, Claimed
<1>19. \A e : e \in entries' <=> \/ e \in entries
                                 \/ e = first /\ ~In(heap[o].name)
                                 \/ /\ e = second /\ heap[o].as # NoName /\ heap[o].as # heap[o].name
                                    /\ ~In(heap[o].as)
  <2>1. PICK named : named = Insert(entries, first)
    OBVIOUS
  <2>2. \A e : e \in named <=> e \in entries \/ (e = first /\ ~In(heap[o].name))
    BY <2>1, <1>18 DEF Insert
  <2>3. entries' = IF heap[o].as = NoName THEN named ELSE Insert(named, second)
    BY <2>1, <1>1, <1>17
  <2>4. (\E e \in named : e.in = c /\ e.kind = heap[o].kind /\ e.key = heap[o].as)
        <=> In(heap[o].as) \/ heap[o].as = heap[o].name
    <3>1. (\E e \in named : e.in = c /\ e.kind = heap[o].kind /\ e.key = heap[o].as)
          <=> In(heap[o].as) \/ (heap[o].as = heap[o].name /\ ~In(heap[o].name))
      BY <2>2, <1>18
    <3> QED
      BY <3>1
  <2>5. \A e : e \in Insert(named, second) <=>
                 \/ e \in named
                 \/ e = second /\ ~\E d \in named : d.in = c /\ d.kind = heap[o].kind /\ d.key = heap[o].as
    BY <1>18 DEF Insert
  <2> HIDE DEF In
  <2> QED
    BY <2>2, <2>3, <2>4, <2>5
\* Both have the same reason to be new.
<1>20. /\ In(heap[o].name) <=> Claim(heap[o].name)
       /\ heap[o].as # NoName => (In(heap[o].as) <=> Claim(heap[o].as))
  BY <1>3, TakenClaimed
<1> HIDE DEF In, Claim
<1>21. ASSUME NEW d \in DOMAIN heap, Alive(d)
       PROVE  Entries(d)' = {Claimed(d, q)' : q \in FirstClaims(d)'}
  <2>1. Entries(d) = {Claimed(d, q) : q \in FirstClaims(d)}
    BY <1>21 DEF FirstWins, Claimed, Alive
  <2>2. FirstClaims(d) \subseteq Claims(d) /\ FirstClaims(d)' \subseteq Claims(d)'
    BY DEF FirstClaims
  <2>3. \A q \in FirstClaims(d) : Claimed(d, q)' = Claimed(d, q)
    BY <2>2, <1>10
  <2>4. CASE d # c
    <3>1. FirstClaims(d)' = FirstClaims(d)
      BY <2>2, <2>4, <1>9, <1>13
    <3>2. Entries(d)' = Entries(d)
      BY <2>4, <1>18, <1>19 DEF Entries
    <3> QED
      BY <2>1, <2>3, <3>1, <3>2
  <2>5. CASE d = c
    <3>1. \A q : q \in FirstClaims(c)' <=>
                   \/ q \in FirstClaims(c)
                   \/ q = own /\ ~In(heap[o].name)
                   \/ /\ q = other /\ heap[o].as # NoName /\ heap[o].as # heap[o].name
                      /\ ~In(heap[o].as)
      BY <2>2, <2>5, <1>9, <1>13, <1>15, <1>16, <1>20
    <3>2. \A e : e \in Entries(c)' <=>
                   \/ e \in Entries(c)
                   \/ e = first /\ ~In(heap[o].name)
                   \/ /\ e = second /\ heap[o].as # NoName /\ heap[o].as # heap[o].name
                      /\ ~In(heap[o].as)
      BY <1>18, <1>19 DEF Entries
    <3> QED
      BY <2>1, <2>3, <2>5, <3>1, <3>2, <1>18
  <2> QED
    BY <2>4, <2>5
<1>22. \A d : Alive(d)' <=> Alive(d)
  BY <1>3 DEF Alive
<1> QED
  BY <1>3, <1>21, <1>22 DEF FirstWins, Claimed, Alive

\* No other step passes anything, or takes an entry from a container that lives on.
LEMMA StepFirst == IInv /\ Account /\ FirstWins /\ [Next]_vars => FirstWins'
<1> SUFFICES ASSUME IInv, Account, FirstWins, [Next]_vars
             PROVE  FirstWins'
  OBVIOUS
<1>0. TypeOK
  BY DEF IInv
<1>1. CASE Add
  BY <1>1, AddFirst
<1>2. CASE Next /\ ~Add
  <2>1. NamesStay
    BY <1>2, AddRuleAccount, SetRootAccount, DeleteAccount, QuietAccount DEF Next
  <2> QED
    BY <2>1, <1>0, FirstKept
<1>3. CASE UNCHANGED vars
  <2>1. heap' = heap /\ entries' = entries /\ given' = given
    BY <1>3 DEF vars
  <2>2. NamesStay
    BY <2>1 DEF NamesStay, Steady, Alive, Entries
  <2> QED
    BY <2>2, <1>0, FirstKept
<1> QED
  BY <1>1, <1>2, <1>3

LEMMA InitFirst == Init => FirstWins
<1> SUFFICES ASSUME Init PROVE FirstWins
  OBVIOUS
<1>1. entries = {} /\ given = << >>
  BY DEF Init
<1>2. \A c : Entries(c) = {} /\ Claims(c) = {} /\ FirstClaims(c) = {}
  BY <1>1 DEF Entries, Claims, FirstClaims
<1> QED
  BY <1>2 DEF FirstWins

\* A name of a session or module (has_role, role, the getters of module.h) leads to what
\* was first added under it as name or alias, for as long as the container lives: inserts
\* that fail, renamed roles and aliases that clash make no difference, for any names and
\* any programs.
THEOREM FirstStays == Spec => []FirstWins
<1>1. Init => IInv /\ Account /\ FirstWins
  BY InitInv, InitAccount, InitFirst
<1>2. IInv /\ Account /\ [Next]_vars => Account'
  BY StepAccount
<1>3. IInv /\ Account /\ FirstWins /\ [Next]_vars => FirstWins'
  BY StepFirst
<1> QED
  BY <1>1, <1>2, <1>3, Inductive, PTL DEF Spec
-----------------------------------------------------------------------------
\* The rules of a role, and where the lookup is after k searches: it begins at the first
\* rule, whatever that is, and then goes from one to the next.
OwnRules(rules, name) == {i \in DOMAIN rules : IsOf(rules[i], name)}
Behind(rules, name)   == OwnRules(rules, name) \ {1}
Hop(rules, name, k)   == IF k = 0 THEN 1
                         ELSE IF k <= Cardinality(Behind(rules, name)) THEN Nth(Behind(rules, name), k)
                         ELSE Len(rules) + 1

LEMMA BehindFacts ==
  ASSUME NEW S, NEW rules \in Seq(S), NEW name
  PROVE  LET A == Behind(rules, name) IN
         /\ A \in SUBSET (1..Len(rules)) /\ 1 \notin A /\ Len(rules) \in Nat
         /\ IsFiniteSet(A) /\ Cardinality(A) \in Nat /\ (Cardinality(A) = 0 <=> A = {})
         /\ \A j \in 1..Cardinality(A) : Nth(A, j) \in A
         /\ \A i, j \in 1..Cardinality(A) : i < j => Nth(A, i) < Nth(A, j)
         /\ \A p \in A : \E j \in 1..Cardinality(A) : Nth(A, j) = p
<1> DEFINE A == Behind(rules, name)
<1>1. A \in SUBSET (1..Len(rules)) /\ 1 \notin A /\ Len(rules) \in Nat
  BY DEF Behind, OwnRules
<1> HIDE DEF A
<1>2. IsFiniteSet(A) /\ Cardinality(A) \in 0..Len(rules) /\ (Cardinality(A) = 0 <=> A = {})
  BY <1>1, PartIsFinite
<1>3. \A j \in 1..Cardinality(A) : Nth(A, j) \in A
  BY <1>1, NthFacts
<1>4. /\ \A i, j \in 1..Cardinality(A) : i < j => Nth(A, i) < Nth(A, j)
      /\ \A p \in A : \E j \in 1..Cardinality(A) : Nth(A, j) = p
  BY <1>1, NthOrder
<1> QED
  BY <1>1, <1>2, <1>3, <1>4 DEF A

\* One search leads from one to the next.
LEMMA FoundNext ==
  ASSUME NEW S, NEW rules \in Seq(S), rules # << >>, NEW name, NEW k \in Nat
  PROVE  Found(rules, Hop(rules, name, k), name) = Hop(rules, name, k + 1)
<1> DEFINE A == Behind(rules, name)
           C == Cardinality(A)
           h == Hop(rules, name, k)
           after == {j \in (h + 1)..Len(rules) : IsOf(rules[j], name)}
<1>1. /\ A \in SUBSET (1..Len(rules)) /\ 1 \notin A /\ Len(rules) \in Nat
      /\ C \in Nat /\ (C = 0 <=> A = {})
      /\ \A j \in 1..C : Nth(A, j) \in A
      /\ \A i, j \in 1..C : i < j => Nth(A, i) < Nth(A, j)
      /\ \A p \in A : \E j \in 1..C : Nth(A, j) = p
  BY BehindFacts
<1>2. \A j : j \in A <=> j \in 1..Len(rules) /\ IsOf(rules[j], name) /\ j # 1
  BY DEF Behind, OwnRules
<1>3. /\ k = 0 => h = 1
      /\ k # 0 /\ k <= C => h = Nth(A, k)
      /\ k # 0 /\ ~(k <= C) => h = Len(rules) + 1
      /\ k + 1 <= C => Hop(rules, name, k + 1) = Nth(A, k + 1)
      /\ ~(k + 1 <= C) => Hop(rules, name, k + 1) = Len(rules) + 1
  BY DEF Hop
<1> HIDE DEF A, C, h
<1>4. h \in Nat /\ h >= 1
  <2>1. CASE k # 0 /\ k <= C
    <3>1. k \in 1..C
      BY <2>1, <1>1
    <3>2. h \in A
      BY <3>1, <2>1, <1>1, <1>3
    <3>3. h \in 1..Len(rules)
      BY <3>2, <1>1
    <3> QED
      BY <3>3
  <2> QED
    BY <2>1, <1>1, <1>3
<1>5. \A j : j \in after <=> j \in A /\ h < j
  BY <1>1, <1>2, <1>4
<1>6. Found(rules, h, name) = IF after = {} THEN Len(rules) + 1
                              ELSE CHOOSE j \in after : \A i \in after : j <= i
  BY DEF Found
<1> HIDE DEF after
\* What was found up to now is not found again.
<1>7. ASSUME NEW i \in 1..C, i <= k PROVE ~(h < Nth(A, i))
  <2>1. Nth(A, i) \in A /\ Nth(A, i) \in 1..Len(rules)
    BY <1>1
  <2>2. CASE k <= C
    <3>1. k \in 1..C /\ h = Nth(A, k) /\ (i < k \/ i = k)
      BY <2>2, <1>1, <1>3, <1>7
    <3>2. Nth(A, i) < Nth(A, k) \/ i = k
      BY <3>1, <1>1
    <3> QED
      BY <3>1, <3>2, <2>1, <1>4
  <2>3. CASE ~(k <= C)
    BY <2>1, <2>3, <1>1, <1>3, <1>4, <1>7
  <2> QED
    BY <2>2, <2>3
<1>8. CASE k + 1 <= C
  <2> DEFINE m == Nth(A, k + 1)
  <2>1. k + 1 \in 1..C
    BY <1>1, <1>8
  <2>2. m \in A /\ m \in 1..Len(rules) /\ m # 1
    BY <2>1, <1>1
  <2>3. h < m
    <3>1. CASE k = 0
      BY <3>1, <2>2, <1>3
    <3>2. CASE k # 0
      <4>1. k \in 1..C /\ h = Nth(A, k) /\ k < k + 1
        BY <3>2, <1>1, <1>3, <1>8
      <4> QED
        BY <4>1, <2>1, <1>1
    <3> QED
      BY <3>1, <3>2
  <2>4. ASSUME NEW j \in after PROVE m <= j
    <3>1. PICK i \in 1..C : Nth(A, i) = j
      BY <1>1, <1>5
    <3>2. ~(i <= k)
      BY <3>1, <1>5, <1>7
    <3>3. i = k + 1 \/ k + 1 < i
      BY <3>2, <1>1
    <3>4. j \in 1..Len(rules)
      BY <1>1, <1>5
    <3> QED
      BY <3>1, <3>3, <3>4, <2>1, <2>2, <1>1
  <2>5. m \in after
    BY <2>2, <2>3, <1>5
  <2>6. \A j \in after : j \in Nat
    <3>1. \A j \in 1..Len(rules) : j \in Nat
      OBVIOUS
    <3> QED
      BY <3>1, <1>1, <1>5
  <2> HIDE DEF m
  <2>7. (CHOOSE j \in after : \A i \in after : j <= i) = m
    <3>1. \A j \in after : (\A i \in after : j <= i) => j = m
      BY <2>4, <2>5, <2>6
    <3> QED
      BY <3>1, <2>4, <2>5
  <2> QED
    BY <2>5, <2>7, <1>3, <1>6, <1>8 DEF m, h
<1>9. CASE ~(k + 1 <= C)
  <2>1. ASSUME NEW j \in after PROVE FALSE
    <3>1. PICK i \in 1..C : Nth(A, i) = j
      BY <1>1, <1>5
    <3>2. i <= k
      BY <1>1, <1>9
    <3> QED
      BY <3>1, <3>2, <1>5, <1>7
  <2> QED
    BY <2>1, <1>3, <1>6, <1>9 DEF h
<1> QED
  BY <1>8, <1>9

\* So the lookup goes from one to the next.
LEMMA LookupHops ==
  ASSUME NEW S, NEW rules \in Seq(S), rules # << >>, NEW name, NEW index \in Nat
  PROVE  Lookup(rules, name, index) = Hop(rules, name, index)
<1> DEFINE F(g) == [count \in 0..index |-> IF count = 0 THEN 1 ELSE Found(rules, g[count - 1], name)]
           h    == [count \in 0..index |-> Hop(rules, name, count)]
<1>1. Lookup(rules, name, index) = (CHOOSE g : g = F(g))[index]
  BY DEF Lookup
<1>2. Hop(rules, name, 0) = 1
  BY DEF Hop
<1>3. ASSUME NEW count \in 0..index, count # 0
      PROVE  Found(rules, Hop(rules, name, count - 1), name) = Hop(rules, name, count)
  <2>1. count - 1 \in Nat /\ (count - 1) + 1 = count
    BY <1>3
  <2>2. Found(rules, Hop(rules, name, count - 1), name) = Hop(rules, name, (count - 1) + 1)
    BY <2>1, FoundNext
  <2> QED
    BY <2>1, <2>2
<1>4. h = F(h)
  <2>1. ASSUME NEW count \in 0..index
        PROVE  h[count] = IF count = 0 THEN 1 ELSE Found(rules, h[count - 1], name)
    <3>1. CASE count = 0
      BY <3>1, <1>2
    <3>2. CASE count # 0
      <4>1. count - 1 \in 0..index
        BY <3>2
      <4>2. h[count - 1] = Hop(rules, name, count - 1)
        BY <4>1
      <4> QED
        BY <3>2, <4>2, <1>3
    <3> QED
      BY <3>1, <3>2
  <2>2. h = [count \in 0..index |-> h[count]]
    OBVIOUS
  <2> QED
    BY <2>1, <2>2
<1>5. ASSUME NEW g, g = F(g) PROVE g[index] = h[index]
  <2>1. \A c \in 0..index : g[c] = IF c = 0 THEN 1 ELSE Found(rules, g[c - 1], name)
    BY <1>5
  <2>2. \A c \in 0..index : h[c] = Hop(rules, name, c)
    OBVIOUS
  <2> HIDE DEF h, F
  <2> SUFFICES ASSUME g[index] # h[index] PROVE FALSE
    OBVIOUS
  <2> DEFINE T == {c \in 0..index : g[c] # h[c]}
  <2>3. PICK c \in T : \A d \in T : c <= d
    <3>1. T \subseteq Nat /\ index \in T
      OBVIOUS
    <3> QED
      BY <3>1, LeastNumber
  <2>4. c # 0
    BY <2>1, <2>2, <2>3, <1>2
  <2>5. c - 1 \in 0..index /\ ~(c <= c - 1)
    BY <2>3, <2>4
  <2>6. g[c - 1] = h[c - 1]
    BY <2>3, <2>5
  <2>7. g[c] = h[c]
    BY <2>1, <2>2, <2>3, <2>4, <2>5, <2>6, <1>3
  <2> QED
    BY <2>3, <2>7
<1> HIDE DEF F
<1>6. F(CHOOSE g : g = F(g)) = (CHOOSE g : g = F(g))
  BY <1>4
<1>7. h[index] = Hop(rules, name, index)
  OBVIOUS
<1> HIDE DEF h
<1> QED
  BY <1>1, <1>5, <1>6, <1>7

\* From the first rule, if it is of the role, the lookup passes all rules of the role; if
\* not, all of them from the second step on.
LEMMA HopsCover ==
  ASSUME NEW S, NEW rules \in Seq(S), rules # << >>, NEW name
  PROVE  LET own == OwnRules(rules, name)
             n   == Cardinality(own) IN
         /\ n \in Nat
         /\ 1 \in own => {Hop(rules, name, k) : k \in 0..(n - 1)} = own
         /\ 1 \notin own => {Hop(rules, name, k) : k \in 1..n} = own
<1> DEFINE own == OwnRules(rules, name)
           n   == Cardinality(own)
           A   == Behind(rules, name)
           C   == Cardinality(A)
<1>1. /\ C \in Nat /\ IsFiniteSet(A) /\ 1 \notin A
      /\ \A j \in 1..C : Nth(A, j) \in A
      /\ \A p \in A : \E j \in 1..C : Nth(A, j) = p
  BY BehindFacts
<1>2. A = own \ {1}
  BY DEF Behind
<1>3. \A k \in 1..C : Hop(rules, name, k) = Nth(A, k)
  BY <1>1 DEF Hop
<1>4. Hop(rules, name, 0) = 1
  BY DEF Hop
<1> HIDE DEF A, own
<1>5. {Hop(rules, name, k) : k \in 1..C} = A
  BY <1>1, <1>3
<1>6. CASE 1 \notin own
  <2>1. A = own
    BY <1>2, <1>6
  <2> QED
    BY <2>1, <1>1, <1>5, <1>6 DEF own
<1>7. CASE 1 \in own
  <2>1. own = A \cup {1}
    BY <1>2, <1>7
  <2>2. n = C + 1
    BY <2>1, <1>1, FS_AddElement
  <2> HIDE DEF n
  <2>3. n \in Nat /\ 0..(n - 1) = (1..C) \cup {0}
    BY <2>2, <1>1
  <2>4. {Hop(rules, name, k) : k \in (1..C) \cup {0}} = {Hop(rules, name, k) : k \in 1..C} \cup {Hop(rules, name, 0)}
    OBVIOUS
  <2> QED
    BY <2>1, <2>3, <2>4, <1>4, <1>5, <1>7 DEF own, n
<1> QED
  BY <1>6, <1>7

LEMMA RulesFound ==
  ASSUME TypeOK
  PROVE  LookupExplained
<1> SUFFICES ASSUME NEW b \in Live("Interruptible"), NEW name \in Name, NEW map \in RuleMap,
                    heap[b].rules[map] # << >>
             PROVE  LET rules == heap[b].rules[map]
                        n     == NumRules(rules, name)
                        own(indices) == {Lookup(rules, name, i) : i \in indices}
                                        = {i \in DOMAIN rules : IsOf(rules[i], name)} IN
                    IF IsOf(rules[1], name) THEN own(0..(n - 1))
                    ELSE own(1..n) /\ Lookup(rules, name, 0) = 1
  BY DEF LookupExplained
<1> DEFINE rules == heap[b].rules[map]
           n     == NumRules(rules, name)
           own   == {i \in DOMAIN rules : IsOf(rules[i], name)}
<1>2. rules \in Seq(Rule) /\ rules # << >> /\ 1 \in DOMAIN rules
  <2>1. rules \in Seq(Rule)
    BY TypeParts, ObjectFacts DEF Live
  <2> QED
    BY <2>1
<1> HIDE DEF rules
<1>5. own = OwnRules(rules, name) /\ n = Cardinality(own) /\ (1 \in own <=> IsOf(rules[1], name))
  BY <1>2 DEF OwnRules, NumRules
<1> HIDE DEF n, own
<1>6. /\ n \in Nat
      /\ 1 \in own => {Hop(rules, name, k) : k \in 0..(n - 1)} = own
      /\ 1 \notin own => {Hop(rules, name, k) : k \in 1..n} = own
  BY <1>2, <1>5, HopsCover
<1>7. \A k \in Nat : Lookup(rules, name, k) = Hop(rules, name, k)
  BY <1>2, LookupHops
<1>8. 0..(n - 1) \subseteq Nat /\ 1..n \subseteq Nat /\ 0 \in Nat
  BY <1>6
<1>9. /\ {Lookup(rules, name, k) : k \in 0..(n - 1)} = {Hop(rules, name, k) : k \in 0..(n - 1)}
      /\ {Lookup(rules, name, k) : k \in 1..n} = {Hop(rules, name, k) : k \in 1..n}
  BY <1>7, <1>8
<1>10. Lookup(rules, name, 0) = 1
  BY <1>7, <1>8 DEF Hop
<1>11. IF IsOf(rules[1], name) THEN {Lookup(rules, name, k) : k \in 0..(n - 1)} = own
       ELSE {Lookup(rules, name, k) : k \in 1..n} = own /\ Lookup(rules, name, 0) = 1
  BY <1>5, <1>6, <1>9, <1>10
<1> QED
  BY <1>11 DEF rules, n, own

\* interrupt_msg, throw_msg and catch_msg (node/interruptible.h) lead to each rule of a
\* role exactly if the first rule of all is of the role; if not, index 0 is a rule of
\* another role and each of the role's own is found one index late: for any number of
\* rules, and in every order a multimap can have them.
THEOREM LookupRight == Spec => []LookupExplained
<1>1. IInv => LookupExplained
  BY RulesFound DEF IInv
<1> QED
  BY <1>1, Inductive, PTL
=============================================================================
