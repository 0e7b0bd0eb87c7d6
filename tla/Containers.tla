----------------------------- MODULE Containers -----------------------------
(***************************************************************************)
(* The containers of a protocol: a Session with its roles, role groups,    *)
(* endpoint and body, and a Module with its sessions, imports and          *)
(* constants.  Each is a map from names to pointers that are put in by     *)
(* unordered_map::insert, which does nothing if the name is taken.  An     *)
(* interruptible block has maps from roles to messages that take several   *)
(* messages for the same role, in an order nobody knows.                   *)
(*                                                                         *)
(* The program of the model keeps the rule of the style guide: what it     *)
(* allocates it deletes, except what it has passed to a container, which   *)
(* it passes once.  A Module deletes no session: the program may go on     *)
(* deleting one it has passed, or not.                                     *)
(***************************************************************************)
EXTENDS Integers, Sequences, FiniteSets, SequencesExt

CONSTANTS Name,       \* names
          NoName,     \* the empty string
          Heaps       \* the objects a program may allocate: which, how many, how named

Null == 0
Kind == {"Module", "Session", "Role", "Group", "Node", "Import", "Const", "Interruptible", "Msg"}
Nameless == {"Node", "Interruptible", "Msg"}
Made == [kind : Kind, name : Name \cup {NoName}, as : Name \cup {NoName}]

ASSUME NamesAssumption == NoName \notin Name
ASSUME HeapsAssumption ==
  \A h \in Heaps : h \in Seq(Made) /\ \A o \in DOMAIN h :
    (h[o].name = NoName <=> h[o].kind \in Nameless) /\ (h[o].as # NoName => h[o].kind = "Import")

\* interrupts_, throws_ and catches_, in the order of iteration.
RuleMap == {"interrupts", "throws", "catches"}
Rule    == [role : Nat, msg : Nat]

\* as: the alias of an import.  root_, me_ and type_ are of a session, members of a group,
\* rules of an interruptible block.
Object == [kind : Kind, name : Name \cup {NoName}, as : Name \cup {NoName}, live : BOOLEAN,
           root_ : Nat, me_ : Nat, type_ : {"GLOBAL", "LOCAL"}, members : SUBSET Nat, rules : [RuleMap -> Seq(Rule)]]

\* An entry of roles_, groups_, imports_, consts_ or sessions_ of the container in:
\* the kind of the object tells which map it is.
Entry == [in : Nat, kind : Kind, key : Name, obj : Nat, alias : BOOLEAN]

VARIABLES heap,     \* the objects of the program: each is allocated when it is first used
          entries,  \* what is in the maps of the containers
          mine,     \* what the program has to delete
          given,    \* history: what was passed to which container, under which name
          fault     \* "no", or what went wrong

vars == <<heap, entries, mine, given, fault>>

Containers(kind) == CASE kind \in {"Role", "Group", "Node"}             -> "Session"
                      [] kind \in {"Import", "Const", "Session"}        -> "Module"
                      [] OTHER                                          -> "none"
Live(kind) == {o \in DOMAIN heap : heap[o].live /\ heap[o].kind = kind}
Entries(c) == {e \in entries : e.in = c}
-----------------------------------------------------------------------------
New(m) ==
  [kind |-> m.kind, name |-> m.name, as |-> m.as, live |-> TRUE, root_ |-> Null, me_ |-> Null,
   type_ |-> "GLOBAL", members |-> {}, rules |-> [map \in RuleMap |-> << >>]]

\* Mutant of Insert: operator[], which takes the place of an entry.
Assign(es, e) == {d \in es : ~(d.in = e.in /\ d.kind = e.kind /\ d.key = e.key)} \cup {e}

Another(es, e) == es \cup {e}  \* mutant of Insert: unordered_multimap

\* unordered_map::insert.
Insert(es, e) ==
  IF \E d \in es : d.in = e.in /\ d.kind = e.kind /\ d.key = e.key THEN es ELSE es \cup {e}

EntryFor(c, o, key, alias) ==
  [in |-> c, kind |-> heap[o].kind, key |-> key, obj |-> o, alias |-> alias]

\* Mutant of Owned: an import is deleted for every name it is found under.
OwnedWithAliases(c) ==
  {[obj |-> e.obj, key |-> e.key] : e \in {e \in Entries(c) : e.kind # "Session"}}
  \cup {[obj |-> o, key |-> NoName] : o \in {heap[c].root_} \ {Null}}

\* Mutant of Owned: the endpoint is deleted with its session.
OwnedWithEndpoint(c) ==
  {[obj |-> e.obj, key |-> e.key] : e \in {e \in Entries(c) : e.kind # "Session" /\ ~e.alias}}
  \cup {[obj |-> o, key |-> NoName] : o \in {heap[c].root_, heap[c].me_} \ {Null}}

\* What the destructor of c deletes, each by a delete of its own: entries that are no
\* alias, never the sessions of a module, and the body of a session; the role and the
\* message of each rule.
Rules(c) == UNION {{map} \X DOMAIN heap[c].rules[map] : map \in RuleMap}
Owned(c) ==
  {[obj |-> e.obj, key |-> e.key] : e \in {e \in Entries(c) : e.kind # "Session" /\ ~e.alias}}
  \cup {[obj |-> o, key |-> NoName] : o \in {heap[c].root_} \ {Null}}
  \cup UNION {LET rule == heap[c].rules[r[1]][r[2]] IN {[obj |-> o, key |-> r] : o \in {rule.role, rule.msg}} : r \in Rules(c)}

Running == fault = "no"

\* add_role, add_group, add_constant, add_session and add_import, which may make two
\* entries; a session that is passed may still be the program's to delete.
Add ==
  \E o \in mine, c \in DOMAIN heap :
    /\ Running
    /\ heap[c].live /\ heap[c].kind = Containers(heap[o].kind) /\ heap[o].kind \notin Nameless
    /\ ~\E i \in DOMAIN given : given[i].obj = o
    /\ LET named == Insert(entries, EntryFor(c, o, heap[o].name, FALSE)) IN
       entries' = IF heap[o].as = NoName THEN named
                  ELSE Insert(named, EntryFor(c, o, heap[o].as, TRUE))
    /\ given' = Append(given, [in |-> c, obj |-> o, name |-> heap[o].name])
    /\ mine' \in {mine \ {o}} \cup (IF heap[o].kind = "Session" THEN {mine} ELSE {})
    /\ UNCHANGED <<heap, fault>>

\* Mutant of SetRoot: the old body is forgotten.
SetRootOnly ==
  \E c \in Live("Session"), n \in mine \cap Live("Node") :
    /\ Running
    /\ heap' = [heap EXCEPT ![c].root_ = n]
    /\ mine' = mine \ {n}
    /\ UNCHANGED <<entries, given, fault>>

\* set_root deletes the old body.
SetRoot ==
  \E c \in Live("Session"), n \in mine \cap Live("Node") :
    /\ Running
    /\ heap' = [o \in DOMAIN heap |->
                  IF o = c THEN [heap[o] EXCEPT !.root_ = n]
                  ELSE [heap[o] EXCEPT !.live = @ /\ o # heap[c].root_]]
    /\ mine' = mine \ {n}
    /\ UNCHANGED <<entries, given, fault>>

\* The endpoint is not owned: any role will do.
SetEndpoint ==
  \E c \in Live("Session"), r \in Live("Role") :
    /\ Running
    /\ heap' = [heap EXCEPT ![c].me_ = r, ![c].type_ = "LOCAL"]
    /\ UNCHANGED <<entries, mine, given, fault>>

AddMember ==
  \E g \in Live("Group"), r \in Live("Role") :
    /\ Running
    /\ heap' = [heap EXCEPT ![g].members = @ \cup {r}]
    /\ UNCHANGED <<entries, mine, given, fault>>

\* add_interrupt, add_throw and add_catch: rules with the same role are kept together,
\* all else about their order is up to the hash table.
AddRule ==
  \E b \in Live("Interruptible"), m \in mine \cap Live("Msg"), map \in RuleMap :
    \E r \in (mine \cap Live("Role")) \cup {heap[b].rules[at[1]][at[2]].role : at \in Rules(b)} :
      \E i \in 1..(Len(heap[b].rules[map]) + 1) :
        LET added == InsertAt(heap[b].rules[map], i, [role |-> r, msg |-> m])
            of    == {j \in DOMAIN added : added[j].role = r} IN
        /\ Running
        /\ \A j \in DOMAIN added : (\E k, l \in of : k <= j /\ j <= l) => j \in of
        /\ heap' = [heap EXCEPT ![b].rules[map] = added]
        /\ mine' = mine \ {r, m}
        /\ UNCHANGED <<entries, given, fault>>

\* Role::set_name, which the session does not hear of.
SetName ==
  \E r \in Live("Role") \cup Live("Group"), name \in Name :
    /\ Running
    /\ heap' = [heap EXCEPT ![r].name = name]
    /\ UNCHANGED <<entries, mine, given, fault>>

\* A destructor: of a container, also of what it owns.
Delete ==
  \E o \in mine :
    LET freed == {o} \cup {d.obj : d \in Owned(o)} IN
    /\ Running
    /\ heap' = [i \in DOMAIN heap |-> [heap[i] EXCEPT !.live = @ /\ i \notin freed]]
    /\ entries' = entries \ Entries(o)
    /\ mine' = mine \ {o}
    /\ fault' = IF Cardinality(Owned(o)) # Cardinality(freed \ {o}) \/ \E i \in freed : ~heap[i].live
                THEN "double free" ELSE "no"
    /\ UNCHANGED given

\* st_param_tree_print reads the endpoint of a local type, the groups and their
\* members, and the body.
Read(c) == (IF heap[c].type_ = "LOCAL" THEN {heap[c].me_} ELSE {})
           \cup {e.obj : e \in Entries(c)}
           \cup UNION {heap[e.obj].members : e \in {e \in Entries(c) : e.kind = "Group"}}
PrintTree ==
  \E c \in Live("Session") :
    /\ Running
    /\ fault' = CASE \E o \in Read(c) : ~heap[o].live -> "use after free"
                  [] (\A o \in Read(c) : heap[o].live) /\ heap[c].root_ = Null -> "null"
                  [] OTHER -> "no"
    /\ UNCHANGED <<heap, entries, mine, given>>

Init ==
  /\ \E h \in Heaps : heap = [o \in DOMAIN h |-> New(h[o])]
  /\ entries = {} /\ mine = DOMAIN heap /\ given = << >> /\ fault = "no"

Next == Add \/ AddRule \/ SetRoot \/ SetEndpoint \/ AddMember \/ SetName \/ Delete \/ PrintTree

Spec == Init /\ [][Next]_vars
-----------------------------------------------------------------------------
\* num_interrupts(role): roles are compared by the names they have now.
IsOf(rule, name) == heap[rule.role].name = name
NumRules(rules, name) == Cardinality({i \in DOMAIN rules : IsOf(rules[i], name)})

\* Mutant of Found: the search starts where the last one ended.
FoundAgain(rules, i, name) ==
  SelectInSeq(SubSeq(rules, i, Len(rules)), LAMBDA rule : IsOf(rule, name)) + i - 1

\* std::find_if(++it, ...): the next rule of that role, or the end.
Found(rules, i, name) ==
  LET after == {j \in (i + 1)..Len(rules) : IsOf(rules[j], name)}
  IN IF after = {} THEN Len(rules) + 1 ELSE CHOOSE j \in after : \A k \in after : j <= k

\* interrupt_msg(role, index), throw_msg and catch_msg: the position of the rule whose
\* message is returned; after the last one when the end is dereferenced.
Lookup(rules, name, index) ==
  LET it[count \in 0..index] == IF count = 0 THEN 1 ELSE Found(rules, it[count - 1], name)
  IN it[index]
-----------------------------------------------------------------------------
\* Every variable has its type; a map has one entry for a key.
TypeOK ==
  LET Id == DOMAIN heap IN
  /\ heap \in Seq(Object)
  /\ \A o \in Id : {heap[o].root_, heap[o].me_} \subseteq Id \cup {Null} /\ heap[o].members \subseteq Id
  /\ \A o \in Id : \A r \in Rules(o) : LET rule == heap[o].rules[r[1]][r[2]] IN
       heap[rule.role].kind = "Role" /\ heap[rule.msg].kind = "Msg"
  /\ \A e \in entries : e \in Entry /\ {e.in, e.obj} \subseteq Id
  /\ mine \subseteq Id /\ given \in Seq([in : Id, obj : Id, name : Name])
  /\ fault \in {"no", "double free", "use after free", "null"}
  /\ \A d, e \in entries : <<d.in, d.kind, d.key>> = <<e.in, e.kind, e.key>> => d = e

\* The names that were claimed in container c: each object that is passed claims its
\* name, and after it its alias.
Claims(c) == {q \in (DOMAIN given) \X BOOLEAN :
                given[q[1]].in = c /\ (q[2] => heap[given[q[1]].obj].as # NoName)}
ClaimedKey(q)   == IF q[2] THEN heap[given[q[1]].obj].as ELSE given[q[1]].name
SameClaim(p, q) == /\ ClaimedKey(p) = ClaimedKey(q)
                   /\ heap[given[p[1]].obj].kind = heap[given[q[1]].obj].kind
Before(p, q)    == p[1] < q[1] \/ (p[1] = q[1] /\ ~p[2] /\ q[2])
FirstClaims(c)  == {q \in Claims(c) : ~\E p \in Claims(c) : Before(p, q) /\ SameClaim(p, q)}

\* A name leads, from the first time it is given for as long as the container lives,
\* to the object it was given with: later ones of that name, the alias of an import and
\* the renaming of a role make no difference, and no other name leads anywhere.
FirstWins ==
  \A c \in DOMAIN heap : heap[c].live =>
    Entries(c) = {EntryFor(c, given[q[1]].obj, ClaimedKey(q), q[2]) : q \in FirstClaims(c)}

\* The name was taken when o was passed: by another object, or by its alias.
Refused(o) ==
  \E i, j \in DOMAIN given :
    /\ j < i /\ given[i].obj = o /\ given[j].in = given[i].in
    /\ heap[given[j].obj].kind = heap[o].kind
    /\ given[i].name \in {given[j].name, heap[given[j].obj].as}
WillBeFreed == mine \cup UNION {{d.obj : d \in Owned(c)} : c \in mine}
Leaked == {o \in DOMAIN heap : heap[o].live} \ WillBeFreed
Abandoned == {o \in Leaked : heap[o].kind = "Session"}

\* An object is lost to every destructor exactly if its name was taken when it was
\* passed, or it is a session that was left to a module, or belongs to such a session.
LeaksExplained ==
  fault = "no" =>
    Leaked = {o \in DOMAIN heap : heap[o].live /\
                \/ Refused(o) /\ heap[o].kind # "Session"
                \/ o \in Abandoned
                \/ \E c \in Abandoned : o \in {d.obj : d \in Owned(c)}}

\* Nothing is freed twice, and every pointer a destructor will delete is to an object
\* that lives: an alias is no second owner, nor is the endpoint.  Only the role of two
\* rules, which the maps are made for, is deleted once for each of them.
FreedOnce ==
  /\ fault = "double free" =>
       \E b \in DOMAIN heap : \E p, q \in Rules(b) :
         p # q /\ heap[b].rules[p[1]][p[2]].role = heap[b].rules[q[1]][q[2]].role
  /\ \A c \in DOMAIN heap : heap[c].live => \A d \in Owned(c) : heap[d.obj].live

\* interrupt_msg(role, i) for i from 0 to num_interrupts(role) - 1 leads to each rule of
\* the role once only if the first of all rules is of that role.  Else index 0 leads to a
\* rule of another role and the last of its own is found at num_interrupts(role).
LookupExplained ==
  \A b \in Live("Interruptible"), name \in Name, map \in RuleMap :
    LET rules == heap[b].rules[map]
        n     == NumRules(rules, name)
        own(indices) == {Lookup(rules, name, i) : i \in indices} = {i \in DOMAIN rules : IsOf(rules[i], name)} IN
    rules # << >> => IF IsOf(rules[1], name) THEN own(0..(n - 1))
                     ELSE own(1..n) /\ Lookup(rules, name, 0) = 1

\* interruptible.h:129-131: for a role that can send an interrupt and an index of its
\* messages, what is returned is an interrupt message of that role.
RuleOfRole ==
  \A b \in Live("Interruptible"), name \in Name, map \in RuleMap :
    LET rules == heap[b].rules[map] IN
    \A i \in 0..(NumRules(rules, name) - 1) : IsOf(rules[Lookup(rules, name, i)], name)

\* Printing reads freed memory only by way of an endpoint or of a member of a group,
\* and never one of the session's own roles.
UsesExplained ==
  fault = "use after free" =>
    \E c \in Live("Session") :
      \E r \in (Read(c) \ {e.obj : e \in Entries(c)}) : heap[r].kind = "Role" /\ ~heap[r].live
=============================================================================
