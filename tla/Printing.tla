------------------------------- MODULE Printing -------------------------------
(***************************************************************************)
(* Printing of trees: Print of util/print.h for ordinary ones and          *)
(* PrintVisitor of parameterised/util/print.h for parameterised ones.  A   *)
(* line has a number, an indentation and a statement; what is written      *)
(* about the statement is left out, except for the null pointers that a    *)
(* printer meets there.  One step is one visit, or what it does after the  *)
(* children of its node were visited.                                      *)
(***************************************************************************)
EXTENDS PreOrder

CONSTANTS Trees,     \* what may be printed: by printer, a set of trees
          Later,     \* those of them given to a printer that was used before
          MaxPrints  \* how often the same printer is used

LeafClass  == {"Interaction", "Continue", "Nested", "AllReduce"}
BlockClass == {"Recur", "Par", "Choice", "For", "If", "Oneof"}
Class      == LeafClass \cup BlockClass \cup {"Block", "Interruptible"}

\* The classes with a pointer that is printed, which a constructor may leave null.
PointingClass == {"Interaction", "Choice", "For", "If", "Oneof"}

\* What a statement lacks: the pointer that it prints, at_, bindexpr_, cond_ or
\* range_; the parts of a logarithm in an expression that it prints.
Statement == [class : Class, kids : Seq(Nat), lacks : SUBSET {"pointer", "part"}]

ASSUME TreesAssumption ==
  /\ DOMAIN Trees = {"Print", "PrintVisitor"} /\ DOMAIN Later = DOMAIN Trees
  /\ MaxPrints \in Nat \ {0} /\ \A p \in DOMAIN Trees : Later[p] \subseteq Trees[p]
  /\ \A p \in DOMAIN Trees : \A t \in Trees[p] :
       /\ t \in Seq(Statement) /\ t # << >> /\ PreOrderTree(t)
       /\ \A n \in DOMAIN t : /\ t[n].class \in LeafClass => t[n].kids = << >>
                              /\ "pointer" \in t[n].lacks => t[n].class \in PointingClass

VARIABLES printer,     \* which of the two
          tree,        \* the tree being printed; its root is statement 1
          rest,        \* calls still to come
          indent_lvl_, \* of the printer
          line_count_, \* of the printer
          lines,       \* what was written so far
          from,        \* where in lines the print of this tree starts
          prints,      \* how many trees were given to the printer
          status       \* "running", "undefined" after a null pointer was followed

vars == <<printer, tree, rest, indent_lvl_, line_count_, lines, from, prints, status>>

Call(do, n)    == [do |-> do, node |-> n]
Line(what, n, number, indent) == [what |-> what, node |-> n, number |-> number, indent |-> indent]
-----------------------------------------------------------------------------
\* The steps of indentation that prefix() writes.
Shown(level) == CASE printer = "PrintVisitor"            -> level
                  [] printer = "Print" /\ level > 1      -> level - 1
                  [] printer = "Print" /\ level \in 0..1 -> 0

\* prefix(), which starts the first line with the header, and the rest of the line.
Headed == IF line_count_ = 1 THEN Append(lines, Line("header", 0, 0, 0)) ELSE lines
Written(what, n, level) ==
  /\ lines' = Append(Headed, Line(what, n, line_count_, Shown(level)))
  /\ line_count_' = line_count_ + 1

\* Mutant of Unguarded: nor is the sender of an interaction checked.
NeverGuarded(n) ==
  \/ "pointer" \in tree[n].lacks
  \/ printer = "PrintVisitor" /\ "part" \in tree[n].lacks

\* A null pointer that the text of statement n leads to.
Unguarded(n) ==
  \/ tree[n].class \in BlockClass /\ "pointer" \in tree[n].lacks
  \/ printer = "PrintVisitor" /\ "part" \in tree[n].lacks

\* Mutant of Body: the children in reverse order.
BodyReversed(n) ==
  [i \in DOMAIN tree[n].kids |-> tree[n].kids[Len(tree[n].kids) + 1 - i]]
Body(n) == tree[n].kids

Calling(do, classes) ==
  status = "running" /\ rest # << >> /\ Head(rest).do = do /\ tree[Head(rest).node].class \in classes
This == Head(rest).node

\* The text ends in the middle of the line.
Follow ==
  /\ Calling("visit", Class \ {"Block"}) /\ Unguarded(This)
  /\ Written("statement", This, indent_lvl_)
  /\ status' = "undefined"
  /\ UNCHANGED <<printer, tree, rest, indent_lvl_, from, prints>>

\* An interruptible block is a line: what it contains is not printed.
VisitLeaf ==
  /\ Calling("visit", LeafClass \cup {"Interruptible"}) /\ ~Unguarded(This)
  /\ Written("statement", This, indent_lvl_)
  /\ rest' = Tail(rest)
  /\ UNCHANGED <<printer, tree, indent_lvl_, from, prints, status>>

\* The line, and then accept() of the statement as a plain block.
VisitBlock ==
  /\ Calling("visit", BlockClass) /\ ~Unguarded(This)
  /\ Written("statement", This, indent_lvl_)
  /\ rest' = <<Call("body", This)>> \o Tail(rest)
  /\ UNCHANGED <<printer, tree, indent_lvl_, from, prints, status>>

\* visit(BlockNode), for plain blocks and the bodies of others.  PrintVisitor writes
\* brackets, unless there is nothing to put in them.
IsBody == Calling("body", BlockClass) \/ Calling("visit", {"Block"})
Calls(n) == [i \in DOMAIN Body(n) |-> Call("visit", Body(n)[i])] \o <<Call("close", n)>>
EnterBody ==
  /\ IsBody /\ printer = "Print"
  /\ indent_lvl_' = indent_lvl_ + 1
  /\ rest' = Calls(This) \o Tail(rest)
  /\ UNCHANGED <<printer, tree, line_count_, lines, from, prints, status>>
OpenBody ==
  /\ IsBody /\ printer = "PrintVisitor" /\ tree[This].kids # << >>
  /\ Written("open", This, indent_lvl_)
  /\ indent_lvl_' = indent_lvl_ + 1
  /\ rest' = Calls(This) \o Tail(rest)
  /\ UNCHANGED <<printer, tree, from, prints, status>>
\* Mutant of SkipBody: the level is reduced even where it was not raised.
SkipLowers ==
  /\ IsBody /\ printer = "PrintVisitor" /\ tree[This].kids = << >>
  /\ indent_lvl_' = indent_lvl_ - 1
  /\ rest' = Tail(rest)
  /\ UNCHANGED <<printer, tree, line_count_, lines, from, prints, status>>
SkipBody ==
  /\ IsBody /\ printer = "PrintVisitor" /\ tree[This].kids = << >>
  /\ rest' = Tail(rest)
  /\ UNCHANGED <<printer, tree, indent_lvl_, line_count_, lines, from, prints, status>>

\* Mutant of Left: the level is left as it is.
StillIn == indent_lvl_
Left == indent_lvl_ - 1

LeaveBody ==
  /\ Calling("close", Class) /\ printer = "Print"
  /\ indent_lvl_' = Left
  /\ rest' = Tail(rest)
  /\ UNCHANGED <<printer, tree, line_count_, lines, from, prints, status>>

\* Mutant of CloseBody: the bracket is written before the level is reduced.
CloseInside ==
  /\ Calling("close", Class) /\ printer = "PrintVisitor"
  /\ Written("close", This, indent_lvl_)
  /\ indent_lvl_' = Left
  /\ rest' = Tail(rest)
  /\ UNCHANGED <<printer, tree, from, prints, status>>
CloseBody ==
  /\ Calling("close", Class) /\ printer = "PrintVisitor"
  /\ Written("close", This, Left)
  /\ indent_lvl_' = Left
  /\ rest' = Tail(rest)
  /\ UNCHANGED <<printer, tree, from, prints, status>>

\* The printer is given another tree, with or without reset_line_num().
Again ==
  /\ status = "running" /\ rest = << >> /\ prints < MaxPrints
  /\ tree' \in Later[printer]
  /\ rest' = <<Call("visit", 1)>>
  /\ \/ indent_lvl_' = 0 /\ line_count_' = 1
     \/ UNCHANGED <<indent_lvl_, line_count_>>
  /\ from' = Len(lines)
  /\ prints' = prints + 1
  /\ UNCHANGED <<printer, lines, status>>

Init ==
  /\ printer \in DOMAIN Trees /\ tree \in Trees[printer]
  /\ rest = <<Call("visit", 1)>>
  /\ indent_lvl_ = 0 /\ line_count_ = 1
  /\ lines = << >> /\ from = 0 /\ prints = 1 /\ status = "running"

Next ==
  \/ Follow \/ VisitLeaf \/ VisitBlock \/ EnterBody \/ OpenBody \/ SkipBody
  \/ LeaveBody \/ CloseBody \/ Again

Spec == Init /\ [][Next]_vars
-----------------------------------------------------------------------------
TypeOK ==
  /\ printer \in DOMAIN Trees /\ tree \in Trees[printer]
  /\ rest \in Seq([do : {"visit", "body", "close"}, node : DOMAIN tree])
  /\ indent_lvl_ \in Nat /\ line_count_ \in Nat \ {0}
  /\ lines \in Seq([what : {"header", "statement", "open", "close"}, node : Nat,
                    number : Nat, indent : Nat])
  /\ from \in 0..Len(lines) /\ prints \in 1..MaxPrints
  /\ status \in {"running", "undefined"}

\* What a statement is in, and the statements that get a line of their own: what is in
\* an interruptible block does not.
Parent(n) == {p \in DOMAIN tree : \E i \in DOMAIN tree[p].kids : tree[p].kids[i] = n}
Above(n)  == {p \in DOMAIN tree : p # n /\ n \in Below(tree, p)}
Depth(n)  == Cardinality(Above(n))
Visible   == {n \in DOMAIN tree : \A p \in Above(n) : tree[p].class # "Interruptible"}
Printable == {n \in Visible : tree[n].class # "Block"}
Bodies    == {n \in Visible : tree[n].class \in BlockClass \cup {"Block"} /\ tree[n].kids # << >>}

Done      == status = "running" /\ rest = << >>
Here      == {i \in DOMAIN lines : from < i /\ lines[i].what # "header"}  \* the lines of this tree
At(what)  == {i \in Here : lines[i].what = what}
Printed   == {lines[i].node : i \in At("statement")}

\* A print shows the statements in the order of the protocol, each once and none left
\* out, except for those in interruptible blocks.
StatementsInOrder ==
  /\ \A i, j \in At("statement") : i < j => lines[i].node < lines[j].node
  /\ \A i \in At("statement") : \A n \in Printable : n < lines[i].node => n \in Printed
  /\ Printed \subseteq Printable /\ (Done => Printed = Printable)

\* Lines are numbered without a gap, also from one tree to the next, with the header
\* wherever the numbers start.
Numbered ==
  \A i \in DOMAIN lines :
    /\ lines[i].what = "header" <=> i < Len(lines) /\ lines[i + 1].number = 1
    /\ i > 1 /\ lines[i].what # "header" => lines[i].number = lines[i - 1].number + 1

\* Both.
LinesInOrder == StatementsInOrder /\ Numbered

\* The nearest line above that is indented less is the one a statement is below: for
\* PrintVisitor always; for Print, when the root is a plain block and no other is, as
\* plain blocks get no line and the first two levels look the same.  A print leaves the
\* printer at the level it found it at.
NestingShown ==
  LET plain == {n \in DOMAIN tree : tree[n].class = "Block"}
      above(i) == {k \in Here : k < i /\ lines[k].indent < lines[i].indent} IN
  /\ Done => indent_lvl_ = 0
  /\ printer = "PrintVisitor" \/ plain = {1} =>
       \A i \in At("statement") \cup At("open") :
         LET n == lines[i].node
             shown == IF printer = "Print" THEN Parent(n) \ {1} ELSE Parent(n) IN
         IF above(i) = {} THEN shown = {}
         ELSE \E k \in above(i) : shown = {lines[k].node} /\ \A j \in above(i) : j <= k

\* PrintVisitor puts brackets around the children of each block that has any, once, so
\* that what is between a pair of brackets is what is below its block.
BracketsMatch ==
  /\ printer = "Print" => At("open") \cup At("close") = {}
  /\ \A what \in {"open", "close"} : \A i, j \in At(what) : lines[i].node = lines[j].node => i = j
  /\ \A i \in At("open"), j \in At("close") : lines[i].node = lines[j].node =>
       /\ i < j /\ lines[i].indent = lines[j].indent
       /\ \A k \in Here : lines[k].node # lines[i].node =>
            (i < k /\ k < j <=> lines[i].node \in Above(lines[k].node))
  /\ Done /\ printer = "PrintVisitor" => \A what \in {"open", "close"} :
       {lines[i].node : i \in At(what)} = Bodies

\* A print stops at the first statement that has to show what is not there, the role of
\* a choice, the range of a for or a oneof, the condition of an if, a part of a
\* logarithm in an index; an interaction without a sender and receivers is printed.
StopsExplained ==
  \A i \in At("statement") :
    LET n == lines[i].node
        stops == \/ tree[n].class # "Interaction" /\ "pointer" \in tree[n].lacks
                 \/ printer = "PrintVisitor" /\ "part" \in tree[n].lacks
    IN stops <=> status = "undefined" /\ \A j \in At("statement") : j <= i
=============================================================================
