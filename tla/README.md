# Verification of libsesstype

libsesstype is a C++11 library (with a C API) for *multiparty session types*: it
builds the syntax tree of a global protocol, and computes from it the *local
type* of a role (endpoint projection). It is sequential, keeps nothing on disk
and talks to nobody. What is hard in it is of another kind: tree traversals that
keep a stack of their own beside the call stack, objects that own one another
through raw pointers, a small symbolic calculator whose three passes must agree, and
printers that carry a level and a line number from call to call. The modules here
model those parts.

## 1. Inventory

| Component | State | Operations | Interacts with | What makes it correct |
|---|---|---|---|---|
| Node tree (`node/*.h`, `src/api/*_node.cc`) | children, message, sender, receivers, chooser, role arguments, interrupt rules, all raw pointers | constructors, `clone()`, destructors, `append_child`, `set_child`, `set_msg`, `set_sndr`, `remove_sndr`, `add_rcvr`, `remove_rcvrs`, `set_at`, `add_arg`, `add_interrupt`/`add_throw`/`add_catch` | visitors, through `accept`; messages and roles, which it owns | one owner per object, nothing lost, nothing freed under an owner |
| Parameterised nodes (`parameterised/node/*.h`) | condition of a message, binding expression and exception of a loop, condition of an if, message of an allreduce, selector and range of a oneof | constructors, `clone()`, `set_cond`, `set_bindexpr`, `set_except`, `set_msg`, `set_selector`, `set_range` | expressions and roles, taken over, shared or borrowed class by class | the same |
| Message, payload, role (`msg.h`, `role.h`) | label, payloads; name | `add_payload`, `clone()`, `matches` | owned by nodes, by the program, or shared by copies | a copy is independent of the original |
| Endpoint projection (`util/project.h`, `util/node_visitor.cc`) | `endpoint_`, `stack_` | one `visit` per node class, `get_root` | calls `accept` of the tree, which calls back `visit`; allocates nodes, clones others, shares the chooser of a choice | the stack follows the calls; the result is the endpoint's view of the protocol |
| Parameter expressions (`parameterised/expr*.h`) | immutable trees | construction, `clone()` | visited by the next three | |
| `ExprEval`, `ExprApply`, `ExprInvert` | stacks of results, `error_`, `reversed_` | one `visit` per class, then `eval`, `apply`, `invert` | Rule 9 of parameterised projection chains them | values are preserved, the inverse is an inverse |
| Parameterised projection (`parameterised/util/project.h`) | as above | Rules 1 to 9 for interactions | roles with indices, role groups, the expression visitors | a statement is kept for the indices it concerns |
| `Session`, `Module`, `Import` | maps from names to pointers | `add_role`, `set_root`, `set_endpoint`, `add_session`, `add_import` | own roles, trees and imports | names find what was added; everything is freed once |
| Interrupt rules (`node/interruptible.h`) | three multimaps from roles to messages | `num_interrupts`, `interrupt_msg` and the same for throws and catches | roles are keys by address and compared by name | an index leads to a rule of the role |
| `Print`, `PrintVisitor` | `indent_lvl_`, `line_count_` | one `visit` per node class, `reset_line_num` | traverses a tree, follows what the nodes point to | the lines show the tree |
| `ExprPrintVisitor` | none | one `visit` per class | | the text reads back as the expression |
| Constants, empty visitors | none that changes | getters | | |

Behaviours that are hard to test: a deep traversal that pops the wrong block;
the order in which statements of different depth reach the local type; a shared
object whose second owner deletes it long after; a destructor that runs on one
side of a projection while the other side lives on; a visitor that finds its
stack empty only for an expression nobody wrote a test for; arithmetic of
constants that overflows while it is being simplified; a printer that is used again
after a tree it did not leave as it found it. There is no concurrency,
no persistence and no timeout, so there is nothing to say about them.

## 2. Modules

| Module | Models | Role |
|---|---|---|
| `Projection` | `ProjectionVisitor`, the dispatch of `accept`, the nodes it makes | component, with its properties |
| `LocalType` | what projection promises, without a traversal | abstract specification |
| `ProjectionRefinement` | how the visitor's nodes are read as a local type; that `Projection` implements `LocalType` and terminates | refinement mapping |
| `MCProjection` | the global types to check, three statements of the documentation | model checking |
| `ProjectionProofs` | types, the lockstep of the two stacks, the single place of a node, the order of children, and that steps only add; exactly what is visited is projected, and at the end all of it; the visitor implements `LocalType`; for all roles and trees | proofs |
| `Ownership` | the pointers between nodes, messages, payloads and roles; every call that changes them | component, with the properties |
| `ParamOwnership` | expressions, indices, conditions and the nodes of parameterised protocols, and their projection, on the same heap | extends `Ownership` |
| `MCOwnership` | the programs to check | model checking |
| `OwnershipProofs` | the inductive invariant, and that the calls that build, change, clone and delete keep it | proofs |
| `OwnershipProjectionProofs` | that both projections keep it; types, sharing, leaks, dangling pointers and undefined behaviour, for all programs | proofs |
| `ExprVisitors` | `ExprApply`, `ExprEval`, `ExprInvert`, alone and chained | component |
| `ExprSearch` | what they ask of an expression by recursion: `has_var`, whether it has a logarithm | gives two constants of `ExprVisitors` their values |
| `ExprVisitorsProofs` | that each visit takes the results of the visits it made | proofs |
| `ExprText` | the text of an expression, and how a reader takes it | extends `ExprVisitors` |
| `MCExprVisitors` | the expressions to check, their meaning, the properties | model checking |
| `PreOrder` | trees in pre-order, what is below a statement, parts of sequences | used by `Projection`, `LocalType`, `ParamProjection`, `Printing`; its `Selected` and `Ordered` by `Ownership` |
| `PreOrderProofs` | lemmas about them, about counting and about least numbers | proofs |
| `ParamProjection` | `ProjectionVisitor` of `parameterised/util/project.h` | component, with its properties |
| `ParamProjectionRefinement` | its result read as a `LocalType`, where all roles are ordinary | refinement mapping |
| `ParamProjectionProofs` | its types, what is kept, sent, received and guarded, why it stops, and that it agrees with `LocalType`, for all roles and trees | proofs |
| `MCParamProjection` | the protocols to check | model checking |
| `Containers` | `Session`, `Module`, `Import`, constants, names of roles and groups, interrupt rules and their lookup | component, with its properties |
| `MCContainers` | the objects of the programs to check | model checking |
| `ContainersProofs` | types, what is freed twice and what is read after it was freed, what is never freed, what names lead to, the lookup of rules, for all names and programs | proofs |
| `Printing` | `Print` and `PrintVisitor` | component, with its properties |
| `PrintingProofs` | types, the order and the numbers of lines, nesting, brackets, and why a print stops, for all trees | proofs |
| `MCPrinting` | the trees to print | model checking |

No module shares variables with another: projection reads a tree that nobody
changes meanwhile, and the visitors of expressions return before it goes on.
`ParamProjection` takes from `ExprVisitors` which indices have an application, a value and an
inverse; `ProjectionRefinement` and `ParamProjectionRefinement` both instantiate `LocalType`.

### Projection

`global` is the tree as a sequence of nodes in pre-order (`PreOrderTree`: children are
younger than their parent, every node but the root has one parent, and what stands
between a node and a child of it is below an earlier child; any C++ tree can be numbered
so). `frames` is the C++
call stack: for every active loop of `visit(BlockNode *)` the block, the position
in its children, and the node the calling visit method has pushed (`own`).
`stack_` is the visitor's own stack, as positions in `out`, the nodes allocated so
far. A step is one call of a visit method up to the next `accept`
(`VisitInteraction`, `VisitChoice`, ...) or one return from the loop (`Return`),
where the node that was pushed is popped and appended. `global` and `endpoint`
stay as they are. A statement copied with `clone()` is a reference to its source
(`src`), what `clone()` copies with it is in `copied`; messages, labels and scopes
are left out, because projection copies them as they are. A null sender or
chooser is `NoRole`, and dereferencing it ends the behaviour (`crashed`).

`LocalType` has one step, from no answer to `LocalTypeOf(global, endpoint)`: the
statements the role takes part in and those that give structure, each below the
nearest kept block, in source order. `Result` of `ProjectionRefinement` is the refinement
mapping: it reads the finished local type out of `out`. The subtrees that an
interruptible block brings along with its clone are not part of it: they are a
finding of their own (`OnlyMatchingMessages`).

### Ownership

`heap` holds every object ever allocated, with its class, whether it is alive and
its pointers: those a destructor deletes (`one`, `many`) and those it does not (`lent`:
the condition of an interaction, the message of an allreduce, what a oneof borrows).
`profile` is the program: what it starts with, of which classes it goes on to make
and copy objects, whether it puts nodes into others. `ProfilesAssumption` says what it may
start with: objects as constructors and adders make them of others (`WellMade`), each with at most one
owner and none in itself. `mine` are the objects the program itself has to delete. The actions
are the calls of the public interface by a program that follows the rule of
`styleguide.md`: it deletes its own objects only and once, and gives an object away
only if it has it. `Deleted` follows the destructors. A copy constructor clones some pointers, copies
others (`SharedParts`) and forgets some (`LeftOut`), which makes the reached objects
of a clone (`Cloned`). A projection (`Project`) allocates what `ProjectionVisitor`
allocates, for any way in which the endpoint can take part in the statements.
When a call deletes an object twice, or reads a deleted one, `ub` says so and the
program stops. `lost` remembers what a setter wrote over, and the sender that Rule 9
makes and forgets. Names, labels, scopes and flags are values and do not appear.

`ParamOwnership` adds one action per method of the parameterised classes to the same
heap, and the parameterised projection in three: `ProjectNodes` for a tree without
messages, `ProjectMessage` for Rules 3, 4 and 6 to 8, `ProjectRelative` for Rule 9,
where `ranges` says which indices of the sender are ranges. Whether a rule applies
is the business of `ParamProjection`; here each may apply, so that whatever rule
the roles select, what it does to the heap is among the behaviours. Rules 1 and 2 do
what the ordinary projection does. An operand, a condition or a message that a
constructor receives is taken over; the selector and the range of a oneof, which
no destructor deletes, stay with the program. A logarithm forgets its operands when
it is made and is left to `ExprVisitors`.

Whose the condition of an interaction is, the code does not settle: `set_cond` deletes the
condition it replaces, as an owner does; the destructor deletes none, as if it had no owner; and
`tests/node.cc:115-120` deletes the condition itself after `set_cond`. Both conventions are
modelled. `SetCond` gives the condition away, as every other setter of a pointer does.
`LendCond` sets one the program keeps: it goes into `kept`, a history, and into `due`, what of
these the program has yet to delete, and `DeleteCond` deletes it. A kept condition may be
set on its interaction again and is the condition of one interaction at a time (`Spare`); every other
call may follow in any order: `ProjectFreed` and the clones read a condition that is gone.

### ExprVisitors

Expressions are records. `frames` is the call stack of visits with their local
variables (`lhs`, or `lhs_from` and `lhs_to`), `stack_` the stack of results; the two
stacks of `ExprApply` are pushed and popped together and are one stack of pairs.
`plan` is what the caller does: a single visitor, as in the C API, or apply,
eval, invert, as in Rule 9 of parameterised projection. An `int` has `Width` bits;
arithmetic that is not defined for an `int`, a pop of an empty stack and a visit of
a null pointer lead to `status = "undefined"`. Left out: `invalid_` of `ExprEval`,
which no caller reads, and `is_commutative`/`is_associative`, which nobody calls. What the
code finds out by recursion over an expression (`has_var`, and whether `clone()` meets a
logarithm) are the constants `HasVar` and `HasLog`: the runs give them the definitions of
`ExprSearch`, and the proofs hold whatever they answer.

`ExprText` gives the text that `ExprPrintVisitor` writes, as a sequence of tokens, and
the expression a reader makes of it who knows the usual precedence (`Reading`). Sums and
differences are bracketed, the other operators are not.

### ParamProjection

As in `Projection` a step is one visit, but the call stack is a continuation: `rest`
holds the calls still to come, a source node to visit or `Close` for what a visit
method does after the children of its node. A role is a name and a sequence of
indices, or a group of members; an index is what Rule 9 distinguishes: a range, an
expression with an inverse, one whose arithmetic is undefined at an end of the range it
meets (`partial`, 6/i from 0), one without inverse or with one that `clone()` cannot copy
(`mod`), a sequence, an expression with a logarithm in it (`log`); and in the output what
apply and invert leave behind. `OrdinaryRules`, `IndexedRules` and `GroupRules` give the nodes
one interaction leaves, in order. `NoApply`, `NoEval`, `NoIndex` and `NoInverse` say when Rule 9
ends in undefined behaviour or an exception, and `Uncopyable` when the clone of a node does,
which every rule begins with: the copy of a role copies its indices, and a logarithm then
dereferences null. That clone is of a whole block for `InterruptibleNode`. Messages, receivers, role arguments
and conditions are taken to be there; a null sender or chooser is `NoRole`. The tree is one in pre-order (`PreOrder`), and
`Selected` picks receivers by position. Interactions start without a condition, as
they come from the C API.

### Containers

An unordered map is the set of its entries; the container and the kind of the object
say which map it is. `Insert` is `unordered_map::insert`: nothing if the key is there.
The objects a program uses are all there from the start (`Heaps`), because it makes no
difference when they are allocated. `given` is a history of what was passed to which
container, which the properties compare with the entries. The program deletes what it
has not passed on and passes a thing once; a session passed to a module it may keep
deleting itself, as `tests/module.cc` does, or not, as `styleguide.md` says. Printing a
parameterised session is an action because it follows pointers that the session does
not own. The rules of an interruptible block are sequences in the order of iteration:
`AddRule` inserts at any place that keeps the rules of one role together, which is all
that an unordered multimap promises. `Lookup` is the loop of `interrupt_msg`; roles are
compared by the names they have at the time.

### Printing

`rest` holds the calls to come, as in `ParamProjection`: a statement to visit, the body
of a block (the second call, to `accept` of the base class), what follows its children.
`printer` chooses between the two classes, which differ in how they indent, in the
brackets of `PrintVisitor`, and in what they do with an empty block. A line is its number,
its indentation and the statement; its wording is left out, except where it follows a
pointer that is null (`lacks`): a choice without role, a loop or oneof without range, an
if without condition, a logarithm in an index. An interaction checks its pointers. `Again`
gives the printer another tree, with or without `reset_line_num`.

## 3. Runs

| Run | Shows | Bounds |
|---|---|---|
| `projection` | the visitor implements `LocalType` and terminates; stack discipline, one place per node, order of siblings, projection of every prefix, append-only construction | all trees of up to 4 nodes over 12 statements and all of 5 nodes over a smaller set, three roles |
| `projection_copies` | a projected interruptible block contains foreign messages | same module, violated |
| `projection_branches` | a choice may gain branches | violated |
| `projection_type` | a projected interruptible block has the type of a plain block | violated |
| `ownership` | who shares, loses, leaves dangling or frees twice, and what a call may take from the program, over all classes and both projections | eleven programs of 5 to 20 objects, 2 or 3 of them the program's; 324,783 states |
| `ownership_double_free` | the rule of the style guide does not prevent a double free | violated |
| `expressions` | results are taken as they were left, evaluation and application preserve values, inversion inverts, undefined behaviour has a known cause, texts read back | all expressions of one operator over four leaves, and two operators with a restricted second operand; two ranges; 5-bit integers |
| `expressions_reach` | inversion of a product goes on with the wrong operand | violated |
| `parameterised` | participation, order of receive and send, conditions, known reasons to stop, structure, agreement with the ordinary projection, termination | trees of 3 to 5 nodes, four endpoints, roles with up to two indices, groups of up to two members; 476,413 states |
| `containers` | first name wins, one deletion each, leaks and reads of freed memory explained; lookup of rules | 4 to 6 objects, two names |
| `rules_lookup` | the rule found for a role may be another role's | same module, violated |
| `printing` | order, nesting, brackets and numbers of lines; where a printer stops | all trees of 4 statements over a few classes and of 3 over the others, two trees per printer |

**Why the bounds are enough.** Projection looks at one node, its parent on the
stack and the loop above; a tree of four nodes has a block inside a block with a
statement before and after it, and five nodes give a third level. The catalogue
holds each class, both sides of every test (sender, receiver, both, neither, null;
argument present, absent, repeated). For ownership, sharing needs an object, its
owner and the copy of the owner: five objects hold a choice with a role, its
projection and one more; eight hold an interaction with message, sender and
receiver and its copy of the message and payload. Three objects in the program's
hands are needed to add an interrupt rule. One state space with all classes at once
is out of reach, so each program of `MCOwnership` has the classes that own one another:
messages (`Messages`), choices and nested sessions (`Blocks`), blocks in blocks
(`Recurs`), rules (`Rules`), loops with their expressions (`Fors`), conditions of ifs
(`Ifs`), allreduce (`Reduces`), oneof (`Oneofs`), indices of payloads and expressions
(`Indices`), conditions of messages under Rules 3 to 8 (`Conds`: thirteen objects, for
two projections), and Rule 9 between two roles with two indices each (`Relative`:
twenty objects). Two operators are enough for a visit
within a visit on either side and for every combination of outer and inner
operator; the variable values -2, 0, 1, 3 distinguish signs, zero, exact and
inexact division, and 5 bits overflow within two operators.
An interaction of `parameterised` is decided by its sender, its receivers and the
endpoint alone: the catalogue has three ordinary roles, so that an ordinary message is received,
sent, or neither, beside one in which a role sends to itself; senders and receivers of one and two
dimensions, with and without ranges, and one index of each class; groups that are empty, that
match and that do not, lists in which a group is between two roles, and a group that sends
to an array; choices of an ordinary role, of an array and of none; two statements in sequence show
the order, two blocks the nesting. In `containers` a clash needs two objects of one
kind and their container; three rules for two roles, or three of one role, have
each order in which a lookup can go wrong; an alias that takes a name, or is refused one, needs two
imports, and four leave room for a third claim or for a second container. In `printing`
four statements give three levels, a block beside a block, and a statement after a
nested block; the second tree shows what the first leaves in the printer.

**Deadlock** is checked in `expressions` and `parameterised`, where a finished call is
a step that changes nothing. In `Projection` a finished or crashed traversal has no step, and in
`Ownership`, `Containers` and `Printing` the program is cut off by the bounds, so these configurations turn the
check off; for projection `Terminates` covers it.

**Fairness.** `Projection!FairSpec` and `ParamProjection!FairSpec` have weak fairness of
the whole next step, and nothing else has any. The visitor is one thread that waits for nothing, so it takes a step while
it has one. No fairness of a single action is assumed.

## 4. Properties

*Projection.* `StackDiscipline`: the visitor's stack is the root and exactly the
nodes of the active visits, all of them blocks. `SinglePlace`: each allocated node
is on the stack or the child of one older node, once. `SiblingOrder`: children stand
in the order of their sources. `PrefixProjected`: at every moment exactly the
relevant statements of what has been visited are in the output. `AppendOnly` is
about steps. `ImplementsLocalType` is the refinement: an answer, if there is one, is the local
type, and undefined behaviour comes only of a tree that lacks a role. `Terminates`: there is
an answer, or that undefined behaviour.

*Ownership.* The library does share and leak, so the properties say where and
nowhere else. `SharingConfined`: an object with two owners is a payload, the role of a
choice, the condition of an if, an expression of a loop, or an index that Rule 9 has
passed on, and never one the program keeps. `LeakConfined`: an object without owner was
written over by `set_child`, `set_cond` of an if or `set_msg` of an allreduce, left
behind by Rule 9, or taken over through a pointer no destructor follows.
`DanglingConfined`: a pointer to a freed object is one of the shared ones.
`CallerKeeps`, an action property: what the program has not given away exists as long as it
does not delete it, and of the conditions it has set and keeps only `set_cond` of the interaction
that has it frees one: no other setter, no destructor, clone or projection. That `set_cond` does so is a
hazard for a program that follows the test, and named in the property. `UndefinedConfined`: what is freed twice, or read after it was freed by an earlier call,
is shared or a condition the program keeps; the one other use after free is a setter that is given
the part it replaces.

*Expressions.* `StackBalanced`: no result is pending when a visit begins and one (a
pair in `ExprApply`) when it ends, unless an error was met. `EvalSound`: an
expression and its simplification have the same value, or none, for all values of
the variables. `EvalCanonical`: no operator of constants is left. `ApplySound`: the
ends of the result are the expression at the ends of the range and enclose it in
between. `InvertSound`: for expressions of the documented kind the inverse applied
to the value gives the index back. `UndefinedExplained`: undefined behaviour has
one of the known causes. `TextReadsBack`: the text of an expression reads back as that
expression exactly if no operand lacks brackets it needs (`NeedsBrackets`): a product,
quotient or remainder on the right of one, a shift on the right of a shift, a shift in
anything else; the printer brackets sums and differences only.

*Parameterised projection.* `Participates`: no send or receive without the endpoint,
none missing, one receive per matching receiver that hears the sender (`Hearing`). Rules 6 and 7,
for a sender without indices, which the code calls a group although it may be an ordinary
role, ask for a group at the other end too: what such a sender, group or not, sends to a plain
array is left out of the array's local type (`parameterised/util/project.h:178`), and this is the
only gap. `ReceivesFirst`: the
nodes of one interaction come after each other in the order in which a chain of
processes needs them. `ConditionFits`: a statement of an array has a condition with as
many indices as the endpoint, except where Rule 9 takes the dimensions of a sender
that has fewer. `StopsExplained`: a projection is cut short only by a role that was never set, by
an index of a receiver that Rule 9 misses, cannot apply, evaluate or invert, or by a logarithm in
what is copied. `StructureKept`: what is missing from a result. `SameAsOrdinary`: where all roles are ordinary, and none
sends to itself, the result is `LocalTypeOf` (for a role that sends to itself the two
visitors differ: here the receive is kept, there the send). `Terminates`: each call
ends, in a result or where `StopsExplained` says.

*Containers.* `FirstWins`: an entry is what was first claimed under that key, as name or
alias, whatever is added or renamed later. `LeaksExplained`: the objects nobody will
delete are exactly those whose name was taken, and sessions left to a module with
what they own. `FreedOnce`: nothing is deleted twice and no owning pointer dangles.
`UsesExplained`: printing reads freed memory only through an endpoint or a member of a
group that the session does not own. `LookupExplained`: the indices from 0 lead to the
rules of a role exactly if the first rule of all is of that role; else index 0 leads to
another role's rule and each of its own is found one index later. (`FreedOnce` has one
exception, which the rules bring: the role of two rules is deleted for each of them.)

*Printing.* `LinesInOrder`: statements come in the order of the protocol, each once,
none left out but those in interruptible blocks, and numbers run on from tree to tree.
`NestingShown`: indentation tells the block a statement is in, for `Print` only when the
root is the one plain block; the printer ends at the level it began at.
`BracketsMatch`: between the brackets of a block is exactly what is below it.
`StopsExplained`: a print stops at the first statement that shows a pointer that is null,
and only there.

## 5. Findings

1. A projected interruptible block contains a copy of all of its original
   children as well (`util/project.h:140`).
2. A branch that is a block of several statements becomes several branches
   (`util/project.h:57`).
3. The copy of a block of any class answers `ST_NODE_ROOT` (`node/block.h:31`).
4. Copies of a message share payloads, and copies and projections of a choice
   share the role that chooses, which each of them deletes (`msg.h:92`,
   `node/choice.h:36`, `util/project.h:87`).
5. Inversion of `a * x` continues with `a` (`expr_invert.h:126`).
6. `interrupt_msg(role, 0)` returns the first rule of any role
   (`node/interruptible.h:134`); `throw_msg` and `catch_msg` too.

Seen on the way, and part of the models: `set_cond` of an interaction deletes the condition it
replaces (`parameterised/node/interaction.h:53`), the destructor none, and `tests/node.cc:115-120`
deletes it itself, so that a program that does as the test does frees a condition twice once it has
replaced it; `add_payload` makes an ordinary payload of one
with indices, because `parameterised/msg.h` does not override `clone()` (and its copy
constructor iterates over the empty vector of the copy, line 41); `Print` shows the number
of role arguments of a nested session as that of its arguments and the other way round
(`util/print.h:141,146`); a right shift is inverted by a division where the comment says a
multiplication (`expr_invert.h:175`); the C accessors of labels and names return
`c_str()` of a temporary (`src/api/recur_node.cc:21`); a group "contains" a role only if
every member matches it (`role_grp.h:74-85`); `st_expr_print` is declared and not defined
(`expr_print.h:139`).

## 6. Proofs

For any set of roles and any set of pre-order trees (`RolesAssumption`,
`ProtocolsAssumption`), the five invariants of `Projection` that TLC checks, its action
property and the refinement are proved.

* `TypeCorrect`: `Spec => []TypeOK`. The type invariant is inductive: a position on
  the stack, in a frame or in a list of children is that of an allocated node.
* `StackSafe`: `Spec => []StackDiscipline`. It is inductive together with `TypeOK`.
  The step that matters is `Return`: the frame on top owns the largest element of
  `Pushed`, hence the top of the stack, because both sequences increase; popping
  one and dropping the other keeps the sets equal. A block below the root is left
  on top, which is why the dynamic casts succeed.
* `OneOwner`: `Spec => []SinglePlace`, from `StackSafe`: a new leaf becomes a child of
  the top of the stack, a new block goes on the stack, and `Return` moves the top of
  the stack into the list of the block below it, which is older.
* `InOrder`: `Spec => []SiblingOrder`. The half about the stack is the strengthening of
  the half about lists: `Return` appends the top of the stack to the list of the block
  below, and all that is in that list is older than it.
* `OnlyAppends`: `Spec => AppendOnly`, step by step from `StackSafe`: the node that gets a
  child is the top of the stack, or the one below it.
* `PrefixSafe`: `Spec => []PrefixProjected`. `PrefixProjected` is not inductive: it does not
  say which statement is called next. The strengthening `Frontier` does, about the call
  stack alone: what is due in an inner frame comes before what is due in an outer one
  (`InnerFirst`), all of it after the nodes of the frames (`AfterNodes`), and a child of
  a visited statement is visited or due (`NoneSkipped`). So the statement that is called is
  the least one pending, and the one after it in pre-order is its first child or was
  pending already: a call visits that one statement and no other (`CallVisits`).
* `WholeAtTheEnd`: when the traversal is over, the local type has one node for each statement
  the endpoint takes part in or that gives structure, and none for any other.
* `Refinement`: `Spec => ImplementsLocalType`. `PrefixSafe` says which statements have a node,
  and not where. The strengthening `PlaceInv` does: each frame is that of a block right below
  the nearest block kept by the frames before it (`FramesNest`), each node on the stack belongs
  in the one before it, and the next statement in the top (`StackNests`), each child is below
  the nearest block that is kept (`KidsPlaced`), and each node has the class and the parties of
  its source (`NodesShaped`). With it goes `SoundSoFar`: no visited statement lacks a role
  before the crash. `NearestKid` is the fact about trees behind the steps: the nearest kept
  block of a child is its parent, or that of its parent if that is a plain block. At the end
  the children of a node are then the statements it is the nearest kept block of, and by
  `InOrder` and `PrefixSafe` their sources rise; a rising sequence of all members of a set is
  the set in order (`OrderedUnique`), which is what `LocalType` lists. The step that finishes
  or crashes maps to the one step of `LocalType`, all others to stutters.

Each of these proofs has a lemma for the initial state and one per kind of step (`Emit`,
`Enter`, a step that leaves the output alone, `Return`), and the theorem combines
them.

For any set of names and any set of programs (`NamesAssumption`, `HeapsAssumption`), all
invariants of `Containers` are proved, the first three from one inductive invariant,
`IInv` of `ContainersProofs`: the types, what kind of object is where (`KindsOK`), and the
ownership (`Owners`), which says more than `FreedOnce`. The program owns only objects that
live (`MineLives`), a container only objects that live and are not the program's
(`HeldLives`), two containers none in common (`HeldByOne`), and a container each object
once, except for the role of two of its rules (`HeldOnce`). There is one lemma per action.

* `Types`: `Spec => []TypeOK`.
* `EachFreedOnce`: `Spec => []FreedOnce`. A destructor frees what nobody else owns, so the
  ownership of what is left stays. If all it deletes are different objects, there are as
  many deletes as objects (`DeletesCount`), and no double free; if not, `HeldOnce` gives the
  two rules. `AddRule` moves the rules after the new one up, which neither joins nor parts
  two rules with one role.
* `ReadsAfterFree`: `Spec => []UsesExplained`. The entries of a session are owned by it and
  live; what else `st_param_tree_print` reads is the endpoint or a member of a group.
* `LostExactly`: `Spec => []LeaksExplained`, from `IInv` and the balance `Account` of what was
  passed to containers. The entries of a live container are those of the names that were
  asked for, and no owning one is of a refused object (`Listed`); so an object that is
  passed gets an owner exactly if it is not refused. A live object is the program's, or held
  by a live container, or a session, or was refused (`Placed`). A destructor frees no
  other container (`HeldKinds`), so what is held stays held until it is freed.

* `FirstStays`: `Spec => []FirstWins`, from the same invariants. A key is in the map of a live
  container exactly if it was claimed there (`TakenClaimed`, from `Listed`), so the insert of
  a name does nothing exactly when its claim is not the first. An object that is passed
  makes the two latest claims, name before alias, and no earlier claim stops being the first.
* `LookupRight`: `Spec => []LookupExplained`, from the types alone, as it holds for every
  sequence of rules. The function by which the lookup is defined is recursive; that it is
  unique is shown by the least number at which two of them would differ (`LookupHops`),
  and a search leads from one rule of the role to the next (`FoundNext`).

For any set of expressions and ranges, any width of `int` and whatever `HasVar` and `HasLog`
answer, one invariant of `ExprVisitors` is proved: `ResultsTaken`, `Spec => []StackBalanced`. Its
strengthening `Waiting` says of the call stack that every visit but the innermost waits for
an operand, that `ExprInvert` has only visits that have just begun, and that no visit of
`ExprApply` begins after an error; so a visit that ends finds below it one that waits for
its result.

For any set of roles, any endpoints and any set of pre-order trees, all of the invariants of
`ParamProjection` are proved, from one inductive invariant, `IInv` of
`ParamProjectionProofs`, and a second one that needs it, `ShapeInv`. As the call stack is a continuation, it is about `rest`: the calls to
come stand in the order of the global type (`RestRises`), and the parent of each of them
precedes all calls that come before it (`HoldersBehind`). These two are what makes the tree
matter: they say that the statement that is called is the least one to come, so that a
call removes from `Pending` that one statement, or with a dropped block all below it, and
nothing else (`VisitedGrows`).

* `TypeCorrect`: `Spec => []TypeOK`. The closings in `rest` are counted (`ClosingsPushed`); the
  call of a block adds one and pushes one, a closing takes one of each away.
* `ParticipationKept`: `Spec => []Participates`. `Handled` says what nodes each visited
  statement has; the sources of all nodes precede what is to come (`SourcesBehind`), so the
  nodes of the statement that is called are those of this one call, and `NodesGood` counts
  the receives and sends among them for each of the rules.
* `OrderKept`: `Spec => []ReceivesFirst`. A block is appended when it is closed, and what was
  appended meanwhile to the block above it is nothing; `StackRises` and `KidsBehind` relate the
  open blocks to what is already in them.
* `ConditionsFit`: `Spec => []ConditionFits`. `NodesFit` holds of every node, by the rule that
  made it (`ReceiveFacts`, `SendFacts`).
* `StopsJustified`: `Spec => []StopsExplained`, as the receivers of Rule 9 are looked at one by one, and
  a node that is copied for them, or for any other rule, is looked at first.
* `StructureComplete`: `Spec => []StructureKept`. No call to come is below a dropped block
  (`NotLost`), so no node was made for what is (`SourcesKept`); the rest is in `Handled`.
* `OrdinarySame`: `Spec => []SameAsOrdinary`. What `LocalType` says without a traversal is where
  each statement ends up, and `IInv` says nothing of that; `ShapeInv` does. Each node but the
  root has the class of its statement (`NodesShaped`), and for an ordinary endpoint it is the
  only one (`OneEach`). The calls to come have levels on the stack, which fall by one at each
  closing: the block at the level of a call is that of the nearest statement above it that
  is not a plain block (`RestNests`, kept by `LevelsAfter`). The same holds of each open block
  and the one below it on the stack (`StackNests`), and of each child and its parent
  (`KidsPlaced`). No child is there twice (`KidsDiffer`), and every node but the root is a child
  or open (`AllPlaced`). At the end nothing is open and nothing is to come, so that the
  children of a node are the statements `LocalType` puts there (`KidsAnswer`), in the order of the
  tree by `ReceivesFirst` and `OneEach`, and a rising list is determined by its elements
  (`OrderedUnique`). An ordinary role matches only itself (`MatchesSelf`), so `Handled` gives
  exactly what takes part (`EndKept`, `MadeAnswer`).

For any set of pre-order trees (`TreesAssumption`), in any order and number given to one
printer, all invariants of `Printing` are proved, from one inductive invariant, `IInv` of
`PrintingProofs`. Its first part is about the calls to come: they stand in pre-order, and a
closing comes after all that is in its block (`CallsRise`); everything a call is in is still
to be closed (`ClosesAbove`); so the level of the printer is the depth of the next call
(`Level`). The second part relates calls and
lines: what has a line precedes what is to come (`LinesBehind`), nothing is to come in what is
closed (`Closed`), while something is to come in a block all new lines are about what is in it
(`Inside`), and what was visited has its lines (`Stated`, `Opened`). The third part is about
lines alone, and outlives a print that stops: `Rise`, `NoneMissed`, `Pairs`, `Nested`. Two lemmas
carry the steps: `CallsKept` for what a step does to the calls and `LinesKept` for the
line it adds; each of the nine actions then has a short lemma that combines them.

* `TypeCorrect`: `Spec => []TypeOK`. That the level stays in `Nat` needs `Level`.
* `OrderShown`: `Spec => []LinesInOrder`, from `Rise`, `NoneMissed` and `Stated`, with the numbers
  by themselves (`Numbering`: the next number is one more than the last line's, or one).
* `BracketsRight`: `Spec => []BracketsMatch`, from `Pairs`, `LineFits` and `Opened`.
* `NestingRight`: `Spec => []NestingShown`. Lines between that of a block and that of a statement
  right in it are about what is in the block (`Nested`), hence indented at least as far as the
  statement (`DepthFacts`); so the line of the block is the nearest one indented less (`Nearest`).
* `StopsRight`: `Spec => []StopsExplained`, which is inductive with the types.

For any set of programs (`ProfilesAssumption`), whatever their bounds, the five invariants of
`ownership` and `CallerKeeps` are proved of `ParamSpec`, from one inductive invariant, `IInv` of `OwnershipProofs`.
The four about owners are not inductive: whether a destructor frees something twice depends on who points
to everything it reaches. `IInv` says that as long as all is defined the heap is `Safe`:

* `Formed`: pointers lead to objects their class may hold, an object has no pointer twice, a freed one
  none, an interaction exactly one message.
* `Separate`, `Held`, `Pointed`: two objects point to the same one, or one to a freed one, only
  where copies share; what the program has to delete lives and nobody else deletes it.
* `Accounted`, `Conditions`: what lives is the program's, lost, or some object's; the condition of an
  interaction lives, unless it is one the program keeps, and no other object borrows or owns it; nor
  does any object own a condition the program keeps.
* `Acyclic`: no node is in itself and no expression is. Without it a clone could be in what it is
  cloned into, and what a setter deletes could be the object it is called on.

Sharing of indices is the delicate case. It is allowed once Rule 9 has left a sender behind, and
must stay allowed: `Relic` is such a sender that nobody holds, so no call can reach, edit or free it.

The argument for a step is the same for all calls. `StepIsSafe` says when one heap follows from
another: an object that was freed had no owner left, or one that shares it; each new pointer leads
to something the program gave away, something new, or something shared. `EditStep` reduces that to
what is *new*, the objects allocated and the few the call edits. What is reached (by a destructor,
a clone, a walk) is defined by a recursive function on sets of objects; `ReachedIsClosure` shows, by
the least number of objects not yet met, that it is the least set closed under the pointers
followed, and after that the recursion is never looked at again. A clone or a projection
allocates a *family*: the pair <<n, m>> stands for the copy of m made at statement n (`Family`), and
each member points to copies made at the same n, to what is shared, or to the node of a
statement whose holder it is (`PointsAs`, `BorrowsAs`); `FamilyStep` says that such a heap
is safe. `CloneStep` applies it to one clone, `WalkStep` to a walk that keeps some statements and
stops at others, which is how both visitors go through a tree, `MessageSafe` to the copy of a message
and its condition, and `RelativeSafe` to Rule 9. On top of these each of the 38 actions has a
lemma of its own (`AddRcvrStep`, `SetMsgStep`, ..., `ProjectRelativeStep`).

* `ParamTypeCorrect`, `ParamSharingConfined`, `ParamDanglingConfined`, `ParamLeakConfined` follow
  from `Safe` while all is defined: two pointers counted by `Owners` are
  two objects (`PointersToFacts`), which `Separate` makes one that copies share.
* `ParamCallerKeeps`: `ParamSpec => CallerKeeps`. That what the program owns is there is `Held`. As
  no object owns a kept condition (`Unpointed`), no destructor meets one (`DeleteLeaves`), and
  what calls write, copy and allocate frees nothing (`Alive`): each call but `set_cond` and the
  program's own delete `Spares` the conditions it keeps (`OtherSpares`, one lemma per kind of call;
  for the projections part of the lemma of the step). `set_cond` frees at most the condition of its
  interaction (`CondFreed`).
* `ParamUndefinedConfined` says what a step does that is *not* safe, so it is part of `IInv`:
  what a destructor meets twice has two owners, or an owner that was left when it was freed
  (`TwiceConfined`), and what a clone finds freed was freed before or by the setter that clones
  (`WrongFacts`).

**Model-checked only** are the properties of `MCExprVisitors`, and `Terminates` of both projections.
What the three kinds of visitors of expressions compute (`EvalSound`, `EvalCanonical`,
`ApplySound`, `InvertSound`, `UndefinedExplained`, `TextReadsBack`) is defined by recursion over
expressions, and needs induction over data. Both `Terminates` are liveness under fairness.
These are out of the prover's reach.

## 7. Plan

Done: `Projection` with `LocalType`, its proofs and that of the refinement, `Ownership` and
`ParamOwnership` and their proofs, `ExprVisitors` with `ExprText` and its proof, `ParamProjection` and its proofs,
with its agreement with `LocalType`, `Containers` with the interrupt rules and its proofs, `Printing` and its
proofs. Nothing that the provers can reach is left of the properties that the runs check.

## 8. Not modelled

The values of constants, labels, scopes, names where nothing depends on them, and
flags: data that is stored and returned. The temporary expressions that the visitors
of expressions allocate and do not delete. The empty visitors and the abstract classes
`Node`, `Clonable` and the visitor interfaces, which have no state and no step. The tests and
the vendored test framework.
