---------------------------- MODULE ExprVisitors ----------------------------
(***************************************************************************)
(* The visitors that compute with parameter expressions: ExprApply,        *)
(* ExprEval and ExprInvert, alone, as the C API calls them, and one after  *)
(* the other, as projection of a parameterised interaction calls them to   *)
(* relate the indices of its sender to those of its receiver (Rule 9).     *)
(*                                                                         *)
(* One step is one visit up to its next accept, or what it does after that *)
(* accept returns.  frames holds the C++ call stack with the local         *)
(* variables of the visits; stack_ the visitor's own stack of results.     *)
(***************************************************************************)
EXTENDS Integers, Sequences

CONSTANTS Names,       \* variable names
          MaxInt,      \* an int is in -MaxInt-1..MaxInt
          Width,       \* its number of bits
          Exprs,       \* expressions that may be visited
          Ranges,      \* ranges with a bound variable that may be applied
          HasVar(_, _), \* has_var of ExprInvert: is the variable in the expression
          HasLog(_)    \* does clone() of the expression dereference null

ASSUME WidthAssumption == Width \in Nat \ {0} /\ MaxInt = 2 ^ (Width - 1) - 1

BinOp == {"add", "sub", "mul", "div", "mod", "shl", "shr"}

\* Expressions.  A LogExpr has no parts: its constructor leaves both null.
Val(n)          == [op |-> "val", num |-> n]
Var(x)          == [op |-> "var", name |-> x]
Bin(op, l, r)   == [op |-> op, l |-> l, r |-> r]
Rng(x, from, to) == [op |-> "rng", name |-> x, l |-> from, r |-> to]
Seq_            == [op |-> "seq"]
Log             == [op |-> "log"]
Null            == [op |-> "null"]

VARIABLES plan,      \* the visitors still to run, the running one first
          bind,      \* the range that is applied
          expr,      \* the expression
          frames,    \* active visits
          stack_,    \* results: of ExprEval, or pairs from from_ and to_ of ExprApply
          error_,    \* error_ of the running visitor
          reversed_, \* of ExprInvert
          answer,    \* what apply(), eval() and invert() returned
          status     \* "running", "returned", or "undefined" behaviour

vars == <<plan, bind, expr, frames, stack_, error_, reversed_, answer, status>>

-----------------------------------------------------------------------------
\* int arithmetic.  / and % truncate towards zero, >> of a negative int is
\* arithmetic.  Everything else that is not an int is undefined.
Magnitude(a) == IF a < 0 THEN -a ELSE a
Quotient(a, b) ==
  IF (a < 0) = (b < 0) THEN Magnitude(a) \div Magnitude(b) ELSE -(Magnitude(a) \div Magnitude(b))
Result(op, a, b) ==
  CASE op = "add" -> a + b
    [] op = "sub" -> a - b
    [] op = "mul" -> a * b
    [] op = "div" -> Quotient(a, b)
    [] op = "mod" -> a - b * Quotient(a, b)
    [] op = "shl" -> a * 2 ^ b
    [] op = "shr" -> a \div 2 ^ b
IsInt(n) == -MaxInt - 1 <= n /\ n <= MaxInt
IsDefined(op, a, b) ==
  /\ op \in {"div", "mod"} => b # 0 /\ IsInt(Quotient(a, b))
  /\ op \in {"shl", "shr"} => b >= 0 /\ b < Width
  /\ op = "shl" => a >= 0
  /\ IsInt(Result(op, a, b))

-----------------------------------------------------------------------------
Frame(e, pc, local) == [node |-> e, pc |-> pc, local |-> local]
Cur     == frames[Len(frames)]
Callers == SubSeq(frames, 1, Len(frames) - 1)
At(pc, ops) == status = "running" /\ frames # << >> /\ Cur.pc = pc /\ Cur.node.op \in ops
Running(v)  == plan # << >> /\ plan[1] = v

Undefined == status' = "undefined" /\
             UNCHANGED <<plan, bind, expr, frames, stack_, error_, reversed_, answer>>

\* Mutants of Answered: the result of a leaf is pushed twice, or not at all.
AnsweredTwice(result) ==
  stack_' = stack_ \o <<result, result>> /\ frames' = Callers
AnsweredNothing(result) == stack_' = stack_ /\ frames' = Callers

\* A visit ends with its result on the stack.
Answered(result) == stack_' = Append(stack_, result) /\ frames' = Callers

\* ExprEval at a leaf; a sequence is cloned like the others (invalid_, which it
\* also sets, is read by no caller).
EvalLeaf ==
  /\ Running("eval") /\ At("enter", {"val", "var", "seq"})
  /\ Answered(<<Cur.node>>)
  /\ UNCHANGED <<plan, bind, expr, error_, reversed_, answer, status>>

\* Mutant of ApplyLeaf: both results take the first end of the range.
ApplyLeafFrom ==
  /\ Running("apply") /\ At("enter", {"val", "var"})
  /\ IF Cur.node.op = "var" /\ Cur.node.name = bind.name
     THEN Answered(<<bind.l, bind.l>>)
     ELSE Answered(<<Cur.node, Cur.node>>)
  /\ UNCHANGED <<plan, bind, expr, error_, reversed_, answer, status>>

\* ExprApply at a leaf: the bound variable gives way to both ends of the range.
ApplyLeaf ==
  /\ Running("apply") /\ At("enter", {"val", "var"})
  /\ IF Cur.node.op = "var" /\ Cur.node.name = bind.name
     THEN Answered(<<bind.l, bind.r>>)
     ELSE Answered(<<Cur.node, Cur.node>>)
  /\ UNCHANGED <<plan, bind, expr, error_, reversed_, answer, status>>

\* ExprApply gives up on sequences, ranges and logarithms, and leaves no result
\* for the visit that called it.
ApplyError ==
  /\ Running("apply") /\ At("enter", {"seq", "rng", "log"})
  /\ error_' = TRUE /\ frames' = Callers
  /\ UNCHANGED <<plan, bind, expr, stack_, reversed_, answer, status>>

\* ExprEval and ExprInvert call accept on the null value of a logarithm.
VisitLog ==
  \E v \in {"eval", "invert"} : Running(v) /\ At("enter", {"log"}) /\ Undefined

Inner == IF Running("eval") THEN BinOp \cup {"rng"} ELSE BinOp

\* lhs()->accept, or from()->accept of a range.
EnterLeft ==
  /\ Running("eval") \/ Running("apply")
  /\ At("enter", Inner)
  /\ frames' = Append(Append(Callers, Frame(Cur.node, "left", << >>)), Frame(Cur.node.l, "enter", << >>))
  /\ UNCHANGED <<plan, bind, expr, stack_, error_, reversed_, answer, status>>

\* top() and pop() for the left operand, then rhs()->accept.
TakeLeft ==
  /\ At("left", Inner)
  /\ \/ stack_ = << >> /\ Undefined
     \/ /\ stack_ # << >>
        /\ stack_' = SubSeq(stack_, 1, Len(stack_) - 1)
        /\ frames' = Append(Append(Callers, Frame(Cur.node, "right", stack_[Len(stack_)])),
                            Frame(Cur.node.r, "enter", << >>))
        /\ UNCHANGED <<plan, bind, expr, error_, reversed_, answer, status>>

\* Mutants of Folded: the operands of an expression that stays are swapped, and
\* constants are not folded.
FoldedSwapped(op, a, b) ==
  IF a.op = "val" /\ b.op = "val" THEN Val(Result(op, a.num, b.num)) ELSE Bin(op, b, a)
NotFolded(op, a, b) == Bin(op, a, b)

\* The result of ExprEval for operands a and b.
Folded(op, a, b) ==
  IF a.op = "val" /\ b.op = "val" THEN Val(Result(op, a.num, b.num)) ELSE Bin(op, a, b)
Foldable(op, a, b) == a.op = "val" /\ b.op = "val" => IsDefined(op, a.num, b.num)

\* top() and pop() for the right operand, and the result of the visit.
TakeRight ==
  /\ At("right", Inner)
  /\ LET op == Cur.node.op
         a  == Cur.local
         b  == stack_[Len(stack_)]
         rest == SubSeq(stack_, 1, Len(stack_) - 1)
     IN
     \/ stack_ = << >> /\ Undefined
     \/ stack_ # << >> /\ Running("eval") /\ op # "rng" /\ ~Foldable(op, a[1], b[1]) /\ Undefined
     \/ /\ stack_ # << >>
        /\ frames' = Callers
        /\ \/ /\ Running("eval") /\ op = "rng"
              /\ stack_' = Append(rest, <<Rng(Cur.node.name, a[1], b[1])>>)
           \/ /\ Running("eval") /\ op # "rng" /\ Foldable(op, a[1], b[1])
              /\ stack_' = Append(rest, <<Folded(op, a[1], b[1])>>)
           \/ /\ Running("apply")
              /\ stack_' = Append(rest, <<Bin(op, a[1], b[1]), Bin(op, a[2], b[2])>>)
        /\ UNCHANGED <<plan, bind, expr, error_, reversed_, answer, status>>

-----------------------------------------------------------------------------
\* ExprInvert: y is what has been reversed so far, a the operand without the
\* variable; the variable is on the left, or on the right.
PeeledLeft(op, y, a) ==
  CASE op = "add" -> Bin("sub", y, a)
    [] op = "sub" -> Bin("add", y, a)
    [] op = "mul" -> Bin("div", y, a)
    [] op = "div" -> Bin("mul", y, a)
    [] op \in {"shl", "shr"} -> Bin("div", y, Bin("shl", Val(1), a))

\* Mutant of PeeledRight: a - x = y gives x = y - a.
PeeledRightAsAdd(op, y, a) ==
  CASE op \in {"add", "sub"} -> Bin("sub", y, a)
    [] op \in {"mul", "div"} -> Bin("div", y, a)
    [] op \in {"shl", "shr"} -> Log

PeeledRight(op, y, a) ==
  CASE op = "add" -> Bin("sub", y, a)
    [] op = "sub" -> Bin("sub", a, y)
    [] op = "mul" -> Bin("div", y, a)
    [] op = "div" -> Bin("div", a, y)
    [] op \in {"shl", "shr"} -> Log

\* visit of a binary expression other than %: peel off the operand without the
\* variable.  For a variable on the right of * the left operand is visited next.
InvertPeel ==
  /\ Running("invert") /\ At("enter", BinOp \ {"mod"})
  /\ LET e == Cur.node
         left == HasVar(bind.name, e.l)
         peeled == IF left THEN e.r ELSE e.l
         next == IF left \/ e.op = "mul" THEN e.l ELSE e.r IN
     /\ left \/ HasVar(bind.name, e.r)
     /\ \/ HasLog(peeled) /\ Undefined
        \/ /\ ~HasLog(peeled)
           /\ reversed_' = IF left THEN PeeledLeft(e.op, reversed_, peeled)
                           ELSE PeeledRight(e.op, reversed_, peeled)
           /\ frames' = <<Frame(next, "enter", << >>)>>
           /\ UNCHANGED <<plan, bind, expr, stack_, error_, answer, status>>

InvertError ==
  /\ Running("invert")
  /\ \/ At("enter", {"mod", "seq", "rng"})
     \/ At("enter", BinOp) /\ ~HasVar(bind.name, Cur.node)
  /\ error_' = TRUE /\ frames' = << >>
  /\ UNCHANGED <<plan, bind, expr, stack_, reversed_, answer, status>>

\* visit(VarExpr *) and visit(ValExpr *) do nothing.
InvertLeaf ==
  /\ Running("invert") /\ At("enter", {"val", "var"})
  /\ frames' = << >>
  /\ UNCHANGED <<plan, bind, expr, stack_, error_, reversed_, answer, status>>

-----------------------------------------------------------------------------
Finished(v) == status = "running" /\ frames = << >> /\ Running(v)

\* The next visitor of the plan starts on e with its own fields; none is left.
Continue(e) ==
  /\ plan' = Tail(plan)
  /\ frames' = IF plan' = << >> THEN << >> ELSE <<Frame(e, "enter", << >>)>>
  /\ status' = IF plan' = << >> THEN "returned" ELSE "running"
  /\ stack_' = << >> /\ error_' = FALSE /\ reversed_' = Var(bind.name)
  /\ UNCHANGED <<bind, expr>>

\* apply(): null after an error, which projection hands to ExprEval.
FinishApply ==
  /\ Finished("apply")
  /\ \/ ~error_ /\ stack_ = << >> /\ Undefined
     \/ error_ /\ Len(plan) > 1 /\ Undefined
     \/ LET top == stack_[Len(stack_)]
            result == IF error_ THEN Null ELSE Rng(bind.name, top[1], top[2]) IN
        /\ error_ => Len(plan) = 1
        /\ ~error_ => stack_ # << >>
        /\ answer' = [answer EXCEPT !.apply = result]
        /\ Continue(result)

FinishEval ==
  /\ Finished("eval")
  /\ \/ stack_ = << >> /\ Undefined
     \/ /\ stack_ # << >>
        /\ answer' = [answer EXCEPT !.eval = stack_[Len(stack_)][1]]
        /\ Continue(expr)

\* invert(): projection adds the result to a role and clones that role, which
\* dereferences a null or a logarithm.
FinishInvert ==
  /\ Finished("invert")
  /\ LET result == IF error_ THEN Null ELSE reversed_ IN
     \/ answer.apply # Null /\ (result = Null \/ HasLog(result)) /\ Undefined
     \/ /\ ~(answer.apply # Null /\ (result = Null \/ HasLog(result)))
        /\ answer' = [answer EXCEPT !.invert = result]
        /\ Continue(expr)

\* st_expr_apply, st_expr_eval and st_expr_inv, and Rule 9.
Plans == {<<"apply">>, <<"eval">>, <<"invert">>, <<"apply", "eval", "invert">>}

Init ==
  /\ plan \in Plans /\ bind \in Ranges /\ expr \in Exprs
  /\ frames = <<Frame(expr, "enter", << >>)>> /\ stack_ = << >> /\ error_ = FALSE
  /\ reversed_ = Var(bind.name)
  /\ answer = [apply |-> Null, eval |-> Null, invert |-> Null]
  /\ status = "running"

Done == status # "running" /\ UNCHANGED vars

Next ==
  \/ EvalLeaf \/ ApplyLeaf \/ ApplyError \/ VisitLog
  \/ EnterLeft \/ TakeLeft \/ TakeRight
  \/ InvertPeel \/ InvertError \/ InvertLeaf
  \/ FinishApply \/ FinishEval \/ FinishInvert
  \/ Done

Spec == Init /\ [][Next]_vars

-----------------------------------------------------------------------------
\* The results a visit takes are the ones the visits below it left: none are
\* pending when a visit starts, and one, a pair in ExprApply, when it ends,
\* unless ExprApply gave up.  from_ and to_ are popped as if this were so.
StackBalanced ==
  status = "running" =>
    IF Running("invert") \/ error_ \/ (frames # << >> /\ Cur.pc = "enter") THEN stack_ = << >>
    ELSE Len(stack_) = 1 /\ Len(stack_[1]) = IF Running("apply") THEN 2 ELSE 1
=============================================================================
