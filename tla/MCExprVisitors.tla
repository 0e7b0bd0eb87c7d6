--------------------------- MODULE MCExprVisitors ---------------------------
(***************************************************************************)
(* Instances of ExprVisitors, what expressions mean, and what the visitors *)
(* must preserve of it.                                                    *)
(***************************************************************************)
EXTENDS ExprText, ExprSearch

MCNames == {"i", "N"}
Leaf    == {Val(0), Val(2), Var("i"), Var("N")}
Odd     == {Seq_, Log, Rng("j", Val(0), Var("i"))}

\* Every expression with one operator, and those with a second one below it
\* whose other operand is one of two leaves.
Simple   == {Bin(op, l, r) : op \in BinOp, l \in Leaf, r \in Leaf}
Compound == {Bin(op, l, r) : op \in BinOp, l \in Simple \cup Odd, r \in {Val(2), Var("N")}}
            \cup {Bin(op, l, r) : op \in BinOp, l \in {Val(2), Var("i")}, r \in Simple \cup Odd}
MCExprs  == Leaf \cup Odd \cup Simple \cup Compound
MCRanges == {Rng("i", Val(1), Var("N")), Rng("i", Val(0), Val(3))}

-----------------------------------------------------------------------------
\* The values an expression has: one, or none where evaluation is undefined.
RECURSIVE Values(_, _)
Values(e, env) ==
  CASE e.op = "val"   -> {e.num}
    [] e.op = "var"   -> {env[e.name]}
    [] e.op \in BinOp -> {Result(e.op, p[1], p[2]) :
                            p \in {q \in Values(e.l, env) \X Values(e.r, env) :
                                     IsDefined(e.op, q[1], q[2])}}
    [] OTHER          -> {}

RECURSIVE Parts(_)
Parts(e) == {e} \cup IF e.op \in BinOp \cup {"rng"} THEN Parts(e.l) \cup Parts(e.r) ELSE {}

Closed(e) == \A p \in Parts(e) : p.op \in {"val"} \cup BinOp
Envs      == [Names -> {-2, 0, 1, 3}]
At1(env, n) == [env EXCEPT ![bind.name] = n]

\* How often the bound variable occurs in an expression.
RECURSIVE Occurrences(_)
Occurrences(e) == CASE e.op = "var" -> IF e.name = bind.name THEN 1 ELSE 0
                    [] e.op \in BinOp \cup {"rng"} -> Occurrences(e.l) + Occurrences(e.r)
                    [] OTHER -> 0

\* expr with an end of the range for its variable.
RECURSIVE Subst(_, _)
Subst(e, end) == CASE e.op = "var" /\ e.name = bind.name -> end
                   [] e.op \in BinOp -> Bin(e.op, Subst(e.l, end), Subst(e.r, end))
                   [] OTHER -> e

Calculable(e) == \A p \in Parts(e) : p.op \in {"val", "var"} \cup BinOp

\* The shapes ExprInvert can invert: one occurrence, no %, nothing compound with
\* the variable right of *, nor it anywhere right of a shift or left of >>.
Invertible(e) ==
  /\ Calculable(e) /\ Occurrences(e) = 1
  /\ \A p \in Parts(e) :
       /\ p.op = "mod" => Occurrences(p) = 0
       /\ p.op = "mul" /\ Occurrences(p.r) = 1 => p.r.op = "var" /\ p.l.op \in {"val", "var"}
       /\ p.op = "shl" => Occurrences(p.r) = 0
       /\ p.op = "shr" => Occurrences(p) = 0

\* No step on the way from the variable to the value loses what the variable
\* was: nothing is multiplied by zero and no division has a remainder.
Lossless(e, env) ==
  \A p \in Parts(e) : Occurrences(p) = 1 /\ p.op \in {"mul", "div", "shl"} =>
    \A a \in Values(p.l, env), b \in Values(p.r, env) :
      /\ a # 0 /\ (p.op # "shl" => b # 0)
      /\ p.op = "div" => a = b * Quotient(a, b)

-----------------------------------------------------------------------------
Returned == status = "returned"

\* Evaluation does not change what an expression means, whatever the variables
\* are: ExprEval simplifies the expression of st_expr_eval, or both ends of the
\* range that ExprApply hands it, to one of the same value or equally undefined.
EvalSound ==
  Returned /\ answer.eval # Null =>
    LET input == IF answer.apply # Null THEN answer.apply ELSE expr
        Same(a, b) == \A env \in Envs : Values(a, env) = Values(b, env) IN
    IF input.op = "rng" THEN Same(input.l, answer.eval.l) /\ Same(input.r, answer.eval.r)
    ELSE Same(input, answer.eval)

\* "Simplify mathematical expressions and return a canonical form": no operator
\* with two constant operands is left anywhere, and no operator of constants
\* only, so evaluating again changes nothing.
EvalCanonical ==
  Returned /\ answer.eval # Null =>
    \A p \in Parts(answer.eval) : p.op \in BinOp => ~Closed(p)

\* apply(b, e) is the range of e over the range b: its ends are e at the ends of
\* b and, where e is monotone in its one occurrence of the variable, e at any
\* other index of b lies between them.
ApplySound ==
  Returned /\ answer.apply # Null =>
    \A env \in Envs :
      LET from == Values(answer.apply.l, env)
          to   == Values(answer.apply.r, env)
          E(n) == Values(expr, At1(env, n)) IN
      /\ \A n \in Values(bind.l, env) : from = E(n)
      /\ \A n \in Values(bind.r, env) : to = E(n)
      /\ Invertible(expr) /\ (\A p \in Parts(expr) : p.op = "div" => Occurrences(p.r) = 0) =>
           \A a \in Values(bind.l, env), b \in Values(bind.r, env) : \A n \in a .. b :
             \A f \in from, t \in to, v \in E(n) : v \in f .. t \cup t .. f

\* An inverted expression is an inverse: where e is invertible, applying what
\* invert() returns to e at an index gives that index back.  Rule 9 relies on it
\* to name the sender a receiver hears from.
InvertSound ==
  Returned /\ answer.invert # Null /\ Invertible(expr) =>
    \A env \in Envs : Lossless(expr, env) =>
      \A y \in Values(expr, env) :
        Values(answer.invert, At1(env, y)) = {env[bind.name]}

\* A visitor runs into undefined behaviour only for an expression with a part
\* that it does not support, for arithmetic of constants that is undefined, or
\* in projection for an expression that it cannot invert.
UndefinedExplained ==
  status = "undefined" =>
    \/ ~Calculable(expr)
    \/ \E e \in {expr, Subst(expr, bind.l), Subst(expr, bind.r)} :
         \E p \in Parts(e) : Closed(p) /\ Values(p, << >>) = {}
    \/ answer.eval # Null /\ ~Invertible(expr)

\* The printed text of an expression, of what ExprEval simplifies it to and of its
\* inverse, is read as that very expression unless an operand needs the brackets
\* that only sums and differences get: a product or quotient on the right of one, a
\* shift on the right of a shift, a shift in anything else.
NeedsBrackets(e) ==
  \E p \in Parts(e) : p.op \in BinOp /\
    \/ p.r.op \in BinOp \ {"add", "sub"} /\ Binding(p.r.op) <= Binding(p.op)
    \/ p.l.op \in BinOp \ {"add", "sub"} /\ Binding(p.l.op) < Binding(p.op)
TextReadsBack ==
  Returned =>
    \A e \in {expr, answer.eval, answer.invert} : Calculable(e) =>
      (Reading(TextOf(e)) = e <=> ~NeedsBrackets(e))

-----------------------------------------------------------------------------
\* expr_invert.h: "find which binary branch has variable and peel off the other
\* branch until var is reached".  The visit that ends the peeling is at the
\* variable.
InvertReachesVar ==
  Running("invert") /\ At("enter", {"val", "var", "seq", "rng"}) /\ HasVar(bind.name, expr) =>
    HasVar(bind.name, Cur.node)
=============================================================================
