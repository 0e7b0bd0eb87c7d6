------------------------------ MODULE ExprSearch ------------------------------
(***************************************************************************)
(* What ExprVisitors leaves open of an expression, by recursion over it.   *)
(***************************************************************************)
EXTENDS ExprVisitors

RECURSIVE has_var(_, _), has_log(_)
\* has_var of ExprInvert: it looks into binary expressions only.
has_var(x, e) == CASE e.op = "var"    -> e.name = x
                   [] e.op \in BinOp  -> has_var(x, e.l) \/ has_var(x, e.r)
                   [] OTHER           -> FALSE
\* clone() of an expression dereferences the null parts of a LogExpr.
has_log(e) == \/ e.op = "log"
              \/ e.op \in BinOp \cup {"rng"} /\ (has_log(e.l) \/ has_log(e.r))
=============================================================================
