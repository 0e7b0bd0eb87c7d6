------------------------------- MODULE ExprText -------------------------------
(***************************************************************************)
(* The text of an expression, as ExprPrintVisitor of expr_print.h writes   *)
(* it, and as a reader takes it who knows the usual precedence of the      *)
(* operators.  A text is a sequence of tokens; numbers, names and the      *)
(* constants of a sequence are one token each.                             *)
(***************************************************************************)
EXTENDS ExprVisitors, FiniteSets

Token(text) == [op |-> text]

\* Mutant of Bracketed: the printer forgets the brackets around differences.
SumsOnly(op)  == op = "add"
Bracketed(op) == op \in {"add", "sub"}

RECURSIVE TextOf(_)
\* The visits, of an expression without logarithms: the parts of a logarithm are null.
\* The first end of a range follows the bound variable at once.
TextOf(e) ==
  CASE e.op \in {"val", "var", "seq"} -> <<e>>
    [] e.op = "rng" -> <<Var(e.name)>> \o TextOf(e.l) \o <<Token("..")>> \o TextOf(e.r)
    [] e.op \in BinOp /\ Bracketed(e.op) ->
         <<Token("(")>> \o TextOf(e.l) \o <<Token(e.op)>> \o TextOf(e.r) \o <<Token(")")>>
    [] e.op \in BinOp /\ ~Bracketed(e.op) -> TextOf(e.l) \o <<Token(e.op)>> \o TextOf(e.r)
-----------------------------------------------------------------------------
\* How tightly an operator binds; operators that bind alike associate to the left.
Binding(op) == CASE op \in {"mul", "div", "mod"} -> 3
                 [] op \in {"add", "sub"}        -> 2
                 [] op \in {"shl", "shr"}        -> 1

RECURSIVE Reading(_)
Reading(text) ==
  LET brackets(i, b) == Cardinality({j \in 1..(i - 1) : text[j].op = b})
      outer  == {i \in DOMAIN text : text[i].op \in BinOp /\ brackets(i, "(") = brackets(i, ")")}
      loose  == {i \in outer : \A j \in outer : Binding(text[i].op) <= Binding(text[j].op)}
      last   == CHOOSE i \in loose : \A j \in loose : j <= i
  IN CASE Len(text) = 1                 -> text[1]
       [] Len(text) > 1 /\ outer = {}   -> Reading(SubSeq(text, 2, Len(text) - 1))
       [] Len(text) > 1 /\ outer # {}   ->
            Bin(text[last].op, Reading(SubSeq(text, 1, last - 1)),
                Reading(SubSeq(text, last + 1, Len(text))))
=============================================================================
