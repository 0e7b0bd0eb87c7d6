----------------------------- MODULE MCOwnership -----------------------------
(***************************************************************************)
(* Model checking of Ownership and ParamOwnership: one program after the   *)
(* other, each with a few classes that own one another.                    *)
(***************************************************************************)
EXTENDS ParamOwnership

Program(start, makes, clones, objects, keeps) ==
  [start |-> start, makes |-> makes, clones |-> clones,
   nests |-> "Interaction" \notin {o.kind : o \in Range(start)}, objects |-> objects, mine |-> keeps]
Plain(kind) == New(kind, 0, << >>)

Messages == Program(<<Plain("Payload"), Plain("Msg"), Plain("Role")>>,
                    {"Payload", "Interaction"}, {"Payload", "Msg", "Role", "Interaction"}, 8, 3)
Blocks   == Program(<<Plain("Role"), New("Choice", 1, << >>)>>,
                    {"Choice", "Nested"}, {"Role", "Choice", "Nested"}, 5, 2)
Recurs   == Program(<<Plain("Role")>>, {"Choice", "Recur"}, {"Choice", "Recur"}, 5, 2)
Rules    == Program(<<Plain("Interruptible"), Plain("Role"), Plain("Msg")>>,
                    {"Interruptible"}, {"Interruptible"}, 7, 3)

\* for with its expressions, if with its condition, allreduce with its message, oneof
\* with what it borrows, payloads and roles with indices, messages with conditions.
Fors     == Program(<<Plain("Expr"), New("For", 1, << >>), Plain("Expr")>>, {"Expr", "For"}, {"For"}, 6, 2)
Ifs      == Program(<<Plain("Role"), New("If", 1, << >>), Plain("Role")>>, {"If"}, {"If"}, 6, 2)
Reduces  == Program(<<Plain("Msg"), Plain("Block")>>, {"AllReduce"}, {"AllReduce"}, 6, 3)
Oneofs   == Program(<<Plain("Role"), Plain("Expr"), Plain("Block")>>, {"Oneof"}, {"Oneof"}, 6, 3)
Indices  == Program(<<Plain("Payload"), Plain("Expr"), Plain("Msg")>>, {"Expr"}, {"Expr", "Msg", "Payload"}, 7, 3)
Conds    == Program(<<New("Interaction", 4, <<2, 3>>), Plain("Msg"), Plain("Role"), New("Role", 0, <<5>>),
                      Plain("Expr"), Plain("Role"), Plain("Role")>>, {}, {"Interaction"}, 14, 3)

\* A message from W[x][y] to W[z][u], to which Rule 9 applies.
Relative == Program(<<New("Interaction", 3, <<2, 6>>), Plain("Msg"), New("Role", 0, <<4, 5>>), Plain("Expr"),
                      Plain("Expr"), New("Role", 0, <<7, 8>>), Plain("Expr"), Plain("Expr")>>,
                    {}, {}, 20, 3)
MCProfiles == {Messages, Blocks, Recurs, Rules, Fors, Ifs, Reduces, Oneofs, Indices, Conds, Relative}
=============================================================================
