---------------------------- MODULE MCContainers ----------------------------
(***************************************************************************)
(* Model checking of Containers: programs with a handful of objects each,  *)
(* for the maps of a session, for those of a module, for both, and for     *)
(* those of an interruptible block.                                        *)
(***************************************************************************)
EXTENDS Containers

CONSTANTS x, y

MCName == {x, y}
Of(kind, name)   == [kind |-> kind, name |-> name, as |-> NoName]
Import(name, as) == [kind |-> "Import", name |-> name, as |-> as]

\* All choices of n of the things listed, without regard to their order.
Some(list, n) ==
  LET chosen == {f \in [1..n -> DOMAIN list] : \A i \in 1..(n - 1) : f[i] <= f[i + 1]}
  IN {[i \in 1..n |-> list[f[i]]] : f \in chosen}

SessionHeaps == {<<Of("Session", x)>> \o h :
  h \in Some(<<Of("Role", x), Of("Role", y), Of("Group", x), Of("Node", NoName), Of("Session", x)>>, 3)}
ModuleHeaps  == {<<Of("Module", x)>> \o h :
  h \in Some(<<Import(x, NoName), Import(x, y), Import(y, x), Import(x, x), Import(y, NoName),
              Of("Const", x), Of("Session", x), Of("Module", x)>>, 4)}
BothHeaps    == {<<Of("Module", x), Of("Session", x), Of("Session", x), Of("Role", x)>> \o h :
  h \in Some(<<Of("Role", x), Of("Node", NoName)>>, 1)}
RuleHeaps    == {<<Of("Interruptible", NoName), Of("Role", x), Of("Role", y),
                   Of("Msg", NoName), Of("Msg", NoName), Of("Msg", NoName)>>}
MCHeaps == RuleHeaps \cup SessionHeaps \cup ModuleHeaps \cup BothHeaps
=============================================================================
