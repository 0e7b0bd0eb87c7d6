-------------------------- MODULE MCParamProjection --------------------------
(***************************************************************************)
(* Model checking of ParamProjection: small trees over a catalogue of      *)
(* interactions between ordinary roles, arrays of roles and groups.        *)
(***************************************************************************)
EXTENDS ParamProjectionRefinement

A == "A"
B == "B"
C == "C"
W == "W"
Names == {A, B, C, W}

Array(name, dims) == [name |-> name, dims |-> dims, grp |-> FALSE, members |-> << >>]
Group(members)    == [name |-> A, dims |-> << >>, grp |-> TRUE, members |-> members]
AMember == [name |-> A, dims |-> << >>]
WMember == [name |-> W, dims |-> <<"range">>]

Alice   == Array(A, << >>)
Bob     == Array(B, << >>)
Carol   == Array(C, << >>)
Workers == Array(W, <<"range">>)
NextOne == Array(W, <<"expr">>)
Wrapped == Array(W, <<"mod">>)
Shares  == Array(W, <<"partial">>)
Listed  == Array(W, <<"seq">>)
Halves  == Array(W, <<"log">>)
Grid    == Array(W, <<"range", "expr">>)
Shifted == Array(W, <<"expr", "expr">>)

Senders   == {NoRole, Alice, Bob, Carol, Workers, NextOne, Halves, Grid, Group(<<WMember>>)}
ReceiverLists == {<<Alice>>, <<Bob>>, <<Bob, Alice>>,
                  <<NextOne>>, <<NextOne, Workers>>, <<Wrapped>>, <<Shares>>, <<Listed>>,
                  <<Alice, Halves>>, <<Grid>>, <<Shifted>>,
                  <<Alice, Group(<<WMember>>), NextOne>>, <<Group(<<AMember, WMember>>)>>,
                  <<Group(<< >>), NextOne>>, <<[Group(<<WMember>>) EXCEPT !.dims = <<"expr">>]>>}
MCEndpoints == {Alice, Array(W, << >>), Workers, Grid}

Statement(class, sndr, roles) == [class |-> class, sndr |-> sndr, roles |-> roles]
Messages == {Statement("Interaction", s, rs) : s \in Senders, rs \in ReceiverLists}
Blocks   == {Statement(c, NoRole, << >>) : c \in PushedClass \cup DroppedClass \cup {"Block"}}
            \cup {Statement("Choice", s, << >>) : s \in {Alice, Workers, Halves}}
            \cup {Statement("Interruptible", NoRole, <<Halves>>)}
Leaves   == {Statement(c, NoRole, << >>) : c \in LeafClass}
            \cup {Statement("Nested", NoRole, rs) : rs \in ReceiverLists}
Few      == {Statement("Interaction", Workers, <<NextOne>>), Statement("Interaction", Alice, <<Bob>>),
             Statement("Interaction", Halves, <<NextOne>>), Statement("Continue", NoRole, << >>)}

Node(s, kids) == [class |-> s.class, kids |-> kids, sndr |-> s.sndr, roles |-> s.roles]
Root(kids)    == Node(Statement("Block", NoRole, << >>), kids)

\* One statement after another; a block with one below it and one after it; two
\* blocks around one.
Pairs  == {<<Root(<<2, 3>>), Node(s, << >>), Node(t, << >>)>> :
             s \in Messages \cup Leaves, t \in Messages}
Nested == {<<Root(<<2, 4>>), Node(b, <<3>>), Node(s, << >>), Node(t, << >>)>> :
             b \in Blocks, s \in Messages, t \in Few}
Deep   == {<<Root(<<2>>), Node(b, <<3, 5>>), Node(c, <<4>>), Node(s, << >>), Node(t, << >>)>> :
             b \in Blocks, c \in Blocks, s \in Few, t \in Few}
MCProtocols == {SubSeq(g, 1, Len(g)) : g \in Pairs \cup Nested \cup Deep}
=============================================================================
