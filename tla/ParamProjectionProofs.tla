------------------------- MODULE ParamProjectionProofs -------------------------
(***************************************************************************)
(* Proofs about ParamProjection, for every set of names, of protocols and  *)
(* of endpoints: types and the closings still to come, what the endpoint   *)
(* sends, receives and under which condition, the order of both, what is   *)
(* kept of the structure, why projection stops, and that ordinary          *)
(* protocols are projected as LocalType states it.                         *)
(***************************************************************************)
EXTENDS ParamProjectionRefinement, PreOrderProofs

\* IsSend and IsReceive, of a node wherever it is.
Sent(nd) == nd.class = "Interaction" /\ nd.sndr = NoRole /\ global[nd.src].sndr # NoRole
Got(nd)  == nd.class = "Interaction" /\ ~Sent(nd)

\* How many receives and sends an interaction becomes, as Participates has it.
HeardOf(n) == IF Ordinary THEN IF Len(Receivers(n)) > 0 THEN 1 ELSE 0
              ELSE Cardinality(Hearing(n))
SaidBy(n)  == IF SentBy(n) /\ (Ordinary => Len(Receivers(n)) = 0) THEN 1 ELSE 0

\* What Participates and ConditionFits ask of one node.
Fits(nd) ==
  nd.class = "Interaction" =>
    /\ nd.src \in DOMAIN global
    /\ Sent(nd) => SentBy(nd.src)
    /\ Got(nd) => Receivers(nd.src) # << >>
    /\ IF Ordinary THEN nd.cond = NoRole
       ELSE LET sndr == global[nd.src].sndr
                relative == Got(nd) /\ IsBindable(sndr) IN
            /\ nd.cond # NoRole
            /\ \/ Matches(nd.cond, endpoint)
               \/ relative /\ Len(sndr.dims) < Len(endpoint.dims)
               \/ relative /\ \E r \in Range(Receivers(nd.src)) : r.grp /\ nd.cond = AppliedRole(sndr, r)
-----------------------------------------------------------------------------
\* The inductive invariant.  The calls still to come stand in the order of the global
\* type, and the statement that holds one of them precedes all that come before it.
ToCome        == {i \in DOMAIN rest : rest[i] # Close}
RestRises     == \A i, j \in ToCome : i < j => rest[i] < rest[j]
HoldersBehind == \A i, j \in ToCome, p \in DOMAIN global : \A k \in DOMAIN global[p].kids :
                   i < j /\ global[p].kids[k] = rest[j] => p < rest[i]
\* No call to come is below a block that is dropped, and no node was made for one.
NotLost       == \A i \in ToCome, d \in DOMAIN global :
                   global[d].class \in DroppedClass /\ rest[i] \in Below(global, d) => d = rest[i]
SourcesKept   == \A k \in DOMAIN out : out[k].src \notin Lost
\* Nodes were made for what precedes the calls to come.
SourcesBehind == \A k \in DOMAIN out, i \in ToCome : out[k].src < rest[i]
NodesFit      == \A k \in DOMAIN out : Fits(out[k])
\* Open blocks were opened in order, and what is in one precedes the next.
StackRises    == \A i, j \in DOMAIN stack_ : i < j => stack_[i] < stack_[j]
KidsBehind    == \A s \in DOMAIN stack_ : \A i \in DOMAIN out[stack_[s]].kids :
                   s < Len(stack_) => out[out[stack_[s]].kids[i]].src < out[stack_[s + 1]].src
\* What was visited has its nodes, and an interaction as many as it should.
Received(n)   == {k \in DOMAIN out : out[k].src = n /\ IsReceive(k)}
Said(n)       == {k \in DOMAIN out : out[k].src = n /\ IsSend(k)}
HasNodes(n)   == /\ global[n].class \in PushedClass \cup LeafClass => n \in Sources
                 /\ global[n].class = "Nested" /\ Receivers(n) # << >> => n \in Sources
                 /\ global[n].class = "Interaction" =>
                      Cardinality(Received(n)) = HeardOf(n) /\ Cardinality(Said(n)) = SaidBy(n)
Handled       == status = "running" => \A n \in Visited : HasNodes(n)

Chosen == global \in Protocols /\ endpoint \in Endpoints
IInv == /\ TypeOK /\ Chosen /\ StopsExplained
        /\ RestRises /\ HoldersBehind /\ NotLost /\ SourcesKept /\ SourcesBehind
        /\ NodesFit /\ StackRises /\ KidsBehind /\ ReceivesFirst /\ Handled
-----------------------------------------------------------------------------
LEMMA TreeFacts ==
  ASSUME Chosen
  PROVE  /\ global \in Seq(SourceNode) /\ global # << >> /\ PreOrderTree(global)
         /\ endpoint \in Role /\ NoRole \notin Role
         /\ \A n \in DOMAIN global : global[n].class \notin BlockClass => global[n].kids = << >>
BY ProtocolsAssumption, RolesAssumption DEF Chosen

LEMMA StatementFacts ==
  ASSUME Chosen, NEW n \in DOMAIN global
  PROVE  /\ n \in Nat \ {0} /\ global[n] \in SourceNode
         /\ global[n].class \in Class /\ global[n].kids \in Seq(Nat)
         /\ global[n].sndr \in Role \cup {NoRole} /\ global[n].roles \in Seq(Role)
<1>1. global[n] \in SourceNode /\ n \in Nat \ {0}
  BY TreeFacts
<1> QED
  BY <1>1 DEF SourceNode

\* The receivers of an interaction are those of its roles that match, in their order.
LEMMA ReceiverFacts ==
  ASSUME Chosen, NEW n \in DOMAIN global
  PROVE  /\ Receivers(n) \in Seq(Role) /\ Len(Receivers(n)) \in Nat
         /\ \A i \in DOMAIN Receivers(n) :
              Receivers(n)[i] \in Role /\ Matches(Receivers(n)[i], endpoint)
         /\ Receivers(n) # << >> <=> Len(Receivers(n)) > 0
<1> DEFINE roles == global[n].roles
<1>1. roles \in Seq(Role)
  BY StatementFacts
<1>2. Receiving(n) \in SUBSET DOMAIN roles /\ \A i \in Receiving(n) : Matches(roles[i], endpoint)
  BY DEF Receiving
<1>3. /\ Receivers(n) \in Seq(Role)
      /\ DOMAIN Receivers(n) = 1..Cardinality(Receiving(n))
      /\ \A j \in DOMAIN Receivers(n) :
           Nth(Receiving(n), j) \in Receiving(n) /\ Receivers(n)[j] = roles[Nth(Receiving(n), j)]
  <2> HIDE DEF roles
  <2>1. /\ Selected(roles, Receiving(n)) \in Seq(Role)
        /\ DOMAIN Selected(roles, Receiving(n)) = 1..Cardinality(Receiving(n))
        /\ \A j \in 1..Cardinality(Receiving(n)) :
             /\ Nth(Receiving(n), j) \in Receiving(n)
             /\ Selected(roles, Receiving(n))[j] = roles[Nth(Receiving(n), j)]
    BY <1>1, <1>2, SelectedFacts
  <2>2. Receivers(n) = Selected(roles, Receiving(n))
    BY DEF Receivers, roles
  <2> QED
    BY <2>1, <2>2
<1>4. ASSUME NEW j \in DOMAIN Receivers(n)
      PROVE  Receivers(n)[j] \in Role /\ Matches(Receivers(n)[j], endpoint)
  <2>0. Receivers(n) \in Seq(Role)
    BY <1>3
  <2>1. Receivers(n)[j] \in Role
    BY <2>0
  <2>2. PICK i \in Receiving(n) : Receivers(n)[j] = roles[i]
    BY <1>3
  <2> QED
    BY <2>1, <2>2, <1>2
<1> HIDE DEF roles
<1>5. Len(Receivers(n)) \in Nat /\ (Receivers(n) # << >> <=> Len(Receivers(n)) > 0)
  BY <1>3
<1> QED
  BY <1>3, <1>4, <1>5

-----------------------------------------------------------------------------
\* A node as NewNode makes it: typed, and without children of its own.
Fresh == {nd \in OutNode : nd.kids = << >>}

\* Nodes of n's class, one at most if the endpoint is ordinary, none for a plain block,
\* and one for a nested session exactly if the endpoint is among its roles.
Shaped(n, nodes) ==
  /\ \A i \in DOMAIN nodes : nodes[i].class = global[n].class
  /\ Ordinary => Len(nodes) <= 1
  /\ global[n].class = "Block" => nodes = << >>
  /\ global[n].class = "Nested" => (nodes = << >> <=> Receivers(n) = << >>)

\* What a visit method makes of statement n: nodes for n that fit, some for the
\* structure, none for what is dropped, the receives before the send, and as many of
\* both as there should be.
GoodNodes(n, nodes) ==
  /\ nodes \in Seq(Fresh)
  /\ \A i \in DOMAIN nodes : nodes[i].src = n /\ Fits(nodes[i])
  /\ global[n].class \in DroppedClass => nodes = << >>
  /\ global[n].class \in PushedClass \cup LeafClass => nodes # << >>
  /\ \A i, j \in DOMAIN nodes : i < j => ~(Sent(nodes[i]) /\ Got(nodes[j]))
  /\ global[n].class = "Interaction" =>
       /\ Len(nodes) = HeardOf(n) + SaidBy(n)
       /\ \A i \in DOMAIN nodes : IF i <= HeardOf(n) THEN Got(nodes[i]) ELSE Sent(nodes[i])
  /\ Shaped(n, nodes)

\* A send, and under which condition.
LEMMA SendFacts ==
  ASSUME Chosen, NEW n \in DOMAIN global, SentBy(n),
         NEW cond \in Role \cup {NoRole}, cond = IF Ordinary THEN NoRole ELSE global[n].sndr
  PROVE  /\ SendNode(n, cond) \in Fresh /\ SendNode(n, cond).src = n
         /\ Sent(SendNode(n, cond)) /\ Fits(SendNode(n, cond))
<1> DEFINE nd == SendNode(n, cond)
<1>1. n \in Nat /\ global[n].roles \in Seq(Role) /\ "Interaction" \in Class /\ << >> \in Seq(Nat)
  BY StatementFacts DEF Class
<1>2. nd \in Fresh /\ nd.src = n /\ nd.class = "Interaction" /\ nd.sndr = NoRole /\ nd.cond = cond
  <2>1. NoRole \in Role \cup {NoRole}
    OBVIOUS
  <2> QED
    BY <1>1, <2>1 DEF SendNode, NewNode, Fresh, OutNode
<1>3. global[n].sndr # NoRole /\ Matches(global[n].sndr, endpoint)
  BY DEF SentBy
<1> HIDE DEF nd
<1>4. Sent(nd) /\ ~Got(nd)
  BY <1>2, <1>3 DEF Sent, Got
<1>5. Fits(nd)
  BY <1>2, <1>3, <1>4 DEF Fits
<1> QED
  BY <1>2, <1>4, <1>5 DEF nd

\* A receive from role s, and under which condition.
LEMMA ReceiveFacts ==
  ASSUME Chosen, NEW n \in DOMAIN global, global[n].class = "Interaction", Receivers(n) # << >>,
         NEW s \in Role \cup {NoRole}, (s = NoRole) = (global[n].sndr = NoRole),
         NEW cond \in Role \cup {NoRole},
         IF Ordinary THEN cond = NoRole
         ELSE LET sndr == global[n].sndr IN
              /\ cond # NoRole
              /\ \/ Matches(cond, endpoint)
                 \/ IsBindable(sndr) /\ Len(sndr.dims) < Len(endpoint.dims)
                 \/ IsBindable(sndr) /\ \E r \in Range(Receivers(n)) : r.grp /\ cond = AppliedRole(sndr, r)
  PROVE  /\ ReceiveNode(n, s, cond) \in Fresh /\ ReceiveNode(n, s, cond).src = n
         /\ Got(ReceiveNode(n, s, cond)) /\ Fits(ReceiveNode(n, s, cond))
<1> DEFINE nd == ReceiveNode(n, s, cond)
<1>1. n \in Nat /\ "Interaction" \in Class /\ << >> \in Seq(Nat) /\ << >> \in Seq(Role)
  BY StatementFacts DEF Class
<1>2. nd \in Fresh /\ nd.src = n /\ nd.class = "Interaction" /\ nd.sndr = s /\ nd.cond = cond
  BY <1>1 DEF ReceiveNode, NewNode, Fresh, OutNode
<1> HIDE DEF nd
<1>3. Got(nd) /\ ~Sent(nd)
  BY <1>2 DEF Sent, Got
<1>4. Fits(nd)
  BY <1>2, <1>3 DEF Fits
<1> QED
  BY <1>2, <1>3, <1>4 DEF nd

LEMMA RoleFacts ==
  ASSUME NEW s \in Role, NEW r \in Role
  PROVE  /\ InverseRole(s, r) \in Role
         /\ Len(s.dims) \in Nat /\ Len(r.dims) \in Nat
         /\ Len(s.dims) <= Len(r.dims) =>
              /\ AppliedRole(s, r) \in Role
              /\ AppliedRole(s, r).name = r.name /\ AppliedRole(s, r).grp = FALSE
              /\ Len(AppliedRole(s, r).dims) = Len(s.dims)
<1>1. s.dims \in Seq(Index) /\ r.dims \in Seq(Index) /\ s.name \in Name /\ r.name \in Name
  BY DEF Role
<1>2. << >> \in Seq(Member) /\ {"applied", "inverse", "range"} \subseteq Index
  BY DEF Index
<1>3. DOMAIN s.dims = 1..Len(s.dims) /\ DOMAIN r.dims = 1..Len(r.dims)
      /\ Len(s.dims) \in Nat /\ Len(r.dims) \in Nat
  BY <1>1
<1>4. InverseRole(s, r) \in Role
  <2> DEFINE d == [k \in DOMAIN s.dims |-> IF s.dims[k] = "range" THEN "inverse" ELSE s.dims[k]]
  <2>1. \A k \in DOMAIN s.dims : s.dims[k] \in Index
    BY <1>1
  <2>2. d \in [1..Len(s.dims) -> Index]
    BY <2>1, <1>2, <1>3
  <2>3. d \in Seq(Index)
    BY <2>2, <1>3
  <2> HIDE DEF d
  <2>4. [name |-> s.name, grp |-> FALSE, members |-> << >>, dims |-> d] \in Role
    BY <2>3, <1>1, <1>2 DEF Role
  <2> QED
    BY <2>4 DEF InverseRole, d
<1>5. ASSUME Len(s.dims) <= Len(r.dims)
      PROVE  /\ AppliedRole(s, r) \in Role
             /\ AppliedRole(s, r).name = r.name /\ AppliedRole(s, r).grp = FALSE
             /\ Len(AppliedRole(s, r).dims) = Len(s.dims)
  <2> DEFINE d == [k \in DOMAIN s.dims |-> IF s.dims[k] = "range" THEN "applied" ELSE r.dims[k]]
  <2>1. \A k \in DOMAIN s.dims : k \in DOMAIN r.dims
    BY <1>3, <1>5
  <2>11. \A k \in DOMAIN s.dims : r.dims[k] \in Index
    BY <2>1, <1>1
  <2>2. d \in [1..Len(s.dims) -> Index]
    BY <2>11, <1>2, <1>3
  <2>3. d \in Seq(Index) /\ Len(d) = Len(s.dims)
    BY <2>2, <1>3
  <2> HIDE DEF d
  <2>4. AppliedRole(s, r) = [name |-> r.name, grp |-> FALSE, members |-> << >>, dims |-> d]
    BY DEF AppliedRole, d
  <2>5. [name |-> r.name, grp |-> FALSE, members |-> << >>, dims |-> d] \in Role
    BY <2>3, <1>1, <1>2 DEF Role
  <2> QED
    BY <2>3, <2>4, <2>5
<1> QED
  BY <1>3, <1>4, <1>5

\* The receives of an array fit: under the receiver itself, or for a sender that binds
\* a variable under what Rule 9 makes of it, which is the endpoint if the sender has as
\* many indices.
LEMMA ReceivesFacts ==
  ASSUME Chosen, NEW n \in DOMAIN global, global[n].class = "Interaction", ~Ordinary,
         global[n].sndr # NoRole, NEW rcvrs \in Seq(Role),
         \A i \in DOMAIN rcvrs : \E j \in DOMAIN Receivers(n) : rcvrs[i] = Receivers(n)[j],
         IsBindable(global[n].sndr) =>
           \A i \in DOMAIN rcvrs : Len(global[n].sndr.dims) <= Len(rcvrs[i].dims)
  PROVE  /\ Receives(n, rcvrs) \in Seq(Fresh) /\ Len(Receives(n, rcvrs)) = Len(rcvrs)
         /\ \A i \in DOMAIN Receives(n, rcvrs) :
              /\ Receives(n, rcvrs)[i].src = n
              /\ Got(Receives(n, rcvrs)[i]) /\ Fits(Receives(n, rcvrs)[i])
<1> DEFINE s == global[n].sndr
           made(i) == IF IsBindable(s)
                      THEN ReceiveNode(n, InverseRole(s, rcvrs[i]), AppliedRole(s, rcvrs[i]))
                      ELSE ReceiveNode(n, s, rcvrs[i])
<1>0. s \in Role /\ s # NoRole /\ NoRole \notin Role /\ endpoint \in Role
  BY StatementFacts, TreeFacts
<1>1. ASSUME NEW i \in DOMAIN rcvrs
      PROVE  made(i) \in Fresh /\ made(i).src = n /\ Got(made(i)) /\ Fits(made(i))
  <2> DEFINE r == rcvrs[i]
  <2>1. r \in Role
    BY <1>1
  <2>2. PICK j \in DOMAIN Receivers(n) : r = Receivers(n)[j]
    BY <1>1
  <2>3. Matches(r, endpoint) /\ Receivers(n) # << >> /\ r \in Range(Receivers(n))
    <3>1. Matches(r, endpoint)
      BY <2>2, ReceiverFacts
    <3>2. r \in Range(Receivers(n))
      BY <2>2 DEF Range
    <3> QED
      BY <3>1, <3>2, <2>2
  <2>4. CASE ~IsBindable(s)
    <3>1. r # NoRole
      BY <2>1, <1>0
    <3> HIDE DEF r
    <3>2. /\ ReceiveNode(n, s, r) \in Fresh /\ ReceiveNode(n, s, r).src = n
          /\ Got(ReceiveNode(n, s, r)) /\ Fits(ReceiveNode(n, s, r))
      BY <1>0, <2>1, <2>3, <3>1, ReceiveFacts
    <3> QED
      BY <2>4, <3>2 DEF r
  <2>5. CASE IsBindable(s)
    <3> DEFINE cond == AppliedRole(s, r)
               from == InverseRole(s, r)
    <3>0. Len(s.dims) <= Len(r.dims)
      BY <2>5, <1>1
    <3> HIDE DEF r, s
    <3>1. /\ from \in Role /\ cond \in Role /\ cond.name = r.name /\ ~cond.grp
          /\ Len(cond.dims) = Len(s.dims) /\ Len(s.dims) \in Nat /\ Len(r.dims) \in Nat
      BY <3>0, <1>0, <2>1, RoleFacts
    <3>2. \/ Matches(cond, endpoint)
          \/ Len(s.dims) < Len(endpoint.dims)
          \/ r.grp
      <4> SUFFICES ASSUME ~r.grp, ~(Len(s.dims) < Len(endpoint.dims)) PROVE Matches(cond, endpoint)
        OBVIOUS
      <4>1. r.name = endpoint.name /\ Len(r.dims) = Len(endpoint.dims)
        BY <2>3 DEF Matches, SameRole
      <4>2. Len(s.dims) = Len(endpoint.dims)
        BY <4>1, <3>0, <3>1
      <4> HIDE DEF cond
      <4> QED
        BY <4>1, <4>2, <3>1 DEF Matches, SameRole
    <3> HIDE DEF cond, from
    <3>3. cond # NoRole /\ from # NoRole
      BY <3>1, <1>0
    <3>4. /\ ReceiveNode(n, from, cond) \in Fresh /\ ReceiveNode(n, from, cond).src = n
          /\ Got(ReceiveNode(n, from, cond)) /\ Fits(ReceiveNode(n, from, cond))
      <4>1. r.grp => \E q \in Range(Receivers(n)) : q.grp /\ cond = AppliedRole(s, q)
        BY <2>3 DEF cond
      <4> QED
        BY <4>1, <1>0, <2>3, <2>5, <3>1, <3>2, <3>3, ReceiveFacts DEF s
    <3> QED
      BY <2>5, <3>4 DEF r, cond, from
  <2> QED
    BY <2>4, <2>5
<1> HIDE DEF made
<1>2. Receives(n, rcvrs) = [i \in DOMAIN rcvrs |-> made(i)]
  BY DEF Receives, made
<1>3. DOMAIN rcvrs = 1..Len(rcvrs) /\ Len(rcvrs) \in Nat
  OBVIOUS
<1>4. Receives(n, rcvrs) \in [1..Len(rcvrs) -> Fresh]
  BY <1>1, <1>2, <1>3
<1>5. Receives(n, rcvrs) \in Seq(Fresh) /\ Len(Receives(n, rcvrs)) = Len(rcvrs)
  BY <1>3, <1>4
<1>6. \A i \in DOMAIN Receives(n, rcvrs) : i \in DOMAIN rcvrs /\ Receives(n, rcvrs)[i] = made(i)
  BY <1>2
<1> QED
  BY <1>1, <1>5, <1>6

LEMMA SendsFacts ==
  ASSUME Chosen, NEW n \in DOMAIN global, ~Ordinary, global[n].sndr # NoRole
  PROVE  /\ Sends(n) \in Seq(Fresh) /\ Len(Sends(n)) = IF SentBy(n) THEN 1 ELSE 0
         /\ \A i \in DOMAIN Sends(n) : Sends(n)[i].src = n /\ Sent(Sends(n)[i]) /\ Fits(Sends(n)[i])
<1>1. CASE SentBy(n)
  <2> DEFINE nd == SendNode(n, global[n].sndr)
  <2>1. global[n].sndr \in Role \cup {NoRole}
    BY StatementFacts
  <2>2. nd \in Fresh /\ nd.src = n /\ Sent(nd) /\ Fits(nd)
    BY <1>1, <2>1, SendFacts
  <2>3. Sends(n) = <<nd>>
    BY <1>1 DEF Sends, SentBy
  <2> HIDE DEF nd
  <2>4. \A i \in DOMAIN <<nd>> : <<nd>>[i] = nd
    OBVIOUS
  <2> QED
    BY <1>1, <2>2, <2>3, <2>4
<1>2. CASE ~SentBy(n)
  <2>1. Sends(n) = << >>
    BY <1>2 DEF Sends, SentBy
  <2> QED
    BY <1>2, <2>1
<1> QED
  BY <1>1, <1>2

\* Receives and then a send.
ReceivesThenSend(n, a, b) ==
  /\ a \in Seq(Fresh) /\ \A i \in DOMAIN a : a[i].src = n /\ Got(a[i]) /\ Fits(a[i])
  /\ b \in Seq(Fresh) /\ \A i \in DOMAIN b : b[i].src = n /\ Sent(b[i]) /\ Fits(b[i])
Joined(n, a, b, c) ==
  /\ c \in Seq(Fresh) /\ Len(c) = Len(a) + Len(b)
  /\ \A i \in DOMAIN c : /\ c[i].src = n /\ Fits(c[i])
                         /\ IF i <= Len(a) THEN Got(c[i]) ELSE Sent(c[i])
  /\ \A i, j \in DOMAIN c : i < j => ~(Sent(c[i]) /\ Got(c[j]))

LEMMA JoinedFacts ==
  ASSUME NEW n, NEW a, NEW b, ReceivesThenSend(n, a, b)
  PROVE  Joined(n, a, b, a \o b)
<1> DEFINE c == a \o b
<1> USE DEF ReceivesThenSend
<1>1. /\ c \in Seq(Fresh) /\ Len(c) = Len(a) + Len(b) /\ Len(a) \in Nat /\ Len(b) \in Nat
      /\ DOMAIN c = 1..(Len(a) + Len(b)) /\ DOMAIN a = 1..Len(a) /\ DOMAIN b = 1..Len(b)
      /\ \A i \in 1..Len(a) : c[i] = a[i]
      /\ \A i \in (Len(a) + 1)..(Len(a) + Len(b)) : c[i] = b[i - Len(a)]
  OBVIOUS
<1> HIDE DEF c
<1>2. ASSUME NEW i \in DOMAIN c
      PROVE  c[i].src = n /\ Fits(c[i]) /\ IF i <= Len(a) THEN Got(c[i]) ELSE Sent(c[i])
  <2>1. CASE i <= Len(a)
    <3>1. i \in 1..Len(a)
      BY <2>1, <1>1, <1>2
    <3> QED
      BY <2>1, <3>1, <1>1
  <2>2. CASE ~(i <= Len(a))
    <3>1. i \in (Len(a) + 1)..(Len(a) + Len(b)) /\ i - Len(a) \in 1..Len(b)
      BY <2>2, <1>1, <1>2
    <3> QED
      BY <2>2, <3>1, <1>1
  <2> QED
    BY <2>1, <2>2
<1>3. ASSUME NEW i \in DOMAIN c, NEW j \in DOMAIN c, i < j PROVE ~(Sent(c[i]) /\ Got(c[j]))
  <2>1. CASE j <= Len(a)
    <3>1. i <= Len(a)
      BY <2>1, <1>1, <1>3
    <3> QED
      BY <3>1, <1>2 DEF Got
  <2>2. CASE ~(j <= Len(a))
    BY <2>2, <1>2 DEF Got
  <2> QED
    BY <2>1, <2>2
<1> QED
  BY <1>1, <1>2, <1>3 DEF Joined, c

\* When Rule 9 does not fail, no receiver has fewer indices than a sender that binds.
NoneFails(n) ==
  \A i \in DOMAIN Receivers(n) :
    LET r == Receivers(n)[i] IN
    ~(r \in RuleNine(n) /\ Fails(n, r))

LEMMA InteractionShaped ==
  ASSUME NEW n, global[n].class = "Interaction", NEW nodes,
         \A i \in DOMAIN nodes : Got(nodes[i]) \/ Sent(nodes[i]), Ordinary => Len(nodes) <= 1
  PROVE  Shaped(n, nodes)
BY DEF Shaped, Got, Sent

LEMMA OneShaped ==
  ASSUME NEW n, global[n].class = "Interaction", NEW nd, Got(nd) \/ Sent(nd)
  PROVE  Shaped(n, <<nd>>)
<1>1. DOMAIN <<nd>> = {1} /\ <<nd>>[1] = nd /\ Len(<<nd>>) = 1
  OBVIOUS
<1>2. nd.class = global[n].class
  BY DEF Got, Sent
<1> QED
  BY <1>1, <1>2 DEF Shaped

\* What every position of a sequence satisfies is counted by its length.
LEMMA AllCounted ==
  ASSUME NEW S, NEW s \in Seq(S)
  PROVE  Cardinality(DOMAIN s) = Len(s)
<1>1. DOMAIN s = 1..Len(s) /\ Len(s) \in Nat
  OBVIOUS
<1> QED
  BY <1>1, FS_Interval

LEMMA NodesGood ==
  ASSUME Chosen, NEW n \in DOMAIN global, global[n].class = "Interaction", NoneFails(n),
         ~(global[n].sndr = NoRole /\ ~(Ordinary /\ Receivers(n) # << >>))
  PROVE  GoodNodes(n, Nodes(n))
<1> DEFINE s == global[n].sndr
           R == Receivers(n)
<1>0. /\ s \in Role \cup {NoRole} /\ NoRole \notin Role
      /\ R \in Seq(Role) /\ Len(R) \in Nat /\ (R # << >> <=> Len(R) > 0)
  BY StatementFacts, TreeFacts, ReceiverFacts
<1>1. "Interaction" \notin PushedClass \cup LeafClass \cup DroppedClass
  BY DEF PushedClass, LeafClass, DroppedClass
<1>2. CASE Ordinary
  <2>1. Nodes(n) = OrdinaryRules(n)
    BY <1>2 DEF Nodes
  <2>2. CASE R # << >>
    <3> DEFINE nd == ReceiveNode(n, s, NoRole)
    <3>1. nd \in Fresh /\ nd.src = n /\ Got(nd) /\ Fits(nd)
      BY <1>0, <1>2, <2>2, ReceiveFacts
    <3>2. Nodes(n) = <<nd>> /\ HeardOf(n) = 1 /\ SaidBy(n) = 0
      BY <1>0, <1>2, <2>1, <2>2 DEF OrdinaryRules, HeardOf, SaidBy
    <3> HIDE DEF nd
    <3>3. <<nd>> \in Seq(Fresh) /\ Len(<<nd>>) = 1 /\ \A i \in DOMAIN <<nd>> : i = 1 /\ <<nd>>[i] = nd
      BY <3>1
    <3>4. Shaped(n, <<nd>>)
      BY <3>1, OneShaped
    <3> QED
      BY <3>1, <3>2, <3>3, <3>4, <1>1 DEF GoodNodes
  <2>3. CASE R = << >>
    <3>1. s # NoRole
      BY <2>3
    <3>2. CASE SentBy(n)
      <4> DEFINE nd == SendNode(n, NoRole)
      <4>1. nd \in Fresh /\ nd.src = n /\ Sent(nd) /\ ~Got(nd) /\ Fits(nd)
        BY <1>2, <3>2, SendFacts DEF Got
      <4>2. Nodes(n) = <<nd>> /\ HeardOf(n) = 0 /\ SaidBy(n) = 1
        BY <1>0, <1>2, <2>1, <2>3, <3>2 DEF OrdinaryRules, HeardOf, SaidBy, SentBy
      <4> HIDE DEF nd
      <4>3. <<nd>> \in Seq(Fresh) /\ Len(<<nd>>) = 1 /\ \A i \in DOMAIN <<nd>> : i = 1 /\ <<nd>>[i] = nd
        BY <4>1
      <4>4. Shaped(n, <<nd>>)
        BY <4>1, OneShaped
      <4> QED
        BY <4>1, <4>2, <4>3, <4>4, <1>1 DEF GoodNodes
    <3>3. CASE ~SentBy(n)
      <4>1. Nodes(n) = << >> /\ HeardOf(n) = 0 /\ SaidBy(n) = 0
        BY <1>0, <1>2, <2>1, <2>3, <3>1, <3>3 DEF OrdinaryRules, HeardOf, SaidBy, SentBy
      <4>2. << >> \in Seq(Fresh) /\ Len(<< >>) = 0 /\ DOMAIN << >> = {}
        OBVIOUS
      <4>3. Shaped(n, << >>)
        BY <4>2, InteractionShaped
      <4> QED
        BY <4>1, <4>2, <4>3, <1>1 DEF GoodNodes
    <3> QED
      BY <3>2, <3>3
  <2> QED
    BY <2>2, <2>3
<1>3. CASE ~Ordinary
  <2>0. s # NoRole /\ s \in Role
    BY <1>0, <1>3
  <2>1. /\ Sends(n) \in Seq(Fresh) /\ Len(Sends(n)) = IF SentBy(n) THEN 1 ELSE 0
        /\ \A i \in DOMAIN Sends(n) :
             Sends(n)[i].src = n /\ Sent(Sends(n)[i]) /\ Fits(Sends(n)[i])
    BY <1>3, <2>0, SendsFacts
  <2>2. IsBindable(s) => \A i \in DOMAIN R : Len(s.dims) <= Len(R[i].dims)
    <3> SUFFICES ASSUME IsBindable(s), NEW i \in DOMAIN R PROVE Len(s.dims) <= Len(R[i].dims)
      OBVIOUS
    <3>1. R[i] \in RuleNine(n)
      BY <1>3, <2>0 DEF RuleNine, Range
    <3>2. ~(Len(s.dims) > Len(R[i].dims))
      BY <3>1 DEF NoneFails, Fails, NoIndex
    <3>3. Len(s.dims) \in Nat /\ Len(R[i].dims) \in Nat
      <4>1. R[i] \in Role
        BY <1>0
      <4> QED
        BY <4>1, <2>0, RoleFacts
    <3> QED
      BY <3>2, <3>3
  <2>3. CASE s.dims # << >>
    <3> DEFINE a == Receives(n, R)
    <3>1. /\ a \in Seq(Fresh) /\ Len(a) = Len(R)
          /\ \A i \in DOMAIN a : a[i].src = n /\ Got(a[i]) /\ Fits(a[i])
      BY <1>0, <1>3, <2>0, <2>2, ReceivesFacts
    <3>2. Nodes(n) = a \o Sends(n)
      BY <1>3, <2>3 DEF Nodes, IndexedRules
    <3>3. HeardOf(n) = Len(a) /\ SaidBy(n) = Len(Sends(n))
      <4>1. Cardinality(Hearing(n)) = Len(R)
        BY <1>0, <2>3, AllCounted DEF Hearing
      <4> QED
        BY <4>1, <1>3, <2>1, <3>1 DEF HeardOf, SaidBy
    <3> HIDE DEF a
    <3>4. Joined(n, a, Sends(n), Nodes(n))
      <4>1. ReceivesThenSend(n, a, Sends(n))
        BY <2>1, <3>1 DEF ReceivesThenSend
      <4> QED
        BY <3>2, <4>1, JoinedFacts
    <3>5. Shaped(n, Nodes(n))
      BY <1>3, <3>4, InteractionShaped DEF Joined
    <3> QED
      BY <1>1, <3>3, <3>4, <3>5 DEF GoodNodes, Joined
  <2>4. CASE s.dims = << >>
    <3> DEFINE grps == {i \in DOMAIN R : R[i].grp}
               Q == Selected(R, grps)
               a == Receives(n, Q)
               b == IF s.grp THEN Sends(n) ELSE << >>
    <3>1. /\ Q \in Seq(Role) /\ Len(Q) \in Nat
          /\ \A i \in DOMAIN Q : \E j \in DOMAIN R : Q[i] = R[j]
          /\ Len(Q) = Cardinality(grps)
      <4>1. grps \in SUBSET DOMAIN R
        OBVIOUS
      <4> HIDE DEF grps
      <4> QED
        BY <1>0, <4>1, SelectedFacts
    <3>2. ~IsBindable(s)
      BY <2>4 DEF IsBindable
    <3>3. /\ a \in Seq(Fresh) /\ Len(a) = Len(Q)
          /\ \A i \in DOMAIN a : a[i].src = n /\ Got(a[i]) /\ Fits(a[i])
      <4> HIDE DEF Q
      <4> QED
        BY <1>3, <2>0, <3>1, <3>2, ReceivesFacts
    <3>4. /\ b \in Seq(Fresh)
          /\ \A i \in DOMAIN b : b[i].src = n /\ Sent(b[i]) /\ Fits(b[i])
      BY <2>1
    <3>5. Nodes(n) = a \o b
      BY <1>3, <2>4 DEF Nodes, GroupRules, GroupReceives
    <3>6. HeardOf(n) = Len(a) /\ SaidBy(n) = Len(b)
      <4>1. Hearing(n) = grps
        BY <2>4 DEF Hearing
      <4>2. HeardOf(n) = Len(a)
        BY <1>3, <3>1, <3>3, <4>1 DEF HeardOf
      <4>3. s.grp \/ ~SentBy(n)
        <5> SUFFICES ASSUME ~s.grp, SentBy(n) PROVE FALSE
          OBVIOUS
        <5>1. Len(s.dims) = Len(endpoint.dims) /\ Len(s.dims) = 0
          BY <2>4 DEF SentBy, Matches, SameRole
        <5>2. endpoint.dims \in Seq(Index)
          BY TreeFacts DEF Role
        <5>3. endpoint.dims = << >>
          <6> DEFINE d == endpoint.dims
          <6>1. d \in Seq(Index) /\ Len(d) = 0
            BY <5>1, <5>2
          <6> HIDE DEF d
          <6>2. d = << >>
            BY <6>1
          <6> QED
            BY <6>2 DEF d
        <5> QED
          BY <5>3, <1>3 DEF Ordinary
      <4>4. SaidBy(n) = Len(b)
        BY <1>3, <2>1, <4>3 DEF SaidBy
      <4> QED
        BY <4>2, <4>4
    <3> HIDE DEF a, b
    <3>7. Joined(n, a, b, Nodes(n))
      <4>1. ReceivesThenSend(n, a, b)
        BY <3>3, <3>4 DEF ReceivesThenSend
      <4> QED
        BY <3>5, <4>1, JoinedFacts
    <3>8. Shaped(n, Nodes(n))
      BY <1>3, <3>7, InteractionShaped DEF Joined
    <3> QED
      BY <1>1, <3>6, <3>7, <3>8 DEF GoodNodes, Joined
  <2> QED
    BY <2>3, <2>4
<1> QED
  BY <1>2, <1>3

LEMMA PlainGood ==
  ASSUME NEW n, NEW nd \in Fresh, nd.src = n, nd.class = global[n].class,
         global[n].class \notin DroppedClass \cup {"Interaction", "Block"},
         global[n].class = "Nested" => Receivers(n) # << >>
  PROVE  GoodNodes(n, <<nd>>)
<1>1. /\ <<nd>> \in Seq(Fresh) /\ <<nd>> # << >> /\ Len(<<nd>>) = 1
      /\ \A i \in DOMAIN <<nd>> : <<nd>>[i] = nd
  OBVIOUS
<1>2. Fits(nd) /\ ~Sent(nd)
  BY DEF Fits, Sent
<1>3. Shaped(n, <<nd>>)
  BY <1>1 DEF Shaped
<1> QED
  BY <1>1, <1>2, <1>3 DEF GoodNodes

LEMMA NothingGood ==
  ASSUME NEW n, global[n].class \notin PushedClass \cup LeafClass \cup {"Interaction"},
         global[n].class = "Nested" => Receivers(n) = << >>
  PROVE  GoodNodes(n, << >>)
<1>1. << >> \in Seq(Fresh) /\ DOMAIN << >> = {} /\ Len(<< >>) = 0
  OBVIOUS
<1>2. Shaped(n, << >>)
  BY <1>1 DEF Shaped
<1> QED
  BY <1>1, <1>2 DEF GoodNodes

-----------------------------------------------------------------------------
\* The kinds of step: what the visit methods differ in is only the nodes they make.
Called    == /\ status = "running" /\ rest # << >> /\ This # Close /\ This \in DOMAIN global
EmitStep  == /\ Called /\ (global[This].class \in DroppedClass \/ global[This].kids = << >>)
             /\ \E nodes : GoodNodes(This, nodes) /\ Emit(nodes)
EnterStep == /\ Called /\ global[This].class \in PushedClass
             /\ \E node \in Fresh : GoodNodes(This, <<node>>) /\ Enter(node)
BlockStep == /\ Called /\ GoodNodes(This, << >>) /\ global[This].class = "Block"
             /\ rest' = global[This].kids \o Tail(rest)
             /\ UNCHANGED <<global, endpoint, stack_, out, status>>
StopStep  == /\ Called /\ StopsExplained' /\ status' \in {"thrown", "undefined"}
             /\ UNCHANGED <<global, endpoint, rest, stack_, out>>

LEMMA VisitingCalls ==
  ASSUME TypeOK, NEW classes, Visiting(classes)
  PROVE  Called /\ global[This].class \in classes
<1>1. rest \in Seq(0..Len(global)) /\ rest # << >> /\ This # 0 /\ global \in Seq(SourceNode)
  BY DEF TypeOK, Visiting, This, Close
<1>2. This \in 0..Len(global)
  BY <1>1 DEF This
<1>3. This \in DOMAIN global
  BY <1>1, <1>2
<1> QED
  BY <1>1, <1>3 DEF Called, Visiting, This

\* Only blocks have statements below them.
LEMMA LeafHasNone ==
  ASSUME Chosen, Called, global[This].class \notin BlockClass
  PROVE  global[This].kids = << >>
BY TreeFacts DEF Called

LEMMA PlainFacts ==
  ASSUME Chosen, NEW n \in DOMAIN global
  PROVE  /\ Plain(n) \in Fresh /\ Plain(n).src = n /\ Plain(n).class = global[n].class
         /\ [Plain(n) EXCEPT !.copied = global[n].kids] \in Fresh
         /\ [Plain(n) EXCEPT !.copied = global[n].kids].src = n
         /\ [Plain(n) EXCEPT !.copied = global[n].kids].class = global[n].class
<1>1. n \in Nat /\ global[n].class \in Class /\ global[n].kids \in Seq(Nat)
  BY StatementFacts
<1>2. << >> \in Seq(Nat) /\ << >> \in Seq(Role) /\ NoRole \in Role \cup {NoRole}
  OBVIOUS
<1> QED
  BY <1>1, <1>2 DEF Plain, NewNode, Fresh, OutNode

\* A statement other than an interaction, whose node is made or not.
LEMMA OtherStatement ==
  ASSUME Chosen, TypeOK, NEW classes, Visiting(classes), "Interaction" \notin classes
  PROVE  /\ classes \cap (DroppedClass \cup {"Block"}) = {} /\ ("Nested" \in classes => Receivers(This) # << >>) =>
              /\ GoodNodes(This, <<Plain(This)>>)
              /\ GoodNodes(This, <<[Plain(This) EXCEPT !.copied = global[This].kids]>>)
         /\ classes \cap (PushedClass \cup LeafClass) = {} /\ ("Nested" \in classes => Receivers(This) = << >>) =>
              GoodNodes(This, << >>)
<1>1. Called /\ global[This].class \in classes /\ This \in DOMAIN global
  BY VisitingCalls DEF Called
<1> DEFINE n == This
           p == Plain(n)
           q == [Plain(n) EXCEPT !.copied = global[n].kids]
<1>2. /\ p \in Fresh /\ p.src = n /\ p.class = global[n].class
      /\ q \in Fresh /\ q.src = n /\ q.class = global[n].class
  BY <1>1, PlainFacts
<1> HIDE DEF n, p, q
<1>3. global[n].class \in classes
  BY <1>1 DEF n
<1>4. classes \cap (DroppedClass \cup {"Block"}) = {} /\ ("Nested" \in classes => Receivers(n) # << >>)
        => GoodNodes(n, <<p>>) /\ GoodNodes(n, <<q>>)
  BY <1>2, <1>3, PlainGood
<1>5. classes \cap (PushedClass \cup LeafClass) = {} /\ ("Nested" \in classes => Receivers(n) = << >>)
        => GoodNodes(n, << >>)
  BY <1>3, NothingGood
<1> QED
  BY <1>4, <1>5 DEF n, p, q

\* A clone that dereferences null is one of the reasons to stop.
LEMMA UncopiedStops ==
  ASSUME Called, Stop("undefined"),
         \/ Uncopyable(This)
         \/ global[This].class = "Choice" /\ HasLog(global[This].sndr)
  PROVE  StopStep
<1>1. This' = This /\ global' = global /\ endpoint' = endpoint /\ status' = "undefined"
  BY DEF Stop, This
<1>2. Uncopyable(This)' = Uncopyable(This)
  BY <1>1 DEF Uncopyable, Copied, CopiedRoles, HasLog, Below
<1>3. StopsExplained'
  BY <1>1, <1>2 DEF StopsExplained, HasLog
<1> QED
  BY <1>3 DEF StopStep, Stop

LEMMA InteractionKinds ==
  ASSUME Chosen, TypeOK, StopsExplained, VisitInteraction
  PROVE  EmitStep \/ StopStep
<1> DEFINE n == This
           R == Receivers(n)
           throws(r) == Throws(n, r)
           null == global[n].sndr = NoRole /\ ~(Ordinary /\ R # << >>)
           uncopied == Applies(n) /\ Uncopyable(n)
           failing == {i \in DOMAIN R : R[i] \in RuleNine(n) /\ Fails(n, R[i])}
<1>1. Called /\ global[n].class = "Interaction" /\ n \in DOMAIN global
  BY VisitingCalls DEF VisitInteraction, Called
<1>2. CASE null /\ Stop("undefined")
  <2>1. This' = This /\ global' = global /\ status' = "undefined"
    BY <1>2 DEF Stop, This
  <2>2. StopsExplained'
    BY <1>1, <1>2, <2>1 DEF StopsExplained
  <2> QED
    BY <1>1, <1>2, <2>2 DEF StopStep, Stop
<1>21. CASE uncopied /\ Stop("undefined")
  BY <1>1, <1>21, UncopiedStops
<1>3. CASE ~null /\ \E i \in failing : Stop(IF throws(R[i]) THEN "thrown" ELSE "undefined")
  <2>1. PICK i \in failing : Stop(IF throws(R[i]) THEN "thrown" ELSE "undefined")
    BY <1>3
  <2> DEFINE r == R[i]
             s == global[n].sndr
  <2>2. r \in RuleNine(n) /\ Fails(n, r)
    BY <2>1
  <2>3. /\ This' = This /\ global' = global /\ RuleNine(n)' = RuleNine(n)
        /\ status' = IF throws(r) THEN "thrown" ELSE "undefined"
    <3>1. /\ This' = This /\ global' = global /\ endpoint' = endpoint
          /\ status' = IF throws(r) THEN "thrown" ELSE "undefined"
      BY <2>1 DEF Stop, This
    <3>2. Receivers(This)' = Receivers(This)
      BY <3>1 DEF Receivers, Receiving, Matches, SameRole
    <3>3. RuleNine(This)' = RuleNine(This)
      BY <3>1, <3>2 DEF RuleNine, Ordinary
    <3> QED
      BY <3>1, <3>3
  <2>4. CASE throws(r)
    <3>1. r \in Role /\ s \in Role
      <4>1. r \in Role
        BY <1>1, <2>1, ReceiverFacts
      <4>2. s # NoRole
        BY <2>2 DEF RuleNine
      <4> QED
        BY <4>1, <4>2, <1>1, StatementFacts
    <3>2. Len(r.dims) < Len(s.dims)
      BY <2>4, <3>1, RoleFacts DEF Throws, NoIndex
    <3>3. StopsExplained'
      BY <2>2, <2>3, <2>4, <3>2 DEF StopsExplained
    <3> QED
      BY <1>1, <2>1, <3>3 DEF StopStep, Stop
  <2>5. CASE ~throws(r)
    <3>1. NoApply(n, r) \/ NoEval(n, r) \/ NoInverse(n, r)
      BY <2>2, <2>5 DEF Throws, Fails
    <3>2. \E k \in DOMAIN r.dims : r.dims[k] \in {"range", "seq", "partial", "mod"}
      BY <3>1 DEF NoApply, NoEval, NoInverse, Related
    <3>3. Range(r.dims) \cap {"range", "seq", "partial", "mod"} # {}
      BY <3>2 DEF Range
    <3>4. StopsExplained'
      BY <2>2, <2>3, <2>5, <3>3 DEF StopsExplained
    <3> QED
      BY <1>1, <2>1, <3>4 DEF StopStep, Stop
  <2> QED
    BY <2>4, <2>5
<1>4. CASE ~null /\ failing = {} /\ Emit(Nodes(n))
  <2>1. NoneFails(n)
    BY <1>4 DEF NoneFails
  <2>2. GoodNodes(n, Nodes(n))
    BY <1>1, <1>4, <2>1, NodesGood
  <2>3. global[n].kids = << >>
    BY <1>1, LeafHasNone DEF BlockClass, PushedClass, DroppedClass
  <2> QED
    BY <1>1, <1>4, <2>2, <2>3 DEF EmitStep
<1> QED
  BY <1>2, <1>21, <1>3, <1>4 DEF VisitInteraction

LEMMA StepKinds ==
  ASSUME Chosen, TypeOK, StopsExplained, [Next]_vars
  PROVE  EmitStep \/ EnterStep \/ BlockStep \/ StopStep \/ CloseBlock \/ UNCHANGED vars
<1> USE DEF PushedClass, DroppedClass, LeafClass, BlockClass
<1>1. CASE VisitBlock
  <2>1. GoodNodes(This, << >>)
    BY <1>1, OtherStatement DEF VisitBlock
  <2>2. Called /\ global[This].class = "Block"
    BY <1>1, VisitingCalls DEF VisitBlock
  <2> QED
    BY <1>1, <2>1, <2>2 DEF VisitBlock, BlockStep
<1>2. CASE VisitInteraction
  BY <1>2, InteractionKinds
<1>3. CASE VisitChoice
  <2>1. Called /\ global[This].class = "Choice" /\ This \in DOMAIN global
    BY <1>3, VisitingCalls DEF VisitChoice, Called
  <2>2. CASE global[This].sndr = NoRole /\ Stop("undefined")
    <3>1. This' = This /\ global' = global /\ status' = "undefined"
      BY <2>2 DEF Stop, This
    <3>2. StopsExplained'
      BY <2>1, <2>2, <3>1 DEF StopsExplained
    <3> QED
      BY <2>1, <2>2, <3>2 DEF StopStep, Stop
  <2>21. CASE HasLog(global[This].sndr) /\ Stop("undefined")
    BY <2>1, <2>21, UncopiedStops
  <2>3. CASE Enter(Plain(This))
    <3>1. GoodNodes(This, <<Plain(This)>>)
      BY <1>3, OtherStatement DEF VisitChoice
    <3> QED
      BY <2>1, <2>3, <3>1, PlainFacts DEF EnterStep
  <2> QED
    BY <1>3, <2>2, <2>21, <2>3 DEF VisitChoice
<1>4. CASE VisitRecurOrPar
  <2>1. Called /\ global[This].class \in {"Recur", "Par"} /\ This \in DOMAIN global
    BY <1>4, VisitingCalls DEF VisitRecurOrPar, Called
  <2>2. GoodNodes(This, <<Plain(This)>>)
    BY <1>4, OtherStatement DEF VisitRecurOrPar
  <2> QED
    BY <1>4, <2>1, <2>2, PlainFacts DEF VisitRecurOrPar, EnterStep
<1>5. CASE VisitInterruptible
  <2> DEFINE q == [Plain(This) EXCEPT !.copied = global[This].kids]
  <2>1. Called /\ global[This].class = "Interruptible" /\ This \in DOMAIN global
    BY <1>5, VisitingCalls DEF VisitInterruptible, Called
  <2>2. GoodNodes(This, <<q>>) /\ q \in Fresh
    BY <1>5, <2>1, OtherStatement, PlainFacts DEF VisitInterruptible
  <2>3. \/ Enter(q)
        \/ Uncopyable(This) /\ Stop("undefined")
    <3> HIDE DEF q
    <3>1. \/ Uncopyable(This) /\ Stop("undefined")
          \/ ~Uncopyable(This) /\ Enter([Plain(This) EXCEPT !.copied = global[This].kids])
      BY <1>5, Zenon DEF VisitInterruptible
    <3> QED
      BY <3>1, Zenon DEF q
  <2> HIDE DEF q
  <2> QED
    BY <2>1, <2>2, <2>3, UncopiedStops DEF EnterStep
<1>6. CASE VisitFor
  <2>1. Called /\ global[This].class = "For" /\ This \in DOMAIN global
    BY <1>6, VisitingCalls DEF VisitFor, Called
  <2>2. GoodNodes(This, <<Plain(This)>>)
    BY <1>6, OtherStatement DEF VisitFor
  <2> QED
    BY <1>6, <2>1, <2>2, PlainFacts DEF VisitFor, EnterStep
<1>7. CASE VisitLeaf
  <2>1. Called /\ global[This].class \in LeafClass /\ This \in DOMAIN global
    BY <1>7, VisitingCalls DEF VisitLeaf, Called
  <2>2. GoodNodes(This, <<Plain(This)>>) /\ Emit(<<Plain(This)>>)
    BY <1>7, OtherStatement DEF VisitLeaf
  <2>3. global[This].kids = << >>
    BY <2>1, LeafHasNone
  <2> QED
    BY <2>1, <2>2, <2>3 DEF EmitStep
<1>8. CASE VisitNested
  <2>1. Called /\ global[This].class = "Nested" /\ This \in DOMAIN global
    BY <1>8, VisitingCalls DEF VisitNested, Called
  <2>2. IF Receivers(This) # << >> THEN GoodNodes(This, <<Plain(This)>>) ELSE GoodNodes(This, << >>)
    BY <1>8, OtherStatement DEF VisitNested
  <2>3. global[This].kids = << >>
    BY <2>1, LeafHasNone
  <2>4. \/ Uncopyable(This) /\ Stop("undefined")
        \/ IF Receivers(This) # << >> THEN Emit(<<Plain(This)>>) ELSE Emit(<< >>)
    BY <1>8 DEF VisitNested
  <2> QED
    BY <2>1, <2>2, <2>3, <2>4, UncopiedStops DEF EmitStep
<1>9. CASE VisitDropped
  <2>1. Called /\ global[This].class \in DroppedClass
    BY <1>9, VisitingCalls DEF VisitDropped
  <2>2. GoodNodes(This, << >>) /\ Emit(<< >>)
    BY <1>9, OtherStatement DEF VisitDropped
  <2> QED
    BY <2>1, <2>2 DEF EmitStep
<1>10. CASE UNCHANGED vars
  BY <1>10
<1> QED
  BY <1>1, <1>2, <1>3, <1>4, <1>5, <1>6, <1>7, <1>8, <1>9, <1>10 DEF Next, Done

-----------------------------------------------------------------------------
\* The parts of TypeOK that steps change.
Closings(s) == Places(s, Close)
OutOK   == /\ out \in Seq(OutNode)
           /\ \A p \in DOMAIN out : \A i \in DOMAIN out[p].kids : out[p].kids[i] \in DOMAIN out \ {1}
StackOK == stack_ \in Seq(DOMAIN out) /\ stack_[1] = 1
RestOK  == rest \in Seq(0..Len(global))
Matched == Cardinality(Closings(rest)) = Len(stack_) - 1

LEMMA TypeParts ==
  TypeOK <=> /\ global \in Seq(SourceNode) /\ endpoint \in Role
             /\ status \in {"running", "thrown", "undefined"}
             /\ OutOK /\ StackOK /\ RestOK /\ Matched
BY DEF TypeOK, OutOK, StackOK, RestOK, Matched, Closings, Places

LEMMA TypeAfter ==
  ASSUME global' \in Seq(SourceNode), endpoint' \in Role,
         status' \in {"running", "thrown", "undefined"},
         OutOK', StackOK', RestOK', Matched'
  PROVE  TypeOK'
BY DEF TypeOK, OutOK, StackOK, RestOK, Matched, Closings, Places

LEMMA ClosingsFinite ==
  ASSUME NEW S, NEW s \in Seq(S)
  PROVE  IsFiniteSet(Closings(s)) /\ Cardinality(Closings(s)) \in Nat
         /\ \A i \in Closings(s) : Cardinality(Closings(s)) >= 1
BY PlacesFinite DEF Closings

LEMMA StackFacts ==
  ASSUME TypeOK
  PROVE  /\ Len(stack_) \in Nat \ {0} /\ DOMAIN stack_ = 1..Len(stack_)
         /\ Len(out) \in Nat \ {0} /\ DOMAIN out = 1..Len(out)
         /\ \A i \in DOMAIN stack_ : stack_[i] \in 1..Len(out)
         /\ Top \in DOMAIN out
         /\ \A q \in DOMAIN out : out[q] \in OutNode /\ out[q].kids \in Seq(Nat) /\ out[q].src \in Nat
<1>1. stack_ \in Seq(DOMAIN out) /\ out \in Seq(OutNode) /\ Matched /\ rest \in Seq(0..Len(global))
  BY TypeParts DEF OutOK, StackOK, RestOK
<1>2. Cardinality(Closings(rest)) \in Nat
  BY <1>1, ClosingsFinite
<1>3. Len(stack_) \in Nat \ {0} /\ DOMAIN stack_ = 1..Len(stack_)
  BY <1>1, <1>2 DEF Matched
<1>4. DOMAIN out = 1..Len(out) /\ Len(out) \in Nat
  BY <1>1
<1>5. \A i \in DOMAIN stack_ : stack_[i] \in 1..Len(out)
  BY <1>1, <1>4
<1>6. Top \in 1..Len(out)
  BY <1>3, <1>5 DEF Top
<1>7. ASSUME NEW q \in DOMAIN out
      PROVE  out[q] \in OutNode /\ out[q].kids \in Seq(Nat) /\ out[q].src \in Nat
  <2>1. out[q] \in OutNode
    BY <1>1
  <2> QED
    BY <2>1 DEF OutNode
<1> QED
  BY <1>3, <1>4, <1>5, <1>6, <1>7

\* out has got nodes: others keep all but their children.
Grown(nodes) ==
  /\ nodes \in Seq(Fresh) /\ OutOK' /\ Len(out') = Len(out) + Len(nodes)
  /\ \A q \in DOMAIN out : out'[q] = [out[q] EXCEPT !.kids = out'[q].kids]
  /\ \A i \in DOMAIN nodes : out'[Len(out) + i] = nodes[i]

\* A list of children that is replaced.
LEMMA KidsReplaced ==
  ASSUME NEW q \in OutNode, NEW k \in Seq(Nat)
  PROVE  /\ [q EXCEPT !.kids = k] \in OutNode /\ [q EXCEPT !.kids = k].kids = k
         /\ q = [q EXCEPT !.kids = q.kids]
BY DEF OutNode

\* The places of nodes that are put after the first m, as Emit appends them to kids.
Added(kids, m, nodes) == Cat(kids, [i \in DOMAIN nodes |-> m + i])

LEMMA AddedFacts ==
  ASSUME NEW m \in Nat, NEW nodes \in Seq(Fresh), NEW kids \in Seq(Nat)
  PROVE  /\ Added(kids, m, nodes) \in Seq(Nat) /\ Len(Added(kids, m, nodes)) = Len(kids) + Len(nodes)
         /\ \A i \in 1..Len(kids) : Added(kids, m, nodes)[i] = kids[i]
         /\ \A i \in (Len(kids) + 1)..(Len(kids) + Len(nodes)) :
              Added(kids, m, nodes)[i] = m + (i - Len(kids))
<1> DEFINE added == [i \in DOMAIN nodes |-> m + i]
           c == Cat(kids, added)
<1>1. DOMAIN nodes = 1..Len(nodes) /\ Len(nodes) \in Nat /\ Len(kids) \in Nat
  OBVIOUS
<1>2. added \in Seq(Nat) /\ Len(added) = Len(nodes) /\ DOMAIN added = 1..Len(nodes)
      /\ \A i \in DOMAIN nodes : added[i] = m + i
  BY <1>1
<1> HIDE DEF added
<1>3. /\ c \in Seq(Nat) /\ Len(c) = Len(kids) + Len(nodes)
      /\ \A i \in 1..Len(kids) : c[i] = kids[i]
      /\ \A i \in (Len(kids) + 1)..(Len(kids) + Len(nodes)) : c[i] = added[i - Len(kids)]
  <2>1. added \in Seq(Nat)
    BY <1>2
  <2>2. /\ c \in Seq(Nat) /\ Len(c) = Len(kids) + Len(added)
        /\ \A i \in 1..Len(kids) : c[i] = kids[i]
        /\ \A i \in (Len(kids) + 1)..(Len(kids) + Len(added)) : c[i] = added[i - Len(kids)]
    BY <2>1, CatFacts
  <2> HIDE DEF c
  <2> QED
    BY <2>2, <1>2
<1> HIDE DEF c
<1>4. ASSUME NEW i \in (Len(kids) + 1)..(Len(kids) + Len(nodes)) PROVE c[i] = m + (i - Len(kids))
  <2>1. i - Len(kids) \in DOMAIN nodes
    BY <1>1
  <2> QED
    BY <2>1, <1>2, <1>3
<1> QED
  BY <1>3, <1>4 DEF added, c, Added

LEMMA EmitEffect ==
  ASSUME TypeOK, NEW nodes \in Seq(Fresh), Emit(nodes)
  PROVE  /\ Grown(nodes)
         /\ \A q \in DOMAIN out : out'[q].kids = IF q = Top THEN Added(out[q].kids, Len(out), nodes)
                                                 ELSE out[q].kids
<1> DEFINE m    == Len(out)
           old  == out[Top].kids
           kids == Added(old, m, nodes)
           base == [out EXCEPT ![Top] = [out[Top] EXCEPT !.kids = kids]]
<1>0. /\ out \in Seq(OutNode) /\ m \in Nat \ {0} /\ DOMAIN out = 1..m /\ Top \in DOMAIN out
      /\ out[Top] \in OutNode /\ old \in Seq(Nat) /\ Len(old) \in Nat /\ old = out[Top].kids
      /\ \A p \in DOMAIN out : \A i \in DOMAIN out[p].kids : out[p].kids[i] \in DOMAIN out \ {1}
  BY StackFacts, TypeParts DEF OutOK
<1>2. out' = Cat(base, nodes) /\ kids = Added(old, m, nodes)
  BY DEF Emit, Added, Cat
<1> HIDE DEF kids, old
<1>1. /\ kids \in Seq(Nat) /\ Len(kids) = Len(old) + Len(nodes)
      /\ \A i \in 1..Len(old) : kids[i] = old[i]
      /\ \A i \in (Len(old) + 1)..(Len(old) + Len(nodes)) : kids[i] = m + (i - Len(old))
  <2>1. m \in Nat /\ old \in Seq(Nat)
    BY <1>0
  <2>2. /\ Added(old, m, nodes) \in Seq(Nat) /\ Len(Added(old, m, nodes)) = Len(old) + Len(nodes)
        /\ \A i \in 1..Len(old) : Added(old, m, nodes)[i] = old[i]
        /\ \A i \in (Len(old) + 1)..(Len(old) + Len(nodes)) :
              Added(old, m, nodes)[i] = m + (i - Len(old))
    BY <2>1, AddedFacts
  <2> QED
    BY <2>2, <1>2
<1>3. [out[Top] EXCEPT !.kids = kids] \in OutNode /\ [out[Top] EXCEPT !.kids = kids].kids = kids
  BY <1>0, <1>1, KidsReplaced
<1>4. base \in Seq(OutNode) /\ Len(base) = m
  BY <1>0, <1>3
<1>5. ASSUME NEW q \in DOMAIN out
      PROVE  /\ base[q] = [out[q] EXCEPT !.kids = base[q].kids]
             /\ base[q].kids = IF q = Top THEN kids ELSE out[q].kids
  <2>1. CASE q = Top
    <3>1. base[q] = [out[Top] EXCEPT !.kids = kids]
      BY <1>0, <2>1
    <3>2. base[q].kids = kids
      BY <3>1, <1>3
    <3> HIDE DEF base
    <3> QED
      BY <3>1, <3>2, <2>1
  <2>2. CASE q # Top
    <3>1. base[q] = out[q]
      BY <1>0, <2>2
    <3>2. out[q] = [out[q] EXCEPT !.kids = out[q].kids]
      <4>1. out[q] \in OutNode /\ out[q].kids \in Seq(Nat)
        BY StackFacts
      <4> QED
        BY <4>1, KidsReplaced
    <3> HIDE DEF base
    <3> QED
      BY <3>1, <3>2, <2>2
  <2> QED
    BY <2>1, <2>2
<1> HIDE DEF base
<1>6. nodes \in Seq(OutNode) /\ Len(nodes) \in Nat /\ DOMAIN nodes = 1..Len(nodes)
  BY DEF Fresh
<1>7. /\ out' \in Seq(OutNode) /\ Len(out') = m + Len(nodes) /\ DOMAIN out' = 1..(m + Len(nodes))
      /\ \A q \in 1..m : out'[q] = base[q]
      /\ \A k \in (m + 1)..(m + Len(nodes)) : out'[k] = nodes[k - m]
  <2>1. base \in Seq(OutNode) /\ nodes \in Seq(OutNode)
    BY <1>4, <1>6
  <2>2. /\ Cat(base, nodes) \in Seq(OutNode) /\ Len(Cat(base, nodes)) = Len(base) + Len(nodes)
        /\ DOMAIN Cat(base, nodes) = 1..(Len(base) + Len(nodes))
        /\ \A i \in 1..Len(base) : Cat(base, nodes)[i] = base[i]
        /\ \A i \in (Len(base) + 1)..(Len(base) + Len(nodes)) :
             Cat(base, nodes)[i] = nodes[i - Len(base)]
    BY <2>1, CatFacts
  <2> QED
    BY <2>2, <1>2, <1>4
<1>8. ASSUME NEW i \in DOMAIN nodes PROVE out'[m + i] = nodes[i]
  <2>1. m + i \in (m + 1)..(m + Len(nodes)) /\ (m + i) - m = i
    BY <1>0, <1>6
  <2> QED
    BY <2>1, <1>7
<1>9. ASSUME NEW p \in DOMAIN out', NEW i \in DOMAIN out'[p].kids
      PROVE  out'[p].kids[i] \in DOMAIN out' \ {1}
  <2>1. CASE p \in DOMAIN out /\ p # Top
    <3>1. out'[p].kids = out[p].kids
      BY <2>1, <1>0, <1>5, <1>7
    <3>2. out[p].kids[i] \in DOMAIN out \ {1}
      BY <2>1, <3>1, <1>0, <1>9
    <3> QED
      BY <3>1, <3>2, <1>0, <1>6, <1>7
  <2>2. CASE p = Top
    <3>1. out'[p].kids = kids /\ Len(old) \in Nat
      <4>1. p \in 1..m /\ base[p].kids = kids
        BY <2>2, <1>0, <1>5
      <4> QED
        BY <4>1, <1>0, <1>7
    <3>2. i \in 1..(Len(old) + Len(nodes))
      BY <3>1, <1>1, <1>9
    <3>3. CASE i <= Len(old)
      <4>1. i \in DOMAIN old /\ kids[i] = old[i]
        BY <3>1, <3>2, <3>3, <1>0, <1>1
      <4>2. kids[i] \in DOMAIN out \ {1}
        BY <4>1, <1>0
      <4> QED
        BY <3>1, <4>2, <1>0, <1>6, <1>7
    <3>4. CASE ~(i <= Len(old))
      <4>0. i \in (Len(old) + 1)..(Len(old) + Len(nodes)) /\ i - Len(old) \in 1..Len(nodes)
        BY <3>1, <3>2, <3>4, <1>6
      <4>1. kids[i] = m + (i - Len(old)) /\ i - Len(old) \in 1..Len(nodes)
        BY <4>0, <1>1
      <4> QED
        BY <3>1, <4>1, <1>0, <1>6, <1>7
    <3> QED
      BY <3>3, <3>4
  <2>3. CASE p \notin DOMAIN out
    <3>1. p - m \in DOMAIN nodes /\ m + (p - m) = p
      BY <2>3, <1>0, <1>6, <1>7, <1>9
    <3>2. out'[p].kids = << >>
      <4>1. nodes[p - m].kids = << >>
        BY <3>1 DEF Fresh
      <4> QED
        BY <3>1, <4>1, <1>8
    <3> QED
      BY <3>2, <1>9
  <2> QED
    BY <2>1, <2>2, <2>3
<1>10. OutOK'
  BY <1>7, <1>9 DEF OutOK
<1>11. \A q \in DOMAIN out : /\ out'[q] = [out[q] EXCEPT !.kids = out'[q].kids]
                             /\ out'[q].kids = IF q = Top THEN kids ELSE out[q].kids
  BY <1>0, <1>5, <1>7
<1>12. Grown(nodes)
  BY <1>7, <1>8, <1>10, <1>11 DEF Grown
<1> QED
  BY <1>2, <1>11, <1>12 DEF old

LEMMA EnterEffect ==
  ASSUME TypeOK, NEW node \in Fresh, Enter(node)
  PROVE  Grown(<<node>>) /\ \A q \in DOMAIN out : out'[q] = out[q]
<1> DEFINE m == Len(out)
<1>0. /\ out \in Seq(OutNode) /\ m \in Nat /\ DOMAIN out = 1..m
      /\ \A p \in DOMAIN out : \A i \in DOMAIN out[p].kids : out[p].kids[i] \in DOMAIN out \ {1}
  BY StackFacts, TypeParts DEF OutOK
<1>1. /\ out' = Append(out, node) /\ node \in OutNode /\ node.kids = << >>
  BY DEF Enter, Fresh
<1>2. /\ out' \in Seq(OutNode) /\ Len(out') = m + 1 /\ DOMAIN out' = 1..(m + 1)
      /\ out'[m + 1] = node /\ \A q \in DOMAIN out : out'[q] = out[q]
  BY <1>0, <1>1
<1>3. ASSUME NEW p \in DOMAIN out', NEW i \in DOMAIN out'[p].kids
      PROVE  out'[p].kids[i] \in DOMAIN out' \ {1}
  <2>1. p # m + 1
    BY <1>1, <1>2, <1>3
  <2>2. p \in DOMAIN out /\ out'[p] = out[p]
    BY <2>1, <1>0, <1>2
  <2>3. out[p].kids[i] \in DOMAIN out \ {1}
    BY <2>2, <1>0, <1>3
  <2> QED
    BY <2>2, <2>3, <1>0, <1>2
<1>4. OutOK'
  BY <1>2, <1>3 DEF OutOK
<1>5. \A q \in DOMAIN out : out[q] = [out[q] EXCEPT !.kids = out[q].kids]
  <2>1. ASSUME NEW q \in DOMAIN out PROVE out[q] = [out[q] EXCEPT !.kids = out[q].kids]
    <3>1. out[q] \in OutNode /\ out[q].kids \in Seq(Nat)
      BY StackFacts
    <3> QED
      BY <3>1, KidsReplaced
  <2> QED
    BY <2>1
<1>6. <<node>> \in Seq(Fresh) /\ Len(<<node>>) = 1 /\ \A i \in DOMAIN <<node>> : i = 1 /\ <<node>>[i] = node
  OBVIOUS
<1> QED
  BY <1>2, <1>4, <1>5, <1>6 DEF Grown

LEMMA CloseEffect ==
  ASSUME TypeOK, StackRises, CloseBlock
  PROVE  LET n == Len(stack_) IN
         /\ n > 1 /\ Grown(<< >>)
         /\ stack_' \in Seq(DOMAIN out) /\ Len(stack_') = n - 1
         /\ \A i \in 1..(n - 1) : stack_'[i] = stack_[i]
         /\ \A q \in DOMAIN out : out'[q].kids = IF q = stack_[n - 1] THEN Append(out[q].kids, Top)
                                                 ELSE out[q].kids
<1> DEFINE n == Len(stack_)
           parent == stack_[n - 1]
<1>0. /\ out \in Seq(OutNode) /\ DOMAIN out = 1..Len(out) /\ Len(out) \in Nat \ {0}
      /\ stack_ \in Seq(DOMAIN out) /\ n \in Nat \ {0} /\ DOMAIN stack_ = 1..n
      /\ Top = stack_[n] /\ Top \in DOMAIN out /\ stack_[1] = 1
      /\ rest \in Seq(0..Len(global)) /\ Matched
      /\ \A p \in DOMAIN out : \A i \in DOMAIN out[p].kids : out[p].kids[i] \in DOMAIN out \ {1}
  BY StackFacts, TypeParts DEF OutOK, StackOK, RestOK, Top
<1>1. n > 1
  <2>1. 1 \in Closings(rest)
    BY <1>0 DEF CloseBlock, Closings, Places
  <2>2. Cardinality(Closings(rest)) >= 1
    BY <2>1, <1>0, ClosingsFinite
  <2> QED
    BY <2>2, <1>0 DEF Matched
<1>2. /\ stack_' \in Seq(DOMAIN out) /\ Len(stack_') = n - 1
      /\ \A i \in 1..(n - 1) : stack_'[i] = stack_[i]
  <2> DEFINE k == n - 1
  <2>0. stack_' = SubSeq(stack_, 1, k)
    BY DEF CloseBlock
  <2>1. k \in Nat \ {0} /\ stack_' = SubSeq(stack_, 1, k) /\ k <= Len(stack_)
    <3> HIDE DEF n
    <3>1. n \in Nat /\ n > 1
      BY <1>0, <1>1
    <3>2. k \in Nat \ {0} /\ k <= n
      BY <3>1
    <3> QED
      BY <2>0, <3>2 DEF n
  <2> HIDE DEF k
  <2>2. stack_' \in Seq(DOMAIN out) /\ Len(stack_') = k /\ \A i \in 1..k : stack_'[i] = stack_[i]
    BY <1>0, <2>1
  <2> QED
    BY <2>2 DEF k
<1>3. /\ parent \in DOMAIN out /\ parent \in Nat /\ Top \in DOMAIN out \ {1}
      /\ out' = [out EXCEPT ![parent] = [out[parent] EXCEPT !.kids = Append(out[parent].kids, Top)]]
  <2>1. n - 1 \in DOMAIN stack_ /\ 1 \in DOMAIN stack_ /\ n \in DOMAIN stack_ /\ 1 < n
    BY <1>0, <1>1
  <2>2. parent \in DOMAIN out /\ parent \in Nat
    <3>1. parent \in 1..Len(out)
      BY <2>1, StackFacts
    <3> HIDE DEF parent
    <3> QED
      BY <3>1, <1>0
  <2>3. stack_[1] < stack_[n]
    BY <2>1 DEF StackRises
  <2>4. Top # 1
    BY <2>3, <1>0
  <2> QED
    BY <2>2, <2>4, <1>0 DEF CloseBlock
<1> HIDE DEF n, parent
<1> DEFINE kids == Append(out[parent].kids, Top)
<1>4. /\ out[parent] \in OutNode /\ out[parent].kids \in Seq(Nat)
      /\ kids \in Seq(Nat) /\ Len(kids) = Len(out[parent].kids) + 1
      /\ kids[Len(out[parent].kids) + 1] = Top
      /\ \A i \in DOMAIN out[parent].kids : kids[i] = out[parent].kids[i]
      /\ \A i \in DOMAIN kids : i \in DOMAIN out[parent].kids \/ i = Len(out[parent].kids) + 1
  <2> DEFINE old == out[parent].kids
             x == Top
  <2>1. out[parent] \in OutNode /\ old \in Seq(Nat)
    BY <1>3, StackFacts
  <2>2. x \in Nat
    BY <1>0
  <2> HIDE DEF old, x
  <2> DEFINE new == Append(old, x)
  <2>3. /\ new \in Seq(Nat) /\ Len(new) = Len(old) + 1 /\ new[Len(old) + 1] = x
        /\ \A i \in DOMAIN old : new[i] = old[i]
        /\ \A i \in DOMAIN new : i \in DOMAIN old \/ i = Len(old) + 1
    BY <2>1, <2>2
  <2>4. kids = new
    BY DEF old, x
  <2> HIDE DEF new
  <2> QED
    BY <2>1, <2>3, <2>4 DEF old, x
<1> HIDE DEF kids
<1>5. [out[parent] EXCEPT !.kids = kids] \in OutNode /\ [out[parent] EXCEPT !.kids = kids].kids = kids
  BY <1>4, KidsReplaced
<1>6. out' = [out EXCEPT ![parent] = [out[parent] EXCEPT !.kids = kids]]
  BY <1>3 DEF kids
<1>7. out' \in Seq(OutNode) /\ Len(out') = Len(out) /\ DOMAIN out' = DOMAIN out
  <2> DEFINE new == [out[parent] EXCEPT !.kids = kids]
  <2>1. out \in Seq(OutNode) /\ new \in OutNode /\ out' = [out EXCEPT ![parent] = new]
    BY <1>0, <1>5, <1>6
  <2> HIDE DEF new
  <2> DEFINE t == [out EXCEPT ![parent] = new]
  <2>2. t \in Seq(OutNode) /\ Len(t) = Len(out) /\ DOMAIN t = DOMAIN out
    <3>1. DOMAIN out = 1..Len(out) /\ Len(out) \in Nat /\ parent \in DOMAIN out
      BY <1>0, <1>3
    <3>2. \A q \in 1..Len(out) : out[q] \in OutNode
      BY <2>1, <3>1
    <3>3. t \in [1..Len(out) -> OutNode]
      BY <2>1, <3>1, <3>2
    <3>4. Len(out) \in Nat
      BY <3>1
    <3> HIDE DEF t
    <3>5. t \in Seq(OutNode) /\ Len(t) = Len(out) /\ DOMAIN t = 1..Len(out)
      BY <3>3, <3>4
    <3> QED
      BY <3>1, <3>5
  <2>3. out' = t
    BY <2>1
  <2> HIDE DEF t
  <2> QED
    BY <2>2, <2>3
<1>8. ASSUME NEW q \in DOMAIN out
      PROVE  /\ out'[q] = [out[q] EXCEPT !.kids = out'[q].kids]
             /\ out'[q].kids = IF q = parent THEN kids ELSE out[q].kids
  <2>1. CASE q = parent
    <3>1. out'[q] = [out[parent] EXCEPT !.kids = kids]
      BY <1>0, <1>6, <2>1
    <3> QED
      BY <3>1, <2>1, <1>5
  <2>2. CASE q # parent
    <3>1. out'[q] = out[q]
      BY <1>0, <1>6, <2>2
    <3>2. out[q] = [out[q] EXCEPT !.kids = out[q].kids]
      <4>1. out[q] \in OutNode /\ out[q].kids \in Seq(Nat)
        BY StackFacts
      <4> QED
        BY <4>1, KidsReplaced
    <3> QED
      BY <3>1, <3>2, <2>2
  <2> QED
    BY <2>1, <2>2
<1>9. ASSUME NEW p \in DOMAIN out', NEW i \in DOMAIN out'[p].kids
      PROVE  out'[p].kids[i] \in DOMAIN out' \ {1}
  <2>1. CASE p # parent
    <3>1. out'[p].kids = out[p].kids /\ p \in DOMAIN out
      BY <2>1, <1>7, <1>8
    <3> QED
      BY <3>1, <1>0, <1>7, <1>9
  <2>2. CASE p = parent
    <3>1. out'[p].kids = kids
      BY <2>2, <1>7, <1>8
    <3>2. kids[i] \in DOMAIN out \ {1}
      BY <3>1, <1>0, <1>3, <1>4, <1>9
    <3> QED
      BY <3>1, <3>2, <1>7
  <2> QED
    BY <2>1, <2>2
<1>10. Grown(<< >>)
  <2>1. << >> \in Seq(Fresh) /\ Len(<< >>) = 0 /\ DOMAIN << >> = {}
    OBVIOUS
  <2>2. OutOK'
    BY <1>7, <1>9 DEF OutOK
  <2>3. Len(out') = Len(out) + Len(<< >>)
    BY <2>1, <1>0, <1>7
  <2> QED
    BY <2>1, <2>2, <2>3, <1>8 DEF Grown
<1>11. \A q \in DOMAIN out : out'[q].kids = IF q = parent THEN Append(out[q].kids, Top) ELSE out[q].kids
  BY <1>8 DEF kids
<1> QED
  BY <1>1, <1>2, <1>10, <1>11 DEF n, parent

-----------------------------------------------------------------------------
\* Neither the tree nor the endpoint changes, and what is said of them stays true.
LEMMA TreeKept ==
  ASSUME UNCHANGED <<global, endpoint>>, NEW n
  PROVE  /\ Receivers(n)' = Receivers(n) /\ Ordinary' = Ordinary /\ SentBy(n)' = SentBy(n)
         /\ HeardOf(n)' = HeardOf(n) /\ SaidBy(n)' = SaidBy(n)
<1>1. Receivers(n)' = Receivers(n)
  BY DEF Receivers, Receiving, Matches, SameRole
<1>2. Ordinary' = Ordinary /\ SentBy(n)' = SentBy(n)
  BY DEF Ordinary, SentBy, Matches, SameRole
<1>3. Hearing(n)' = Hearing(n)
  BY <1>1 DEF Hearing
<1>4. HeardOf(n)' = HeardOf(n) /\ SaidBy(n)' = SaidBy(n)
  BY <1>1, <1>2, <1>3 DEF HeardOf, SaidBy
<1> QED
  BY <1>1, <1>2, <1>3, <1>4

LEMMA NodeKept ==
  ASSUME UNCHANGED <<global, endpoint>>, NEW a, NEW b,
         a.src = b.src, a.class = b.class, a.sndr = b.sndr, a.cond = b.cond
  PROVE  /\ Sent(a)' <=> Sent(b)
         /\ Got(a)' <=> Got(b)
         /\ Fits(a)' <=> Fits(b)
<1> DEFINE n == b.src
<1>1. /\ Receivers(n)' = Receivers(n) /\ Ordinary' = Ordinary /\ SentBy(n)' = SentBy(n)
  BY TreeKept
<1>2. Sent(a)' <=> Sent(b)
  BY DEF Sent
<1>3. Got(a)' <=> Got(b)
  BY <1>2 DEF Got
<1>4. Matches(a.cond, endpoint)' <=> Matches(b.cond, endpoint)
  BY DEF Matches, SameRole
<1>5. Fits(a)' <=> Fits(b)
  BY <1>1, <1>2, <1>3, <1>4 DEF Fits
<1> QED
  BY <1>2, <1>3, <1>5

LEMMA GrownFacts ==
  ASSUME TypeOK, NEW nodes, Grown(nodes), UNCHANGED <<global, endpoint>>
  PROVE  /\ Len(nodes) \in Nat /\ DOMAIN nodes = 1..Len(nodes) /\ nodes \in Seq(Fresh)
         /\ DOMAIN out = 1..Len(out) /\ Len(out) \in Nat /\ DOMAIN out' = 1..(Len(out) + Len(nodes))
         /\ \A k \in DOMAIN out :
              /\ k \in DOMAIN out' /\ out'[k].src = out[k].src
              /\ (IsSend(k)' <=> IsSend(k)) /\ (IsReceive(k)' <=> IsReceive(k))
              /\ Fits(out[k])' <=> Fits(out[k])
         /\ \A k \in DOMAIN out' : k \notin DOMAIN out =>
              k - Len(out) \in DOMAIN nodes /\ out'[k] = nodes[k - Len(out)]
<1>1. /\ nodes \in Seq(Fresh) /\ Len(nodes) \in Nat /\ DOMAIN nodes = 1..Len(nodes)
      /\ DOMAIN out = 1..Len(out) /\ Len(out) \in Nat
      /\ out' \in Seq(OutNode) /\ Len(out') = Len(out) + Len(nodes)
  BY StackFacts DEF Grown, OutOK
<1>2. DOMAIN out' = 1..(Len(out) + Len(nodes))
  BY <1>1
<1>3. ASSUME NEW k \in DOMAIN out
      PROVE  /\ k \in DOMAIN out' /\ out'[k].src = out[k].src
             /\ (IsSend(k)' <=> IsSend(k)) /\ (IsReceive(k)' <=> IsReceive(k))
             /\ Fits(out[k])' <=> Fits(out[k])
  <2>1. k \in DOMAIN out'
    BY <1>1, <1>2
  <2>2. out[k] \in OutNode /\ out'[k] = [out[k] EXCEPT !.kids = out'[k].kids]
    BY StackFacts DEF Grown
  <2>3. /\ out'[k].src = out[k].src /\ out'[k].class = out[k].class
        /\ out'[k].sndr = out[k].sndr /\ out'[k].cond = out[k].cond
    <3> DEFINE o == out[k]
               l == out'[k].kids
    <3>1. o \in OutNode /\ out'[k] = [o EXCEPT !.kids = l]
      BY <2>2
    <3> HIDE DEF o, l
    <3> QED
      BY <3>1 DEF OutNode, o
  <2>4. (IsSend(k)' <=> IsSend(k)) /\ (IsReceive(k)' <=> IsReceive(k))
    BY <2>3 DEF IsSend, IsReceive
  <2>5. Fits(out[k])' <=> Fits(out[k])
    BY <2>3, NodeKept
  <2> QED
    BY <2>1, <2>3, <2>4, <2>5
<1>4. ASSUME NEW k \in DOMAIN out', k \notin DOMAIN out
      PROVE  k - Len(out) \in DOMAIN nodes /\ out'[k] = nodes[k - Len(out)]
  <2>1. k - Len(out) \in DOMAIN nodes /\ Len(out) + (k - Len(out)) = k
    BY <1>1, <1>2, <1>4
  <2>2. out'[Len(out) + (k - Len(out))] = nodes[k - Len(out)]
    BY <2>1 DEF Grown
  <2> QED
    BY <2>1, <2>2
<1> QED
  BY <1>1, <1>2, <1>3, <1>4

\* Nodes for This fit, are not for what is lost, and stand before what is to come.
LEMMA FitsGrown ==
  ASSUME TypeOK, NodesFit, NEW n, NEW nodes, GoodNodes(n, nodes), Grown(nodes),
         UNCHANGED <<global, endpoint>>
  PROVE  NodesFit'
<1> SUFFICES ASSUME NEW k \in DOMAIN out' PROVE Fits(out[k])'
  BY DEF NodesFit
<1>1. CASE k \in DOMAIN out
  BY <1>1, GrownFacts DEF NodesFit
<1>2. CASE k \notin DOMAIN out
  <2>1. k - Len(out) \in DOMAIN nodes /\ out'[k] = nodes[k - Len(out)]
    BY <1>2, GrownFacts
  <2>2. Fits(nodes[k - Len(out)])
    BY <2>1 DEF GoodNodes
  <2> QED
    BY <2>1, <2>2, NodeKept
<1> QED
  BY <1>1, <1>2

LEMMA KeptGrown ==
  ASSUME TypeOK, SourcesKept, NEW nodes, \A i \in DOMAIN nodes : nodes[i].src \notin Lost,
         Grown(nodes), UNCHANGED <<global, endpoint>>
  PROVE  SourcesKept'
<1>1. Lost' = Lost
  BY DEF Lost
<1> SUFFICES ASSUME NEW k \in DOMAIN out' PROVE out'[k].src \notin Lost
  BY <1>1 DEF SourcesKept
<1>2. CASE k \in DOMAIN out
  BY <1>2, GrownFacts DEF SourcesKept
<1>3. CASE k \notin DOMAIN out
  BY <1>3, GrownFacts
<1> QED
  BY <1>2, <1>3

-----------------------------------------------------------------------------
\* What a step puts in front of the calls to come: nothing, or the children of the
\* statement that is visited, with a closing or without.
Pushes(a) ==
  /\ rest # << >> /\ a \in Seq(0..Len(global)) /\ rest' = Cat(a, Tail(rest))
  /\ UNCHANGED <<global, endpoint>>
  /\ \A i \in DOMAIN a : a[i] # Close =>
       /\ Called /\ global[This].class \notin DroppedClass
       /\ i \in DOMAIN global[This].kids /\ a[i] = global[This].kids[i]

\* A call to come after the step is one of those, or was to come before it.
NewCall(a, i)   == /\ i \in DOMAIN a /\ a[i] # Close /\ rest'[i] = a[i]
OldCall(a, i)   == /\ i - Len(a) + 1 \in ToCome /\ 1 < i - Len(a) + 1 /\ Len(a) < i
                   /\ rest'[i] = rest[i - Len(a) + 1]

LEMMA RestFacts ==
  ASSUME RestOK, global \in Seq(SourceNode)
  PROVE  /\ DOMAIN rest = 1..Len(rest) /\ Len(rest) \in Nat /\ ToCome \subseteq Nat \ {0}
         /\ \A i \in ToCome : rest[i] \in DOMAIN global /\ rest[i] \in Nat \ {0}
         /\ rest # << >> => /\ 1 \in DOMAIN rest /\ This = rest[1]
                            /\ This # Close => 1 \in ToCome
BY DEF RestOK, ToCome, Close, This

LEMMA PushesFacts ==
  ASSUME RestOK, NEW a, Pushes(a)
  PROVE  /\ rest' \in Seq(0..Len(global)) /\ Len(rest') = Len(a) + (Len(rest) - 1)
         /\ DOMAIN rest' = 1..(Len(a) + (Len(rest) - 1))
         /\ Len(a) \in Nat /\ Len(rest) \in Nat \ {0} /\ DOMAIN a = 1..Len(a)
         /\ \A i \in 1..Len(a) : rest'[i] = a[i]
         /\ \A i \in (Len(a) + 1)..(Len(a) + (Len(rest) - 1)) : rest'[i] = rest[i - Len(a) + 1]
<1> DEFINE t == Tail(rest)
<1>1. /\ rest \in Seq(0..Len(global)) /\ rest # << >> /\ a \in Seq(0..Len(global))
      /\ rest' = Cat(a, t)
  BY DEF RestOK, Pushes
<1>2. /\ t \in Seq(0..Len(global)) /\ Len(t) = Len(rest) - 1 /\ Len(rest) \in Nat \ {0}
      /\ \A i \in 1..(Len(rest) - 1) : t[i] = rest[i + 1]
  BY <1>1
<1> HIDE DEF t
<1>3. /\ Cat(a, t) \in Seq(0..Len(global)) /\ Len(Cat(a, t)) = Len(a) + Len(t)
      /\ DOMAIN Cat(a, t) = 1..(Len(a) + Len(t))
      /\ Len(a) \in Nat
      /\ \A i \in 1..Len(a) : Cat(a, t)[i] = a[i]
      /\ \A i \in (Len(a) + 1)..(Len(a) + Len(t)) : Cat(a, t)[i] = t[i - Len(a)]
  <2> DEFINE S == 0..Len(global)
  <2>1. a \in Seq(S) /\ t \in Seq(S)
    BY <1>1, <1>2
  <2> HIDE DEF S
  <2>2. /\ Cat(a, t) \in Seq(S) /\ Len(Cat(a, t)) = Len(a) + Len(t)
        /\ DOMAIN Cat(a, t) = 1..(Len(a) + Len(t))
        /\ Len(a) \in Nat
        /\ \A i \in 1..Len(a) : Cat(a, t)[i] = a[i]
        /\ \A i \in (Len(a) + 1)..(Len(a) + Len(t)) : Cat(a, t)[i] = t[i - Len(a)]
    BY <2>1, CatFacts
  <2> QED
    BY <2>2 DEF S
<1>4. ASSUME NEW i \in (Len(a) + 1)..(Len(a) + (Len(rest) - 1))
      PROVE  rest'[i] = rest[i - Len(a) + 1]
  <2>1. i - Len(a) \in 1..(Len(rest) - 1)
    BY <1>2, <1>3
  <2>2. rest'[i] = t[i - Len(a)]
    BY <1>1, <1>2, <1>3
  <2> QED
    BY <2>1, <2>2, <1>2
<1>5. DOMAIN a = 1..Len(a)
  BY <1>1
<1> QED
  BY <1>1, <1>2, <1>3, <1>4, <1>5

LEMMA CallsToCome ==
  ASSUME RestOK, NEW a, Pushes(a), NEW i \in ToCome'
  PROVE  /\ i \in Nat /\ rest'[i] # Close /\ Len(a) \in Nat
         /\ (NewCall(a, i) /\ i <= Len(a)) \/ OldCall(a, i)
<1>1. i \in 1..(Len(a) + (Len(rest) - 1)) /\ rest'[i] # Close
  BY PushesFacts DEF ToCome, Close
<1>2. Len(a) \in Nat /\ Len(rest) \in Nat \ {0} /\ DOMAIN a = 1..Len(a) /\ DOMAIN rest = 1..Len(rest)
  BY PushesFacts DEF RestOK
<1>3. CASE i <= Len(a)
  <2>1. i \in 1..Len(a)
    BY <1>1, <1>2, <1>3
  <2>2. rest'[i] = a[i]
    BY <2>1, PushesFacts
  <2> QED
    BY <2>1, <2>2, <1>1, <1>2 DEF NewCall
<1>4. CASE ~(i <= Len(a))
  <2>1. /\ i \in (Len(a) + 1)..(Len(a) + (Len(rest) - 1)) /\ Len(a) < i
        /\ i - Len(a) + 1 \in 1..Len(rest) /\ 1 < i - Len(a) + 1
    BY <1>1, <1>2, <1>4
  <2>2. rest'[i] = rest[i - Len(a) + 1]
    BY <2>1, PushesFacts
  <2>3. i - Len(a) + 1 \in ToCome
    BY <2>1, <2>2, <1>1, <1>2 DEF ToCome
  <2> QED
    BY <2>1, <2>2, <2>3, <1>1, <1>2 DEF OldCall
<1> QED
  BY <1>1, <1>2, <1>3, <1>4

\* A child that is pushed, and a call to come behind it.
LEMMA NewCallFacts ==
  ASSUME Chosen, RestOK, NEW a, Pushes(a), NEW i, NewCall(a, i)
  PROVE  /\ This \in DOMAIN global /\ 1 \in ToCome /\ This = rest[1] /\ This \in Nat \ {0}
         /\ global[This].class \notin DroppedClass
         /\ i \in DOMAIN global[This].kids /\ rest'[i] = global[This].kids[i]
         /\ rest'[i] \in DOMAIN global /\ rest'[i] \in Nat /\ This < rest'[i]
<1>1. /\ Called /\ global[This].class \notin DroppedClass
      /\ i \in DOMAIN global[This].kids /\ rest'[i] = global[This].kids[i]
  BY DEF NewCall, Pushes
<1>2. This \in DOMAIN global /\ 1 \in ToCome /\ This = rest[1] /\ This \in Nat \ {0}
  BY <1>1, RestFacts, TreeFacts DEF Called
<1> QED
  BY <1>1, <1>2, KidFacts, TreeFacts

\* The children of the statement that is visited precede all the other calls to come.
LEMMA NewBeforeOld ==
  ASSUME Chosen, RestOK, RestRises, HoldersBehind, NEW a, Pushes(a),
         NEW i, NewCall(a, i), NEW j, OldCall(a, j)
  PROVE  rest'[i] < rest'[j]
<1> DEFINE l == j - Len(a) + 1
<1>1. l \in ToCome /\ 1 < l /\ rest'[j] = rest[l]
  BY DEF OldCall
<1>2. /\ This \in DOMAIN global /\ 1 \in ToCome /\ This = rest[1] /\ This \in Nat \ {0}
      /\ i \in DOMAIN global[This].kids /\ rest'[i] = global[This].kids[i]
  BY NewCallFacts
<1> HIDE DEF l
<1>3. This < rest[l] /\ rest[l] \in DOMAIN global /\ rest[l] \in Nat
  BY <1>1, <1>2, RestFacts, TreeFacts DEF RestRises
<1>4. rest[l] # 1
  BY <1>2, <1>3
<1>5. PICK p \in DOMAIN global : \E k \in DOMAIN global[p].kids : global[p].kids[k] = rest[l]
  BY <1>3, <1>4, HasHolder, TreeFacts
<1>6. PICK k \in DOMAIN global[p].kids : global[p].kids[k] = rest[l]
  BY <1>5
<1>7. p < This
  BY <1>1, <1>2, <1>6 DEF HoldersBehind
<1>8. global[This].kids[i] < global[p].kids[k]
  BY <1>2, <1>3, <1>6, <1>7, KidBeforeUncle, TreeFacts
<1> QED
  BY <1>1, <1>2, <1>6, <1>8

LEMMA OldCalls ==
  ASSUME NEW a, Len(a) \in Nat, NEW i \in Nat, NEW j \in Nat, i < j, OldCall(a, i)
  PROVE  ~NewCall(a, j) \/ ~(j <= Len(a))
BY DEF OldCall

LEMMA RestRisesKept ==
  ASSUME Chosen, RestOK, RestRises, HoldersBehind, NEW a, Pushes(a)
  PROVE  RestRises'
<1> SUFFICES ASSUME NEW i \in ToCome', NEW j \in ToCome', i < j PROVE rest'[i] < rest'[j]
  BY DEF RestRises
<1>0. /\ i \in Nat /\ j \in Nat /\ Len(a) \in Nat
      /\ (NewCall(a, i) /\ i <= Len(a)) \/ OldCall(a, i)
      /\ (NewCall(a, j) /\ j <= Len(a)) \/ OldCall(a, j)
  BY CallsToCome
<1>1. CASE NewCall(a, i) /\ NewCall(a, j)
  <2>1. /\ This \in DOMAIN global
        /\ i \in DOMAIN global[This].kids /\ rest'[i] = global[This].kids[i]
        /\ j \in DOMAIN global[This].kids /\ rest'[j] = global[This].kids[j]
    BY <1>1, NewCallFacts
  <2>2. i \in 1..(j - 1)
    <3>1. global[This].kids \in Seq(Nat)
      BY <2>1, StatementFacts
    <3> QED
      BY <2>1, <3>1, <1>0
  <2> QED
    BY <2>1, <2>2, KidFacts, TreeFacts
<1>2. CASE NewCall(a, i) /\ OldCall(a, j)
  BY <1>2, NewBeforeOld
<1>3. CASE OldCall(a, i) /\ OldCall(a, j)
  <2>1. i - Len(a) + 1 < j - Len(a) + 1
    BY <1>0
  <2> QED
    BY <2>1, <1>3 DEF OldCall, RestRises
<1> QED
  BY <1>0, <1>1, <1>2, <1>3, OldCalls

LEMMA HoldersKept ==
  ASSUME Chosen, RestOK, RestRises, HoldersBehind, NEW a, Pushes(a)
  PROVE  HoldersBehind'
<1>0. global' = global
  BY DEF Pushes
<1> SUFFICES ASSUME NEW i \in ToCome', NEW j \in ToCome', i < j, NEW p \in DOMAIN global,
                    NEW k \in DOMAIN global[p].kids, global[p].kids[k] = rest'[j]
             PROVE  p < rest'[i]
  BY <1>0 DEF HoldersBehind
<1>1. /\ i \in Nat /\ j \in Nat /\ Len(a) \in Nat
      /\ (NewCall(a, i) /\ i <= Len(a)) \/ OldCall(a, i)
      /\ (NewCall(a, j) /\ j <= Len(a)) \/ OldCall(a, j)
  BY CallsToCome
<1>2. CASE NewCall(a, i) /\ NewCall(a, j)
  <2>1. /\ This \in DOMAIN global /\ This < rest'[i]
        /\ j \in DOMAIN global[This].kids /\ rest'[j] = global[This].kids[j]
    BY <1>2, NewCallFacts
  <2>2. p = This
    BY <2>1, KidFacts, TreeFacts
  <2> QED
    BY <2>1, <2>2
<1>3. CASE NewCall(a, i) /\ OldCall(a, j)
  <2>1. /\ 1 \in ToCome /\ This = rest[1] /\ This \in Nat /\ rest'[i] \in Nat /\ This < rest'[i]
    BY <1>3, NewCallFacts
  <2>2. p < This
    BY <2>1, <1>3 DEF OldCall, HoldersBehind
  <2>3. p \in Nat
    BY StatementFacts
  <2> QED
    BY <2>1, <2>2, <2>3
<1>4. CASE OldCall(a, i) /\ OldCall(a, j)
  <2>1. i - Len(a) + 1 < j - Len(a) + 1
    BY <1>1
  <2> QED
    BY <2>1, <1>4 DEF OldCall, HoldersBehind
<1> QED
  BY <1>1, <1>2, <1>3, <1>4, OldCalls

LEMMA NotLostKept ==
  ASSUME Chosen, RestOK, NotLost, NEW a, Pushes(a)
  PROVE  NotLost'
<1>0. global' = global
  BY DEF Pushes
<1> SUFFICES ASSUME NEW i \in ToCome', NEW d \in DOMAIN global, global[d].class \in DroppedClass,
                    rest'[i] \in Below(global, d)
             PROVE  d = rest'[i]
  BY <1>0 DEF NotLost
<1>1. NewCall(a, i) \/ OldCall(a, i)
  BY CallsToCome
<1>2. CASE NewCall(a, i)
  <2>1. /\ This \in DOMAIN global /\ 1 \in ToCome /\ This = rest[1]
        /\ global[This].class \notin DroppedClass
        /\ i \in DOMAIN global[This].kids /\ rest'[i] = global[This].kids[i]
    BY <1>2, NewCallFacts
  <2> SUFFICES ASSUME rest'[i] # d PROVE FALSE
    OBVIOUS
  <2>2. This \in Below(global, d)
    BY <2>1, BelowHolder, TreeFacts
  <2> QED
    BY <2>1, <2>2 DEF NotLost
<1>3. CASE OldCall(a, i)
  BY <1>3 DEF OldCall, NotLost
<1> QED
  BY <1>1, <1>2, <1>3

LEMMA SourcesBehindKept ==
  ASSUME Chosen, TypeOK, RestRises, SourcesBehind, NEW a, Pushes(a), NEW nodes, Grown(nodes),
         \A k \in DOMAIN nodes : nodes[k].src = This /\ This # Close
  PROVE  SourcesBehind'
<1>0. RestOK /\ UNCHANGED <<global, endpoint>> /\ global \in Seq(SourceNode) /\ rest # << >>
  BY TypeParts DEF Pushes
<1> SUFFICES ASSUME NEW k \in DOMAIN out', NEW i \in ToCome' PROVE out'[k].src < rest'[i]
  BY DEF SourcesBehind
<1>1. NewCall(a, i) \/ OldCall(a, i)
  BY <1>0, CallsToCome
<1>2. CASE k \in DOMAIN out
  <2>1. out'[k].src = out[k].src /\ out[k].src \in Nat
    BY <1>0, <1>2, GrownFacts, StackFacts
  <2>2. CASE NewCall(a, i)
    <3>1. /\ 1 \in ToCome /\ This = rest[1] /\ This \in Nat
          /\ rest'[i] \in Nat /\ This < rest'[i]
      BY <1>0, <2>2, NewCallFacts
    <3>2. out[k].src < This
      BY <3>1, <1>2 DEF SourcesBehind
    <3> QED
      BY <2>1, <3>1, <3>2
  <2>3. CASE OldCall(a, i)
    BY <2>1, <2>3, <1>2 DEF OldCall, SourcesBehind
  <2> QED
    BY <1>1, <2>2, <2>3
<1>3. CASE k \notin DOMAIN out
  <2>1. k - Len(out) \in DOMAIN nodes /\ out'[k] = nodes[k - Len(out)]
    BY <1>0, <1>3, GrownFacts
  <2>2. out'[k].src = This /\ This # Close
    BY <2>1
  <2>3. CASE NewCall(a, i)
    BY <1>0, <2>2, <2>3, NewCallFacts
  <2>4. CASE OldCall(a, i)
    <3>1. 1 \in ToCome /\ This = rest[1]
      BY <1>0, <2>2, RestFacts
    <3> QED
      BY <2>2, <2>4, <3>1 DEF OldCall, RestRises
  <2> QED
    BY <1>1, <2>3, <2>4
<1> QED
  BY <1>2, <1>3

-----------------------------------------------------------------------------
\* All children of a statement are pushed, unless it is a block that is dropped.
PushesAll(a) == This # Close /\ global[This].class \notin DroppedClass =>
                  \A i \in DOMAIN global[This].kids : i \in DOMAIN a /\ a[i] = global[This].kids[i]

\* What is pending is on the list, by its number.
LEMMA PendingFacts ==
  ASSUME NEW n
  PROVE  n \in Pending <=> \E i \in ToCome : n \in Below(global, rest[i])
BY DEF Pending, ToCome, Range

LEMMA VisitedGrows ==
  ASSUME Chosen, RestOK, NEW a, Pushes(a), PushesAll(a), NEW n \in Visited', n # This \/ This = Close
  PROVE  n \in Visited
<1>0. /\ global' = global /\ rest # << >> /\ global \in Seq(SourceNode) /\ PreOrderTree(global)
      /\ Lost' = Lost
  BY TreeFacts DEF Pushes, Lost
<1>1. n \in DOMAIN global /\ n \notin Lost /\ n \notin Pending'
  BY <1>0 DEF Visited
<1>2. ASSUME NEW i \in ToCome' PROVE n \notin Below(global, rest'[i])
  BY <1>0, <1>1, <1>2 DEF Pending, ToCome, Range
<1> SUFFICES ASSUME n \in Pending PROVE FALSE
  BY <1>1 DEF Visited
<1>3. PICK i \in ToCome : n \in Below(global, rest[i])
  BY PendingFacts
<1>4. /\ i \in Nat \ {0} /\ i <= Len(rest) /\ rest[i] # Close
      /\ Len(a) \in Nat /\ Len(rest) \in Nat \ {0} /\ DOMAIN a = 1..Len(a)
      /\ DOMAIN rest' = 1..(Len(a) + (Len(rest) - 1))
  BY PushesFacts DEF ToCome, RestOK
<1>5. CASE i > 1
  <2> DEFINE j == Len(a) + (i - 1)
  <2>1. j \in (Len(a) + 1)..(Len(a) + (Len(rest) - 1)) /\ j - Len(a) + 1 = i /\ j \in DOMAIN rest'
    BY <1>4, <1>5
  <2> HIDE DEF j
  <2>2. rest'[j] = rest[i]
    BY <2>1, PushesFacts
  <2>3. j \in ToCome'
    BY <2>1, <2>2, <1>4 DEF ToCome, Close
  <2> QED
    BY <2>2, <2>3, <1>2, <1>3
<1>6. CASE i = 1
  <2>1. This = rest[1] /\ This # Close /\ This \in DOMAIN global /\ n \in Below(global, This)
    BY <1>0, <1>3, <1>4, <1>6, RestFacts
  <2>2. CASE global[This].class \in DroppedClass
    BY <2>1, <2>2, <1>1 DEF Lost
  <2>3. CASE global[This].class \notin DroppedClass
    <3>1. n # This
      BY <2>1
    <3>2. PICK k \in DOMAIN global[This].kids : n \in Below(global, global[This].kids[k])
      BY <2>1, <3>1, <1>0, BelowSplit
    <3>3. k \in 1..Len(a) /\ a[k] = global[This].kids[k]
      BY <2>1, <2>3, <1>4 DEF PushesAll
    <3>4. rest'[k] = a[k] /\ k \in DOMAIN rest'
      <4>1. rest'[k] = a[k]
        BY <3>3, PushesFacts
      <4>2. k \in DOMAIN rest'
        BY <3>3, <1>4
      <4> QED
        BY <4>1, <4>2
    <3>5. a[k] # Close
      BY <2>1, <3>3, <1>0, KidFacts DEF Close
    <3>6. k \in ToCome'
      BY <3>4, <3>5 DEF ToCome, Close
    <3> QED
      BY <3>2, <3>3, <3>4, <3>6, <1>2
  <2> QED
    BY <2>2, <2>3
<1> QED
  BY <1>4, <1>5, <1>6

\* The sends and receives of what was visited before stay as many.
LEMMA HasNodesKept ==
  ASSUME TypeOK, NEW nodes, Grown(nodes), UNCHANGED <<global, endpoint>>,
         NEW n, \A k \in DOMAIN nodes : nodes[k].src # n, HasNodes(n)
  PROVE  HasNodes(n)'
<1>1. /\ DOMAIN out \subseteq DOMAIN out'
      /\ \A k \in DOMAIN out : /\ out'[k].src = out[k].src
                               /\ (IsSend(k)' <=> IsSend(k)) /\ (IsReceive(k)' <=> IsReceive(k))
      /\ \A k \in DOMAIN out' : k \notin DOMAIN out => out'[k].src # n
  BY GrownFacts
<1>2. Received(n)' = Received(n) /\ Said(n)' = Said(n)
  BY <1>1 DEF Received, Said
<1>3. n \in Sources => n \in Sources'
  <2> SUFFICES ASSUME n \in Sources PROVE n \in Sources'
    OBVIOUS
  <2>1. PICK k \in DOMAIN out : out[k].src = n
    BY DEF Sources
  <2>2. k \in DOMAIN out' /\ out'[k].src = n
    BY <2>1, <1>1
  <2> QED
    BY <2>2 DEF Sources
<1>4. /\ HeardOf(n)' = HeardOf(n) /\ SaidBy(n)' = SaidBy(n)
      /\ Receivers(n)' = Receivers(n)
  BY TreeKept
<1> QED
  BY <1>2, <1>3, <1>4 DEF HasNodes

\* The positions of an interval, counted.
LEMMA IntervalCount ==
  ASSUME NEW m \in Nat, NEW c \in Nat
  PROVE  Cardinality((m + 1)..(m + c)) = c
<1>1. Cardinality((m + 1)..(m + c)) = IF m + 1 > m + c THEN 0 ELSE (m + c) - (m + 1) + 1
  BY FS_Interval
<1> QED
  BY <1>1

\* What is visited gets the nodes it should have.
LEMMA HasNodesMade ==
  ASSUME Chosen, TypeOK, SourcesBehind, rest # << >>, NEW n \in DOMAIN global, n = This,
         NEW nodes, GoodNodes(n, nodes), Grown(nodes), UNCHANGED <<global, endpoint>>
  PROVE  HasNodes(n)'
<1> DEFINE m == Len(out)
<1>0. /\ m \in Nat /\ Len(nodes) \in Nat /\ DOMAIN nodes = 1..Len(nodes) /\ DOMAIN out = 1..m
      /\ DOMAIN out' = 1..(m + Len(nodes))
  BY GrownFacts
<1>1. /\ 1 \in ToCome /\ n = rest[1]
  <2>1. RestOK /\ global \in Seq(SourceNode) /\ This # Close
    BY StatementFacts, TypeParts DEF Close
  <2> QED
    BY <2>1, RestFacts
<1>2. ASSUME NEW k \in DOMAIN out PROVE out'[k].src # n
  <2>1. out'[k].src = out[k].src /\ out[k].src \in Nat
    BY GrownFacts, StackFacts
  <2>2. out[k].src < n /\ n \in Nat
    BY <1>1, StatementFacts DEF SourcesBehind
  <2> QED
    BY <2>1, <2>2
<1>3. ASSUME NEW k \in DOMAIN out', NEW i \in DOMAIN nodes, k = m + i
      PROVE  /\ out'[k].src = n
             /\ (IsSend(k)' <=> Sent(nodes[i])) /\ (IsReceive(k)' <=> Got(nodes[i]))
  <2>1. out'[m + i] = nodes[i] /\ nodes[i].src = n
    BY DEF Grown, GoodNodes
  <2>2. out'[k] = nodes[i]
    BY <2>1, <1>3
  <2> HIDE DEF m
  <2>3. (IsSend(k)' <=> Sent(nodes[i])) /\ (IsReceive(k)' <=> Got(nodes[i]))
    BY <2>2 DEF IsSend, IsReceive, Sent, Got
  <2> QED
    BY <2>1, <2>2, <2>3
<1> HIDE DEF m
<1>4. ASSUME \/ global[n].class \in PushedClass \cup LeafClass
             \/ global[n].class = "Nested" /\ Receivers(n) # << >>
      PROVE  n \in Sources'
  <2>1. 1 \in DOMAIN nodes
    BY <1>0, <1>4 DEF GoodNodes, Grown, Shaped
  <2>2. m + 1 \in DOMAIN out'
    BY <2>1, <1>0
  <2>3. out'[m + 1].src = n
    BY <2>1, <2>2, <1>3
  <2> QED
    BY <2>2, <2>3 DEF Sources
<1>5. ASSUME global[n].class = "Interaction"
      PROVE  Cardinality(Received(n)') = HeardOf(n) /\ Cardinality(Said(n)') = SaidBy(n)
  <2> DEFINE h == HeardOf(n)
             s == SaidBy(n)
  <2>1. h \in Nat /\ s \in Nat
    <3>1. Hearing(n) \in SUBSET (1..Len(Receivers(n))) /\ Len(Receivers(n)) \in Nat
      BY ReceiverFacts DEF Hearing
    <3>2. Cardinality(Hearing(n)) \in Nat
      BY <3>1, PartIsFinite
    <3> QED
      BY <3>2 DEF HeardOf, SaidBy
  <2>2. /\ Len(nodes) = h + s
        /\ \A i \in DOMAIN nodes : IF i <= h THEN Got(nodes[i]) ELSE Sent(nodes[i])
    BY <1>5 DEF GoodNodes
  <2> HIDE DEF h, s
  <2>3. ASSUME NEW i \in DOMAIN nodes PROVE (Got(nodes[i]) <=> i <= h) /\ (Sent(nodes[i]) <=> ~(i <= h))
    BY <2>2 DEF Got
  <2>4. ASSUME NEW k PROVE k \in Received(n)' <=> k \in (m + 1)..(m + h)
    <3>1. ASSUME k \in Received(n)' PROVE k \in (m + 1)..(m + h)
      <4>1. k \in DOMAIN out' /\ out'[k].src = n /\ IsReceive(k)'
        BY <3>1 DEF Received
      <4>2. k \in 1..(m + Len(nodes)) /\ k \notin DOMAIN out
        BY <4>1, <1>0, <1>2
      <4>3. k - m \in DOMAIN nodes /\ m + (k - m) = k
        BY <4>2, <1>0
      <4>4. Got(nodes[k - m])
        BY <4>1, <4>2, <4>3, <1>3
      <4>5. k - m <= h
        BY <4>3, <4>4, <2>3
      <4> QED
        BY <4>2, <4>5, <1>0, <2>1
    <3>2. ASSUME k \in (m + 1)..(m + h) PROVE k \in Received(n)'
      <4>1. k - m \in DOMAIN nodes /\ m + (k - m) = k /\ k - m <= h
        BY <3>2, <1>0, <2>1, <2>2
      <4>2. k \in DOMAIN out'
        BY <4>1, <1>0
      <4>3. out'[k].src = n /\ IsReceive(k)'
        BY <4>1, <4>2, <1>3, <2>3
      <4> QED
        BY <4>2, <4>3 DEF Received
    <3> QED
      BY <3>1, <3>2
  <2>5. ASSUME NEW k PROVE k \in Said(n)' <=> k \in ((m + h) + 1)..((m + h) + s)
    <3>1. ASSUME k \in Said(n)' PROVE k \in ((m + h) + 1)..((m + h) + s)
      <4>1. k \in DOMAIN out' /\ out'[k].src = n /\ IsSend(k)'
        BY <3>1 DEF Said
      <4>2. k \in 1..(m + Len(nodes)) /\ k \notin DOMAIN out
        BY <4>1, <1>0, <1>2
      <4>3. k - m \in DOMAIN nodes /\ m + (k - m) = k
        BY <4>2, <1>0
      <4>4. Sent(nodes[k - m])
        BY <4>1, <4>2, <4>3, <1>3
      <4>5. ~(k - m <= h)
        BY <4>3, <4>4, <2>3
      <4> QED
        BY <4>2, <4>5, <1>0, <2>1, <2>2
    <3>2. ASSUME k \in ((m + h) + 1)..((m + h) + s) PROVE k \in Said(n)'
      <4>1. k - m \in DOMAIN nodes /\ m + (k - m) = k /\ ~(k - m <= h)
        BY <3>2, <1>0, <2>1, <2>2
      <4>2. k \in DOMAIN out'
        BY <4>1, <1>0
      <4>3. out'[k].src = n /\ IsSend(k)'
        BY <4>1, <4>2, <1>3, <2>3
      <4> QED
        BY <4>2, <4>3 DEF Said
    <3> QED
      BY <3>1, <3>2
  <2>6. Received(n)' = (m + 1)..(m + h) /\ Said(n)' = ((m + h) + 1)..((m + h) + s)
    BY <2>4, <2>5
  <2>7. Cardinality((m + 1)..(m + h)) = h
    BY <1>0, <2>1, IntervalCount
  <2>8. Cardinality(((m + h) + 1)..((m + h) + s)) = s
    <3>1. m + h \in Nat
      BY <1>0, <2>1
    <3> QED
      BY <3>1, <2>1, IntervalCount
  <2> QED
    BY <2>6, <2>7, <2>8 DEF h, s
<1>6. /\ HeardOf(n)' = HeardOf(n) /\ SaidBy(n)' = SaidBy(n)
      /\ Receivers(n)' = Receivers(n)
  BY TreeKept
<1>7. Cardinality(Received(n)') = Cardinality(Received(n))' /\ Cardinality(Said(n)') = Cardinality(Said(n))'
  OBVIOUS
<1> QED
  BY <1>4, <1>5, <1>6, <1>7 DEF HasNodes

LEMMA HandledKept ==
  ASSUME Chosen, TypeOK, SourcesBehind, Handled, status' = status,
         NEW a, Pushes(a), PushesAll(a), NEW nodes, Grown(nodes),
         IF This = Close THEN nodes = << >> ELSE This \in DOMAIN global /\ GoodNodes(This, nodes)
  PROVE  Handled'
<1>0. /\ UNCHANGED <<global, endpoint>> /\ rest # << >> /\ RestOK
  BY TypeParts DEF Pushes
<1> SUFFICES ASSUME status = "running", NEW n \in Visited' PROVE HasNodes(n)'
  BY DEF Handled
<1>1. n \in DOMAIN global
  BY <1>0 DEF Visited
<1>2. CASE This # Close /\ n = This
  BY <1>0, <1>1, <1>2, HasNodesMade
<1>3. CASE This = Close \/ n # This
  <2>1. HasNodes(n)
    BY <1>0, <1>3, VisitedGrows DEF Handled
  <2>2. \A k \in DOMAIN nodes : nodes[k].src # n
    BY <1>3 DEF GoodNodes
  <2> QED
    BY <1>0, <2>1, <2>2, HasNodesKept
<1> QED
  BY <1>2, <1>3

\* A statement that is visited is not below a block that is dropped.
LEMMA VisitedNotLost ==
  ASSUME Chosen, RestOK, NotLost, rest # << >>, This # Close, global[This].class \notin DroppedClass
  PROVE  This \notin Lost
<1>1. 1 \in ToCome /\ This = rest[1]
  BY RestFacts, TreeFacts
<1> QED
  BY <1>1 DEF NotLost, Lost

-----------------------------------------------------------------------------
\* The closings among the calls to come.
LEMMA ClosingsOfOne ==
  ASSUME NEW x
  PROVE  Cardinality(Closings(<<x>>)) = IF x = Close THEN 1 ELSE 0
<1>1. CASE x = Close
  <2>1. Closings(<<x>>) = {1}
    BY <1>1 DEF Closings, Places
  <2> QED
    BY <1>1, <2>1, FS_Singleton
<1>2. CASE x # Close
  <2>1. Closings(<<x>>) = {}
    BY <1>2 DEF Closings, Places
  <2> QED
    BY <1>2, <2>1, FS_EmptySet
<1> QED
  BY <1>1, <1>2

LEMMA ClosingsPushed ==
  ASSUME RestOK, NEW a, Pushes(a)
  PROVE  /\ Cardinality(Closings(rest')) = Cardinality(Closings(a)) + Cardinality(Closings(rest))
                                             - (IF This = Close THEN 1 ELSE 0)
         /\ Cardinality(Closings(rest)) \in Nat
<1> DEFINE S == 0..Len(global)
           t == Tail(rest)
           x == Head(rest)
<1>1. /\ rest \in Seq(S) /\ rest # << >> /\ a \in Seq(S) /\ rest' = Cat(a, t)
      /\ t \in Seq(S) /\ x \in S
  BY DEF RestOK, Pushes
<1>2. rest = Cat(<<x>>, t) /\ <<x>> \in Seq(S)
  BY <1>1 DEF Cat
<1> HIDE DEF S, t, x
<1>3. Cardinality(Closings(rest')) = Cardinality(Closings(a)) + Cardinality(Closings(t))
  BY <1>1, PlacesOfCat DEF Closings
<1>4. Cardinality(Closings(rest)) = Cardinality(Closings(<<x>>)) + Cardinality(Closings(t))
  <2>1. Cardinality(Closings(Cat(<<x>>, t))) = Cardinality(Closings(<<x>>)) + Cardinality(Closings(t))
    BY <1>1, <1>2, PlacesOfCat DEF Closings
  <2> QED
    BY <2>1, <1>2
<1>5. /\ Cardinality(Closings(a)) \in Nat /\ Cardinality(Closings(t)) \in Nat
      /\ Cardinality(Closings(rest)) \in Nat
  BY <1>1, ClosingsFinite
<1>6. Cardinality(Closings(<<x>>)) = IF This = Close THEN 1 ELSE 0
  BY ClosingsOfOne DEF This, x
<1> QED
  BY <1>3, <1>4, <1>5, <1>6

LEMMA ClosingsOfKids ==
  ASSUME Chosen, NEW n \in DOMAIN global
  PROVE  /\ global[n].kids \in Seq(0..Len(global)) /\ Cardinality(Closings(global[n].kids)) = 0
         /\ Cat(global[n].kids, <<Close>>) \in Seq(0..Len(global))
         /\ Cardinality(Closings(Cat(global[n].kids, <<Close>>))) = 1
<1> DEFINE S == 0..Len(global)
           l == global[n].kids
           c == <<Close>>
<1>1. \A i \in DOMAIN l : l[i] \in S /\ l[i] # Close
  <2>1. \A i \in DOMAIN l : l[i] \in DOMAIN global
    BY KidFacts, TreeFacts
  <2> QED
    BY <2>1, TreeFacts DEF Close
<1>2. l \in Seq(S)
  <2>1. l \in Seq(Nat)
    BY StatementFacts
  <2> HIDE DEF l, S
  <2> QED
    BY <1>1, <2>1
<1>3. Closings(l) = {}
  BY <1>1 DEF Closings, Places
<1>4. c \in Seq(S) /\ Cardinality(Closings(c)) = 1
  BY TreeFacts, ClosingsOfOne DEF Close
<1> HIDE DEF l, S, c
<1>5. Cardinality(Closings(l)) = 0
  BY <1>3, FS_EmptySet
<1>6. Cat(l, c) \in Seq(S) /\ Cardinality(Closings(Cat(l, c))) = 1
  <2>1. Cat(l, c) \in Seq(S)
    BY <1>2, <1>4, CatFacts
  <2>2. Cardinality(Closings(Cat(l, c))) = Cardinality(Closings(l)) + Cardinality(Closings(c))
    BY <1>2, <1>4, PlacesOfCat DEF Closings
  <2> QED
    BY <2>1, <2>2, <1>4, <1>5
<1> QED
  BY <1>2, <1>5, <1>6 DEF l, S, c

-----------------------------------------------------------------------------
\* A visit: nodes are made for the statement, and calls are pushed.
VisitStep(nodes, a) ==
  Called /\ GoodNodes(This, nodes) /\ Grown(nodes) /\ Pushes(a) /\ PushesAll(a) /\ status' = status

LEMMA EmitVisits ==
  ASSUME Chosen, TypeOK, NEW nodes, GoodNodes(This, nodes), Emit(nodes), Called,
         global[This].class \in DroppedClass \/ global[This].kids = << >>
  PROVE  VisitStep(nodes, << >>)
<1>1. Grown(nodes)
  BY EmitEffect DEF GoodNodes
<1>2. rest' = Cat(<< >>, Tail(rest)) /\ << >> \in Seq(0..Len(global))
  BY TypeParts DEF Emit, Cat, RestOK, Called
<1>3. Pushes(<< >>) /\ PushesAll(<< >>)
  BY <1>2 DEF Emit, Called, Pushes, PushesAll
<1> QED
  BY <1>1, <1>3 DEF VisitStep, Emit

LEMMA EnterVisits ==
  ASSUME Chosen, TypeOK, NEW node \in Fresh, GoodNodes(This, <<node>>), Enter(node), Called,
         global[This].class \in PushedClass
  PROVE  VisitStep(<<node>>, Cat(global[This].kids, <<Close>>))
<1> DEFINE l == global[This].kids
           a == Cat(l, <<Close>>)
<1>1. Grown(<<node>>)
  BY EnterEffect
<1>2. This \in DOMAIN global /\ a \in Seq(0..Len(global)) /\ l \in Seq(Nat)
  BY ClosingsOfKids, StatementFacts DEF Called
<1>3. rest' = Cat(a, Tail(rest))
  BY DEF Enter, Cat
<1>4. /\ \A i \in DOMAIN a : a[i] # Close => i \in DOMAIN l /\ a[i] = l[i]
      /\ \A i \in DOMAIN l : i \in DOMAIN a /\ a[i] = l[i]
  <2> HIDE DEF l
  <2>1. DOMAIN a = 1..(Len(l) + 1) /\ Len(l) \in Nat /\ DOMAIN l = 1..Len(l)
        /\ (\A i \in 1..Len(l) : a[i] = l[i]) /\ a[Len(l) + 1] = Close
    BY <1>2 DEF Cat, Close
  <2> HIDE DEF a
  <2> QED
    BY <2>1
<1>5. global[This].class \notin DroppedClass
  BY DEF PushedClass, DroppedClass
<1> HIDE DEF a
<1>6. Pushes(a) /\ PushesAll(a)
  BY <1>2, <1>3, <1>4, <1>5 DEF Enter, Called, Pushes, PushesAll
<1> QED
  BY <1>1, <1>6 DEF VisitStep, Enter, a

LEMMA BlockVisits ==
  ASSUME Chosen, TypeOK, BlockStep
  PROVE  VisitStep(<< >>, global[This].kids)
<1> DEFINE l == global[This].kids
<1>1. This \in DOMAIN global /\ l \in Seq(0..Len(global))
  BY ClosingsOfKids DEF BlockStep, Called
<1>2. Grown(<< >>)
  <2>1. << >> \in Seq(Fresh) /\ Len(<< >>) = 0 /\ DOMAIN << >> = {}
    OBVIOUS
  <2>2. OutOK /\ out' = out /\ Len(out) \in Nat
    BY TypeParts, StackFacts DEF BlockStep
  <2>3. OutOK'
    BY <2>2 DEF OutOK
  <2>4. ASSUME NEW q \in DOMAIN out PROVE out'[q] = [out[q] EXCEPT !.kids = out'[q].kids]
    <3>1. out[q] \in OutNode /\ out[q].kids \in Seq(Nat)
      BY StackFacts
    <3>2. out[q] = [out[q] EXCEPT !.kids = out[q].kids]
      BY <3>1, KidsReplaced
    <3> QED
      BY <3>2, <2>2
  <2> QED
    BY <2>1, <2>2, <2>3, <2>4 DEF Grown
<1>3. Pushes(l) /\ PushesAll(l)
  BY <1>1 DEF BlockStep, Called, Pushes, PushesAll, Cat, DroppedClass
<1> QED
  BY <1>2, <1>3 DEF VisitStep, BlockStep

-----------------------------------------------------------------------------
\* The order of the nodes at two places, as ReceivesFirst has it.
Before(a, b) == out[a].src < out[b].src \/ (out[a].src = out[b].src /\ ~(IsSend(a) /\ IsReceive(b)))

LEMMA BeforeKept ==
  ASSUME TypeOK, NEW nodes, Grown(nodes), UNCHANGED <<global, endpoint>>,
         NEW a \in DOMAIN out, NEW b \in DOMAIN out
  PROVE  Before(a, b)' <=> Before(a, b)
BY GrownFacts DEF Before

\* Children that were there before the step, and stay.
LEMMA OldKidsKept ==
  ASSUME TypeOK, ReceivesFirst, NEW nodes, Grown(nodes), UNCHANGED <<global, endpoint>>,
         NEW p \in DOMAIN out, out'[p].kids = out[p].kids,
         NEW i \in DOMAIN out'[p].kids, NEW j \in DOMAIN out'[p].kids, i < j,
         NEW a, a = out'[p].kids[i], NEW b, b = out'[p].kids[j]
  PROVE  Before(a, b)'
<1>1. a \in DOMAIN out /\ b \in DOMAIN out
  BY TypeParts DEF OutOK
<1>2. Before(a, b)
  BY DEF ReceivesFirst, Before
<1> QED
  BY <1>1, <1>2, BeforeKept

LEMMA ReceivesFirstBy ==
  ASSUME \A p \in DOMAIN out' : \A i, j \in DOMAIN out'[p].kids : i < j =>
           \A a, b : a = out'[p].kids[i] /\ b = out'[p].kids[j] => Before(a, b)'
  PROVE  ReceivesFirst'
BY DEF ReceivesFirst, Before

\* The nodes a visit makes come after those that there are.
LEMMA MadeAfter ==
  ASSUME Chosen, TypeOK, SourcesBehind, Called, UNCHANGED <<global, endpoint>>,
         NEW nodes, GoodNodes(This, nodes), Grown(nodes)
  PROVE  /\ \A k \in DOMAIN out : out[k].src < This /\ out'[k].src < This
         /\ This \in Nat
         /\ \A k \in DOMAIN out' : k \notin DOMAIN out => out'[k].src = This
<1>1. 1 \in ToCome /\ This = rest[1] /\ This \in Nat
  BY RestFacts, TypeParts, StatementFacts DEF Called
<1>2. ASSUME NEW k \in DOMAIN out PROVE out[k].src < This /\ out'[k].src < This
  <2>1. out[k].src < This
    BY <1>1 DEF SourcesBehind
  <2>2. out'[k].src = out[k].src
    BY GrownFacts
  <2> QED
    BY <2>1, <2>2
<1>3. ASSUME NEW k \in DOMAIN out', k \notin DOMAIN out PROVE out'[k].src = This
  <2>1. k - Len(out) \in DOMAIN nodes /\ out'[k] = nodes[k - Len(out)]
    BY <1>3, GrownFacts
  <2> QED
    BY <2>1 DEF GoodNodes
<1> QED
  BY <1>1, <1>2, <1>3

LEMMA EmitOrder ==
  ASSUME Chosen, TypeOK, ReceivesFirst, SourcesBehind, Called,
         NEW nodes, GoodNodes(This, nodes), Emit(nodes)
  PROVE  ReceivesFirst'
<1> DEFINE m == Len(out)
           old == out[Top].kids
           t == This
<1>0. /\ Grown(nodes) /\ UNCHANGED <<global, endpoint>> /\ nodes \in Seq(Fresh)
      /\ \A q \in DOMAIN out : out'[q].kids = IF q = Top THEN Added(out[q].kids, Len(out), nodes)
                                              ELSE out[q].kids
  BY EmitEffect DEF GoodNodes, Emit
<1>1. /\ m \in Nat /\ DOMAIN nodes = 1..Len(nodes) /\ Len(nodes) \in Nat
      /\ DOMAIN out = 1..m /\ DOMAIN out' = 1..(m + Len(nodes))
      /\ Top \in DOMAIN out /\ old \in Seq(Nat) /\ Len(old) \in Nat /\ DOMAIN old = 1..Len(old)
  BY <1>0, GrownFacts, StackFacts
<1>2. /\ \A k \in DOMAIN out : out'[k].src < t
      /\ t \in Nat
      /\ \A k \in DOMAIN out' : k \notin DOMAIN out => out'[k].src = t
  BY <1>0, MadeAfter
<1>3. /\ Added(old, m, nodes) \in Seq(Nat) /\ Len(Added(old, m, nodes)) = Len(old) + Len(nodes)
      /\ \A i \in 1..Len(old) : Added(old, m, nodes)[i] = old[i]
      /\ \A i \in (Len(old) + 1)..(Len(old) + Len(nodes)) :
           Added(old, m, nodes)[i] = m + (i - Len(old))
  <2> HIDE DEF old, m
  <2> QED
    BY <1>0, <1>1, AddedFacts
<1>4. ASSUME NEW p \in DOMAIN out', NEW i \in DOMAIN out'[p].kids, NEW j \in DOMAIN out'[p].kids, i < j,
             NEW a, a = out'[p].kids[i], NEW b, b = out'[p].kids[j]
      PROVE  Before(a, b)'
  <2>1. CASE p \in DOMAIN out /\ p # Top
    BY <1>0, <1>4, <2>1, OldKidsKept
  <2>2. CASE p = Top
    <3> DEFINE new == Added(old, m, nodes)
    <3>1. out'[p].kids = new
      BY <1>0, <1>1, <2>2
    <3> HIDE DEF old, new
    <3>2. i \in 1..(Len(old) + Len(nodes)) /\ j \in 1..(Len(old) + Len(nodes)) /\ a = new[i] /\ b = new[j]
      BY <3>1, <1>1, <1>3, <1>4 DEF new
    <3>3. ASSUME NEW k \in 1..(Len(old) + Len(nodes)), NEW c, c = new[k]
          PROVE  IF k <= Len(old) THEN c = old[k] /\ c \in DOMAIN out
                 ELSE /\ c = m + (k - Len(old)) /\ c \in DOMAIN out' /\ c \notin DOMAIN out
                      /\ k - Len(old) \in DOMAIN nodes /\ c - m = k - Len(old)
      <4>1. CASE k <= Len(old)
        <5>1. k \in DOMAIN old /\ c = old[k]
          BY <4>1, <1>1, <1>3, <3>3 DEF new
        <5>2. old[k] \in DOMAIN out
          BY <5>1, <1>1, TypeParts DEF OutOK, old
        <5> QED
          BY <4>1, <5>1, <5>2
      <4>2. CASE ~(k <= Len(old))
        <5>1. k \in (Len(old) + 1)..(Len(old) + Len(nodes))
          BY <4>2, <1>1
        <5>2. c = m + (k - Len(old))
          BY <5>1, <1>3, <3>3 DEF new
        <5> QED
          BY <4>2, <5>1, <5>2, <1>1
      <4> QED
        BY <4>1, <4>2
    <3>4. CASE j <= Len(old)
      <4>1. i <= Len(old)
        BY <3>2, <3>4, <1>1, <1>4
      <4>2. a = old[i] /\ b = old[j] /\ a \in DOMAIN out /\ b \in DOMAIN out
        BY <3>2, <3>3, <3>4, <4>1
      <4>3. i \in DOMAIN old /\ j \in DOMAIN old
        BY <3>2, <3>4, <4>1, <1>1
      <4>4. Before(a, b)
        BY <4>2, <4>3, <1>1, <1>4 DEF ReceivesFirst, Before, old
      <4> QED
        BY <4>2, <4>4, <1>0, BeforeKept
    <3>5. CASE i <= Len(old) /\ ~(j <= Len(old))
      <4>1. a \in DOMAIN out /\ b \in DOMAIN out' /\ b \notin DOMAIN out
        BY <3>2, <3>3, <3>5
      <4>2. out'[a].src < out'[b].src
        BY <4>1, <1>2
      <4> QED
        BY <4>2 DEF Before
    <3>6. CASE ~(i <= Len(old)) /\ ~(j <= Len(old))
      <4> DEFINE x == i - Len(old)
                 y == j - Len(old)
      <4>1. /\ a \in DOMAIN out' /\ a \notin DOMAIN out /\ a - m = x /\ x \in DOMAIN nodes
            /\ b \in DOMAIN out' /\ b \notin DOMAIN out /\ b - m = y /\ y \in DOMAIN nodes
        BY <3>2, <3>3, <3>6
      <4>2. x < y
        BY <3>2, <1>1, <1>4
      <4> HIDE DEF x, y
      <4>3. ~(Sent(nodes[x]) /\ Got(nodes[y]))
        BY <4>1, <4>2 DEF GoodNodes
      <4>4. out'[a] = nodes[x] /\ out'[b] = nodes[y]
        BY <4>1, <1>0, GrownFacts
      <4>5. out'[a].src = t /\ out'[b].src = t
        BY <4>1, <1>2
      <4>6. (IsSend(a)' <=> Sent(nodes[x])) /\ (IsReceive(b)' <=> Got(nodes[y]))
        BY <4>4, <1>0 DEF IsSend, IsReceive, Sent, Got
      <4> QED
        BY <4>3, <4>5, <4>6 DEF Before
    <3> QED
      BY <3>4, <3>5, <3>6, <3>2, <1>1, <1>4
  <2>3. CASE p \notin DOMAIN out
    <3>1. p - Len(out) \in DOMAIN nodes /\ out'[p] = nodes[p - Len(out)]
      BY <2>3, <1>0, GrownFacts
    <3>2. out'[p].kids = << >>
      BY <3>1, <1>0 DEF Fresh
    <3> QED
      BY <3>2, <1>4
  <2> QED
    BY <2>1, <2>2, <2>3
<1> QED
  BY <1>4, ReceivesFirstBy

LEMMA EnterOrder ==
  ASSUME Chosen, TypeOK, ReceivesFirst, NEW node \in Fresh, Enter(node)
  PROVE  ReceivesFirst'
<1>0. /\ Grown(<<node>>) /\ UNCHANGED <<global, endpoint>>
      /\ \A q \in DOMAIN out : out'[q] = out[q]
  BY EnterEffect DEF Enter
<1>1. ASSUME NEW p \in DOMAIN out', NEW i \in DOMAIN out'[p].kids, NEW j \in DOMAIN out'[p].kids, i < j,
             NEW a, a = out'[p].kids[i], NEW b, b = out'[p].kids[j]
      PROVE  Before(a, b)'
  <2>1. CASE p \in DOMAIN out
    BY <1>0, <1>1, <2>1, OldKidsKept
  <2>2. CASE p \notin DOMAIN out
    <3>1. p - Len(out) \in DOMAIN <<node>> /\ out'[p] = <<node>>[p - Len(out)]
      BY <2>2, <1>0, GrownFacts
    <3>2. out'[p] = node
      BY <3>1
    <3> QED
      BY <3>2, <1>1 DEF Fresh
  <2> QED
    BY <2>1, <2>2
<1> QED
  BY <1>1, ReceivesFirstBy

LEMMA CloseOrder ==
  ASSUME Chosen, TypeOK, ReceivesFirst, StackRises, KidsBehind, CloseBlock
  PROVE  ReceivesFirst'
<1> DEFINE n == Len(stack_)
           parent == stack_[n - 1]
           old == out[parent].kids
<1>0. /\ n > 1 /\ Grown(<< >>) /\ UNCHANGED <<global, endpoint>>
      /\ \A q \in DOMAIN out : out'[q].kids = IF q = parent THEN Append(out[q].kids, Top)
                                              ELSE out[q].kids
  BY CloseEffect DEF CloseBlock
<1>1. /\ n \in Nat \ {0} /\ DOMAIN stack_ = 1..n /\ parent \in DOMAIN out /\ Top \in DOMAIN out
      /\ Top = stack_[n] /\ DOMAIN out' = DOMAIN out
  <2>1. n \in Nat \ {0} /\ DOMAIN stack_ = 1..n /\ Top \in DOMAIN out /\ Top = stack_[n]
    BY StackFacts DEF Top
  <2>2. parent \in DOMAIN out
    <3>1. n - 1 \in DOMAIN stack_
      BY <2>1, <1>0
    <3> QED
      BY <3>1, StackFacts
  <2>3. DOMAIN out' = DOMAIN out
    BY <1>0, GrownFacts
  <2> QED
    BY <2>1, <2>2, <2>3
<1>2. old \in Seq(Nat) /\ Len(old) \in Nat /\ DOMAIN old = 1..Len(old)
  BY <1>1, StackFacts
<1>3. ASSUME NEW i \in DOMAIN old PROVE old[i] \in DOMAIN out /\ out[old[i]].src < out[Top].src
  <2>1. n - 1 \in DOMAIN stack_ /\ n - 1 < n /\ (n - 1) + 1 = n
    BY <1>0, <1>1
  <2>2. out[old[i]].src < out[stack_[(n - 1) + 1]].src
    BY <2>1, <1>3 DEF KidsBehind
  <2> QED
    BY <2>1, <2>2, <1>1, TypeParts DEF OutOK
<1>4. ASSUME NEW p \in DOMAIN out', NEW i \in DOMAIN out'[p].kids, NEW j \in DOMAIN out'[p].kids, i < j,
             NEW a, a = out'[p].kids[i], NEW b, b = out'[p].kids[j]
      PROVE  Before(a, b)'
  <2>1. CASE p # parent
    BY <1>0, <1>1, <1>4, <2>1, OldKidsKept
  <2>2. CASE p = parent
    <3>1. out'[p].kids = Append(old, Top)
      BY <1>0, <1>1, <2>2
    <3> HIDE DEF old
    <3>2. i \in 1..(Len(old) + 1) /\ j \in 1..(Len(old) + 1) /\ i \in DOMAIN old /\ a = old[i]
          /\ IF j \in DOMAIN old THEN b = old[j] ELSE b = Top
      BY <3>1, <1>2, <1>4
    <3>3. Before(a, b)
      <4>1. CASE j \in DOMAIN old
        BY <3>2, <4>1, <1>1, <1>4 DEF ReceivesFirst, Before, old
      <4>2. CASE j \notin DOMAIN old
        BY <3>2, <4>2, <1>3 DEF Before
      <4> QED
        BY <4>1, <4>2
    <3>4. a \in DOMAIN out /\ b \in DOMAIN out
      BY <3>2, <1>1, <1>3
    <3> QED
      BY <3>3, <3>4, <1>0, BeforeKept
  <2> QED
    BY <2>1, <2>2
<1> QED
  BY <1>4, ReceivesFirstBy

-----------------------------------------------------------------------------
\* The stack, and what is in its blocks.
LEMMA StackSame ==
  ASSUME Chosen, TypeOK, StackRises, KidsBehind, NEW nodes, Grown(nodes),
         UNCHANGED <<global, endpoint, stack_>>,
         \A q \in DOMAIN out : q # Top => out'[q].kids = out[q].kids
  PROVE  StackOK' /\ StackRises' /\ KidsBehind'
<1>0. /\ stack_ \in Seq(DOMAIN out) /\ stack_[1] = 1
      /\ Len(stack_) \in Nat \ {0} /\ DOMAIN stack_ = 1..Len(stack_)
      /\ \A i \in DOMAIN stack_ : stack_[i] \in DOMAIN out /\ stack_[i] \in Nat
      /\ DOMAIN out \subseteq DOMAIN out'
  BY GrownFacts, StackFacts, TypeParts DEF StackOK
<1>1. StackOK'
  <2>1. stack_ \in Seq(DOMAIN out')
    BY <1>0
  <2> QED
    BY <2>1, <1>0 DEF StackOK
<1>2. StackRises'
  BY DEF StackRises
<1>3. KidsBehind'
  <2> SUFFICES ASSUME NEW s \in DOMAIN stack_, NEW i \in DOMAIN out'[stack_[s]].kids, s < Len(stack_)
               PROVE  out'[out'[stack_[s]].kids[i]].src < out'[stack_[s + 1]].src
    BY DEF KidsBehind
  <2>1. s + 1 \in DOMAIN stack_ /\ Len(stack_) \in DOMAIN stack_
    BY <1>0
  <2>2. stack_[s] < Top
    BY <2>1 DEF StackRises, Top
  <2>3. stack_[s] # Top
    BY <2>2, <1>0
  <2>4. out'[stack_[s]].kids = out[stack_[s]].kids
    BY <2>3, <1>0
  <2>5. out[out[stack_[s]].kids[i]].src < out[stack_[s + 1]].src
    BY <2>4 DEF KidsBehind
  <2>6. out[stack_[s]].kids[i] \in DOMAIN out
    BY <2>4, <1>0, TypeParts DEF OutOK
  <2> QED
    BY <2>1, <2>4, <2>5, <2>6, <1>0, GrownFacts
<1> QED
  BY <1>1, <1>2, <1>3

LEMMA StackEntered ==
  ASSUME Chosen, TypeOK, StackRises, KidsBehind, SourcesBehind, Called,
         NEW node \in Fresh, GoodNodes(This, <<node>>), Enter(node)
  PROVE  StackOK' /\ StackRises' /\ KidsBehind' /\ Len(stack_') = Len(stack_) + 1
<1> DEFINE m == Len(out)
           n == Len(stack_)
           t == This
<1>0. /\ Grown(<<node>>) /\ UNCHANGED <<global, endpoint>>
      /\ \A q \in DOMAIN out : out'[q] = out[q]
  BY EnterEffect DEF Enter
<1>1. /\ m \in Nat /\ DOMAIN out = 1..m /\ DOMAIN out' = 1..(m + 1)
      /\ n \in Nat \ {0} /\ DOMAIN stack_ = 1..n
      /\ stack_ \in Seq(DOMAIN out) /\ stack_[1] = 1
      /\ \A i \in DOMAIN stack_ : stack_[i] \in 1..m
  <2>1. Len(<<node>>) = 1
    OBVIOUS
  <2> QED
    BY <2>1, <1>0, GrownFacts, StackFacts, TypeParts DEF StackOK
<1>2. /\ \A k \in DOMAIN out : out[k].src < t /\ out'[k].src < t
      /\ m + 1 \in DOMAIN out' /\ out'[m + 1].src = t
  <2>1. m + 1 \in DOMAIN out' /\ m + 1 \notin DOMAIN out
    BY <1>1
  <2> QED
    BY <2>1, <1>0, MadeAfter
<1>3. stack_' = Append(stack_, m + 1)
  BY DEF Enter
<1> HIDE DEF m, n, t
<1>4. /\ stack_' \in Seq(DOMAIN out') /\ Len(stack_') = n + 1 /\ DOMAIN stack_' = 1..(n + 1)
      /\ stack_'[n + 1] = m + 1 /\ \A i \in 1..n : stack_'[i] = stack_[i]
  <2> DEFINE S == 1..(m + 1)
  <2>1. stack_ \in Seq(S) /\ m + 1 \in S
    BY <1>1
  <2> HIDE DEF S
  <2>2. /\ Append(stack_, m + 1) \in Seq(S) /\ Len(Append(stack_, m + 1)) = n + 1
        /\ DOMAIN Append(stack_, m + 1) = 1..(n + 1)
        /\ Append(stack_, m + 1)[n + 1] = m + 1
        /\ \A i \in 1..n : Append(stack_, m + 1)[i] = stack_[i]
    BY <2>1 DEF n
  <2> QED
    BY <2>2, <1>1, <1>3 DEF S
<1>5. StackOK'
  <2>1. stack_'[1] = 1
    BY <1>1, <1>4
  <2> QED
    BY <2>1, <1>4 DEF StackOK
<1>6. StackRises'
  <2> SUFFICES ASSUME NEW i \in DOMAIN stack_', NEW j \in DOMAIN stack_', i < j
               PROVE  stack_'[i] < stack_'[j]
    BY DEF StackRises
  <2>1. i \in 1..n /\ stack_'[i] = stack_[i] /\ stack_[i] \in 1..m
    BY <1>1, <1>4
  <2>2. CASE j = n + 1
    BY <2>1, <2>2, <1>1, <1>4
  <2>3. CASE j # n + 1
    <3>1. j \in 1..n
      BY <2>3, <1>1, <1>4
    <3> QED
      BY <2>1, <3>1, <1>1, <1>4 DEF StackRises
  <2> QED
    BY <2>2, <2>3
<1>7. KidsBehind'
  <2> SUFFICES ASSUME NEW s \in DOMAIN stack_', NEW i \in DOMAIN out'[stack_'[s]].kids, s < Len(stack_')
               PROVE  out'[out'[stack_'[s]].kids[i]].src < out'[stack_'[s + 1]].src
    BY DEF KidsBehind
  <2>1. s \in 1..n /\ stack_'[s] = stack_[s] /\ stack_[s] \in DOMAIN out
    BY <1>1, <1>4
  <2>2. out'[stack_[s]] = out[stack_[s]]
    BY <2>1, <1>0
  <2>3. i \in DOMAIN out[stack_[s]].kids
    BY <2>1, <2>2
  <2>4. out[stack_[s]].kids[i] \in DOMAIN out
    BY <2>1, <2>3, TypeParts DEF OutOK
  <2>5. CASE s = n
    <3>1. stack_'[s + 1] = m + 1
      BY <2>5, <1>4
    <3> QED
      BY <2>1, <2>2, <2>4, <3>1, <1>2
  <2>6. CASE s # n
    <3>1. s + 1 \in 1..n /\ s < n /\ stack_'[s + 1] = stack_[s + 1] /\ stack_[s + 1] \in DOMAIN out
      BY <2>1, <2>6, <1>1, <1>4
    <3>2. out[out[stack_[s]].kids[i]].src < out[stack_[s + 1]].src
      BY <2>1, <2>3, <3>1, <1>1 DEF KidsBehind, n
    <3>3. out'[stack_[s + 1]] = out[stack_[s + 1]]
      BY <3>1, <1>0
    <3> QED
      BY <2>1, <2>2, <2>4, <3>1, <3>2, <3>3, <1>0
  <2> QED
    BY <2>5, <2>6
<1> QED
  BY <1>4, <1>5, <1>6, <1>7 DEF n

LEMMA StackClosed ==
  ASSUME Chosen, TypeOK, StackRises, KidsBehind, CloseBlock
  PROVE  StackOK' /\ StackRises' /\ KidsBehind' /\ Len(stack_') = Len(stack_) - 1
<1> DEFINE n == Len(stack_)
<1>0. /\ n > 1 /\ Grown(<< >>) /\ UNCHANGED <<global, endpoint>>
      /\ stack_' \in Seq(DOMAIN out) /\ Len(stack_') = n - 1
      /\ \A i \in 1..(n - 1) : stack_'[i] = stack_[i]
      /\ \A q \in DOMAIN out : q # stack_[n - 1] => out'[q].kids = out[q].kids
  BY CloseEffect DEF CloseBlock
<1>1. /\ n \in Nat \ {0} /\ DOMAIN stack_ = 1..n /\ stack_[1] = 1
      /\ \A i \in DOMAIN stack_ : stack_[i] \in DOMAIN out /\ stack_[i] \in Nat
      /\ DOMAIN out' = DOMAIN out /\ DOMAIN stack_' = 1..(n - 1)
  <2>1. DOMAIN out' = DOMAIN out
    BY <1>0, GrownFacts
  <2>2. DOMAIN stack_' = 1..(n - 1)
    BY <1>0
  <2> QED
    BY <2>1, <2>2, StackFacts, TypeParts DEF StackOK
<1> HIDE DEF n
<1>2. StackOK'
  <2>1. stack_'[1] = 1
    BY <1>0, <1>1
  <2> QED
    BY <2>1, <1>0, <1>1 DEF StackOK
<1>3. StackRises'
  BY <1>0, <1>1 DEF StackRises
<1>4. KidsBehind'
  <2> SUFFICES ASSUME NEW s \in DOMAIN stack_', NEW i \in DOMAIN out'[stack_'[s]].kids, s < Len(stack_')
               PROVE  out'[out'[stack_'[s]].kids[i]].src < out'[stack_'[s + 1]].src
    BY DEF KidsBehind
  <2>1. /\ s \in 1..(n - 1) /\ s < n - 1 /\ s + 1 \in 1..(n - 1)
        /\ s \in DOMAIN stack_ /\ s + 1 \in DOMAIN stack_ /\ n - 1 \in DOMAIN stack_
    BY <1>0, <1>1
  <2>2. stack_'[s] = stack_[s] /\ stack_'[s + 1] = stack_[s + 1]
    BY <2>1, <1>0
  <2>3. stack_[s] < stack_[n - 1]
    BY <2>1 DEF StackRises
  <2>4. out'[stack_[s]].kids = out[stack_[s]].kids
    BY <2>1, <2>3, <1>0, <1>1
  <2>5. i \in DOMAIN out[stack_[s]].kids /\ s < n
    BY <2>1, <2>2, <2>4, <1>1
  <2>6. out[out[stack_[s]].kids[i]].src < out[stack_[s + 1]].src
    BY <2>1, <2>5 DEF KidsBehind, n
  <2>7. out[stack_[s]].kids[i] \in DOMAIN out /\ stack_[s + 1] \in DOMAIN out
    BY <2>1, <2>5, <1>1, TypeParts DEF OutOK
  <2> QED
    BY <2>2, <2>4, <2>6, <2>7, <1>0, GrownFacts
<1> QED
  BY <1>0, <1>2, <1>3, <1>4 DEF n

-----------------------------------------------------------------------------
\* What a visit keeps, of the inductive invariant, whatever it does with the stack.
LEMMA VisitKeeps ==
  ASSUME IInv, NEW nodes, NEW a, VisitStep(nodes, a)
  PROVE  /\ OutOK' /\ RestOK' /\ Chosen' /\ global' \in Seq(SourceNode) /\ endpoint' \in Role
         /\ status' \in {"running", "thrown", "undefined"} /\ StopsExplained'
         /\ RestRises' /\ HoldersBehind' /\ NotLost' /\ SourcesKept' /\ SourcesBehind'
         /\ NodesFit' /\ Handled'
         /\ Cardinality(Closings(rest)') = Cardinality(Closings(a)) + (Len(stack_) - 1)
<1>0. /\ Called /\ GoodNodes(This, nodes) /\ Grown(nodes) /\ Pushes(a) /\ PushesAll(a)
      /\ UNCHANGED <<global, endpoint>> /\ status' = status /\ status = "running"
      /\ rest # << >> /\ This # Close /\ This \in DOMAIN global
  BY DEF VisitStep, Pushes, Called
<1>1. /\ TypeOK /\ Chosen /\ RestRises /\ HoldersBehind /\ NotLost /\ SourcesKept /\ SourcesBehind
      /\ NodesFit /\ Handled
  BY DEF IInv
<1>2. /\ RestOK /\ Matched /\ global \in Seq(SourceNode) /\ endpoint \in Role
      /\ status \in {"running", "thrown", "undefined"}
  BY <1>1, TypeParts
<1>3. OutOK' /\ Chosen' /\ StopsExplained'
  BY <1>0, <1>1 DEF Grown, Chosen, StopsExplained
<1>4. RestOK'
  BY <1>0, <1>2, PushesFacts DEF RestOK
<1>5. RestRises' /\ HoldersBehind' /\ NotLost'
  BY <1>0, <1>1, <1>2, RestRisesKept, HoldersKept, NotLostKept
<1>6. SourcesBehind'
  <2>1. \A k \in DOMAIN nodes : nodes[k].src = This /\ This # Close
    BY <1>0 DEF GoodNodes
  <2> QED
    BY <2>1, <1>0, <1>1, SourcesBehindKept
<1>7. SourcesKept'
  <2>1. \A i \in DOMAIN nodes : nodes[i].src \notin Lost
    <3>1. CASE global[This].class \in DroppedClass
      BY <3>1, <1>0 DEF GoodNodes
    <3>2. CASE global[This].class \notin DroppedClass
      BY <3>2, <1>0, <1>1, <1>2, VisitedNotLost DEF GoodNodes
    <3> QED
      BY <3>1, <3>2
  <2> QED
    BY <2>1, <1>0, <1>1, KeptGrown
<1>8. NodesFit'
  BY <1>0, <1>1, FitsGrown
<1>9. Handled'
  BY <1>0, <1>1, HandledKept
<1>10. Cardinality(Closings(rest)') = Cardinality(Closings(a)) + (Len(stack_) - 1)
  <2>1. Closings(rest)' = Closings(rest')
    BY DEF Closings, Places
  <2>2. /\ Cardinality(Closings(rest')) = Cardinality(Closings(a)) + Cardinality(Closings(rest)) - 0
        /\ Cardinality(Closings(rest)) \in Nat
    BY <1>0, <1>2, ClosingsPushed
  <2>3. Cardinality(Closings(a)) \in Nat
    BY <1>0, ClosingsFinite DEF Pushes
  <2> QED
    BY <2>1, <2>2, <2>3, <1>2 DEF Matched
<1> QED
  BY <1>0, <1>2, <1>3, <1>4, <1>5, <1>6, <1>7, <1>8, <1>9, <1>10

LEMMA EmitKeeps == IInv /\ EmitStep => IInv'
<1> SUFFICES ASSUME IInv, EmitStep PROVE IInv'
  OBVIOUS
<1>1. PICK nodes : GoodNodes(This, nodes) /\ Emit(nodes)
  BY DEF EmitStep
<1>2. /\ Called /\ Chosen /\ TypeOK /\ ReceivesFirst /\ SourcesBehind /\ StackRises /\ KidsBehind
      /\ (global[This].class \in DroppedClass \/ global[This].kids = << >>)
  BY DEF EmitStep, IInv
<1>3. VisitStep(nodes, << >>)
  BY <1>1, <1>2, EmitVisits
<1>4. /\ Grown(nodes) /\ UNCHANGED <<global, endpoint, stack_>>
      /\ \A q \in DOMAIN out : q # Top => out'[q].kids = out[q].kids
  BY <1>1, <1>2, EmitEffect DEF GoodNodes, Emit
<1>5. StackOK' /\ StackRises' /\ KidsBehind'
  BY <1>2, <1>4, StackSame
<1>6. ReceivesFirst'
  BY <1>1, <1>2, EmitOrder
<1>7. Matched'
  <2>1. Closings(<< >>) = {}
    BY DEF Closings, Places
  <2>2. Cardinality(Closings(<< >>)) = 0
    BY <2>1, FS_EmptySet
  <2>3. Cardinality(Closings(rest)') = Cardinality(Closings(<< >>)) + (Len(stack_) - 1)
    BY <1>3, VisitKeeps
  <2>4. Len(stack_) \in Nat
    BY <1>2, StackFacts
  <2> QED
    BY <2>2, <2>3, <2>4, <1>4 DEF Matched
<1>8. TypeOK'
  BY <1>3, <1>5, <1>7, VisitKeeps, TypeAfter
<1> QED
  BY <1>3, <1>5, <1>6, <1>8, VisitKeeps DEF IInv

LEMMA EnterKeeps == IInv /\ EnterStep => IInv'
<1> SUFFICES ASSUME IInv, EnterStep PROVE IInv'
  OBVIOUS
<1>1. PICK node \in Fresh : GoodNodes(This, <<node>>) /\ Enter(node)
  BY DEF EnterStep
<1>2. /\ Called /\ Chosen /\ TypeOK /\ ReceivesFirst /\ SourcesBehind /\ StackRises /\ KidsBehind
      /\ global[This].class \in PushedClass /\ This \in DOMAIN global
  BY DEF EnterStep, IInv, Called
<1> DEFINE a == Cat(global[This].kids, <<Close>>)
<1>3. VisitStep(<<node>>, a)
  BY <1>1, <1>2, EnterVisits
<1>4. Cardinality(Closings(a)) = 1
  BY <1>2, ClosingsOfKids
<1> HIDE DEF a
<1>5. StackOK' /\ StackRises' /\ KidsBehind' /\ Len(stack_') = Len(stack_) + 1
  BY <1>1, <1>2, StackEntered
<1>6. ReceivesFirst'
  BY <1>1, <1>2, EnterOrder
<1>7. Matched'
  <2>1. Cardinality(Closings(rest)') = Cardinality(Closings(a)) + (Len(stack_) - 1)
    BY <1>3, VisitKeeps
  <2>2. Len(stack_) \in Nat
    BY <1>2, StackFacts
  <2> QED
    BY <2>1, <2>2, <1>4, <1>5 DEF Matched
<1>8. TypeOK'
  BY <1>3, <1>5, <1>7, VisitKeeps, TypeAfter
<1> QED
  BY <1>3, <1>5, <1>6, <1>8, VisitKeeps DEF IInv

LEMMA BlockKeeps == IInv /\ BlockStep => IInv'
<1> SUFFICES ASSUME IInv, BlockStep PROVE IInv'
  OBVIOUS
<1>1. /\ Called /\ Chosen /\ TypeOK /\ ReceivesFirst /\ StackRises /\ KidsBehind
      /\ This \in DOMAIN global /\ UNCHANGED <<global, endpoint, stack_, out>>
  BY DEF BlockStep, IInv, Called
<1> DEFINE l == global[This].kids
<1>2. VisitStep(<< >>, l)
  BY <1>1, BlockVisits
<1>3. Cardinality(Closings(l)) = 0
  BY <1>1, ClosingsOfKids
<1> HIDE DEF l
<1>4. StackOK' /\ StackRises' /\ KidsBehind'
  BY <1>1, <1>2, StackSame DEF VisitStep
<1>5. ReceivesFirst'
  BY <1>1 DEF ReceivesFirst, IsSend, IsReceive
<1>6. Matched'
  <2>1. Cardinality(Closings(rest)') = Cardinality(Closings(l)) + (Len(stack_) - 1)
    BY <1>2, VisitKeeps
  <2>2. Len(stack_) \in Nat
    BY <1>1, StackFacts
  <2> QED
    BY <2>1, <2>2, <1>1, <1>3 DEF Matched
<1>7. TypeOK'
  BY <1>2, <1>4, <1>6, VisitKeeps, TypeAfter
<1> QED
  BY <1>2, <1>4, <1>5, <1>7, VisitKeeps DEF IInv

LEMMA CloseKeeps == IInv /\ CloseBlock => IInv'
<1> SUFFICES ASSUME IInv, CloseBlock PROVE IInv'
  OBVIOUS
<1> DEFINE a == << >>
           nodes == << >>
<1>1. /\ TypeOK /\ Chosen /\ RestRises /\ HoldersBehind /\ NotLost /\ SourcesKept /\ SourcesBehind
      /\ NodesFit /\ StackRises /\ KidsBehind /\ ReceivesFirst /\ Handled /\ StopsExplained
  BY DEF IInv
<1>2. /\ RestOK /\ Matched /\ global \in Seq(SourceNode) /\ endpoint \in Role
      /\ status \in {"running", "thrown", "undefined"}
  BY <1>1, TypeParts
<1>3. /\ rest # << >> /\ This = Close /\ rest' = Tail(rest) /\ status' = status /\ status = "running"
      /\ UNCHANGED <<global, endpoint>>
  BY DEF CloseBlock, This
<1>4. Pushes(a) /\ PushesAll(a)
  <2>1. rest' = Cat(a, Tail(rest)) /\ a \in Seq(0..Len(global))
    BY <1>2, <1>3 DEF Cat, RestOK
  <2> QED
    BY <2>1, <1>3 DEF Pushes, PushesAll
<1>5. Grown(nodes)
  BY <1>1, CloseEffect
<1>6. OutOK' /\ Chosen' /\ StopsExplained'
  BY <1>1, <1>3, <1>5 DEF Grown, Chosen, StopsExplained
<1>7. RestOK' /\ RestRises' /\ HoldersBehind' /\ NotLost'
  <2>1. RestOK'
    BY <1>2, <1>3, <1>4, PushesFacts DEF RestOK
  <2>2. RestRises' /\ HoldersBehind' /\ NotLost'
    BY <1>1, <1>2, <1>4, RestRisesKept, HoldersKept, NotLostKept
  <2> QED
    BY <2>1, <2>2
<1>8. SourcesBehind' /\ SourcesKept'
  <2>1. \A k \in DOMAIN nodes : nodes[k].src = This /\ This # Close /\ nodes[k].src \notin Lost
    OBVIOUS
  <2> HIDE DEF a, nodes
  <2> QED
    BY <2>1, <1>1, <1>3, <1>4, <1>5, SourcesBehindKept, KeptGrown
<1>9. NodesFit'
  <2> SUFFICES ASSUME NEW k \in DOMAIN out' PROVE Fits(out[k])'
    BY DEF NodesFit
  <2>1. k \in DOMAIN out
    BY <1>1, <1>3, <1>5, GrownFacts
  <2> QED
    BY <2>1, <1>1, <1>3, <1>5, GrownFacts DEF NodesFit
<1>10. Handled'
  BY <1>1, <1>3, <1>4, <1>5, HandledKept
<1>11. StackOK' /\ StackRises' /\ KidsBehind' /\ Len(stack_') = Len(stack_) - 1
  BY <1>1, StackClosed
<1>12. ReceivesFirst'
  BY <1>1, CloseOrder
<1>13. Matched'
  <2>1. Closings(rest)' = Closings(rest')
    BY DEF Closings, Places
  <2>2. Closings(a) = {}
    BY DEF Closings, Places
  <2>3. Cardinality(Closings(a)) = 0
    BY <2>2, FS_EmptySet
  <2>4. /\ Cardinality(Closings(rest')) = Cardinality(Closings(a)) + Cardinality(Closings(rest)) - 1
        /\ Cardinality(Closings(rest)) \in Nat
    BY <1>2, <1>3, <1>4, ClosingsPushed
  <2>5. Len(stack_) \in Nat
    BY <1>1, StackFacts
  <2> QED
    BY <2>1, <2>3, <2>4, <2>5, <1>2, <1>11 DEF Matched
<1>14. TypeOK'
  BY <1>2, <1>3, <1>6, <1>7, <1>11, <1>13, TypeAfter
<1> QED
  BY <1>6, <1>7, <1>8, <1>9, <1>10, <1>11, <1>12, <1>14 DEF IInv

\* Where projection stops, what there is remains, and Handled asks nothing.
LEMMA StopKeeps == IInv /\ StopStep => IInv'
<1> SUFFICES ASSUME IInv, StopStep PROVE IInv'
  OBVIOUS
<1>1. UNCHANGED <<global, endpoint, rest, stack_, out>> /\ status' \in {"thrown", "undefined"}
      /\ StopsExplained'
  BY DEF StopStep
<1>2. TypeOK' /\ Chosen'
  BY <1>1, TypeParts DEF IInv, Chosen, TypeOK
<1>3. RestRises' /\ HoldersBehind' /\ NotLost' /\ SourcesBehind' /\ StackRises' /\ KidsBehind'
  BY <1>1 DEF IInv, RestRises, HoldersBehind, NotLost, SourcesBehind, StackRises, KidsBehind, ToCome
<1>4. SourcesKept' /\ ReceivesFirst'
  BY <1>1 DEF IInv, SourcesKept, Lost, ReceivesFirst, IsSend, IsReceive
<1>5. NodesFit'
  BY <1>1, NodeKept DEF IInv, NodesFit
<1>6. Handled'
  BY <1>1 DEF Handled
<1> QED
  BY <1>1, <1>2, <1>3, <1>4, <1>5, <1>6 DEF IInv

LEMMA StutterKeeps == IInv /\ UNCHANGED vars => IInv'
<1> SUFFICES ASSUME IInv, UNCHANGED vars PROVE IInv'
  OBVIOUS
<1>1. UNCHANGED <<global, endpoint, rest, stack_, out, status>>
  BY DEF vars
<1>2. TypeOK' /\ Chosen'
  BY <1>1 DEF IInv, Chosen, TypeOK
<1>3. RestRises' /\ HoldersBehind' /\ NotLost' /\ SourcesBehind' /\ StackRises' /\ KidsBehind'
  BY <1>1 DEF IInv, RestRises, HoldersBehind, NotLost, SourcesBehind, StackRises, KidsBehind, ToCome
<1>4. SourcesKept' /\ ReceivesFirst'
  BY <1>1 DEF IInv, SourcesKept, Lost, ReceivesFirst, IsSend, IsReceive
<1>5. NodesFit'
  BY <1>1, NodeKept DEF IInv, NodesFit
<1>6. Handled'
  <2> SUFFICES ASSUME status = "running", NEW n \in Visited PROVE HasNodes(n)'
    BY <1>1 DEF Handled, Visited, Pending, Lost
  <2>1. HasNodes(n)
    BY DEF IInv, Handled
  <2>2. Received(n)' = Received(n) /\ Said(n)' = Said(n) /\ Sources' = Sources
    BY <1>1 DEF Received, Said, IsSend, IsReceive, Sources
  <2>3. /\ HeardOf(n)' = HeardOf(n) /\ SaidBy(n)' = SaidBy(n)
        /\ Receivers(n)' = Receivers(n)
    BY <1>1, TreeKept
  <2> QED
    BY <2>1, <2>2, <2>3, <1>1 DEF HasNodes
<1>7. StopsExplained'
  <2>1. Receivers(This)' = Receivers(This)
    BY <1>1 DEF Receivers, Receiving, Matches, SameRole, This
  <2>2. RuleNine(This)' = RuleNine(This)
    BY <1>1, <2>1 DEF RuleNine, Ordinary, This
  <2>3. Uncopyable(This)' = Uncopyable(This)
    BY <1>1 DEF Uncopyable, Copied, CopiedRoles, HasLog, Below, This
  <2> QED
    BY <1>1, <2>2, <2>3 DEF IInv, StopsExplained, This, HasLog
<1> QED
  BY <1>1, <1>2, <1>3, <1>4, <1>5, <1>6, <1>7 DEF IInv
-----------------------------------------------------------------------------
LEMMA InitIInv == Init => IInv
<1> SUFFICES ASSUME Init PROVE IInv
  OBVIOUS
<1> DEFINE root == NewNode(0, "Block", NoRole, << >>, NoRole, << >>)
<1>1. /\ Chosen /\ rest = <<1>> /\ stack_ = <<1>> /\ status = "running" /\ out = <<root>>
  BY DEF Init, Chosen
<1>2. /\ global \in Seq(SourceNode) /\ global # << >> /\ endpoint \in Role
      /\ Len(global) \in Nat \ {0} /\ DOMAIN global = 1..Len(global)
  BY <1>1, TreeFacts
<1>3. root \in OutNode /\ root.src = 0 /\ root.class = "Block" /\ root.kids = << >>
  <2>1. /\ 0 \in Nat /\ "Block" \in Class /\ << >> \in Seq(Nat) /\ << >> \in Seq(Role)
        /\ NoRole \in Role \cup {NoRole}
    BY DEF Class, BlockClass
  <2> QED
    BY <2>1 DEF NewNode, OutNode
<1> HIDE DEF root
<1>4. /\ DOMAIN out = {1} /\ out[1] = root /\ Len(out) = 1
      /\ DOMAIN rest = {1} /\ rest[1] = 1 /\ ToCome = {1}
      /\ DOMAIN stack_ = {1} /\ stack_[1] = 1 /\ Len(stack_) = 1
  BY <1>1 DEF ToCome, Close
<1>5. TypeOK
  <2>1. OutOK
    BY <1>1, <1>3, <1>4 DEF OutOK
  <2>2. StackOK /\ RestOK
    BY <1>1, <1>2, <1>4 DEF StackOK, RestOK
  <2>3. Matched
    BY <1>1, <1>4, ClosingsOfOne DEF Matched, Close
  <2> QED
    BY <2>1, <2>2, <2>3, <1>1, <1>2, TypeParts
<1>6. StopsExplained /\ RestRises /\ HoldersBehind /\ StackRises
  BY <1>1, <1>4 DEF StopsExplained, RestRises, HoldersBehind, StackRises
<1>7. NotLost
  <2> SUFFICES ASSUME NEW d \in DOMAIN global, 1 \in Below(global, d) PROVE d = 1
    BY <1>4 DEF NotLost
  <2>1. d <= 1
    BY <1>2, BelowInTree
  <2> QED
    BY <2>1, <1>2
<1>8. SourcesKept
  <2>1. 0 \notin Lost
    <3> SUFFICES ASSUME NEW d \in DOMAIN global, 0 \in Below(global, d) PROVE FALSE
      BY DEF Lost
    <3>1. 0 \in DOMAIN global
      BY <1>2, BelowInTree
    <3> QED
      BY <3>1, <1>2
  <2> QED
    BY <2>1, <1>3, <1>4 DEF SourcesKept
<1>9. SourcesBehind /\ NodesFit
  BY <1>3, <1>4 DEF SourcesBehind, NodesFit, Fits
<1>10. KidsBehind /\ ReceivesFirst
  BY <1>3, <1>4 DEF KidsBehind, ReceivesFirst
<1>11. Handled
  <2> SUFFICES ASSUME NEW n \in Visited PROVE FALSE
    BY DEF Handled
  <2>1. n \in DOMAIN global /\ n \notin Pending
    BY DEF Visited
  <2>2. n \in Below(global, 1)
    BY <2>1, <1>2 DEF Below
  <2>3. n \in Pending
    BY <2>2, <1>4, PendingFacts
  <2> QED
    BY <2>1, <2>3
<1> QED
  BY <1>1, <1>5, <1>6, <1>7, <1>8, <1>9, <1>10, <1>11 DEF IInv

\* Every step keeps the inductive invariant.
LEMMA StepIInv == IInv /\ [Next]_vars => IInv'
<1> SUFFICES ASSUME IInv, [Next]_vars PROVE IInv'
  OBVIOUS
<1>1. EmitStep \/ EnterStep \/ BlockStep \/ StopStep \/ CloseBlock \/ UNCHANGED vars
  BY StepKinds DEF IInv
<1> QED
  BY <1>1, EmitKeeps, EnterKeeps, BlockKeeps, StopKeeps, CloseKeeps, StutterKeeps

THEOREM Invariance == Spec => []IInv
<1>1. Init => IInv
  BY InitIInv
<1>2. IInv /\ [Next]_vars => IInv'
  BY StepIInv
<1> QED
  BY <1>1, <1>2, PTL DEF Spec
-----------------------------------------------------------------------------
LEMMA IInvParticipates == IInv => Participates
<1> SUFFICES ASSUME IInv PROVE Participates
  OBVIOUS
<1>1. ASSUME NEW k \in DOMAIN out
      PROVE  (IsSend(k) => SentBy(out[k].src)) /\ (IsReceive(k) => Receivers(out[k].src) # << >>)
  <2>1. Fits(out[k])
    BY DEF IInv, NodesFit
  <2> QED
    BY <2>1 DEF Fits, Sent, Got, IsSend, IsReceive
<1>2. ASSUME NEW n \in Visited, status = "running", global[n].class = "Interaction"
      PROVE  LET received == Cardinality({k \in DOMAIN out : out[k].src = n /\ IsReceive(k)})
                 sent     == Cardinality({k \in DOMAIN out : out[k].src = n /\ IsSend(k)})
                 matching == Len(Receivers(n)) IN
             IF Ordinary THEN /\ received = (IF matching > 0 THEN 1 ELSE 0)
                              /\ sent = (IF SentBy(n) /\ matching = 0 THEN 1 ELSE 0)
             ELSE /\ received = Cardinality(Hearing(n))
                  /\ sent = (IF SentBy(n) THEN 1 ELSE 0)
  <2>1. HasNodes(n)
    BY <1>2 DEF IInv, Handled
  <2>2. Cardinality(Received(n)) = HeardOf(n) /\ Cardinality(Said(n)) = SaidBy(n)
    BY <2>1, <1>2 DEF HasNodes
  <2> QED
    BY <2>2 DEF Received, Said, HeardOf, SaidBy
<1> QED
  BY <1>1, <1>2 DEF Participates

LEMMA IInvConditionFits == IInv => ConditionFits
<1> SUFFICES ASSUME IInv, NEW k \in DOMAIN out, out[k].class = "Interaction"
             PROVE  IF Ordinary THEN out[k].cond = NoRole
                    ELSE LET sndr == global[out[k].src].sndr
                             relative == IsReceive(k) /\ IsBindable(sndr) IN
                         /\ out[k].cond # NoRole
                         /\ \/ Matches(out[k].cond, endpoint)
                            \/ relative /\ Len(sndr.dims) < Len(endpoint.dims)
                            \/ relative /\ \E r \in Range(Receivers(out[k].src)) :
                                             r.grp /\ out[k].cond = AppliedRole(sndr, r)
  BY DEF ConditionFits
<1>1. Fits(out[k])
  BY DEF IInv, NodesFit
<1>2. Got(out[k]) <=> IsReceive(k)
  BY DEF Got, Sent, IsReceive, IsSend
<1> QED
  BY <1>1, <1>2 DEF Fits

LEMMA IInvStructureKept == IInv => StructureKept
<1> SUFFICES ASSUME IInv PROVE StructureKept
  OBVIOUS
<1>1. Sources \cap Lost = {}
  BY DEF IInv, SourcesKept, Sources
<1>2. \A n \in Visited : status = "running" /\ global[n].class \in PushedClass \cup LeafClass => n \in Sources
  BY DEF IInv, Handled, HasNodes
<1> QED
  BY <1>1, <1>2 DEF StructureKept

\* Types, and one closing to come for each open block but the root: when the visitor
\* appends to top() there is a block on the stack, and it is the innermost open one.
THEOREM TypeCorrect == Spec => []TypeOK
<1>1. IInv => TypeOK
  BY DEF IInv
<1> QED
  BY <1>1, Invariance, PTL

\* visit(InteractionNode *): whatever the roles, ranges and groups, the local type has
\* no send and no receive in which the endpoint has no part, and has its send and its
\* receives of every interaction; of one whose sender has no indices, receives for groups
\* only.
THEOREM ParticipationKept == Spec => []Participates
BY IInvParticipates, Invariance, PTL

\* Rules 3 to 9 append the receives before the send, and children are appended in the
\* order of the global type: what the endpoint does keeps its order.
THEOREM OrderKept == Spec => []ReceivesFirst
<1>1. IInv => ReceivesFirst
  BY DEF IInv
<1> QED
  BY <1>1, Invariance, PTL

\* The condition that guards a statement of an array concerns the endpoint, except where
\* Rule 9 makes it with the dimensions of another role.
THEOREM ConditionsFit == Spec => []ConditionFits
BY IInvConditionFits, Invariance, PTL

\* Projection ends without a local type only by a null role, by a clone of an index with
\* a logarithm, or by Rule 9 and an index of a receiver that is missing or that it cannot
\* apply, evaluate or invert.
THEOREM StopsJustified == Spec => []StopsExplained
<1>1. IInv => StopsExplained
  BY DEF IInv
<1> QED
  BY <1>1, Invariance, PTL

\* What visit(OneofNode *) and visit(IfNode *) drop is dropped with all that is below,
\* and every other block, loop and leaf that was visited is in the local type.
THEOREM StructureComplete == Spec => []StructureKept
BY IInvStructureKept, Invariance, PTL

-----------------------------------------------------------------------------
\* The inductive invariant of the shape of the local type.  Nothing is left to do only
\* where the projection ran to its end.
RunsOn      == status # "running" => rest # << >>
\* A node other than the root is that of a statement of its class.
ShapeOf(nd) ==
  /\ nd.src \in DOMAIN global /\ nd.class = global[nd.src].class
  /\ nd.class \notin DroppedClass \cup {"Block"}
  /\ nd.class = "Nested" => Receivers(nd.src) # << >>
NodesShaped == /\ out[1].src = 0 /\ out[1].class = "Block"
               /\ \A k \in DOMAIN out : k # 1 => ShapeOf(out[k])
\* For an ordinary endpoint no statement has two nodes.
OneEach     == Ordinary => \A k, l \in DOMAIN out : k < l => out[k].src < out[l].src
\* A call to come belongs into the block on the stack that the closings before it leave
\* on top; each open block into the one before it, and each child where it is.
Levels(level) ==
  /\ rest # << >> => level[1] = Len(stack_)
  /\ \A i, j \in DOMAIN rest : i <= j => level[j] <= level[i]
  /\ \A i \in DOMAIN rest : i + 1 \in DOMAIN rest =>
       level[i + 1] = IF rest[i] = Close THEN level[i] - 1 ELSE level[i]
  /\ \A i \in ToCome : NearestBlock(global, rest[i]) = out[stack_[level[i]]].src
RestNests  == \E level \in [DOMAIN rest -> DOMAIN stack_] : Levels(level)
StackNests == \A s \in 2..Len(stack_) : NearestBlock(global, out[stack_[s]].src) = out[stack_[s - 1]].src
KidsPlaced == \A p \in DOMAIN out : \A i \in DOMAIN out[p].kids :
                NearestBlock(global, out[out[p].kids[i]].src) = out[p].src
\* No node is twice among the children of another, and each but the root is a child or
\* open.
KidsDiffer == \A p \in DOMAIN out : \A i, j \in DOMAIN out[p].kids :
                i < j => out[p].kids[i] # out[p].kids[j]
IsKid(k)   == \E p \in DOMAIN out : \E i \in DOMAIN out[p].kids : out[p].kids[i] = k
IsOpen(k)  == \E s \in 2..Len(stack_) : stack_[s] = k
AllPlaced  == \A k \in DOMAIN out : k = 1 \/ IsKid(k) \/ IsOpen(k)

ShapeInv == /\ RunsOn /\ NodesShaped /\ OneEach /\ RestNests /\ StackNests /\ KidsPlaced
            /\ KidsDiffer /\ AllPlaced
LEMMA SourceKept ==
  ASSUME TypeOK, NEW nodes, Grown(nodes), NEW k \in DOMAIN out
  PROVE  out'[k].src = out[k].src /\ out'[k].class = out[k].class
<1> DEFINE o == out[k]
           l == out'[k].kids
<1>1. o \in OutNode /\ out'[k] = [o EXCEPT !.kids = l]
  BY StackFacts DEF Grown
<1> HIDE DEF o, l
<1>2. [o EXCEPT !.kids = l].src = o.src /\ [o EXCEPT !.kids = l].class = o.class
  BY <1>1 DEF OutNode
<1> QED
  BY <1>1, <1>2 DEF o

LEMMA ShapeKept ==
  ASSUME UNCHANGED <<global, endpoint>>, NEW a, NEW b, a.src = b.src, a.class = b.class, ShapeOf(b)
  PROVE  ShapeOf(a)'
<1>1. Receivers(b.src)' = Receivers(b.src)
  BY TreeKept
<1> QED
  BY <1>1 DEF ShapeOf

LEMMA ShapesGrown ==
  ASSUME TypeOK, NodesShaped, UNCHANGED <<global, endpoint>>, NEW nodes, Grown(nodes),
         nodes # << >> => This \in DOMAIN global /\ GoodNodes(This, nodes)
  PROVE  NodesShaped'
<1>0. /\ DOMAIN nodes = 1..Len(nodes) /\ Len(nodes) \in Nat /\ DOMAIN out = 1..Len(out) /\ Len(out) \in Nat \ {0}
      /\ \A k \in DOMAIN out' : k \notin DOMAIN out => k - Len(out) \in DOMAIN nodes /\ out'[k] = nodes[k - Len(out)]
  BY GrownFacts, StackFacts
<1>1. out'[1].src = 0 /\ out'[1].class = "Block"
  <2>1. 1 \in DOMAIN out
    BY <1>0
  <2> QED
    BY <2>1, SourceKept DEF NodesShaped
<1>2. ASSUME NEW k \in DOMAIN out', k # 1 PROVE ShapeOf(out[k])'
  <2>1. CASE k \in DOMAIN out
    BY <2>1, <1>2, SourceKept, ShapeKept DEF NodesShaped
  <2>2. CASE k \notin DOMAIN out
    <3> DEFINE i == k - Len(out)
    <3>1. i \in DOMAIN nodes /\ out'[k] = nodes[i] /\ nodes # << >>
      BY <2>2, <1>0, <1>2
    <3> HIDE DEF i
    <3>2. This \in DOMAIN global /\ GoodNodes(This, nodes)
      BY <3>1
    <3>3. nodes[i].src = This /\ nodes[i].class = global[This].class /\ Shaped(This, nodes)
      BY <3>1, <3>2 DEF GoodNodes, Shaped
    <3>4. global[This].class \notin DroppedClass \cup {"Block"}
      BY <3>1, <3>2, <3>3 DEF GoodNodes, Shaped
    <3>5. global[This].class = "Nested" => Receivers(This) # << >>
      BY <3>1, <3>3 DEF Shaped
    <3>6. ShapeOf(nodes[i])
      BY <3>2, <3>3, <3>4, <3>5 DEF ShapeOf
    <3> QED
      BY <3>1, <3>6, ShapeKept
  <2> QED
    BY <2>1, <2>2
<1> QED
  BY <1>1, <1>2 DEF NodesShaped

LEMMA OneEachKept ==
  ASSUME Chosen, TypeOK, SourcesBehind, OneEach, UNCHANGED <<global, endpoint>>, NEW nodes, Grown(nodes),
         nodes # << >> => Called /\ GoodNodes(This, nodes)
  PROVE  OneEach'
<1>0. /\ DOMAIN nodes = 1..Len(nodes) /\ Len(nodes) \in Nat /\ DOMAIN out = 1..Len(out) /\ Len(out) \in Nat \ {0}
      /\ DOMAIN out' = 1..(Len(out) + Len(nodes))
  BY GrownFacts, StackFacts
<1> SUFFICES ASSUME Ordinary, NEW k \in DOMAIN out', NEW l \in DOMAIN out', k < l
             PROVE  out'[k].src < out'[l].src
  BY DEF OneEach, Ordinary
<1>1. CASE l \in DOMAIN out
  <2>1. k \in DOMAIN out
    BY <1>0, <1>1
  <2> QED
    BY <2>1, <1>1, SourceKept DEF OneEach
<1>2. CASE l \notin DOMAIN out
  <2>1. nodes # << >>
    BY <1>0, <1>2
  <2>2. Called /\ GoodNodes(This, nodes)
    BY <2>1
  <2>3. Len(nodes) <= 1
    BY <2>2 DEF GoodNodes, Shaped
  <2>4. k \in DOMAIN out
    BY <2>3, <1>0, <1>2
  <2> QED
    BY <2>2, <2>4, <1>2, MadeAfter
<1> QED
  BY <1>1, <1>2

-----------------------------------------------------------------------------
\* What a step does to the children: those of node h get new ones, behind the others.
OldKid(p, i) == p \in DOMAIN out /\ i \in DOMAIN out[p].kids /\ out'[p].kids[i] = out[p].kids[i]
KidsAfter(h, new) ==
  /\ h \in DOMAIN out /\ DOMAIN out \subseteq DOMAIN out'
  /\ \A p \in DOMAIN out' : \A i \in DOMAIN out'[p].kids : OldKid(p, i) \/ (p = h /\ out'[p].kids[i] \in new)
  /\ \A p \in DOMAIN out : \A i \in DOMAIN out[p].kids :
       i \in DOMAIN out'[p].kids /\ out'[p].kids[i] = out[p].kids[i]
  /\ \A i, j \in DOMAIN out'[h].kids : i < j /\ ~OldKid(h, j) => out'[h].kids[i] # out'[h].kids[j]
  /\ \A k \in new : \E i \in DOMAIN out'[h].kids : out'[h].kids[i] = k

LEMMA KidsPlacedKept ==
  ASSUME TypeOK, KidsPlaced, UNCHANGED <<global, endpoint>>, NEW nodes, Grown(nodes), NEW h, NEW new, KidsAfter(h, new),
         \A k \in new : NearestBlock(global, out'[k].src) = out[h].src
  PROVE  KidsPlaced'
<1> SUFFICES ASSUME NEW p \in DOMAIN out', NEW i \in DOMAIN out'[p].kids
             PROVE  NearestBlock(global, out'[out'[p].kids[i]].src) = out'[p].src
  BY DEF KidsPlaced
<1>1. CASE OldKid(p, i)
  <2>1. p \in DOMAIN out /\ i \in DOMAIN out[p].kids /\ out'[p].kids[i] = out[p].kids[i]
    BY <1>1 DEF OldKid
  <2>2. out[p].kids[i] \in DOMAIN out
    BY <2>1, TypeParts DEF OutOK
  <2>3. NearestBlock(global, out[out[p].kids[i]].src) = out[p].src
    BY <2>1 DEF KidsPlaced
  <2> QED
    BY <2>1, <2>2, <2>3, SourceKept
<1>2. CASE p = h /\ out'[p].kids[i] \in new
  <2>1. out'[h].src = out[h].src
    BY SourceKept DEF KidsAfter
  <2> QED
    BY <2>1, <1>2
<1> QED
  BY <1>1, <1>2 DEF KidsAfter

LEMMA KidsDifferKept ==
  ASSUME TypeOK, KidsDiffer, OutOK', NEW h, NEW new, KidsAfter(h, new)
  PROVE  KidsDiffer'
<1> SUFFICES ASSUME NEW p \in DOMAIN out', NEW i \in DOMAIN out'[p].kids, NEW j \in DOMAIN out'[p].kids, i < j
             PROVE  out'[p].kids[i] # out'[p].kids[j]
  BY DEF KidsDiffer
<1>1. CASE OldKid(p, j)
  <2>1. p \in DOMAIN out /\ j \in DOMAIN out[p].kids /\ out'[p].kids[j] = out[p].kids[j]
    BY <1>1 DEF OldKid
  <2>2. out[p].kids \in Seq(Nat) /\ out'[p].kids \in Seq(Nat)
    <3>1. out'[p] \in OutNode
      BY DEF OutOK
    <3> QED
      BY <2>1, <3>1, StackFacts DEF OutNode
  <2>3. i \in DOMAIN out[p].kids
    BY <2>1, <2>2
  <2>4. out'[p].kids[i] = out[p].kids[i]
    BY <2>1, <2>3 DEF KidsAfter
  <2> QED
    BY <2>1, <2>3, <2>4 DEF KidsDiffer
<1>2. CASE ~OldKid(p, j)
  <2>1. p = h
    BY <1>2 DEF KidsAfter
  <2> QED
    BY <2>1, <1>2 DEF KidsAfter
<1> QED
  BY <1>1, <1>2

LEMMA AllPlacedKept ==
  ASSUME AllPlaced, NEW h, NEW new, KidsAfter(h, new),
         \A k \in DOMAIN out' : k \in DOMAIN out \/ k \in new \/ IsOpen(k)',
         \A k : IsOpen(k) => IsOpen(k)' \/ k \in new
  PROVE  AllPlaced'
<1> SUFFICES ASSUME NEW k \in DOMAIN out', k # 1, ~IsOpen(k)' PROVE IsKid(k)'
  BY DEF AllPlaced
<1>1. CASE k \in new
  <2>1. \E i \in DOMAIN out'[h].kids : out'[h].kids[i] = k
    BY <1>1 DEF KidsAfter
  <2>2. h \in DOMAIN out'
    BY DEF KidsAfter
  <2> QED
    BY <2>1, <2>2 DEF IsKid
<1>2. CASE k \notin new
  <2>1. k \in DOMAIN out /\ ~IsOpen(k)
    BY <1>2
  <2>2. IsKid(k)
    BY <2>1 DEF AllPlaced
  <2>3. PICK p \in DOMAIN out : \E i \in DOMAIN out[p].kids : out[p].kids[i] = k
    BY <2>2 DEF IsKid
  <2>4. PICK i \in DOMAIN out[p].kids : out[p].kids[i] = k
    BY <2>3
  <2>5. p \in DOMAIN out' /\ i \in DOMAIN out'[p].kids /\ out'[p].kids[i] = k
    BY <2>4 DEF KidsAfter
  <2> QED
    BY <2>5 DEF IsKid
<1> QED
  BY <1>1, <1>2

LEMMA FreshHasNone ==
  ASSUME TypeOK, UNCHANGED <<global, endpoint>>, NEW nodes, Grown(nodes), NEW p \in DOMAIN out', p \notin DOMAIN out
  PROVE  out'[p].kids = << >>
<1>1. nodes \in Seq(Fresh) /\ p - Len(out) \in DOMAIN nodes /\ out'[p] = nodes[p - Len(out)]
  BY GrownFacts
<1>2. nodes[p - Len(out)] \in Fresh
  BY <1>1
<1> QED
  BY <1>1, <1>2 DEF Fresh

LEMMA KidsSame ==
  ASSUME TypeOK, UNCHANGED <<global, endpoint>>, NEW nodes, Grown(nodes), NEW h \in DOMAIN out,
         \A q \in DOMAIN out : out'[q].kids = out[q].kids
  PROVE  KidsAfter(h, {})
<1>1. DOMAIN out \subseteq DOMAIN out'
  BY GrownFacts
<1>2. ASSUME NEW p \in DOMAIN out', NEW i \in DOMAIN out'[p].kids PROVE OldKid(p, i)
  <2>1. CASE p \in DOMAIN out
    BY <2>1, <1>2 DEF OldKid
  <2>2. CASE p \notin DOMAIN out
    <3>1. out'[p].kids = << >>
      BY <2>2, FreshHasNone
    <3> QED
      BY <3>1, <1>2
  <2> QED
    BY <2>1, <2>2
<1> QED
  BY <1>1, <1>2 DEF KidsAfter

LEMMA EmitKids ==
  ASSUME TypeOK, NEW nodes \in Seq(Fresh), Emit(nodes)
  PROVE  KidsAfter(Top, (Len(out) + 1)..(Len(out) + Len(nodes)))
<1> DEFINE m == Len(out)
           old == out[Top].kids
           new == out'[Top].kids
           c == Len(old)
<1>0. /\ Grown(nodes) /\ UNCHANGED <<global, endpoint>>
      /\ \A q \in DOMAIN out : out'[q].kids = IF q = Top THEN Added(out[q].kids, Len(out), nodes) ELSE out[q].kids
  BY EmitEffect DEF Emit
<1>1. /\ DOMAIN out \subseteq DOMAIN out' /\ Top \in DOMAIN out /\ m \in Nat /\ Len(nodes) \in Nat
      /\ \A q \in DOMAIN out : out[q].kids \in Seq(Nat) /\ \A i \in DOMAIN out[q].kids : out[q].kids[i] \in 1..m
  <2>1. \A q \in DOMAIN out : \A i \in DOMAIN out[q].kids : out[q].kids[i] \in DOMAIN out
    BY TypeParts DEF OutOK
  <2> QED
    BY <2>1, <1>0, GrownFacts, StackFacts
<1>2. new = Added(old, m, nodes)
  BY <1>0, <1>1
<1>3. /\ new \in Seq(Nat) /\ Len(new) = c + Len(nodes) /\ c \in Nat /\ DOMAIN old = 1..c
      /\ \A i \in 1..c : new[i] = old[i]
      /\ \A i \in (c + 1)..(c + Len(nodes)) : new[i] = m + (i - c)
  <2>1. old \in Seq(Nat)
    BY <1>1
  <2>2. /\ Added(old, m, nodes) \in Seq(Nat) /\ Len(Added(old, m, nodes)) = Len(old) + Len(nodes)
        /\ \A i \in 1..Len(old) : Added(old, m, nodes)[i] = old[i]
        /\ \A i \in (Len(old) + 1)..(Len(old) + Len(nodes)) : Added(old, m, nodes)[i] = m + (i - Len(old))
    BY <2>1, <1>1, AddedFacts
  <2>3. Len(old) \in Nat /\ DOMAIN old = 1..Len(old)
    BY <2>1
  <2> QED
    BY <2>2, <2>3, <1>2
<1> HIDE DEF m, old, new, c
<1>4. DOMAIN new = 1..(c + Len(nodes))
  BY <1>3
<1>4a. m \in Nat /\ c \in Nat /\ Len(nodes) \in Nat
  BY <1>1, <1>3
<1>5. ASSUME NEW i \in DOMAIN new
      PROVE  /\ i \in 1..c => OldKid(Top, i)
             /\ i \notin 1..c => new[i] = m + (i - c) /\ new[i] \in (m + 1)..(m + Len(nodes))
  <2>1. i \in 1..c => i \in DOMAIN old /\ new[i] = old[i]
    BY <1>3
  <2>2. i \in 1..c => OldKid(Top, i)
    BY <2>1, <1>1 DEF OldKid, old, new
  <2>3. i \notin 1..c => i \in (c + 1)..(c + Len(nodes))
    BY <1>4, <1>4a, <1>5
  <2>4. ASSUME i \notin 1..c PROVE new[i] = m + (i - c)
    BY <2>3, <2>4, <1>3
  <2>5. i \notin 1..c => m + (i - c) \in (m + 1)..(m + Len(nodes))
    BY <2>3, <1>4a
  <2> QED
    BY <2>2, <2>4, <2>5
<1>6. ASSUME NEW p \in DOMAIN out', NEW i \in DOMAIN out'[p].kids
      PROVE  OldKid(p, i) \/ (p = Top /\ out'[p].kids[i] \in (m + 1)..(m + Len(nodes)))
  <2>1. CASE p = Top
    BY <2>1, <1>5, <1>6 DEF new
  <2>2. CASE p # Top /\ p \in DOMAIN out
    BY <2>2, <1>0, <1>6 DEF OldKid
  <2>3. CASE p \notin DOMAIN out
    <3>1. out'[p].kids = << >>
      BY <2>3, <1>0, FreshHasNone
    <3> QED
      BY <3>1, <1>6
  <2> QED
    BY <2>1, <2>2, <2>3
<1>7. ASSUME NEW p \in DOMAIN out, NEW i \in DOMAIN out[p].kids
      PROVE  i \in DOMAIN out'[p].kids /\ out'[p].kids[i] = out[p].kids[i]
  <2>1. CASE p = Top
    <3>1. i \in 1..c
      BY <2>1, <1>3, <1>7 DEF old
    <3>2. i \in DOMAIN new
      BY <3>1, <1>4, <1>4a
    <3>3. new[i] = old[i]
      BY <3>1, <1>3
    <3> QED
      BY <2>1, <3>2, <3>3 DEF old, new
  <2>2. CASE p # Top
    BY <2>2, <1>0, <1>7
  <2> QED
    BY <2>1, <2>2
<1>8. ASSUME NEW i \in DOMAIN new, NEW j \in DOMAIN new, i < j, ~OldKid(Top, j)
      PROVE  new[i] # new[j]
  <2>1. j \notin 1..c /\ new[j] = m + (j - c) /\ j \in Nat /\ i \in Nat
    BY <1>3, <1>5, <1>8
  <2>2. CASE i \in 1..c
    <3>1. new[i] = old[i] /\ old[i] \in 1..m
      BY <2>2, <1>1, <1>3 DEF old
    <3>2. new[i] <= m /\ new[i] \in Nat
      BY <3>1, <1>4a
    <3>3. j - c > 0 /\ j - c \in Nat
      <4>1. j \in 1..(c + Len(nodes)) /\ j \notin 1..c
        BY <2>1, <1>4, <1>8
      <4> QED
        BY <4>1, <1>4a
    <3>4. m + (j - c) > m
      BY <3>3, <1>4a
    <3> QED
      BY <2>1, <3>2, <3>4, <1>4a
  <2>3. CASE i \notin 1..c
    <3>1. new[i] = m + (i - c)
      BY <2>3, <1>5
    <3> QED
      BY <3>1, <2>1, <1>1, <1>3, <1>8
  <2> QED
    BY <2>2, <2>3
<1>9. ASSUME NEW k \in (m + 1)..(m + Len(nodes)) PROVE \E i \in DOMAIN new : new[i] = k
  <2>1. c + (k - m) \in (c + 1)..(c + Len(nodes)) /\ m + ((c + (k - m)) - c) = k
    BY <1>1, <1>3
  <2>2. new[c + (k - m)] = k
    BY <2>1, <1>3
  <2>3. c + (k - m) \in DOMAIN new
    BY <2>1, <1>4, <1>4a
  <2> QED
    BY <2>2, <2>3
<1> QED
  BY <1>1, <1>6, <1>7, <1>8, <1>9 DEF KidsAfter, new, m

LEMMA CloseKids ==
  ASSUME TypeOK, StackRises, KidsBehind, CloseBlock
  PROVE  /\ KidsAfter(stack_[Len(stack_) - 1], {Top})
         /\ stack_[Len(stack_) - 1] \in DOMAIN out
<1> DEFINE n == Len(stack_)
           parent == stack_[n - 1]
           old == out[parent].kids
           new == out'[parent].kids
           c == Len(old)
<1>0. /\ n > 1 /\ Grown(<< >>) /\ UNCHANGED <<global, endpoint>>
      /\ \A q \in DOMAIN out : out'[q].kids = IF q = parent THEN Append(out[q].kids, Top) ELSE out[q].kids
  BY CloseEffect DEF CloseBlock
<1>1. /\ n \in Nat \ {0} /\ DOMAIN stack_ = 1..n /\ n - 1 \in DOMAIN stack_ /\ parent \in DOMAIN out
      /\ Top \in DOMAIN out /\ Top = stack_[n]
      /\ DOMAIN out' = DOMAIN out
  <2>1. n \in Nat \ {0} /\ DOMAIN stack_ = 1..n /\ Top \in DOMAIN out /\ Top = stack_[n]
    BY StackFacts DEF Top
  <2>2. n - 1 \in DOMAIN stack_
    BY <2>1, <1>0
  <2>3. parent \in DOMAIN out
    BY <2>2, StackFacts
  <2>4. DOMAIN out' = DOMAIN out
    BY <1>0, GrownFacts
  <2> QED
    BY <2>1, <2>2, <2>3, <2>4
<1>2. old \in Seq(Nat) /\ c \in Nat /\ DOMAIN old = 1..c /\ Top \in Nat
  BY <1>1, StackFacts
<1>3. ASSUME NEW i \in DOMAIN old PROVE old[i] # Top
  <2>1. n - 1 \in DOMAIN stack_ /\ n - 1 < n /\ (n - 1) + 1 = n
    BY <1>0, <1>1
  <2>2. out[old[i]].src < out[stack_[(n - 1) + 1]].src
    BY <2>1, <1>3 DEF KidsBehind
  <2>3. out[old[i]].src < out[Top].src /\ out[Top].src \in Nat
    BY <2>1, <2>2, <1>1, StackFacts
  <2> QED
    BY <2>3
<1>4. new = Append(old, Top)
  BY <1>0, <1>1
<1> HIDE DEF old, new, c, parent, n
<1>5. DOMAIN new = 1..(c + 1) /\ new[c + 1] = Top /\ \A i \in 1..c : new[i] = old[i]
  BY <1>2, <1>4 DEF c
<1>6. ASSUME NEW p \in DOMAIN out', NEW i \in DOMAIN out'[p].kids
      PROVE  OldKid(p, i) \/ (p = parent /\ out'[p].kids[i] \in {Top})
  <2>1. CASE p = parent
    <3>1. i \in 1..(c + 1)
      BY <2>1, <1>5, <1>6 DEF new
    <3>2. CASE i = c + 1
      BY <2>1, <3>2, <1>5 DEF new
    <3>3. CASE i # c + 1
      <4>1. i \in 1..c
        BY <3>1, <3>3, <1>2
      <4> QED
        BY <2>1, <4>1, <1>1, <1>2, <1>5 DEF OldKid, old, new
    <3> QED
      BY <3>2, <3>3
  <2>2. CASE p # parent
    BY <2>2, <1>0, <1>1, <1>6 DEF OldKid
  <2> QED
    BY <2>1, <2>2
<1>7. ASSUME NEW p \in DOMAIN out, NEW i \in DOMAIN out[p].kids
      PROVE  i \in DOMAIN out'[p].kids /\ out'[p].kids[i] = out[p].kids[i]
  <2>1. CASE p = parent
    <3>1. i \in 1..c
      BY <2>1, <1>2, <1>7 DEF old
    <3> QED
      BY <2>1, <3>1, <1>2, <1>5 DEF old, new
  <2>2. CASE p # parent
    BY <2>2, <1>0, <1>7
  <2> QED
    BY <2>1, <2>2
<1>8. ASSUME NEW i \in DOMAIN new, NEW j \in DOMAIN new, i < j, ~OldKid(parent, j)
      PROVE  new[i] # new[j]
  <2>1. j \notin 1..c
    BY <1>1, <1>2, <1>5, <1>8 DEF OldKid, old, new
  <2>2. j = c + 1 /\ i \in 1..c
    BY <2>1, <1>2, <1>5, <1>8
  <2> QED
    BY <2>2, <1>2, <1>3, <1>5
<1>9. \E i \in DOMAIN new : new[i] = Top
  BY <1>2, <1>5
<1> QED
  BY <1>1, <1>6, <1>7, <1>8, <1>9 DEF KidsAfter, new, parent, n

-----------------------------------------------------------------------------
\* The calls that are pushed belong into the block that is then on top, and what remains
\* of the calls to come stays where it is: level t is what the first of them has.
LEMMA LevelsAfter ==
  ASSUME RestOK, NEW level \in [DOMAIN rest -> DOMAIN stack_], Levels(level),
         NEW a, Pushes(a), NEW n \in Nat, DOMAIN stack_' = 1..n, Len(stack_') = n,
         NEW t \in 1..n, t = Len(stack_) - (IF This = Close THEN 1 ELSE 0),
         a = << >> => t = n,
         a # << >> => t = IF a[Len(a)] = Close THEN n - 1 ELSE n,
         \A i \in DOMAIN a : i < Len(a) => a[i] # Close,
         \A i \in DOMAIN a : a[i] # Close => NearestBlock(global, a[i]) = out'[stack_'[n]].src,
         \A i \in 1..t : out'[stack_'[i]].src = out[stack_[i]].src
  PROVE  RestNests'
<1> DEFINE c == Len(a)
           r == Len(rest)
<1>0. /\ c \in Nat /\ r \in Nat \ {0} /\ DOMAIN a = 1..c /\ DOMAIN rest = 1..r
      /\ DOMAIN rest' = 1..(c + (r - 1))
      /\ \A i \in 1..c : rest'[i] = a[i]
      /\ \A i \in (c + 1)..(c + (r - 1)) : rest'[i] = rest[i - c + 1]
      /\ rest # << >> /\ This = rest[1] /\ UNCHANGED <<global, endpoint>>
  <2>1. /\ DOMAIN rest' = 1..(c + (r - 1)) /\ c \in Nat /\ r \in Nat \ {0} /\ DOMAIN a = 1..c
        /\ \A i \in 1..c : rest'[i] = a[i]
        /\ \A i \in (c + 1)..(c + (r - 1)) : rest'[i] = rest[i - c + 1]
    BY PushesFacts
  <2>2. rest # << >> /\ UNCHANGED <<global, endpoint>>
    BY DEF Pushes
  <2>3. DOMAIN rest = 1..r /\ This = rest[1]
    BY <2>2 DEF RestOK, This
  <2> QED
    BY <2>1, <2>2, <2>3
<1>00. a = << >> <=> c = 0
  <2>1. a \in Seq(0..Len(global))
    BY DEF Pushes
  <2> QED
    BY <2>1
<1>1. /\ \A i \in 1..r : level[i] \in DOMAIN stack_
      /\ level[1] = Len(stack_)
      /\ \A i, j \in 1..r : i <= j => level[j] <= level[i]
      /\ \A i \in 1..r : i + 1 \in 1..r => level[i + 1] = IF rest[i] = Close THEN level[i] - 1 ELSE level[i]
      /\ \A i \in ToCome : NearestBlock(global, rest[i]) = out[stack_[level[i]]].src
  BY <1>0 DEF Levels
<1>2. \A i \in 1..r : level[i] \in Nat \ {0}
  <2>1. DOMAIN stack_ \subseteq Nat \ {0}
    BY <1>0, <1>1
  <2> QED
    BY <1>1, <2>1
<1>0a. /\ c \in Nat /\ r \in Nat \ {0}
       /\ \A i \in DOMAIN rest' : i \in 1..(c + (r - 1)) /\ i \in Nat
  <2> HIDE DEF c, r
  <2>1. c \in Nat /\ r \in Nat \ {0} /\ DOMAIN rest' = 1..(c + (r - 1))
    BY <1>0
  <2> QED
    BY <2>1
<1>0b. c \in Nat /\ r \in Nat \ {0}
  BY <1>0
<1> HIDE DEF c, r
<1>2a. PICK new : new = [i \in DOMAIN rest' |-> IF i <= c THEN n ELSE level[i - c + 1]]
  OBVIOUS
<1>3. ASSUME NEW i \in 2..r PROVE level[i] \in 1..t
  <2>1. 1 \in 1..r /\ 2 \in 1..r /\ 1 + 1 = 2 /\ i \in 1..r /\ 2 <= i
    BY <1>0
  <2>2. level[2] = IF rest[1] = Close THEN level[1] - 1 ELSE level[1]
    BY <2>1, <1>1
  <2>3. level[i] <= level[2]
    BY <2>1, <1>1
  <2>4. level[2] = t
    BY <2>2, <1>0, <1>1, <1>2, <2>1
  <2> QED
    BY <2>1, <2>3, <2>4, <1>2
<1>4. ASSUME 2 \in 1..r PROVE level[2] = t
  <2>1. 1 \in 1..r /\ 1 + 1 \in 1..r /\ 1 + 1 = 2
    BY <1>0, <1>4
  <2>2. level[2] = IF rest[1] = Close THEN level[1] - 1 ELSE level[1]
    BY <2>1, <1>1
  <2> QED
    BY <2>2, <1>0, <1>1, <1>2, <2>1
<1>5. ASSUME NEW i \in DOMAIN rest'
      PROVE  /\ i <= c => i \in 1..c /\ new[i] = n
             /\ ~(i <= c) => i - c + 1 \in 2..r /\ new[i] = level[i - c + 1] /\ new[i] \in 1..t
                             /\ rest'[i] = rest[i - c + 1]
  <2>1. i \in 1..(c + (r - 1))
    BY <1>0a, <1>5
  <2>2. ~(i <= c) => i - c + 1 \in 2..r /\ i \in (c + 1)..(c + (r - 1))
    BY <2>1, <1>0a
  <2>3. (i <= c => new[i] = n) /\ (~(i <= c) => new[i] = level[i - c + 1])
    BY <1>2a, <1>5
  <2>4. i <= c => i \in 1..c
    BY <2>1, <1>0a
  <2>5. ASSUME ~(i <= c)
        PROVE  level[i - c + 1] \in 1..t /\ rest'[i] = rest[i - c + 1]
    <3>1. i - c + 1 \in 2..r /\ i \in (c + 1)..(c + (r - 1))
      BY <2>2, <2>5
    <3>2. level[i - c + 1] \in 1..t
      BY <3>1, <1>3
    <3>3. rest'[i] = rest[i - c + 1]
      BY <3>1, <1>0
    <3> QED
      BY <3>2, <3>3
  <2> QED
    BY <2>2, <2>3, <2>4, <2>5
<1>6. new \in [DOMAIN rest' -> DOMAIN stack_']
  <2>1. ASSUME NEW i \in DOMAIN rest' PROVE new[i] \in 1..n
    BY <1>5
  <2>2. new = [i \in DOMAIN rest' |-> new[i]]
    BY <1>2a
  <2> QED
    BY <2>1, <2>2
<1>7. ASSUME rest' # << >> PROVE new[1] = n
  <2>1. 1 \in DOMAIN rest'
    BY <1>0, <1>7 DEF Pushes, RestOK
  <2>2. CASE c >= 1
    BY <2>1, <2>2, <1>0, <1>5
  <2>3. CASE ~(c >= 1)
    <3>1. c = 0 /\ t = n
      BY <2>3, <1>0, <1>00
    <3>2. 1 - c + 1 = 2 /\ ~(1 <= c)
      BY <3>1
    <3>3. 2 \in 2..r /\ new[1] = level[2]
      BY <2>1, <3>2, <1>5
    <3> QED
      BY <3>1, <3>3, <1>0, <1>4
  <2> QED
    BY <2>2, <2>3
<1>8. ASSUME NEW i \in DOMAIN rest', NEW j \in DOMAIN rest', i <= j PROVE new[j] <= new[i]
  <2>0. i \in Nat /\ j \in Nat
    BY <1>0a, <1>8
  <2>1. CASE j <= c
    <3>1. i <= c
      BY <2>0, <2>1, <1>0a, <1>8
    <3>2. new[i] = n /\ new[j] = n
      BY <2>1, <3>1, <1>5, <1>8
    <3> QED
      BY <3>2
  <2>2. CASE ~(j <= c) /\ i <= c
    BY <2>2, <1>5
  <2>3. CASE ~(j <= c) /\ ~(i <= c)
    <3>0. i - c + 1 \in 2..r /\ j - c + 1 \in 2..r
      BY <2>3, <1>5, <1>8
    <3>1. i - c + 1 \in 1..r /\ j - c + 1 \in 1..r /\ i - c + 1 <= j - c + 1
      BY <2>0, <3>0, <1>0b, <1>8
    <3> QED
      BY <3>1, <2>3, <1>1, <1>5
  <2> QED
    BY <2>1, <2>2, <2>3
<1>9. ASSUME NEW i \in DOMAIN rest', i + 1 \in DOMAIN rest'
      PROVE  new[i + 1] = IF rest'[i] = Close THEN new[i] - 1 ELSE new[i]
  <2>0. i \in Nat \ {0} /\ i + 1 \in 1..(c + (r - 1))
    BY <1>0a, <1>9
  <2>1. CASE i + 1 <= c
    <3>0. i \in 1..c /\ i < c
      BY <2>0, <2>1, <1>0b
    <3>1. rest'[i] = a[i] /\ a[i] # Close
      BY <3>0, <1>0 DEF c
    <3>2. i <= c
      BY <3>0, <1>0b
    <3>3. new[i] = n /\ new[i + 1] = n
      BY <2>1, <3>2, <1>5, <1>9
    <3> QED
      BY <3>1, <3>3
  <2>2. CASE i = c
    <3>00. c # 0 /\ c \in 1..c /\ ~(c + 1 <= c) /\ c + 1 - c + 1 = 2 /\ c <= c
      <4>1. c # 0
        BY <2>2, <1>0a, <1>9
      <4> QED
        BY <4>1, <1>0b
    <3>0. c # 0 /\ i \in 1..c /\ ~(i + 1 <= c) /\ i + 1 - c + 1 = 2 /\ i <= c
      BY <2>2, <3>00
    <3>1. a # << >> /\ rest'[i] = a[Len(a)]
      BY <2>2, <3>0, <1>0, <1>00 DEF c
    <3>2. new[i] = n /\ 2 \in 2..r /\ new[i + 1] = level[2]
      <4>1. (i + 1) - c + 1 \in 2..r /\ new[i + 1] = level[(i + 1) - c + 1]
        BY <3>0, <1>5, <1>9
      <4>2. (i + 1) - c + 1 = 2
        BY <2>0, <2>2, <1>0b
      <4>3. new[i] = n
        BY <3>0, <1>5, <1>9
      <4> QED
        BY <4>1, <4>2, <4>3
    <3> QED
      BY <3>1, <3>2, <1>4
  <2>3. CASE ~(i <= c)
    <3>0. ~(i + 1 <= c) /\ (i + 1) - c + 1 = (i - c + 1) + 1
      BY <2>0, <2>3, <1>0b
    <3>1. i - c + 1 \in 1..r /\ (i - c + 1) + 1 \in 1..r
      <4>1. i - c \in Nat /\ i + 1 <= c + (r - 1)
        BY <2>0, <2>3, <1>0b
      <4>2. (i - c) + 2 <= r
        BY <4>1, <2>0, <1>0b
      <4> QED
        BY <4>1, <4>2, <1>0b
    <3>2. /\ new[i] = level[i - c + 1] /\ new[i + 1] = level[(i - c + 1) + 1] /\ rest'[i] = rest[i - c + 1]
      <4>1. new[i] = level[i - c + 1] /\ rest'[i] = rest[i - c + 1]
        BY <2>3, <1>5, <1>9
      <4>2. new[i + 1] = level[(i + 1) - c + 1]
        BY <3>0, <1>5, <1>9
      <4> QED
        BY <4>1, <4>2, <3>0
    <3> QED
      BY <3>1, <3>2, <1>1
  <2>4. i + 1 <= c \/ i = c \/ ~(i <= c)
    BY <2>0, <1>0b
  <2> QED
    BY <2>1, <2>2, <2>3, <2>4
<1>10. ASSUME NEW i \in ToCome' PROVE NearestBlock(global, rest'[i]) = out'[stack_'[new[i]]].src
  <2>1. i \in DOMAIN rest' /\ rest'[i] # Close
    BY <1>10 DEF ToCome, Close
  <2>2. CASE i <= c
    BY <2>1, <2>2, <1>0, <1>5
  <2>3. CASE ~(i <= c)
    <3>1. /\ i - c + 1 \in 2..r /\ new[i] = level[i - c + 1] /\ new[i] \in 1..t /\ rest'[i] = rest[i - c + 1]
      BY <2>1, <2>3, <1>5
    <3>2. i - c + 1 \in ToCome
      BY <2>1, <3>1, <1>0 DEF ToCome
    <3>3. NearestBlock(global, rest[i - c + 1]) = out[stack_[level[i - c + 1]]].src
      BY <3>2, <1>1
    <3> QED
      BY <3>1, <3>3
  <2> QED
    BY <2>2, <2>3
<1>11. Levels(new)'
  <2>1. Len(stack_') = n /\ global' = global
    BY <1>0
  <2> QED
    BY <2>1, <1>7, <1>8, <1>9, <1>10 DEF Levels, ToCome, Close
<1> QED
  BY <1>6, <1>11 DEF RestNests


-----------------------------------------------------------------------------
\* The statement to visit belongs into the block on top.
LEMMA HereNearest ==
  ASSUME TypeOK, RestNests, Called
  PROVE  NearestBlock(global, This) = out[Top].src
<1>1. PICK level \in [DOMAIN rest -> DOMAIN stack_] : Levels(level)
  BY DEF RestNests
<1>2. 1 \in DOMAIN rest /\ This = rest[1] /\ rest # << >> /\ 1 \in ToCome
  BY RestFacts, TypeParts DEF Called, ToCome
<1>3. level[1] = Len(stack_) /\ NearestBlock(global, rest[1]) = out[stack_[level[1]]].src
  BY <1>1, <1>2 DEF Levels
<1> QED
  BY <1>2, <1>3 DEF Top

\* A stack that stays belongs where it did.
LEMMA NestsKept ==
  ASSUME TypeOK, StackNests, NEW nodes, Grown(nodes), UNCHANGED <<global, endpoint>>, NEW s \in 2..Len(stack_),
         stack_'[s] = stack_[s], stack_'[s - 1] = stack_[s - 1]
  PROVE  NearestBlock(global, out[stack_[s]].src)' = out[stack_[s - 1]].src'
<1>1. s \in DOMAIN stack_ /\ s - 1 \in DOMAIN stack_
  BY StackFacts
<1>2. stack_[s] \in DOMAIN out /\ stack_[s - 1] \in DOMAIN out
  BY <1>1, StackFacts
<1>3. NearestBlock(global, out[stack_[s]].src) = out[stack_[s - 1]].src
  BY DEF StackNests
<1> QED
  BY <1>2, <1>3, SourceKept

\* What every visit does: the nodes are for the statement.
LEMMA VisitShapes ==
  ASSUME IInv, ShapeInv, NEW nodes, NEW a, VisitStep(nodes, a)
  PROVE  /\ RunsOn' /\ NodesShaped' /\ OneEach'
         /\ TypeOK /\ Called /\ Grown(nodes) /\ Pushes(a) /\ RestOK /\ UNCHANGED <<global, endpoint>>
         /\ DOMAIN out' = 1..(Len(out) + Len(nodes)) /\ DOMAIN out = 1..Len(out)
         /\ Len(nodes) \in Nat /\ Len(out) \in Nat
         /\ \A k \in DOMAIN out' : k \notin DOMAIN out => out'[k].src = This
         /\ NearestBlock(global, This) = out[Top].src
<1>1. /\ Chosen /\ TypeOK /\ SourcesBehind /\ NodesShaped /\ OneEach /\ RestNests
      /\ Called /\ Grown(nodes) /\ GoodNodes(This, nodes) /\ Pushes(a) /\ status' = status
  BY DEF IInv, ShapeInv, VisitStep
<1>2. UNCHANGED <<global, endpoint>> /\ status = "running" /\ This \in DOMAIN global
  BY <1>1 DEF Pushes, Called
<1>3. RunsOn'
  BY <1>1, <1>2 DEF RunsOn
<1>4. NodesShaped'
  BY <1>1, <1>2, ShapesGrown
<1>5. OneEach'
  BY <1>1, <1>2, OneEachKept
<1>6. \A k \in DOMAIN out' : k \notin DOMAIN out => out'[k].src = This
  BY <1>1, <1>2, MadeAfter
<1>7. /\ DOMAIN out' = 1..(Len(out) + Len(nodes)) /\ DOMAIN out = 1..Len(out)
      /\ Len(nodes) \in Nat /\ Len(out) \in Nat
  BY <1>1, <1>2, GrownFacts
<1>8. NearestBlock(global, This) = out[Top].src
  BY <1>1, HereNearest
<1> QED
  BY <1>1, <1>2, <1>3, <1>4, <1>5, <1>6, <1>7, <1>8, TypeParts

LEMMA EmitShapes ==
  ASSUME IInv, ShapeInv, EmitStep
  PROVE  ShapeInv'
<1>1. PICK nodes : GoodNodes(This, nodes) /\ Emit(nodes)
  BY DEF EmitStep
<1>2. /\ Called /\ Chosen /\ TypeOK /\ (global[This].class \in DroppedClass \/ global[This].kids = << >>)
      /\ nodes \in Seq(Fresh) /\ StackNests /\ RestNests /\ KidsPlaced /\ KidsDiffer /\ AllPlaced /\ This # Close
  BY <1>1 DEF EmitStep, IInv, ShapeInv, GoodNodes, Called
<1>3. VisitStep(nodes, << >>)
  BY <1>1, <1>2, EmitVisits
<1>4. /\ RunsOn' /\ NodesShaped' /\ OneEach'
      /\ Grown(nodes) /\ Pushes(<< >>) /\ RestOK /\ UNCHANGED <<global, endpoint>>
      /\ DOMAIN out' = 1..(Len(out) + Len(nodes)) /\ DOMAIN out = 1..Len(out)
      /\ Len(nodes) \in Nat /\ Len(out) \in Nat
      /\ \A k \in DOMAIN out' : k \notin DOMAIN out => out'[k].src = This
      /\ NearestBlock(global, This) = out[Top].src
  BY <1>3, VisitShapes
<1> DEFINE made == (Len(out) + 1)..(Len(out) + Len(nodes))
<1>5. KidsAfter(Top, made)
  BY <1>1, <1>2, EmitKids
<1>6. \A k \in made : k \in DOMAIN out' /\ k \notin DOMAIN out
  BY <1>4
<1>7. \A k \in DOMAIN out' : k \in DOMAIN out \/ k \in made
  BY <1>4
<1> HIDE DEF made
<1>8. stack_' = stack_ /\ OutOK'
  BY <1>1, <1>4 DEF Emit, Grown
<1>9. KidsPlaced'
  <2>1. \A k \in made : NearestBlock(global, out'[k].src) = out[Top].src
    BY <1>4, <1>6
  <2> QED
    BY <2>1, <1>2, <1>4, <1>5, KidsPlacedKept
<1>10. KidsDiffer'
  BY <1>2, <1>5, <1>8, KidsDifferKept
<1>11. AllPlaced'
  <2>1. \A k : IsOpen(k) => IsOpen(k)'
    BY <1>8 DEF IsOpen
  <2> QED
    BY <2>1, <1>2, <1>5, <1>7, AllPlacedKept
<1>12. StackNests'
  <2> SUFFICES ASSUME NEW s \in 2..Len(stack_)
               PROVE  NearestBlock(global, out[stack_[s]].src)' = out[stack_[s - 1]].src'
    BY <1>8 DEF StackNests
  <2> QED
    BY <1>2, <1>4, <1>8, NestsKept
<1>13. RestNests'
  <2>1. PICK level \in [DOMAIN rest -> DOMAIN stack_] : Levels(level)
    BY <1>2 DEF RestNests
  <2> DEFINE n == Len(stack_)
             a == << >>
  <2>2. n \in Nat \ {0} /\ DOMAIN stack_ = 1..n /\ \A i \in DOMAIN stack_ : stack_[i] \in DOMAIN out
    BY <1>2, StackFacts
  <2>3. \A i \in 1..n : out'[stack_'[i]].src = out[stack_[i]].src
    BY <2>2, <1>2, <1>4, <1>8, SourceKept
  <2>4. n \in Nat /\ n \in 1..n /\ DOMAIN stack_' = 1..n /\ Len(stack_') = n
        /\ n = Len(stack_) - (IF This = Close THEN 1 ELSE 0)
    BY <2>2, <1>2, <1>8
  <2>5. DOMAIN a = {} /\ a = << >>
    OBVIOUS
  <2> HIDE DEF n, a
  <2> QED
    BY <2>1, <2>3, <2>4, <2>5, <1>4, LevelsAfter
<1> QED
  BY <1>4, <1>9, <1>10, <1>11, <1>12, <1>13 DEF ShapeInv

LEMMA CallKids ==
  ASSUME Chosen, Called
  PROVE  /\ This \in DOMAIN global /\ global[This].kids \in Seq(Nat)
         /\ \A i \in DOMAIN global[This].kids : /\ global[This].kids[i] # Close
              /\ NearestBlock(global, global[This].kids[i]) =
                   IF global[This].class = "Block" THEN NearestBlock(global, This) ELSE This
<1>1. This \in DOMAIN global /\ global \in Seq(SourceNode) /\ PreOrderTree(global)
  BY TreeFacts DEF Called
<1>2. global[This].kids \in Seq(Nat)
  BY <1>1, StatementFacts
<1>3. ASSUME NEW i \in DOMAIN global[This].kids PROVE global[This].kids[i] # Close
  <2>1. global[This].kids[i] \in DOMAIN global
    BY <1>1, KidFacts
  <2> QED
    BY <1>1, <2>1 DEF Close
<1>4. ASSUME NEW i \in DOMAIN global[This].kids
      PROVE  NearestBlock(global, global[This].kids[i]) =
               IF global[This].class = "Block" THEN NearestBlock(global, This) ELSE This
  BY <1>1, NearestKid
<1> QED
  BY <1>1, <1>2, <1>3, <1>4

LEMMA BlockShapes ==
  ASSUME IInv, ShapeInv, BlockStep
  PROVE  ShapeInv'
<1> DEFINE a == global[This].kids
<1>1. /\ Called /\ Chosen /\ TypeOK /\ StackNests /\ RestNests /\ KidsPlaced /\ KidsDiffer /\ AllPlaced
      /\ This # Close /\ out' = out /\ stack_' = stack_ /\ global[This].class = "Block"
  BY DEF BlockStep, IInv, ShapeInv, Called
<1>2. VisitStep(<< >>, a)
  BY <1>1, BlockVisits
<1>3. /\ RunsOn' /\ NodesShaped' /\ OneEach' /\ Grown(<< >>) /\ Pushes(a) /\ RestOK
      /\ UNCHANGED <<global, endpoint>> /\ NearestBlock(global, This) = out[Top].src
  BY <1>2, VisitShapes
<1>4. /\ a \in Seq(Nat)
      /\ \A i \in DOMAIN a : a[i] # Close /\ NearestBlock(global, a[i]) = out[Top].src
  BY <1>1, <1>3, CallKids
<1> HIDE DEF a
<1>5. KidsPlaced' /\ KidsDiffer'
  BY <1>1, <1>3 DEF KidsPlaced, KidsDiffer
<1>6. AllPlaced' /\ StackNests'
  BY <1>1, <1>3 DEF AllPlaced, IsKid, IsOpen, StackNests
<1>7. RestNests'
  <2>1. PICK level \in [DOMAIN rest -> DOMAIN stack_] : Levels(level)
    BY <1>1 DEF RestNests
  <2> DEFINE n == Len(stack_)
  <2>2. n \in Nat \ {0} /\ DOMAIN stack_ = 1..n /\ Top = stack_[n]
    BY <1>1, StackFacts DEF Top
  <2>3. \A i \in 1..n : out'[stack_'[i]].src = out[stack_[i]].src
    BY <1>1
  <2>4. n \in Nat /\ n \in 1..n /\ DOMAIN stack_' = 1..n /\ Len(stack_') = n
        /\ n = Len(stack_) - (IF This = Close THEN 1 ELSE 0)
    BY <2>2, <1>1
  <2>5. out'[stack_'[n]].src = out[Top].src
    BY <2>2, <1>1
  <2>6. \A i \in DOMAIN a : a[i] # Close /\ NearestBlock(global, a[i]) = out'[stack_'[n]].src
    BY <2>5, <1>4
  <2>7. a # << >> => Len(a) \in DOMAIN a
    BY <1>4
  <2>8. a # << >> => n = IF a[Len(a)] = Close THEN n - 1 ELSE n
    BY <2>6, <2>7
  <2> HIDE DEF n
  <2> QED
    BY <2>1, <2>3, <2>4, <2>6, <2>8, <1>3, LevelsAfter
<1> QED
  BY <1>3, <1>5, <1>6, <1>7 DEF ShapeInv

LEMMA EnterShapes ==
  ASSUME IInv, ShapeInv, EnterStep
  PROVE  ShapeInv'
<1>1. PICK node \in Fresh : GoodNodes(This, <<node>>) /\ Enter(node)
  BY DEF EnterStep
<1> DEFINE l == global[This].kids
           a == Cat(l, <<Close>>)
           m == Len(out)
           s == Len(stack_)
<1>2. /\ Called /\ Chosen /\ TypeOK /\ StackNests /\ RestNests /\ KidsPlaced /\ KidsDiffer /\ AllPlaced
      /\ This # Close /\ global[This].class \in PushedClass
  BY DEF EnterStep, IInv, ShapeInv, Called
<1>3. VisitStep(<<node>>, a)
  BY <1>1, <1>2, EnterVisits
<1>4. /\ RunsOn' /\ NodesShaped' /\ OneEach' /\ Grown(<<node>>) /\ Pushes(a) /\ RestOK
      /\ UNCHANGED <<global, endpoint>>
      /\ DOMAIN out' = 1..(m + Len(<<node>>)) /\ DOMAIN out = 1..m /\ m \in Nat
      /\ \A k \in DOMAIN out' : k \notin DOMAIN out => out'[k].src = This
      /\ NearestBlock(global, This) = out[Top].src
  BY <1>3, VisitShapes
<1>5. DOMAIN out' = 1..(m + 1) /\ DOMAIN out = 1..m /\ m \in Nat /\ out'[m + 1].src = This
  <2>1. Len(<<node>>) = 1
    OBVIOUS
  <2>2. DOMAIN out' = 1..(m + 1)
    BY <2>1, <1>4
  <2>3. m + 1 \in DOMAIN out' /\ m + 1 \notin DOMAIN out
    BY <2>2, <1>4
  <2> QED
    BY <2>2, <2>3, <1>4
<1>6. /\ s \in Nat \ {0} /\ Len(stack_') = s + 1 /\ DOMAIN stack_' = 1..(s + 1) /\ stack_'[s + 1] = m + 1
      /\ \A i \in 1..s : stack_'[i] = stack_[i]
      /\ DOMAIN stack_ = 1..s /\ Top = stack_[s] /\ \A i \in 1..s : stack_[i] \in DOMAIN out
  <2>1. s \in Nat \ {0} /\ DOMAIN stack_ = 1..s /\ Top = stack_[s] /\ \A i \in 1..s : stack_[i] \in DOMAIN out
    BY <1>2, StackFacts DEF Top
  <2>2. stack_ \in Seq(DOMAIN out) /\ stack_' = Append(stack_, m + 1)
    BY <1>1, <1>2 DEF Enter, TypeOK
  <2> QED
    BY <2>1, <2>2
<1>7. KidsAfter(Top, {})
  <2>1. \A q \in DOMAIN out : out'[q] = out[q]
    BY <1>1, <1>2, EnterEffect
  <2>2. Top \in DOMAIN out
    BY <1>2, StackFacts
  <2> QED
    BY <2>1, <2>2, <1>2, <1>4, KidsSame
<1>8. /\ l \in Seq(Nat)
      /\ \A i \in DOMAIN l : l[i] # Close /\ NearestBlock(global, l[i]) = This
  <2>1. global[This].class # "Block"
    BY <1>2 DEF PushedClass
  <2> QED
    BY <2>1, <1>2, CallKids
<1> HIDE DEF l, m, s
<1>9. OutOK'
  BY <1>4 DEF Grown
<1>10. KidsPlaced' /\ KidsDiffer'
  BY <1>2, <1>4, <1>7, <1>9, KidsPlacedKept, KidsDifferKept
<1>11. AllPlaced'
  <2>1. \A k : IsOpen(k) => IsOpen(k)'
    <3> SUFFICES ASSUME NEW i \in 2..s PROVE i \in 2..Len(stack_') /\ stack_'[i] = stack_[i]
      BY DEF IsOpen, s
    <3> QED
      BY <1>6
  <2>2. s + 1 \in 2..Len(stack_')
    BY <1>6
  <2>3. \A k : k = m + 1 => IsOpen(k)'
    BY <2>2, <1>6 DEF IsOpen
  <2>4. \A k \in DOMAIN out' : k \in DOMAIN out \/ k = m + 1
    BY <1>5
  <2>5. \A k \in DOMAIN out' : k \in DOMAIN out \/ IsOpen(k)'
    BY <2>3, <2>4
  <2> QED
    BY <2>1, <2>5, <1>2, <1>7, AllPlacedKept
<1>12. StackNests'
  <2>1. ASSUME NEW i \in 2..Len(stack_')
        PROVE  NearestBlock(global, out[stack_[i]].src)' = out[stack_[i - 1]].src'
    <3>1. CASE i \in 2..s
      <4>1. i \in 1..s /\ i - 1 \in 1..s
        BY <3>1, <1>6
      <4> QED
        BY <3>1, <4>1, <1>2, <1>4, <1>6, NestsKept DEF s
    <3>2. CASE i = s + 1
      <4>1. out'[Top].src = out[Top].src /\ s \in 1..s
        BY <1>2, <1>4, <1>6, StackFacts, SourceKept
      <4>2. i - 1 = s
        BY <3>2, <1>6
      <4> QED
        BY <3>2, <4>1, <4>2, <1>4, <1>5, <1>6
    <3> QED
      BY <3>1, <3>2, <1>6
  <2> QED
    BY <2>1 DEF StackNests
<1>13. RestNests'
  <2>1. PICK level \in [DOMAIN rest -> DOMAIN stack_] : Levels(level)
    BY <1>2 DEF RestNests
  <2>2. /\ DOMAIN a = 1..(Len(l) + 1) /\ Len(a) = Len(l) + 1 /\ Len(l) \in Nat /\ DOMAIN l = 1..Len(l)
        /\ (\A i \in 1..Len(l) : a[i] = l[i]) /\ a[Len(l) + 1] = Close /\ a # << >>
    BY <1>8 DEF Cat, Close
  <2> HIDE DEF a
  <2>3. out'[stack_'[s + 1]].src = This
    BY <1>5, <1>6
  <2>4. \A i \in DOMAIN a : (i < Len(a) => a[i] # Close)
                            /\ (a[i] # Close => NearestBlock(global, a[i]) = out'[stack_'[s + 1]].src)
    <3>1. \A i \in DOMAIN a : i \in DOMAIN l \/ (i = Len(a) /\ a[i] = Close)
      BY <2>2
    <3>2. \A i \in DOMAIN l : a[i] = l[i]
      BY <2>2
    <3>3. \A i \in DOMAIN a : i \in DOMAIN l => a[i] # Close /\ NearestBlock(global, a[i]) = This
      BY <3>2, <1>8
    <3>4. ~(Len(a) < Len(a))
      BY <2>2
    <3> QED
      BY <3>1, <3>3, <3>4, <2>3
  <2>5. \A i \in 1..s : out'[stack_'[i]].src = out[stack_[i]].src
    BY <1>2, <1>4, <1>6, SourceKept
  <2>6. /\ s + 1 \in Nat /\ s \in 1..(s + 1) /\ DOMAIN stack_' = 1..(s + 1) /\ Len(stack_') = s + 1
        /\ s = Len(stack_) - (IF This = Close THEN 1 ELSE 0)
        /\ s = IF a[Len(a)] = Close THEN (s + 1) - 1 ELSE s + 1
    BY <2>2, <1>2, <1>6 DEF s
  <2> DEFINE n == s + 1
  <2>7. /\ n \in Nat /\ s \in 1..n /\ DOMAIN stack_' = 1..n /\ Len(stack_') = n
        /\ s = IF a[Len(a)] = Close THEN n - 1 ELSE n
        /\ \A i \in DOMAIN a : (i < Len(a) => a[i] # Close)
                               /\ (a[i] # Close => NearestBlock(global, a[i]) = out'[stack_'[n]].src)
    BY <2>4, <2>6
  <2> HIDE DEF n
  <2>8. a # << >> /\ s = Len(stack_) - (IF This = Close THEN 1 ELSE 0)
    BY <2>2, <2>6
  <2> QED
    BY <2>1, <2>5, <2>7, <2>8, <1>4, LevelsAfter
<1> QED
  BY <1>4, <1>10, <1>11, <1>12, <1>13 DEF ShapeInv

LEMMA CloseShapes ==
  ASSUME IInv, ShapeInv, CloseBlock
  PROVE  ShapeInv'
<1> DEFINE n == Len(stack_) - 1
           a == << >>
<1>1. /\ Chosen /\ TypeOK /\ StackRises /\ KidsBehind /\ SourcesBehind /\ RestOK
      /\ NodesShaped /\ OneEach /\ StackNests /\ RestNests /\ KidsPlaced /\ KidsDiffer /\ AllPlaced
  BY TypeParts DEF IInv, ShapeInv
<1>2. /\ rest # << >> /\ This = Close /\ rest' = Tail(rest) /\ status' = status /\ status = "running"
      /\ UNCHANGED <<global, endpoint>>
  BY DEF CloseBlock, This
<1>3. /\ n + 1 > 1 /\ Grown(<< >>) /\ Len(stack_') = n /\ \A i \in 1..n : stack_'[i] = stack_[i]
      /\ stack_' \in Seq(DOMAIN out)
  <2>1. /\ Len(stack_) > 1 /\ Grown(<< >>) /\ Len(stack_') = n /\ \A i \in 1..n : stack_'[i] = stack_[i]
        /\ stack_' \in Seq(DOMAIN out)
    BY <1>1, CloseEffect
  <2>2. Len(stack_) \in Nat
    BY <1>1, StackFacts
  <2> QED
    BY <2>1, <2>2
<1>4. /\ n \in Nat \ {0} /\ DOMAIN stack_' = 1..n /\ Len(stack_) = n + 1 /\ DOMAIN stack_ = 1..(n + 1)
      /\ Top = stack_[n + 1] /\ Top \in DOMAIN out /\ \A i \in 1..(n + 1) : stack_[i] \in DOMAIN out
  <2>1. Len(stack_) \in Nat \ {0} /\ DOMAIN stack_ = 1..Len(stack_)
        /\ Top = stack_[Len(stack_)] /\ Top \in DOMAIN out /\ \A i \in DOMAIN stack_ : stack_[i] \in DOMAIN out
    BY <1>1, StackFacts DEF Top
  <2>2. n \in Nat \ {0} /\ Len(stack_) = n + 1
    BY <2>1, <1>3
  <2> QED
    BY <2>1, <2>2, <1>3
<1>5. KidsAfter(stack_[n], {Top})
  BY <1>1, CloseKids
<1> HIDE DEF n
<1>6. /\ DOMAIN out' = DOMAIN out /\ OutOK' /\ Pushes(a)
  <2>1. DOMAIN out' = 1..(Len(out) + Len(<< >>)) /\ DOMAIN out = 1..Len(out) /\ Len(out) \in Nat
    BY <1>1, <1>2, <1>3, GrownFacts
  <2>2. DOMAIN out' = DOMAIN out
    BY <2>1
  <2>3. rest' = Cat(a, Tail(rest)) /\ a \in Seq(0..Len(global))
    BY <1>1, <1>2 DEF Cat, RestOK
  <2> QED
    BY <2>2, <2>3, <1>2, <1>3 DEF Pushes, Grown
<1>7. RunsOn'
  BY <1>2 DEF RunsOn
<1>8. NodesShaped' /\ OneEach'
  <2>1. NodesShaped'
    BY <1>1, <1>2, <1>3, ShapesGrown
  <2>2. OneEach'
    BY <1>1, <1>2, <1>3, OneEachKept
  <2> QED
    BY <2>1, <2>2
<1>9. NearestBlock(global, out[Top].src) = out[stack_[n]].src
  <2>1. n + 1 \in 2..Len(stack_) /\ (n + 1) - 1 = n
    BY <1>4
  <2>2. NearestBlock(global, out[stack_[n + 1]].src) = out[stack_[(n + 1) - 1]].src
    BY <2>1, <1>1 DEF StackNests
  <2> QED
    BY <2>1, <2>2, <1>4
<1>10. KidsPlaced' /\ KidsDiffer'
  <2>1. \A k \in {Top} : NearestBlock(global, out'[k].src) = out[stack_[n]].src
    BY <1>1, <1>3, <1>4, <1>9, SourceKept
  <2>2. KidsPlaced'
    BY <2>1, <1>1, <1>2, <1>3, <1>5, KidsPlacedKept
  <2>3. KidsDiffer'
    BY <1>1, <1>5, <1>6, KidsDifferKept
  <2> QED
    BY <2>2, <2>3
<1>11. AllPlaced'
  <2>1. ASSUME NEW k, IsOpen(k) PROVE IsOpen(k)' \/ k \in {Top}
    <3>1. PICK s \in 2..(n + 1) : stack_[s] = k
      BY <2>1, <1>4 DEF IsOpen
    <3>2. CASE s = n + 1
      BY <3>1, <3>2, <1>4
    <3>3. CASE s # n + 1
      <4>1. s \in 2..n /\ s \in 1..n
        BY <3>1, <3>3, <1>4
      <4>2. stack_'[s] = k
        BY <3>1, <4>1, <1>3
      <4> QED
        BY <4>1, <4>2, <1>3 DEF IsOpen
    <3> QED
      BY <3>2, <3>3
  <2> QED
    BY <2>1, <1>1, <1>5, <1>6, AllPlacedKept
<1>12. StackNests'
  <2>1. ASSUME NEW i \in 2..Len(stack_')
        PROVE  NearestBlock(global, out[stack_[i]].src)' = out[stack_[i - 1]].src'
    <3>1. i \in 2..Len(stack_) /\ i \in 1..n /\ i - 1 \in 1..n
      BY <1>3, <1>4
    <3> QED
      BY <3>1, <1>1, <1>2, <1>3, NestsKept
  <2> QED
    BY <2>1 DEF StackNests
<1>13. RestNests'
  <2>1. PICK level \in [DOMAIN rest -> DOMAIN stack_] : Levels(level)
    BY <1>1 DEF RestNests
  <2>2. \A i \in 1..n : out'[stack_'[i]].src = out[stack_[i]].src
    <3>1. \A i \in 1..n : stack_[i] \in DOMAIN out
      BY <1>4
    <3> QED
      BY <3>1, <1>1, <1>3, SourceKept
  <2>3. /\ n \in Nat /\ n \in 1..n /\ DOMAIN stack_' = 1..n /\ Len(stack_') = n
        /\ n = Len(stack_) - (IF This = Close THEN 1 ELSE 0)
    BY <1>2, <1>3, <1>4
  <2>4. DOMAIN a = {} /\ a = << >>
    OBVIOUS
  <2> HIDE DEF a
  <2> QED
    BY <2>1, <2>2, <2>3, <2>4, <1>1, <1>6, LevelsAfter
<1> QED
  BY <1>7, <1>8, <1>10, <1>11, <1>12, <1>13 DEF ShapeInv

LEMMA SameShapes ==
  ASSUME ShapeInv, UNCHANGED <<global, endpoint, rest, stack_, out>>, RunsOn'
  PROVE  ShapeInv'
<1>1. NodesShaped'
  <2>1. \A k \in DOMAIN out : ShapeOf(out[k]) => ShapeOf(out[k])'
    BY ShapeKept
  <2> QED
    BY <2>1 DEF ShapeInv, NodesShaped
<1>2. OneEach' /\ KidsPlaced' /\ KidsDiffer' /\ AllPlaced' /\ StackNests'
  BY DEF ShapeInv, OneEach, Ordinary, KidsPlaced, KidsDiffer, AllPlaced, IsKid, IsOpen, StackNests
<1>3. RestNests'
  BY DEF ShapeInv, RestNests, Levels, ToCome
<1> QED
  BY <1>1, <1>2, <1>3 DEF ShapeInv

LEMMA StepShapes == IInv /\ ShapeInv /\ [Next]_vars => ShapeInv'
<1> SUFFICES ASSUME IInv, ShapeInv, [Next]_vars PROVE ShapeInv'
  OBVIOUS
<1>1. EmitStep \/ EnterStep \/ BlockStep \/ StopStep \/ CloseBlock \/ UNCHANGED vars
  BY StepKinds DEF IInv
<1>2. CASE StopStep
  <2>1. RunsOn' /\ UNCHANGED <<global, endpoint, rest, stack_, out>>
    BY <1>2 DEF StopStep, Called, RunsOn
  <2> QED
    BY <2>1, SameShapes
<1>3. CASE UNCHANGED vars
  <2>1. RunsOn' /\ UNCHANGED <<global, endpoint, rest, stack_, out>>
    BY <1>3 DEF vars, ShapeInv, RunsOn
  <2> QED
    BY <2>1, SameShapes
<1> QED
  BY <1>1, <1>2, <1>3, EmitShapes, EnterShapes, BlockShapes, CloseShapes

LEMMA InitShapes == Init => ShapeInv
<1> SUFFICES ASSUME Init PROVE ShapeInv
  OBVIOUS
<1>1. /\ rest = <<1>> /\ stack_ = <<1>> /\ status = "running"
      /\ DOMAIN rest = {1} /\ DOMAIN stack_ = {1} /\ Len(stack_) = 1 /\ rest[1] = 1 /\ stack_[1] = 1
  BY DEF Init
<1>2. DOMAIN out = {1} /\ out[1].kids = << >> /\ out[1].src = 0 /\ out[1].class = "Block"
  BY DEF Init, NewNode
<1>3. RunsOn /\ NodesShaped /\ OneEach
  BY <1>1, <1>2 DEF RunsOn, NodesShaped, OneEach
<1>4. KidsPlaced /\ KidsDiffer /\ AllPlaced /\ StackNests
  BY <1>1, <1>2 DEF KidsPlaced, KidsDiffer, AllPlaced, StackNests
<1>5. RestNests
  <2>1. PICK level : level = [i \in DOMAIN rest |-> 1]
    OBVIOUS
  <2>2. level \in [DOMAIN rest -> DOMAIN stack_] /\ level[1] = 1
    BY <2>1, <1>1
  <2>3. NearestBlock(global, 1) = 0
    <3>1. BlocksOver(global, 1) = {}
      BY DEF BlocksOver
    <3>2. NearestBlock(global, 1) \in BlocksOver(global, 1) \cup {0}
      BY NearestFacts
    <3> QED
      BY <3>1, <3>2
  <2>4. Levels(level)
    BY <2>2, <2>3, <1>1, <1>2 DEF Levels, ToCome, Close
  <2> QED
    BY <2>2, <2>4 DEF RestNests
<1> QED
  BY <1>3, <1>4, <1>5 DEF ShapeInv

\* The shape of the local type is an invariant, beside IInv.
THEOREM ShapeInvariance == Spec => [](IInv /\ ShapeInv)
<1>1. Init => IInv /\ ShapeInv
  BY InitIInv, InitShapes
<1>2. IInv /\ ShapeInv /\ [Next]_vars => (IInv /\ ShapeInv)'
  BY StepIInv, StepShapes
<1> QED
  BY <1>1, <1>2, PTL DEF Spec

-----------------------------------------------------------------------------
\* The end of the projection of an ordinary protocol, and its tree as LocalType reads it.
Ended == /\ IInv /\ ShapeInv /\ rest = << >>
         /\ OrdinaryRole(endpoint) /\ \A n \in DOMAIN global : IsOrdinary(n)
SameTree(o) ==
  /\ DOMAIN o = DOMAIN global /\ Len(o) = Len(global)
  /\ \A n \in DOMAIN global :
       /\ o[n].class = global[n].class /\ o[n].kids = global[n].kids /\ o[n].sndr = global[n].sndr
       /\ o[n].rcvrs = global[n].roles /\ o[n].args = global[n].roles

LEMMA OrdinaryTreeSame ==
  ASSUME global \in Seq(SourceNode)
  PROVE  SameTree(OrdinaryTree)
<1>1. DOMAIN global = 1..Len(global) /\ Len(global) \in Nat
  OBVIOUS
<1>2. DOMAIN OrdinaryTree = 1..Len(global)
  BY <1>1 DEF OrdinaryTree
<1>3. Len(OrdinaryTree) = Len(global)
  <2> DEFINE f(n) == [class |-> global[n].class, kids |-> global[n].kids, sndr |-> global[n].sndr,
                      rcvrs |-> global[n].roles, args |-> global[n].roles]
  <2>1. OrdinaryTree = [n \in 1..Len(global) |-> f(n)]
    BY <1>1 DEF OrdinaryTree
  <2> HIDE DEF f
  <2> QED
    BY <2>1, <1>1
<1> QED
  BY <1>1, <1>2, <1>3 DEF SameTree, OrdinaryTree

\* An ordinary role matches itself only.
LEMMA MatchesSelf ==
  ASSUME NEW r \in Role, NEW e \in Role, OrdinaryRole(r), OrdinaryRole(e)
  PROVE  Matches(r, e) <=> r = e
<1>1. Matches(r, e) <=> r.name = e.name
  BY DEF OrdinaryRole, Matches, SameRole
<1>2. r.dims = e.dims /\ r.grp = e.grp /\ r.members = e.members
  BY DEF OrdinaryRole, Role
<1>3. r.name = e.name => r = e
  BY <1>2 DEF Role
<1> QED
  BY <1>1, <1>3

LEMMA HasReceiver ==
  ASSUME Ended, NEW n \in DOMAIN global
  PROVE  Receivers(n) # << >> <=> \E i \in DOMAIN global[n].roles : global[n].roles[i] = endpoint
<1> DEFINE roles == global[n].roles
<1>1. /\ Chosen /\ roles \in Seq(Role) /\ endpoint \in Role /\ OrdinaryRole(endpoint)
      /\ Len(roles) \in Nat /\ DOMAIN roles = 1..Len(roles)
  BY StatementFacts, TreeFacts DEF Ended, IInv
<1>2. \A i \in DOMAIN roles : roles[i] \in Role /\ OrdinaryRole(roles[i])
  <2>1. \A i \in DOMAIN roles : roles[i] \in Range(roles)
    BY DEF Range
  <2> QED
    BY <2>1, <1>1 DEF Ended, IsOrdinary
<1>3. \A i \in DOMAIN roles : i \in Receiving(n) <=> roles[i] = endpoint
  BY <1>1, <1>2, MatchesSelf DEF Receiving
<1>4. /\ Receivers(n) = Selected(roles, Receiving(n)) /\ Receiving(n) \in SUBSET DOMAIN roles
  BY DEF Receivers, Receiving
<1> HIDE DEF roles
<1>5. /\ DOMAIN Receivers(n) = 1..Cardinality(Receiving(n))
      /\ \A j \in 1..Cardinality(Receiving(n)) : Nth(Receiving(n), j) \in Receiving(n)
      /\ Receivers(n) \in Seq(Role)
  BY <1>1, <1>4, SelectedFacts
<1>6. IsFiniteSet(Receiving(n)) /\ Cardinality(Receiving(n)) \in Nat
      /\ (Cardinality(Receiving(n)) = 0 <=> Receiving(n) = {})
  <2>1. IsFiniteSet(1..Len(roles))
    BY <1>1, FS_Interval
  <2>2. IsFiniteSet(Receiving(n))
    BY <2>1, <1>1, <1>4, FS_Subset
  <2> QED
    BY <2>2, FS_CardinalityType, FS_EmptySet
<1>7. Receivers(n) # << >> <=> Receiving(n) # {}
  BY <1>5, <1>6
<1>8. Receiving(n) # {} <=> \E i \in DOMAIN roles : roles[i] = endpoint
  BY <1>3, <1>4
<1> QED
  BY <1>7, <1>8 DEF roles

LEMMA IsSender ==
  ASSUME Ended, NEW n \in DOMAIN global
  PROVE  /\ SentBy(n) <=> global[n].sndr = endpoint
         /\ SentBy(n) => Receivers(n) = << >>
<1>1. /\ Chosen /\ global[n].sndr \in Role \cup {NoRole} /\ endpoint \in Role /\ NoRole \notin Role
      /\ OrdinaryRole(endpoint) /\ IsOrdinary(n)
  BY StatementFacts, TreeFacts DEF Ended, IInv
<1>2. global[n].sndr # NoRole => OrdinaryRole(global[n].sndr)
  BY <1>1 DEF IsOrdinary
<1>3. SentBy(n) <=> global[n].sndr = endpoint
  BY <1>1, <1>2, MatchesSelf DEF SentBy
<1>4. ASSUME SentBy(n) PROVE Receivers(n) = << >>
  <2>1. \A i \in DOMAIN global[n].roles : global[n].roles[i] # endpoint
    BY <1>1, <1>3, <1>4 DEF IsOrdinary, Range
  <2> QED
    BY <2>1, HasReceiver
<1> QED
  BY <1>3, <1>4

\* Everything was visited, and nothing is open.
LEMMA EndState ==
  ASSUME Ended
  PROVE  /\ \A n \in DOMAIN global : HasNodes(n)
         /\ Ordinary /\ Len(stack_) = 1
         /\ out[1].src = 0 /\ 0 \notin DOMAIN global
         /\ \A k \in DOMAIN out : k # 1 => ShapeOf(out[k]) /\ out[k].src \in DOMAIN global
<1>1. /\ rest = << >> /\ TypeOK /\ Chosen /\ Handled /\ RunsOn /\ NodesShaped
      /\ OrdinaryRole(endpoint) /\ \A n \in DOMAIN global : IsOrdinary(n)
  BY DEF Ended, IInv, ShapeInv
<1>2. status = "running"
  BY <1>1 DEF RunsOn
<1>3. Pending = {}
  BY <1>1 DEF Pending, Range
<1>4. Lost = {}
  <2>1. {m \in DOMAIN global : global[m].class \in DroppedClass} = {}
    BY <1>1 DEF IsOrdinary
  <2> QED
    BY <2>1 DEF Lost
<1>5. \A n \in DOMAIN global : HasNodes(n)
  BY <1>1, <1>2, <1>3, <1>4 DEF Handled, Visited
<1>6. Ordinary
  BY <1>1 DEF OrdinaryRole, Ordinary
<1>7. Len(stack_) = 1
  <2>1. Cardinality(Closings(rest)) = Len(stack_) - 1 /\ Len(stack_) \in Nat
    BY <1>1, TypeParts, StackFacts DEF Matched
  <2>2. Closings(rest) = {}
    BY <1>1 DEF Closings, Places
  <2>3. Cardinality(Closings(rest)) = 0
    BY <2>2, FS_EmptySet
  <2>4. Len(stack_) - 1 = 0
    BY <2>1, <2>3
  <2> QED
    BY <2>1, <2>4
<1>8. 0 \notin DOMAIN global
  BY <1>1, TreeFacts
<1> QED
  BY <1>1, <1>5, <1>6, <1>7, <1>8 DEF NodesShaped, ShapeOf

\* A count of one is a node.
LEMMA CountedNode ==
  ASSUME NEW S, Cardinality(S) = 1
  PROVE  S # {}
BY FS_EmptySet

\* Of an interaction a receive is made for a receiver, and a send for the sender.
LEMMA EndInteractions ==
  ASSUME Ended, NEW n \in DOMAIN global, global[n].class = "Interaction"
  PROVE  /\ (\E k \in DOMAIN out : out[k].src = n /\ IsReceive(k)) <=> Receivers(n) # << >>
         /\ (\E k \in DOMAIN out : out[k].src = n /\ IsSend(k)) <=> SentBy(n)
<1>1. HasNodes(n) /\ Ordinary /\ Chosen /\ NodesFit
  BY EndState DEF Ended, IInv
<1>2. /\ Cardinality(Received(n)) = HeardOf(n)
      /\ Cardinality(Said(n)) = SaidBy(n)
  BY <1>1 DEF HasNodes
<1>3. Len(Receivers(n)) \in Nat /\ (Receivers(n) # << >> <=> Len(Receivers(n)) > 0)
  BY <1>1, ReceiverFacts
<1>4. ASSUME Receivers(n) # << >> PROVE \E k \in DOMAIN out : out[k].src = n /\ IsReceive(k)
  <2>1. Cardinality(Received(n)) = 1
    BY <1>1, <1>2, <1>3, <1>4 DEF HeardOf
  <2> QED
    BY <2>1, CountedNode DEF Received
<1>5. ASSUME SentBy(n) PROVE \E k \in DOMAIN out : out[k].src = n /\ IsSend(k)
  <2>1. Receivers(n) = << >>
    BY <1>5, IsSender
  <2>2. Cardinality(Said(n)) = 1
    BY <2>1, <1>2, <1>3, <1>5 DEF SaidBy
  <2> QED
    BY <2>2, CountedNode DEF Said
<1>6. \A k \in DOMAIN out : out[k].src = n =>
        (IsSend(k) => SentBy(n)) /\ (IsReceive(k) => Receivers(n) # << >>)
  <2> SUFFICES ASSUME NEW k \in DOMAIN out, out[k].src = n
               PROVE  (IsSend(k) => SentBy(n)) /\ (IsReceive(k) => Receivers(n) # << >>)
    OBVIOUS
  <2>1. Fits(out[k])
    BY <1>1 DEF NodesFit
  <2> QED
    BY <2>1 DEF Fits, IsSend, IsReceive, Sent, Got
<1> QED
  BY <1>4, <1>5, <1>6

\* A statement has a node exactly if it is kept.
LEMMA EndKept ==
  ASSUME Ended, NEW o, SameTree(o), NEW n
  PROVE  n \in Abstract!Kept(o, endpoint) <=> n \in DOMAIN global /\ n \in Sources
<1> SUFFICES ASSUME n \in DOMAIN global PROVE Abstract!TakesPart(o, endpoint, n) <=> n \in Sources
  BY DEF Abstract!Kept, SameTree
<1> DEFINE c == global[n].class
           heard == \E i \in DOMAIN global[n].roles : global[n].roles[i] = endpoint
<1>1. c \in Class \ DroppedClass /\ HasNodes(n)
  <2>1. c \in Class
    BY StatementFacts DEF Ended, IInv
  <2> QED
    BY <2>1, EndState DEF Ended, IsOrdinary
<1>2. Abstract!TakesPart(o, endpoint, n) <=>
        IF c = "Interaction" THEN global[n].sndr = endpoint \/ heard
        ELSE IF c = "Nested" THEN heard ELSE c # "Block"
  BY DEF Abstract!TakesPart, SameTree
<1>3. ASSUME n \in Sources
      PROVE  /\ c # "Block"
             /\ c = "Nested" => Receivers(n) # << >>
             /\ c = "Interaction" => \E k \in DOMAIN out : out[k].src = n /\ (IsSend(k) \/ IsReceive(k))
  <2>1. PICK k \in DOMAIN out : out[k].src = n
    BY <1>3 DEF Sources
  <2>2. k # 1
    BY <2>1, EndState
  <2>3. ShapeOf(out[k])
    BY <2>2, EndState
  <2>4. c # "Block" /\ (c = "Nested" => Receivers(n) # << >>) /\ out[k].class = c
    BY <2>1, <2>3 DEF ShapeOf
  <2> QED
    BY <2>1, <2>4 DEF IsSend, IsReceive
<1>4. heard <=> Receivers(n) # << >>
  BY HasReceiver
<1>5. CASE c = "Interaction"
  <2>1. (\E k \in DOMAIN out : out[k].src = n /\ (IsSend(k) \/ IsReceive(k))) <=> SentBy(n) \/ Receivers(n) # << >>
    BY <1>5, EndInteractions
  <2>2. (\E k \in DOMAIN out : out[k].src = n /\ (IsSend(k) \/ IsReceive(k))) => n \in Sources
    BY DEF Sources
  <2>3. SentBy(n) <=> global[n].sndr = endpoint
    BY IsSender
  <2> HIDE DEF heard, c
  <2> QED
    BY <2>1, <2>2, <2>3, <1>2, <1>3, <1>4, <1>5
<1>6. CASE c = "Nested"
  <2>1. Receivers(n) # << >> => n \in Sources
    BY <1>1, <1>6 DEF HasNodes
  <2> HIDE DEF heard, c
  <2> QED
    BY <2>1, <1>2, <1>3, <1>4, <1>6
<1>7. CASE c \notin {"Interaction", "Nested"}
  <2>1. c # "Block" => c \in PushedClass \cup LeafClass
    BY <1>1, <1>7 DEF Class, BlockClass
  <2>2. c # "Block" => n \in Sources
    BY <2>1, <1>1 DEF HasNodes
  <2> HIDE DEF heard, c
  <2> QED
    BY <2>2, <1>2, <1>3, <1>7
<1> QED
  BY <1>5, <1>6, <1>7

LEMMA SameEncloser ==
  ASSUME NEW o, SameTree(o), global \in Seq(SourceNode), NEW n \in DOMAIN global
  PROVE  Abstract!Encloser(o, n) = NearestBlock(global, n)
<1>1. DOMAIN global = 1..Len(global) /\ Len(global) \in Nat /\ n \in Nat
  OBVIOUS
<1>2. ASSUME NEW m \in 1..(n - 1)
      PROVE  /\ Abstract!Below(o, m) = Below(global, m)
             /\ o[m].class = global[m].class
  <2>1. \A p \in 1..(m - 1) : p \in DOMAIN global /\ o[p].kids = global[p].kids
    BY <1>1, <1>2 DEF SameTree
  <2>2. m \in DOMAIN global
    BY <1>1, <1>2
  <2>3. o[m].class = global[m].class /\ Len(o) = Len(global)
    BY <2>2 DEF SameTree
  <2> QED
    BY <2>1, <2>3 DEF Abstract!Below, Below
<1>3. Abstract!Enclosing(o, n) = BlocksOver(global, n)
  BY <1>2 DEF Abstract!Enclosing, BlocksOver
<1> QED
  BY <1>3 DEF Abstract!Encloser, NearestBlock

LEMMA SameOrdered ==
  ASSUME NEW P
  PROVE  Abstract!Ordered(P) = Ordered(P)
<1>1. \A S : Abstract!Cardinality(S) = Cardinality(S)
  BY DEF Abstract!Cardinality, Cardinality
<1>2. \A j : Abstract!Nth(P, j) = Nth(P, j)
  BY <1>1 DEF Abstract!Nth, Nth
<1> QED
  BY <1>1, <1>2 DEF Abstract!Ordered, Ordered

LEMMA SourcesDiffer ==
  ASSUME Ended, NEW k \in DOMAIN out, NEW l \in DOMAIN out, out[k].src = out[l].src
  PROVE  k = l
<1>1. OneEach /\ Ordinary /\ TypeOK
  BY EndState DEF Ended, IInv, ShapeInv
<1>2. k \in Nat /\ l \in Nat /\ out[k].src \in Nat /\ out[l].src \in Nat
  BY <1>1, StackFacts
<1>3. ~(k < l) /\ ~(l < k)
  BY <1>1, <1>2 DEF OneEach
<1> QED
  BY <1>2, <1>3

\* The children of a node are, in order, the statements that it is the nearest for.
LEMMA KidsAnswer ==
  ASSUME Ended, NEW o, SameTree(o), NEW k \in DOMAIN out
  PROVE  [i \in DOMAIN out[k].kids |-> out[out[k].kids[i]].src]
           = Abstract!Ordered({m \in Abstract!Kept(o, endpoint) : Abstract!Encloser(o, m) = out[k].src})
<1> DEFINE K == Abstract!Kept(o, endpoint)
           n == out[k].src
           P == {m \in K : NearestBlock(global, m) = n}
           kids == out[k].kids
           s == [i \in DOMAIN kids |-> out[kids[i]].src]
<1>0. /\ TypeOK /\ ReceivesFirst /\ KidsPlaced /\ KidsDiffer /\ AllPlaced /\ OutOK
      /\ global \in Seq(SourceNode) /\ Len(global) \in Nat /\ DOMAIN global = 1..Len(global)
  BY TypeParts DEF Ended, IInv, ShapeInv
<1>1. \A m \in K : m \in DOMAIN global /\ m \in Sources
  BY EndKept
<1>2. /\ kids \in Seq(Nat) /\ DOMAIN kids = 1..Len(kids) /\ Len(kids) \in Nat
      /\ \A i \in DOMAIN kids : kids[i] \in DOMAIN out /\ kids[i] # 1
  <2>1. kids \in Seq(Nat)
    BY <1>0, StackFacts
  <2>2. \A i \in DOMAIN kids : kids[i] \in DOMAIN out \ {1}
    BY <1>0 DEF OutOK
  <2> QED
    BY <2>1, <2>2
<1>3. \A q \in DOMAIN out : out[q].src \in Nat
  BY <1>0, StackFacts
<1> HIDE DEF kids
<1>4. s \in Seq(Nat) /\ DOMAIN s = DOMAIN kids
  <2>1. \A i \in DOMAIN kids : out[kids[i]].src \in Nat
    BY <1>2, <1>3
  <2>2. s \in [1..Len(kids) -> Nat]
    BY <2>1, <1>2
  <2> QED
    BY <2>2, <1>2
<1>5. \A i, j \in DOMAIN s : i < j => s[i] < s[j]
  <2> SUFFICES ASSUME NEW i \in DOMAIN kids, NEW j \in DOMAIN kids, i < j
               PROVE  out[kids[i]].src < out[kids[j]].src
    BY <1>4
  <2>1. out[kids[i]].src < out[kids[j]].src \/ out[kids[i]].src = out[kids[j]].src
    BY <1>0 DEF ReceivesFirst, kids
  <2>2. kids[i] # kids[j]
    BY <1>0 DEF KidsDiffer, kids
  <2> QED
    BY <2>1, <2>2, <1>2, SourcesDiffer
<1>6. ASSUME NEW m PROVE m \in P <=> \E i \in DOMAIN s : s[i] = m
  <2>1. ASSUME NEW i \in DOMAIN kids PROVE out[kids[i]].src \in P
    <3>1. out[kids[i]].src \in DOMAIN global /\ out[kids[i]].src \in Sources
      BY <1>2, EndState DEF Sources
    <3>2. out[kids[i]].src \in K
      BY <3>1, EndKept
    <3>3. NearestBlock(global, out[kids[i]].src) = n
      BY <1>0 DEF KidsPlaced, kids
    <3> QED
      BY <3>2, <3>3
  <2>2. ASSUME m \in P PROVE \E i \in DOMAIN kids : out[kids[i]].src = m
    <3>1. m \in DOMAIN global /\ m \in Sources
      BY <2>2, <1>1
    <3>2. PICK c \in DOMAIN out : out[c].src = m
      BY <3>1 DEF Sources
    <3>3. c # 1
      BY <3>1, <3>2, EndState
    <3>4. ~IsOpen(c)
      <4>1. Len(stack_) = 1
        BY EndState
      <4>2. 2..Len(stack_) = {}
        BY <4>1
      <4> QED
        BY <4>2 DEF IsOpen
    <3>5. IsKid(c)
      BY <3>3, <3>4, <1>0 DEF AllPlaced
    <3>6. PICK p \in DOMAIN out : \E i \in DOMAIN out[p].kids : out[p].kids[i] = c
      BY <3>5 DEF IsKid
    <3>7. PICK i \in DOMAIN out[p].kids : out[p].kids[i] = c
      BY <3>6
    <3>8. out[p].src = out[k].src
      BY <2>2, <3>2, <3>7, <1>0 DEF KidsPlaced
    <3>9. p = k
      BY <3>8, SourcesDiffer
    <3> QED
      BY <3>2, <3>7, <3>9 DEF kids
  <2> QED
    BY <2>1, <2>2, <1>4
<1>7. P \in SUBSET (1..Len(global))
  BY <1>0, <1>1
<1>8. P = {m \in K : Abstract!Encloser(o, m) = n}
  BY <1>0, <1>1, SameEncloser
<1> HIDE DEF P, s
<1>9. s = Ordered(P)
  BY <1>0, <1>4, <1>5, <1>6, <1>7, OrderedUnique
<1>10. s = Abstract!Ordered({m \in K : Abstract!Encloser(o, m) = n})
  BY <1>8, <1>9, SameOrdered
<1> QED
  BY <1>10 DEF s, kids

\* Sends are the interactions of the endpoint as the sender, receives the others.
LEMMA MadeAnswer ==
  ASSUME Ended, NEW o, SameTree(o)
  PROVE  /\ {out[k].src : k \in {k \in DOMAIN out : IsSend(k)}}
              = {n \in Abstract!Interactions(o, endpoint) : o[n].sndr = endpoint}
         /\ {out[k].src : k \in {k \in DOMAIN out : IsReceive(k)}}
              = {n \in Abstract!Interactions(o, endpoint) : o[n].sndr # endpoint}
<1>1. ASSUME NEW k \in DOMAIN out, out[k].class = "Interaction"
      PROVE  out[k].src \in DOMAIN global /\ global[out[k].src].class = "Interaction"
  <2>1. k # 1
    BY <1>1 DEF Ended, ShapeInv, NodesShaped
  <2> QED
    BY <2>1, <1>1, EndState DEF ShapeOf
<1>2. ASSUME NEW n
      PROVE  n \in Abstract!Interactions(o, endpoint) <=>
               /\ n \in DOMAIN global /\ global[n].class = "Interaction"
               /\ SentBy(n) \/ Receivers(n) # << >>
  <2>1. n \in Abstract!Interactions(o, endpoint) <=>
          n \in DOMAIN global /\ n \in Sources /\ global[n].class = "Interaction"
    BY EndKept DEF Abstract!Interactions, SameTree
  <2>2. ASSUME n \in DOMAIN global, global[n].class = "Interaction"
        PROVE  n \in Sources <=> SentBy(n) \/ Receivers(n) # << >>
    <3>1. \A k \in DOMAIN out : out[k].src = n => IsSend(k) \/ IsReceive(k)
      <4> SUFFICES ASSUME NEW k \in DOMAIN out, out[k].src = n PROVE out[k].class = "Interaction"
        BY DEF IsReceive
      <4>1. k # 1
        BY <2>2, EndState
      <4> QED
        BY <4>1, <2>2, EndState DEF ShapeOf
    <3>2. n \in Sources <=> \E k \in DOMAIN out : out[k].src = n
      BY DEF Sources
    <3> QED
      BY <2>2, <3>1, <3>2, EndInteractions
  <2> QED
    BY <2>1, <2>2
<1>3. \A n \in DOMAIN global : o[n].sndr = global[n].sndr
  BY DEF SameTree
<1>4. \A k \in DOMAIN out : IsSend(k) \/ IsReceive(k) => out[k].class = "Interaction"
  BY DEF IsSend, IsReceive
<1>5. ASSUME NEW n
      PROVE  (\E k \in DOMAIN out : IsSend(k) /\ out[k].src = n)
               <=> n \in Abstract!Interactions(o, endpoint) /\ o[n].sndr = endpoint
  BY <1>1, <1>2, <1>3, <1>4, EndInteractions, IsSender
<1>6. ASSUME NEW n
      PROVE  (\E k \in DOMAIN out : IsReceive(k) /\ out[k].src = n)
               <=> n \in Abstract!Interactions(o, endpoint) /\ o[n].sndr # endpoint
  BY <1>1, <1>2, <1>3, <1>4, EndInteractions, IsSender
<1> QED
  BY <1>5, <1>6

\* What the projection answers is the local type.
LEMMA EndAnswer ==
  ASSUME Ended
  PROVE  Result = Abstract!LocalTypeOf(OrdinaryTree, endpoint)
<1>0. global \in Seq(SourceNode) /\ 1 \in DOMAIN out /\ out[1].src = 0
  <2>1. TypeOK
    BY DEF Ended, IInv
  <2>2. 1 \in DOMAIN out /\ global \in Seq(SourceNode)
    BY <2>1, TypeParts, StackFacts
  <2> QED
    BY <2>2, EndState
<1>1. PICK o : o = OrdinaryTree
  OBVIOUS
<1>2. SameTree(o)
  BY <1>0, <1>1, OrdinaryTreeSame
<1> DEFINE K == Abstract!Kept(o, endpoint)
           below(n) == Abstract!Ordered({m \in K : Abstract!Encloser(o, m) = n})
           shown(n) == [i \in DOMAIN out[PlaceOf(n)].kids |-> out[out[PlaceOf(n)].kids[i]].src]
<1>3. Sources = K \cup {0}
  <2>1. \A n \in Sources : n = 0 \/ n \in DOMAIN global
    BY EndState DEF Sources
  <2>2. 0 \in Sources
    BY <1>0 DEF Sources
  <2>3. \A n : n \in K <=> n \in DOMAIN global /\ n \in Sources
    BY <1>2, EndKept
  <2> QED
    BY <2>1, <2>2, <2>3
<1>4. ASSUME NEW n \in Sources PROVE shown(n) = below(n)
  <2>1. \E k \in DOMAIN out : out[k].src = n
    BY <1>4 DEF Sources
  <2>2. PlaceOf(n) \in DOMAIN out /\ out[PlaceOf(n)].src = n
    BY <2>1 DEF PlaceOf
  <2> QED
    BY <2>2, <1>2, KidsAnswer
<1>5. [n \in Sources |-> shown(n)] = [n \in K \cup {0} |-> below(n)]
  BY <1>3, <1>4
<1>6. Result = [status   |-> "done",
                kids     |-> [n \in Sources |-> shown(n)],
                sends    |-> {out[k].src : k \in {k \in DOMAIN out : IsSend(k)}},
                receives |-> {out[k].src : k \in {k \in DOMAIN out : IsReceive(k)}}]
  BY DEF Result
<1>7. Result = Abstract!LocalTypeOf(o, endpoint)
  BY <1>2, <1>5, <1>6, MadeAnswer DEF Abstract!LocalTypeOf
<1> QED
  BY <1>1, <1>7

\* SameAsOrdinary holds of every protocol: where all roles are ordinary and nobody sends
\* to himself, ProjectionVisitor of parameterised/util/project.h makes what LocalType
\* says of an ordinary protocol.
THEOREM OrdinarySame == Spec => []SameAsOrdinary
<1>1. IInv /\ ShapeInv => SameAsOrdinary
  BY EndAnswer DEF SameAsOrdinary, Ended
<1> QED
  BY <1>1, ShapeInvariance, PTL
=============================================================================
