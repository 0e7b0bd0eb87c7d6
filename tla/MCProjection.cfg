CONSTANTS
  Alice = Alice
  Bob = Bob
  Carol = Carol
  NoRole = NoRole
  MaxNodes = 4
  MaxNodesDeep = 5
  Role <- Roles
  Protocols <- AllProtocols
SPECIFICATION FairSpec
INVARIANT TypeOK
INVARIANT StackDiscipline
INVARIANT SinglePlace
INVARIANT SiblingOrder
INVARIANT PrefixProjected
PROPERTY AppendOnly
PROPERTY ImplementsLocalType
PROPERTY Terminates
CHECK_DEADLOCK FALSE
