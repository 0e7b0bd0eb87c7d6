CONSTANTS
  Alice = Alice
  Bob = Bob
  Carol = Carol
  NoRole = NoRole
  MaxNodes = 3
  MaxNodesDeep = 5
  Role <- Roles
  Protocols <- AllProtocols
SPECIFICATION Spec
INVARIANT OnlyMatchingMessages
CHECK_DEADLOCK FALSE
