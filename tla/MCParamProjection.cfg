CONSTANTS
  NoRole = NoRole
  Name <- Names
  Protocols <- MCProtocols
  Endpoints <- MCEndpoints
SPECIFICATION FairSpec
INVARIANTS
  TypeOK
  Participates
  ReceivesFirst
  ConditionFits
  StopsExplained
  StructureKept
  SameAsOrdinary
PROPERTY Terminates
