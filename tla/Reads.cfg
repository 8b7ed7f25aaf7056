SPECIFICATION FairReads
CONSTANTS
  n1 = n1
  n2 = n2
  n3 = n3
  P = P
  Q = Q
  Node = {n1, n2, n3}
  NoNode = NoNode
  Limit <- Limits
  MaxChanges = 2
  Unknown = Unknown
  Hfid <- Hfids
  Names <- Named
  Letter <- Letters
  Kind <- KindText
  Schema <- Schemas
  Relationship <- Relations
  Reserved <- ReservedKeys
  Key <- Keys
  MaxSchemaChanges = 1
  NoKey = NoKey
  NoMap = NoMap
INVARIANTS
  TypeOK
  ReadCompletely
  FilterMapExact
  PathsAsNamed
  NamedIsFound
PROPERTIES
  ReadingStops
