SPECIFICATION FairSpecWrite
CONSTANTS
  r1 = r1
  r2 = r2
  b1 = b1
  queryGraphql = queryGraphql
  mutateGraphql = mutateGraphql
  schemaResource = schemaResource
  NoTarget = NoTarget
  NoName = NoName
  Request = {r1, r2}
  Target = {queryGraphql, mutateGraphql, schemaResource}
  Resource = {schemaResource}
  WriteTool = {mutateGraphql}
  GuardedTool = {mutateGraphql}
  QueryTool = {queryGraphql}
  SafeTool = {queryGraphql}
  KnownReadOnly = {queryGraphql}
  CachedTool = {}
  Config <- Configs
  MaxRequests = 2
  Name = {b1}
  Blocked = {"BranchMerge"}
  Document <- Documents
INVARIANTS
  TypeOK
  WritesNotReplayed
  Gated
  MetricsBalance
  GuardHolds
PROPERTIES
  RequestEnds
  ImplementsPipeline
  ImplementsRegister
  BranchOnlyForWrites
CHECK_DEADLOCK FALSE
