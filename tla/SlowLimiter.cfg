SPECIFICATION Spec
CONSTANTS
  r1 = r1
  r2 = r2
  getSchema = getSchema
  nodeUpsert = nodeUpsert
  schemaResource = schemaResource
  NoTarget = NoTarget
  Request = {r1, r2}
  Target = {getSchema, nodeUpsert, schemaResource}
  Resource = {schemaResource}
  WriteTool = {nodeUpsert}
  SafeTool = {getSchema}
  KnownReadOnly = {getSchema}
  CachedTool = {getSchema}
  Config <- SlowRate
  MaxRequests = 2
INVARIANTS
  ThrottledByTraffic
