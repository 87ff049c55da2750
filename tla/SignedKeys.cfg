SPECIFICATION Spec
CONSTANTS
  edge = edge
  regional = regional
  global = global
  Nodes <- MCNodes
  Up <- MCUp
  Prefix <- MCPrefix
  Fronts = {edge, regional}
  Local <- MCLocal
  Route <- MCRoute
  NameAt <- MCNameAt
  NamesAt <- MCNamesAt
  MaxName = 3
  Keys <- MCKeys
  Names <- MCNames
  Reserved <- MCReserved
  Escaped <- MCEscaped
  Queried <- MCQueried
  Before <- MCBefore
  MaxRetries = 1
  Failures = {}
  Writes = 1
  NONE = NONE
  ABSENT = ABSENT
INVARIANT EveryKeyReplicates
CHECK_DEADLOCK FALSE
