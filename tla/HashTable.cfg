SPECIFICATION Spec
CONSTANTS
  Nodes <- MCNodes
  Data = {1, 2}
  Setups <- MCSetups
  PastEnd = 2
INVARIANTS
  Accounted
  Balanced
  IterationComplete
  SafeClients
PROPERTY
  IsDictionary
CHECK_DEADLOCK FALSE
