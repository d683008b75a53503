\* New queues hold one node, so that arrays of 1, 2 and 4 slots take part.
SPECIFICATION RequestSpec
CONSTANTS
  Null = Null
  Requests = {r1, r2, r3}
  Mine = r1
  InitCap = 1
  MaxDepth = 2
  MaxNodes = 2
  Node <- MCNodes
  Trees <- MCTreeSet
SYMMETRY Symmetry
INVARIANTS
  TypeOK
  PoolIsSafe
PROPERTY ImplementsAlone
\* Every request returns.
CHECK_DEADLOCK FALSE
