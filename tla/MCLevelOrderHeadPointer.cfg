\* Every tree of up to 6 nodes; limits that trees of 4 levels and of 6 nodes
\* exceed, some of them both at the same level.
SPECIFICATION Spec
CONSTANTS
  MaxSize = 6
  Null = Null
  NoChild = Null
  Node <- Nodes
  Trees <- AllTrees
  MaxDepth = 3
  MaxNodes = 5
INVARIANTS
  TypeOK
  LoopsAreSound
PROPERTIES
  ImplementsDeque
  ImplementsReference
\* The traversal returns.
CHECK_DEADLOCK FALSE
