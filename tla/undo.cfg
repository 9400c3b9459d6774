CONSTANTS
  Value = {v1, v2}
  MaxId = 2
  MaxDepth = 3
  MaxRevision = 4
SPECIFICATION HSpec
INVARIANT UndoRestores
PROPERTY ImplementsCopies
