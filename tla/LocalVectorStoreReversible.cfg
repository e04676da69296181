SPECIFICATION UndoSpec
CONSTANTS
  b1 = b1
  b2 = b2
  Batches = {b1, b2}
  Ids <- MCIds
  MaxUpserts = 2
SYMMETRY Symmetry
CHECK_DEADLOCK FALSE
INVARIANT
  RollbackRestores
