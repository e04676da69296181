SPECIFICATION MCSpec
CONSTANTS
  b1 = b1
  b2 = b2
  Batches = {b1, b2}
  Ids <- MCIds
  MaxUpserts = 3
SYMMETRY Symmetry
CHECK_DEADLOCK FALSE
INVARIANTS
  TypeOK
  RecordsAccountedFor
  SummaryCounts
  HistoryCovers
PROPERTY
  AllOrNothing
