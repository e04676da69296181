SPECIFICATION Spec
CONSTANTS
  ClassOf <- MCClassOf
  Urgent <- MCUrgent
  Reviews <- MCReviews
  Threshold = 2
  MaxItems = 1
  MaxClaims = 2
  MaxCrashes = 1
CHECK_DEADLOCK FALSE
INVARIANTS
  TypeOK
  OneOpenItemPerGroup
  NoEvidenceLost
  ReportedWasDigested
  RaisedAgainOnGrowth
