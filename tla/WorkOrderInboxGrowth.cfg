SPECIFICATION Spec
CONSTANTS
  ClassOf <- MCClassOf
  Urgent <- MCUrgent
  Reviews <- MCReviews
  Threshold = 2
  MaxItems = 1
  MaxClaims = 0
  MaxCrashes = 0
CHECK_DEADLOCK FALSE
INVARIANT
  RaisedWhenGrown
