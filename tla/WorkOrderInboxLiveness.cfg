SPECIFICATION Spec
CONSTANTS
  ClassOf <- MCClassOf
  Urgent <- MCUrgent
  Reviews <- MCFewReviews
  Threshold = 2
  MaxItems = 1
  MaxClaims = 1
  MaxCrashes = 1
CHECK_DEADLOCK FALSE
PROPERTY
  DueIsReported
