SPECIFICATION HostSpec
CONSTANTS
  BootRecords = {b1, b2}
  HandRecords = {h1}
  Faults <- MCFaults
  MaxEvents = 2
  MaxRuns = 2
  MaxUpserts = 1
  Updaters = {u1}
  Options <- MCOptions
  Broken <- MCBroken
  MaxCommit = 3
  MaxKills = 2
  MaxHands = 2
  Reviews <- MCReviews
  ClassOf <- MCClassOf
  Urgent <- MCUrgent
  Threshold = 2
  MaxItems = 1
  Writers = {hook, byhand}
  MaxRounds = 4
CHECK_DEADLOCK FALSE
INVARIANTS
  HostKeepsOrder
  
  
  
  PassIsEarned
  LatestIsBacked
PROPERTY
  LogOnlyGrows
