SPECIFICATION Spec
CONSTANTS
  Runners = {r1, r2}
  Candidates = {c1}
  Commands = 2
  MaxSecond = 1
  MaxEdits = 1
  MaxStarts = 2
CHECK_DEADLOCK FALSE
INVARIANTS
  ValidatedWasVerified
  IndexedRunsAreReported

  
