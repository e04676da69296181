SPECIFICATION Spec
CONSTANTS
  e1 = e1
  Escalations = {e1}
  Decisions = {"approve", "proceed"}
  Starts = {"built"}
  MaxEscalations = 1
  MaxEvents = 1
CHECK_DEADLOCK FALSE
INVARIANT
  LastDecisionAccepted
