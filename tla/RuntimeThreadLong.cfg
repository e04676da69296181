SPECIFICATION Spec
CONSTANTS
  e1 = e1
  Escalations = {e1}
  Decisions = {"approve", "reject"}
  Starts = {"built"}
  MaxEscalations = 1
  MaxEvents = 9
CHECK_DEADLOCK FALSE
INVARIANT
  CompletionEarned
