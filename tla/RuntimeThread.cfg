SPECIFICATION Spec
CONSTANTS
  e1 = e1
  e2 = e2
  Escalations = {e1, e2}
  Decisions = {"approve", "reject"}
  Starts = {"bare", "built"}
  MaxEscalations = 2
  MaxEvents = 6
SYMMETRY Symmetry
CHECK_DEADLOCK FALSE
INVARIANTS
  TypeOK
  CompletionEarned
  GateEarned
  ReplayAgrees
PROPERTIES
  FailClosed
  ImplementsAuthority
