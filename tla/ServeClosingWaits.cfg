SPECIFICATION Spec
CONSTANTS
  Connections = {c1}
INVARIANT ClosingWaits
CHECK_DEADLOCK FALSE
