SPECIFICATION FairSpec
CONSTANTS
  Connections = {c1, c2, c3}
INVARIANTS PortGivenBack ShutdownDrains
PROPERTIES NoLateStart CloseEnds
CHECK_DEADLOCK FALSE
