SPECIFICATION BoundarySpec
CONSTANTS
  Requests = {r1, r2}
  Origins = {o1, o2}
  NoOrigin = NoOrigin
  Calls = {k1}
  Procedures <- MCProcedures
  Handlers = {h1, h2}
  PackageName <- MCPackageName
  NoHandler = NoHandler
INVARIANTS EveryPhaseEnds AccountedFor NamesTheAsker CallerKnows FaultsReported ReachesItsProcedure
SYMMETRY Symmetry
CHECK_DEADLOCK FALSE
