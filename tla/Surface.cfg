SPECIFICATION SurfaceSpec
CONSTANTS
  Texts = {a}
  Names = {"x", "y"}
  Methods = {GET, PUT}
  Parts = {a, b}
  Numerals = {b}
  Readers <- MCReaders
  MaxReaders = 3
  MaxRoutes = 3
  MaxPattern = 2
  MaxPath = 3
INVARIANTS MostSpecificServes AllowIsComplete RefusedIffClash UsableIffUnambiguous PathAlwaysCaptured CallFindsItsEndpoint
SYMMETRY Symmetry
CHECK_DEADLOCK FALSE
