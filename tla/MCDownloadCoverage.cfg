\* Convex polygons with and without a hole, rectangles, and profiles of one to three tiers.
SPECIFICATION Spec
CONSTANTS
  MaxZoom = 3
  Ticks = 4
  HalfTurn = 3
  Pole = 4
  Edge = 12
  Configurations <- MCConfigurations
  Tiles <- MCTiles
  Areas <- MCAreas
  Ranges <- MCRanges
  None = None
CHECK_DEADLOCK FALSE
INVARIANTS
  PermittedTouchesRegion
  DeniedOnlyAroundRegion
  DeletesTheRange
  DeletesTheCells
