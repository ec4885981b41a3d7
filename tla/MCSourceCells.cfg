\* Tiles and grids across cell borders, widths of pixels and the antimeridian.
SPECIFICATION Spec
CONSTANTS
  Ticks = 24
  HalfTurn = 3
  Pole = 2
  Columns <- MCColumns
  Rows = 3
  LongitudeMargin = 12
  LatitudeMargin = 8
  HalfColumn = 3
  HalfRow = 4
  BlockWidth = 3
  BlockHeight = 2
  MaxGridCells = 3
  Available <- MCAvailable
  Requests <- MCRequests
  None = None
INVARIANTS
  ReadsAreListed
  OpenCellsAreBounded
  AveragesAreExact
  NativeIsNearest
