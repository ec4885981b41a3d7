\* Two jobs on two tiles and two cells.
SPECIFICATION Spec
CONSTANTS
  fine = fine  coarse = coarse  ocean = ocean  land = land  coast = coast
  Jobs = {j1, j2}
  Tiles = {fine, coarse}
  Cells = {ocean, land}
  Needs <- MCSmallNeeds
  Coarser <- MCCoarser
  Exists = {land}
  None = None
INVARIANTS
  FilledTilesAreWhole
PROPERTIES
  ValidTilesStay
  JobsEnd
