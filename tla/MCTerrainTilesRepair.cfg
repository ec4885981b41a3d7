\* One job; repairing a damaged tile.
SPECIFICATION Safe
CONSTANTS
  fine = fine  coarse = coarse  ocean = ocean  land = land  coast = coast
  Jobs = {j1}
  Tiles = {fine, coarse}
  Cells = {ocean, land, coast}
  Needs <- MCNeeds
  Coarser <- MCCoarser
  Exists = {land, coast}
  None = None
INVARIANTS
  RepairsAreWhole
