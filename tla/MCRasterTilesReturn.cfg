\* A deleted tile comes back.
SPECIFICATION Safe
CONSTANTS
  a = a  b = b  c = c  ax = ax  ax2 = ax2  bx = bx  cx = cx
  Requests = {r1, r2, r3}
  Keys = {a}
  ResponseKeys = {ax}
  Canonical <- MCCanonical
  Urls = {u1}
  FirstUrl = u1
  Origins = {o1}
  None = None
  MaxActive = 1
  MaxPerOrigin = 1
  MaxQueued = 1
  MaxWrites = 2
  MaxReads = 2
  MaxPending = 3
  WriteThreads = 2
  MaxGeneration = 2
SYMMETRY Symmetry
CHECK_DEADLOCK FALSE
INVARIANTS
  DeletedTilesNeverReturn
