\* Three tiles on two hosts compete for download slots, queue places, reads and writes.
SPECIFICATION Safe
CONSTANTS
  a = a  b = b  c = c  ax = ax  ax2 = ax2  bx = bx  cx = cx
  Requests = {r1, r2, r3}
  Keys = {a, b, c}
  ResponseKeys = {ax, ax2, bx, cx}
  Canonical <- MCCanonical
  Urls = {u1}
  FirstUrl = u1
  Origins = {o1, o2}
  None = None
  MaxActive = 2
  MaxPerOrigin = 1
  MaxQueued = 1
  MaxWrites = 2
  MaxReads = 1
  MaxPending = 2
  WriteThreads = 1
  MaxGeneration = 0
SYMMETRY Symmetry
CHECK_DEADLOCK FALSE
INVARIANTS
  QueueIsBlocked
  NobodyIsForgotten
