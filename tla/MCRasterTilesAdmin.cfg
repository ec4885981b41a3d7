\* Two tiles, one under two spellings, and one slot: deletions and replacements of the URL meet
\* downloads, queue places, reads and writes, and everybody is answered.
SPECIFICATION Spec
CONSTANTS
  a = a  b = b  c = c  ax = ax  ax2 = ax2  bx = bx  cx = cx
  Requests = {r1, r2}
  Keys = {a, b}
  ResponseKeys = {ax, ax2, bx}
  Canonical <- MCCanonical
  Urls = {u1, u2}
  FirstUrl = u1
  Origins = {o1}
  None = None
  MaxActive = 1
  MaxPerOrigin = 1
  MaxQueued = 1
  MaxWrites = 2
  MaxReads = 2
  MaxPending = 2
  WriteThreads = 2
  MaxGeneration = 2
CHECK_DEADLOCK FALSE
INVARIANTS
  MarksHaveOwners
  MemoryIsCurrent
  DeletedStaysDeleted
  AnsweredFromCurrentUrl
PROPERTIES
  WaitersAnswered
