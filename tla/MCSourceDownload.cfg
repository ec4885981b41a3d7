\* Two processes; one of two entities has no strong ETag.
SPECIFICATION Spec
CONSTANTS
  w1 = w1  w2 = w2  p1 = p1  p2 = p2  e1 = e1  e2 = e2
  Workers = {w1, w2}
  Processes = {p1, p2}
  ProcessOf <- MCProcessOf
  Entities = {e1, e2}
  Size <- MCSize
  Strong = {e1}
  None = None
INVARIANTS
  ResumableIsPrefix
  NoStrayTransfers
PROPERTIES
  PublishedIsWhole
  PublishedOnce
  AcquisitionsEnd
