SPECIFICATION Spec
CONSTANTS
  u1 = u1
  u2 = u2
  u3 = u3
  rural = rural
  state = state
  etc = etc
  Torn = Torn
  None = None
  Uuids <- MCUuids
  Builtin <- MCBuiltin
  Profiles <- MCProfiles
  Paths <- MCPaths
  Protected <- MCProtected
  Inis <- MCInis
  Requests <- MCRequests
  MaxEntries = 2
  MaxPuts = 3
  MaxEdits = 3
  MaxStarts = 4
INVARIANTS
  Recoverable
  RunningIsSaved
  ServesItsCatalog
  RefusesOnlyForTheIni
CHECK_DEADLOCK FALSE
