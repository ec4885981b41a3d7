\* Three requests over one connection.
SPECIFICATION Spec
CONSTANTS
  Requests = {r1, r2, r3}
  Sockets = {s1}
  tile = tile
  grid = grid
  Keys <- MCKeys
  Cost <- MCCost
  Deletion = Deletion
  NoKey = NoKey
  Nobody = Nobody
  MaxGridBytes = 2
  MaxJobs = 2
  MaxRemoteJobs = 1
  MaxPending = 2
  Workers = 1
  RemoteWorkers = 1
CHECK_DEADLOCK FALSE
INVARIANTS
  TypeOK
  ReservationsMatchJobs
  GridBytesMatchFlights
  RegisteredFlightsAnswer
  StoppedIsQuiet
PROPERTIES
  ImplementsSingleFlight
  EveryRequestAnswered
  ShutdownCompletes
  LocalJobsEnd
