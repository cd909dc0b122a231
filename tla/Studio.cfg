SPECIFICATION FairSpec
CONSTANTS
  server = server
  interface = interface
  None = None
  Other = Other
  Unowned = {}
  Order <- TwoServices
  Pid = {1, 2, 3, 4}
  MaxRestarts = 1
  Drains = TRUE
  Hangs = FALSE
  Overlaps = FALSE
  Reuse = FALSE
  Races = FALSE
  Throws = FALSE
  MaxDeaths = 1
  MaxCrashes = 1
  MaxStops = 1
  MaxSignals = 1
INVARIANTS
  ServicesKnown
PROPERTIES
  RecordsTrue
  StopTrue
  Supervised
  CommandsEnd
CHECK_DEADLOCK FALSE
