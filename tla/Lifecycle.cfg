SPECIFICATION SumSpec
CONSTANTS
  s1 = s1
  s2 = s2
  l1 = l1
  l2 = l2
  d1 = d1
  i1 = i1
  i2 = i2
  c1 = c1
  c2 = c2
  ghost = ghost
  Starts = {s1}
  Launchers = {l1}
  Parent <- MCParent
  Inits = {i1, i2}
  Stops = {c1}
  Ghost = ghost
  InitialLocks <- AnyLock
  Races = FALSE
  MaxCrashes = 1
  CrashSteps <- Unclaimed
  Orphans = TRUE
  r1 = r1
  r2 = r2
  Servers = {r1, r2}
  Declarations <- SomeDeclarations
  Mcp = FALSE
  McpPort = 9
  Elsewhere = FALSE
  Edits = FALSE
  Overlaps = FALSE
  Hasty = FALSE
  Reslots = FALSE
  Starting = 1
  Strangers = 1
  Faults = 1
  Commands = 2
INVARIANTS
  LockTrue
PROPERTIES
  RunLease
  StopsTrue
