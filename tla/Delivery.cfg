SPECIFICATION Spec
CONSTANTS
  Chosen = {"prepare", "inputs", "golden", "checks", "jobs"}
  app = app
  ecs = ecs
  wgpu = wgpu
  cli = cli
  fbx = fbx
  Races = FALSE
  Foreign = FALSE
  Skips = FALSE
  BuildFaults = 1
  root = root
  sub = sub
  nested = nested
  Meddles = FALSE
  alice = alice
  bob = bob
  BobsModes = {"l4a"}
  Shares = FALSE
  Refuses = FALSE
  Outlives = FALSE
  Lags = FALSE
  Crashes = 1
  unit = unit
  gate = gate
  first = first
  second = second
  Excludes = FALSE
  Renames = FALSE
  QueuedDated = TRUE
  quick = quick
  slow = slow
  sweep = sweep
  Reruns = FALSE
INVARIANTS
  PreparedTrue
  InputsTrusted
  RunsTrue
  ChecksTrue
  JobsTrue
PROPERTIES
  LiveUntouched
CHECK_DEADLOCK FALSE
