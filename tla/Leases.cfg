SPECIFICATION FairSpec
CONSTANTS
  p1 = p1
  p2 = p2
  p3 = p3
  Procs = {p1, p2, p3}
  Ports = {1, 2, 3}
  Wants <- Overlapping
  Extras <- Moved
  Patience = FALSE
  MaxCrashes = 2
  CrashSteps <- AnyStep
INVARIANTS
  HolderRecorded
PROPERTIES
  EveryStartEnds
  LeaseSpec
