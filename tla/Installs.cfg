SPECIFICATION SumSpec
CONSTANTS
  r1 = r1
  r2 = r2
  r3 = r3
  nobody = nobody
  alice = alice
  Runs = {r1, r2, r3}
  N = 2
  Users <- MCUsers
  Blank = nobody
  Initial <- AnyInitial
  MaxActive = 1
  MaxCrashes = 2
  CrashStages <- AnyStage
  TornCrashes <- TornInstallWrite
  MaxFaults = 1
  FaultPoints <- EarlyFaults
  HalfWrites = {"temporary", "lock"}
  MaxEdits = 0
  WindowEdits = FALSE
INVARIANTS
  TypeOK
  Undoable
  Stands
PROPERTIES
  Installs
