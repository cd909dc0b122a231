SPECIFICATION Spec
CONSTANTS
  r1 = r1
  r2 = r2
  r3 = r3
  nobody = nobody
  alice = alice
  Runs = {r1, r2}
  N = 2
  Users <- MCUsers
  Blank = nobody
  Initial <- MCInitial
  MaxActive = 2
  MaxCrashes = 1
  CrashStages <- AnyStage
  TornCrashes <- TornReplacement
  MaxFaults = 1
  FaultPoints <- BackupFault
  HalfWrites = {"lock"}
  MaxEdits = 1
  WindowEdits = FALSE
SYMMETRY Symmetric
INVARIANTS
  CommitExclusive
PROPERTIES
  UserPartKept
