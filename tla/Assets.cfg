SPECIFICATION SumSpec
CONSTANTS
  e1 = e1
  e2 = e2
  e3 = e3
  d1 = d1
  d2 = d2
  tree = tree
  rock = rock
  v1 = v1
  v2 = v2
  mine = mine
  none = none
  Importers = {e1, e2}
  Doctors = {d1, d2}
  Assets = {tree}
  Versions = {v1, v2, mine}
  None = none
  Delivers <- MCDelivers
  Items <- OneItem
  Packs = {tree}
  Initial <- WholeOrNothing
  Refreshes = {TRUE, FALSE}
  MaxActive = 1
  MaxCrashes = 2
  CrashSteps <- AnyStep
  MaxFaults = 1
  FaultSteps <- AllFaults
INVARIANTS
  AssetKept
  SetRight
PROPERTIES
  CommitsTrue
