SPECIFICATION SumSpec
CONSTANTS
  Procs = {p1, p2, p3}
  Home <- HomeOf
  Target <- TargetOf
  Request <- RequestOf
  Root = root
  NoSlot = noSlot
  MaxSlot = 2
  UserInits = 1
  MaxFaults = 2
  MaxFails = 1
  MaxCommits = 2
  MaxEdits = 2
  MaxEdited = 2
  MaxStashes = 1
  MaxBuilds = 2
  MaxMoves = 1
  MaxRuns = 2
  MaxCommands = 3
  MaxSignals = 1
  Overlay = {loop, notes, readme}
  Tracked = {readme, root}
  Subs = {sub, nested}
  Parent <- ParentOf
  Floats = {harness, games, ide}
  Scrubbed = {harness}
  Excluded = {harness, games}
  Optional = {games}
  Skippable = {games}
  Builders = {a, b}
  Contents = {plain, more}
  Assets <- AssetsOf
  Packages = {notes, loop}
  Callers = {a, b}
  Places = {notes, ide}
  Overrides = {ide}
  Extensions = {notes, loop}
  Scripted = {loop}
  MaxCrashes = 1
  MaxRemovals = 1
  Chosen = {"tree", "float", "repos", "update", "package", "preview", "delivery", "install"}
  sub = sub
  nested = nested
  more = more
  Moves = FALSE
  Edits = FALSE
  LinksTogether = FALSE
  Late = FALSE
  Occupied = FALSE
  Others = FALSE
  Switches = FALSE
  a = a
  b = b
  p1 = p1
  p2 = p2
  p3 = p3
  noSlot = noSlot
  Races = FALSE
  Careless = FALSE
  OneTree = TRUE
INVARIANTS
  SlotsApart
  LocalWorkKept
  CommitsWhole
  DoneMeansDone
  BuildsTrue
PROPERTIES
  HandsOff
CHECK_DEADLOCK FALSE
