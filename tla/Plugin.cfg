SPECIFICATION SumSpec
CONSTANTS
  Calls = {c1, c2, c3}
  Wants <- Archives
  Shas = {old, new}
  None = none
  Before = old
  MaxCrashes = 2
  Chosen = {"preview", "cache", "exts", "hosts"}
  t1 = t1
  t2 = t2
  t3 = t3
  t4 = t4
  k1 = k1
  k2 = k2
  k3 = k3
  mcp = mcp
  mcp2 = mcp2
  cli = cli
  none = none
  Cast = "server"
  Live = FALSE
  Glimpses = FALSE
  Spared = {"write", "ready", "record", "rollback"}
  Crashes = 1
  c1 = c1
  c2 = c2
  c3 = c3
  old = old
  new = new
  MarkerFirst = TRUE
  SlowOwners = FALSE
  Contested = FALSE
  Repeats = FALSE
  a1 = a1
  a2 = a2
  p = p
  q = q
  e1 = e1
  e2 = e2
  h1 = h1
  h2 = h2
  free = free
  Races = FALSE
  claude = claude
  codex = codex
  Toml = {}
  Tears = {"torn"}
  HalfCopies = FALSE
  MaxEvents = 4
  Meddles = FALSE
SYMMETRY Sym
INVARIANTS
  RuntimesWhole
  RecordsTrue
  UserEditsKept
  SuccessTrue
PROPERTIES
  AnswersTrue
CHECK_DEADLOCK FALSE
