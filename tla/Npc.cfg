SPECIFICATION FairSpec
CONSTANTS
  p1 = p1
  p2 = p2
  p3 = p3
  e1 = e1
  e2 = e2
  guide = guide
  Calls = {p1, p2}
  Event <- MCEvent
  Npcs = {guide}
  Npc <- MCNpc
  Sockets = {1, 2}
  MaxAttempts = 2
  BeatOutpaces = FALSE
  Overtaking = FALSE
  QuietStop = TRUE
  MaxEpochs = 2
  MaxDecisions = 2
  MaxWire = 1
  MaxLosses = 1
  MaxUpsets = 1
INVARIANTS
  OneConnection
PROPERTIES
  InOrder
  Recovers
CHECK_DEADLOCK FALSE
