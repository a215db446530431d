SPECIFICATION MCSpec
CONSTANTS
  r1 = r1
  r2 = r2
  global = global
  session = session
  Replicas = {r1, r2}
  Serving = {r1}
  Keys = {global, session}
  Global = global
  Dimension <- MCDimension
  Expirable = {session}
  FailOpen = FALSE
  Staleness = 1
  MaxAttempts = 2
  MaxScan = 0
  MaxOps = 2
  MaxFaults = 1
INVARIANTS KillsArrive
PROPERTIES RefreshNeverErasesKill CachesConverge
CHECK_DEADLOCK FALSE
