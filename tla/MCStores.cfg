SPECIFICATION StoresSpec
CONSTANTS
  r1 = r1
  r2 = r2
  rate = rate
  spend = spend
  seen = seen
  Replicas = {r1, r2}
  Keys = {rate, spend, seen}
  Skew <- MCSkew
  MaxSkew = 1
  Window <- MCWindow
  Batches <- MCBatches
  Histories <- MCHistories
  MaxWeightedEntries = 2
  CleanupMargin = 2
  OldestAge = 5
  MaxMembers = 3
  Anchors = {x, y, z}
  Labels = {p}
  IdleTTL = 2
  MaxAnchors = 2
  ReclaimInterval = 2
  Instances = {p1, p2}
  TTLFlags <- MCFlags
  DefaultLifetime = 2
  ExpiryFactor = 3
  MaxStarts = 2
  MaxKillCommands = 1
  Absent = absent
INVARIANTS RedisQuotaAndHistory TaintOutlivesSweeps KillCommandIsHonest
PROPERTY MemoryCounterIsALedger
CHECK_DEADLOCK FALSE
