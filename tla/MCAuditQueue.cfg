SPECIFICATION FairSpec
CONSTANTS
  r1 = r1  r2 = r2  r3 = r3  r4 = r4
  Records = {r1, r2, r3, r4}
  Size <- MCSize
  Target <- MCTarget
  QueueCap = 1
  ByteBudget = 2
  BucketCap = 1
  SyncEveryN = 2
  MaxFaults = 1
INVARIANTS QueueAccounts CleanCloseIsComplete
PROPERTY TailIsSynced
