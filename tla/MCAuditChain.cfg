SPECIFICATION VerifySpec
CONSTANTS
  MaxPerFile = 2
  Retain = 1
  FsyncCommitsDir = FALSE
  MaxSlack = 2
  MaxLines = 5
  MaxDiskFaults = 2
  MaxCrashes = 2
  MaxMishaps = 1
  KeyChange = 4
  Rings = {{"old", "new"}, {"old"}}
INVARIANTS ChainSurvives VerifierIsRight
CHECK_DEADLOCK FALSE
