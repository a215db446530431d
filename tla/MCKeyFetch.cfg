SPECIFICATION KeySpec
CONSTANTS
  forced = forced
  background = background
  Callers = {forced, background, other}
  FailureThreshold = 2
  CooldownDuration = 2
  HalfOpenMaxProbes = 2
  MaxGen = 4
  Verifiers = {v1, v2}
  MaxKey = 2
  cacheTTL = 1
  negativeKIDTTL = 1
  FetchTimeout = 1
  MaxWindows = 1
INVARIANTS WithdrawnKeysExpire
PROPERTIES CompletionCannotUndoStart BreakerIsSound RecoveryIsComplete
