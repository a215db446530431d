SPECIFICATION MessagesSpec
CONSTANTS
  oldRev = oldRev
  newRev = newRev
  None = None
  hx = hx
  hy = hy
  Ids = {hx, hy}
  MaxMsgs = 2
  Burst = 1
  MaxRefusals = 4
  MaxAsks = 3
  MaxFailedWrites = 1
  MaxIntruders = 1
  p = p
  q = q
  ServerIds = {p, q}
  Streams = {s1}
  maxTrackedServerReqs = 1
  sseSubscriberBufferSize = 1
  Scenarios <- ScenariosC
INVARIANTS GatesGuardBothWays TapeIsTrue AnswersAreAccounted WireIsOrderly
