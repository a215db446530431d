SPECIFICATION MCSpec
CONSTANTS
  a1 = a1  h1 = h1  h2 = h2  s1 = s1  s2 = s2
  Anchors = {a1}
  Requests = {h1, h2, s1, s2}
  Sampling = {s1, s2}
  AnchorOf <- OneAnchor
  MaxQueues = 5
  MaxPins = 1
  None = None
  Scenarios <- Daemon
  Parts = {"life"}
  MaxPages = 2
  MaxTools = 2
  MaxBytes = 3
  MaxHandlers = 1

PROPERTY StartReturns
