SPECIFICATION GatesSpec
CONSTANTS
  a1 = a1  a2 = a2  a3 = a3  s1 = s1  s2 = s2  r1 = r1  r2 = r2  r3 = r3
  Anchors = {a1, a2, a3}
  Sessions = {s1, s2}
  Requests = {r1, r2, r3}
  Sampling = {r3}
  SessionOf <- MCSessionOf
  AnchorOf <- MCAnchorOf
  PinAnchor <- MCPinAnchor
  CacheCap = 1
  MaxGates = 6
INVARIANT GatesAreHeld
PROPERTY ImplementsTurn
