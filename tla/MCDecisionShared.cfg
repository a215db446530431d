SPECIFICATION MCSpec
CONSTANTS
  i1 = i1  i2 = i2  s1 = s1  s2 = s2  t1 = t1  r1 = r1  r2 = r2  r3 = r3
  NoTask = NoTask
  Requests = {r1, r2, r3}
  Instances = {i1, i2}
  Sessions = {s1}
  Tasks = {t1}
  Labels = {"pii", "web"}
  Names = {"read", "send", "bare"}
  Calls <- SharedSessionCalls
  Limit = 1
  MaxEnds = 0
  tool1 = tool1  tool2 = tool2  tool3 = tool3  h1 = h1  h2 = h2  uri = uri  sampling = sampling
  None = None
  Tools = {tool1, tool2, tool3}
  Surfaces = {h1, h2}
  Resource = uri
  Sampling = sampling
  Manifests <- MCManifests
  Tokens <- MCTokens
  Listings <- MCListings
  MaxSurfaceEntries = 2
  Parts = {"engine"}
SYMMETRY Symmetry
INVARIANTS SinkSeesEarlierTaint
