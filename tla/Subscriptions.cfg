\* Two children, lists that change between refreshes, a plaintext node.
CONSTANTS
  h1 = h1
  h2 = h2
  Servers = {h1, h2}
  MaxChildren = 2
  NumUrls = 2
  Bodies <- MCBodies
  Plaintext = {p1}
  CrashKinds = {"exited"}
SPECIFICATION FetcherSpec
INVARIANTS SubscriptionsInv SmokeSeesItsNode
PROPERTIES RefreshEnds
CHECK_DEADLOCK FALSE
