\* A child that somebody kills.
CONSTANTS
  h1 = h1
  h2 = h2
  Servers = {h1, h2}
  MaxChildren = 2
  NumUrls = 1
  Bodies <- MCOneNode
  Plaintext = {}
  CrashKinds = {"exited", "signalled"}
SPECIFICATION FetcherSpec
PROPERTIES ChildComesBack
CHECK_DEADLOCK FALSE
