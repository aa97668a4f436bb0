\* Either mode: one agent torn down at any time, or a catalog with two refreshes
\* in flight, crashes and restarts, and three kinds of models.
CONSTANTS
  MaxSpawns = 4
  MaxConsecutiveCrashes = 3
  ExitKinds = {"code", "signal"}
  teardownCall = teardown
  Stops = {teardown}
  verified = verified
  free = free
  broken = broken
  Models = {verified, free, broken}
  FreeNamed = {free, broken}
  Static = {verified}
  Unavailable = {broken}
  Answers <- MCAnswers
  Refreshes = {r1, r2}
  MaxAttempts = 2
SPECIFICATION PluginSpec
INVARIANTS SidecarInv DisposeLeavesNone CatalogInv OffersOnlyVouched NoTimerAfterStop
PROPERTIES CrashAnswered StartEnds
CHECK_DEADLOCK FALSE
