\* Two overlapping lists that fail and answer, a subscribed exit, and exits that die; a cooldown outlasts the run.
CONSTANTS
  e1 = e1
  e2 = e2
  e3 = e3
  fast = fast
  slow = slow
  FastSources = {fast}
  Exits = {e1, e2, e3}
  Schedulers = {g1}
  FreeSources <- TwoLists
  ListOf <- Overlapping
  Subscribed = {e1}
  ExitIPs = {i1, i2}
  Latencies = {400}
  TargetSizes = {2}
  InitialTarget = 1
  MaxPerRound = 10
  Workers = 2
  FailThreshold = 2
  SourceCooldown = 1
  MaxFails = 2
  MaxStrikes = 1
  MaxClock = 1
  Models = {}
  Sessions = {}
  NoIP = NoIP
  NoExit = NoExit
  CooldownBase = 3
  CooldownMax = 3
  BanConfirmations = 1
  DeadEvictions = 2
SPECIFICATION Spec
INVARIANTS RefillInv
PROPERTIES CapacityKept SatisfiedPoolUnchurned RoundEnds
CHECK_DEADLOCK FALSE
