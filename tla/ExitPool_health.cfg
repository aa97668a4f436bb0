\* The calls the plugin makes on one exit, of any source: health and bans over several
\* models, with the clock running.
CONSTANTS
  e1 = e1
  Exits = {e1}
  m1 = m1
  m2 = m2
  Models = {m1, m2}
  s1 = s1
  Sessions = {s1}
  ExitIPs = {}
  NoIP = NoIP
  NoExit = NoExit
  CooldownBase = 1
  CooldownMax = 3
  BanConfirmations = 2
  DeadEvictions = 2
  NodeSources <- AllSources
  Latencies = {400}
  TargetSizes = {1}
  InitialTarget = 1
  MaxClock = 3
  MaxLimited = 3
  MaxStrikes = 2
  MaxFailures = 3
  MaxLocks = 1
SPECIFICATION Spec
INVARIANTS CooldownFollowsRun BansCountRefusals
PROPERTY OnlyFreeEvicted
