\* A free and a trusted exit, or two of a kind, each probed twice, two models, a full pool of one.
CONSTANTS
  e1 = e1
  e2 = e2
  m1 = m1
  m2 = m2
  Exits = {e1, e2}
  Models = {m1, m2}
  ProbeModels <- SmokeOrder
  Pinned = {e2}
  Echoes <- SomeEchoes
  Blocked <- BlockedCountries
  MaxResponse = 3000
  Workers = 2
  Target = 1
  MaxProbes = 2
  MaxTasks = 2
  TrustedFacts <- SomeTrusted
  MaxJoins = 2
  MaxSignals = 1
  Sessions = {}
  ExitIPs = {"ip1", "ip2"}
  NoIP = NoIP
  NoExit = NoExit
  CooldownBase = 1
  CooldownMax = 1
  BanConfirmations = 1
  DeadEvictions = 1
SPECIFICATION Spec
INVARIANTS ProbesInv FreeServesOnSuccess
PROPERTIES MeasuredStays ProbesEnd
CHECK_DEADLOCK FALSE
