\* Two exits that join, share an exit IP, cool, die and are evicted while a session is routed.
CONSTANTS
  e1 = e1
  e2 = e2
  Exits = {e1, e2}
  Models = {m1}
  Sessions = {s1}
  ExitIPs = {ip1}
  m1 = m1
  s1 = s1
  ip1 = ip1
  NoIP = NoIP
  NoExit = NoExit
  CooldownBase = 1
  CooldownMax = 2
  BanConfirmations = 1
  DeadEvictions = 2
  NodeSources <- FreeAndManual
  Latencies = {400}
  TargetSizes = {0}
  InitialTarget = 2
  MaxClock = 0
  MaxLimited = 1
  MaxStrikes = 1
  MaxFailures = 1
  MaxLocks = 0
SPECIFICATION ApiSpec
SYMMETRY ExitSymmetry
INVARIANTS TypeOK OneAddressPerExitIP PickServesOrNoneCan
PROPERTIES SessionStaysWhileServed ImplementsDirectory
