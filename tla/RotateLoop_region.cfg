\* A turn refused with a RegionError.
CONSTANTS
  e1 = e1
  e2 = e2
  m1 = m1
  s1 = s1
  Exits = {e1, e2}
  Models = {m1}
  Sessions = {s1}
  Turns = {t1}
  MaxRotates = 1
  MaxAttempts = 1
  Requests <- TurnRequests
  SessionOf <- OneSession
  ModelOf <- OneModel
  SourceOf <- OneManual
  LatencyOf <- Quality
  Pinned = NoExit
  Steady = {e1, e2}
  Unbuildable = {}
  AgentLruCap = 2
  MaxClock = 0
  ExitIPs = {}
  NoIP = NoIP
  NoExit = NoExit
  CooldownBase = 1
  CooldownMax = 2
  BanConfirmations = 2
  DeadEvictions = 2
SPECIFICATION RotateSpec
INVARIANTS RegionBanned
CHECK_DEADLOCK FALSE
