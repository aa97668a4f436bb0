\* One turn of up to three requests over a pinned manual exit, a free one, and one no agent can be built for.
CONSTANTS
  e1 = e1
  e2 = e2
  m1 = m1
  s1 = s1
  Exits = {e1, e2, e3}
  Models = {m1}
  Sessions = {s1}
  Turns = {t1}
  MaxRotates = 2
  MaxAttempts = 1
  Requests <- TurnRequests
  SessionOf <- OneSession
  ModelOf <- OneModel
  SourceOf <- OneManual
  LatencyOf <- Quality
  Pinned = e1
  Steady = {e1}
  Unbuildable = {e3}
  AgentLruCap = 1
  MaxClock = 1
  ExitIPs = {}
  NoIP = NoIP
  NoExit = NoExit
  CooldownBase = 1
  CooldownMax = 2
  BanConfirmations = 2
  DeadEvictions = 2
SPECIFICATION RotateSpec
INVARIANTS TurnInv
PROPERTIES OneSignalPerRequest FailureLeavesExit SilenceIsBroken EveryTurnEnds NeverReplayed
CHECK_DEADLOCK FALSE
