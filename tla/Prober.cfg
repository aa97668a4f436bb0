\* Four tasks over a steady and a churning exit, with the limit changing.
CONSTANTS
  e1 = e1
  e2 = e2
  Exits = {e1, e2}
  Steady = {e1}
  t1 = t1
  t2 = t2
  t3 = t3
  t4 = t4
  Tasks = {t1, t2, t3, t4}
  ExitOf <- TwoTasksEach
  Limits = {0, 1, 2}
  InitialLimit = 2
  Waiters = {w1}
  NoWaiter = NoWaiter
  Models = {}
  Sessions = {}
  ExitIPs = {}
  NoIP = NoIP
  NoExit = NoExit
  CooldownBase = 1
  CooldownMax = 2
  BanConfirmations = 1
  DeadEvictions = 2
SPECIFICATION Spec
INVARIANTS ProberInv SteadySerial
PROPERTIES TasksSettle DrainedResolves
