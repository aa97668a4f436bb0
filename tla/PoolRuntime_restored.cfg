\* One runtime that is switched on and off.
CONSTANTS
  m1 = m1
  u1 = u1
  MaxRuntimes = 1
  MaxSchedulers = 2
  MaxRouters = 2
  MaxCommits = 3
  Manual = {m1}
  Free = {f1}
  Subscribed = {u1}
  Values <- MCValues
  SetterReturns = FALSE
  hostAgent = hostAgent
  otherPlugin = otherPlugin
SPECIFICATION Spec
INVARIANT HostRestored
CHECK_DEADLOCK FALSE
