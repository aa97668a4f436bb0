\* Two runtimes, commits that race their assembly, another dispatcher plugin.
CONSTANTS
  m1 = m1
  u1 = u1
  MaxRuntimes = 2
  MaxSchedulers = 4
  MaxRouters = 3
  MaxCommits = 4
  Manual = {m1}
  Free = {f1}
  Subscribed = {u1}
  Values <- MCValues
  SetterReturns = FALSE
  hostAgent = hostAgent
  otherPlugin = otherPlugin
SPECIFICATION Spec
INVARIANTS RuntimeInv ExclusiveRouting FetchFollowsRouting
PROPERTY FreeSlotTaken
CHECK_DEADLOCK FALSE
