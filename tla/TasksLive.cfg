SPECIFICATION FairSpec
CHECK_DEADLOCK FALSE
CONSTANTS
  MaxTasks = 2
  Owners = {a1}
  Kinds = {"shell"}
  Workers = {w1}
  Callers = {k1}
  Waiters = {}
  Limits = {1}
  AgentLimits = {1}
  MaxSettings = 0
  MaxCancels = 1
  MaxMishaps = 1
PROPERTIES
  HeldEnds
  QueuedStarts
  ReapedIsAbandoned
  ImplementsLifecycle
