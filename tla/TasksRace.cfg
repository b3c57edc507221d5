SPECIFICATION Spec
CONSTRAINT Corners
CHECK_DEADLOCK FALSE
CONSTANTS
  MaxTasks = 2
  Owners = {a1, a2}
  Kinds = {"shell", "agent"}
  Workers = {w1, w2}
  Callers = {k1, k2}
  Waiters = {x1, x2}
  Limits = {1, 2}
  AgentLimits = {1, 2}
  MaxSettings = 1
  MaxCancels = 2
  MaxMishaps = 1
SYMMETRY Symmetry
INVARIANTS
  SoleExecutor
  NoOrphanRun
  TerminalIsTold
  NoLostWakeup
  CountersMatch
  NoLostNotify
