SPECIFICATION Spec
CHECK_DEADLOCK FALSE
CONSTANTS
  MaxTasks = 1
  Owners = {a1}
  Kinds = {"agent"}
  Workers = {w1}
  Callers = {k1}
  Waiters = {}
  Limits = {1}
  AgentLimits = {1}
  MaxSettings = 0
  MaxCancels = 1
  MaxMishaps = 0
PROPERTY CancelEndsCanceled
