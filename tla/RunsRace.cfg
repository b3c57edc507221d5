SPECIFICATION Spec
CHECK_DEADLOCK FALSE
CONSTANTS
  Threads = {t1, t2, t3}
  NoThread = NoThread
  Requests = {"message", "correction", "source", "compact"}
  MaxRuns = 3
  MaxParks = 2
  MaxStops = 1
  MaxWork = 3
SYMMETRY Symmetry
INVARIANTS
  SlotExclusive
  RunningIsOwned
PROPERTIES
  FirstEndStands
  WakeHonoursTask
  ForgottenOnlyWhenStopped
