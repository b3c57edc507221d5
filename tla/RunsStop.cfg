SPECIFICATION Spec
CHECK_DEADLOCK FALSE
CONSTANTS
  Threads = {t1, t2, t3}
  NoThread = NoThread
  Requests = {"message", "correction", "source", "compact"}
  MaxRuns = 1
  MaxParks = 1
  MaxStops = 1
  MaxWork = 2
SYMMETRY Symmetry
PROPERTIES
  StopStops
