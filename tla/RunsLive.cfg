SPECIFICATION FairSpec
CHECK_DEADLOCK FALSE
CONSTANTS
  Threads = {t1, t2}
  NoThread = NoThread
  Requests = {"message", "correction", "source", "compact"}
  MaxRuns = 2
  MaxParks = 2
  MaxStops = 1
  MaxWork = 3
PROPERTIES
  EveryRequestEnds
  ParkedEnds
