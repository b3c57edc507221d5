SPECIFICATION RemoteSpec
CHECK_DEADLOCK FALSE
CONSTANTS
  MaxJobs = 1
  MaxPairings = 1
  Services = {"s1"}
  MaxSwitches = 1
  MaxRequests = 1
PROPERTY AllowedWhileFresh
