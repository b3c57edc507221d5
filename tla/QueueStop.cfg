SPECIFICATION QueueSpec
CHECK_DEADLOCK FALSE
CONSTANTS
  Messages = {a1}
  RunModes = {"execute"}
  Drainers = {"d1", "d2"}
  QueueLimit = 1
  MaxEdits = 0
  MaxSubmits = 1
  MaxStops = 1
  MaxQueueFaults = 0
  MaxTrouble = 2
INVARIANT FollowUpPulled
