SPECIFICATION ComponentsSpec
CHECK_DEADLOCK FALSE
SYMMETRY ComponentsSymmetry
CONSTANTS
  Messages = {a1, a2}
  RunModes = {x1, x2}
  Drainers = {"d1", "d2"}
  QueueLimit = 2
  MaxEdits = 1
  MaxSubmits = 1
  MaxStops = 1
  MaxQueueFaults = 1
  MaxTrouble = 2
  Turns = 2
  Calls = 2
  MaxLedgerCrashes = 2
  Slots = {a1, a2}
  LaunchKeys = {x1, x2}
  Borrowers = {"b1", "b2"}
  Processes = {"p1", "p2", "p3"}
  MaxCalls = 3
  MaxConfigs = 1
  Requests = {a1, a2}
  PlanRuns = {"r1", "r2"}
  Files = {x1, x2}
  MaxInputs = 1
  MaxPlanFaults = 1
  Handlers = {"h1", "h2"}
  Tunnels = {"t1", "t2"}
  Addresses = {x1, x2}
  ToolUses = 2
  Answerers = {a1, a2}
  MaxChanges = 1
  Servers = {"s1", "s2", "s3"}
  Hosts = {"h1", "h2"}
  Ports = {"q1", "q2"}
  Services = {"v1", "v2"}
INVARIANTS
  HeldOnce
  FollowUpAttended
  LedgerHolds
  SessionsOwned
  ApprovedRuns
  TunnelInHand
  WordsCurrent
  FirstAnswerRules
  ListenerInHand
  SettingsKept
