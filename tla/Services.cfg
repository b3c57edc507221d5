SPECIFICATION ServicesSpec
CONSTANTS
  Agents = {a1, a2}
  Conns = {c1}
  Publishers = {p1}
  Kinds = {"retry", "settle"}
  Sizes = {1, 2}
  RingSize = 2
  RingBytes = 3
  MaxEventBytes = 2
  ReplayLimit = 2
  SubscriberBuffer = 1
  MaxStreams = 1
  IdleTimeout = 1
  MaxSeq = 3
  MaxSessions = 2
  MaxClock = 1
  ReplayDepth = 1
  MaxEvents = 2
  MaxFeeds = 2
  MaxFlips = 2
  MaxFailures = 1
  Triggers = {"t1"}
  Periods = {1, 2}
  LeaseTime = 1
  Horizon = 2
  MaxClaims = 2
  MaxRevisions = 2
  MaxMisses = 1
  MaxJobs = 1
  MaxPairings = 2
  Services = {"s1", "s2"}
  MaxSwitches = 2
  MaxRequests = 4
  Notices = {"n1"}
  MaxAttempts = 2
  BatchSize = 1
  MaxTellings = 3
  MaxUpsets = 1
  Calls = {a1, a2, "c3"}
  Keys = {"k1"}
  GlobalSlots = 2
  KeySlots = {0, 1}
  MonthlyLimit = 3
  Asked = {0, 1}
  DefaultOutput = 2
  MaxUse = 2
  Generations = 2
SYMMETRY ServicesSymmetry
INVARIANTS
  OpenIsRegistered
  RingIsTail
  RetryMatchesRing
  StreamCaughtUp
  RunOnce
  HandedOnce
  DeliveryTold
  DueIsWatched
  AllowanceKept
