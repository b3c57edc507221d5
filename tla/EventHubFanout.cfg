SPECIFICATION FairSpec
CONSTANTS
  Agents = {a1}
  Conns = {c1, c2}
  Publishers = {p1, p2}
  Kinds = {"other"}
  Sizes = {1}
  RingSize = 1
  RingBytes = 1
  MaxEventBytes = 1
  ReplayLimit = 2
  SubscriberBuffer = 1
  MaxStreams = 1
  IdleTimeout = 1
  MaxSeq = 2
  MaxSessions = 2
  MaxClock = 1
INVARIANTS
  DeliveredInOrder
  NothingLost
PROPERTIES ImplementsFeed EventuallyRead
