\* Two connections that share one product.
SPECIFICATION FairSpec
CONSTANTS
  s1 = s1
  s2 = s2
  r1 = r1
  r2 = r2
  r3 = r3
  p1 = p1
  p2 = p2
  Nobody = Nobody
  Session = {s1, s2}
  Request = {r1, r2}
  Product = {p1, p2}
  Priority = {"visible"}
  SessionOf <- Connections
  Wanted <- Overlapping
  PriorityOf <- SamePriority
  Window = 1
  SettlingWindows = 2
  QueueLimit = 1
  ChannelLimit = 1
  Workers = 1
  CacheLimit = 1
INVARIANTS FlightsServeTheirWaiters NoForeignCancellation SweptStaysSwept
PROPERTIES EveryRequestSettles
