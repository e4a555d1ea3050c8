\* Two simulations, a channel for one job, and one snapshot more than the
\* window holds.
SPECIFICATION FairSpec
CONSTANTS
  RideIds = {r1}
  None = None
  MaxHistory = 2
  ConsecutiveSnapshotsRequired = 2
  QueueLengthHighThreshold = 5
  QueueLengthLowThreshold = 0
  PriceStep = 1
  MinPrice = 0
  MaxPrice = 1
  Sims = {s1, s2}
  NoSim = NoSim
  NoJob = NoJob
  BufferCapacity = 1
  Reports <- SomeReports
  MaxSnapshots = 3
INVARIANTS
  TypeOK
  LedgerKeepsTheOrder
  RuleFollowsTheStreaks
PROPERTIES
  AcceptedIsPersisted
