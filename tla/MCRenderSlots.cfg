SPECIFICATION FairSpec
CONSTANTS
  Request = {r1, r2, r3, r4}
  MaxConcurrent = 2
INVARIANTS
  PermitsConserved
  NoIdlePermit
  GaugesTrue
PROPERTIES
  InArrivalOrder
  QueueWaitEnds
  NobodyStarves
  ImplementsPool
