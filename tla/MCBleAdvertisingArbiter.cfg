\* Three requests; every start and every stop may fail.
CONSTANTS
  r1 = r1
  r2 = r2
  r3 = r3
  Requests = {r1, r2, r3}
  Priority <- MCPriority
  None = None
  MaxConnections = 2
  PoolSize = 3
SPECIFICATION Spec
INVARIANTS
  ListHoldsPending
  ResumeIsArmed
  AdvertisesTop
PROPERTIES
  ImplementsQueue
  KeepsAdvertising
