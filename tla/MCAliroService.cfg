\* Two phones; everything the host does may fail.
CONSTANTS
  c1 = c1
  c2 = c2
  Conns = {c1, c2}
  Reasons = {unlocked}
  MaxSessions = 2
  MaxChannels = 1
  PoolSize = 3
  MaxOther = 0
  HostMayFail = TRUE
SPECIFICATION Spec
SYMMETRY Symmetry
INVARIANTS
  ObjectsAccounted
  ChannelsAreNegotiated
  AdvertisesOnlyIfAllowed
  StopEndsConnections
