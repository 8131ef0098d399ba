\* The host does what it is asked; one phone, and a second session allowed.
CONSTANTS
  c1 = c1
  c2 = c2
  Conns = {c1}
  Reasons = {unlocked}
  MaxSessions = 2
  MaxChannels = 2
  PoolSize = 2
  MaxOther = 1
  HostMayFail = FALSE
SPECIFICATION Spec
INVARIANTS
  DataWillBeRefreshed
PROPERTIES
  AdvertisesWithSpareObject
