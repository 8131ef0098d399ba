\* Two threads; the driver may fail, and everything may be suspended.
CONSTANTS
  Sessions = {s1, s2}
  MaxContexts = 2
  PeerMaySuspend = TRUE
  SuspendWhenUnsecured = TRUE
  DriverMayFail = TRUE
SPECIFICATION Spec
INVARIANTS
  NoOrphanedRanging
  SuspensionNeverLocks
  OneContextPerSession
  DoorFollowsSessions
