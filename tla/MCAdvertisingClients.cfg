\* Two centrals, starts and stops that fail.
CONSTANTS
  DfuSmp = dfu
  Nus = nus
  Requests = {dfu, nus}
  Priority <- MCPriority
  None = None
  MaxConnections = 2
  PoolSize = 2
SPECIFICATION ClientsSpec
INVARIANTS
  NusReleasesConnection
