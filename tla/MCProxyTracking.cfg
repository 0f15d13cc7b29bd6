SPECIFICATION MCFairSpec
CONSTANTS
  Proxies = {p1, p2}
  OfflineGrace = 1
  SaveInterval = 1
  PollInterval = 1
  RetireAfter = 2
  Steady = {p2}
INVARIANTS RetiredStaysGone MemoryMatchesRegistry DiskNeverAhead
PROPERTIES ReconnectClears GoneIsReported AskedDespiteRestarts
