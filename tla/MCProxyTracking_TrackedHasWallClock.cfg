SPECIFICATION Spec
CONSTANTS
  Proxies = {p1, p2}
  OfflineGrace = 1
  SaveInterval = 1
  PollInterval = 1
  RetireAfter = 3
  Steady = {}
INVARIANT TrackedHasWallClock
