SPECIFICATION Spec
CONSTANTS
  Addresses = {a1}
  Proxies = {p1, p2}
  StormThreshold = 2
  BondThreshold = 1
  MaxCount = 1
  MaxVerdicts = 2
SYMMETRY Symmetry
INVARIANTS NoFaultLost DistinctKeys SurfacesAgree
PROPERTY AlertsFollowFaults
