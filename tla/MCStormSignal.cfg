SPECIFICATION Spec
CONSTANTS
  Addresses = {a1}
  Proxies = {p1, p2}
  Counting = {p1}
  Inferred = inferred_source
  StormThreshold = 2
  BondThreshold = 3
  MaxRefused = 5
  MaxPlain = 2
  MaxCount = 5
  MaxBlind = 1
INVARIANTS StormNeedsChurn InferredIsUnmeasured CappingIsInvisible
