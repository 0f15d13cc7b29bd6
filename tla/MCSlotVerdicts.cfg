SPECIFICATION Spec
CONSTANTS
  d1 = d1
  d2 = d2
  n1 = n1
  n2 = n2
  own = own
  p1 = p1
  p2 = p2
  a1 = a1
  Devices = {d1, d2, n1, n2, own}
  Macs = {p1, p2, a1}
  DeadStates = {"unavailable"}
  Proxies = {p1, p2}
  Addresses = {a1}
  Node <- MCNode
  Recorded = {p1}
  Registries <- MCRegistries
  EntityStates = {{}, {"unavailable"}, {"on", "unavailable"}}
INVARIANTS GhostsAreGone LeaksAreSaid OneJudge
SYMMETRY MCSymmetry
