SPECIFICATION Spec
CONSTANTS
  Clients = {c1, c2}
  ConnIds = {i1, i2}
  Addresses = {a1, a2}
  TableSize = 4
  ClockMod = 2
  MaxQueue = 3
  MaxAge = 2
SYMMETRY Symmetric
INVARIANTS TypeOK ShowsWhatIsHeld
PROPERTY SilenceIsReal
