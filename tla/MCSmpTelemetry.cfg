SPECIFICATION Spec
CONSTANTS
  Addresses = {a1, a2, a3}
  TableSize = 2
  MaxCount = 2
  ClockMod = 2
  MaxFailures = 3
  MaxAge = 2
SYMMETRY Symmetric
INVARIANTS TypeOK NeverOvercounted
PROPERTIES EvictsOldest NothingSlips
