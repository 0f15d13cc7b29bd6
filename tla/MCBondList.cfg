SPECIFICATION FairBondSpec
CONSTANTS
  Peers = {a1, a2}
  MaxReported = 1
INVARIANT AccusedLackedBond
PROPERTIES AccusationEnds LossIsFound
