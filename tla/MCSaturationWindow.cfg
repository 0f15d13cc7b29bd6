SPECIFICATION SaturationSpec
CONSTANTS
  Window = 3
  MaxTime = 7
INVARIANTS CoversWindow ReadingsAreExact
