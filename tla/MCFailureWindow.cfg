SPECIFICATION Spec
CONSTANTS
  Addresses = {a1, a2}
  Proxies = {p1}
  Inferred = inferred
  Window = 1
  MaxBooked = 4
  MaxTime = 4
PROPERTIES SweepCleans KeepsPromise
