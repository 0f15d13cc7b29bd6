SPECIFICATION PathSpec
CONSTANTS
  Proxies = {1, 2, 3}
  Accepting = {1, 2}
  Addresses = {a1}
  Rssi <- MCRssi
  ClearlyStronger = 16
INVARIANTS PathTypeOK RouteOfItsConnection
