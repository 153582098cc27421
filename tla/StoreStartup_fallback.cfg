\* One replica with a DSN: can a store end up in memory?
CONSTANTS
  p1 = p1
  i1 = i1
  Pod = {p1}
  Item = {i1}
  Attempts = 2
  MaxOutages = 1
  MaxCrashes = 0
SPECIFICATION Spec
INVARIANT NoSilentFallback
