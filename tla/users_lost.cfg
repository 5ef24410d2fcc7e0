SPECIFICATION Spec
CONSTANTS
  Workers = {w1, w2}
  Names = {n1, n2}
  Passwords = {p1}
  NoName = NoName
  MaxFaults = 0
  MaxCrashes = 0
INVARIANT RegisteredStays
