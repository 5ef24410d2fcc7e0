SPECIFICATION Spec
CONSTANTS
  short = short
  long = long
  Workers = {w1, w2}
  Handlers <- MCHandlers
  Assignments <- ServerOnly
  NoOne = NoOne
  Docs <- MCDocs
  NotJson = {}
  Size <- MCSize
  Empty = Empty
  Torn = Torn
  MaxInt = 7
  PathIds = {0}
  MaxRequests = 3
  MaxFaults = 0
  MaxLost = 0
CHECK_DEADLOCK FALSE
PROPERTY ThreadSafe
