SPECIFICATION FairSpec
CONSTANTS
  short = short
  long = long
  Workers = {w1, w2}
  Handlers <- MCHandlers
  Assignments <- Both
  NoOne = NoOne
  Docs <- MCDocs
  NotJson = {short}
  Size <- MCSize
  Empty = Empty
  Torn = Torn
  MaxInt = 2
  PathIds = {1, 2}
  MaxRequests = 3
  MaxFaults = 1
  MaxLost = 1
CHECK_DEADLOCK FALSE
INVARIANTS TypeOK OnlyRacesDamage StoreMatches
PROPERTIES ImplementsMap RequestsEnd
