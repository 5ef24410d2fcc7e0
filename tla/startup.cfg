SPECIFICATION Spec
CONSTANTS
  Workers = {w1, w2}
  Unreadable = Unreadable
  Unset = Unset
  MaxFragments = 3
  Files <- MCFiles
  Number <- MCNumber
  Ports = {80}
  Requests <- MCRequests
  ServedFiles <- MCServedFiles
  Credentials <- MCBodies
  Contents <- MCBodies
  Documents <- MCBodies
  Ids = {"7"}
  BigIds = {"99999999999"}
CHECK_DEADLOCK FALSE
SYMMETRY Symmetry
INVARIANTS TypeOK AcceptedIsGrammar PrintedIsRead RoutesAsDeclared LongestPrefix PieceIsOfRequest
PROPERTIES AnsweredAsWhole RoutesFrozen AcceptedServes
