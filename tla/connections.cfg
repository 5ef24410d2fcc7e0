SPECIFICATION FairSpec
CONSTANTS
  Workers = {w1, w2}
  Conns = {c1, c2, c3}
  Requests = {good, bad}
  Throwing = {bad}
  NoConn = NoConn
  NoRequest = NoRequest
CHECK_DEADLOCK FALSE
INVARIANTS TypeOK OneOwner Listening
PROPERTY SessionsEnd
