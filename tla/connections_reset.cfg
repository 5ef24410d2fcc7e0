SPECIFICATION Spec
CONSTANTS
  Workers = {w1, w2}
  Conns = {c1, c2, c3}
  Requests = {good}
  Throwing = {}
  NoConn = NoConn
  NoRequest = NoRequest
CHECK_DEADLOCK FALSE
INVARIANT ExceptionsCaught
