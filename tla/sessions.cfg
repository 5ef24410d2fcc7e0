SPECIFICATION Spec
CONSTANTS
  Workers = {w1, w2}
  Users = {u1, u2}
  Tokens = {t1, t2}
  NoUser = NoUser
  NoToken = NoToken
  Life = 1
  MaxTime = 2
  MaxClockSteps = 1
CHECK_DEADLOCK FALSE
SYMMETRY Symmetry
INVARIANTS TypeOK LookupOutcome GoneForGood NoLateUser
