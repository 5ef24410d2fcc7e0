SPECIFICATION Spec
CONSTANTS
  Workers = {w1, w2}
  Users = {u1}
  Tokens = {t1}
  NoUser = NoUser
  NoToken = NoToken
  Life = 1
  MaxTime = 2
  MaxClockSteps = 0
CHECK_DEADLOCK FALSE
PROPERTY LogoutInvalidates
