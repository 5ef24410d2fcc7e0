SPECIFICATION Spec
CONSTANTS
  Workers = {w1, w2}
  Names = {n1, n2}
  Passwords = {p1, p2}
  NoName = NoName
  MaxFaults = 1
  MaxCrashes = 1
SYMMETRY Symmetry
INVARIANTS TypeOK NothingLost
PROPERTIES SavesAlone LoginsAreAccounts DenialsHaveCause
