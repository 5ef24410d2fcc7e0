SPECIFICATION Spec
CONSTANTS
  Workers = {w1, w2}
  Posts = {p1, p2}
  NoOne = NoOne
  NoPost = NoPost
  Partial = Partial
  MaxFaults = 0
  MaxCrashes = 1
INVARIANT AnsweredSurvive
