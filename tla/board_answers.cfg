SPECIFICATION FairSpec
CONSTANTS
  Workers = {w1, w2}
  Posts = {p1, p2, p3}
  NoOne = NoOne
  NoPost = NoPost
  Partial = Partial
  MaxFaults = 0
  MaxCrashes = 1
PROPERTY PostsEnd
