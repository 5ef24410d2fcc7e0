SPECIFICATION Spec
CONSTANTS
  Workers = {w1, w2}
  Posts = {p1, p2, p3}
  NoOne = NoOne
  NoPost = NoPost
  Partial = Partial
  MaxFaults = 2
  MaxCrashes = 2
SYMMETRY Symmetry
INVARIANTS TypeOK DirectoryIsLog AnsweredStored QuietGetComplete NoRepeats
PROPERTY ImplementsLog
