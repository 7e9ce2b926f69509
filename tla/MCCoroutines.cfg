SPECIFICATION MCSpec
CONSTANTS
  o1 = o1
  o2 = o2
  o3 = o3
  f1 = f1
  f2 = f2
  f3 = f3
  Object <- MCObject
  Frame <- MCFrame
  Null = Null
  NoObject = NoObject
  limit = 10
  factor = 2
  adder = 110
  FirstOne = 127
  Starts <- MCStarts
  Rounds = 10
  Leaves <- MCLeaves
  Width = 2
INVARIANTS SoleOwner NoLeak ResumedRight
PROPERTIES CallerTold
