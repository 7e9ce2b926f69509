SPECIFICATION Spec
CONSTANTS
  Joiner = Joiner
  Producer = {p1, p2}
  Consumer = {c1, c2}
  Thread = {p1, p2, c1, c2, Joiner}
  Value <- Numbers
  CAPACITY = 1
  MaxPush = 1
  NoThread = NoThread
  NoValue = NoValue
INVARIANTS TimeoutIsReported
