SPECIFICATION MCSpec
CONSTANTS
  Queuer = {q1, q2, q3, q4}
  Runner = {r1, r2, r3}
  Hot = r1
  Worker = {w1, w2}
  RoundLimit = 4
  Size = 2
  Main = Main
  NoRunner = NoRunner
  NoThread = NoThread
  count = 4
  counter = 3
  Calls = 3
  TaskCount = 3
  Elements = 6
  Limit = 99
INVARIANTS SlotsKept Meetings Results HandedOver StackKept Inspected
PROPERTIES PoolsServe EveryoneEnds
