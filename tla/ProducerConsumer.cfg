SPECIFICATION FairSpec
CONSTANTS
  Joiner = Joiner
  Producer = {p1, p2}
  Consumer = {c1, c2}
  Thread = {p1, p2, c1, c2, Joiner}
  Value <- Numbers
  CAPACITY = 2
  MaxPush = 2
  NoThread = NoThread
  NoValue = NoValue
INVARIANTS QueueInv AllPopped
PROPERTIES Completes ImplementsChannel
