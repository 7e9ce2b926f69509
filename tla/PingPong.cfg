SPECIFICATION FairSpec
CONSTANTS
  Tests = {"atomic_bool", "atomic_wait", "atomic_flags", "condition_variable", "semaphore"}
  count_limit = 4
  NoPlayer = NoPlayer
INVARIANTS SignalsKept
PROPERTIES LockFreeReturns TakesTurns
