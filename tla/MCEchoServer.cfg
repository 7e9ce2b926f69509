SPECIFICATION FairSpec
CONSTANTS
  s1 = s1
  s2 = s2
  w1 = w1
  w2 = w2
  Stream <- MCStream
  Worker <- MCWorker
  Main = Main
  NCount = 3
  BufSize = 8
INVARIANTS FramesSafe Echoed
PROPERTIES TestEnds ImplementsStreams
