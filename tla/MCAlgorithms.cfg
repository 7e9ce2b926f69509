SPECIFICATION MCSpec
CONSTANTS
  Byte <- MCByte
  ESC = "H"
  SOF = "S"
  Payload <- MCPayload
  MaxFrames = 2
  NoSignal = "none"
  NoValue = NoValue
  MaxOps = 3
  MaxLength = 5
  Word = 256
  MaxRank = 6
  MaxMove = 3
  Sizes = {0, 1, 2, 3, 4, 5}
  Widths = {1, 2, 3}
  Lengths = {1, 2}
  Words = {0, 1, 2, 3}
  MaxSpaces = 1
  MaxText = 5
  Horizon = 40
  MaxInput = 4
  Variable = {v1, v2, v3}
  Argument = {a1, a2}
  Moved = moved_from
  Longest = 3
  Keys = {0, 1, 2}
  MaxItems = 5
  MaxPersons = 3
  Top = 2
  Letters = {65, 97, 66}
  MaxString = 2
  Ints = {0, 1, 2}
  Half = 4
  Items = 1000
  Collections = 2
  Turns = 11
INVARIANTS FramesDelivered Agree ExpressionsRight TellsPrimes ViewsRight WordsCounted Arranged OrdersLawful MemoryRight
