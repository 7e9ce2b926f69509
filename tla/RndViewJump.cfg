SPECIFICATION Spec
CONSTANTS
  Word = 256
  MaxRank = 4
  MaxMove = 2
INVARIANT FastMove
