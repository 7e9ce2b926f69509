SPECIFICATION Spec
CONSTANTS
  Runner = {"r1", "r2"}
  Main = "main"
  NoRunner = "none"
INVARIANTS LateWinnerTold
