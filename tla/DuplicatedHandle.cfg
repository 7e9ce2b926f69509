SPECIFICATION Spec
CONSTANTS
  Frame = {"f1", "f2", "f3", "f4", "f5"}
  NoFrame = "none"
INVARIANTS HandlesDiffer
