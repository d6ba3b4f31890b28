SPECIFICATION TtyFairSpec
CONSTANTS
  Keys = {"x", "newline", "[", "nul"}
  MaxPresses = 3
  MaxBytes = 2
  MaxUnplugs = 2
INVARIANTS KeysInOrder LossBounded
PROPERTIES LossNoticed KeysServedWhenSilent
CHECK_DEADLOCK FALSE
