SPECIFICATION TtySpec
CONSTANTS
  Keys = {"ctrl-d", "nul"}
  MaxPresses = 2
  MaxBytes = 1
  MaxUnplugs = 1
INVARIANTS CtrlDEnds
CHECK_DEADLOCK FALSE
