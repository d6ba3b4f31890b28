SPECIFICATION Spec
CONSTANTS
  SEC = 4
  TENTH = 2
  START = 2
  MINUTE = 2
  HOUR = 4
  DAY = 8
  UCHAR = 2
  LedPeriod = 2
  Times <- MCTimes
  MaxTicks = 70
INVARIANTS CountersTrue LedCadence PrintNotAhead
PROPERTIES PrintExact
CHECK_DEADLOCK FALSE
