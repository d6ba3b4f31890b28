SPECIFICATION GmtSpec
CONSTANTS
  FirstDay <- MCFirstDay
  LastDay <- MCLastDay
  Seconds <- MCSeconds
INVARIANTS GmtimeCorrect
CHECK_DEADLOCK FALSE
