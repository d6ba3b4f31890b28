SPECIFICATION FairSpec
CONSTANTS
  MAX_CMD_HISTORY = 3
  MAX_CMD_SIZE = 3
  TimestampLen = 1
  EchoRoom = 1
  NUL = nul
  SetTime = t
  Hang = r
  Crash = R
  Help = h
  Info = w
  Digits = {d}
  FirstKeys = {t, r, R, d}
  LaterKeys = {d}
  MaxLines = 3
INVARIANTS StringsEnd TextIntact
PROPERTIES ImplementsExecutor EnteredLineTaken
