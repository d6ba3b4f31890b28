SPECIFICATION FairSpec
CONSTANTS
  UnitMs = 100
  WDT_TIMEOUT = 2
  BEEP_DELAY = 300
  ExecUnits = 3
INVARIANTS ResetTypeTrue NoSpuriousReset
PROPERTIES StuckEndsInReset
