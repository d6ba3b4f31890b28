SPECIFICATION LedFairSpec
CONSTANTS
  LEDS = 2
  BlinkTicks = 2
  MaxBlinks = 6
INVARIANTS NeverStuckLit
PROPERTIES DarkInTheEnd
