SPECIFICATION FairSpec
CONSTANTS
  Word = 8
  BootBeep = 2
  KeyBeep = 1
  AlarmBeep = 3
  BUZZER_FREQ = 0
  PANIC_FREQ = 1
  MaxFlips = 3
INVARIANTS SoundBounded SilentPinLow
PROPERTIES EventuallyQuiet AlarmSounds ButtonSettles
