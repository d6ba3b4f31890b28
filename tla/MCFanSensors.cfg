SPECIFICATION FairSpec
CONSTANTS
  Lines <- MCLines
  USHORT = 2
  MaxEdges = 4
INVARIANTS NeverOvercounted LongPulsesCounted CountsAccounted NoneForgotten
PROPERTIES PendingServed
