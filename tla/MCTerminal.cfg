SPECIFICATION FairSpec
CONSTANTS
  MAX_CMD_SIZE = 2
  EchoRoom = 2
  MaxText = 1
  MaxKeys = 3
INVARIANTS EchoesInOrder PatientSeesLine PacedNothingRefused
PROPERTIES Answered
