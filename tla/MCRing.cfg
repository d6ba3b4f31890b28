SPECIFICATION Spec
CONSTANTS
  Size = 3
  Zero = z
  Data = {z, b}
  MaxLen = 3
INVARIANTS WriterHasRoom
PROPERTIES UnreadBytesKept ImplementsFifo
