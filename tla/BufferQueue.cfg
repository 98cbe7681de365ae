SPECIFICATION BufferSpec
CONSTANTS
  Byte <- MCByte
  Zero = 0
  InitialSize = 2
  Extra = 2
  SizeT = 64
  MaxSize = 5
  MaxLen = 3
PROPERTY IsByteQueue
