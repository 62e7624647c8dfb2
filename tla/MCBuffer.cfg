CONSTANTS
  Byte = {0, 1}
  Zero = 0
  kCheapPrepend = 1
  kInitialSize = 2
  ExtraBuf = 2
  MaxLen = 3
  MaxSize = 6
SPECIFICATION Spec
PROPERTY
  IsByteQueue
