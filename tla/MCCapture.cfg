SPECIFICATION CaptureSpec
CONSTANTS
  Bytes = {0, 1}
  MaxLen = 2
  Adapters = {"tap", "lan"}
  Words <- MCWords
  Default <- MCDefault
  DefaultPort = 32999
  PortMax = 65535
  MaxArgs = 4
INVARIANTS
  CaptureTypeOK
  NeverTwiceRunning
  DropIsComparable
  OneAdapter
  MarkedAsArrived
