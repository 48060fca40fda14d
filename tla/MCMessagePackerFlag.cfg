SPECIFICATION PackerSpec
CONSTANTS
  Bytes = {0, 1}
  MaxLen = 2
INVARIANTS
  FlagMarksSent
