CONSTANTS
  WORD = 2
  Bytes = {0, 1}
  Space = 8
  Readable = {3, 4, 5}
  Writable = {4, 5}
  CallDatas <- MCCallDatas
  Pointers = {3, 4, 5, 7}
  Lengths = {0, 1, 2}
  SLOT_LEN = SLOT_LEN
  SENTINEL = SENTINEL
  GAS_LIMIT = 2
CHECK_DEADLOCK FALSE
SPECIFICATION Spec
INVARIANT TypeOK
INVARIANT CopyCorrect
INVARIANT LoadCorrect
PROPERTY ImplementsSlots
