CONSTANTS
  RETURN = 243
  SWAP1 = 144
  INVALID = 254
  Others = {91}
  MaxInit = 2
  MaxRuntime = 2
  MaxCreated = 1
SPECIFICATION Spec
INVARIANT TypeOK
INVARIANT CallsTheLastDeployed
INVARIANT CutBehindReturn
CHECK_DEADLOCK FALSE
