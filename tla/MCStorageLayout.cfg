CONSTANTS
  keccak <- MCkeccak
  SHIFT = 11
  ADDR = 16
  Addresses = {0, 3}
  Values = {0, 5}
  PairSlots = {8}
  FactorySlots = {4}
  MaxPairs = 2
  Queries = {0, 1, 2, 9}
SPECIFICATION Spec
INVARIANT TypeOK
INVARIANT AllPairsAnswers
PROPERTY ImplementsVariables
