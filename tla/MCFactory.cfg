CONSTANTS
  Accounts = {a1}
  Tokens = {0, 3, 4, 5}
  Factories = {f1, f2}
  PairAddrs = {p1, p2}
  CodeHashes = {0, 1, 2}
  PairCode = 1
  Foreign = {2}
  MaxDepth = 2
CHECK_DEADLOCK FALSE
SYMMETRY Symmetry
SPECIFICATION Spec
INVARIANT TypeOK
INVARIANT ListedPairsMatch
INVARIANT GetPairMatches
PROPERTY ListedForEver
PROPERTY RenouncedForEver
PROPERTY ImplementsRegistry
