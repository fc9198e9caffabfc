CONSTANTS
  Accounts = {alice, other}
  Deployer = alice
  Runs = {r1, r2}
  Tokens = {0, 1, 2}
  TokenA = 1
  TokenB = 2
  OtherTokens = {1}
  Factories = {f1, f2}
  PairAddrs = {p1, p2, p3}
  CodeHashes = {0, 1, 2}
  PairCode = 1
  Foreign = {}
  MaxDepth = 0
CHECK_DEADLOCK FALSE
SPECIFICATION SpecD
 
INVARIANT ReportedPairExists
PROPERTY RunsEnd
