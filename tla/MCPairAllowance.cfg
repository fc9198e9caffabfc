CONSTANTS
  Users = {u1, u2}
  Funder = u1
  Owners = {u1}
  Spenders = {u2}
  Zero = zero
  Self = self
  T0 = t0
  T1 = t1
  FalseTokens = {}
  Recipients = {u1}
  R112 = 8
  Spill = 2
  BitOr <- MCBitOr
  MINIMUM_LIQUIDITY = 1
  FeeNum = 1
  FeeDen = 10
  Word = 16384
  TokenMax = 4
  MaxLP = 2
  InitTok <- MCInitTok
  Amounts = {2}
  SwapOuts = {0, 1}
  LPAmounts = {1}
  Approvals <- MCApprovals
  GrantMax = 3
SPECIFICATION SpecA
INVARIANT TakenWithinGrants
PROPERTY ImplementsLPToken
