CONSTANTS
  Users = {u1}
  Funder = u1
  Zero = zero
  Self = self
  T0 = t0
  T1 = t1
  FalseTokens = {t1}
  Recipients = {u1}
  R112 = 8
  Spill = 2
  BitOr <- MCBitOr
  MINIMUM_LIQUIDITY = 1
  FeeNum = 1
  FeeDen = 10
  Word = 16384
  TokenMax = 3
  MaxLP = 3
  InitTok <- MCInitTok
  Amounts = {1}
  SwapOuts = {0, 1}
  LPAmounts = {0, 1}
  Approvals = {0}
SPECIFICATION Spec
INVARIANT ReservesFitU112
