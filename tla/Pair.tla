-------------------------------- MODULE Pair --------------------------------
(***************************************************************************)
(* The pair contract of uniswap-rust/src/pair.rs: a two-token pool with a  *)
(* packed reserves word, a lock, and an ERC20 token of its own (LP shares).*)
(*                                                                         *)
(* A contract call is a sequence of steps, because every safe_balance_of   *)
(* and safe_transfer runs the code of the token: other transfers of that   *)
(* token may happen before it returns.  frame holds the locals of the call *)
(* in progress.  The host restores the state the call started from         *)
(* (saved) when it reverts, traps or runs out of gas, which it may do at   *)
(* any step; a failed guard of the code is one of these.                   *)
(*                                                                         *)
(* The pair is taken from the moment its factory has deployed and          *)
(* initialized it (module Factory).  The timestamp of the reserves word is *)
(* left out: no operation reads it.                                        *)
(***************************************************************************)
EXTENDS U256, Functions, FiniteSets

CONSTANTS
  Users,               \* accounts that call the pair and hold tokens
  Zero, Self,          \* the zero address and the address of the pair
  T0, T1,              \* the addresses of token0 and token1
  FalseTokens,         \* those that may answer false instead of failing
  Recipients,          \* the accounts given as `to` to the calls of the pair
  R112,                \* 2^112, the size of a reserve field
  Spill,               \* 2^16, the reserve0 bits get_reserves adds to reserve1
  BitOr(_, _),         \* bitwise or
  MINIMUM_LIQUIDITY,   \* 1000 (pair.rs:15)
  FeeNum, FeeDen,      \* 3 and 1000: the swap fee is FeeNum / FeeDen
  TokenMax,            \* bound: the supply of each token
  MaxLP,               \* bound: the LP shares that exist when more are minted
  InitTok,             \* the token balances when the pair is created
  Amounts,             \* the token amounts of transfers
  SwapOuts,            \* the token amounts asked of swap
  LPAmounts,           \* the LP amounts of transfers
  Approvals            \* the LP amounts of approvals

Addr == Users \cup {Zero, Self, T0, T1}
Tokens == {T0, T1}
Holders == Recipients \cup {Self}     \* who transfers are made to
U128 == R112 * Spill
MAX == Word - 1

ASSUME PairAssumption ==
  /\ {Zero, Self, T0, T1} \cap Users = {}
  /\ FalseTokens \subseteq {T0, T1}
  /\ Self # Zero /\ T0 # T1 /\ {Zero, Self} \cap {T0, T1} = {}
  /\ Recipients \subseteq Addr
  /\ R112 \in Nat \ {0} /\ Spill \in 1 .. R112 /\ U128 <= Word
  /\ \A a, b \in 0 .. R112 - 1 : BitOr(a, b) \in 0 .. R112 - 1
  /\ \A a \in 0 .. R112 - 1 : BitOr(a, 0) = a
  /\ MINIMUM_LIQUIDITY \in U
  /\ FeeNum \in Nat /\ FeeDen \in Nat \ {0} /\ FeeNum <= FeeDen
  /\ TokenMax \in U /\ MaxLP \in Nat
  /\ InitTok \in [Tokens -> [Addr -> 0 .. TokenMax]]
  /\ Amounts \subseteq U /\ SwapOuts \subseteq U /\ LPAmounts \subseteq U /\ Approvals \subseteq U

\* Addresses have 20 bytes: there are finitely many accounts.
ASSUME AccountsAssumption == IsFiniteSet(Users)

VARIABLES
  reserves,      \* the reserves word: field hi (bits 144..255), mid (32..143)
  unlocked,      \* the lock slot: 1 when free
  totalSupply,
  balanceOf,
  allowance,
  tok,           \* the balances of the two tokens (external)
  frame,         \* the call in progress and its locals
  saved          \* the state the call in progress started from

storage == <<reserves, unlocked, totalSupply, balanceOf, allowance>>
vars == <<reserves, unlocked, totalSupply, balanceOf, allowance, tok, frame, saved>>

-----------------------------------------------------------------------------
\* get_reserves masks with u128::MAX, not with 2^112 - 1, so the low bits of
\* reserve0 come back on top of reserve1.
GetReserve0(w) == w.hi
GetReserve1(w) == w.mid + (w.hi % Spill) * R112

\* set_reserves: r0 << 144 | r1 << 32; both arguments are u128.
SetReserves(r0, r1) ==
  [hi |-> BitOr(r0 % R112, r1 \div R112), mid |-> r1 % R112]

\* A transfer inside an ERC20 ledger (external), and inside the pair's own.
TokenMove(f, a, b, v) == [[f EXCEPT ![a] = @ - v] EXCEPT ![b] = @ + v]

\* Mutant: the balance of the receiver is read before the sender's is written.
LPMoveStale(f, a, b, v) ==
  [[f EXCEPT ![a] = WSub(@, v)] EXCEPT ![b] = WAdd(f[b], v)]

LPMove(f, a, b, v) ==
  [[f EXCEPT ![a] = WSub(@, v)] EXCEPT ![b] = WAdd(@, v)]

\* An ERC20 transfer succeeds when the sender holds the amount; no balance
\* ever exceeds the supply of the token.
CanMove(f, a, b, v) == f[a] >= v /\ (a # b => f[b] + v <= TokenMax)

Idle == [op |-> "idle", pc |-> "idle", to |-> Zero, paid |-> FALSE,
         r0 |-> 0, r1 |-> 0, b0 |-> 0, b1 |-> 0, x0 |-> 0, x1 |-> 0,
         liq |-> 0, ts |-> 0]

NoCheckpoint == <<>>

Checkpoint == [reserves |-> reserves, unlocked |-> unlocked,
               totalSupply |-> totalSupply, balanceOf |-> balanceOf,
               allowance |-> allowance, tok |-> tok]

-----------------------------------------------------------------------------
\* The flags of every call_evm of the pair.  Without ALLOW_REENTRY the host
\* refuses calls into the pair while one is in progress.
CallFlagsOpen == {"ALLOW_REENTRY"}      \* Mutant: tokens may call back.
CallFlags == {}

Callable == frame = Idle \/ "ALLOW_REENTRY" \in CallFlags

At(op, pc) == frame.op = op /\ frame.pc = pc

\* require_unlocked, the checkpoint of the host, and the first locals.
Enter(op, pc, locals) ==
  /\ frame = Idle
  /\ unlocked = 1
  /\ unlocked' = 0
  /\ saved' = Checkpoint
  /\ frame' = [locals EXCEPT !.op = op, !.pc = pc]
  /\ UNCHANGED <<reserves, totalSupply, balanceOf, allowance, tok>>

BeginMint(to) ==
  Enter("mint", "bal0", [Idle EXCEPT !.to = to, !.r0 = GetReserve0(reserves),
                                     !.r1 = GetReserve1(reserves)])

\* The shares to burn are those the pair itself holds.
BeginBurn(to) ==
  /\ balanceOf[Self] # 0
  /\ Enter("burn", "bal0", [Idle EXCEPT !.to = to, !.liq = balanceOf[Self],
                                        !.ts = totalSupply])

BeginSwap(out0, out1, to) ==
  LET r0 == GetReserve0(reserves)
      r1 == GetReserve1(reserves)
  IN  /\ ~(out0 = 0 /\ out1 = 0)
      /\ ~(out0 >= r0 \/ out1 >= r1)
      /\ ~(to = T0 \/ to = T1)
      /\ Enter("swap", "pay0", [Idle EXCEPT !.to = to, !.r0 = r0, !.r1 = r1,
                                            !.x0 = out0, !.x1 = out1])

BeginSkim(to) ==
  Enter("skim", "bal0", [Idle EXCEPT !.to = to, !.r0 = GetReserve0(reserves),
                                     !.r1 = GetReserve1(reserves)])

BeginSync == Enter("sync", "bal0", Idle)

-----------------------------------------------------------------------------
\* safe_balance_of(token0, self): the answer may be stale one step later.
ReadBalance0 ==
  /\ frame.pc = "bal0"
  /\ frame' = [frame EXCEPT !.b0 = tok[T0][Self], !.pc = "bal1"]
  /\ UNCHANGED <<storage, tok, saved>>

ReadBalance1 ==
  /\ frame.pc = "bal1"
  /\ frame' = [frame EXCEPT
                 !.b1 = tok[T1][Self],
                 !.pc = IF frame.op \in {"burn", "skim"} /\ ~frame.paid
                          THEN "settle" ELSE "end"]
  /\ UNCHANGED <<storage, tok, saved>>

\* Mutant: the subtraction does not wrap around.
SupplyLeftSigned(ts, liq) == ts - liq

SupplyLeft(ts, liq) == WSub(ts, liq)

\* burn (pair.rs:361-368): the shares leave the ledger before the tokens do.
SettleBurn ==
  LET a0 == WMul(frame.liq, frame.b0) \div frame.ts
      a1 == WMul(frame.liq, frame.b1) \div frame.ts
  IN  /\ At("burn", "settle")
      /\ frame.ts # 0                           \* else the division traps
      /\ a0 # 0 /\ a1 # 0
      /\ balanceOf' = [balanceOf EXCEPT ![Self] = 0]
      /\ totalSupply' = SupplyLeft(frame.ts, frame.liq)
      /\ frame' = [frame EXCEPT !.x0 = a0, !.x1 = a1, !.pc = "pay0"]
      /\ UNCHANGED <<reserves, unlocked, allowance, tok, saved>>

\* Mutant: the whole balance is taken for surplus.
SurplusAll(b, r) == b

Surplus(b, r) == WSub(b, r)

\* skim: the surplus over the reserves, a wrapping subtraction.
SettleSkim ==
  /\ At("skim", "settle")
  /\ frame' = [frame EXCEPT !.x0 = Surplus(frame.b0, frame.r0),
                            !.x1 = Surplus(frame.b1, frame.r1), !.pc = "pay0"]
  /\ UNCHANGED <<storage, tok, saved>>

\* safe_transfer(token, to, value): any failure of the token reverts the call,
\* but the answer false of a token that only says it did not pay is not read.
SafeTransfer(t, v) ==
  \/ /\ CanMove(tok[t], Self, frame.to, v)
     /\ tok' = [tok EXCEPT ![t] = TokenMove(@, Self, frame.to, v)]
  \/ t \in FalseTokens /\ UNCHANGED tok

\* swap skips a transfer of nothing.
Pay(t, v) ==
  IF frame.op = "swap" /\ v = 0 THEN UNCHANGED tok ELSE SafeTransfer(t, v)

Pay0 ==
  /\ frame.pc = "pay0"
  /\ Pay(T0, frame.x0)
  /\ frame' = [frame EXCEPT !.pc = "pay1"]
  /\ UNCHANGED <<storage, saved>>

Pay1 ==
  /\ frame.pc = "pay1"
  /\ Pay(T1, frame.x1)
  /\ frame' = [frame EXCEPT !.paid = TRUE,
                            !.pc = IF frame.op = "skim" THEN "end" ELSE "bal0"]
  /\ UNCHANGED <<storage, saved>>

-----------------------------------------------------------------------------
\* Mutant: set_unlocked is forgotten.
FinishLocked ==
  /\ UNCHANGED unlocked
  /\ frame' = Idle
  /\ saved' = NoCheckpoint

\* The call returns: the lock is free again and the checkpoint is dropped.
Finish ==
  /\ unlocked' = 1
  /\ frame' = Idle
  /\ saved' = NoCheckpoint

\* balance.to() traps on a balance that does not fit u128.
StoreReserves(b0, b1) ==
  /\ b0 < U128 /\ b1 < U128
  /\ reserves' = SetReserves(b0, b1)

\* set_balance(to, get_balance(to) + liquidity).
Credit(f, to, l) == [f EXCEPT ![to] = WAdd(@, l)]
WithinBound(l) == SumFunction(balanceOf) + l <= MaxLP

Amount0 == WSub(frame.b0, frame.r0)
Amount1 == WSub(frame.b1, frame.r1)

\* The first mint (pair.rs:315-324): only the locked shares enter totalSupply.
MintFirst ==
  LET root == sqrt_u256(WMul(Amount0, Amount1))
      l == root - MINIMUM_LIQUIDITY
  IN  /\ At("mint", "end")
      /\ totalSupply = 0
      /\ root > MINIMUM_LIQUIDITY
      /\ WithinBound(l)
      /\ totalSupply' = MINIMUM_LIQUIDITY
      /\ balanceOf' =
           Credit([balanceOf EXCEPT ![Zero] = MINIMUM_LIQUIDITY], frame.to, l)
      /\ StoreReserves(frame.b0, frame.b1)
      /\ Finish
      /\ UNCHANGED <<allowance, tok>>

\* Mutant: the larger of the two proportions.
LiquidityLarger(ts) ==
  LET l0 == WMul(Amount0, ts) \div frame.r0
      l1 == WMul(Amount1, ts) \div frame.r1
  IN  IF l0 < l1 THEN l1 ELSE l0

\* The shares of a later mint: the smaller of the two proportions.
Liquidity(ts) ==
  LET l0 == WMul(Amount0, ts) \div frame.r0
      l1 == WMul(Amount1, ts) \div frame.r1
  IN  IF l0 < l1 THEN l0 ELSE l1

MintMore ==
  LET l == Liquidity(totalSupply)
  IN  /\ At("mint", "end")
      /\ totalSupply # 0
      /\ frame.r0 # 0 /\ frame.r1 # 0           \* else the division traps
      /\ l # 0
      /\ WithinBound(l)
      /\ totalSupply' = WAdd(totalSupply, l)
      /\ balanceOf' = Credit(balanceOf, frame.to, l)
      /\ StoreReserves(frame.b0, frame.b1)
      /\ Finish
      /\ UNCHANGED <<allowance, tok>>

EndBurn ==
  /\ At("burn", "end")
  /\ StoreReserves(frame.b0, frame.b1)
  /\ Finish
  /\ UNCHANGED <<totalSupply, balanceOf, allowance, tok>>

\* What came in: the balance above what the reserves and the payout leave.
AmountIn(b, r, out) == IF b > WSub(r, out) THEN WSub(b, WSub(r, out)) ELSE 0

\* balance * 1000 - amount_in * 3
Adjusted(b, in) == WSub(WMul(b, FeeDen), WMul(in, FeeNum))

\* Mutant: the right side is scaled once only.
KHoldsScaledOnce(f) ==
  WMul(Adjusted(f.b0, AmountIn(f.b0, f.r0, f.x0)),
       Adjusted(f.b1, AmountIn(f.b1, f.r1, f.x1)))
    >= WMul(WMul(f.r0, f.r1), FeeDen)

KHolds(f) ==
  WMul(Adjusted(f.b0, AmountIn(f.b0, f.r0, f.x0)),
       Adjusted(f.b1, AmountIn(f.b1, f.r1, f.x1)))
    >= WMul(WMul(WMul(f.r0, f.r1), FeeDen), FeeDen)

EndSwap ==
  /\ At("swap", "end")
  /\ ~(AmountIn(frame.b0, frame.r0, frame.x0) = 0 /\
       AmountIn(frame.b1, frame.r1, frame.x1) = 0)
  /\ KHolds(frame)
  /\ StoreReserves(frame.b0, frame.b1)
  /\ Finish
  /\ UNCHANGED <<totalSupply, balanceOf, allowance, tok>>

EndSkim ==
  /\ At("skim", "end")
  /\ Finish
  /\ UNCHANGED <<reserves, totalSupply, balanceOf, allowance, tok>>

EndSync ==
  /\ At("sync", "end")
  /\ StoreReserves(frame.b0, frame.b1)
  /\ Finish
  /\ UNCHANGED <<totalSupply, balanceOf, allowance, tok>>

\* A revert, a trap or the end of the gas: the host undoes the whole call.
Revert ==
  /\ frame # Idle
  /\ reserves' = saved.reserves
  /\ unlocked' = saved.unlocked
  /\ totalSupply' = saved.totalSupply
  /\ balanceOf' = saved.balanceOf
  /\ allowance' = saved.allowance
  /\ tok' = saved.tok
  /\ frame' = Idle
  /\ saved' = NoCheckpoint

-----------------------------------------------------------------------------
\* The LP token.  None of its operations looks at the lock.
Approve(sender, spender, value) ==
  /\ Callable
  /\ allowance' = [allowance EXCEPT ![sender][spender] = value]
  /\ UNCHANGED <<reserves, unlocked, totalSupply, balanceOf, tok, frame, saved>>

Transfer(sender, to, value) ==
  /\ Callable
  /\ ~(balanceOf[sender] < value)
  /\ balanceOf' = LPMove(balanceOf, sender, to, value)
  /\ UNCHANGED <<reserves, unlocked, totalSupply, allowance, tok, frame, saved>>

\* Mutant: the allowance is checked but never used up.
AllowanceLeftAll(allow, value) == allow

\* An allowance of 2^256 - 1 is never used up.
AllowanceLeft(allow, value) == IF allow # MAX THEN WSub(allow, value) ELSE allow

TransferFrom(sender, from, to, value) ==
  LET allow == allowance[from][sender]
  IN  /\ Callable
      /\ ~(allow # MAX /\ allow < value)
      /\ ~(balanceOf[from] < value)
      /\ allowance' = [allowance EXCEPT ![from][sender] = AllowanceLeft(allow, value)]
      /\ balanceOf' = LPMove(balanceOf, from, to, value)
      /\ UNCHANGED <<reserves, unlocked, totalSupply, tok, frame, saved>>

\* A holder moves tokens, between calls of the pair or inside one, from the
\* code of the token that the pair has called (external).
TokenTransfer(t, from, to, v) ==
  /\ CanMove(tok[t], from, to, v)
  /\ tok' = [tok EXCEPT ![t] = TokenMove(@, from, to, v)]
  /\ UNCHANGED <<storage, frame, saved>>

-----------------------------------------------------------------------------
Init ==
  /\ reserves = [hi |-> 0, mid |-> 0]
  /\ unlocked = 1
  /\ totalSupply = 0
  /\ balanceOf = [a \in Addr |-> 0]
  /\ allowance = [a \in Addr |-> [b \in Addr |-> 0]]
  /\ tok = InitTok
  /\ frame = Idle
  /\ saved = NoCheckpoint

Begin ==
  \/ \E to \in Recipients : BeginMint(to) \/ BeginBurn(to) \/ BeginSkim(to)
  \/ \E out0, out1 \in SwapOuts, to \in Recipients : BeginSwap(out0, out1, to)
  \/ BeginSync

\* The steps of the call in progress.
CallStep ==
  \/ ReadBalance0 \/ ReadBalance1 \/ SettleBurn \/ SettleSkim \/ Pay0 \/ Pay1
  \/ MintFirst \/ MintMore \/ EndBurn \/ EndSwap \/ EndSkim \/ EndSync
  \/ Revert

LPStep ==
  \/ \E a, b \in Users, v \in Approvals : Approve(a, b, v)
  \/ \E a \in Users, b \in Holders, v \in LPAmounts : Transfer(a, b, v)
  \/ \E s, a \in Users, b \in Holders, v \in LPAmounts : TransferFrom(s, a, b, v)

Environment ==
  \E t \in Tokens, a \in Users, b \in Holders, v \in Amounts : TokenTransfer(t, a, b, v)

Next == Begin \/ CallStep \/ LPStep \/ Environment

Spec == Init /\ [][Next]_vars

-----------------------------------------------------------------------------
Frames ==
  [op : {"idle", "mint", "burn", "swap", "skim", "sync"},
   pc : {"idle", "bal0", "bal1", "settle", "pay0", "pay1", "end"},
   to : Addr, paid : BOOLEAN,
   r0 : U, r1 : U, b0 : U, b1 : U, x0 : U, x1 : U, liq : U, ts : U]

ReserveWords == [hi : 0 .. R112 - 1, mid : 0 .. R112 - 1]

Checkpoints ==
  [reserves : ReserveWords, unlocked : {0, 1}, totalSupply : U,
   balanceOf : [Addr -> U], allowance : [Addr -> [Addr -> U]],
   tok : [Tokens -> [Addr -> 0 .. TokenMax]]]

\* The state of the pair, and that of the checkpoint of a call in progress.
TypeOK ==
  /\ Checkpoint \in Checkpoints
  /\ frame \in Frames
  /\ frame # Idle => saved \in Checkpoints

\* The lock of pair.rs:167-176 is held exactly while a call is in progress:
\* no path through mint, burn, swap, skim or sync leaves the pair locked.
LockMatchesCall == unlocked = (IF frame = Idle THEN 1 ELSE 0)

\* The token supplies for which neither the fields of the reserves word nor
\* the products of swap's K check overflow.
SmallSupply ==
  /\ TokenMax < R112
  /\ TokenMax + U128 < Word
  /\ TokenMax * U128 * FeeDen * FeeDen <= Word

\* Between calls the reserves recorded in the packed word are really held by
\* the pair: neither the stale balances of mint and sync, nor the payouts of
\* burn and swap, nor the wrapping surplus of skim (pair.rs:464-465) record or
\* leave less than the tokens the pair owns.
ReservesBacked ==
  SmallSupply /\ frame = Idle =>
    reserves.hi <= tok[T0][Self] /\ reserves.mid <= tok[T1][Self]

\* A swap never lowers the product of the recorded reserves, whatever is
\* transferred to the pair while it runs (the K check, pair.rs:433-440).
KNeverFalls ==
  [][SmallSupply /\ frame.op = "swap" /\ frame'.op = "idle" =>
       reserves'.hi * reserves'.mid >= saved.reserves.hi * saved.reserves.mid]_vars

\* The word read back by get_reserves is the word set_reserves stored.
ReadsBack(w) == GetReserve1(w) = w.mid

\* Minting more shares and burning shares never lowers what one share of
\* totalSupply is worth in either token (pair.rs:326-335, 361-373), as long as
\* no reserve field overflows, the reserves read back as they were stored and
\* the shares burned are among those totalSupply counts.
ShareNeverDiluted ==
  [][SmallSupply /\ frame.op \in {"mint", "burn"} /\ frame'.op = "idle"
       /\ saved.totalSupply # 0 /\ ReadsBack(saved.reserves)
       /\ (frame.op = "burn" => saved.balanceOf[Self] <= saved.totalSupply) =>
       /\ reserves'.hi * saved.totalSupply >= saved.reserves.hi * totalSupply'
       /\ reserves'.mid * saved.totalSupply >= saved.reserves.mid * totalSupply']_vars

\* How far the LP balances are from totalSupply.
Gap == (SumFunction(balanceOf) - totalSupply) % Word

\* Nothing but a first mint moves the LP balances and totalSupply apart: burns,
\* later mints, transfers and reverted calls keep the two in step, although
\* burn reads the shares it burns before it calls the tokens (pair.rs:351-368)
\* and the LP transfers ignore the lock (pair.rs:499-531).
LedgerInStep ==
  [][~(frame.op = "mint" /\ totalSupply = 0) => Gap' = Gap]_vars

\* The LP balances add up to totalSupply, as those of an ERC20 token do
\* ("AMM with ERC20 LP token", pair.rs:1).
SupplyIsSum == SumFunction(balanceOf) = totalSupply

\* The reserves getReserves returns fit in 112 bits ("uint112 reserve0,
\* uint112 reserve1", IUniswapV2Pair.sol).
ReservesFitU112 ==
  GetReserve0(reserves) < R112 /\ GetReserve1(reserves) < R112

=============================================================================
