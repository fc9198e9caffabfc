----------------------------- MODULE PairProofs -----------------------------
(***************************************************************************)
(* Proofs about the pair contract, for every number of users, every width  *)
(* of words and every schedule of calls and token transfers.               *)
(***************************************************************************)
EXTENDS Pair, U256Proofs

\* What is known of the numbers of the model.
LEMMA Numbers ==
  /\ Word \in Nat \ {0} /\ R112 \in Nat \ {0} /\ Spill \in Nat \ {0}
  /\ U128 \in Nat /\ U128 <= Word /\ R112 <= U128
  /\ TokenMax \in Nat /\ TokenMax < Word /\ MINIMUM_LIQUIDITY \in U
  /\ FeeNum \in Nat /\ FeeDen \in Nat /\ 0 \in U
<1>1. /\ Word \in Nat \ {0} /\ R112 \in Nat \ {0} /\ Spill \in Nat \ {0}
      /\ U128 <= Word /\ TokenMax \in Nat /\ TokenMax < Word
      /\ MINIMUM_LIQUIDITY \in U /\ FeeNum \in Nat /\ FeeDen \in Nat /\ 0 \in U
  BY WordAssumption, PairAssumption DEF U
<1>2. U128 \in Nat
  BY <1>1 DEF U128
<1>3. R112 * 1 <= R112 * Spill
  BY <1>1
<1>4. R112 <= U128
  BY <1>1, <1>3 DEF U128
<1>5. QED BY <1>1, <1>2, <1>4

\* The accounts of the pair and of the tokens.
LEMMA Accounts ==
  /\ Zero \in Addr /\ Self \in Addr /\ T0 \in Tokens /\ T1 \in Tokens
  /\ Users \subseteq Addr /\ Recipients \subseteq Addr /\ Holders \subseteq Addr
  /\ Self \notin Users /\ T0 # T1
  BY PairAssumption DEF Addr, Tokens, Holders

\* The reserves that get_reserves returns are words (u128, in fact).
LEMMA GetReservesType ==
  ASSUME NEW w \in ReserveWords
  PROVE  GetReserve0(w) \in U /\ GetReserve1(w) \in U /\ GetReserve1(w) < U128
<1>1. w.hi \in 0 .. R112 - 1 /\ w.mid \in 0 .. R112 - 1
  BY DEF ReserveWords
<1>2. w.hi % Spill \in 0 .. Spill - 1
  BY <1>1, Numbers
<1>3. (w.hi % Spill) * R112 \in Nat /\ (w.hi % Spill) * R112 <= (Spill - 1) * R112
  BY <1>2, Numbers
<1>4. (Spill - 1) * R112 = U128 - R112
  BY Numbers DEF U128
<1>5. GetReserve1(w) \in Nat /\ GetReserve1(w) < U128
  BY <1>1, <1>3, <1>4, Numbers DEF GetReserve1
<1>6. QED BY <1>1, <1>5, Numbers DEF GetReserve0, U

\* set_reserves stores two 112-bit fields, and its arguments when they fit.
LEMMA SetReservesType ==
  ASSUME NEW a \in Nat, NEW b \in Nat, a < U128, b < U128
  PROVE  /\ SetReserves(a, b) \in ReserveWords
         /\ a < R112 /\ b < R112 => SetReserves(a, b) = [hi |-> a, mid |-> b]
<1>1. a % R112 \in 0 .. R112 - 1 /\ b % R112 \in 0 .. R112 - 1
  BY Numbers
<1>2. b \div R112 \in 0 .. R112 - 1
  <2>1. b \div R112 \in Nat /\ (b \div R112) * R112 <= b
    BY Numbers
  <2>2. b \div R112 >= Spill => (b \div R112) * R112 >= Spill * R112
    BY <2>1, Numbers
  <2>3. b \div R112 < Spill
    BY <2>1, <2>2, Numbers DEF U128
  <2>4. QED BY <2>1, <2>3, PairAssumption, Numbers
<1>3. SetReserves(a, b) \in ReserveWords
  BY <1>1, <1>2, PairAssumption DEF SetReserves, ReserveWords
<1>4. ASSUME a < R112, b < R112
      PROVE  SetReserves(a, b) = [hi |-> a, mid |-> b]
  <2>1. a % R112 = a /\ b % R112 = b /\ b \div R112 = 0
    BY <1>4, SmallDivMod, Numbers
  <2>2. BitOr(a, 0) = a
    BY <1>4, PairAssumption
  <2>3. QED BY <2>1, <2>2 DEF SetReserves
<1>5. QED BY <1>3, <1>4

\* A token transfer keeps the balances within the supply, takes from the
\* sender at most the amount, and nothing from anyone else.
LEMMA MoveEffect ==
  ASSUME NEW f \in [Addr -> 0 .. TokenMax], NEW a \in Addr, NEW b \in Addr,
         NEW v \in Nat, CanMove(f, a, b, v)
  PROVE  /\ TokenMove(f, a, b, v) \in [Addr -> 0 .. TokenMax]
         /\ TokenMove(f, a, b, v)[a] >= f[a] - v
         /\ \A c \in Addr \ {a} : TokenMove(f, a, b, v)[c] >= f[c]
<1>1. \A c \in Addr : f[c] \in Nat /\ f[c] <= TokenMax
  BY Numbers
<1>2. CASE a = b
  <2>1. \A c \in Addr : TokenMove(f, a, b, v)[c] =
          IF c = a THEN (f[c] - v) + v ELSE f[c]
    BY <1>2 DEF TokenMove
  <2>2. \A c \in Addr : TokenMove(f, a, b, v)[c] = f[c]
    BY <1>1, <2>1
  <2>3. TokenMove(f, a, b, v) \in [Addr -> 0 .. TokenMax]
    <3>1. DOMAIN TokenMove(f, a, b, v) = Addr
      BY DEF TokenMove
    <3>2. \A c \in Addr : TokenMove(f, a, b, v)[c] \in 0 .. TokenMax
      BY <2>2
    <3>3. QED BY <3>1, <3>2 DEF TokenMove
  <2>4. QED BY <1>1, <2>2, <2>3
<1>3. CASE a # b
  <2>1. \A c \in Addr : TokenMove(f, a, b, v)[c] =
          IF c = a THEN f[c] - v ELSE IF c = b THEN f[c] + v ELSE f[c]
    BY <1>3 DEF TokenMove
  <2>2. TokenMove(f, a, b, v) \in [Addr -> 0 .. TokenMax]
    <3>1. DOMAIN TokenMove(f, a, b, v) = Addr
      BY DEF TokenMove
    <3>2. \A c \in Addr : TokenMove(f, a, b, v)[c] \in 0 .. TokenMax
      BY <1>1, <1>3, <2>1, Numbers DEF CanMove
    <3>3. QED BY <3>1, <3>2 DEF TokenMove
  <2>3. QED BY <1>1, <1>3, <2>1, <2>2
<1>4. QED BY <1>2, <1>3

-----------------------------------------------------------------------------
\* The typing of the variables one by one.
LEMMA TypeParts ==
  TypeOK <=>
    /\ reserves \in ReserveWords /\ unlocked \in {0, 1} /\ totalSupply \in U
    /\ balanceOf \in [Addr -> U] /\ allowance \in [Addr -> [Addr -> U]]
    /\ tok \in [Tokens -> [Addr -> 0 .. TokenMax]]
    /\ frame \in Frames
    /\ frame # Idle => saved \in Checkpoints
<1>1. Checkpoint \in Checkpoints <=>
        /\ reserves \in ReserveWords /\ unlocked \in {0, 1} /\ totalSupply \in U
        /\ balanceOf \in [Addr -> U] /\ allowance \in [Addr -> [Addr -> U]]
        /\ tok \in [Tokens -> [Addr -> 0 .. TokenMax]]
  BY DEF Checkpoint, Checkpoints
<1>2. QED BY <1>1 DEF TypeOK

LEMMA TypePartsNext ==
  ASSUME reserves' \in ReserveWords, unlocked' \in {0, 1}, totalSupply' \in U,
         balanceOf' \in [Addr -> U], allowance' \in [Addr -> [Addr -> U]],
         tok' \in [Tokens -> [Addr -> 0 .. TokenMax]], frame' \in Frames,
         frame' # Idle => saved' \in Checkpoints
  PROVE  TypeOK'
<1>1. Checkpoint' \in Checkpoints
  BY DEF Checkpoint, Checkpoints
<1>2. QED BY <1>1 DEF TypeOK

LEMMA IdleType == Idle \in Frames
  BY Accounts, Numbers DEF Idle, Frames

LEMMA BeginType ==
  ASSUME TypeOK, Begin
  PROVE  TypeOK'
<1> USE Accounts
<1>1. ASSUME NEW op \in {"mint", "burn", "swap", "skim", "sync"},
             NEW pc \in {"bal0", "pay0"}, NEW locals \in Frames,
             Enter(op, pc, locals)
      PROVE  TypeOK'
  <2>1. frame' \in Frames
    BY <1>1 DEF Enter, Frames
  <2>2. saved' \in Checkpoints
    BY <1>1 DEF Enter, TypeOK
  <2>3. UNCHANGED <<reserves, totalSupply, balanceOf, allowance, tok>> /\ unlocked' = 0
    BY <1>1 DEF Enter
  <2>4. QED BY <2>1, <2>2, <2>3, TypeParts, TypePartsNext
<1>2. GetReserve0(reserves) \in U /\ GetReserve1(reserves) \in U
  BY TypeParts, GetReservesType
<1>3. ASSUME NEW to \in Recipients, BeginMint(to) \/ BeginSkim(to)
      PROVE  TypeOK'
  <2>1. [Idle EXCEPT !.to = to, !.r0 = GetReserve0(reserves),
                     !.r1 = GetReserve1(reserves)] \in Frames
    BY <1>2, IdleType DEF Frames
  <2>2. QED BY <1>1, <1>3, <2>1 DEF BeginMint, BeginSkim
<1>4. ASSUME NEW to \in Recipients, BeginBurn(to)
      PROVE  TypeOK'
  <2>1. balanceOf[Self] \in U /\ totalSupply \in U
    BY TypeParts
  <2>2. [Idle EXCEPT !.to = to, !.liq = balanceOf[Self], !.ts = totalSupply] \in Frames
    BY <2>1, IdleType DEF Frames
  <2>3. QED BY <1>1, <1>4, <2>2 DEF BeginBurn
<1>5. ASSUME NEW out0 \in SwapOuts, NEW out1 \in SwapOuts, NEW to \in Recipients,
             BeginSwap(out0, out1, to)
      PROVE  TypeOK'
  <2>1. out0 \in U /\ out1 \in U
    BY PairAssumption
  <2>2. [Idle EXCEPT !.to = to, !.r0 = GetReserve0(reserves),
           !.r1 = GetReserve1(reserves), !.x0 = out0, !.x1 = out1] \in Frames
    BY <1>2, <2>1, IdleType DEF Frames
  <2>3. QED BY <1>1, <1>5, <2>2 DEF BeginSwap
<1>6. BeginSync => TypeOK'
  BY <1>1, IdleType DEF BeginSync
<1>7. QED BY <1>3, <1>4, <1>5, <1>6 DEF Begin

\* A step that leaves the storage of the pair alone only has to keep the
\* frame and the tokens well typed.
LEMMA KeepStorage ==
  ASSUME TypeOK, UNCHANGED <<storage, saved>>, frame' \in Frames,
         tok' \in [Tokens -> [Addr -> 0 .. TokenMax]],
         frame' = Idle \/ frame # Idle
  PROVE  TypeOK'
<1>1. UNCHANGED <<reserves, unlocked, totalSupply, balanceOf, allowance, saved>>
  BY DEF storage
<1>2. frame' # Idle => saved' \in Checkpoints
  BY <1>1, TypeParts
<1>3. QED BY <1>1, <1>2, TypeParts, TypePartsNext

\* A call in progress is not idle.
LEMMA BusyFrame ==
  ASSUME frame.pc \in {"bal0", "bal1", "settle", "pay0", "pay1", "end"}
  PROVE  frame # Idle
  BY DEF Idle

LEMMA ReadType ==
  ASSUME TypeOK, ReadBalance0 \/ ReadBalance1
  PROVE  TypeOK'
<1>1. tok[T0][Self] \in U /\ tok[T1][Self] \in U
  <2>1. tok[T0][Self] \in 0 .. TokenMax /\ tok[T1][Self] \in 0 .. TokenMax
    BY TypeParts, Accounts
  <2>2. QED BY <2>1, Numbers DEF U
<1>2. frame' \in Frames
  BY <1>1, TypeParts DEF ReadBalance0, ReadBalance1, Frames
<1>3. frame # Idle
  BY BusyFrame DEF ReadBalance0, ReadBalance1
<1>4. tok' \in [Tokens -> [Addr -> 0 .. TokenMax]] /\ UNCHANGED <<storage, saved>>
  BY TypeParts DEF ReadBalance0, ReadBalance1
<1>5. QED BY <1>2, <1>3, <1>4, KeepStorage

LEMMA WordsAreInts == U \subseteq Int
  BY DEF U

LEMMA SettleSkimType ==
  ASSUME TypeOK, SettleSkim
  PROVE  TypeOK'
<1>1. frame.b0 \in Int /\ frame.r0 \in Int /\ frame.b1 \in Int /\ frame.r1 \in Int
  BY TypeParts, WordsAreInts DEF Frames
<1>2. WSub(frame.b0, frame.r0) \in U /\ WSub(frame.b1, frame.r1) \in U
  BY <1>1, OpsClosed
<1>3. frame' \in Frames
  BY <1>2, TypeParts DEF SettleSkim, Surplus, Frames
<1>4. frame # Idle
  BY BusyFrame DEF SettleSkim, At
<1>5. tok' \in [Tokens -> [Addr -> 0 .. TokenMax]] /\ UNCHANGED <<storage, saved>>
  BY TypeParts DEF SettleSkim
<1>6. QED BY <1>3, <1>4, <1>5, KeepStorage

LEMMA SettleBurnType ==
  ASSUME TypeOK, SettleBurn
  PROVE  TypeOK'
<1> DEFINE a0 == WMul(frame.liq, frame.b0) \div frame.ts
           a1 == WMul(frame.liq, frame.b1) \div frame.ts
<1>1. frame.b0 \in Int /\ frame.b1 \in Int /\ frame.liq \in Int /\ frame.ts \in U
  BY TypeParts, WordsAreInts DEF Frames
<1>2. WMul(frame.liq, frame.b0) \in U /\ WMul(frame.liq, frame.b1) \in U
  BY <1>1, OpsClosed
<1>3. frame.ts \in Nat \ {0}
  BY <1>1 DEF SettleBurn, U
<1>4. a0 \in U /\ a1 \in U
  BY <1>2, <1>3, DivClosed
<1>5. WSub(frame.ts, frame.liq) \in U
  BY <1>1, OpsClosed, WordsAreInts
<1> HIDE DEF a0, a1
<1>6. /\ frame' = [frame EXCEPT !.x0 = a0, !.x1 = a1, !.pc = "pay0"]
      /\ balanceOf' = [balanceOf EXCEPT ![Self] = 0]
      /\ totalSupply' = WSub(frame.ts, frame.liq)
      /\ UNCHANGED <<reserves, unlocked, allowance, tok, saved>>
  BY DEF SettleBurn, SupplyLeft, a0, a1
<1>7. frame' \in Frames
  BY <1>4, <1>6, TypeParts DEF Frames
<1>8. balanceOf' \in [Addr -> U]
  BY <1>6, TypeParts, Numbers
<1>9. frame # Idle
  BY BusyFrame DEF SettleBurn, At
<1>10. saved' \in Checkpoints
  BY <1>6, <1>9, TypeParts
<1>11. QED BY <1>5, <1>6, <1>7, <1>8, <1>10, TypeParts, TypePartsNext

\* What a payment of the pair does to the tokens.
LEMMA PayType ==
  ASSUME TypeOK, NEW t \in Tokens, NEW v \in U, Pay(t, v)
  PROVE  /\ tok' \in [Tokens -> [Addr -> 0 .. TokenMax]]
         /\ tok'[t][Self] >= tok[t][Self] - v
         /\ \A s \in Tokens \ {t} : tok'[s] = tok[s]
<1>1. tok \in [Tokens -> [Addr -> 0 .. TokenMax]] /\ frame.to \in Addr /\ v \in Nat
  BY TypeParts DEF Frames, U
<1>2. tok[t] \in [Addr -> 0 .. TokenMax] /\ tok[t][Self] \in Nat
  BY <1>1, Accounts
<1>3. CASE UNCHANGED tok
  BY <1>1, <1>2, <1>3
<1>4. CASE CanMove(tok[t], Self, frame.to, v)
           /\ tok' = [tok EXCEPT ![t] = TokenMove(@, Self, frame.to, v)]
  <2> DEFINE new == TokenMove(tok[t], Self, frame.to, v)
  <2>1. new \in [Addr -> 0 .. TokenMax] /\ new[Self] >= tok[t][Self] - v
    BY <1>1, <1>2, <1>4, Accounts, MoveEffect
  <2> HIDE DEF new
  <2>2. tok' = [tok EXCEPT ![t] = new]
    BY <1>4 DEF new
  <2>3. QED BY <1>1, <2>1, <2>2
<1>5. QED BY <1>3, <1>4 DEF Pay, SafeTransfer

LEMMA PayStepType ==
  ASSUME TypeOK, Pay0 \/ Pay1
  PROVE  TypeOK'
<1>1. frame.x0 \in U /\ frame.x1 \in U
  BY TypeParts DEF Frames
<1>2. tok' \in [Tokens -> [Addr -> 0 .. TokenMax]]
  BY <1>1, Accounts, PayType DEF Pay0, Pay1
<1>3. frame' \in Frames
  BY TypeParts DEF Pay0, Pay1, Frames
<1>4. frame # Idle /\ UNCHANGED <<storage, saved>>
  BY BusyFrame DEF Pay0, Pay1
<1>5. QED BY <1>2, <1>3, <1>4, KeepStorage

\* A step that returns keeps the types if what it stored has them.
LEMMA FinishType ==
  ASSUME TypeOK, Finish, UNCHANGED <<allowance, tok>>, reserves' \in ReserveWords,
         totalSupply' \in U, balanceOf' \in [Addr -> U]
  PROVE  TypeOK'
<1>1. unlocked' \in {0, 1} /\ frame' = Idle /\ frame' \in Frames
  BY IdleType DEF Finish
<1>2. QED BY <1>1, TypeParts, TypePartsNext

LEMMA StoreType ==
  ASSUME NEW a \in U, NEW b \in U, StoreReserves(a, b)
  PROVE  reserves' \in ReserveWords
<1>1. a \in Nat /\ b \in Nat
  BY DEF U
<1>2. QED BY <1>1, SetReservesType DEF StoreReserves

LEMMA CreditType ==
  ASSUME NEW f \in [Addr -> U], NEW to \in Addr, NEW l \in Int
  PROVE  Credit(f, to, l) \in [Addr -> U]
<1>1. \A n \in U : WAdd(n, l) \in U
  BY OpsClosed, WordsAreInts
<1>2. f[to] \in U /\ Credit(f, to, l) = [f EXCEPT ![to] = WAdd(f[to], l)]
  BY DEF Credit
<1>3. QED BY <1>1, <1>2

LEMMA EndType ==
  ASSUME TypeOK, EndBurn \/ EndSwap \/ EndSkim \/ EndSync
  PROVE  TypeOK'
<1>1. frame.b0 \in U /\ frame.b1 \in U
  BY TypeParts DEF Frames
<1>2. reserves' \in ReserveWords
  BY <1>1, TypeParts, StoreType DEF EndBurn, EndSwap, EndSkim, EndSync
<1>3. Finish /\ UNCHANGED <<totalSupply, balanceOf, allowance, tok>>
  BY DEF EndBurn, EndSwap, EndSkim, EndSync
<1>4. QED BY <1>2, <1>3, TypeParts, FinishType

LEMMA MintFirstType ==
  ASSUME TypeOK, MintFirst
  PROVE  TypeOK'
<1> DEFINE root == sqrt_u256(WMul(Amount0, Amount1))
           l == root - MINIMUM_LIQUIDITY
           f == [balanceOf EXCEPT ![Zero] = MINIMUM_LIQUIDITY]
<1>1. /\ frame.b0 \in U /\ frame.b1 \in U /\ frame.r0 \in Int /\ frame.r1 \in Int
      /\ frame.to \in Addr
  BY TypeParts, WordsAreInts DEF Frames
<1>2. Amount0 \in Int /\ Amount1 \in Int
  BY <1>1, OpsClosed, WordsAreInts DEF Amount0, Amount1
<1>3. WMul(Amount0, Amount1) \in Nat
  BY <1>2, OpsClosed DEF U
<1>4. root \in Int /\ l \in Int
  BY <1>3, FloorRootExists, Numbers, WordsAreInts DEF sqrt_u256
<1>5. f \in [Addr -> U]
  BY TypeParts, Numbers
<1> HIDE DEF root, l, f
<1>6. /\ StoreReserves(frame.b0, frame.b1) /\ Finish /\ UNCHANGED <<allowance, tok>>
      /\ totalSupply' = MINIMUM_LIQUIDITY /\ balanceOf' = Credit(f, frame.to, l)
  BY DEF MintFirst, root, l, f
<1>7. reserves' \in ReserveWords
  BY <1>1, <1>6, StoreType
<1>8. balanceOf' \in [Addr -> U]
  BY <1>1, <1>4, <1>5, <1>6, CreditType
<1>9. QED BY <1>6, <1>7, <1>8, Numbers, FinishType

LEMMA MintMoreType ==
  ASSUME TypeOK, MintMore
  PROVE  TypeOK'
<1> DEFINE l == Liquidity(totalSupply)
<1>1. /\ frame.b0 \in U /\ frame.b1 \in U /\ frame.r0 \in U /\ frame.r1 \in U
      /\ frame.to \in Addr /\ totalSupply \in U
  BY TypeParts DEF Frames
<1>2. Amount0 \in Int /\ Amount1 \in Int
  BY <1>1, OpsClosed, WordsAreInts DEF Amount0, Amount1
<1>3. WMul(Amount0, totalSupply) \in U /\ WMul(Amount1, totalSupply) \in U
  BY <1>1, <1>2, OpsClosed, WordsAreInts
<1>4. frame.r0 \in Nat \ {0} /\ frame.r1 \in Nat \ {0}
  BY <1>1 DEF MintMore, U
<1>5. l \in U
  BY <1>3, <1>4, DivClosed DEF Liquidity
<1> HIDE DEF l
<1>6. /\ StoreReserves(frame.b0, frame.b1) /\ Finish /\ UNCHANGED <<allowance, tok>>
      /\ totalSupply' = WAdd(totalSupply, l) /\ balanceOf' = Credit(balanceOf, frame.to, l)
  BY DEF MintMore, l
<1>7. reserves' \in ReserveWords
  BY <1>1, <1>6, StoreType
<1>8. totalSupply' \in U
  BY <1>1, <1>5, <1>6, OpsClosed, WordsAreInts
<1>9. balanceOf' \in [Addr -> U]
  BY <1>1, <1>5, <1>6, TypeParts, CreditType, WordsAreInts
<1>10. QED BY <1>6, <1>7, <1>8, <1>9, FinishType

LEMMA RevertType ==
  ASSUME TypeOK, Revert
  PROVE  TypeOK'
<1>1. saved \in Checkpoints
  BY TypeParts DEF Revert
<1>2. /\ reserves' \in ReserveWords /\ unlocked' \in {0, 1} /\ totalSupply' \in U
      /\ balanceOf' \in [Addr -> U] /\ allowance' \in [Addr -> [Addr -> U]]
      /\ tok' \in [Tokens -> [Addr -> 0 .. TokenMax]] /\ frame' = Idle
  BY <1>1 DEF Revert, Checkpoints
<1>3. QED BY <1>2, IdleType, TypePartsNext

LEMMA LPMoveType ==
  ASSUME NEW f \in [Addr -> U], NEW a \in Addr, NEW b \in Addr, NEW v \in Int
  PROVE  LPMove(f, a, b, v) \in [Addr -> U]
<1>1. WSub(f[a], v) \in U
  BY OpsClosed, WordsAreInts
<1>2. DEFINE g == [f EXCEPT ![a] = WSub(@, v)]
<1>3. g \in [Addr -> U]
  BY <1>1
<1>4. g[b] \in U
  BY <1>3
<1> HIDE DEF g
<1>5. WAdd(g[b], v) \in U
  BY <1>4, OpsClosed, WordsAreInts
<1>6. [g EXCEPT ![b] = WAdd(@, v)] \in [Addr -> U]
  BY <1>3, <1>5
<1>7. QED BY <1>6 DEF LPMove, g

LEMMA ApproveType ==
  ASSUME TypeOK, NEW a \in Addr, NEW b \in Addr, NEW v \in U, Approve(a, b, v)
  PROVE  TypeOK'
<1>1. /\ UNCHANGED <<reserves, unlocked, totalSupply, balanceOf, tok, frame, saved>>
      /\ allowance' = [allowance EXCEPT ![a][b] = v]
  BY DEF Approve
<1>2. allowance' \in [Addr -> [Addr -> U]]
  BY <1>1, TypeParts
<1>3. QED BY <1>1, <1>2, TypeParts, TypePartsNext

LEMMA TransferType ==
  ASSUME TypeOK, NEW a \in Addr, NEW b \in Addr, NEW v \in U, Transfer(a, b, v)
  PROVE  TypeOK'
<1>1. /\ UNCHANGED <<reserves, unlocked, totalSupply, allowance, tok, frame, saved>>
      /\ balanceOf' = LPMove(balanceOf, a, b, v)
  BY DEF Transfer
<1>2. balanceOf' \in [Addr -> U]
  BY <1>1, TypeParts, LPMoveType, WordsAreInts
<1>3. QED BY <1>1, <1>2, TypeParts, TypePartsNext

LEMMA TransferFromType ==
  ASSUME TypeOK, NEW s \in Addr, NEW a \in Addr, NEW b \in Addr, NEW v \in U,
         TransferFrom(s, a, b, v)
  PROVE  TypeOK'
<1>1. /\ UNCHANGED <<reserves, unlocked, totalSupply, tok, frame, saved>>
      /\ balanceOf' = LPMove(balanceOf, a, b, v)
      /\ allowance' = [allowance EXCEPT ![a][s] = AllowanceLeft(allowance[a][s], v)]
  BY DEF TransferFrom
<1>2. balanceOf' \in [Addr -> U]
  BY <1>1, TypeParts, LPMoveType, WordsAreInts
<1>3. allowance[a][s] \in Int /\ v \in Int
  BY TypeParts, WordsAreInts
<1>4. AllowanceLeft(allowance[a][s], v) \in U
  BY <1>3, TypeParts, OpsClosed DEF AllowanceLeft
<1>5. allowance' \in [Addr -> [Addr -> U]]
  BY <1>1, <1>4, TypeParts
<1>6. QED BY <1>1, <1>2, <1>5, TypeParts, TypePartsNext

LEMMA LPType ==
  ASSUME TypeOK, LPStep
  PROVE  TypeOK'
  BY PairAssumption, Accounts, ApproveType, TransferType, TransferFromType DEF LPStep

\* A token transfer of a user never takes a token from the pair.
LEMMA EnvironmentType ==
  ASSUME TypeOK, Environment
  PROVE  /\ TypeOK'
         /\ tok'[T0][Self] >= tok[T0][Self] /\ tok'[T1][Self] >= tok[T1][Self]
<1>1. PICK t \in Tokens, a \in Users, b \in Holders, v \in Amounts : TokenTransfer(t, a, b, v)
  BY DEF Environment
<1>2. a \in Addr /\ b \in Addr /\ v \in Nat /\ a # Self
  BY PairAssumption, Accounts DEF U
<1> DEFINE new == TokenMove(tok[t], a, b, v)
<1>3. tok[t] \in [Addr -> 0 .. TokenMax] /\ tok \in [Tokens -> [Addr -> 0 .. TokenMax]]
  BY TypeParts
<1>4. new \in [Addr -> 0 .. TokenMax] /\ new[Self] >= tok[t][Self]
  BY <1>1, <1>2, <1>3, Accounts, MoveEffect DEF TokenTransfer
<1> HIDE DEF new
<1>5. tok' = [tok EXCEPT ![t] = new] /\ UNCHANGED <<storage, frame, saved>>
  BY <1>1 DEF TokenTransfer, new
<1>6. \A s \in Tokens : tok[s][Self] \in Nat
  BY <1>3, Accounts
<1>7. tok'[T0][Self] >= tok[T0][Self] /\ tok'[T1][Self] >= tok[T1][Self]
  BY <1>3, <1>4, <1>5, <1>6, Accounts
<1>8. frame' \in Frames /\ (frame' # Idle => saved' \in Checkpoints)
  BY <1>5, TypeParts
<1>9. TypeOK'
  BY <1>3, <1>4, <1>5, <1>8, TypeParts, TypePartsNext DEF storage
<1>10. QED BY <1>7, <1>9

LEMMA InitType == Init => TypeOK
<1> SUFFICES ASSUME Init PROVE TypeOK
  OBVIOUS
<1>1. reserves \in ReserveWords
  BY Numbers DEF Init, ReserveWords
<1>2. QED BY <1>1, IdleType, Numbers, PairAssumption, TypeParts DEF Init

LEMMA NextType == TypeOK /\ [Next]_vars => TypeOK'
<1> SUFFICES ASSUME TypeOK, [Next]_vars PROVE TypeOK'
  OBVIOUS
<1>1. CASE UNCHANGED vars
  BY <1>1 DEF vars, TypeOK, Checkpoint
<1>2. CASE CallStep
  BY <1>2, ReadType, SettleBurnType, SettleSkimType, PayStepType, MintFirstType,
     MintMoreType, EndType, RevertType DEF CallStep
<1>3. QED BY <1>1, <1>2, BeginType, LPType, EnvironmentType DEF Next

\* Every slot of the pair, every balance and every local of a call stays a
\* word of its type, in every run of the pair (pair.rs).
THEOREM TypeCorrect == Spec => []TypeOK
  BY InitType, NextType, PTL DEF Spec

-----------------------------------------------------------------------------
(***************************************************************************)
(* The reserves are backed.  ReservesBacked is not inductive: while a call *)
(* runs, it depends on how old the balances are that the call has read.    *)
(* The strengthening says that the checkpoint is backed, that a balance    *)
(* read by a call that will store it can only have grown since, and that   *)
(* skim pays out no more than what is above the reserves, unless its       *)
(* subtraction wrapped and the token will refuse the payment.              *)
(***************************************************************************)
Held0 == tok[T0][Self]
Held1 == tok[T1][Self]

\* The lock, now and in the checkpoint.
LockInv == LockMatchesCall /\ (frame # Idle => saved.unlocked = 1)

\* The checkpoint of the call in progress is that of a backed pair.
SavedBacked ==
  frame # Idle =>
    /\ saved.reserves.hi <= saved.tok[T0][Self]
    /\ saved.reserves.mid <= saved.tok[T1][Self]

\* The balances that mint, burn, swap and sync will store are still held.
FreshReads ==
  frame # Idle /\ frame.op # "skim" =>
    /\ frame.pc \in {"bal1", "end"} => frame.b0 <= Held0
    /\ frame.pc = "end" => frame.b1 <= Held1

\* What skim has read, will pay and has left.
SkimBacked ==
  frame # Idle /\ frame.op = "skim" =>
    /\ frame.pc \in {"bal0", "bal1", "settle", "pay0", "pay1", "end"}
    /\ reserves.hi <= Held0 /\ reserves.mid <= Held1
    /\ frame.r0 = reserves.hi /\ frame.r1 = GetReserve1(reserves)
    /\ frame.pc \in {"bal1", "settle"} =>
         frame.r0 <= frame.b0 /\ frame.b0 <= Held0
    /\ frame.pc = "settle" => reserves.mid <= frame.b1 /\ frame.b1 <= Held1
    /\ frame.pc = "pay0" => frame.r0 + frame.x0 <= Held0
    /\ frame.pc \in {"pay0", "pay1"} =>
         frame.r1 + frame.x1 <= Held1 \/ frame.x1 > TokenMax

BackedInv == ReservesBacked /\ SavedBacked /\ FreshReads /\ SkimBacked

IInv == TypeOK /\ LockInv /\ (SmallSupply => BackedInv)

\* The numbers these formulas compare are naturals.
LEMMA HeldTypes ==
  ASSUME TypeOK
  PROVE  /\ Held0 \in Nat /\ Held1 \in Nat /\ Held0 <= TokenMax /\ Held1 <= TokenMax
         /\ reserves.hi \in Nat /\ reserves.mid \in Nat
         /\ frame.b0 \in U /\ frame.b1 \in U /\ frame.r0 \in U /\ frame.r1 \in U
         /\ frame.x0 \in U /\ frame.x1 \in U
<1>1. tok[T0][Self] \in 0 .. TokenMax /\ tok[T1][Self] \in 0 .. TokenMax
  BY TypeParts, Accounts
<1>2. reserves.hi \in 0 .. R112 - 1 /\ reserves.mid \in 0 .. R112 - 1
  BY TypeParts DEF ReserveWords
<1>3. frame.b0 \in U /\ frame.b1 \in U /\ frame.r0 \in U /\ frame.r1 \in U
      /\ frame.x0 \in U /\ frame.x1 \in U
  BY TypeParts DEF Frames
<1>4. QED BY <1>1, <1>2, <1>3, Numbers DEF Held0, Held1

\* A call begins: the state it starts from is the checkpoint.
LEMMA EnterInv ==
  ASSUME IInv, NEW op \in {"mint", "burn", "swap", "skim", "sync"},
         NEW pc \in {"bal0", "pay0"}, NEW locals \in Frames, Enter(op, pc, locals),
         op = "skim" => /\ pc = "bal0" /\ locals.r0 = reserves.hi
                        /\ locals.r1 = GetReserve1(reserves)
  PROVE  LockInv' /\ (SmallSupply => BackedInv')
<1>1. /\ frame = Idle /\ unlocked = 1 /\ unlocked' = 0 /\ saved' = Checkpoint
      /\ reserves' = reserves /\ tok' = tok
      /\ frame' = [locals EXCEPT !.op = op, !.pc = pc]
  BY DEF Enter
<1>2. frame'.op = op /\ frame'.pc = pc /\ frame'.r0 = locals.r0 /\ frame'.r1 = locals.r1
  BY <1>1 DEF Frames
<1>3. frame' # Idle
  BY <1>2 DEF Idle
<1>4. /\ saved'.unlocked = 1 /\ saved'.reserves = reserves /\ saved'.tok = tok
  BY <1>1 DEF Checkpoint
<1>5. LockInv'
  BY <1>1, <1>3, <1>4 DEF LockInv, LockMatchesCall
<1>6. ASSUME SmallSupply PROVE BackedInv'
  <2>1. reserves.hi <= Held0 /\ reserves.mid <= Held1
    BY <1>1, <1>6 DEF IInv, BackedInv, ReservesBacked, Held0, Held1
  <2>2. ReservesBacked'
    BY <1>3 DEF ReservesBacked
  <2>3. SavedBacked'
    BY <1>4, <2>1 DEF SavedBacked, Held0, Held1
  <2>4. FreshReads'
    BY <1>2 DEF FreshReads
  <2>5. SkimBacked'
    BY <1>1, <1>2, <2>1 DEF SkimBacked, Held0, Held1, GetReserve1
  <2>6. QED BY <2>2, <2>3, <2>4, <2>5 DEF BackedInv
<1>7. QED BY <1>5, <1>6

LEMMA BeginInv ==
  ASSUME IInv, Begin
  PROVE  LockInv' /\ (SmallSupply => BackedInv')
<1> USE Accounts
<1>1. TypeOK
  BY DEF IInv
<1>2. GetReserve0(reserves) \in U /\ GetReserve1(reserves) \in U
  BY <1>1, TypeParts, GetReservesType
<1>3. ASSUME NEW to \in Recipients, BeginMint(to) \/ BeginSkim(to)
      PROVE  LockInv' /\ (SmallSupply => BackedInv')
  <2> DEFINE locals == [Idle EXCEPT !.to = to, !.r0 = GetReserve0(reserves),
                                    !.r1 = GetReserve1(reserves)]
  <2>1. locals \in Frames
    BY <1>2, IdleType DEF Frames
  <2>2. locals.r0 = reserves.hi /\ locals.r1 = GetReserve1(reserves)
    BY DEF Idle, GetReserve0
  <2>3. Enter("mint", "bal0", locals) \/ Enter("skim", "bal0", locals)
    BY <1>3 DEF BeginMint, BeginSkim
  <2> HIDE DEF locals
  <2>4. QED BY <2>1, <2>2, <2>3, EnterInv
<1>4. ASSUME NEW to \in Recipients, BeginBurn(to)
      PROVE  LockInv' /\ (SmallSupply => BackedInv')
  <2> DEFINE locals == [Idle EXCEPT !.to = to, !.liq = balanceOf[Self], !.ts = totalSupply]
  <2>1. balanceOf[Self] \in U /\ totalSupply \in U
    BY <1>1, TypeParts
  <2>2. locals \in Frames
    BY <2>1, IdleType DEF Frames
  <2>3. Enter("burn", "bal0", locals)
    BY <1>4 DEF BeginBurn
  <2> HIDE DEF locals
  <2>4. QED BY <2>2, <2>3, EnterInv
<1>5. ASSUME NEW out0 \in SwapOuts, NEW out1 \in SwapOuts, NEW to \in Recipients,
             BeginSwap(out0, out1, to)
      PROVE  LockInv' /\ (SmallSupply => BackedInv')
  <2> DEFINE locals == [Idle EXCEPT !.to = to, !.r0 = GetReserve0(reserves),
                          !.r1 = GetReserve1(reserves), !.x0 = out0, !.x1 = out1]
  <2>1. out0 \in U /\ out1 \in U
    BY PairAssumption
  <2>2. locals \in Frames
    BY <1>2, <2>1, IdleType DEF Frames
  <2>3. Enter("swap", "pay0", locals)
    BY <1>5 DEF BeginSwap
  <2> HIDE DEF locals
  <2>4. QED BY <2>2, <2>3, EnterInv
<1>6. BeginSync => LockInv' /\ (SmallSupply => BackedInv')
  BY IdleType, EnterInv DEF BeginSync
<1>7. QED BY <1>3, <1>4, <1>5, <1>6 DEF Begin

\* Inside a call only the frame and the tokens change, never the lock.
LEMMA InsideLock ==
  ASSUME IInv, frame # Idle, frame' # Idle, UNCHANGED <<unlocked, saved>>
  PROVE  LockInv'
  BY DEF IInv, LockInv, LockMatchesCall

LEMMA InsideSaved ==
  ASSUME SavedBacked, frame # Idle, frame' # Idle, UNCHANGED saved
  PROVE  SavedBacked' /\ ReservesBacked'
  BY DEF SavedBacked, ReservesBacked

LEMMA Read0Inv ==
  ASSUME IInv, ReadBalance0
  PROVE  LockInv' /\ (SmallSupply => BackedInv')
<1>1. TypeOK
  BY DEF IInv
<1>2. /\ frame.pc = "bal0" /\ tok' = tok /\ reserves' = reserves
      /\ UNCHANGED <<unlocked, saved>>
  BY DEF ReadBalance0, storage
<1>3. /\ frame'.op = frame.op /\ frame'.pc = "bal1" /\ frame'.b0 = Held0
      /\ frame'.r0 = frame.r0 /\ frame'.r1 = frame.r1
  BY <1>1, TypeParts DEF ReadBalance0, Frames, Held0
<1>4. frame # Idle /\ frame' # Idle
  BY <1>2, <1>3 DEF Idle
<1>5. LockInv'
  BY <1>2, <1>4, InsideLock
<1>6. ASSUME SmallSupply PROVE BackedInv'
  <2>1. SavedBacked /\ SkimBacked
    BY <1>6 DEF IInv, BackedInv
  <2>2. SavedBacked' /\ ReservesBacked'
    BY <1>2, <1>4, <2>1, InsideSaved
  <2>3. Held0' = Held0 /\ Held1' = Held1 /\ Held0 \in Nat
    BY <1>1, <1>2, HeldTypes DEF Held0, Held1
  <2>4. FreshReads'
    BY <1>3, <2>3 DEF FreshReads
  <2>5. SkimBacked'
    BY <1>2, <1>3, <1>4, <2>1, <2>3 DEF SkimBacked, GetReserve1
  <2>6. QED BY <2>2, <2>4, <2>5 DEF BackedInv
<1>7. QED BY <1>5, <1>6

LEMMA Read1Inv ==
  ASSUME IInv, ReadBalance1
  PROVE  LockInv' /\ (SmallSupply => BackedInv')
<1>1. TypeOK
  BY DEF IInv
<1>2. /\ frame.pc = "bal1" /\ tok' = tok /\ reserves' = reserves
      /\ UNCHANGED <<unlocked, saved>>
  BY DEF ReadBalance1, storage
<1>3. /\ frame'.op = frame.op /\ frame'.b1 = Held1 /\ frame'.b0 = frame.b0
      /\ frame'.r0 = frame.r0 /\ frame'.r1 = frame.r1
      /\ frame'.pc \in {"settle", "end"}
  BY <1>1, TypeParts DEF ReadBalance1, Frames, Held1
<1>4. frame # Idle /\ frame' # Idle
  BY <1>2, <1>3 DEF Idle
<1>5. LockInv'
  BY <1>2, <1>4, InsideLock
<1>6. ASSUME SmallSupply PROVE BackedInv'
  <2>1. SavedBacked /\ SkimBacked /\ FreshReads
    BY <1>6 DEF IInv, BackedInv
  <2>2. SavedBacked' /\ ReservesBacked'
    BY <1>2, <1>4, <2>1, InsideSaved
  <2>3. Held0' = Held0 /\ Held1' = Held1 /\ Held1 \in Nat
    BY <1>1, <1>2, HeldTypes DEF Held0, Held1
  <2>4. FreshReads'
    BY <1>2, <1>3, <1>4, <2>1, <2>3 DEF FreshReads
  <2>5. SkimBacked'
    BY <1>2, <1>3, <1>4, <2>1, <2>3 DEF SkimBacked, GetReserve1
  <2>6. QED BY <2>2, <2>4, <2>5 DEF BackedInv
<1>7. QED BY <1>5, <1>6

\* burn moves the shares; it has read no balance that it will store yet.
LEMMA SettleBurnInv ==
  ASSUME IInv, SettleBurn
  PROVE  LockInv' /\ (SmallSupply => BackedInv')
<1>1. TypeOK
  BY DEF IInv
<1>2. frame.op = "burn" /\ frame.pc = "settle" /\ UNCHANGED <<unlocked, saved>>
  BY DEF SettleBurn, At
<1>3. frame'.op = "burn" /\ frame'.pc = "pay0"
  BY <1>1, <1>2, TypeParts DEF SettleBurn, Frames
<1>4. frame # Idle /\ frame' # Idle
  BY <1>2, <1>3 DEF Idle
<1>5. LockInv'
  BY <1>2, <1>4, InsideLock
<1>6. ASSUME SmallSupply PROVE BackedInv'
  <2>1. SavedBacked' /\ ReservesBacked'
    BY <1>2, <1>4, <1>6, InsideSaved DEF IInv, BackedInv
  <2>2. FreshReads' /\ SkimBacked'
    BY <1>3 DEF FreshReads, SkimBacked
  <2>3. QED BY <2>1, <2>2 DEF BackedInv
<1>7. QED BY <1>5, <1>6

\* skim computes what is above the reserves.  A wrapped surplus is larger than
\* any balance, since the reserves it was taken from are below 2^128.
LEMMA SettleSkimInv ==
  ASSUME IInv, SettleSkim
  PROVE  LockInv' /\ (SmallSupply => BackedInv')
<1>1. TypeOK
  BY DEF IInv
<1>2. /\ frame.op = "skim" /\ frame.pc = "settle" /\ tok' = tok /\ reserves' = reserves
      /\ UNCHANGED <<unlocked, saved>>
  BY DEF SettleSkim, At, storage
<1>3. /\ frame'.op = "skim" /\ frame'.pc = "pay0"
      /\ frame'.r0 = frame.r0 /\ frame'.r1 = frame.r1
      /\ frame'.x0 = WSub(frame.b0, frame.r0) /\ frame'.x1 = WSub(frame.b1, frame.r1)
  BY <1>1, <1>2, TypeParts DEF SettleSkim, Surplus, Frames
<1>4. frame # Idle /\ frame' # Idle
  BY <1>2, <1>3 DEF Idle
<1>5. LockInv'
  BY <1>2, <1>4, InsideLock
<1>6. ASSUME SmallSupply PROVE BackedInv'
  <2>1. SavedBacked /\ SkimBacked
    BY <1>6 DEF IInv, BackedInv
  <2>2. SavedBacked' /\ ReservesBacked'
    BY <1>2, <1>4, <2>1, InsideSaved
  <2>3. /\ Held0 \in Nat /\ Held1 \in Nat /\ Held0' = Held0 /\ Held1' = Held1
        /\ frame.b0 \in U /\ frame.b1 \in U /\ frame.r0 \in U /\ frame.r1 \in U
        /\ frame.b0 \in Nat /\ frame.b1 \in Nat /\ frame.r0 \in Nat /\ frame.r1 \in Nat
    BY <1>1, <1>2, HeldTypes DEF Held0, Held1, U
  <2>4. /\ frame.r0 <= frame.b0 /\ frame.b0 <= Held0 /\ frame.b1 <= Held1
        /\ reserves.hi <= Held0 /\ reserves.mid <= Held1
        /\ frame.r0 = reserves.hi /\ frame.r1 = GetReserve1(reserves)
    BY <1>2, <1>4, <2>1 DEF SkimBacked
  <2>5. frame'.x0 = frame.b0 - frame.r0
    BY <1>3, <2>3, <2>4, SubCases
  <2>6. frame'.r0 + frame'.x0 <= Held0
    BY <1>3, <2>3, <2>4, <2>5
  <2>7. frame'.r1 + frame'.x1 <= Held1 \/ frame'.x1 > TokenMax
    <3>1. CASE frame.r1 <= frame.b1
      <4>1. frame'.x1 = frame.b1 - frame.r1
        BY <1>3, <2>3, <3>1, SubCases
      <4>2. QED BY <1>3, <2>3, <2>4, <4>1
    <3>2. CASE ~(frame.r1 <= frame.b1)
      <4>1. frame'.x1 = frame.b1 - frame.r1 + Word
        BY <1>3, <2>3, <3>2, SubCases
      <4>2. frame.r1 < U128
        BY <1>1, <2>4, TypeParts, GetReservesType
      <4>3. TokenMax + U128 < Word
        BY <1>6 DEF SmallSupply
      <4>4. QED BY <2>3, <4>1, <4>2, <4>3, Numbers
    <3>3. QED BY <3>1, <3>2
  <2>8. SkimBacked'
    BY <1>2, <1>3, <2>3, <2>4, <2>6, <2>7 DEF SkimBacked, GetReserve1
  <2>9. FreshReads'
    BY <1>3 DEF FreshReads
  <2>10. QED BY <2>2, <2>8, <2>9 DEF BackedInv
<1>7. QED BY <1>5, <1>6

\* What the pair holds after a payment is a number.
LEMMA PayHeld ==
  ASSUME TypeOK, Pay0 \/ Pay1
  PROVE  Held0' \in Nat /\ Held1' \in Nat
<1>1. frame.x0 \in U /\ frame.x1 \in U
  BY TypeParts DEF Frames
<1>2. tok' \in [Tokens -> [Addr -> 0 .. TokenMax]]
  BY <1>1, Accounts, PayType DEF Pay0, Pay1
<1>3. QED BY <1>2, Accounts, Numbers DEF Held0, Held1

\* get_reserves never returns less of token1 than what is stored.
LEMMA GetReserve1Above ==
  ASSUME NEW w \in ReserveWords
  PROVE  GetReserve1(w) >= w.mid
<1>1. w.hi \in Nat /\ w.mid \in Nat
  BY Numbers DEF ReserveWords
<1>2. w.hi % Spill \in Nat
  BY <1>1, Numbers
<1>3. (w.hi % Spill) * R112 \in Nat
  BY <1>2, Numbers
<1>4. QED BY <1>1, <1>3 DEF GetReserve1

LEMMA Pay0Inv ==
  ASSUME IInv, Pay0
  PROVE  LockInv' /\ (SmallSupply => BackedInv')
<1>1. TypeOK
  BY DEF IInv
<1>2. /\ frame.pc = "pay0" /\ reserves' = reserves /\ UNCHANGED <<unlocked, saved>>
  BY DEF Pay0, storage
<1>3. /\ frame'.op = frame.op /\ frame'.pc = "pay1"
      /\ frame'.r0 = frame.r0 /\ frame'.r1 = frame.r1
      /\ frame'.x0 = frame.x0 /\ frame'.x1 = frame.x1
  BY <1>1, TypeParts DEF Pay0, Frames
<1>4. frame # Idle /\ frame' # Idle
  BY <1>2, <1>3 DEF Idle
<1>5. LockInv'
  BY <1>2, <1>4, InsideLock
<1>6. Held0' >= Held0 - frame.x0 /\ Held1' = Held1
  BY <1>1, HeldTypes, PayType, Accounts DEF Pay0, Held0, Held1
<1>7. ASSUME SmallSupply PROVE BackedInv'
  <2>1. SavedBacked /\ SkimBacked
    BY <1>7 DEF IInv, BackedInv
  <2>2. SavedBacked' /\ ReservesBacked'
    BY <1>2, <1>4, <2>1, InsideSaved
  <2>3. FreshReads'
    BY <1>3 DEF FreshReads
  <2>4. ASSUME frame.op = "skim" PROVE reserves.hi <= Held0'
    <3>1. reserves.hi + frame.x0 <= Held0
      BY <1>2, <1>4, <2>1, <2>4 DEF SkimBacked
    <3>2. Held0' \in Nat
      BY <1>1, PayHeld
    <3>3. QED BY <1>1, <1>6, <3>1, <3>2, HeldTypes DEF U
  <2>5. SkimBacked'
    BY <1>2, <1>3, <1>4, <1>6, <2>1, <2>4 DEF SkimBacked, GetReserve1
  <2>6. QED BY <2>2, <2>3, <2>5 DEF BackedInv
<1>8. QED BY <1>5, <1>7

\* A payment larger than any balance is not made.
LEMMA PayWithin ==
  ASSUME TypeOK, NEW t \in Tokens, NEW v \in U, Pay(t, v), frame.op = "skim", tok' # tok
  PROVE  v <= TokenMax
<1>1. tok[t][Self] \in Nat /\ tok[t][Self] <= TokenMax
  BY TypeParts, Accounts, Numbers
<1>2. tok[t][Self] >= v
  BY DEF Pay, SafeTransfer, CanMove
<1>3. QED BY <1>1, <1>2, Numbers DEF U

LEMMA Pay1Inv ==
  ASSUME IInv, Pay1
  PROVE  LockInv' /\ (SmallSupply => BackedInv')
<1>1. TypeOK
  BY DEF IInv
<1>2. /\ frame.pc = "pay1" /\ reserves' = reserves /\ UNCHANGED <<unlocked, saved>>
  BY DEF Pay1, storage
<1>3. /\ frame'.op = frame.op /\ frame'.r0 = frame.r0 /\ frame'.r1 = frame.r1
      /\ frame'.pc = IF frame.op = "skim" THEN "end" ELSE "bal0"
  BY <1>1, TypeParts DEF Pay1, Frames
<1>4. frame # Idle /\ frame' # Idle
  BY <1>2, <1>3 DEF Idle
<1>5. LockInv'
  BY <1>2, <1>4, InsideLock
<1>6. Held1' >= Held1 - frame.x1 /\ Held0' = Held0
  BY <1>1, HeldTypes, PayType, Accounts DEF Pay1, Held0, Held1
<1>7. ASSUME SmallSupply PROVE BackedInv'
  <2>1. SavedBacked /\ SkimBacked
    BY <1>7 DEF IInv, BackedInv
  <2>2. SavedBacked' /\ ReservesBacked'
    BY <1>2, <1>4, <2>1, InsideSaved
  <2>3. FreshReads'
    BY <1>3 DEF FreshReads
  <2>4. ASSUME frame.op = "skim" PROVE reserves.mid <= Held1'
    <3>1. frame.r1 + frame.x1 <= Held1 \/ frame.x1 > TokenMax
      BY <1>2, <1>4, <2>1, <2>4 DEF SkimBacked
    <3>2. CASE tok' = tok
      <4>1. reserves.mid <= Held1
        BY <1>2, <1>4, <2>1, <2>4 DEF SkimBacked
      <4> QED
        BY <3>2, <4>1 DEF Held1
    <3>3. ASSUME tok' # tok PROVE frame.r1 + frame.x1 <= Held1
      <4>1. frame.x1 <= TokenMax /\ frame.x1 \in U
        BY <1>1, <2>4, <3>3, HeldTypes, PayWithin, Accounts DEF Pay1
      <4> QED
        BY <3>1, <4>1, Numbers DEF U
    <3>4. frame.r1 >= reserves.mid
      <4>1. frame.r1 = GetReserve1(reserves)
        BY <1>4, <2>1, <2>4 DEF SkimBacked
      <4>2. reserves \in ReserveWords
        BY <1>1, TypeParts
      <4>3. QED BY <4>1, <4>2, GetReserve1Above
    <3>5. Held1' \in Nat
      BY <1>1, PayHeld
    <3>6. QED BY <1>1, <1>6, <3>2, <3>3, <3>4, <3>5, HeldTypes DEF U
  <2>5. SkimBacked'
    BY <1>2, <1>3, <1>4, <1>6, <2>1, <2>4 DEF SkimBacked, GetReserve1
  <2>6. QED BY <2>2, <2>3, <2>5 DEF BackedInv
<1>8. QED BY <1>5, <1>7

\* A call that returns leaves nothing of the invariant but the reserves.
LEMMA FinishInv ==
  ASSUME frame' = Idle, unlocked' = 1,
         SmallSupply => reserves'.hi <= Held0' /\ reserves'.mid <= Held1'
  PROVE  LockInv' /\ (SmallSupply => BackedInv')
<1>1. LockInv'
  BY DEF LockInv, LockMatchesCall
<1>2. ASSUME SmallSupply PROVE BackedInv'
  <2>1. ReservesBacked'
    BY <1>2 DEF ReservesBacked, Held0, Held1
  <2>2. SavedBacked' /\ FreshReads' /\ SkimBacked'
    BY DEF SavedBacked, FreshReads, SkimBacked
  <2>3. QED BY <2>1, <2>2 DEF BackedInv
<1>3. QED BY <1>1, <1>2

LEMMA EndInv ==
  ASSUME IInv, MintFirst \/ MintMore \/ EndBurn \/ EndSwap \/ EndSkim \/ EndSync
  PROVE  LockInv' /\ (SmallSupply => BackedInv')
<1>1. TypeOK
  BY DEF IInv
<1>2. frame.pc = "end" /\ tok' = tok /\ frame' = Idle /\ unlocked' = 1
  BY DEF MintFirst, MintMore, EndBurn, EndSwap, EndSkim, EndSync, At, Finish
<1>3. frame # Idle
  BY <1>2 DEF Idle
<1>4. Held0' = Held0 /\ Held1' = Held1
  BY <1>2 DEF Held0, Held1
<1>5. CASE EndSkim
  <2>1. frame.op = "skim" /\ reserves' = reserves
    BY <1>5 DEF EndSkim, At
  <2>2. SmallSupply => reserves.hi <= Held0 /\ reserves.mid <= Held1
    BY <1>3, <2>1 DEF IInv, BackedInv, SkimBacked
  <2>3. QED BY <1>2, <1>4, <2>1, <2>2, FinishInv
<1>6. CASE ~EndSkim
  <2>1. frame.op # "skim" /\ StoreReserves(frame.b0, frame.b1)
    BY <1>6 DEF MintFirst, MintMore, EndBurn, EndSwap, EndSync, At
  <2>2. ASSUME SmallSupply PROVE reserves'.hi <= Held0' /\ reserves'.mid <= Held1'
    <3>1. frame.b0 <= Held0 /\ frame.b1 <= Held1
      BY <1>2, <1>3, <2>1, <2>2 DEF IInv, BackedInv, FreshReads
    <3>2. frame.b0 \in Nat /\ frame.b1 \in Nat /\ frame.b0 < R112 /\ frame.b1 < R112
      BY <1>1, <2>2, <3>1, HeldTypes, Numbers DEF SmallSupply, U
    <3>3. reserves' = [hi |-> frame.b0, mid |-> frame.b1]
      BY <2>1, <3>2, SetReservesType DEF StoreReserves
    <3>4. QED BY <1>4, <3>1, <3>3
  <2>3. QED BY <1>2, <2>2, FinishInv
<1>7. QED BY <1>5, <1>6

LEMMA RevertInv ==
  ASSUME IInv, Revert
  PROVE  LockInv' /\ (SmallSupply => BackedInv')
<1>1. /\ frame # Idle /\ frame' = Idle /\ unlocked' = saved.unlocked
      /\ reserves' = saved.reserves /\ tok' = saved.tok
  BY DEF Revert
<1>2. unlocked' = 1
  BY <1>1 DEF IInv, LockInv
<1>3. SmallSupply => reserves'.hi <= Held0' /\ reserves'.mid <= Held1'
  BY <1>1 DEF IInv, BackedInv, SavedBacked, Held0, Held1
<1>4. QED BY <1>1, <1>2, <1>3, FinishInv

\* Steps of others: the pair and its frame stay, what it holds may grow.
LEMMA OutsideInv ==
  ASSUME IInv, UNCHANGED <<reserves, unlocked, frame, saved>>,
         Held0' \in Nat, Held1' \in Nat, Held0' >= Held0, Held1' >= Held1
  PROVE  LockInv' /\ (SmallSupply => BackedInv')
<1>1. TypeOK
  BY DEF IInv
<1>2. LockInv'
  BY DEF IInv, LockInv, LockMatchesCall
<1>3. ASSUME SmallSupply PROVE BackedInv'
  <2>1. ReservesBacked /\ SavedBacked /\ FreshReads /\ SkimBacked
    BY <1>3 DEF IInv, BackedInv
  <2>2. /\ Held0 \in Nat /\ Held1 \in Nat /\ reserves.hi \in Nat /\ reserves.mid \in Nat
        /\ frame.b0 \in Nat /\ frame.b1 \in Nat /\ frame.r0 \in Nat /\ frame.r1 \in Nat
        /\ frame.x0 \in Nat /\ frame.x1 \in Nat
    BY <1>1, HeldTypes DEF U
  <2>3. ReservesBacked'
    BY <2>1, <2>2 DEF ReservesBacked, Held0, Held1
  <2>4. SavedBacked'
    BY <2>1 DEF SavedBacked
  <2>5. FreshReads'
    BY <2>1, <2>2 DEF FreshReads
  <2>6. SkimBacked'
    BY <2>1, <2>2 DEF SkimBacked, GetReserve1
  <2>7. QED BY <2>3, <2>4, <2>5, <2>6 DEF BackedInv
<1>4. QED BY <1>2, <1>3

LEMMA InitInv == Init => IInv
<1> SUFFICES ASSUME Init PROVE IInv
  OBVIOUS
<1>1. TypeOK
  BY InitType
<1>2. frame = Idle /\ unlocked = 1 /\ reserves.hi = 0 /\ reserves.mid = 0
  BY DEF Init
<1>3. ReservesBacked
  BY <1>1, <1>2, HeldTypes DEF ReservesBacked, Held0, Held1
<1>4. QED BY <1>1, <1>2, <1>3 DEF IInv, LockInv, LockMatchesCall, BackedInv,
       SavedBacked, FreshReads, SkimBacked

LEMMA NextInv == IInv /\ [Next]_vars => IInv'
<1> SUFFICES ASSUME IInv, [Next]_vars PROVE IInv'
  OBVIOUS
<1>1. TypeOK /\ TypeOK'
  BY NextType DEF IInv
<1>2. Held0 \in Nat /\ Held1 \in Nat
  BY <1>1, HeldTypes
<1>3. LockInv' /\ (SmallSupply => BackedInv')
  <2>1. CASE UNCHANGED vars
    BY <1>2, <2>1, OutsideInv DEF vars, Held0, Held1
  <2>2. CASE Begin
    BY <2>2, BeginInv
  <2>3. CASE CallStep
    BY <2>3, Read0Inv, Read1Inv, SettleBurnInv, SettleSkimInv, Pay0Inv, Pay1Inv,
       EndInv, RevertInv DEF CallStep
  <2>4. CASE LPStep
    <3>1. UNCHANGED <<reserves, unlocked, tok, frame, saved>>
      BY <2>4 DEF LPStep, Approve, Transfer, TransferFrom
    <3>2. QED BY <1>2, <3>1, OutsideInv DEF Held0, Held1
  <2>5. CASE Environment
    <3>1. UNCHANGED <<reserves, unlocked, frame, saved>>
      BY <2>5 DEF Environment, TokenTransfer, storage
    <3>2. Held0' >= Held0 /\ Held1' >= Held1
      BY <1>1, <2>5, EnvironmentType DEF Held0, Held1
    <3>3. Held0' \in Nat /\ Held1' \in Nat
      <4>1. tok' \in [Tokens -> [Addr -> 0 .. TokenMax]]
        BY <1>1 DEF TypeOK, Checkpoint, Checkpoints
      <4>2. QED BY <4>1, Accounts, Numbers DEF Held0, Held1
    <3>4. QED BY <3>1, <3>2, <3>3, OutsideInv
  <2>6. QED BY <2>1, <2>2, <2>3, <2>4, <2>5 DEF Next
<1>4. QED BY <1>1, <1>3 DEF IInv

LEMMA InvariantHolds == Spec => []IInv
  BY InitInv, NextInv, PTL DEF Spec

-----------------------------------------------------------------------------
\* The lock is held exactly while a call is in progress, whatever way the call
\* ends (pair.rs:167-176 and every set_unlocked).
THEOREM LockCorrect == Spec => []LockMatchesCall
<1>1. IInv => LockMatchesCall
  BY DEF IInv, LockInv
<1>2. QED BY <1>1, InvariantHolds, PTL

\* Whenever no call is in progress, the pair holds at least the reserves it
\* has recorded, for every token supply that neither field overflows
\* (pair.rs:294-488).
THEOREM ReservesAlwaysBacked == Spec => []ReservesBacked
<1>1. IInv => ReservesBacked
  BY DEF IInv, BackedInv, ReservesBacked
<1>2. QED BY <1>1, InvariantHolds, PTL

=============================================================================
