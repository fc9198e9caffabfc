-------------------------- MODULE PairValueProofs ---------------------------
(***************************************************************************)
(* What the operations of the pair may do to the value it holds: swap to   *)
(* the product of the reserves, mint and burn to the worth of a share,     *)
(* transferFrom to an allowance.                                           *)
(***************************************************************************)
EXTENDS PairProofs, PairAllowance, PairLedger, FiniteSetTheorems

-----------------------------------------------------------------------------
(***************************************************************************)
(* A swap never lowers the product of the reserves.  The K check compares  *)
(* products of locals that were read before and after two external calls,  *)
(* with wrapping arithmetic; the proof shows which of the products cannot  *)
(* wrap and that the locals are those of the checkpoint.                   *)
(***************************************************************************)

\* The locals of a swap: the reserves of the checkpoint and outputs below them.
SwapLocals ==
  frame # Idle /\ frame.op = "swap" =>
    /\ frame.r0 = saved.reserves.hi
    /\ frame.r1 = GetReserve1(saved.reserves)
    /\ frame.x0 < frame.r0 /\ frame.x1 < frame.r1

SwapInv == IInv /\ SwapLocals

-----------------------------------------------------------------------------
LEMMA MulMono ==
  ASSUME NEW a \in Nat, NEW b \in Nat, NEW c \in Nat, NEW d \in Nat, a <= c, b <= d
  PROVE  a * b <= c * d
<1>1. a * b <= c * b /\ c * b <= c * d
  OBVIOUS
<1>2. a * b \in Nat /\ c * b \in Nat /\ c * d \in Nat
  OBVIOUS
<1>3. QED BY <1>1, <1>2

LEMMA WrapBelow ==
  ASSUME NEW n \in Nat
  PROVE  n % Word \in Nat /\ n % Word <= n
  BY WordAssumption

\* What AmountIn returns when the output is below the reserve.
LEMMA AmountInBounds ==
  ASSUME NEW b \in U, NEW r \in U, NEW out \in U, out < r
  PROVE  AmountIn(b, r, out) \in Nat /\ AmountIn(b, r, out) <= b
<1>1. b \in Nat /\ r \in Nat /\ out \in Nat /\ b < Word
  BY WordAssumption DEF U
<1>2. WSub(r, out) = r - out
  BY <1>1, SubCases
<1>3. r - out \in U
  BY <1>1, WordAssumption DEF U
<1>4. b > r - out => WSub(b, r - out) = b - (r - out)
  BY <1>1, <1>3, SubCases
<1>5. QED BY <1>1, <1>2, <1>4 DEF AmountIn

\* An adjusted balance is at most the balance times the denominator.
LEMMA AdjustedBounds ==
  ASSUME NEW b \in Nat, NEW in \in Nat, in <= b, b * FeeDen < Word
  PROVE  Adjusted(b, in) \in Nat /\ Adjusted(b, in) <= b * FeeDen
<1>1. FeeNum \in Nat /\ FeeDen \in Nat /\ FeeNum <= FeeDen
  BY PairAssumption
<1>2. in * FeeNum <= b * FeeDen
  BY <1>1, MulMono
<1>3. b * FeeDen \in Nat /\ in * FeeNum \in Nat
  BY <1>1
<1>4. b * FeeDen \in U /\ in * FeeNum \in U
  BY <1>2, <1>3, WordAssumption DEF U
<1>5. WMul(b, FeeDen) = b * FeeDen /\ WMul(in, FeeNum) = in * FeeNum
  BY <1>4, WordFixed DEF WMul
<1>6. WSub(b * FeeDen, in * FeeNum) = b * FeeDen - in * FeeNum
  BY <1>2, <1>4, SubCases
<1>7. Adjusted(b, in) = b * FeeDen - in * FeeNum
  BY <1>5, <1>6 DEF Adjusted
<1>8. QED BY <1>2, <1>3, <1>7

\* With small supplies a balance scaled by the denominator stays a word, and
\* so does the scaled product of the reserves.
LEMMA ScaledFits ==
  ASSUME SmallSupply, NEW a \in Nat, a <= TokenMax, NEW r \in Nat, r < U128, TokenMax > 0
  PROVE  a * FeeDen < Word /\ ((a * r) * FeeDen) * FeeDen < Word
<1>1. /\ TokenMax \in Nat /\ FeeDen \in Nat \ {0} /\ U128 \in Nat /\ Word \in Nat
      /\ TokenMax < U128 /\ TokenMax * U128 * FeeDen * FeeDen <= Word
  BY Numbers, PairAssumption DEF SmallSupply
<1> DEFINE D == FeeDen * FeeDen
           m == U128 - 1
<1>2. D \in Nat /\ D >= FeeDen /\ m \in Nat /\ m >= 1 /\ r <= m
  <2>1. FeeDen * 1 <= FeeDen * FeeDen
    BY <1>1
  <2>2. QED BY <1>1, <2>1
<1>3. TokenMax * U128 * FeeDen * FeeDen = (TokenMax * U128) * D
  BY <1>1
<1>4. (TokenMax * U128) * D = (TokenMax * m) * D + TokenMax * D
  BY <1>1, <1>2
<1>5. TokenMax * D >= 1
  <2>1. 1 * 1 <= TokenMax * D
    BY <1>1, <1>2, MulMono
  <2>2. QED BY <2>1
<1>6. (TokenMax * m) * D \in Nat /\ TokenMax * D \in Nat
  BY <1>1, <1>2
<1>7. (TokenMax * m) * D < Word
  BY <1>1, <1>3, <1>4, <1>5, <1>6
<1> HIDE DEF D, m
<1>8. (a * r) * D <= (TokenMax * m) * D
  <2>1. a * r <= TokenMax * m
    BY <1>1, <1>2, MulMono
  <2>2. a * r \in Nat /\ TokenMax * m \in Nat
    BY <1>1, <1>2
  <2>3. QED BY <1>2, <2>1, <2>2, MulMono
<1>9. a * FeeDen <= (TokenMax * m) * D
  <2>1. a * 1 <= TokenMax * m
    BY <1>1, <1>2, MulMono
  <2>2. a <= TokenMax * m /\ TokenMax * m \in Nat
    BY <1>1, <1>2, <2>1
  <2>3. QED BY <1>1, <1>2, <2>2, MulMono
<1>10. ((a * r) * FeeDen) * FeeDen = (a * r) * D
  BY <1>1 DEF D
<1>11. a * FeeDen \in Nat /\ (a * r) * D \in Nat
  BY <1>1, <1>2
<1>12. QED BY <1>1, <1>6, <1>7, <1>8, <1>9, <1>10, <1>11

\* The K check is sound: if it passes, the new product is at least the old one.
LEMMA KSound ==
  ASSUME SmallSupply, NEW f \in Frames, KHolds(f),
         f.b0 <= TokenMax, f.b1 <= TokenMax, f.r0 <= TokenMax, f.r1 < U128,
         f.x0 < f.r0, f.x1 < f.r1
  PROVE  f.b0 * f.b1 >= f.r0 * f.r1
<1> DEFINE in0 == AmountIn(f.b0, f.r0, f.x0)
           in1 == AmountIn(f.b1, f.r1, f.x1)
           adj0 == Adjusted(f.b0, in0)
           adj1 == Adjusted(f.b1, in1)
           D == FeeDen * FeeDen
           p == f.r0 * f.r1
           q == f.b0 * f.b1
<1>1. /\ f.b0 \in U /\ f.b1 \in U /\ f.r0 \in U /\ f.r1 \in U /\ f.x0 \in U /\ f.x1 \in U
      /\ f.b0 \in Nat /\ f.b1 \in Nat /\ f.r0 \in Nat /\ f.r1 \in Nat
      /\ f.x0 \in Nat /\ f.x1 \in Nat
  BY DEF Frames, U
<1>2. TokenMax \in Nat /\ TokenMax > 0 /\ FeeDen \in Nat \ {0} /\ TokenMax < U128 /\ 0 < U128
  BY <1>1, Numbers, PairAssumption DEF SmallSupply
<1>3. in0 \in Nat /\ in0 <= f.b0 /\ in1 \in Nat /\ in1 <= f.b1
  BY <1>1, AmountInBounds
<1>4. f.b0 * FeeDen < Word /\ f.b1 * FeeDen < Word
  <2>1. f.b0 * FeeDen < Word
    BY <1>1, <1>2, ScaledFits
  <2>2. f.b1 * FeeDen < Word
    BY <1>1, <1>2, ScaledFits
  <2>3. QED BY <2>1, <2>2
<1> HIDE DEF in0, in1
<1>5. adj0 \in Nat /\ adj0 <= f.b0 * FeeDen /\ adj1 \in Nat /\ adj1 <= f.b1 * FeeDen
  BY <1>1, <1>3, <1>4, AdjustedBounds
<1>6. KHolds(f) = (WMul(adj0, adj1) >= WMul(WMul(WMul(f.r0, f.r1), FeeDen), FeeDen))
  BY DEF KHolds, adj0, adj1, in0, in1
<1> HIDE DEF adj0, adj1
<1>7. WMul(adj0, adj1) <= q * D /\ WMul(adj0, adj1) \in Nat
  <2>1. adj0 * adj1 \in Nat
    BY <1>5
  <2>2. WMul(adj0, adj1) \in Nat /\ WMul(adj0, adj1) <= adj0 * adj1
    BY <2>1, WrapBelow DEF WMul
  <2>3. f.b0 * FeeDen \in Nat /\ f.b1 * FeeDen \in Nat
    BY <1>1, <1>2
  <2>4. adj0 * adj1 <= (f.b0 * FeeDen) * (f.b1 * FeeDen)
    BY <1>5, <2>3, MulMono
  <2>5. (f.b0 * FeeDen) * (f.b1 * FeeDen) = q * D
    BY <1>1, <1>2
  <2>6. (f.b0 * FeeDen) * (f.b1 * FeeDen) \in Nat
    BY <2>3
  <2>7. QED BY <2>1, <2>2, <2>4, <2>5, <2>6
<1>8. WMul(WMul(WMul(f.r0, f.r1), FeeDen), FeeDen) = p * D
  <2>1. p \in Nat /\ p * FeeDen \in Nat /\ (p * FeeDen) * FeeDen \in Nat
    BY <1>1, <1>2
  <2>2. (p * FeeDen) * FeeDen < Word
    BY <1>1, <1>2, ScaledFits
  <2>3. p * 1 <= p * FeeDen /\ (p * FeeDen) * 1 <= (p * FeeDen) * FeeDen
    <3>1. p * 1 <= p * FeeDen
      BY <1>2, <2>1, MulMono
    <3>2. (p * FeeDen) * 1 <= (p * FeeDen) * FeeDen
      BY <1>2, <2>1, MulMono
    <3>3. QED BY <3>1, <3>2
  <2>4. p \in U /\ p * FeeDen \in U /\ (p * FeeDen) * FeeDen \in U
    BY <2>1, <2>2, <2>3, WordAssumption DEF U
  <2> DEFINE pd == p * FeeDen
  <2>5. WMul(f.r0, f.r1) = p
    BY <2>4, WordFixed DEF WMul
  <2>6. WMul(p, FeeDen) = pd
    BY <2>4, WordFixed DEF WMul
  <2>7. WMul(pd, FeeDen) = pd * FeeDen
    BY <2>4, WordFixed DEF WMul
  <2>8. pd * FeeDen = p * D
    BY <1>1, <1>2
  <2>9. QED BY <2>5, <2>6, <2>7, <2>8
<1>9. q * D >= p * D
  <2>1. WMul(adj0, adj1) >= p * D
    BY <1>6, <1>8
  <2>2. p * D \in Nat /\ q * D \in Nat
    BY <1>1, <1>2
  <2>3. QED BY <1>7, <2>1, <2>2
<1>10. D \in Nat /\ D >= 1
  <2>1. 1 * 1 <= FeeDen * FeeDen
    BY <1>2, MulMono
  <2>2. QED BY <1>2, <2>1
<1>11. p \in Nat /\ q \in Nat
  BY <1>1
<1> HIDE DEF D, p, q
<1>12. q >= p
  <2> SUFFICES ASSUME q + 1 <= p PROVE FALSE
    BY <1>11
  <2>1. (q + 1) * D <= p * D
    BY <1>10, <1>11, MulMono
  <2>2. (q + 1) * D = q * D + D /\ q * D \in Nat /\ p * D \in Nat
    BY <1>10, <1>11
  <2>3. QED BY <1>9, <1>10, <2>1, <2>2
<1>13. QED BY <1>12 DEF p, q

-----------------------------------------------------------------------------
\* The steps inside a call leave its checkpoint and its reserve locals alone,
\* and only settling changes the amounts to pay, which swap never does.
LEMMA InsideLocals ==
  ASSUME TypeOK, ReadBalance0 \/ ReadBalance1 \/ Pay0 \/ Pay1 \/ SettleBurn \/ SettleSkim
  PROVE  /\ frame # Idle /\ frame'.op = frame.op /\ saved' = saved
         /\ frame.op = "swap" => /\ frame'.r0 = frame.r0 /\ frame'.r1 = frame.r1
                                 /\ frame'.x0 = frame.x0 /\ frame'.x1 = frame.x1
<1>1. frame # Idle
  BY BusyFrame DEF ReadBalance0, ReadBalance1, Pay0, Pay1, SettleBurn, SettleSkim, At
<1>2. frame \in Frames
  BY TypeParts
<1>3. CASE ReadBalance0 \/ ReadBalance1
  BY <1>1, <1>2, <1>3 DEF ReadBalance0, ReadBalance1, Frames
<1>4. CASE Pay0 \/ Pay1
  BY <1>1, <1>2, <1>4 DEF Pay0, Pay1, Frames
<1>5. CASE SettleBurn
  BY <1>1, <1>2, <1>5 DEF SettleBurn, At, Frames
<1>6. CASE SettleSkim
  BY <1>1, <1>2, <1>6 DEF SettleSkim, At, Frames
<1>7. QED BY <1>3, <1>4, <1>5, <1>6

LEMMA InsideSwap ==
  ASSUME SwapInv, ReadBalance0 \/ ReadBalance1 \/ Pay0 \/ Pay1 \/ SettleBurn \/ SettleSkim
  PROVE  SwapLocals'
<1>1. TypeOK
  BY DEF SwapInv, IInv
<1>2. QED BY <1>1, InsideLocals DEF SwapInv, SwapLocals, GetReserve1

\* The guards of swap on entry.
LEMMA BeginSwapLocals ==
  ASSUME SwapInv, Begin
  PROVE  SwapLocals'
<1>1. TypeOK /\ reserves \in ReserveWords
  BY TypeParts DEF SwapInv, IInv
<1>2. ASSUME NEW op \in {"mint", "burn", "skim", "sync"}, NEW pc, NEW locals,
             Enter(op, pc, locals), locals \in Frames
      PROVE  SwapLocals'
  <2>1. frame'.op = op
    BY <1>2 DEF Enter, Frames
  <2>2. QED BY <2>1, <1>2 DEF SwapLocals
<1>3. GetReserve0(reserves) \in U /\ GetReserve1(reserves) \in U
  BY <1>1, GetReservesType
<1>4. ASSUME NEW to \in Recipients, BeginMint(to) \/ BeginSkim(to) \/ BeginBurn(to)
      PROVE  SwapLocals'
  <2>1. [Idle EXCEPT !.to = to, !.r0 = GetReserve0(reserves),
                     !.r1 = GetReserve1(reserves)] \in Frames
    BY <1>3, IdleType, Accounts DEF Frames
  <2>2. balanceOf[Self] \in U /\ totalSupply \in U
    BY <1>1, TypeParts, Accounts
  <2>3. [Idle EXCEPT !.to = to, !.liq = balanceOf[Self], !.ts = totalSupply] \in Frames
    BY <2>2, IdleType, Accounts DEF Frames
  <2>4. QED BY <1>2, <1>4, <2>1, <2>3 DEF BeginMint, BeginSkim, BeginBurn
<1>5. BeginSync => SwapLocals'
  BY <1>2, IdleType DEF BeginSync
<1>6. ASSUME NEW out0 \in SwapOuts, NEW out1 \in SwapOuts, NEW to \in Recipients,
             BeginSwap(out0, out1, to)
      PROVE  SwapLocals'
  <2> DEFINE locals == [Idle EXCEPT !.to = to, !.r0 = GetReserve0(reserves),
                          !.r1 = GetReserve1(reserves), !.x0 = out0, !.x1 = out1]
  <2>1. /\ locals.r0 = GetReserve0(reserves) /\ locals.r1 = GetReserve1(reserves)
        /\ locals.x0 = out0 /\ locals.x1 = out1
        /\ DOMAIN locals = DOMAIN Idle
    BY DEF Idle
  <2>2. frame' = [locals EXCEPT !.op = "swap", !.pc = "pay0"] /\ saved' = Checkpoint
    BY <1>6 DEF BeginSwap, Enter
  <2>3. out0 \in U /\ out1 \in U
    BY PairAssumption
  <2>4. locals \in Frames
    BY <1>3, <2>3, IdleType, Accounts DEF Frames
  <2> HIDE DEF locals
  <2>5. /\ frame'.r0 = GetReserve0(reserves) /\ frame'.r1 = GetReserve1(reserves)
        /\ frame'.x0 = out0 /\ frame'.x1 = out1
    BY <2>1, <2>2, <2>4 DEF Frames
  <2>6. saved'.reserves = reserves
    BY <2>2 DEF Checkpoint
  <2>7. out0 < GetReserve0(reserves) /\ out1 < GetReserve1(reserves)
    <3>1. ~(out0 >= GetReserve0(reserves)) /\ ~(out1 >= GetReserve1(reserves))
      BY <1>6 DEF BeginSwap
    <3>2. QED BY <3>1, <2>3, <1>3 DEF U
  <2>8. QED BY <2>5, <2>6, <2>7 DEF SwapLocals, GetReserve0, GetReserve1
<1>7. QED BY <1>4, <1>5, <1>6 DEF Begin

LEMMA SwapNext == SwapInv /\ [Next]_vars => SwapInv'
<1> SUFFICES ASSUME SwapInv, [Next]_vars PROVE SwapInv'
  OBVIOUS
<1>1. IInv'
  BY NextInv DEF SwapInv
<1>2. SwapLocals'
  <2>1. CASE Begin
    BY <2>1, BeginSwapLocals
  <2>2. CASE CallStep
    <3>1. CASE MintFirst \/ MintMore \/ EndBurn \/ EndSwap \/ EndSkim \/ EndSync \/ Revert
      <4>1. frame' = Idle
        BY <3>1 DEF MintFirst, MintMore, EndBurn, EndSwap, EndSkim, EndSync, Revert, Finish
      <4>2. QED BY <4>1 DEF SwapLocals
    <3>2. QED BY <2>2, <3>1, InsideSwap DEF CallStep
  <2>3. CASE LPStep \/ Environment \/ UNCHANGED vars
    <3>1. UNCHANGED <<frame, saved>>
      BY <2>3 DEF LPStep, Approve, Transfer, TransferFrom, Environment, TokenTransfer, vars
    <3>2. QED BY <3>1 DEF SwapInv, SwapLocals, GetReserve1
  <2>4. QED BY <2>1, <2>2, <2>3 DEF Next
<1>3. QED BY <1>1, <1>2 DEF SwapInv

\* The end of a swap.
LEMMA SwapCommit ==
  ASSUME SwapInv, SmallSupply, EndSwap
  PROVE  reserves'.hi * reserves'.mid >= saved.reserves.hi * saved.reserves.mid
<1>1. /\ TypeOK /\ frame.op = "swap" /\ frame.pc = "end" /\ KHolds(frame)
      /\ StoreReserves(frame.b0, frame.b1)
  BY DEF SwapInv, IInv, EndSwap, At
<1>2. frame # Idle /\ frame \in Frames /\ saved \in Checkpoints
  <2>1. frame # Idle
    BY <1>1 DEF Idle
  <2>2. QED BY <1>1, <2>1, TypeParts
<1>3. /\ frame.b0 <= Held0 /\ frame.b1 <= Held1
      /\ saved.reserves.hi <= saved.tok[T0][Self]
  BY <1>1, <1>2 DEF SwapInv, IInv, BackedInv, FreshReads, SavedBacked
<1>4. /\ frame.b0 \in Nat /\ frame.b1 \in Nat /\ frame.b0 <= TokenMax
      /\ frame.b1 <= TokenMax /\ frame.b0 < R112 /\ frame.b1 < R112
  BY <1>1, <1>3, HeldTypes, Numbers DEF SmallSupply, U
<1>5. saved.reserves \in ReserveWords /\ saved.tok[T0][Self] \in 0 .. TokenMax
  BY <1>2, Accounts DEF Checkpoints
<1>6. saved.reserves.hi \in Nat /\ saved.reserves.mid \in Nat
  BY <1>5, Numbers DEF ReserveWords
<1>7. /\ frame.r0 = saved.reserves.hi /\ frame.r1 = GetReserve1(saved.reserves)
      /\ frame.x0 < frame.r0 /\ frame.x1 < frame.r1
  BY <1>1, <1>2 DEF SwapInv, SwapLocals
<1>8. /\ frame.r0 <= TokenMax
      /\ frame.r1 < U128 /\ frame.r1 >= saved.reserves.mid /\ frame.r1 \in Nat
  <2>1. frame.r0 <= TokenMax
    BY <1>3, <1>5, <1>6, <1>7, Numbers
  <2>2. frame.r1 < U128 /\ frame.r1 >= saved.reserves.mid /\ frame.r1 \in U
    BY <1>5, <1>7, GetReservesType, GetReserve1Above
  <2>3. QED BY <2>1, <2>2 DEF U
<1>9. frame.b0 * frame.b1 >= frame.r0 * frame.r1
  BY <1>1, <1>2, <1>4, <1>7, <1>8, KSound
<1>10. frame.r0 * frame.r1 >= saved.reserves.hi * saved.reserves.mid
  BY <1>6, <1>7, <1>8, MulMono
<1>11. reserves' = [hi |-> frame.b0, mid |-> frame.b1]
  BY <1>1, <1>4, SetReservesType DEF StoreReserves
<1>12. /\ frame.b0 * frame.b1 \in Nat /\ frame.r0 * frame.r1 \in Nat
       /\ saved.reserves.hi * saved.reserves.mid \in Nat
       /\ reserves'.hi = frame.b0 /\ reserves'.mid = frame.b1
  BY <1>4, <1>6, <1>7, <1>8, <1>11
<1>13. QED BY <1>9, <1>10, <1>12

\* For every token supply that the words can hold, a swap never lowers the
\* product of the recorded reserves, whatever the tokens do between its steps
\* (pair.rs:378-444).
THEOREM SwapKeepsK == Spec => KNeverFalls
<1>1. Init => SwapInv
  BY InitInv DEF SwapInv, SwapLocals, Init
<1>2. SwapInv /\ [Next]_vars =>
        [SmallSupply /\ frame.op = "swap" /\ frame'.op = "idle" =>
           reserves'.hi * reserves'.mid >= saved.reserves.hi * saved.reserves.mid]_vars
  <2> SUFFICES ASSUME SwapInv, [Next]_vars, SmallSupply, frame.op = "swap",
                      frame'.op = "idle"
               PROVE  reserves'.hi * reserves'.mid
                        >= saved.reserves.hi * saved.reserves.mid
    OBVIOUS
  <2>1. TypeOK /\ frame # Idle
    BY DEF SwapInv, IInv, Idle
  <2>2. CASE EndSwap
    BY <2>2, SwapCommit
  <2>3. CASE Revert
    <3>1. reserves' = saved.reserves /\ saved.reserves \in ReserveWords
      BY <2>1, <2>3, TypeParts DEF Revert, Checkpoints
    <3>2. saved.reserves.hi \in Nat /\ saved.reserves.mid \in Nat
      BY <3>1, Numbers DEF ReserveWords
    <3>3. saved.reserves.hi * saved.reserves.mid \in Nat
      BY <3>2
    <3>4. QED BY <3>1, <3>3
  <2>4. ~(UNCHANGED vars) /\ ~LPStep /\ ~Environment
    BY DEF vars, LPStep, Approve, Transfer, TransferFrom, Environment, TokenTransfer
  <2>5. ~Begin
    BY <2>1 DEF Begin, BeginMint, BeginBurn, BeginSwap, BeginSkim, BeginSync, Enter
  <2>6. ~(ReadBalance0 \/ ReadBalance1 \/ Pay0 \/ Pay1 \/ SettleBurn \/ SettleSkim)
    BY <2>1, InsideLocals
  <2>7. ~(MintFirst \/ MintMore \/ EndBurn \/ EndSkim \/ EndSync)
    BY DEF MintFirst, MintMore, EndBurn, EndSkim, EndSync, At
  <2>8. QED BY <2>2, <2>3, <2>4, <2>5, <2>6, <2>7 DEF Next, CallStep
<1>3. QED BY <1>1, <1>2, SwapNext, PTL DEF Spec, KNeverFalls

-----------------------------------------------------------------------------
(***************************************************************************)
(* What a spender takes is within what the owner granted.  The strengthen- *)
(* ing says that no call in progress can undo an approval (the host lets   *)
(* nobody into the pair meanwhile, so the checkpoint has the allowances of *)
(* now), and that an allowance which is never used up was granted as such. *)
(***************************************************************************)
SavedAllowance == frame # Idle => saved.allowance = allowance

NeverUsedUp ==
  \A a, b \in Addr :
    allowance[a][b] = MAX => <<a, b>> \in unlimited \/ MAX = 0

HistoryType ==
  granted \in [Addr -> [Addr -> Nat]] /\ taken \in [Addr -> [Addr -> Nat]]

AllowanceInv ==
  TypeOK /\ HistoryType /\ SavedAllowance /\ NeverUsedUp /\ TakenWithinGrants

\* Nobody calls the pair while it is in a call.
LEMMA CallableIdle == Callable => frame = Idle
  BY DEF Callable, CallFlags

\* A call starts from its checkpoint, and only takes the lock.
LEMMA BeginSaves ==
  ASSUME Begin
  PROVE  /\ saved' = Checkpoint /\ frame = Idle
         /\ UNCHANGED <<reserves, totalSupply, balanceOf, allowance, tok>>
<1>1. ASSUME NEW op, NEW pc, NEW locals, Enter(op, pc, locals)
      PROVE  /\ saved' = Checkpoint /\ frame = Idle
             /\ UNCHANGED <<reserves, totalSupply, balanceOf, allowance, tok>>
  BY <1>1 DEF Enter
<1>2. QED BY <1>1 DEF Begin, BeginMint, BeginBurn, BeginSwap, BeginSkim, BeginSync

LEMMA InitAllowance == InitA => AllowanceInv
<1> SUFFICES ASSUME InitA PROVE AllowanceInv
  OBVIOUS
<1>1. TypeOK
  BY InitType DEF InitA
<1>2. HistoryType
  BY DEF InitA, NoAmounts, HistoryType
<1>3. \A a, b \in Addr : allowance[a][b] = 0 /\ taken[a][b] = 0 /\ granted[a][b] = 0
  BY DEF InitA, Init, NoAmounts
<1>4. QED BY <1>1, <1>2, <1>3 DEF InitA, Init, AllowanceInv, SavedAllowance, NeverUsedUp,
       TakenWithinGrants

\* A step of a call, or of a token, changes neither an allowance nor the one
\* that the call would restore.
LEMMA CallAllowance ==
  ASSUME TypeOK, SavedAllowance, Begin \/ CallStep \/ Environment
  PROVE  allowance' = allowance /\ (frame' # Idle => saved'.allowance = allowance)
<1>1. CASE Begin
  BY <1>1, BeginSaves DEF Checkpoint
<1>2. CASE Environment
  BY <1>2 DEF Environment, TokenTransfer, storage, SavedAllowance
<1>3. CASE Revert
  BY <1>3 DEF Revert, SavedAllowance
<1>4. CASE ReadBalance0 \/ ReadBalance1 \/ Pay0 \/ Pay1 \/ SettleBurn \/ SettleSkim
  <2>1. frame # Idle /\ saved' = saved
    BY <1>4, InsideLocals
  <2>2. allowance' = allowance
    BY <1>4 DEF ReadBalance0, ReadBalance1, Pay0, Pay1, SettleBurn, SettleSkim, storage
  <2>3. QED BY <2>1, <2>2 DEF SavedAllowance
<1>5. CASE MintFirst \/ MintMore \/ EndBurn \/ EndSwap \/ EndSkim \/ EndSync
  BY <1>5 DEF MintFirst, MintMore, EndBurn, EndSwap, EndSkim, EndSync, Finish
<1>6. QED BY <1>1, <1>2, <1>3, <1>4, <1>5 DEF CallStep

LEMMA CallKeepsAllowance ==
  ASSUME AllowanceInv, Begin \/ CallStep \/ Environment, UNCHANGED history
  PROVE  AllowanceInv'
<1>1. TypeOK'
  BY NextType DEF AllowanceInv, Next
<1>2. allowance' = allowance /\ (frame' # Idle => saved'.allowance = allowance)
  BY CallAllowance DEF AllowanceInv
<1>3. QED BY <1>1, <1>2 DEF AllowanceInv, HistoryType, SavedAllowance, NeverUsedUp,
       TakenWithinGrants, history

LEMMA ApproveWithin ==
  ASSUME AllowanceInv, NEW a \in Addr, NEW b \in Addr, NEW v \in U, ApproveA(a, b, v)
  PROVE  AllowanceInv'
<1>1. Approve(a, b, v) /\ taken' = taken
  BY DEF ApproveA
<1>2. TypeOK' /\ TypeOK /\ HistoryType
  BY <1>1, ApproveType DEF AllowanceInv
<1>3. SavedAllowance'
  BY <1>1, CallableIdle DEF Approve, SavedAllowance
<1>4. /\ allowance \in [Addr -> [Addr -> U]]
      /\ allowance' = [allowance EXCEPT ![a][b] = v] /\ v \in Nat
  BY <1>1, <1>2, TypeParts DEF Approve, U
<1>5. \A c, d \in Addr : allowance'[c][d] = IF c = a /\ d = b THEN v ELSE allowance[c][d]
  BY <1>4
<1>6. CASE v = MAX
  <2>1. unlimited' = unlimited \cup {<<a, b>>} /\ granted' = granted
    BY <1>6 DEF ApproveA
  <2>2. QED BY <1>1, <1>2, <1>3, <1>5, <2>1 DEF AllowanceInv, HistoryType, NeverUsedUp,
         TakenWithinGrants
<1>7. CASE v # MAX
  <2>1. unlimited' = unlimited /\ granted' = [granted EXCEPT ![a][b] = @ + v]
    BY <1>7 DEF ApproveA
  <2>2. \A c, d \in Addr :
          granted'[c][d] = IF c = a /\ d = b THEN granted[c][d] + v ELSE granted[c][d]
    BY <1>2, <2>1 DEF HistoryType
  <2>3. HistoryType'
    BY <1>1, <1>2, <1>4, <2>1 DEF HistoryType
  <2>4. NeverUsedUp'
    BY <1>5, <1>7, <2>1 DEF AllowanceInv, NeverUsedUp
  <2>5. TakenWithinGrants'
    <3> SUFFICES ASSUME NEW c \in Addr, NEW d \in Addr, <<c, d>> \notin unlimited
                 PROVE  taken[c][d] + allowance'[c][d] <= granted'[c][d]
      BY <1>1, <2>1 DEF TakenWithinGrants
    <3>1. taken[c][d] \in Nat /\ granted[c][d] \in Nat /\ allowance[c][d] \in Nat
      BY <1>2, <1>4 DEF HistoryType, U
    <3>2. taken[c][d] + allowance[c][d] <= granted[c][d]
      BY DEF AllowanceInv, TakenWithinGrants
    <3>3. QED BY <1>4, <1>5, <2>2, <3>1, <3>2
  <2>6. QED BY <1>2, <1>3, <2>3, <2>4, <2>5 DEF AllowanceInv
<1>8. QED BY <1>6, <1>7

LEMMA TransferWithin ==
  ASSUME AllowanceInv, NEW a \in Addr, NEW b \in Addr, NEW v \in U, Transfer(a, b, v),
         UNCHANGED history
  PROVE  AllowanceInv'
<1>1. TypeOK'
  BY TransferType DEF AllowanceInv
<1>2. UNCHANGED <<allowance, frame, saved>>
  BY DEF Transfer
<1>3. QED BY <1>1, <1>2 DEF AllowanceInv, HistoryType, SavedAllowance, NeverUsedUp,
       TakenWithinGrants, history

\* transferFrom takes from the allowance what it adds to the history.
LEMMA TransferFromWithin ==
  ASSUME AllowanceInv, NEW s \in Addr, NEW a \in Addr, NEW b \in Addr, NEW v \in U,
         TransferFromA(s, a, b, v)
  PROVE  AllowanceInv'
<1> DEFINE allow == allowance[a][s]
           left == AllowanceLeft(allow, v)
<1>1. TransferFrom(s, a, b, v) /\ UNCHANGED <<granted, unlimited>>
  BY DEF TransferFromA
<1>2. TypeOK' /\ TypeOK /\ HistoryType
  BY <1>1, TransferFromType DEF AllowanceInv
<1>3. SavedAllowance'
  BY <1>1, CallableIdle DEF TransferFrom, SavedAllowance
<1>4. allowance \in [Addr -> [Addr -> U]] /\ allow \in U /\ MAX \in U /\ Word \in Nat
  BY <1>2, TypeParts, WordAssumption DEF U, MAX
<1>5. allowance' = [allowance EXCEPT ![a][s] = left] /\ (allow = MAX \/ v <= allow)
  <2>1. ~(allow # MAX /\ allow < v) /\ allowance' = [allowance EXCEPT ![a][s] = left]
    BY <1>1 DEF TransferFrom
  <2>2. QED BY <1>4, <2>1 DEF U
<1>6. left = IF allow = MAX THEN allow ELSE allow - v
  <2>1. allow # MAX => WSub(allow, v) = allow - v
    BY <1>4, <1>5, SubCases
  <2>2. QED BY <2>1 DEF AllowanceLeft
<1> HIDE DEF left, allow
<1>7. \A c, d \in Addr : allowance'[c][d] = IF c = a /\ d = s THEN left ELSE allowance[c][d]
  BY <1>4, <1>5
<1>8. NeverUsedUp'
  <2> SUFFICES ASSUME NEW c \in Addr, NEW d \in Addr, allowance'[c][d] = MAX, MAX # 0
               PROVE  <<c, d>> \in unlimited
    BY <1>1 DEF NeverUsedUp
  <2>1. CASE c = a /\ d = s
    <3>1. left = MAX
      BY <1>7, <2>1
    <3>2. allow = MAX
      BY <1>4, <1>5, <1>6, <3>1 DEF U, MAX
    <3>3. QED BY <2>1, <3>2 DEF AllowanceInv, NeverUsedUp, allow
  <2>2. CASE ~(c = a /\ d = s)
    BY <1>7, <2>2 DEF AllowanceInv, NeverUsedUp
  <2>3. QED BY <2>1, <2>2
<1>9. CASE <<a, s>> \in unlimited
  <2>1. taken' = taken
    BY <1>9 DEF TransferFromA
  <2>2. TakenWithinGrants'
    <3> SUFFICES ASSUME NEW c \in Addr, NEW d \in Addr, <<c, d>> \notin unlimited
                 PROVE  taken[c][d] + allowance'[c][d] <= granted[c][d]
      BY <1>1, <2>1 DEF TakenWithinGrants
    <3>1. allowance'[c][d] = allowance[c][d]
      BY <1>7, <1>9
    <3>2. QED BY <3>1 DEF AllowanceInv, TakenWithinGrants
  <2>3. QED BY <1>1, <1>2, <1>3, <1>8, <2>1, <2>2 DEF AllowanceInv, HistoryType
<1>10. CASE <<a, s>> \notin unlimited
  <2>1. taken' = [taken EXCEPT ![a][s] = @ + v] /\ v \in Nat
    BY <1>10 DEF TransferFromA, U
  <2>2. \A c, d \in Addr :
          taken'[c][d] = IF c = a /\ d = s THEN taken[c][d] + v ELSE taken[c][d]
    BY <1>2, <2>1 DEF HistoryType
  <2>3. HistoryType'
    BY <1>1, <1>2, <2>1 DEF HistoryType
  <2>4. left = allow - v
    <3>1. CASE allow = MAX
      <4>1. MAX = 0
        BY <1>10, <3>1 DEF AllowanceInv, NeverUsedUp, allow
      <4>2. v = 0
        BY <4>1, WordAssumption DEF U, MAX
      <4>3. QED BY <1>6, <3>1, <4>1, <4>2
    <3>2. QED BY <1>6, <3>1
  <2>5. TakenWithinGrants'
    <3> SUFFICES ASSUME NEW c \in Addr, NEW d \in Addr, <<c, d>> \notin unlimited
                 PROVE  taken'[c][d] + allowance'[c][d] <= granted[c][d]
      BY <1>1 DEF TakenWithinGrants
    <3>1. taken[c][d] \in Nat /\ granted[c][d] \in Nat /\ allowance[c][d] \in Nat
      BY <1>2, <1>4 DEF HistoryType, U
    <3>2. taken[c][d] + allowance[c][d] <= granted[c][d]
      BY DEF AllowanceInv, TakenWithinGrants
    <3>3. allow = allowance[a][s]
      BY DEF allow
    <3>4. QED BY <1>7, <2>1, <2>2, <2>4, <3>1, <3>2, <3>3
  <2>6. QED BY <1>2, <1>3, <1>8, <2>3, <2>5 DEF AllowanceInv
<1>11. QED BY <1>9, <1>10

LEMMA NextAllowance == AllowanceInv /\ [NextA]_varsA => AllowanceInv'
<1> SUFFICES ASSUME AllowanceInv, [NextA]_varsA PROVE AllowanceInv'
  OBVIOUS
<1>1. CASE UNCHANGED varsA
  <2>1. UNCHANGED vars /\ UNCHANGED history
    BY <1>1 DEF varsA
  <2>2. TypeOK'
    BY <2>1, NextType DEF AllowanceInv
  <2>3. QED BY <2>1, <2>2 DEF AllowanceInv, HistoryType, SavedAllowance, NeverUsedUp,
         TakenWithinGrants, history, vars
<1>2. Owners \subseteq Addr /\ Spenders \subseteq Addr /\ LPAmounts \subseteq U /\ Approvals \subseteq U
  BY AllowanceAssumption, Accounts, PairAssumption
<1>3. CASE NextA
  BY <1>2, <1>3, Accounts, CallKeepsAllowance, ApproveWithin, TransferWithin,
     TransferFromWithin DEF NextA
<1>4. QED BY <1>1, <1>3

\* Whatever the order of approvals, transfers and calls, what a spender has
\* taken and may still take is within what the owner approved (pair.rs:491-531).
THEOREM TakenIsGranted == SpecA => []TakenWithinGrants
<1>1. AllowanceInv => TakenWithinGrants
  BY DEF AllowanceInv
<1>2. QED BY <1>1, InitAllowance, NextAllowance, PTL DEF SpecA

-----------------------------------------------------------------------------
(***************************************************************************)
(* A share is never diluted.  The strengthening follows a call of mint or  *)
(* burn from its checkpoint: which books it works on, that the balances it *)
(* has read are no less than the reserves, and that what is left after a   *)
(* burn has settled covers the shares that remain.                         *)
(***************************************************************************)

\* burn has taken the shares out of the books.
Settled == frame.op = "burn" /\ (frame.paid \/ frame.pc \in {"pay0", "pay1"})

\* Where mint and burn may be.
CallPath ==
  frame # Idle =>
    /\ frame.op = "mint" => frame.pc \in {"bal0", "bal1", "end"}
    /\ frame.op = "burn" =>
         frame.pc \in IF frame.paid THEN {"bal0", "bal1", "end"}
                                    ELSE {"bal0", "bal1", "settle", "pay0", "pay1"}

\* The books of the pair while a call runs are those of the checkpoint, less
\* the shares of a burn that has settled, and the locals are those of the
\* checkpoint too.
Books ==
  frame # Idle =>
    /\ frame.op = "mint" => /\ frame.r0 = saved.reserves.hi
                            /\ frame.r1 = GetReserve1(saved.reserves)
    /\ frame.op = "burn" => /\ frame.liq = saved.balanceOf[Self]
                            /\ frame.ts = saved.totalSupply
                            /\ frame.liq # 0
    /\ ~Settled => /\ balanceOf = saved.balanceOf
                   /\ totalSupply = saved.totalSupply
    /\ Settled => /\ balanceOf = [saved.balanceOf EXCEPT ![Self] = 0]
                  /\ totalSupply = WSub(saved.totalSupply, saved.balanceOf[Self])

\* v for s shares is worth at least what r was for t.
Covers(v, s, r, t) == r * s <= v * t

Covers0(v) == Covers(v, totalSupply, saved.reserves.hi, saved.totalSupply)
Covers1(v) == Covers(v, totalSupply, saved.reserves.mid, saved.totalSupply)

\* The premises of ShareNeverDiluted.
FairCall ==
  /\ SmallSupply /\ frame.op \in {"mint", "burn"}
  /\ saved.totalSupply # 0 /\ ReadsBack(saved.reserves)
  /\ frame.op = "burn" => saved.balanceOf[Self] <= saved.totalSupply

\* Until it pays, a call holds the reserves and has read no less.
WorthHeld ==
  frame # Idle /\ FairCall /\ ~Settled =>
    /\ saved.reserves.hi <= Held0 /\ saved.reserves.mid <= Held1
    /\ frame.pc \in {"bal1", "settle", "end"} =>
         saved.reserves.hi <= frame.b0 /\ frame.b0 <= Held0
    /\ frame.pc \in {"settle", "end"} =>
         saved.reserves.mid <= frame.b1 /\ frame.b1 <= Held1

\* A burn leaves the shares that remain at least what they were worth.
WorthLeft ==
  frame # Idle /\ FairCall /\ Settled =>
    /\ frame.pc = "pay0" => Covers0(Held0 - frame.x0)
    /\ frame.pc # "pay0" => Covers0(Held0)
    /\ frame.pc \in {"pay0", "pay1"} => Covers1(Held1 - frame.x1)
    /\ frame.pc \in {"bal0", "bal1", "end"} => Covers1(Held1)
    /\ frame.pc \in {"bal1", "end"} => Covers0(frame.b0)
    /\ frame.pc = "end" => Covers1(frame.b1)

ShareInv == IInv /\ CallPath /\ Books /\ WorthHeld /\ WorthLeft

\* More tokens cover as many shares.
LEMMA CoversMono ==
  ASSUME NEW v \in Int, NEW w \in Int, NEW s \in Nat, NEW r \in Nat, NEW t \in Nat,
         v <= w, Covers(v, s, r, t)
  PROVE  Covers(w, s, r, t)
<1>1. v * t <= w * t
  OBVIOUS
<1>2. r * s \in Int /\ v * t \in Int /\ w * t \in Int
  OBVIOUS
<1>3. QED BY <1>1, <1>2 DEF Covers

\* A quotient of a product that may have wrapped is at most that of the product.
LEMMA WrappedQuotient ==
  ASSUME NEW a \in Nat, NEW b \in Nat, NEW d \in Nat \ {0}
  PROVE  WMul(a, b) \div d \in Nat /\ (WMul(a, b) \div d) * d <= a * b
<1>1. a * b \in Nat
  OBVIOUS
<1>2. WMul(a, b) \in Nat /\ WMul(a, b) <= a * b
  BY <1>1, WrapBelow DEF WMul
<1>3. ASSUME NEW n \in Nat PROVE n \div d \in Nat /\ (n \div d) * d <= n
  OBVIOUS
<1>4. WMul(a, b) \div d \in Nat /\ (WMul(a, b) \div d) * d <= WMul(a, b)
  BY <1>2, <1>3
<1> DEFINE q == (WMul(a, b) \div d) * d
<1>5. q \in Nat
  BY <1>4
<1> HIDE DEF q
<1>6. q <= WMul(a, b)
  BY <1>4 DEF q
<1>7. q <= a * b
  BY <1>1, <1>2, <1>5, <1>6
<1>8. QED BY <1>4, <1>7 DEF q

\* mint: at most one share for each share's worth of the tokens that came in.
LEMMA MintCovers ==
  ASSUME NEW b \in U, NEW r \in U, r # 0, r <= b, NEW ts \in U, NEW l \in Nat,
         l <= WMul(WSub(b, r), ts) \div r
  PROVE  Covers(b, WAdd(ts, l), r, ts)
<1>1. b \in Nat /\ r \in Nat \ {0} /\ ts \in Nat /\ b - r \in Nat
  BY DEF U
<1>2. WSub(b, r) = b - r
  BY SubCases
<1> DEFINE q == WMul(b - r, ts) \div r
<1>3. q \in Nat /\ q * r <= (b - r) * ts
  BY <1>1, WrappedQuotient
<1>4. l <= q
  BY <1>2
<1> HIDE DEF q
<1>5. r * l <= q * r
  BY <1>1, <1>3, <1>4, MulMono
<1>6. WAdd(ts, l) \in Nat /\ WAdd(ts, l) <= ts + l
  BY <1>1, WrapBelow DEF WAdd
<1>7. r * WAdd(ts, l) <= r * (ts + l)
  BY <1>1, <1>6, MulMono
<1>8. r * (ts + l) = r * ts + r * l /\ (b - r) * ts = b * ts - r * ts
  BY <1>1
<1>9. r * ts \in Nat /\ r * l \in Nat /\ q * r \in Nat /\ b * ts \in Nat
      /\ r * WAdd(ts, l) \in Nat
  BY <1>1, <1>3, <1>6
<1>10. QED BY <1>3, <1>5, <1>7, <1>8, <1>9 DEF Covers

\* burn: what is left after the payout covers the shares that are left.
LEMMA BurnCovers ==
  ASSUME NEW b \in Nat, NEW r \in Nat, r <= b, NEW ts \in Nat \ {0}, NEW liq \in Nat,
         liq <= ts
  PROVE  Covers(b - (WMul(liq, b) \div ts), ts - liq, r, ts)
<1> DEFINE a == WMul(liq, b) \div ts
<1>1. a \in Nat /\ a * ts <= liq * b
  BY WrappedQuotient
<1> HIDE DEF a
<1>2. ts - liq \in Nat
  OBVIOUS
<1>3. r * (ts - liq) <= b * (ts - liq)
  BY <1>2, MulMono
<1>4. b * (ts - liq) = b * ts - liq * b /\ (b - a) * ts = b * ts - a * ts
  BY <1>1
<1>5. r * (ts - liq) \in Nat /\ b * ts \in Nat /\ liq * b \in Nat /\ a * ts \in Nat
  BY <1>1, <1>2
<1>6. QED BY <1>1, <1>3, <1>4, <1>5 DEF Covers, a

\* The checkpoint holds numbers.
LEMMA SavedTypes ==
  ASSUME TypeOK, frame # Idle
  PROVE  /\ saved.reserves \in ReserveWords
         /\ saved.reserves.hi \in Nat /\ saved.reserves.mid \in Nat
         /\ saved.totalSupply \in Nat /\ saved.totalSupply \in U
         /\ saved.balanceOf \in [Addr -> U] /\ saved.balanceOf[Self] \in Nat
         /\ totalSupply \in Nat
<1>1. saved \in Checkpoints /\ totalSupply \in U
  BY TypeParts
<1>2. /\ saved.reserves \in ReserveWords /\ saved.totalSupply \in U
      /\ saved.balanceOf \in [Addr -> U]
  BY <1>1 DEF Checkpoints
<1>3. saved.reserves.hi \in Nat /\ saved.reserves.mid \in Nat
  BY <1>2, Numbers DEF ReserveWords
<1>4. saved.balanceOf[Self] \in U
  BY <1>2, Accounts
<1>5. QED BY <1>1, <1>2, <1>3, <1>4 DEF U

\* The locals a call begins with.
LEMMA BeginLocals ==
  ASSUME Begin
  PROVE  /\ frame'.paid = FALSE
         /\ frame'.op \in {"mint", "burn"} => frame'.pc = "bal0"
         /\ frame'.op = "mint" => /\ frame'.r0 = reserves.hi
                                  /\ frame'.r1 = GetReserve1(reserves)
         /\ frame'.op = "burn" => /\ frame'.liq = balanceOf[Self]
                                  /\ frame'.ts = totalSupply
                                  /\ frame'.liq # 0
<1>1. CASE \E to \in Recipients : BeginMint(to)
  BY <1>1 DEF BeginMint, Enter, Idle, GetReserve0
<1>2. CASE \E to \in Recipients : BeginBurn(to)
  BY <1>2 DEF BeginBurn, Enter, Idle
<1>3. CASE \E to \in Recipients : BeginSkim(to)
  BY <1>3 DEF BeginSkim, Enter, Idle
<1>4. CASE \E out0, out1 \in SwapOuts, to \in Recipients : BeginSwap(out0, out1, to)
  BY <1>4 DEF BeginSwap, Enter, Idle
<1>5. CASE BeginSync
  BY <1>5 DEF BeginSync, Enter, Idle
<1>6. QED BY <1>1, <1>2, <1>3, <1>4, <1>5 DEF Begin

\* A call begins on the books and the reserves of its checkpoint.
LEMMA BeginShare ==
  ASSUME ShareInv, Begin
  PROVE  CallPath' /\ Books' /\ WorthHeld' /\ WorthLeft'
<1>1. /\ saved'.reserves = reserves /\ saved'.totalSupply = totalSupply
      /\ saved'.balanceOf = balanceOf /\ frame = Idle
      /\ UNCHANGED <<reserves, totalSupply, balanceOf, tok>>
  BY BeginSaves DEF Checkpoint
<1>2. ~Settled'
  BY BeginLocals DEF Settled
<1>3. CallPath'
  BY BeginLocals DEF CallPath
<1>4. Books'
  BY <1>1, <1>2, BeginLocals DEF Books, GetReserve1
<1>5. WorthHeld'
  <2> SUFFICES ASSUME FairCall'
               PROVE  /\ saved'.reserves.hi <= Held0' /\ saved'.reserves.mid <= Held1'
                      /\ frame'.pc = "bal0"
    BY DEF WorthHeld
  <2>1. SmallSupply /\ frame'.op \in {"mint", "burn"}
    BY DEF FairCall
  <2>2. reserves.hi <= Held0 /\ reserves.mid <= Held1
    BY <1>1, <2>1 DEF ShareInv, IInv, BackedInv, ReservesBacked, Held0, Held1
  <2>3. QED BY <1>1, <2>1, <2>2, BeginLocals DEF Held0, Held1
<1>6. WorthLeft'
  BY <1>2 DEF WorthLeft
<1>7. QED BY <1>3, <1>4, <1>5, <1>6

LEMMA SameFair ==
  ASSUME frame'.op = frame.op, saved' = saved
  PROVE  FairCall' = FairCall
  BY DEF FairCall, ReadsBack, GetReserve1

LEMMA Read0Share ==
  ASSUME ShareInv, ReadBalance0
  PROVE  CallPath' /\ Books' /\ WorthHeld' /\ WorthLeft'
<1>1. TypeOK /\ frame \in Frames
  BY TypeParts DEF ShareInv, IInv
<1>2. /\ frame.pc = "bal0" /\ UNCHANGED <<totalSupply, balanceOf, tok, saved>>
  BY DEF ReadBalance0, storage
<1>3. /\ frame'.op = frame.op /\ frame'.pc = "bal1" /\ frame'.b0 = Held0
      /\ frame'.b1 = frame.b1 /\ frame'.paid = frame.paid
      /\ frame'.r0 = frame.r0 /\ frame'.r1 = frame.r1
      /\ frame'.liq = frame.liq /\ frame'.ts = frame.ts
  BY <1>1 DEF ReadBalance0, Frames, Held0
<1>4. frame # Idle /\ frame' # Idle
  BY <1>2, <1>3 DEF Idle
<1>5. FairCall' = FairCall /\ Settled' = Settled
  BY <1>2, <1>3, SameFair DEF Settled
<1>6. Held0' = Held0 /\ Held1' = Held1 /\ Held0 \in Nat
  BY <1>1, <1>2, HeldTypes DEF Held0, Held1
<1>7. CallPath'
  BY <1>2, <1>3, <1>4 DEF ShareInv, CallPath
<1>8. Books'
  BY <1>2, <1>3, <1>4, <1>5 DEF ShareInv, Books, GetReserve1
<1>9. WorthHeld'
  BY <1>2, <1>3, <1>4, <1>5, <1>6 DEF ShareInv, WorthHeld
<1>10. WorthLeft'
  BY <1>2, <1>3, <1>4, <1>5, <1>6 DEF ShareInv, WorthLeft, Covers0, Covers1
<1>11. QED BY <1>7, <1>8, <1>9, <1>10

LEMMA Read1Share ==
  ASSUME ShareInv, ReadBalance1
  PROVE  CallPath' /\ Books' /\ WorthHeld' /\ WorthLeft'
<1>1. TypeOK /\ frame \in Frames
  BY TypeParts DEF ShareInv, IInv
<1>2. /\ frame.pc = "bal1" /\ UNCHANGED <<totalSupply, balanceOf, tok, saved>>
  BY DEF ReadBalance1, storage
<1>3. /\ frame'.op = frame.op /\ frame'.b1 = Held1
      /\ frame'.pc = IF frame.op \in {"burn", "skim"} /\ ~frame.paid THEN "settle" ELSE "end"
      /\ frame'.b0 = frame.b0 /\ frame'.paid = frame.paid
      /\ frame'.r0 = frame.r0 /\ frame'.r1 = frame.r1
      /\ frame'.liq = frame.liq /\ frame'.ts = frame.ts
  BY <1>1 DEF ReadBalance1, Frames, Held1
<1>4. frame # Idle /\ frame' # Idle
  BY <1>2, <1>3 DEF Idle
<1>5. FairCall' = FairCall /\ Settled' = Settled
  BY <1>2, <1>3, SameFair DEF Settled
<1>6. Held0' = Held0 /\ Held1' = Held1 /\ Held1 \in Nat
  BY <1>1, <1>2, HeldTypes DEF Held0, Held1
<1>7. CallPath'
  BY <1>1, <1>2, <1>3, <1>4 DEF ShareInv, CallPath, Frames
<1>8. Books'
  BY <1>2, <1>3, <1>4, <1>5 DEF ShareInv, Books, GetReserve1
<1>9. WorthHeld'
  BY <1>2, <1>3, <1>4, <1>5, <1>6 DEF ShareInv, WorthHeld
<1>10. WorthLeft'
  BY <1>2, <1>3, <1>4, <1>5, <1>6 DEF ShareInv, WorthLeft, Settled, Covers0, Covers1
<1>11. QED BY <1>7, <1>8, <1>9, <1>10

\* Settling takes the shares of the checkpoint out of the books, and leaves
\* enough for the others.
LEMMA SettleBurnShare ==
  ASSUME ShareInv, SettleBurn
  PROVE  CallPath' /\ Books' /\ WorthHeld' /\ WorthLeft'
<1> DEFINE a0 == WMul(frame.liq, frame.b0) \div frame.ts
           a1 == WMul(frame.liq, frame.b1) \div frame.ts
<1>1. TypeOK /\ frame \in Frames
  BY TypeParts DEF ShareInv, IInv
<1>2. /\ frame.op = "burn" /\ frame.pc = "settle" /\ frame.ts # 0
      /\ balanceOf' = [balanceOf EXCEPT ![Self] = 0]
      /\ totalSupply' = WSub(frame.ts, frame.liq)
      /\ frame' = [frame EXCEPT !.x0 = a0, !.x1 = a1, !.pc = "pay0"]
      /\ tok' = tok /\ saved' = saved
  BY DEF SettleBurn, SupplyLeft, At
<1>3. frame # Idle
  BY <1>2 DEF Idle
<1>4. /\ frame.liq = saved.balanceOf[Self] /\ frame.ts = saved.totalSupply
      /\ frame.liq \in Nat /\ frame.ts \in Nat \ {0} /\ frame.liq \in U /\ frame.ts \in U
      /\ frame.b0 \in Nat /\ frame.b1 \in Nat /\ ~frame.paid
  BY <1>1, <1>2, <1>3 DEF ShareInv, Books, CallPath, Frames, U
<1>5. a0 \in Nat /\ a1 \in Nat
  BY <1>4, WrappedQuotient
<1> HIDE DEF a0, a1
<1>6. /\ frame'.op = "burn" /\ frame'.pc = "pay0" /\ frame'.paid = frame.paid
      /\ frame'.liq = frame.liq /\ frame'.ts = frame.ts
      /\ frame'.x0 = a0 /\ frame'.x1 = a1
  BY <1>1, <1>2 DEF Frames
<1>7. ~Settled /\ Settled' /\ FairCall' = FairCall
  BY <1>2, <1>4, <1>6, SameFair DEF Settled
<1>8. CallPath' /\ WorthHeld'
  BY <1>4, <1>6, <1>7 DEF CallPath, WorthHeld
<1>9. Books'
  BY <1>2, <1>3, <1>4, <1>6, <1>7 DEF ShareInv, Books
<1>10. WorthLeft'
  <2> SUFFICES ASSUME FairCall PROVE Covers0(Held0 - frame.x0)' /\ Covers1(Held1 - frame.x1)'
    BY <1>6, <1>7 DEF WorthLeft
  <2> DEFINE hi == saved.reserves.hi
             mid == saved.reserves.mid
             rest == frame.ts - frame.liq
  <2>1. /\ hi <= frame.b0 /\ frame.b0 <= Held0 /\ mid <= frame.b1 /\ frame.b1 <= Held1
    BY <1>2, <1>3, <1>7 DEF ShareInv, WorthHeld
  <2>2. frame.liq <= frame.ts
    BY <1>2, <1>4 DEF FairCall
  <2>3. totalSupply' = rest /\ rest \in Nat
    BY <1>2, <1>4, <2>2, SubCases
  <2>4. hi \in Nat /\ mid \in Nat /\ Held0 \in Nat /\ Held1 \in Nat
    BY <1>1, <1>3, SavedTypes, HeldTypes
  <2> HIDE DEF hi, mid, rest
  <2>5. Covers(frame.b0 - a0, rest, hi, frame.ts) /\ Covers(frame.b1 - a1, rest, mid, frame.ts)
    BY <1>4, <2>1, <2>2, <2>4, BurnCovers DEF a0, a1, rest
  <2>6. frame.b0 - a0 <= Held0 - a0 /\ frame.b1 - a1 <= Held1 - a1
    BY <1>4, <1>5, <2>1, <2>4
  <2>7. /\ frame.b0 - a0 \in Int /\ frame.b1 - a1 \in Int
        /\ Held0 - a0 \in Int /\ Held1 - a1 \in Int
    BY <1>4, <1>5, <2>4
  <2>8. Covers(Held0 - a0, rest, hi, frame.ts)
    BY <1>4, <2>3, <2>4, <2>5, <2>6, <2>7, CoversMono
  <2>9. Covers(Held1 - a1, rest, mid, frame.ts)
    BY <1>4, <2>3, <2>4, <2>5, <2>6, <2>7, CoversMono
  <2>10. Held0' = Held0 /\ Held1' = Held1
    BY <1>2 DEF Held0, Held1
  <2>11. QED BY <1>2, <1>4, <1>6, <2>3, <2>8, <2>9, <2>10 DEF Covers0, Covers1, hi, mid
<1>11. QED BY <1>8, <1>9, <1>10

\* The numbers that Covers0 and Covers1 compare, for CoversMono.
LEMMA CoversGrow ==
  ASSUME TypeOK, frame # Idle, NEW v \in Int, NEW w \in Int, v <= w
  PROVE  (Covers0(v) => Covers0(w)) /\ (Covers1(v) => Covers1(w))
  BY SavedTypes, CoversMono DEF Covers0, Covers1

LEMMA Pay0Share ==
  ASSUME ShareInv, Pay0
  PROVE  CallPath' /\ Books' /\ WorthHeld' /\ WorthLeft'
<1>1. TypeOK /\ frame \in Frames
  BY TypeParts DEF ShareInv, IInv
<1>2. frame.pc = "pay0" /\ UNCHANGED <<totalSupply, balanceOf, saved>>
  BY DEF Pay0, storage
<1>3. /\ frame'.op = frame.op /\ frame'.pc = "pay1" /\ frame'.paid = frame.paid
      /\ frame'.x1 = frame.x1 /\ frame'.r0 = frame.r0 /\ frame'.r1 = frame.r1
      /\ frame'.liq = frame.liq /\ frame'.ts = frame.ts
  BY <1>1 DEF Pay0, Frames
<1>4. frame # Idle /\ frame' # Idle
  BY <1>2, <1>3 DEF Idle
<1>5. FairCall' = FairCall /\ Settled' = Settled
  BY <1>2, <1>3, SameFair DEF Settled
<1>6. CallPath' /\ frame.op # "mint"
  BY <1>2, <1>3, <1>4 DEF ShareInv, CallPath
<1>7. Books'
  BY <1>2, <1>3, <1>4, <1>5 DEF ShareInv, Books, GetReserve1
<1>8. WorthHeld'
  BY <1>2, <1>3, <1>5, <1>6 DEF WorthHeld, FairCall, Settled
<1>9. WorthLeft'
  <2> SUFFICES ASSUME FairCall, Settled
               PROVE  Covers0(Held0)' /\ Covers1(Held1 - frame.x1)'
    BY <1>3, <1>5 DEF WorthLeft
  <2>1. Covers0(Held0 - frame.x0) /\ Covers1(Held1 - frame.x1)
    BY <1>2, <1>4 DEF ShareInv, WorthLeft
  <2>2. Held0' >= Held0 - frame.x0 /\ Held1' = Held1
    BY <1>1, HeldTypes, PayType, Accounts DEF Pay0, Held0, Held1
  <2>3. Held0' \in Nat /\ Held0 \in Nat /\ frame.x0 \in Nat
    BY <1>1, PayHeld, HeldTypes DEF U
  <2>4. Covers0(Held0')
    BY <1>1, <1>4, <2>1, <2>2, <2>3, CoversGrow
  <2>5. QED BY <1>2, <1>3, <2>1, <2>2, <2>4 DEF Covers0, Covers1
<1>10. QED BY <1>6, <1>7, <1>8, <1>9

LEMMA Pay1Share ==
  ASSUME ShareInv, Pay1
  PROVE  CallPath' /\ Books' /\ WorthHeld' /\ WorthLeft'
<1>1. TypeOK /\ frame \in Frames
  BY TypeParts DEF ShareInv, IInv
<1>2. frame.pc = "pay1" /\ UNCHANGED <<totalSupply, balanceOf, saved>>
  BY DEF Pay1, storage
<1>3. /\ frame'.op = frame.op /\ frame'.paid = TRUE
      /\ frame'.pc = IF frame.op = "skim" THEN "end" ELSE "bal0"
      /\ frame'.r0 = frame.r0 /\ frame'.r1 = frame.r1
      /\ frame'.liq = frame.liq /\ frame'.ts = frame.ts
  BY <1>1 DEF Pay1, Frames
<1>4. frame # Idle /\ frame' # Idle
  BY <1>2, <1>3 DEF Idle
<1>5. FairCall' = FairCall /\ Settled' = Settled
  BY <1>2, <1>3, SameFair DEF Settled
<1>6. CallPath' /\ frame.op # "mint"
  BY <1>2, <1>3, <1>4 DEF ShareInv, CallPath
<1>7. Books'
  BY <1>2, <1>3, <1>4, <1>5 DEF ShareInv, Books, GetReserve1
<1>8. WorthHeld'
  BY <1>2, <1>3, <1>5, <1>6 DEF WorthHeld, FairCall, Settled
<1>9. WorthLeft'
  <2> SUFFICES ASSUME FairCall, Settled
               PROVE  frame'.pc = "bal0" /\ Covers0(Held0)' /\ Covers1(Held1)'
    BY <1>5 DEF WorthLeft
  <2>1. Covers0(Held0) /\ Covers1(Held1 - frame.x1)
    BY <1>2, <1>4 DEF ShareInv, WorthLeft
  <2>2. Held1' >= Held1 - frame.x1 /\ Held0' = Held0
    BY <1>1, HeldTypes, PayType, Accounts DEF Pay1, Held0, Held1
  <2>3. Held1' \in Nat /\ Held1 \in Nat /\ frame.x1 \in Nat
    BY <1>1, PayHeld, HeldTypes DEF U
  <2>4. Covers1(Held1')
    BY <1>1, <1>4, <2>1, <2>2, <2>3, CoversGrow
  <2>5. frame'.pc = "bal0"
    BY <1>3 DEF FairCall
  <2>6. QED BY <1>2, <2>1, <2>2, <2>4, <2>5 DEF Covers0, Covers1
<1>10. QED BY <1>6, <1>7, <1>8, <1>9

LEMMA SettleSkimShare ==
  ASSUME ShareInv, SettleSkim
  PROVE  CallPath' /\ Books' /\ WorthHeld' /\ WorthLeft'
<1>1. frame \in Frames
  BY TypeParts DEF ShareInv, IInv
<1>2. frame.op = "skim" /\ frame.pc = "settle" /\ UNCHANGED <<totalSupply, balanceOf, saved>>
  BY DEF SettleSkim, At, storage
<1>3. frame'.op = "skim" /\ frame # Idle
  BY <1>1, <1>2 DEF SettleSkim, Frames, Idle
<1>4. QED BY <1>2, <1>3 DEF ShareInv, CallPath, Books, WorthHeld, WorthLeft, FairCall, Settled

\* Others may only add to what the pair holds.
LEMMA OutsideShare ==
  ASSUME ShareInv, UNCHANGED <<totalSupply, balanceOf, frame, saved>>,
         Held0' \in Nat, Held1' \in Nat, Held0' >= Held0, Held1' >= Held1
  PROVE  CallPath' /\ Books' /\ WorthHeld' /\ WorthLeft'
<1>1. TypeOK
  BY DEF ShareInv, IInv
<1>2. FairCall' = FairCall /\ Settled' = Settled
  BY SameFair DEF Settled
<1>3. CallPath' /\ Books'
  BY <1>2 DEF ShareInv, CallPath, Books, GetReserve1
<1>4. Held0 \in Nat /\ Held1 \in Nat /\ frame.x0 \in Nat /\ frame.x1 \in Nat
      /\ frame.b0 \in Nat /\ frame.b1 \in Nat
  BY <1>1, HeldTypes DEF U
<1>5. WorthHeld'
  <2> SUFFICES ASSUME frame # Idle, FairCall, ~Settled
               PROVE  /\ saved.reserves.hi <= Held0' /\ saved.reserves.mid <= Held1'
                      /\ frame.pc \in {"bal1", "settle", "end"} =>
                           saved.reserves.hi <= frame.b0 /\ frame.b0 <= Held0'
                      /\ frame.pc \in {"settle", "end"} =>
                           saved.reserves.mid <= frame.b1 /\ frame.b1 <= Held1'
    BY <1>2 DEF WorthHeld
  <2>1. saved.reserves.hi \in Nat /\ saved.reserves.mid \in Nat
    BY <1>1, SavedTypes
  <2>2. QED BY <1>4, <2>1 DEF ShareInv, WorthHeld
<1>6. WorthLeft'
  <2> SUFFICES ASSUME frame # Idle, FairCall, Settled
               PROVE  /\ frame.pc = "pay0" => Covers0(Held0' - frame.x0)
                      /\ frame.pc # "pay0" => Covers0(Held0')
                      /\ frame.pc \in {"pay0", "pay1"} => Covers1(Held1' - frame.x1)
                      /\ frame.pc \in {"bal0", "bal1", "end"} => Covers1(Held1')
                      /\ frame.pc \in {"bal1", "end"} => Covers0(frame.b0)
                      /\ frame.pc = "end" => Covers1(frame.b1)
    BY <1>2 DEF WorthLeft, Covers0, Covers1
  <2>1. /\ Held0 - frame.x0 <= Held0' - frame.x0 /\ Held0 - frame.x0 \in Int
        /\ Held0' - frame.x0 \in Int
        /\ Held1 - frame.x1 <= Held1' - frame.x1 /\ Held1 - frame.x1 \in Int
        /\ Held1' - frame.x1 \in Int
    BY <1>4
  <2>2. /\ Covers0(Held0 - frame.x0) => Covers0(Held0' - frame.x0)
        /\ Covers0(Held0) => Covers0(Held0')
        /\ Covers1(Held1 - frame.x1) => Covers1(Held1' - frame.x1)
        /\ Covers1(Held1) => Covers1(Held1')
    BY <1>1, <1>4, <2>1, CoversGrow
  <2>3. QED BY <2>2 DEF ShareInv, WorthLeft
<1>7. QED BY <1>3, <1>5, <1>6

LEMMA InitShare == Init => ShareInv
  BY InitInv DEF ShareInv, CallPath, Books, WorthHeld, WorthLeft, Init

LEMMA NextShare == ShareInv /\ [Next]_vars => ShareInv'
<1> SUFFICES ASSUME ShareInv, [Next]_vars PROVE ShareInv'
  OBVIOUS
<1>1. TypeOK /\ IInv'
  BY NextInv DEF ShareInv, IInv
<1>2. CallPath' /\ Books' /\ WorthHeld' /\ WorthLeft'
  <2>1. CASE Begin
    BY <2>1, BeginShare
  <2>2. CASE CallStep
    <3>1. CASE MintFirst \/ MintMore \/ EndBurn \/ EndSwap \/ EndSkim \/ EndSync \/ Revert
      <4>1. frame' = Idle
        BY <3>1 DEF MintFirst, MintMore, EndBurn, EndSwap, EndSkim, EndSync, Revert, Finish
      <4>2. QED BY <4>1 DEF CallPath, Books, WorthHeld, WorthLeft
    <3>2. QED BY <2>2, <3>1, Read0Share, Read1Share, SettleBurnShare, SettleSkimShare,
           Pay0Share, Pay1Share DEF CallStep
  <2>3. CASE LPStep
    <3>1. frame' = Idle
      BY <2>3, CallableIdle DEF LPStep, Approve, Transfer, TransferFrom
    <3>2. QED BY <3>1 DEF CallPath, Books, WorthHeld, WorthLeft
  <2>4. CASE Environment
    <3>1. UNCHANGED <<totalSupply, balanceOf, frame, saved>>
      BY <2>4 DEF Environment, TokenTransfer, storage
    <3>2. Held0' >= Held0 /\ Held1' >= Held1
      BY <1>1, <2>4, EnvironmentType DEF Held0, Held1
    <3>3. Held0' \in Nat /\ Held1' \in Nat
      <4>1. tok' \in [Tokens -> [Addr -> 0 .. TokenMax]]
        BY <1>1 DEF IInv, TypeOK, Checkpoint, Checkpoints
      <4>2. QED BY <4>1, Accounts, Numbers DEF Held0, Held1
    <3>4. QED BY <3>1, <3>2, <3>3, OutsideShare
  <2>5. CASE UNCHANGED vars
    <3>1. Held0' = Held0 /\ Held1' = Held1 /\ Held0 \in Nat /\ Held1 \in Nat
      BY <1>1, <2>5, HeldTypes DEF vars, Held0, Held1
    <3>2. QED BY <2>5, <3>1, OutsideShare DEF vars
  <2>6. QED BY <2>1, <2>2, <2>3, <2>4, <2>5 DEF Next
<1>3. QED BY <1>1, <1>2 DEF ShareInv

\* What a call stores when both balances fit their fields.
LEMMA StoredBalances ==
  ASSUME IInv, SmallSupply, frame.pc = "end", frame.op # "skim",
         StoreReserves(frame.b0, frame.b1)
  PROVE  reserves'.hi = frame.b0 /\ reserves'.mid = frame.b1
<1>1. TypeOK /\ frame # Idle
  BY DEF IInv, Idle
<1>2. frame.b0 <= Held0 /\ frame.b1 <= Held1
  BY <1>1 DEF IInv, BackedInv, FreshReads
<1>3. frame.b0 \in Nat /\ frame.b1 \in Nat /\ frame.b0 < R112 /\ frame.b1 < R112
  BY <1>1, <1>2, HeldTypes, Numbers DEF SmallSupply, U
<1>4. reserves' = [hi |-> frame.b0, mid |-> frame.b1]
  BY <1>3, SetReservesType DEF StoreReserves
<1>5. QED BY <1>4

\* mint gives the smaller of two proportions, so neither token is diluted.
LEMMA MintCommit ==
  ASSUME ShareInv, FairCall, MintMore
  PROVE  /\ reserves'.hi * saved.totalSupply >= saved.reserves.hi * totalSupply'
         /\ reserves'.mid * saved.totalSupply >= saved.reserves.mid * totalSupply'
<1> DEFINE l == Liquidity(totalSupply)
           l0 == WMul(Amount0, totalSupply) \div frame.r0
           l1 == WMul(Amount1, totalSupply) \div frame.r1
<1>1. /\ IInv /\ TypeOK /\ frame.op = "mint" /\ frame.pc = "end"
      /\ frame.r0 # 0 /\ frame.r1 # 0 /\ totalSupply' = WAdd(totalSupply, l)
      /\ StoreReserves(frame.b0, frame.b1)
  BY DEF ShareInv, IInv, MintMore, At
<1>2. frame # Idle
  BY <1>1 DEF Idle
<1>3. /\ frame.r0 = saved.reserves.hi /\ frame.r1 = saved.reserves.mid
      /\ totalSupply = saved.totalSupply /\ ~Settled
  BY <1>1, <1>2 DEF ShareInv, Books, Settled, FairCall, ReadsBack
<1>4. frame.r0 <= frame.b0 /\ frame.r1 <= frame.b1
  BY <1>1, <1>2, <1>3 DEF ShareInv, WorthHeld
<1>5. /\ frame.b0 \in U /\ frame.b1 \in U /\ frame.r0 \in U /\ frame.r1 \in U
      /\ frame.r0 \in Nat \ {0} /\ frame.r1 \in Nat \ {0}
      /\ totalSupply \in U /\ totalSupply \in Nat
  BY <1>1, HeldTypes, TypeParts DEF U
<1>6. Amount0 \in Nat /\ Amount1 \in Nat
  BY <1>4, <1>5, SubCases DEF Amount0, Amount1, U
<1>7. l0 \in Nat /\ l1 \in Nat
  BY <1>5, <1>6, WrappedQuotient
<1>8. l \in Nat /\ l <= l0 /\ l <= l1
  BY <1>7 DEF Liquidity
<1>9. l0 = WMul(WSub(frame.b0, frame.r0), totalSupply) \div frame.r0
      /\ l1 = WMul(WSub(frame.b1, frame.r1), totalSupply) \div frame.r1
  BY DEF Amount0, Amount1
<1> HIDE DEF l, l0, l1
<1>10. Covers(frame.b0, WAdd(totalSupply, l), frame.r0, totalSupply)
  BY <1>4, <1>5, <1>8, <1>9, MintCovers
<1>11. Covers(frame.b1, WAdd(totalSupply, l), frame.r1, totalSupply)
  BY <1>4, <1>5, <1>8, <1>9, MintCovers
<1>12. reserves'.hi = frame.b0 /\ reserves'.mid = frame.b1
  BY <1>1, StoredBalances DEF FairCall
<1>13. QED BY <1>1, <1>3, <1>10, <1>11, <1>12 DEF Covers

LEMMA BurnCommit ==
  ASSUME ShareInv, FairCall, EndBurn
  PROVE  /\ reserves'.hi * saved.totalSupply >= saved.reserves.hi * totalSupply'
         /\ reserves'.mid * saved.totalSupply >= saved.reserves.mid * totalSupply'
<1>1. /\ IInv /\ frame.op = "burn" /\ frame.pc = "end" /\ totalSupply' = totalSupply
      /\ StoreReserves(frame.b0, frame.b1)
  BY DEF ShareInv, EndBurn, At
<1>2. frame # Idle
  BY <1>1 DEF Idle
<1>3. Settled
  BY <1>1, <1>2 DEF ShareInv, CallPath, Settled
<1>4. Covers0(frame.b0) /\ Covers1(frame.b1)
  BY <1>1, <1>2, <1>3 DEF ShareInv, WorthLeft
<1>5. reserves'.hi = frame.b0 /\ reserves'.mid = frame.b1
  BY <1>1, StoredBalances DEF FairCall
<1>6. TypeOK /\ frame.b0 \in Nat /\ frame.b1 \in Nat
  BY <1>1, HeldTypes DEF IInv, U
<1>7. /\ frame.b0 * saved.totalSupply \in Nat /\ frame.b1 * saved.totalSupply \in Nat
      /\ saved.reserves.hi * totalSupply \in Nat /\ saved.reserves.mid * totalSupply \in Nat
  BY <1>2, <1>6, SavedTypes
<1>8. QED BY <1>1, <1>4, <1>5, <1>7 DEF Covers0, Covers1, Covers

\* For every token supply that the words can hold, no mint or burn lowers what
\* a share is worth, although both read balances and pay across calls into the
\* tokens (pair.rs:294-374).
THEOREM SharesKeepWorth == Spec => ShareNeverDiluted
<1>1. ShareInv /\ [Next]_vars =>
        [SmallSupply /\ frame.op \in {"mint", "burn"} /\ frame'.op = "idle"
           /\ saved.totalSupply # 0 /\ ReadsBack(saved.reserves)
           /\ (frame.op = "burn" => saved.balanceOf[Self] <= saved.totalSupply) =>
           /\ reserves'.hi * saved.totalSupply >= saved.reserves.hi * totalSupply'
           /\ reserves'.mid * saved.totalSupply >= saved.reserves.mid * totalSupply']_vars
  <2> SUFFICES ASSUME ShareInv, [Next]_vars, FairCall, frame'.op = "idle"
               PROVE  /\ reserves'.hi * saved.totalSupply >= saved.reserves.hi * totalSupply'
                      /\ reserves'.mid * saved.totalSupply >= saved.reserves.mid * totalSupply'
    BY DEF FairCall
  <2>1. TypeOK /\ frame # Idle /\ frame.op \in {"mint", "burn"}
    BY DEF ShareInv, IInv, Idle, FairCall
  <2>2. CASE MintMore
    BY <2>2, MintCommit
  <2>3. CASE EndBurn
    BY <2>3, BurnCommit
  <2>4. CASE Revert
    <3>1. reserves' = saved.reserves /\ totalSupply' = saved.totalSupply
      BY <2>4 DEF Revert
    <3>2. /\ saved.reserves.hi \in Nat /\ saved.reserves.mid \in Nat
          /\ saved.totalSupply \in Nat
      BY <2>1, SavedTypes
    <3>3. /\ saved.reserves.hi * saved.totalSupply \in Nat
          /\ saved.reserves.mid * saved.totalSupply \in Nat
      BY <3>2
    <3>4. QED BY <3>1, <3>3
  <2>5. ~MintFirst
    BY <2>1 DEF MintFirst, At, ShareInv, Books, Settled, FairCall
  <2>6. ~(UNCHANGED vars) /\ ~LPStep /\ ~Environment
    BY <2>1 DEF vars, LPStep, Approve, Transfer, TransferFrom, Environment, TokenTransfer
  <2>7. ~Begin
    BY <2>1, BeginSaves
  <2>8. ~(ReadBalance0 \/ ReadBalance1 \/ Pay0 \/ Pay1 \/ SettleBurn \/ SettleSkim)
    BY <2>1, InsideLocals
  <2>9. ~(EndSwap \/ EndSkim \/ EndSync)
    BY <2>1 DEF EndSwap, EndSkim, EndSync, At
  <2>10. QED BY <2>2, <2>3, <2>4, <2>5, <2>6, <2>7, <2>8, <2>9 DEF Next, CallStep
<1>2. QED BY <1>1, InitShare, NextShare, PTL DEF Spec, ShareNeverDiluted

-----------------------------------------------------------------------------
(***************************************************************************)
(* The LP balances stay in step with totalSupply.  A sum changes by as     *)
(* much as the balance that is set, whatever the order the library adds    *)
(* them up in; all operations compute modulo Word.                         *)
(***************************************************************************)

\* The element of a set that SumFunction takes first, and what it does with it.
First(s) == CHOOSE x \in s : TRUE

SumStep(f, g, s) == IF s = {} THEN 0 ELSE f[First(s)] + g[s \ {First(s)}]

\* A set of subsets that is closed under adding the first element holds them all.
LEMMA SubsetInduction ==
  ASSUME NEW D, IsFiniteSet(D), NEW Good \in SUBSET (SUBSET D), {} \in Good,
         \A s \in SUBSET D : s # {} /\ s \ {First(s)} \in Good => s \in Good
  PROVE  \A s \in SUBSET D : s \in Good
<1> DEFINE Sizes == {Cardinality(s) : s \in (SUBSET D) \ Good}
<1> SUFFICES ASSUME NEW r \in SUBSET D, r \notin Good PROVE FALSE
  OBVIOUS
<1>1. \A s \in SUBSET D : IsFiniteSet(s) /\ Cardinality(s) \in Nat
  BY FS_Subset, FS_CardinalityType
<1>2. Sizes \in SUBSET Nat /\ Sizes # {}
  BY <1>1
<1>3. PICK m \in Sizes : \A k \in Sizes : m <= k
  BY <1>2, LeastElement
<1>4. PICK s \in (SUBSET D) \ Good : Cardinality(s) = m
  BY <1>3
<1>5. s # {} /\ First(s) \in s
  BY DEF First
<1>6. Cardinality(s \ {First(s)}) = m - 1 /\ m \in Nat
  BY <1>1, <1>4, <1>5, FS_RemoveElement
<1>7. s \ {First(s)} \in (SUBSET D) \ Good
  BY <1>4, <1>5
<1>8. m - 1 \in Sizes
  BY <1>6, <1>7
<1>9. QED BY <1>3, <1>6, <1>8

\* The sums over the subsets of a finite set exist.
LEMMA SumsExist ==
  ASSUME NEW D, IsFiniteSet(D), NEW f \in [D -> Int]
  PROVE  \E g : g = [s \in SUBSET D |-> SumStep(f, g, s)]
<1> DEFINE Up(n, g) == \A s \in SUBSET D : Cardinality(s) <= n => g[s] = SumStep(f, g, s)
           Bad == {n \in Nat : \A g \in [SUBSET D -> Int] : ~Up(n, g)}
<1>1. \A s \in SUBSET D : IsFiniteSet(s) /\ Cardinality(s) \in Nat
  BY FS_Subset, FS_CardinalityType
<1>2. \A s \in SUBSET D : s # {} => First(s) \in s /\ First(s) \in D
  BY DEF First
<1>3. \A s \in SUBSET D : s # {} => /\ s \ {First(s)} \in SUBSET D
                                    /\ Cardinality(s \ {First(s)}) = Cardinality(s) - 1
  BY <1>1, <1>2, FS_RemoveElement
<1>4. 0 \notin Bad
  <2> DEFINE g == [s \in SUBSET D |-> 0]
  <2>1. g \in [SUBSET D -> Int]
    OBVIOUS
  <2>2. \A s \in SUBSET D : Cardinality(s) <= 0 => s = {}
    BY <1>1, FS_EmptySet
  <2>3. Up(0, g)
    BY <2>2 DEF SumStep
  <2>4. QED BY <2>1, <2>3
<1>5. ASSUME NEW n \in Nat, n \notin Bad PROVE n + 1 \notin Bad
  <2>1. PICK g \in [SUBSET D -> Int] : Up(n, g)
    BY <1>5
  <2> DEFINE h == [s \in SUBSET D |-> SumStep(f, g, s)]
  <2>2. \A s \in SUBSET D : SumStep(f, g, s) \in Int
    BY <1>2, <1>3 DEF SumStep
  <2>3. h \in [SUBSET D -> Int]
    BY <2>2
  <2>4. ASSUME NEW s \in SUBSET D, Cardinality(s) <= n + 1
        PROVE  h[s] = SumStep(f, h, s)
    <3>1. CASE s = {}
      BY <3>1 DEF SumStep
    <3>2. CASE s # {}
      <4> DEFINE t == s \ {First(s)}
      <4>1. t \in SUBSET D /\ Cardinality(t) <= n
        BY <1>1, <1>3, <2>4, <3>2
      <4>2. h[t] = g[t]
        BY <2>1, <4>1
      <4>3. h[s] = f[First(s)] + g[t]
        BY <3>2 DEF SumStep
      <4> HIDE DEF h
      <4>4. QED BY <3>2, <4>2, <4>3 DEF SumStep
    <3>3. QED BY <3>1, <3>2
  <2> HIDE DEF h
  <2>5. Up(n + 1, h)
    BY <2>4
  <2>6. QED BY <2>3, <2>5
<1>6. Bad = {}
  <2> SUFFICES ASSUME Bad # {} PROVE FALSE
    OBVIOUS
  <2>1. Bad \in SUBSET Nat
    OBVIOUS
  <2> HIDE DEF Bad
  <2>2. PICK m \in Bad : \A k \in Bad : m <= k
    BY <2>1, LeastElement
  <2>3. m \in Nat /\ m # 0
    BY <1>4, <2>1
  <2>4. m - 1 \in Nat /\ m - 1 \notin Bad
    BY <2>2, <2>3
  <2>5. (m - 1) + 1 \notin Bad
    BY <1>5, <2>4
  <2>6. QED BY <2>2, <2>3, <2>5
<1>7. Cardinality(D) \in Nat /\ \A s \in SUBSET D : Cardinality(s) <= Cardinality(D)
  BY FS_CardinalityType, FS_Subset
<1>8. PICK g \in [SUBSET D -> Int] : Up(Cardinality(D), g)
  BY <1>6, <1>7
<1>9. \A s \in SUBSET D : g[s] = SumStep(f, g, s)
  BY <1>7, <1>8
<1>10. g = [s \in SUBSET D |-> SumStep(f, g, s)]
  BY <1>9
<1>11. QED BY <1>10

\* SumFunction as the community module defines it.
LEMMA SumUnfolded ==
  ASSUME NEW f
  PROVE  SumFunction(f)
           = (CHOOSE g : g = [s \in SUBSET (DOMAIN f) |-> SumStep(f, g, s)])[DOMAIN f]
BY DEF SumFunction, SumFunctionOnSet, FoldFunctionOnSet, MapThenFoldSet, SumStep, First

\* The sum of a function is the last of the sums over the subsets of its domain.
LEMMA SumOfSubsets ==
  ASSUME NEW D, IsFiniteSet(D), NEW f \in [D -> Int]
  PROVE  \E g : /\ SumFunction(f) = g[D]
                /\ \A s \in SUBSET D : g[s] = SumStep(f, g, s)
<1> DEFINE g == CHOOSE g : g = [s \in SUBSET D |-> SumStep(f, g, s)]
<1>1. SumFunction(f) = g[D]
  BY SumUnfolded
<1>2. g = [s \in SUBSET D |-> SumStep(f, g, s)]
  BY SumsExist
<1> HIDE DEF g
<1>3. \A s \in SUBSET D : g[s] = SumStep(f, g, s)
  BY <1>2
<1>4. QED BY <1>1, <1>3

\* A new value at one place changes the sum by as much as that place.
LEMMA SumUpdate ==
  ASSUME NEW D, IsFiniteSet(D), NEW f \in [D -> Int], NEW a \in D, NEW v \in Int
  PROVE  /\ SumFunction(f) \in Int
         /\ SumFunction([f EXCEPT ![a] = v]) = SumFunction(f) + (v - f[a])
<1> DEFINE e == [f EXCEPT ![a] = v]
<1>1. e \in [D -> Int]
  OBVIOUS
<1>2. PICK g : SumFunction(f) = g[D] /\ \A s \in SUBSET D : g[s] = SumStep(f, g, s)
  BY SumOfSubsets
<1>3. PICK h : SumFunction(e) = h[D] /\ \A s \in SUBSET D : h[s] = SumStep(e, h, s)
  BY <1>1, SumOfSubsets
<1> DEFINE Moved(s) == /\ g[s] \in Int
                       /\ h[s] = IF a \in s THEN g[s] + (v - f[a]) ELSE g[s]
           Good == {s \in SUBSET D : Moved(s)}
<1>4. {} \in Good
  <2>1. {} \in SUBSET D /\ SumStep(f, g, {}) = 0 /\ SumStep(e, h, {}) = 0
    BY DEF SumStep
  <2>2. g[{}] = 0 /\ h[{}] = 0
    BY <1>2, <1>3, <2>1
  <2>3. QED BY <2>1, <2>2
<1>5. ASSUME NEW s \in SUBSET D, s # {}, s \ {First(s)} \in Good
      PROVE  s \in Good
  <2> DEFINE x == First(s)
             t == s \ {x}
  <2>1. x \in s /\ x \in D /\ t \in SUBSET D
    BY <1>5 DEF First
  <2>2. Moved(t)
    BY <1>5
  <2> HIDE DEF x
  <2>3. g[s] = f[x] + g[t] /\ h[s] = e[x] + h[t]
    BY <1>2, <1>3, <1>5 DEF SumStep, x
  <2>4. f[x] \in Int /\ e[x] = IF x = a THEN v ELSE f[x]
    BY <2>1
  <2>5. f[a] \in Int /\ (a \in s <=> a = x \/ a \in t) /\ x \notin t
    BY <2>1
  <2> HIDE DEF e, t
  <2>6. Moved(s)
    BY <2>2, <2>3, <2>4, <2>5
  <2>7. QED BY <2>6
<1> HIDE DEF e
<1>6. D \in Good
  <2>1. Good \in SUBSET (SUBSET D)
    OBVIOUS
  <2> HIDE DEF Good
  <2>2. QED BY <1>4, <1>5, <2>1, SubsetInduction
<1>7. Moved(D)
  BY <1>6
<1>8. QED BY <1>2, <1>3, <1>7 DEF e

-----------------------------------------------------------------------------
\* Numbers that differ by words are the same word.
LEMMA WrapSame ==
  ASSUME NEW x \in Int, NEW y \in Int, NEW k \in Int, y = x + k * Word
  PROVE  y % Word = x % Word
<1> DEFINE p == x \div Word
           q == y \div Word
           r == x % Word
           s == y % Word
<1>1. Word \in Nat \ {0}
  BY WordAssumption
<1>2. /\ p \in Int /\ q \in Int /\ r \in Int /\ s \in Int
      /\ 0 <= r /\ r < Word /\ 0 <= s /\ s < Word
      /\ x = p * Word + r /\ y = q * Word + s
  BY <1>1
<1> DEFINE d == p + k - q
<1> HIDE DEF p, q, r, s
<1>3. d * Word = p * Word + k * Word - q * Word /\ d \in Int
  BY <1>1, <1>2
<1>4. d * Word = s - r
  BY <1>1, <1>2, <1>3
<1> HIDE DEF d
<1>5. d >= 1 => d * Word >= Word
  BY <1>1, <1>3
<1>6. d <= -1 => d * Word <= -Word
  BY <1>1, <1>3
<1>7. d = 0
  BY <1>1, <1>2, <1>3, <1>4, <1>5, <1>6
<1>8. r = s
  BY <1>1, <1>2, <1>4, <1>7
<1>9. QED BY <1>8 DEF r, s

LEMMA WrapBy ==
  ASSUME NEW x \in Int
  PROVE  \E k \in Int : x % Word = x + k * Word
<1>1. Word \in Nat \ {0}
  BY WordAssumption
<1>2. x \div Word \in Int /\ x % Word = x - (x \div Word) * Word
  BY <1>1
<1>3. -(x \div Word) \in Int /\ x + (-(x \div Word)) * Word = x - (x \div Word) * Word
  BY <1>1, <1>2
<1>4. QED BY <1>2, <1>3

LEMMA AddWrap ==
  ASSUME NEW a \in Int, NEW b \in Int
  PROVE  \E k \in Int : WAdd(a, b) = a + b + k * Word
<1>1. a + b \in Int
  OBVIOUS
<1>2. PICK k \in Int : (a + b) % Word = (a + b) + k * Word
  BY <1>1, WrapBy
<1>3. QED BY <1>2 DEF WAdd

LEMMA SubWrap ==
  ASSUME NEW a \in Int, NEW b \in Int
  PROVE  \E k \in Int : WSub(a, b) = a - b + k * Word
<1>1. a - b \in Int
  OBVIOUS
<1>2. PICK k \in Int : (a - b) % Word = (a - b) + k * Word
  BY <1>1, WrapBy
<1>3. QED BY <1>2 DEF WSub

LEMMA FiniteAccounts == IsFiniteSet(Addr)
<1>1. /\ IsFiniteSet({Zero}) /\ IsFiniteSet({Self})
      /\ IsFiniteSet({T0}) /\ IsFiniteSet({T1})
  BY FS_Singleton
<1>2. IsFiniteSet({Zero} \cup {Self}) /\ IsFiniteSet({T0} \cup {T1})
  BY <1>1, FS_Union
<1>3. IsFiniteSet(({Zero} \cup {Self}) \cup ({T0} \cup {T1}))
  BY <1>2, FS_Union
<1>4. Addr = Users \cup (({Zero} \cup {Self}) \cup ({T0} \cup {T1}))
  BY DEF Addr
<1>5. QED BY <1>3, <1>4, AccountsAssumption, FS_Union

\* The sum of a ledger after one balance has been set.
LEMMA LedgerUpdate ==
  ASSUME NEW f \in [Addr -> U], NEW a \in Addr, NEW v \in Int
  PROVE  /\ SumFunction(f) \in Int /\ f[a] \in Int
         /\ SumFunction([f EXCEPT ![a] = v]) = SumFunction(f) + (v - f[a])
<1>1. f \in [Addr -> Int]
  BY WordsAreInts
<1>2. QED BY <1>1, FiniteAccounts, SumUpdate

\* The distance of a ledger from a supply.
GapOf(f, t) == (SumFunction(f) - t) % Word

\* burn takes the same amount from the ledger and from the supply.
LEMMA SettledGap ==
  ASSUME NEW f \in [Addr -> U], NEW t \in U
  PROVE  GapOf([f EXCEPT ![Self] = 0], WSub(t, f[Self])) = GapOf(f, t)
<1>1. /\ SumFunction(f) \in Int /\ f[Self] \in Int /\ t \in Int /\ Word \in Int
      /\ SumFunction([f EXCEPT ![Self] = 0]) = SumFunction(f) + (0 - f[Self])
  <2>1. Self \in Addr /\ 0 \in Int
    BY Accounts
  <2>2. /\ SumFunction(f) \in Int /\ f[Self] \in Int
        /\ SumFunction([f EXCEPT ![Self] = 0]) = SumFunction(f) + (0 - f[Self])
    BY <2>1, LedgerUpdate
  <2>3. QED BY <2>2, WordsAreInts, WordAssumption
<1>2. PICK k \in Int : WSub(t, f[Self]) = t - f[Self] + k * Word
  BY <1>1, SubWrap
<1> DEFINE x == SumFunction(f) - t
           y == SumFunction([f EXCEPT ![Self] = 0]) - WSub(t, f[Self])
<1>3. x \in Int /\ y \in Int /\ -k \in Int /\ y = x + (-k) * Word
  <2>1. k * Word \in Int /\ (-k) * Word = -(k * Word)
    BY <1>1
  <2>2. QED BY <1>1, <1>2, <2>1
<1> HIDE DEF x, y
<1>4. y % Word = x % Word
  BY <1>3, WrapSame
<1>5. QED BY <1>4 DEF GapOf, x, y

\* A later mint adds the same amount to both.
LEMMA MintGap ==
  ASSUME NEW f \in [Addr -> U], NEW t \in U, NEW to \in Addr, NEW l \in Int
  PROVE  GapOf(Credit(f, to, l), WAdd(t, l)) = GapOf(f, t)
<1> DEFINE v == WAdd(f[to], l)
<1>1. f[to] \in Int /\ t \in Int /\ Word \in Int
  <2>1. f[to] \in U
    OBVIOUS
  <2>2. QED BY <2>1, WordAssumption DEF U
<1>2. v \in Int
  BY <1>1, OpsClosed, WordsAreInts
<1>3. PICK k \in Int : v = f[to] + l + k * Word
  BY <1>1, AddWrap
<1>4. PICK j \in Int : WAdd(t, l) = t + l + j * Word
  BY <1>1, AddWrap
<1>5. Credit(f, to, l) = [f EXCEPT ![to] = v]
  BY DEF Credit
<1> HIDE DEF v
<1>6. /\ SumFunction(f) \in Int
      /\ SumFunction(Credit(f, to, l)) = SumFunction(f) + (v - f[to])
  BY <1>2, <1>5, LedgerUpdate
<1> DEFINE x == SumFunction(f) - t
           y == SumFunction(Credit(f, to, l)) - WAdd(t, l)
<1>7. x \in Int /\ y \in Int /\ k - j \in Int /\ y = x + (k - j) * Word
  <2>1. k * Word \in Int /\ j * Word \in Int /\ (k - j) * Word = k * Word - j * Word
    BY <1>1
  <2>2. QED BY <1>1, <1>2, <1>3, <1>4, <1>6, <2>1
<1> HIDE DEF x, y
<1>8. y % Word = x % Word
  BY <1>7, WrapSame
<1>9. QED BY <1>8 DEF GapOf, x, y

\* A transfer takes from one balance what it adds to another, or to the same.
LEMMA MoveGap ==
  ASSUME NEW f \in [Addr -> U], NEW t \in U, NEW a \in Addr, NEW b \in Addr, NEW n \in Int
  PROVE  GapOf(LPMove(f, a, b, n), t) = GapOf(f, t)
<1> DEFINE u == WSub(f[a], n)
           g == [f EXCEPT ![a] = u]
           v == WAdd(g[b], n)
           h == [g EXCEPT ![b] = v]
<1>1. f[a] \in Int /\ t \in Int /\ Word \in Int
  <2>1. f[a] \in U
    OBVIOUS
  <2>2. QED BY <2>1, WordAssumption DEF U
<1>2. u \in U /\ u \in Int
  BY <1>1, OpsClosed, WordsAreInts
<1>3. g \in [Addr -> U]
  BY <1>2
<1>4. PICK k \in Int : u = f[a] - n + k * Word
  BY <1>1, SubWrap
<1>5. SumFunction(f) \in Int /\ SumFunction(g) = SumFunction(f) + (u - f[a])
  BY <1>2, LedgerUpdate
<1>6. LPMove(f, a, b, n) = h
  BY DEF LPMove
<1> HIDE DEF u, g
<1>7. g[b] \in Int
  BY <1>3, WordsAreInts
<1>8. v \in Int
  BY <1>7, OpsClosed, WordsAreInts
<1>9. PICK j \in Int : v = g[b] + n + j * Word
  BY <1>7, AddWrap
<1> HIDE DEF v
<1>10. SumFunction(h) = SumFunction(g) + (v - g[b])
  BY <1>3, <1>8, LedgerUpdate
<1> HIDE DEF h
<1> DEFINE x == SumFunction(f) - t
           y == SumFunction(h) - t
<1>11. x \in Int /\ y \in Int /\ k + j \in Int /\ y = x + (k + j) * Word
  <2>1. k * Word \in Int /\ j * Word \in Int /\ (k + j) * Word = k * Word + j * Word
    BY <1>1
  <2>2. QED BY <1>1, <1>2, <1>4, <1>5, <1>7, <1>8, <1>9, <1>10, <2>1
<1> HIDE DEF x, y
<1>12. y % Word = x % Word
  BY <1>11, WrapSame
<1>13. QED BY <1>6, <1>12 DEF GapOf, x, y

\* The steps that change the ledger or the supply.
LEMMA SettleBurnGap ==
  ASSUME ShareInv, SettleBurn
  PROVE  GapOf(balanceOf', totalSupply') = GapOf(balanceOf, totalSupply)
<1>1. /\ frame.op = "burn" /\ frame.pc = "settle"
      /\ balanceOf' = [balanceOf EXCEPT ![Self] = 0]
      /\ totalSupply' = WSub(frame.ts, frame.liq)
  BY DEF SettleBurn, SupplyLeft, At
<1>2. frame # Idle
  BY <1>1 DEF Idle
<1>3. ~Settled
  BY <1>1, <1>2 DEF ShareInv, CallPath, Settled
<1>4. frame.ts = totalSupply /\ frame.liq = balanceOf[Self]
  BY <1>1, <1>2, <1>3 DEF ShareInv, Books
<1>5. balanceOf \in [Addr -> U] /\ totalSupply \in U
  BY TypeParts DEF ShareInv, IInv
<1>6. QED BY <1>1, <1>4, <1>5, SettledGap

LEMMA MintMoreGap ==
  ASSUME ShareInv, MintMore
  PROVE  GapOf(balanceOf', totalSupply') = GapOf(balanceOf, totalSupply)
<1> DEFINE l == Liquidity(totalSupply)
<1>1. totalSupply' = WAdd(totalSupply, l) /\ balanceOf' = Credit(balanceOf, frame.to, l)
  BY DEF MintMore
<1>2. /\ balanceOf \in [Addr -> U] /\ totalSupply \in U /\ frame.to \in Addr
      /\ frame.b0 \in Int /\ frame.b1 \in Int /\ frame.r0 \in U /\ frame.r1 \in U
  BY TypeParts, WordsAreInts DEF ShareInv, IInv, Frames
<1>3. frame.r0 \in Nat \ {0} /\ frame.r1 \in Nat \ {0}
  BY <1>2 DEF MintMore, U
<1>4. Amount0 \in Int /\ Amount1 \in Int
  BY <1>2, OpsClosed, WordsAreInts DEF Amount0, Amount1
<1>5. WMul(Amount0, totalSupply) \in U /\ WMul(Amount1, totalSupply) \in U
  BY <1>2, <1>4, OpsClosed, WordsAreInts
<1>6. l \in Int
  BY <1>3, <1>5, DivClosed, WordsAreInts DEF Liquidity
<1> HIDE DEF l
<1>7. QED BY <1>1, <1>2, <1>6, MintGap

\* A revert brings back the books of the checkpoint.
LEMMA RevertGap ==
  ASSUME ShareInv, Revert
  PROVE  GapOf(balanceOf', totalSupply') = GapOf(balanceOf, totalSupply)
<1>1. /\ frame # Idle /\ balanceOf' = saved.balanceOf /\ totalSupply' = saved.totalSupply
  BY DEF Revert
<1>2. saved.balanceOf \in [Addr -> U] /\ saved.totalSupply \in U
  BY <1>1, SavedTypes DEF ShareInv, IInv
<1>3. CASE ~Settled
  BY <1>1, <1>3 DEF ShareInv, Books
<1>4. CASE Settled
  <2>1. /\ balanceOf = [saved.balanceOf EXCEPT ![Self] = 0]
        /\ totalSupply = WSub(saved.totalSupply, saved.balanceOf[Self])
    BY <1>1, <1>4 DEF ShareInv, Books
  <2>2. QED BY <1>1, <1>2, <2>1, SettledGap
<1>5. QED BY <1>3, <1>4

LEMMA LPStepGap ==
  ASSUME ShareInv, LPStep
  PROVE  GapOf(balanceOf', totalSupply') = GapOf(balanceOf, totalSupply)
<1>1. balanceOf \in [Addr -> U] /\ totalSupply \in U
  BY TypeParts DEF ShareInv, IInv
<1>2. ASSUME NEW a \in Addr, NEW b \in Addr, NEW n \in Int,
             balanceOf' = LPMove(balanceOf, a, b, n), totalSupply' = totalSupply
      PROVE  GapOf(balanceOf', totalSupply') = GapOf(balanceOf, totalSupply)
  BY <1>1, <1>2, MoveGap
<1>3. LPAmounts \subseteq Int
  BY PairAssumption, WordsAreInts
<1>4. QED BY <1>2, <1>3, Accounts DEF LPStep, Approve, Transfer, TransferFrom

\* In every run of the pair, and for any number of accounts, only a first mint
\* moves the LP balances and totalSupply apart (pair.rs:294-374, 491-531).
THEOREM LedgerStaysInStep == Spec => LedgerInStep
<1>1. ShareInv /\ [Next]_vars =>
        [~(frame.op = "mint" /\ totalSupply = 0) => Gap' = Gap]_vars
  <2> SUFFICES ASSUME ShareInv, [Next]_vars, ~(frame.op = "mint" /\ totalSupply = 0)
               PROVE  GapOf(balanceOf', totalSupply') = GapOf(balanceOf, totalSupply)
    BY DEF Gap, GapOf
  <2>1. CASE UNCHANGED <<balanceOf, totalSupply>>
    BY <2>1
  <2>2. CASE LPStep
    BY <2>2, LPStepGap
  <2>3. CASE SettleBurn \/ MintMore \/ Revert
    BY <2>3, SettleBurnGap, MintMoreGap, RevertGap
  <2>4. ~MintFirst
    BY DEF MintFirst, At
  <2>5. ASSUME ReadBalance0 \/ ReadBalance1 \/ SettleSkim \/ Pay0 \/ Pay1 \/ EndBurn
                 \/ EndSwap \/ EndSkim \/ EndSync
        PROVE  UNCHANGED <<balanceOf, totalSupply>>
    BY <2>5 DEF ReadBalance0, ReadBalance1, SettleSkim, Pay0, Pay1, EndBurn, EndSwap,
       EndSkim, EndSync, storage
  <2>6. Begin \/ Environment \/ UNCHANGED vars => UNCHANGED <<balanceOf, totalSupply>>
    BY BeginSaves DEF Environment, TokenTransfer, storage, vars
  <2>7. QED BY <2>1, <2>2, <2>3, <2>4, <2>5, <2>6 DEF Next, CallStep
<1>2. QED BY <1>1, InitShare, NextShare, PTL DEF Spec, LedgerInStep

-----------------------------------------------------------------------------
(***************************************************************************)
(* The pair implements the ledger LPToken.  What LPToken sees of the pair  *)
(* are the books as they were before the call in progress; the invariant   *)
(* says what the call has made of them meanwhile.                          *)
(***************************************************************************)
LedgerInv == ShareInv /\ SavedAllowance

LEMMA InitLedger == Init => LedgerInv
  BY InitShare DEF LedgerInv, SavedAllowance, Init

LEMMA NextLedger == LedgerInv /\ [Next]_vars => LedgerInv'
<1> SUFFICES ASSUME LedgerInv, [Next]_vars PROVE LedgerInv'
  OBVIOUS
<1>1. TypeOK
  BY DEF LedgerInv, ShareInv, IInv
<1>2. SavedAllowance'
  <2>1. CASE Begin \/ CallStep \/ Environment
    BY <1>1, <2>1, CallAllowance DEF LedgerInv, SavedAllowance
  <2>2. CASE LPStep
    BY <2>2, CallableIdle DEF LPStep, Approve, Transfer, TransferFrom, SavedAllowance
  <2>3. CASE UNCHANGED vars
    BY <2>3 DEF vars, LedgerInv, SavedAllowance
  <2>4. QED BY <2>1, <2>2, <2>3 DEF Next
<1>3. QED BY <1>2, NextShare DEF LedgerInv

\* A sum of natural numbers is a natural number.
LEMMA SumNat ==
  ASSUME NEW D, IsFiniteSet(D), NEW f \in [D -> Int], \A x \in D : f[x] \in Nat
  PROVE  SumFunction(f) \in Nat
<1>1. PICK g : SumFunction(f) = g[D] /\ \A s \in SUBSET D : g[s] = SumStep(f, g, s)
  BY ONLY IsFiniteSet(D), f \in [D -> Int], SumOfSubsets
<1> DEFINE Good == {s \in SUBSET D : g[s] \in Nat}
<1>2. {} \in Good
  <2>1. {} \in SUBSET D /\ SumStep(f, g, {}) = 0
    BY DEF SumStep
  <2>2. g[{}] = 0
    BY <1>1, <2>1
  <2>3. QED BY <2>1, <2>2
<1>3. ASSUME NEW s \in SUBSET D, s # {}, s \ {First(s)} \in Good
      PROVE  s \in Good
  <2>1. First(s) \in D
    BY <1>3 DEF First
  <2>2. g[s] = f[First(s)] + g[s \ {First(s)}]
    BY <1>1, <1>3 DEF SumStep
  <2>3. f[First(s)] \in Nat /\ g[s \ {First(s)}] \in Nat
    BY <1>3, <2>1
  <2>4. QED BY <2>2, <2>3
<1>4. D \in Good
  <2>1. Good \in SUBSET (SUBSET D)
    OBVIOUS
  <2> HIDE DEF Good
  <2>2. QED BY <1>2, <1>3, <2>1, SubsetInduction
<1>5. QED BY <1>1, <1>4

\* The shares of a mint within the bound of the model.
LEMMA SharesWithin ==
  ASSUME TypeOK, NEW n \in Nat, n # 0, WithinBound(n)
  PROVE  n \in 1 .. MaxLP
<1>1. balanceOf \in [Addr -> Int] /\ \A a \in Addr : balanceOf[a] \in Nat
  BY TypeParts DEF U
<1>2. SumFunction(balanceOf) \in Nat /\ MaxLP \in Nat
  BY <1>1, FiniteAccounts, SumNat, PairAssumption
<1>3. QED BY <1>2 DEF WithinBound

\* LPToken sees the books of now between calls and those of the checkpoint
\* inside one.
LEMMA SeenIdle ==
  ASSUME frame = Idle
  PROVE  /\ Committed.totalSupply = totalSupply /\ Committed.balanceOf = balanceOf
         /\ Committed.allowance = allowance
  BY DEF Committed, Checkpoint

LEMMA SeenIdleNext ==
  ASSUME frame' = Idle
  PROVE  /\ Committed.totalSupply' = totalSupply' /\ Committed.balanceOf' = balanceOf'
         /\ Committed.allowance' = allowance'
  BY DEF Committed, Checkpoint

LEMMA SeenBusy == ASSUME frame # Idle PROVE Committed = saved
  BY DEF Committed

\* What neither changes the books nor ends a call is not seen.
LEMMA Unseen ==
  ASSUME Committed.totalSupply' = Committed.totalSupply,
         Committed.balanceOf' = Committed.balanceOf,
         Committed.allowance' = Committed.allowance
  PROVE  UNCHANGED Ledger!vars
  BY DEF Ledger!vars

LEMMA BeginUnseen ==
  ASSUME Begin
  PROVE  UNCHANGED Ledger!vars
<1>1. /\ saved' = Checkpoint /\ frame = Idle
      /\ UNCHANGED <<totalSupply, balanceOf, allowance>>
  BY BeginSaves
<1>2. CASE frame' = Idle
  BY <1>1, <1>2, SeenIdle, SeenIdleNext, Unseen
<1>3. CASE frame' # Idle
  <2>1. Committed' = Checkpoint /\ Committed = Checkpoint
    BY <1>1, <1>3 DEF Committed
  <2>2. QED BY <2>1, Unseen
<1>4. QED BY <1>2, <1>3

LEMMA InsideUnseen ==
  ASSUME TypeOK, ReadBalance0 \/ ReadBalance1 \/ Pay0 \/ Pay1 \/ SettleBurn \/ SettleSkim
  PROVE  UNCHANGED Ledger!vars
<1>1. frame # Idle /\ saved' = saved /\ frame \in Frames
  BY InsideLocals, TypeParts
<1>2. frame'.pc \in {"bal0", "bal1", "settle", "pay0", "pay1", "end"}
  BY <1>1 DEF ReadBalance0, ReadBalance1, Pay0, Pay1, SettleBurn, SettleSkim, Frames
<1>3. frame' # Idle
  BY <1>2 DEF Idle
<1>4. Committed' = Committed
  BY <1>1, <1>3 DEF Committed
<1>5. QED BY <1>4, Unseen

\* swap, skim, sync and a call that fails leave the books as they were.
LEMMA EndUnseen ==
  ASSUME LedgerInv, EndSwap \/ EndSkim \/ EndSync \/ Revert
  PROVE  UNCHANGED Ledger!vars
<1>1. frame # Idle /\ frame' = Idle
  BY DEF EndSwap, EndSkim, EndSync, Revert, Finish, At, Idle
<1>2. /\ totalSupply' = saved.totalSupply /\ balanceOf' = saved.balanceOf
      /\ allowance' = saved.allowance
  <2>1. CASE Revert
    BY <2>1 DEF Revert
  <2>2. CASE EndSwap \/ EndSkim \/ EndSync
    <3>1. /\ UNCHANGED <<totalSupply, balanceOf, allowance>>
          /\ frame.op \in {"swap", "skim", "sync"}
      BY <2>2 DEF EndSwap, EndSkim, EndSync, At
    <3>2. QED BY <1>1, <3>1 DEF LedgerInv, SavedAllowance, ShareInv, Books, Settled
  <2>3. QED BY <2>1, <2>2
<1>3. QED BY <1>1, <1>2, SeenBusy, SeenIdleNext, Unseen

\* The books that a mint works on are those of its checkpoint.
LEMMA MintBooks ==
  ASSUME LedgerInv, At("mint", "end")
  PROVE  /\ frame # Idle /\ frame.to \in Addr
         /\ Committed.totalSupply = totalSupply /\ Committed.balanceOf = balanceOf
         /\ Committed.allowance = allowance
<1>1. frame # Idle
  BY DEF At, Idle
<1>2. /\ balanceOf = saved.balanceOf /\ totalSupply = saved.totalSupply
      /\ saved.allowance = allowance
  BY <1>1 DEF LedgerInv, SavedAllowance, ShareInv, Books, Settled, At
<1>3. frame.to \in Addr
  BY TypeParts DEF LedgerInv, ShareInv, IInv, Frames
<1>4. QED BY <1>1, <1>2, <1>3, SeenBusy

LEMMA MintFirstSeen ==
  ASSUME LedgerInv, MintFirst
  PROVE  Ledger!Next
<1> DEFINE root == sqrt_u256(WMul(Amount0, Amount1))
           n == root - MINIMUM_LIQUIDITY
<1>1. /\ At("mint", "end") /\ totalSupply = 0 /\ root > MINIMUM_LIQUIDITY /\ WithinBound(n)
      /\ totalSupply' = MINIMUM_LIQUIDITY /\ allowance' = allowance /\ frame' = Idle
      /\ balanceOf' = Credit([balanceOf EXCEPT ![Zero] = MINIMUM_LIQUIDITY], frame.to, n)
  BY DEF MintFirst, Finish
<1>2. TypeOK
  BY DEF LedgerInv, ShareInv, IInv
<1>3. /\ frame.b0 \in U /\ frame.b1 \in U /\ frame.r0 \in Int /\ frame.r1 \in Int
  BY <1>2, TypeParts, WordsAreInts DEF Frames
<1>4. Amount0 \in Int /\ Amount1 \in Int
  BY <1>3, OpsClosed, WordsAreInts DEF Amount0, Amount1
<1>5. WMul(Amount0, Amount1) \in Nat
  BY <1>4, OpsClosed DEF U
<1>6. root \in Int /\ MINIMUM_LIQUIDITY \in Int
  BY <1>5, FloorRootExists, Numbers, WordsAreInts DEF sqrt_u256
<1> HIDE DEF root
<1>7. n \in Nat /\ n # 0
  BY <1>1, <1>6
<1>8. n \in 1 .. MaxLP
  BY <1>1, <1>2, <1>7, SharesWithin
<1>9. Ledger!MintFirst(frame.to, n)
  BY <1>1, MintBooks, SeenIdleNext DEF Ledger!MintFirst, Ledger!Given, Credit, WAdd
<1>10. QED BY <1>1, <1>8, <1>9, MintBooks DEF Ledger!Next

LEMMA MintMoreSeen ==
  ASSUME LedgerInv, MintMore
  PROVE  Ledger!Next
<1> DEFINE n == Liquidity(totalSupply)
<1>1. /\ At("mint", "end") /\ totalSupply # 0 /\ n # 0 /\ WithinBound(n)
      /\ totalSupply' = WAdd(totalSupply, n) /\ allowance' = allowance /\ frame' = Idle
      /\ balanceOf' = Credit(balanceOf, frame.to, n)
  BY DEF MintMore, Finish
<1>2. TypeOK
  BY DEF LedgerInv, ShareInv, IInv
<1>3. n \in Nat
  <2>1. /\ frame.b0 \in U /\ frame.b1 \in U /\ frame.r0 \in U /\ frame.r1 \in U
        /\ totalSupply \in U
    BY <1>2, TypeParts DEF Frames
  <2>2. Amount0 \in Int /\ Amount1 \in Int
    BY <2>1, OpsClosed, WordsAreInts DEF Amount0, Amount1
  <2>3. WMul(Amount0, totalSupply) \in U /\ WMul(Amount1, totalSupply) \in U
    BY <2>1, <2>2, OpsClosed, WordsAreInts
  <2>4. frame.r0 \in Nat \ {0} /\ frame.r1 \in Nat \ {0}
    BY <2>1 DEF MintMore, U
  <2>5. n \in U
    BY <2>3, <2>4, DivClosed DEF Liquidity
  <2>6. QED BY <2>5 DEF U
<1> HIDE DEF n
<1>4. n \in 1 .. MaxLP
  BY <1>1, <1>2, <1>3, SharesWithin
<1>5. Ledger!Mint(frame.to, n)
  BY <1>1, MintBooks, SeenIdleNext DEF Ledger!Mint, Ledger!Given, Credit, WAdd
<1>6. QED BY <1>1, <1>4, <1>5, MintBooks DEF Ledger!Next

\* burn takes the shares that the pair held when the call began.
LEMMA EndBurnSeen ==
  ASSUME LedgerInv, EndBurn
  PROVE  Ledger!Next
<1>1. /\ frame.op = "burn" /\ frame.pc = "end" /\ frame' = Idle
      /\ UNCHANGED <<totalSupply, balanceOf, allowance>>
  BY DEF EndBurn, Finish, At
<1>2. frame # Idle
  BY <1>1 DEF Idle
<1>3. Settled
  BY <1>1, <1>2 DEF LedgerInv, ShareInv, CallPath, Settled
<1>4. /\ balanceOf = [saved.balanceOf EXCEPT ![Self] = 0] /\ saved.balanceOf[Self] # 0
      /\ totalSupply = WSub(saved.totalSupply, saved.balanceOf[Self])
      /\ allowance = saved.allowance
  BY <1>1, <1>2, <1>3 DEF LedgerInv, ShareInv, Books, SavedAllowance
<1>5. Ledger!Burn
  BY <1>1, <1>2, <1>4, SeenBusy, SeenIdleNext DEF Ledger!Burn, WSub
<1>6. QED BY <1>5 DEF Ledger!Next

\* LPMove is a transfer, from one account to another or to itself.
LEMMA MoveSeen ==
  ASSUME NEW f \in [Addr -> U], NEW a \in Addr, NEW b \in Addr, NEW n \in U, n <= f[a]
  PROVE  LPMove(f, a, b, n) = Ledger!Moved(f, a, b, n)
<1>1. f[a] \in Nat /\ f[a] < Word /\ n \in Nat /\ Word \in Nat
  BY WordAssumption DEF U
<1>2. WSub(f[a], n) = f[a] - n
  BY <1>1, SubCases
<1>3. CASE a = b
  <2>1. WAdd(f[a] - n, n) = f[a]
    BY <1>1 DEF WAdd
  <2>2. LPMove(f, a, b, n) = f
    BY <1>2, <1>3, <2>1 DEF LPMove
  <2>3. QED BY <1>3, <2>2 DEF Ledger!Moved
<1>4. CASE a # b
  BY <1>2, <1>4 DEF LPMove, Ledger!Moved, WAdd
<1>5. QED BY <1>3, <1>4

LEMMA LPStepSeen ==
  ASSUME LedgerInv, LPStep
  PROVE  Ledger!Next
<1>1. /\ totalSupply \in U /\ balanceOf \in [Addr -> U] /\ allowance \in [Addr -> [Addr -> U]]
  BY TypeParts DEF LedgerInv, ShareInv, IInv
<1>2. frame = Idle /\ frame' = Idle
  BY CallableIdle DEF LPStep, Approve, Transfer, TransferFrom
<1>3. Users \subseteq Addr /\ Holders \subseteq Addr /\ LPAmounts \subseteq U
  BY Accounts, PairAssumption DEF Holders
<1>4. ASSUME NEW a \in Users, NEW b \in Users, NEW n \in Approvals, Approve(a, b, n)
      PROVE  Ledger!Next
  <2>1. Ledger!Approve(a, b, n)
    BY <1>2, <1>4, SeenIdle, SeenIdleNext DEF Approve, Ledger!Approve
  <2>2. QED BY <1>3, <2>1 DEF Ledger!Next
<1>5. ASSUME NEW a \in Users, NEW b \in Holders, NEW n \in LPAmounts, Transfer(a, b, n)
      PROVE  Ledger!Next
  <2>1. n <= balanceOf[a]
    BY <1>1, <1>3, <1>5 DEF Transfer, U
  <2>2. balanceOf' = Ledger!Moved(balanceOf, a, b, n)
    BY <1>1, <1>3, <1>5, <2>1, MoveSeen DEF Transfer
  <2>3. Ledger!Transfer(a, b, n)
    BY <1>2, <1>5, <2>1, <2>2, SeenIdle, SeenIdleNext DEF Transfer, Ledger!Transfer
  <2>4. QED BY <1>3, <2>3 DEF Ledger!Next
<1>6. ASSUME NEW s \in Users, NEW a \in Users, NEW b \in Holders, NEW n \in LPAmounts,
             TransferFrom(s, a, b, n)
      PROVE  Ledger!Next
  <2> DEFINE allow == allowance[a][s]
  <2>1. n <= balanceOf[a]
    BY <1>1, <1>3, <1>6 DEF TransferFrom, U
  <2>2. balanceOf' = Ledger!Moved(balanceOf, a, b, n)
    BY <1>1, <1>3, <1>6, <2>1, MoveSeen DEF TransferFrom
  <2>3. allow \in U /\ n \in U /\ Word \in Nat
    BY <1>1, <1>3, WordAssumption
  <2>4. n <= allow
    <3>1. ~(allow # MAX /\ allow < n)
      BY <1>6 DEF TransferFrom
    <3>2. QED BY <2>3, <3>1 DEF U, MAX
  <2>5. WSub(allow, n) = allow - n
    BY <2>3, <2>4, SubCases
  <2>6. allowance' = IF allow = Word - 1 THEN allowance
                     ELSE [allowance EXCEPT ![a][s] = @ - n]
    <3>1. allowance' = [allowance EXCEPT ![a][s] = AllowanceLeft(allow, n)]
      BY <1>6 DEF TransferFrom
    <3>2. CASE allow = MAX
      BY <1>1, <1>3, <3>1, <3>2 DEF AllowanceLeft, MAX
    <3>3. CASE allow # MAX
      BY <2>5, <3>1, <3>3 DEF AllowanceLeft, MAX
    <3>4. QED BY <3>2, <3>3
  <2>7. Ledger!TransferFrom(s, a, b, n)
    BY <1>2, <1>6, <2>1, <2>2, <2>4, <2>6, SeenIdle, SeenIdleNext
       DEF TransferFrom, Ledger!TransferFrom
  <2>8. QED BY <1>3, <2>7 DEF Ledger!Next
<1>7. QED BY <1>4, <1>5, <1>6 DEF LPStep

LEMMA LedgerInit == Init => Ledger!Init
  BY SeenIdle DEF Init, Ledger!Init

LEMMA LedgerStep == LedgerInv /\ [Next]_vars => [Ledger!Next]_(Ledger!vars)
<1> SUFFICES ASSUME LedgerInv, [Next]_vars, ~(UNCHANGED Ledger!vars) PROVE Ledger!Next
  OBVIOUS
<1>1. TypeOK
  BY DEF LedgerInv, ShareInv, IInv
<1>2. CASE Begin
  BY <1>2, BeginUnseen
<1>3. CASE CallStep
  BY <1>1, <1>3, InsideUnseen, EndUnseen, MintFirstSeen, MintMoreSeen, EndBurnSeen
     DEF CallStep
<1>4. CASE LPStep
  BY <1>4, LPStepSeen
<1>5. CASE Environment \/ UNCHANGED vars
  <2>1. UNCHANGED <<totalSupply, balanceOf, allowance, frame, saved>>
    BY <1>5 DEF Environment, TokenTransfer, storage, vars
  <2>2. CASE frame = Idle
    BY <2>1, <2>2, SeenIdle, SeenIdleNext, Unseen
  <2>3. CASE frame # Idle
    BY <2>1, <2>3, Unseen DEF Committed
  <2>4. QED BY <2>2, <2>3
<1>6. QED BY <1>2, <1>3, <1>4, <1>5 DEF Next

\* For every set of accounts and amounts, the pair with its steps, its reverts
\* and the calls of the tokens behaves to its shareholders as a ledger whose
\* operations are atomic (pair.rs:294-374, 491-531).
THEOREM LPTokenImplemented == Spec => ImplementsLPToken
BY InitLedger, NextLedger, LedgerInit, LedgerStep, PTL DEF Spec, ImplementsLPToken, Ledger!Spec

\* The history of grants does not restrict the pair.
LEMMA HistoryStep == [NextA]_varsA => [Next]_vars
<1>1. Owners \subseteq Users /\ Spenders \subseteq Users
  BY AllowanceAssumption
<1>2. NextA => Next
  BY <1>1 DEF NextA, Next, LPStep, ApproveA, TransferFromA
<1>3. UNCHANGED varsA => UNCHANGED vars
  BY DEF varsA
<1>4. QED BY <1>2, <1>3

\* The same holds of every run of the pair that is watched by the history of
\* grants (pair.rs:491-531).
THEOREM WatchedLPToken == SpecA => ImplementsLPToken
<1>1. InitA => Init
  BY DEF InitA
<1>2. QED BY <1>1, InitLedger, NextLedger, LedgerInit, LedgerStep, HistoryStep, PTL
       DEF SpecA, ImplementsLPToken, Ledger!Spec

=============================================================================
