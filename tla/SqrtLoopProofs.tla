--------------------------- MODULE SqrtLoopProofs ---------------------------
(***************************************************************************)
(* sqrt_u256 is correct for every width of word.  The inductive invariant  *)
(* says that both approximations stay above the root, and that the next    *)
(* approximation is the Newton step of the last one.                       *)
(***************************************************************************)
EXTENDS SqrtLoop, U256Proofs

\* The next approximation is a Newton step from the last one, except on entry.
NewtonStep ==
  \/ z = y /\ x = y \div 2 + 1
  \/ z >= 2 /\ x = ((y \div z) + z) \div 2

\* The inductive invariant of the loop.
LoopInv ==
  pc = "loop" =>
    /\ y > 3
    /\ x >= 2 /\ x <= y \div 2 + 1
    /\ y < (x + 1) * (x + 1)
    /\ y < (z + 1) * (z + 1)
    /\ NewtonStep

IInv == TypeOK /\ LoopInv /\ RootCorrect

-----------------------------------------------------------------------------
\* What the quotient of two naturals is.
LEMMA DivBounds ==
  ASSUME NEW a \in Nat, NEW b \in Nat \ {0}
  PROVE  /\ a \div b \in Nat
         /\ (a \div b) * b <= a
         /\ a < (a \div b) * b + b
  OBVIOUS

\* The square of a sum is at least four times the product.
LEMMA SquareOfSum ==
  ASSUME NEW a \in Nat, NEW b \in Nat
  PROVE  4 * (a * b) <= (a + b) * (a + b)
<1>1. 0 <= (a - b) * (a - b)
  OBVIOUS
<1>2. (a + b) * (a + b) = (a - b) * (a - b) + 4 * (a * b)
  OBVIOUS
<1>3. a * b \in Nat /\ (a - b) * (a - b) \in Int
  OBVIOUS
<1>4. QED BY <1>1, <1>2, <1>3

\* A Newton step never falls below the root (math.rs:12).
LEMMA NewtonAbove ==
  ASSUME NEW n \in Nat, NEW a \in Nat \ {0}, NEW b \in Nat,
         b = ((n \div a) + a) \div 2
  PROVE  n < (b + 1) * (b + 1)
<1> DEFINE q == n \div a
<1>1. q \in Nat /\ n < q * a + a
  BY DivBounds
<1> HIDE DEF q
<1>2. q + 1 + a <= 2 * (b + 1)
  BY <1>1 DEF q
<1>3. (q + 1) * a = q * a + a
  BY <1>1
<1>4. 4 * ((q + 1) * a) <= (q + 1 + a) * (q + 1 + a)
  BY <1>1, SquareOfSum
<1>5. (q + 1 + a) * (q + 1 + a) <= (2 * (b + 1)) * (2 * (b + 1))
  BY <1>1, <1>2
<1>6. (2 * (b + 1)) * (2 * (b + 1)) = 4 * ((b + 1) * (b + 1))
  OBVIOUS
<1>7. QED BY <1>1, <1>3, <1>4, <1>5, <1>6

\* The sum y / x + x of the loop body is at least 4 and at most y / 2 + 2.
LEMMA NewtonSum ==
  ASSUME NEW n \in Nat, n > 3, NEW a \in Nat, a >= 2, a <= n \div 2 + 1
  PROVE  /\ (n \div a) + a >= 4
         /\ (n \div a) + a <= n \div 2 + 2
<1> DEFINE q == n \div a
<1>1. q \in Nat /\ q * a <= n /\ n < q * a + a
  BY DivBounds
<1> HIDE DEF q
<1>2. q + a >= 4
  <2>1. CASE a = 2
    BY <1>1, <2>1
  <2>2. CASE a > 2
    <3>1. a <= n
      OBVIOUS
    <3>2. q # 0
      BY <1>1, <3>1
    <3>3. QED BY <1>1, <2>2, <3>2
  <2>3. QED BY <2>1, <2>2
<1>3. q + a <= n \div 2 + 2
  <2>1. CASE q <= 1
    BY <1>1, <2>1
  <2>2. CASE q >= 2
    <3>1. 0 <= (q - 2) * (a - 2)
      BY <1>1, <2>2
    <3>2. (q - 2) * (a - 2) = q * a - 2 * (q + a) + 4
      BY <1>1
    <3>3. q * a \in Nat /\ 2 * (q + a) <= n + 4
      BY <1>1, <3>1, <3>2
    <3>4. QED BY <1>1, <3>3
  <2>3. QED BY <1>1, <2>1, <2>2
<1>4. QED BY <1>2, <1>3 DEF q

\* The branches of sqrt_u256 on entry establish the invariant.
LEMMA StartInv == Init => IInv
<1> SUFFICES ASSUME Init PROVE IInv
  OBVIOUS
<1> USE WordAssumption
<1>1. y \in Nat /\ y < Word
  BY DEF Init, U
<1>2. CASE y > 3
  <2>1. z = y /\ pc = "loop" /\ y \div 2 + 1 < Word /\ x = y \div 2 + 1
    BY <1>1, <1>2 DEF Init, Start, WAdd
  <2>2. TypeOK
    BY <1>1, <1>2, <2>1 DEF TypeOK, U
  <2>3. 2 * x > y /\ x >= 2 /\ x \in Nat
    BY <1>1, <1>2, <2>1
  <2>4. (x + 1) * (x + 1) = x * x + 2 * x + 1 /\ x * x >= 0
    BY <2>3
  <2>5. y < (x + 1) * (x + 1)
    BY <1>1, <2>3, <2>4
  <2>6. y < (y + 1) * (y + 1)
    BY <1>1
  <2>7. QED BY <1>2, <2>1, <2>2, <2>3, <2>5, <2>6 DEF IInv, LoopInv, NewtonStep, RootCorrect
<1>3. CASE y <= 3
  <2>1. z \in {0, 1} /\ x = 0 /\ pc = "done" /\ IsFloorRoot(z, y) /\ z <= y
    BY <1>1, <1>3 DEF Init, Start, IsFloorRoot
  <2>2. QED BY <1>1, <2>1 DEF IInv, TypeOK, LoopInv, RootCorrect, U
<1>4. QED BY <1>1, <1>2, <1>3

\* One iteration of the loop keeps the invariant.
LEMMA IterateInv == IInv /\ Iterate => IInv'
<1> SUFFICES ASSUME IInv, Iterate PROVE IInv'
  OBVIOUS
<1> USE WordAssumption
<1>1. /\ y \in Nat /\ y < Word /\ y > 3
      /\ x \in Nat /\ x >= 2 /\ x <= y \div 2 + 1
      /\ y < (x + 1) * (x + 1)
  BY DEF IInv, TypeOK, LoopInv, Iterate, More, U
<1>2. /\ (y \div x) + x >= 4 /\ (y \div x) + x <= y \div 2 + 2
      /\ (y \div x) + x \in Nat
  <2>1. (y \div x) + x >= 4 /\ (y \div x) + x <= y \div 2 + 2
    BY <1>1, NewtonSum
  <2>2. y \div x \in Nat
    BY <1>1, DivBounds
  <2>3. QED BY <1>1, <2>1, <2>2
<1>3. (y \div x) + x < Word
  BY <1>1, <1>2
<1>4. /\ y' = y /\ pc' = "loop" /\ z' = x
      /\ x' = ((y \div x) + x) \div 2
  BY <1>2, <1>3 DEF Iterate, More, IInv, WAdd
<1>5. x' \in Nat /\ x' >= 2 /\ x' <= y \div 2 + 1
  BY <1>1, <1>2, <1>4
<1>6. y < (x' + 1) * (x' + 1)
  BY <1>1, <1>4, <1>5, NewtonAbove
<1>7. TypeOK'
  BY <1>1, <1>3, <1>4, <1>5 DEF TypeOK, U
<1>8. LoopInv'
  BY <1>1, <1>4, <1>5, <1>6 DEF LoopInv, NewtonStep
<1>9. QED BY <1>4, <1>7, <1>8 DEF IInv, RootCorrect

\* When the loop ends, z is the root.
LEMMA ExitInv == IInv /\ Exit => IInv'
<1> SUFFICES ASSUME IInv, Exit PROVE IInv'
  OBVIOUS
<1>1. /\ y \in Nat /\ z \in Nat /\ x \in Nat /\ y > 3
      /\ y < (z + 1) * (z + 1) /\ x >= z /\ NewtonStep
  BY WordAssumption DEF IInv, TypeOK, LoopInv, Exit, More, U
<1>2. ~(z = y /\ x = y \div 2 + 1)
  BY <1>1
<1>3. z >= 2 /\ x = ((y \div z) + z) \div 2
  BY <1>1, <1>2 DEF NewtonStep
<1>4. (y \div z) \in Nat /\ (y \div z) * z <= y
  BY <1>1, <1>3, DivBounds
<1>5. y \div z >= z
  BY <1>1, <1>3, <1>4
<1>6. z * z <= (y \div z) * z
  BY <1>1, <1>4, <1>5
<1>7. z * z <= y
  BY <1>1, <1>4, <1>6
<1>8. QED BY <1>1, <1>7 DEF IInv, TypeOK, LoopInv, RootCorrect, IsFloorRoot, Exit, More

\* The invariant holds at every step of every call.
LEMMA LoopInvariant == Spec => []IInv
<1>1. IInv /\ [Next]_vars => IInv'
  <2> SUFFICES ASSUME IInv, [Next]_vars PROVE IInv'
    OBVIOUS
  <2>1. CASE UNCHANGED vars
    BY <2>1 DEF vars, IInv, TypeOK, LoopInv, NewtonStep, RootCorrect, IsFloorRoot
  <2>2. CASE Return
    BY <2>1, <2>2 DEF Return, vars, IInv, TypeOK, LoopInv, NewtonStep, RootCorrect, IsFloorRoot
  <2>3. QED BY <2>1, <2>2, IterateInv, ExitInv DEF Next
<1>2. QED BY <1>1, StartInv, PTL DEF Spec

-----------------------------------------------------------------------------
\* Every value the locals of sqrt_u256 take is a word.
THEOREM TypeCorrect == Spec => []TypeOK
<1>1. IInv => TypeOK
  BY DEF IInv
<1>2. QED BY <1>1, LoopInvariant, PTL

\* For every word width and every argument, what sqrt_u256 returns is the
\* integer square root of the argument (math.rs:6-20).
THEOREM SqrtCorrect == Spec => []RootCorrect
<1>1. IInv => RootCorrect
  BY DEF IInv
<1>2. QED BY <1>1, LoopInvariant, PTL

\* The pair contract may take the root by its definition: the value the loop
\* returns is sqrt_u256(y), the only integer square root (math.rs:14).
THEOREM LoopReturnsRoot == Spec => [](pc = "done" => z = sqrt_u256(y))
<1>1. IInv => (pc = "done" => z = sqrt_u256(y))
  <2> SUFFICES ASSUME IInv, pc = "done" PROVE z = sqrt_u256(y)
    OBVIOUS
  <2>1. y \in Nat /\ z \in Nat /\ IsFloorRoot(z, y)
    BY WordAssumption DEF IInv, TypeOK, RootCorrect, U
  <2>2. sqrt_u256(y) \in 0 .. y /\ IsFloorRoot(sqrt_u256(y), y)
    BY <2>1, FloorRootExists DEF sqrt_u256
  <2>3. QED BY <2>1, <2>2, FloorRootUnique
<1>2. QED BY <1>1, LoopInvariant, PTL

\* For every word width and every argument, no iteration of sqrt_u256 wraps
\* or divides by zero (math.rs:12).
THEOREM SqrtNeverWraps == Spec => []NoWrapInLoop
<1>1. IInv => NoWrapInLoop
  <2> SUFFICES ASSUME IInv, pc = "loop"
               PROVE  x > 0 /\ (y \div x) + x < Word
    BY DEF NoWrapInLoop
  <2>1. /\ y \in Nat /\ y < Word /\ y > 3
        /\ x \in Nat /\ x >= 2 /\ x <= y \div 2 + 1
    BY WordAssumption DEF IInv, TypeOK, LoopInv, U
  <2>2. (y \div x) + x <= y \div 2 + 2
    BY <2>1, NewtonSum
  <2>3. y \div x \in Nat
    BY <2>1, DivBounds
  <2>4. QED BY <2>1, <2>2, <2>3, WordAssumption
<1>2. QED BY <1>1, LoopInvariant, PTL

=============================================================================
