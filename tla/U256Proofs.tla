----------------------------- MODULE U256Proofs -----------------------------
(***************************************************************************)
(* Facts about machine words and integer square roots that the proofs of   *)
(* the contracts cite.                                                     *)
(***************************************************************************)
EXTENDS U256, TLAPS, WellFoundedInduction

\* Every result taken modulo 2^256 is a word.
LEMMA WordClosed == \A n \in Int : n % Word \in U
  BY WordAssumption DEF U

\* A result that is already a word is not changed.
LEMMA WordFixed == \A n \in U : n % Word = n
  BY WordAssumption DEF U

\* The wrapping operations return words.
LEMMA OpsClosed ==
  ASSUME NEW a \in Int, NEW b \in Int
  PROVE  WAdd(a, b) \in U /\ WSub(a, b) \in U /\ WMul(a, b) \in U
<1>1. a + b \in Int /\ a - b \in Int /\ a * b \in Int
  OBVIOUS
<1>2. QED BY <1>1, WordClosed DEF WAdd, WSub, WMul

\* A subtraction wraps exactly when its result would be negative.
LEMMA SubCases ==
  ASSUME NEW a \in U, NEW b \in U
  PROVE  WSub(a, b) = IF b <= a THEN a - b ELSE a - b + Word
  BY WordAssumption DEF WSub, U

\* A division does not leave the words.
LEMMA DivClosed ==
  ASSUME NEW a \in U, NEW b \in Nat \ {0}
  PROVE  a \div b \in U
<1>1. a \in Nat /\ a < Word /\ a \div b \in Nat /\ (a \div b) * b <= a
  BY WordAssumption DEF U
<1>2. (a \div b) * 1 <= (a \div b) * b
  BY <1>1
<1>3. a \div b <= a
  BY <1>1, <1>2
<1>4. QED BY <1>1, <1>3, WordAssumption DEF U

\* The quotient and the remainder of a word that is below the divisor.
LEMMA SmallDivMod ==
  ASSUME NEW a \in Nat, NEW b \in Nat, a < b
  PROVE  a \div b = 0 /\ a % b = a
  OBVIOUS

-----------------------------------------------------------------------------
LEMMA LessWellFounded ==
  IsWellFoundedOn({ss \in Nat \X Nat : ss[1] < ss[2]}, Nat)
  BY NatLessThanWellFounded DEF OpToRel

\* Every set of naturals that is not empty has a least element.
LEMMA LeastElement ==
  ASSUME NEW S \in SUBSET Nat, S # {}
  PROVE  \E m \in S : \A k \in S : m <= k
<1> DEFINE Less == {ss \in Nat \X Nat : ss[1] < ss[2]}
<1>1. IsWellFoundedOn(Less, Nat)
  BY LessWellFounded
<1> HIDE DEF Less
<1>2. PICK m \in S : \A k \in S : ~(<<k, m>> \in Less)
  BY <1>1, WFMin
<1>3. \A k \in S : ~(k < m)
  BY <1>2 DEF Less
<1>4. QED BY <1>3

\* Every natural has an integer square root, no larger than itself.
LEMMA FloorRootExists ==
  ASSUME NEW y \in Nat
  PROVE  \E r \in 0 .. y : IsFloorRoot(r, y)
<1> DEFINE S == {r \in Nat : y < (r + 1) * (r + 1)}
<1>1. y < (y + 1) * (y + 1)
  OBVIOUS
<1>2. S \in SUBSET Nat /\ y \in S
  BY <1>1
<1>3. PICK m \in S : \A k \in S : m <= k
  BY <1>2, LeastElement
<1>4. m * m <= y
  <2>1. CASE m = 0
    BY <2>1
  <2>2. CASE m > 0
    <3>1. m - 1 \in Nat /\ ~(m - 1 \in S)
      BY <1>3, <2>2
    <3>2. QED BY <3>1
  <2>3. QED BY <1>3, <2>1, <2>2
<1>5. m <= y
  BY <1>2, <1>3
<1>6. QED BY <1>3, <1>4, <1>5 DEF IsFloorRoot

\* The integer square root is unique, so a root found by any method, such as
\* the loop of math.rs, is the one a specification chooses.
LEMMA FloorRootUnique ==
  ASSUME NEW y \in Nat, NEW a \in Nat, NEW b \in Nat,
         IsFloorRoot(a, y), IsFloorRoot(b, y)
  PROVE  a = b
<1>1. ASSUME NEW c \in Nat, NEW d \in Nat, c * c <= y, y < (d + 1) * (d + 1)
      PROVE  c <= d
  <2> SUFFICES ASSUME d + 1 <= c PROVE FALSE
    BY <1>1
  <2>1. (d + 1) * (d + 1) <= (d + 1) * c /\ (d + 1) * c <= c * c
    OBVIOUS
  <2>2. QED BY <1>1, <2>1
<1>2. a <= b /\ b <= a
  BY <1>1 DEF IsFloorRoot
<1>3. QED BY <1>2

=============================================================================
