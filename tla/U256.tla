-------------------------------- MODULE U256 --------------------------------
(***************************************************************************)
(* The unsigned machine words the contracts compute with.                  *)
(*                                                                         *)
(* alloy_primitives::U256 (external) implements +, - and * as wrapping     *)
(* operations modulo 2^256.  Word stands for 2^256: the model checker uses *)
(* a small power of two, the theorems hold for every positive Word.        *)
(***************************************************************************)
EXTENDS Integers

CONSTANT Word     \* one more than the largest word: 2^256 in the program

ASSUME WordAssumption == Word \in Nat \ {0}

U == 0 .. Word - 1

WAdd(a, b) == (a + b) % Word
WSub(a, b) == (a - b) % Word
WMul(a, b) == (a * b) % Word

\* The integer square root, and math::sqrt_u256 by what it computes: module
\* SqrtLoop has the loop itself and SqrtLoopProofs shows that it returns this.
IsFloorRoot(r, y) == r * r <= y /\ y < (r + 1) * (r + 1)
sqrt_u256(y) == CHOOSE r \in 0 .. y : IsFloorRoot(r, y)

=============================================================================
