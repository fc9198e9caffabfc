--------------------------- MODULE MCPairAllowance --------------------------
(***************************************************************************)
(* PairAllowance on small words, for the model checker.                    *)
(***************************************************************************)
EXTENDS PairAllowance, PairLedger, Bitwise

CONSTANT Funder     \* the user who owns all the tokens at the start

MCBitOr(a, b) == a | b

MCInitTok ==
  [t \in Tokens |-> [a \in Addr |-> IF a = Funder THEN TokenMax ELSE 0]]

MCApprovals == {1, 2, MAX}

=============================================================================
