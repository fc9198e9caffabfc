------------------------------ MODULE SqrtLoop ------------------------------
(***************************************************************************)
(* math::sqrt_u256 of uniswap-rust/src/math.rs, one step per iteration of  *)
(* its while loop.  y is the argument, z and x are the two locals, and the *)
(* function returns z.                                                     *)
(***************************************************************************)
EXTENDS U256

VARIABLES y, z, x, pc

vars == <<y, z, x, pc>>

\* Mutant: the first estimate is y + 1, which wraps to 0.
StartAtArgument ==
  \/ /\ y > 3
     /\ z = y
     /\ x = WAdd(y, 1)
     /\ pc = "loop"
  \/ /\ y # 0 /\ y <= 3
     /\ z = 1 /\ x = 0
     /\ pc = "done"
  \/ /\ y = 0
     /\ z = 0 /\ x = 0
     /\ pc = "done"

\* The three branches on entry (math.rs:7, 15, 17).
Start ==
  \/ /\ y > 3
     /\ z = y
     /\ x = WAdd(y \div 2, 1)
     /\ pc = "loop"
  \/ /\ y # 0 /\ y <= 3
     /\ z = 1 /\ x = 0
     /\ pc = "done"
  \/ /\ y = 0
     /\ z = 0 /\ x = 0
     /\ pc = "done"

Init == y \in U /\ Start

\* Mutant: the loop test written <= never stops once x = z.
MoreClosed == x <= z

\* The test of the while loop (math.rs:10).
More == x < z

\* Mutant: one Newton step too few (x is not recomputed from the new z).
IterateStale ==
  /\ pc = "loop" /\ More
  /\ z' = x
  /\ x' = WAdd(y \div z, z) \div 2
  /\ UNCHANGED <<y, pc>>

\* Mutant: the step is computed as a signed correction.
IterateSigned ==
  /\ pc = "loop" /\ More
  /\ z' = x
  /\ x' = ((y \div x) - x) \div 2
  /\ UNCHANGED <<y, pc>>

\* while x < z { z = x; x = (y / x + x) / 2; }
Iterate ==
  /\ pc = "loop" /\ More
  /\ z' = x
  /\ x' = WAdd(y \div x, x) \div 2
  /\ UNCHANGED <<y, pc>>

Exit ==
  /\ pc = "loop" /\ ~More
  /\ pc' = "done"
  /\ UNCHANGED <<y, z, x>>

\* The function has returned; the caller may go on for ever.
Return == pc = "done" /\ UNCHANGED vars

Next == Iterate \/ Exit \/ Return

Spec == Init /\ [][Next]_vars /\ WF_vars(Iterate \/ Exit)

-----------------------------------------------------------------------------
TypeOK == y \in U /\ z \in U /\ x \in U /\ pc \in {"loop", "done"}

\* The value sqrt_u256 returns is the integer square root of its argument,
\* for every argument ("Babylonian sqrt for U256 - matches Uniswap V2 Math
\* library", math.rs:5).
RootCorrect == pc = "done" => IsFloorRoot(z, y)

\* No intermediate sum y / x + x of the loop wraps around 2^256, and the loop
\* never divides by zero, even for the largest argument.
NoWrapInLoop == pc = "loop" => x > 0 /\ (y \div x) + x < Word

\* Every call returns: the loop ends for every argument.
Terminates == <>(pc = "done")

=============================================================================
