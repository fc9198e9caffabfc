------------------------------ MODULE LPToken ------------------------------
(***************************************************************************)
(* The LP token of a pair as its holders see it: a ledger in which every   *)
(* operation, mint and burn included, takes one step, and an operation     *)
(* that fails takes none.  Module Pair works through mint and burn step by *)
(* step, with calls of the tokens in between, and implements this.         *)
(***************************************************************************)
EXTENDS Integers

CONSTANTS
  Accounts,            \* all addresses
  Callers,             \* those who move shares and approve
  Zero, Pool,          \* the zero address and the pair
  Word,                \* one more than the largest word
  Locked,              \* the shares that the first mint locks
  Shares,              \* the shares that a mint may give
  Values               \* the amounts of approvals and transfers

VARIABLES totalSupply, balanceOf, allowance

vars == <<totalSupply, balanceOf, allowance>>

Init ==
  /\ totalSupply = 0
  /\ balanceOf = [a \in Accounts |-> 0]
  /\ allowance = [a \in Accounts |-> [b \in Accounts |-> 0]]

Given(f, to, n) == [f EXCEPT ![to] = (@ + n) % Word]

\* Shares change hands; to oneself they do not.
Moved(f, from, to, n) ==
  IF from = to THEN f
  ELSE [f EXCEPT ![from] = @ - n, ![to] = (@ + n) % Word]

MintFirst(to, n) ==
  /\ totalSupply = 0
  /\ totalSupply' = Locked
  /\ balanceOf' = Given([balanceOf EXCEPT ![Zero] = Locked], to, n)
  /\ UNCHANGED allowance

Mint(to, n) ==
  /\ totalSupply # 0
  /\ totalSupply' = (totalSupply + n) % Word
  /\ balanceOf' = Given(balanceOf, to, n)
  /\ UNCHANGED allowance

\* All the shares that the pair itself holds are burned, no more and no less.
Burn ==
  /\ balanceOf[Pool] # 0
  /\ totalSupply' = (totalSupply - balanceOf[Pool]) % Word
  /\ balanceOf' = [balanceOf EXCEPT ![Pool] = 0]
  /\ UNCHANGED allowance

Approve(owner, spender, n) ==
  /\ allowance' = [allowance EXCEPT ![owner][spender] = n]
  /\ UNCHANGED <<totalSupply, balanceOf>>

Transfer(from, to, n) ==
  /\ n <= balanceOf[from]
  /\ balanceOf' = Moved(balanceOf, from, to, n)
  /\ UNCHANGED <<totalSupply, allowance>>

TransferFrom(spender, from, to, n) ==
  /\ n <= balanceOf[from] /\ n <= allowance[from][spender]
  /\ balanceOf' = Moved(balanceOf, from, to, n)
  /\ allowance' = IF allowance[from][spender] = Word - 1 THEN allowance
                  ELSE [allowance EXCEPT ![from][spender] = @ - n]
  /\ UNCHANGED totalSupply

Next ==
  \/ \E to \in Accounts, n \in Shares : MintFirst(to, n) \/ Mint(to, n)
  \/ Burn
  \/ \E a \in Callers, b \in Accounts, n \in Values : Approve(a, b, n) \/ Transfer(a, b, n)
  \/ \E s, a \in Callers, b \in Accounts, n \in Values : TransferFrom(s, a, b, n)

Spec == Init /\ [][Next]_vars

=============================================================================
