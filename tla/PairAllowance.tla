--------------------------- MODULE PairAllowance ----------------------------
(***************************************************************************)
(* The allowances of the LP token of Pair against a history of what each   *)
(* owner has approved and each spender has taken.  An approval replaces    *)
(* the one before it, so the spender may use the old allowance just before *)
(* the new one is set; what is taken can still never exceed the sum.       *)
(***************************************************************************)
EXTENDS Pair

CONSTANTS
  Owners, Spenders,   \* the users who approve, and those they approve
  GrantMax            \* bound: the sum of the approvals of one owner to one spender

ASSUME AllowanceAssumption ==
  Owners \subseteq Users /\ Spenders \subseteq Users /\ GrantMax \in Nat

VARIABLES
  granted,      \* the sum of the finite approvals, per owner and spender
  taken,        \* the sum of the amounts transferFrom moved
  unlimited     \* the pairs that were ever approved 2^256 - 1

history == <<granted, taken, unlimited>>
varsA == <<vars, history>>

NoAmounts == [a \in Addr |-> [b \in Addr |-> 0]]

InitA == Init /\ granted = NoAmounts /\ taken = NoAmounts /\ unlimited = {}

ApproveA(owner, spender, value) ==
  /\ Approve(owner, spender, value)
  /\ IF value = MAX
       THEN unlimited' = unlimited \cup {<<owner, spender>>} /\ UNCHANGED granted
       ELSE /\ granted[owner][spender] + value <= GrantMax
            /\ granted' = [granted EXCEPT ![owner][spender] = @ + value]
            /\ UNCHANGED unlimited
  /\ UNCHANGED taken

TransferFromA(sender, from, to, value) ==
  /\ TransferFrom(sender, from, to, value)
  /\ <<from, sender>> \notin unlimited
       => taken' = [taken EXCEPT ![from][sender] = @ + value]
  /\ <<from, sender>> \in unlimited => UNCHANGED taken
  /\ UNCHANGED <<granted, unlimited>>

NextA ==
  \/ (Begin \/ CallStep \/ Environment) /\ UNCHANGED history
  \/ \E a \in Users, b \in Holders, v \in LPAmounts :
       Transfer(a, b, v) /\ UNCHANGED history
  \/ \E a \in Owners, b \in Spenders, v \in Approvals : ApproveA(a, b, v)
  \/ \E s \in Spenders, a \in Owners, b \in Holders, v \in LPAmounts : TransferFromA(s, a, b, v)

SpecA == InitA /\ [][NextA]_varsA

-----------------------------------------------------------------------------
\* Whatever the order of approvals and transfers, what a spender has taken and
\* may still take is within the sum of what the owner approved, unless the
\* owner gave the unlimited allowance (pair.rs:491-498, 512-531).
TakenWithinGrants ==
  \A a, b \in Addr :
    <<a, b>> \in unlimited \/ taken[a][b] + allowance[a][b] <= granted[a][b]

=============================================================================
