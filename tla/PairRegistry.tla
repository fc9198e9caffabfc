---------------------------- MODULE PairRegistry ----------------------------
(***************************************************************************)
(* What the factories that create pairs of the right code promise: a set   *)
(* of pairs, at most one for each factory and each two tokens, that grows  *)
(* by single steps; and fee addresses that only the setter of the factory  *)
(* changes.  Foreign calls may be in progress around these steps: such a   *)
(* call either returns, or takes back everything since it began.           *)
(* Module Factory reaches this in many steps that may fail;                *)
(* FactoryRegistry maps its state to this one; TLC checks it and           *)
(* FactoryProofs proves it.                                                *)
(***************************************************************************)
EXTENDS Sequences, Integers

CONSTANTS Accounts, Tokens, Factories, PairAddrs, Zero

VARIABLES
  created,      \* the pairs: records [factory, tokens, pair]
  open,         \* the factories that know the code of a pair
  feeTo, feeToSetter,
  deployed,     \* the factories deployed so far
  snapshots     \* the states at which the foreign calls in progress began

State ==
  [created |-> created, open |-> open, feeTo |-> feeTo,
   feeToSetter |-> feeToSetter, deployed |-> deployed]
vars == <<created, open, feeTo, feeToSetter, deployed, snapshots>>

Init ==
  /\ created = {}
  /\ open = {} /\ deployed = {}
  /\ feeTo = [f \in Factories |-> Zero]
  /\ feeToSetter = [f \in Factories |-> Zero]
  /\ snapshots = <<>>

\* The constructor decides once and for all whether the factory is open.
Deploy(f, setter) ==
  /\ f \notin deployed
  /\ deployed' = deployed \cup {f}
  /\ open' \in {open, open \cup {f}}
  /\ feeToSetter' = [feeToSetter EXCEPT ![f] = setter]
  /\ UNCHANGED <<created, feeTo, snapshots>>

Create(f, tokens, pair) ==
  /\ f \in open
  /\ \E a, b \in Tokens \ {Zero} : a # b /\ tokens = {a, b}
  /\ \A r \in created : r.pair # pair /\ (r.factory = f => r.tokens # tokens)
  /\ created' = created \cup {[factory |-> f, tokens |-> tokens, pair |-> pair]}
  /\ UNCHANGED <<open, feeTo, feeToSetter, deployed, snapshots>>

\* The caller is an account, never the zero address.
SetFees(f, caller) ==
  /\ f \in deployed /\ caller = feeToSetter[f]
  /\ \E a \in Accounts \cup {Zero} :
       \/ feeTo' = [feeTo EXCEPT ![f] = a] /\ UNCHANGED feeToSetter
       \/ feeToSetter' = [feeToSetter EXCEPT ![f] = a] /\ UNCHANGED feeTo
  /\ UNCHANGED <<created, open, deployed, snapshots>>

Begin ==
  /\ snapshots' = Append(snapshots, State)
  /\ UNCHANGED <<created, open, feeTo, feeToSetter, deployed>>

Return ==
  /\ snapshots # <<>>
  /\ snapshots' = SubSeq(snapshots, 1, Len(snapshots) - 1)
  /\ UNCHANGED <<created, open, feeTo, feeToSetter, deployed>>

TakeBack ==
  /\ snapshots # <<>>
  /\ State' = snapshots[Len(snapshots)]
  /\ snapshots' = SubSeq(snapshots, 1, Len(snapshots) - 1)

Next ==
  \/ Begin \/ Return \/ TakeBack
  \/ \E f \in Factories, c \in Accounts \cup {Zero} : Deploy(f, c)
  \/ \E f \in Factories, c \in Accounts : SetFees(f, c)
  \/ \E f \in Factories, t \in SUBSET Tokens, p \in PairAddrs : Create(f, t, p)

Spec == Init /\ [][Next]_vars

=============================================================================
