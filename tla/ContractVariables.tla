------------------------- MODULE ContractVariables --------------------------
(***************************************************************************)
(* What the pair and the factory take their storage for: variables that    *)
(* do not share anything.  They are those of the modules Pair and Factory. *)
(* Module StorageLayout keeps them in two flat storages and implements     *)
(* this.                                                                   *)
(***************************************************************************)
EXTENDS Sequences

CONSTANTS Addresses, Values, PairSlots, FactorySlots

VARIABLES
  pairSlots, balanceOf, allowance,       \* of the pair
  factorySlots, getPair, allPairs        \* of the factory

pairVars == <<pairSlots, balanceOf, allowance>>
factoryVars == <<factorySlots, getPair, allPairs>>
vars == <<pairVars, factoryVars>>

Init ==
  /\ pairSlots = [s \in PairSlots |-> 0]
  /\ balanceOf = [a \in Addresses |-> 0]
  /\ allowance = [a \in Addresses |-> [b \in Addresses |-> 0]]
  /\ factorySlots = [s \in FactorySlots |-> 0]
  /\ getPair = [a \in Addresses |-> [b \in Addresses |-> 0]]
  /\ allPairs = <<>>

PairStep(v) ==
  /\ \/ \E s \in PairSlots : /\ pairSlots' = [pairSlots EXCEPT ![s] = v]
                             /\ UNCHANGED <<balanceOf, allowance>>
     \/ \E a \in Addresses : /\ balanceOf' = [balanceOf EXCEPT ![a] = v]
                             /\ UNCHANGED <<pairSlots, allowance>>
     \/ \E a, b \in Addresses : /\ allowance' = [allowance EXCEPT ![a][b] = v]
                                /\ UNCHANGED <<pairSlots, balanceOf>>
  /\ UNCHANGED factoryVars

SlotStep(v) ==
  /\ \E s \in FactorySlots : factorySlots' = [factorySlots EXCEPT ![s] = v]
  /\ UNCHANGED <<pairVars, getPair, allPairs>>

RegistryStep(p) ==
  /\ \/ \E a, b \in Addresses : /\ getPair' = [getPair EXCEPT ![a][b] = p]
                                /\ UNCHANGED allPairs
     \/ allPairs' = Append(allPairs, p) /\ UNCHANGED getPair
  /\ UNCHANGED <<pairVars, factorySlots>>

Next ==
  \/ \E v \in Values : PairStep(v) \/ SlotStep(v)
  \/ \E p \in Addresses : RegistryStep(p)

Spec == Init /\ [][Next]_vars

=============================================================================
