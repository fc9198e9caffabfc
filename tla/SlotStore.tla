----------------------------- MODULE SlotStore -----------------------------
(***************************************************************************)
(* The storage a contract sees: every slot holds a value, zero at first;   *)
(* a write tells the contract whether the slot was zero before.  Module    *)
(* PvmExecutor keeps it in a hash map without zeros and implements this.   *)
(***************************************************************************)
CONSTANTS Keys, Values, ZeroValue, SLOT_LEN, SENTINEL

VARIABLES slot, answer

vars == <<slot, answer>>

Init == slot = [k \in Keys |-> ZeroValue] /\ answer = SENTINEL

Set(k, v) ==
  /\ slot' = [slot EXCEPT ![k] = v]
  /\ answer' = IF slot[k] = ZeroValue THEN SENTINEL ELSE SLOT_LEN

Get(k) == answer' = slot[k] /\ UNCHANGED slot

Clear == slot' = [k \in Keys |-> ZeroValue] /\ UNCHANGED answer

Next ==
  \/ \E k \in Keys, v \in Values : Set(k, v)
  \/ \E k \in Keys : Get(k)
  \/ Clear

Spec == Init /\ [][Next]_vars

=============================================================================
