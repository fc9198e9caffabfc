--------------------------- MODULE StorageLayout ---------------------------
(***************************************************************************)
(* How the pair and the factory keep their variables in storage:           *)
(* uniswap-rust/src/lib.rs, the slots and accessors of pair.rs and of      *)
(* factory.rs.  The storage of a contract is one function of 32-byte keys; *)
(* scalars live at small keys, the entries of mappings and arrays at       *)
(* hashes.  Nothing but the hash keeps the entries apart.                  *)
(*                                                                         *)
(* A key is the number its 32 bytes spell.  A slot number in the last      *)
(* bytes of a word, and an address behind twelve zeros, are that number; a *)
(* slot number in the bytes 12..15 of a word (lib.rs:14, 24) is moved up   *)
(* by 128 bits.                                                            *)
(***************************************************************************)
EXTENDS Integers, Sequences

CONSTANTS
  keccak(_, _),              \* the hash of two words (external)
  SHIFT,                     \* 2^128
  ADDR,                      \* 2^160, the number of addresses
  Addresses, Values,         \* bound: the addresses and the words in use
  PairSlots, FactorySlots,   \* the scalar slots that are written
  MaxPairs,                  \* bound: the length of allPairs
  Queries                    \* bound: the indices asked of allPairs, hashes aside

\* The slots of the mappings and of the array (pair.rs:27-28, factory.rs:18-19).
SLOT_BALANCE_OF == 9
SLOT_ALLOWANCE == 10
SLOT_GET_PAIR == 2

\* Mutant: the slot of pairCodeHash once more.
SLOT_ALL_PAIRS_AGAIN == 4

SLOT_ALL_PAIRS == 3

-----------------------------------------------------------------------------
mapping_key_1(base_slot, key) == keccak(key, base_slot * SHIFT)

\* Mutant: the second key is not copied into the inner hash.
mapping_key_2_outer(base_slot, key1, key2) ==
  keccak(key1, keccak(0, (base_slot + 1) * SHIFT))

mapping_key_2(base_slot, key1, key2) ==
  keccak(key1, keccak(key2, (base_slot + 1) * SHIFT))

array_slot(base, index) == keccak(base, index)

\* The pairs of words that the contracts hash.
Inner(base) == {<<a, base * SHIFT>> : a \in Addresses}
Outer(base) == {<<a, keccak(b, base * SHIFT)>> : a, b \in Addresses}

\* The indices of the calls allPairs and of the elements: any word, one that is
\* the inner hash of a getPair entry included.
Asked == Queries \cup {keccak(b, (SLOT_GET_PAIR + 1) * SHIFT) : b \in Addresses}

Hashed ==
  Inner(SLOT_BALANCE_OF)
    \cup Inner(SLOT_ALLOWANCE + 1) \cup Outer(SLOT_ALLOWANCE + 1)
    \cup Inner(SLOT_GET_PAIR + 1) \cup Outer(SLOT_GET_PAIR + 1)
    \cup {<<SLOT_ALL_PAIRS, i>> : i \in Asked}

Hashes == {keccak(h[1], h[2]) : h \in Hashed}
Keys == 0 .. 10 \cup Hashes

\* What is expected of the hash: the words the contracts hash do not collide,
\* and no hash is a slot number, on its own or moved up, or an index.
ASSUME LayoutAssumption ==
  /\ SHIFT \in Nat /\ SHIFT > 10 /\ ADDR \in Nat \ {0}
  /\ Addresses \subseteq 0 .. ADDR - 1 /\ 0 \in Addresses
  /\ Values \subseteq Nat /\ 0 \in Values
  /\ PairSlots \subseteq 0 .. 8 /\ FactorySlots \subseteq {0, 1, 4}
  /\ MaxPairs \in 0 .. SHIFT
  /\ Queries \subseteq Nat /\ 0 .. MaxPairs - 1 \subseteq Queries

ASSUME KeccakAssumption ==
  /\ \A g, h \in Hashed : keccak(g[1], g[2]) = keccak(h[1], h[2]) => g = h
  /\ Hashes \subseteq Nat
  /\ \A k \in Hashes : k > 10 /\ k >= MaxPairs /\ k # SLOT_BALANCE_OF * SHIFT
                       /\ k # (SLOT_GET_PAIR + 1) * SHIFT /\ k # (SLOT_ALLOWANCE + 1) * SHIFT

VARIABLES pair, factory       \* the storages, in which every key has a value

vars == <<pair, factory>>

-----------------------------------------------------------------------------
\* storage_get_u256 and the getters; an address is the last 20 bytes of a word.
storage_get_u256(storage, slot) == storage[slot]
get_balance(owner) == pair[mapping_key_1(SLOT_BALANCE_OF, owner)]
get_allowance(owner, spender) == pair[mapping_key_2(SLOT_ALLOWANCE, owner, spender)]
get_pair_internal(a, b) == factory[mapping_key_2(SLOT_GET_PAIR, a, b)] % ADDR
all_pairs_length == storage_get_u256(factory, SLOT_ALL_PAIRS)
all_pairs_get(index) == factory[array_slot(SLOT_ALL_PAIRS, index)] % ADDR

\* storage_set_u256 on the scalars of each contract.
SetPairSlot(slot, v) == pair' = [pair EXCEPT ![slot] = v] /\ UNCHANGED factory
SetFactorySlot(slot, v) == factory' = [factory EXCEPT ![slot] = v] /\ UNCHANGED pair

set_balance(owner, v) ==
  /\ pair' = [pair EXCEPT ![mapping_key_1(SLOT_BALANCE_OF, owner)] = v]
  /\ UNCHANGED factory

set_allowance(owner, spender, v) ==
  /\ pair' = [pair EXCEPT ![mapping_key_2(SLOT_ALLOWANCE, owner, spender)] = v]
  /\ UNCHANGED factory

set_pair(a, b, p) ==
  /\ factory' = [factory EXCEPT ![mapping_key_2(SLOT_GET_PAIR, a, b)] = p]
  /\ UNCHANGED pair

\* Mutant: the length first, then the element behind it.
all_pairs_push_late(p) ==
  LET len == all_pairs_length
      key == array_slot(SLOT_ALL_PAIRS, len + 1)
  IN  /\ len < MaxPairs
      /\ factory' = [[factory EXCEPT ![SLOT_ALL_PAIRS] = len + 1] EXCEPT ![key] = p]
      /\ UNCHANGED pair

\* The element first, then the length.
all_pairs_push(p) ==
  LET len == all_pairs_length
      key == array_slot(SLOT_ALL_PAIRS, len)
  IN  /\ len < MaxPairs
      /\ factory' = [[factory EXCEPT ![key] = p] EXCEPT ![SLOT_ALL_PAIRS] = len + 1]
      /\ UNCHANGED pair

-----------------------------------------------------------------------------
Init == pair = [k \in Keys |-> 0] /\ factory = [k \in Keys |-> 0]

Next ==
  \/ \E v \in Values :
       \/ \E s \in PairSlots : SetPairSlot(s, v)
       \/ \E a \in Addresses : set_balance(a, v)
       \/ \E a, b \in Addresses : set_allowance(a, b, v)
       \/ \E s \in FactorySlots : SetFactorySlot(s, v)
  \/ \E a, b, p \in Addresses : set_pair(a, b, p)
  \/ \E p \in Addresses : all_pairs_push(p)

Spec == Init /\ [][Next]_vars

-----------------------------------------------------------------------------
\* Every key has a word, and the length of allPairs is within its bound.
TypeOK ==
  /\ pair \in [Keys -> Values]
  /\ factory \in [Keys -> Values \cup Addresses \cup 0 .. MaxPairs]
  /\ all_pairs_length \in 0 .. MaxPairs
  /\ \A a, b \in Addresses : factory[mapping_key_2(SLOT_GET_PAIR, a, b)] \in Addresses
  /\ \A i \in 0 .. MaxPairs - 1 : factory[array_slot(SLOT_ALL_PAIRS, i)] \in Addresses

\* The call allPairs does not compare its index with the length
\* (factory.rs:165-170).  Whatever word it is asked for, one behind the end and
\* one that is a hash included, it answers zero, an element of the list, or a
\* pair that getPair returns as well: never the word of another variable.
AllPairsAnswers ==
  \A i \in Asked :
    all_pairs_get(i) \in {0}
      \cup {all_pairs_get(j) : j \in 0 .. all_pairs_length - 1}
      \cup {get_pair_internal(a, b) : a, b \in Addresses}

\* The two flat storages behave like variables that share nothing: a write to
\* a slot, an entry or an element changes what is read back for that one, and
\* for no other, although all of them are keys of one storage, the mappings
\* of different slots are hashed alike and the inner hash of an allowance uses
\* the slot behind its own (lib.rs:11-51, pair.rs:108-132, factory.rs:55-105).
Variables == INSTANCE ContractVariables WITH
  pairSlots <- [s \in PairSlots |-> storage_get_u256(pair, s)],
  balanceOf <- [a \in Addresses |-> get_balance(a)],
  allowance <- [a \in Addresses |-> [b \in Addresses |-> get_allowance(a, b)]],
  factorySlots <- [s \in FactorySlots |-> storage_get_u256(factory, s)],
  getPair <- [a \in Addresses |-> [b \in Addresses |-> get_pair_internal(a, b)]],
  allPairs <- [i \in 1 .. all_pairs_length |-> all_pairs_get(i - 1)]

ImplementsVariables == Variables!Spec

=============================================================================
