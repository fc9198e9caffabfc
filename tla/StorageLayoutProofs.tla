------------------------ MODULE StorageLayoutProofs -------------------------
(***************************************************************************)
(* StorageLayout implements ContractVariables for every set of addresses   *)
(* and every hash without collisions among the words that are hashed: the  *)
(* keys of different slots, entries and elements never meet.               *)
(***************************************************************************)
EXTENDS StorageLayout, SequenceTheorems, TLAPS

BalanceKey(a) == mapping_key_1(SLOT_BALANCE_OF, a)
AllowanceKey(a, b) == mapping_key_2(SLOT_ALLOWANCE, a, b)
PairKey(a, b) == mapping_key_2(SLOT_GET_PAIR, a, b)
ElementKey(i) == array_slot(SLOT_ALL_PAIRS, i)
Indices == 0 .. MaxPairs - 1

\* Two words that are hashed to the same key are the same words.
LEMMA NoCollision ==
  ASSUME NEW a, NEW b, NEW c, NEW d, <<a, b>> \in Hashed, <<c, d>> \in Hashed,
         keccak(a, b) = keccak(c, d)
  PROVE  a = c /\ b = d
<1>1. <<a, b>> = <<c, d>>
  BY KeccakAssumption
<1> QED
  BY <1>1

\* What the contracts hash, and the keys it gives.
LEMMA HashedWords ==
  /\ \A a \in Addresses : <<a, 9 * SHIFT>> \in Hashed
  /\ \A a \in Addresses : <<a, 11 * SHIFT>> \in Hashed
  /\ \A a \in Addresses : <<a, 3 * SHIFT>> \in Hashed
  /\ \A a, b \in Addresses : <<a, keccak(b, 11 * SHIFT)>> \in Hashed
  /\ \A a, b \in Addresses : <<a, keccak(b, 3 * SHIFT)>> \in Hashed
  /\ \A i \in Asked : <<3, i>> \in Hashed
  /\ Indices \subseteq Asked
<1>1. 10 + 1 = 11 /\ 2 + 1 = 3
  OBVIOUS
<1>2. Indices \subseteq Asked
  BY LayoutAssumption DEF Indices, Asked
<1> QED
  BY <1>1, <1>2 DEF Hashed, Inner, Outer, SLOT_BALANCE_OF, SLOT_ALLOWANCE, SLOT_GET_PAIR,
     SLOT_ALL_PAIRS

LEMMA HashIsKey ==
  ASSUME NEW a, NEW b, <<a, b>> \in Hashed
  PROVE  /\ keccak(a, b) \in Keys /\ keccak(a, b) \in Nat /\ keccak(a, b) > 10
         /\ keccak(a, b) >= MaxPairs /\ keccak(a, b) # 9 * SHIFT
<1>1. keccak(a, b) \in Hashes
  <2>1. <<a, b>>[1] = a /\ <<a, b>>[2] = b
    OBVIOUS
  <2> QED
    BY <2>1 DEF Hashes
<1> QED
  BY <1>1, KeccakAssumption DEF Keys, SLOT_BALANCE_OF

LEMMA KeyForms ==
  /\ \A a : BalanceKey(a) = keccak(a, 9 * SHIFT)
  /\ \A a, b : AllowanceKey(a, b) = keccak(a, keccak(b, 11 * SHIFT))
  /\ \A a, b : PairKey(a, b) = keccak(a, keccak(b, 3 * SHIFT))
  /\ \A i : ElementKey(i) = keccak(3, i)
<1>1. 10 + 1 = 11 /\ 2 + 1 = 3
  OBVIOUS
<1> QED
  BY <1>1 DEF BalanceKey, AllowanceKey, PairKey, ElementKey, mapping_key_1, mapping_key_2,
     array_slot, SLOT_BALANCE_OF, SLOT_ALLOWANCE, SLOT_GET_PAIR, SLOT_ALL_PAIRS

\* Every variable has a key, and no hashed key is that of a scalar.
LEMMA KeysOfVariables ==
  /\ \A a \in Addresses : BalanceKey(a) \in Keys \ (0 .. 10)
  /\ \A a, b \in Addresses : AllowanceKey(a, b) \in Keys \ (0 .. 10)
  /\ \A a, b \in Addresses : PairKey(a, b) \in Keys \ (0 .. 10)
  /\ \A i \in Indices : ElementKey(i) \in Keys \ (0 .. 10)
  /\ 0 .. 10 \subseteq Keys
<1>1. ASSUME NEW a, NEW b, <<a, b>> \in Hashed PROVE keccak(a, b) \in Keys \ (0 .. 10)
  BY <1>1, HashIsKey
<1>2. \A a \in Addresses : BalanceKey(a) \in Keys \ (0 .. 10)
  BY <1>1, HashedWords, KeyForms
<1>3. \A a, b \in Addresses : AllowanceKey(a, b) \in Keys \ (0 .. 10)
  BY <1>1, HashedWords, KeyForms
<1>4. \A a, b \in Addresses : PairKey(a, b) \in Keys \ (0 .. 10)
  BY <1>1, HashedWords, KeyForms
<1>5. \A i \in Indices : ElementKey(i) \in Keys \ (0 .. 10)
  BY <1>1, HashedWords, KeyForms
<1> QED
  BY <1>2, <1>3, <1>4, <1>5 DEF Keys

\* The keys of the pair never meet.
LEMMA PairKeysApart ==
  /\ \A a, c \in Addresses : BalanceKey(a) = BalanceKey(c) => a = c
  /\ \A a, b, c, d \in Addresses : AllowanceKey(a, b) = AllowanceKey(c, d) => a = c /\ b = d
  /\ \A a, c, d \in Addresses : BalanceKey(a) # AllowanceKey(c, d)
<1>1. ASSUME NEW a \in Addresses, NEW c \in Addresses, BalanceKey(a) = BalanceKey(c)
      PROVE  a = c
  <2>1. keccak(a, 9 * SHIFT) = keccak(c, 9 * SHIFT)
    BY <1>1, KeyForms
  <2>2. <<a, 9 * SHIFT>> \in Hashed /\ <<c, 9 * SHIFT>> \in Hashed
    BY HashedWords
  <2> QED
    BY <2>1, <2>2, NoCollision
<1>2. ASSUME NEW a \in Addresses, NEW b \in Addresses, NEW c \in Addresses, NEW d \in Addresses,
             AllowanceKey(a, b) = AllowanceKey(c, d)
      PROVE  a = c /\ b = d
  <2>1. a = c /\ keccak(b, 11 * SHIFT) = keccak(d, 11 * SHIFT)
    <3>1. keccak(a, keccak(b, 11 * SHIFT)) = keccak(c, keccak(d, 11 * SHIFT))
      BY <1>2, KeyForms
    <3>2. <<a, keccak(b, 11 * SHIFT)>> \in Hashed /\ <<c, keccak(d, 11 * SHIFT)>> \in Hashed
      BY HashedWords
    <3> QED
      BY <3>1, <3>2, NoCollision
  <2>2. <<b, 11 * SHIFT>> \in Hashed /\ <<d, 11 * SHIFT>> \in Hashed
    BY HashedWords
  <2> QED
    BY <2>1, <2>2, NoCollision
<1>3. ASSUME NEW a \in Addresses, NEW c \in Addresses, NEW d \in Addresses,
             BalanceKey(a) = AllowanceKey(c, d)
      PROVE  FALSE
  <2>1. keccak(d, 11 * SHIFT) = 9 * SHIFT
    <3>1. keccak(a, 9 * SHIFT) = keccak(c, keccak(d, 11 * SHIFT))
      BY <1>3, KeyForms
    <3>2. <<a, 9 * SHIFT>> \in Hashed /\ <<c, keccak(d, 11 * SHIFT)>> \in Hashed
      BY HashedWords
    <3> QED
      BY <3>1, <3>2, NoCollision
  <2>2. <<d, 11 * SHIFT>> \in Hashed
    BY HashedWords
  <2> QED
    BY <2>1, <2>2, HashIsKey
<1> QED
  BY <1>1, <1>2, <1>3

\* Nor do those of the factory, although the first word hashed for an element
\* is the number of the address 3.
LEMMA FactoryKeysApart ==
  /\ \A a, b, c, d \in Addresses : PairKey(a, b) = PairKey(c, d) => a = c /\ b = d
  /\ \A i, j \in Indices : ElementKey(i) = ElementKey(j) => i = j
  /\ \A a, b \in Addresses, i \in Indices : PairKey(a, b) # ElementKey(i)
<1>1. ASSUME NEW a \in Addresses, NEW b \in Addresses, NEW c \in Addresses, NEW d \in Addresses,
             PairKey(a, b) = PairKey(c, d)
      PROVE  a = c /\ b = d
  <2>1. a = c /\ keccak(b, 3 * SHIFT) = keccak(d, 3 * SHIFT)
    <3>1. keccak(a, keccak(b, 3 * SHIFT)) = keccak(c, keccak(d, 3 * SHIFT))
      BY <1>1, KeyForms
    <3>2. <<a, keccak(b, 3 * SHIFT)>> \in Hashed /\ <<c, keccak(d, 3 * SHIFT)>> \in Hashed
      BY HashedWords
    <3> QED
      BY <3>1, <3>2, NoCollision
  <2>2. <<b, 3 * SHIFT>> \in Hashed /\ <<d, 3 * SHIFT>> \in Hashed
    BY HashedWords
  <2> QED
    BY <2>1, <2>2, NoCollision
<1>2. ASSUME NEW i \in Indices, NEW j \in Indices, ElementKey(i) = ElementKey(j)
      PROVE  i = j
  <2>1. keccak(3, i) = keccak(3, j)
    BY <1>2, KeyForms
  <2>2. <<3, i>> \in Hashed /\ <<3, j>> \in Hashed
    BY HashedWords
  <2> QED
    BY <2>1, <2>2, NoCollision
<1>3. ASSUME NEW a \in Addresses, NEW b \in Addresses, NEW i \in Indices,
             PairKey(a, b) = ElementKey(i)
      PROVE  FALSE
  <2>1. keccak(b, 3 * SHIFT) = i
    <3>1. keccak(a, keccak(b, 3 * SHIFT)) = keccak(3, i)
      BY <1>3, KeyForms
    <3>2. <<a, keccak(b, 3 * SHIFT)>> \in Hashed /\ <<3, i>> \in Hashed
      BY HashedWords
    <3> QED
      BY <3>1, <3>2, NoCollision
  <2>2. <<b, 3 * SHIFT>> \in Hashed
    BY HashedWords
  <2>3. keccak(b, 3 * SHIFT) >= MaxPairs
    BY <2>2, HashIsKey
  <2> QED
    BY <2>1, <2>3, LayoutAssumption DEF Indices
<1> QED
  BY <1>1, <1>2, <1>3

\* An address fits in the last 20 bytes of a word.
LEMMA AddressFits == \A p \in Addresses : p % ADDR = p
BY LayoutAssumption

\* A function of two arguments that differs from another at one point.
LEMMA NestedUpdate ==
  ASSUME NEW S, NEW T, NEW f \in [S -> [S -> T]], NEW g \in [S -> [S -> T]],
         NEW a \in S, NEW b \in S, NEW v \in T,
         \A c, d \in S : g[c][d] = IF c = a /\ d = b THEN v ELSE f[c][d]
  PROVE  g = [f EXCEPT ![a][b] = v]
<1>1. g[a] = [f[a] EXCEPT ![b] = v]
  <2>1. g[a] \in [S -> T] /\ f[a] \in [S -> T]
    OBVIOUS
  <2>2. \A d \in S : g[a][d] = [f[a] EXCEPT ![b] = v][d]
    BY <2>1
  <2> QED
    BY <2>1, <2>2
<1>2. ASSUME NEW c \in S, c # a PROVE g[c] = f[c]
  <2>1. g[c] \in [S -> T] /\ f[c] \in [S -> T]
    OBVIOUS
  <2>2. \A d \in S : g[c][d] = f[c][d]
    BY <1>2
  <2> QED
    BY <2>1, <2>2
<1> QED
  BY <1>1, <1>2

-----------------------------------------------------------------------------
\* The variables that are read out of the storages.
PairScalars == [s \in PairSlots |-> pair[s]]
Balances == [a \in Addresses |-> pair[BalanceKey(a)]]
Allowances == [a \in Addresses |-> [b \in Addresses |-> pair[AllowanceKey(a, b)]]]
FactoryScalars == [s \in FactorySlots |-> factory[s]]
PairOf == [a \in Addresses |-> [b \in Addresses |-> factory[PairKey(a, b)] % ADDR]]
Length == factory[3]
Listed == [i \in 1 .. Length |-> factory[ElementKey(i - 1)] % ADDR]

LEMMA Reading ==
  /\ PairScalars = [s \in PairSlots |-> storage_get_u256(pair, s)]
  /\ Balances = [a \in Addresses |-> get_balance(a)]
  /\ Allowances = [a \in Addresses |-> [b \in Addresses |-> get_allowance(a, b)]]
  /\ FactoryScalars = [s \in FactorySlots |-> storage_get_u256(factory, s)]
  /\ PairOf = [a \in Addresses |-> [b \in Addresses |-> get_pair_internal(a, b)]]
  /\ Length = all_pairs_length
  /\ Listed = [i \in 1 .. all_pairs_length |-> all_pairs_get(i - 1)]
BY DEF PairScalars, Balances, Allowances, FactoryScalars, PairOf, Length, Listed,
   storage_get_u256, get_balance, get_allowance, get_pair_internal, all_pairs_length,
   all_pairs_get, BalanceKey, AllowanceKey, PairKey, ElementKey, SLOT_ALL_PAIRS

LEMMA ReadingNext ==
  /\ PairScalars' = [s \in PairSlots |-> storage_get_u256(pair, s)]'
  /\ Balances' = [a \in Addresses |-> get_balance(a)]'
  /\ Allowances' = [a \in Addresses |-> [b \in Addresses |-> get_allowance(a, b)]]'
  /\ FactoryScalars' = [s \in FactorySlots |-> storage_get_u256(factory, s)]'
  /\ PairOf' = [a \in Addresses |-> [b \in Addresses |-> get_pair_internal(a, b)]]'
  /\ Length' = all_pairs_length'
  /\ Listed' = [i \in 1 .. all_pairs_length |-> all_pairs_get(i - 1)]'
BY DEF PairScalars, Balances, Allowances, FactoryScalars, PairOf, Length, Listed,
   storage_get_u256, get_balance, get_allowance, get_pair_internal, all_pairs_length,
   all_pairs_get, BalanceKey, AllowanceKey, PairKey, ElementKey, SLOT_ALL_PAIRS

FactoryWords == Values \cup Addresses \cup 0 .. MaxPairs

LEMMA TypeParts ==
  TypeOK <=>
    /\ pair \in [Keys -> Values]
    /\ factory \in [Keys -> FactoryWords]
    /\ Length \in 0 .. MaxPairs
    /\ \A a, b \in Addresses : factory[PairKey(a, b)] \in Addresses
    /\ \A i \in Indices : factory[ElementKey(i)] \in Addresses
BY DEF TypeOK, FactoryWords, Length, all_pairs_length, storage_get_u256, SLOT_ALL_PAIRS, PairKey,
   ElementKey, Indices

LEMMA TypePartsNext ==
  TypeOK' <=>
    /\ pair' \in [Keys -> Values]
    /\ factory' \in [Keys -> FactoryWords]
    /\ Length' \in 0 .. MaxPairs
    /\ \A a, b \in Addresses : factory'[PairKey(a, b)] \in Addresses
    /\ \A i \in Indices : factory'[ElementKey(i)] \in Addresses
BY DEF TypeOK, FactoryWords, Length, all_pairs_length, storage_get_u256, SLOT_ALL_PAIRS, PairKey,
   ElementKey, Indices

\* A step of the pair leaves the factory as it is, and the other way round.
LEMMA FactoryKept ==
  ASSUME UNCHANGED factory
  PROVE  UNCHANGED <<FactoryScalars, PairOf, Length, Listed>>
BY DEF FactoryScalars, PairOf, Length, Listed

LEMMA PairKept ==
  ASSUME UNCHANGED pair
  PROVE  UNCHANGED <<PairScalars, Balances, Allowances>>
BY DEF PairScalars, Balances, Allowances

LEMMA PairSlotStep ==
  ASSUME TypeOK, NEW s \in PairSlots, NEW v \in Values, SetPairSlot(s, v)
  PROVE  /\ TypeOK'
         /\ PairScalars' = [PairScalars EXCEPT ![s] = v]
         /\ UNCHANGED <<Balances, Allowances, factory>>
<1>1. pair \in [Keys -> Values] /\ s \in 0 .. 10 /\ s \in Keys
  BY TypeParts, KeysOfVariables, LayoutAssumption
<1>2. pair' = [pair EXCEPT ![s] = v] /\ factory' = factory
  BY DEF SetPairSlot
<1>3. pair' \in [Keys -> Values]
  BY <1>1, <1>2
<1>4. TypeOK'
  BY <1>2, <1>3, TypeParts, TypePartsNext DEF Length
<1>5. PairScalars' = [PairScalars EXCEPT ![s] = v]
  <2>1. PairSlots \subseteq Keys
    <3>1. PairSlots \subseteq 0 .. 10
      BY LayoutAssumption
    <3> QED
      BY <3>1, KeysOfVariables
  <2>2. \A r \in PairSlots : pair'[r] = IF r = s THEN v ELSE pair[r]
    BY <1>1, <1>2, <2>1
  <2> QED
    BY <2>2 DEF PairScalars
<1>6. Balances' = Balances
  BY <1>1, <1>2, KeysOfVariables DEF Balances
<1>7. Allowances' = Allowances
  BY <1>1, <1>2, KeysOfVariables DEF Allowances
<1> QED
  BY <1>2, <1>4, <1>5, <1>6, <1>7

LEMMA BalanceStep ==
  ASSUME TypeOK, NEW a \in Addresses, NEW v \in Values, set_balance(a, v)
  PROVE  /\ TypeOK'
         /\ Balances' = [Balances EXCEPT ![a] = v]
         /\ UNCHANGED <<PairScalars, Allowances, factory>>
<1>1. pair \in [Keys -> Values] /\ BalanceKey(a) \in Keys \ (0 .. 10)
  BY TypeParts, KeysOfVariables
<1>2. pair' = [pair EXCEPT ![BalanceKey(a)] = v] /\ factory' = factory
  BY DEF set_balance, BalanceKey
<1>3. pair' \in [Keys -> Values]
  BY <1>1, <1>2
<1>4. TypeOK'
  BY <1>2, <1>3, TypeParts, TypePartsNext DEF Length
<1>5. \A s \in PairSlots : s \in Keys /\ s # BalanceKey(a)
  BY <1>1, KeysOfVariables, LayoutAssumption
<1>6. PairScalars' = PairScalars
  BY <1>1, <1>2, <1>5 DEF PairScalars
<1>7. ASSUME NEW c \in Addresses
      PROVE  pair'[BalanceKey(c)] = IF c = a THEN v ELSE pair[BalanceKey(c)]
  BY <1>1, <1>2, KeysOfVariables, PairKeysApart
<1>8. Balances' = [Balances EXCEPT ![a] = v]
  BY <1>7 DEF Balances
<1>9. ASSUME NEW c \in Addresses, NEW d \in Addresses
      PROVE  pair'[AllowanceKey(c, d)] = pair[AllowanceKey(c, d)]
  BY <1>1, <1>2, KeysOfVariables, PairKeysApart
<1>10. Allowances' = Allowances
  BY <1>9 DEF Allowances
<1> QED
  BY <1>2, <1>4, <1>6, <1>8, <1>10

LEMMA AllowanceStep ==
  ASSUME TypeOK, NEW a \in Addresses, NEW b \in Addresses, NEW v \in Values,
         set_allowance(a, b, v)
  PROVE  /\ TypeOK'
         /\ Allowances' = [Allowances EXCEPT ![a][b] = v]
         /\ UNCHANGED <<PairScalars, Balances, factory>>
<1>1. pair \in [Keys -> Values] /\ AllowanceKey(a, b) \in Keys \ (0 .. 10)
  BY TypeParts, KeysOfVariables
<1>2. pair' = [pair EXCEPT ![AllowanceKey(a, b)] = v] /\ factory' = factory
  BY DEF set_allowance, AllowanceKey
<1>3. pair' \in [Keys -> Values]
  BY <1>1, <1>2
<1>4. TypeOK'
  BY <1>2, <1>3, TypeParts, TypePartsNext DEF Length
<1>5. \A s \in PairSlots : s \in Keys /\ s # AllowanceKey(a, b)
  BY <1>1, KeysOfVariables, LayoutAssumption
<1>6. PairScalars' = PairScalars
  BY <1>1, <1>2, <1>5 DEF PairScalars
<1>7. ASSUME NEW c \in Addresses
      PROVE  pair'[BalanceKey(c)] = pair[BalanceKey(c)]
  BY <1>1, <1>2, KeysOfVariables, PairKeysApart
<1>8. Balances' = Balances
  BY <1>7 DEF Balances
<1>9. ASSUME NEW c \in Addresses, NEW d \in Addresses
      PROVE  pair'[AllowanceKey(c, d)] =
               IF c = a /\ d = b THEN v ELSE pair[AllowanceKey(c, d)]
  BY <1>1, <1>2, KeysOfVariables, PairKeysApart
<1>10. Allowances' = [Allowances EXCEPT ![a][b] = v]
  <2>1. Allowances \in [Addresses -> [Addresses -> Values]]
    BY <1>1, KeysOfVariables DEF Allowances
  <2>2. Allowances' \in [Addresses -> [Addresses -> Values]]
    BY <1>3, KeysOfVariables DEF Allowances
  <2>3. \A c, d \in Addresses : Allowances'[c][d] =
          IF c = a /\ d = b THEN v ELSE Allowances[c][d]
    BY <1>9 DEF Allowances
  <2> QED
    BY <2>1, <2>2, <2>3, NestedUpdate
<1> QED
  BY <1>2, <1>4, <1>6, <1>8, <1>10

\* What a write to a key of its own leaves of the factory's variables.
LEMMA FactorySlotStep ==
  ASSUME TypeOK, NEW s \in FactorySlots, NEW v \in Values, SetFactorySlot(s, v)
  PROVE  /\ TypeOK'
         /\ FactoryScalars' = [FactoryScalars EXCEPT ![s] = v]
         /\ UNCHANGED <<PairOf, Length, Listed, pair>>
         /\ \A i \in Indices : factory'[ElementKey(i)] = factory[ElementKey(i)]
<1>1. factory \in [Keys -> FactoryWords] /\ Length \in 0 .. MaxPairs
  BY TypeParts
<1>2. s \in 0 .. 10 /\ s \in Keys /\ s # 3 /\ FactorySlots \subseteq Keys /\ 3 \in Keys
  <2>1. FactorySlots \subseteq 0 .. 10 /\ s # 3
    BY LayoutAssumption
  <2> QED
    BY <2>1, KeysOfVariables
<1>3. factory' = [factory EXCEPT ![s] = v] /\ pair' = pair
  BY DEF SetFactorySlot
<1>4. factory' \in [Keys -> FactoryWords]
  BY <1>1, <1>2, <1>3 DEF FactoryWords
<1>5. Length' = Length
  BY <1>1, <1>2, <1>3 DEF Length
<1>6. \A c, d \in Addresses : factory'[PairKey(c, d)] = factory[PairKey(c, d)]
  BY <1>1, <1>2, <1>3, KeysOfVariables
<1>7. \A i \in Indices : factory'[ElementKey(i)] = factory[ElementKey(i)]
  BY <1>1, <1>2, <1>3, KeysOfVariables
<1>8. TypeOK'
  BY <1>1, <1>3, <1>4, <1>5, <1>6, <1>7, TypeParts, TypePartsNext
<1>9. PairOf' = PairOf
  BY <1>6 DEF PairOf
<1>10. \A i \in 1 .. Length : i - 1 \in Indices
  BY <1>1, LayoutAssumption DEF Indices
<1>11. Listed' = Listed
  BY <1>5, <1>7, <1>10 DEF Listed
<1>12. FactoryScalars' = [FactoryScalars EXCEPT ![s] = v]
  BY <1>1, <1>2, <1>3 DEF FactoryScalars
<1> QED
  BY <1>3, <1>5, <1>7, <1>8, <1>9, <1>11, <1>12

LEMMA SetPairStep ==
  ASSUME TypeOK, NEW a \in Addresses, NEW b \in Addresses, NEW p \in Addresses, set_pair(a, b, p)
  PROVE  /\ TypeOK'
         /\ PairOf' = [PairOf EXCEPT ![a][b] = p]
         /\ UNCHANGED <<FactoryScalars, Length, Listed, pair>>
         /\ \A i \in Indices : factory'[ElementKey(i)] = factory[ElementKey(i)]
<1>1. /\ factory \in [Keys -> FactoryWords] /\ Length \in 0 .. MaxPairs
      /\ PairKey(a, b) \in Keys \ (0 .. 10)
  BY TypeParts, KeysOfVariables
<1>2. factory' = [factory EXCEPT ![PairKey(a, b)] = p] /\ pair' = pair
  BY DEF set_pair, PairKey
<1>3. factory' \in [Keys -> FactoryWords]
  BY <1>1, <1>2 DEF FactoryWords
<1>4. Length' = Length
  <2>1. 3 \in Keys /\ 3 # PairKey(a, b)
    BY <1>1, KeysOfVariables
  <2> QED
    BY <1>1, <1>2, <2>1 DEF Length
<1>5. ASSUME NEW c \in Addresses, NEW d \in Addresses
      PROVE  factory'[PairKey(c, d)] = IF c = a /\ d = b THEN p ELSE factory[PairKey(c, d)]
  BY <1>1, <1>2, KeysOfVariables, FactoryKeysApart
<1>6. \A i \in Indices : factory'[ElementKey(i)] = factory[ElementKey(i)]
  BY <1>1, <1>2, KeysOfVariables, FactoryKeysApart
<1>7. \A c, d \in Addresses : factory'[PairKey(c, d)] \in Addresses
  BY <1>5, TypeParts
<1>8. TypeOK'
  BY <1>1, <1>2, <1>3, <1>4, <1>6, <1>7, TypeParts, TypePartsNext
<1>9. PairOf' = [PairOf EXCEPT ![a][b] = p]
  <2>1. PairOf \in [Addresses -> [Addresses -> FactoryWords]]
    BY TypeParts, AddressFits DEF PairOf, FactoryWords
  <2>2. PairOf' \in [Addresses -> [Addresses -> FactoryWords]]
    BY <1>7, AddressFits DEF PairOf, FactoryWords
  <2>3. \A c, d \in Addresses : PairOf'[c][d] = IF c = a /\ d = b THEN p ELSE PairOf[c][d]
    BY <1>5, AddressFits DEF PairOf
  <2>4. p \in FactoryWords
    BY DEF FactoryWords
  <2>5. ASSUME NEW f \in [Addresses -> [Addresses -> FactoryWords]],
               NEW g \in [Addresses -> [Addresses -> FactoryWords]],
               \A c, d \in Addresses : g[c][d] = IF c = a /\ d = b THEN p ELSE f[c][d]
        PROVE  g = [f EXCEPT ![a][b] = p]
    BY <2>4, <2>5, NestedUpdate
  <2> QED
    BY <2>1, <2>2, <2>3, <2>5
<1>10. \A i \in 1 .. Length : i - 1 \in Indices
  BY <1>1, LayoutAssumption DEF Indices
<1>11. Listed' = Listed
  BY <1>4, <1>6, <1>10 DEF Listed
<1>12. \A s \in FactorySlots : s \in Keys /\ s # PairKey(a, b)
  BY <1>1, KeysOfVariables, LayoutAssumption
<1>13. FactoryScalars' = FactoryScalars
  BY <1>1, <1>2, <1>12 DEF FactoryScalars
<1> QED
  BY <1>2, <1>4, <1>6, <1>8, <1>9, <1>11, <1>13

LEMMA PushStep ==
  ASSUME TypeOK, NEW p \in Addresses, all_pairs_push(p)
  PROVE  /\ TypeOK'
         /\ Listed' = Append(Listed, p)
         /\ UNCHANGED <<FactoryScalars, PairOf, pair>>
         /\ Length' = Length + 1 /\ Length \in Indices
         /\ \A i \in Indices : factory'[ElementKey(i)] =
              IF i = Length THEN p ELSE factory[ElementKey(i)]
<1>1. /\ factory \in [Keys -> FactoryWords] /\ Length \in 0 .. MaxPairs
      /\ Length < MaxPairs /\ MaxPairs \in Nat
  BY TypeParts, LayoutAssumption DEF all_pairs_push, all_pairs_length, storage_get_u256, Length,
     SLOT_ALL_PAIRS
<1>2. Length \in Indices /\ Length + 1 \in 0 .. MaxPairs
  BY <1>1 DEF Indices
<1>3. ElementKey(Length) \in Keys /\ ElementKey(Length) \notin 0 .. 10 /\ 3 \in Keys /\ 3 \in 0 .. 10
  BY <1>2, KeysOfVariables
<1>4. /\ factory' = [[factory EXCEPT ![ElementKey(Length)] = p] EXCEPT ![3] = Length + 1]
      /\ pair' = pair
  BY DEF all_pairs_push, all_pairs_length, storage_get_u256, Length, SLOT_ALL_PAIRS, ElementKey
<1>5. factory' \in [Keys -> FactoryWords]
  BY <1>1, <1>2, <1>3, <1>4 DEF FactoryWords
<1>6. Length' = Length + 1
  BY <1>1, <1>3, <1>4 DEF Length
<1>7. \A c, d \in Addresses : factory'[PairKey(c, d)] = factory[PairKey(c, d)]
  BY <1>1, <1>2, <1>3, <1>4, KeysOfVariables, FactoryKeysApart
<1>8. ASSUME NEW i \in Indices
      PROVE  factory'[ElementKey(i)] = IF i = Length THEN p ELSE factory[ElementKey(i)]
  <2>1. ElementKey(i) \in Keys /\ ElementKey(i) \notin 0 .. 10
    BY KeysOfVariables
  <2>2. i # Length => ElementKey(i) # ElementKey(Length)
    BY <1>2, FactoryKeysApart
  <2> QED
    BY <1>1, <1>3, <1>4, <2>1, <2>2
<1>9. TypeOK'
  <2>1. \A c, d \in Addresses : factory'[PairKey(c, d)] \in Addresses
    BY <1>7, TypeParts
  <2>2. \A i \in Indices : factory'[ElementKey(i)] \in Addresses
    BY <1>8, TypeParts
  <2> QED
    BY <1>2, <1>4, <1>5, <1>6, <2>1, <2>2, TypeParts, TypePartsNext
<1>10. \A s \in FactorySlots : s \in Keys /\ s # ElementKey(Length) /\ s # 3
  BY <1>3, KeysOfVariables, LayoutAssumption
<1>11. FactoryScalars' = FactoryScalars
  BY <1>1, <1>4, <1>10 DEF FactoryScalars
<1>12. PairOf' = PairOf
  BY <1>7 DEF PairOf
<1>13. Listed' = Append(Listed, p)
  <2>1. \A i \in 1 .. Length : i - 1 \in Indices /\ i - 1 # Length
    BY <1>1 DEF Indices
  <2>2. \A i \in 1 .. Length : factory[ElementKey(i - 1)] % ADDR \in Addresses
    BY <2>1, TypeParts, AddressFits
  <2>3. Listed \in [1 .. Length -> Addresses]
    BY <2>2 DEF Listed
  <2>4. Listed \in Seq(Addresses) /\ Len(Listed) = Length
    <3>1. Length \in Nat
      BY <1>1
    <3>2. Listed \in Seq(Addresses)
      BY <2>3, <3>1, SeqDef
    <3>3. Len(Listed) \in Nat /\ 1 .. Len(Listed) = 1 .. Length
      BY <2>3, <3>2, LenProperties
    <3> QED
      BY <3>1, <3>2, <3>3
  <2>5. /\ Append(Listed, p) \in Seq(Addresses) /\ Len(Append(Listed, p)) = Length + 1
        /\ \A i \in 1 .. Length : Append(Listed, p)[i] = Listed[i]
        /\ Append(Listed, p)[Length + 1] = p
    BY <2>4, AppendProperties
  <2>6. ASSUME NEW i \in 1 .. Length
        PROVE  factory'[ElementKey(i - 1)] % ADDR = Listed[i]
    BY <1>8, <2>1 DEF Listed
  <2>7. factory'[ElementKey(Length)] % ADDR = p
    BY <1>2, <1>8, AddressFits
  <2>8. Listed' = [i \in 1 .. Length + 1 |-> factory'[ElementKey(i - 1)] % ADDR]
    BY <1>6 DEF Listed
  <2>9. \A i \in 1 .. Length + 1 : Listed'[i] = Append(Listed, p)[i]
    <3>1. \A i \in 1 .. Length + 1 : i \in 1 .. Length \/ i = Length + 1
      BY <1>1
    <3>2. \A i \in 1 .. Length + 1 : Listed'[i] = factory'[ElementKey(i - 1)] % ADDR
      BY <2>8
    <3>3. ASSUME NEW i \in 1 .. Length PROVE Listed'[i] = Append(Listed, p)[i]
      <4>1. i \in 1 .. Length + 1
        BY <1>1
      <4> QED
        BY <2>5, <2>6, <3>2, <4>1
    <3>4. ASSUME NEW i \in 1 .. Length + 1, i = Length + 1 PROVE Listed'[i] = p
      <4>1. i - 1 = Length
        BY <1>1, <3>4
      <4> QED
        BY <2>7, <3>2, <4>1
    <3> QED
      BY <2>5, <3>1, <3>3, <3>4
  <2>10. Append(Listed, p) \in [1 .. Length + 1 -> Addresses]
    BY <2>5, LenProperties
  <2> QED
    BY <2>8, <2>9, <2>10
<1> QED
  BY <1>2, <1>4, <1>6, <1>8, <1>9, <1>11, <1>12, <1>13

-----------------------------------------------------------------------------
\* Every step of the storages is a step of the variables.
LEMMA PairSteps ==
  ASSUME TypeOK, NEW v \in Values,
         \/ \E s \in PairSlots : SetPairSlot(s, v)
         \/ \E a \in Addresses : set_balance(a, v)
         \/ \E a, b \in Addresses : set_allowance(a, b, v)
  PROVE  TypeOK' /\ UNCHANGED factory /\ Variables!PairStep(v)
<1> DEFINE Step ==
      /\ \/ \E s \in PairSlots : /\ PairScalars' = [PairScalars EXCEPT ![s] = v]
                                 /\ UNCHANGED <<Balances, Allowances>>
         \/ \E a \in Addresses : /\ Balances' = [Balances EXCEPT ![a] = v]
                                 /\ UNCHANGED <<PairScalars, Allowances>>
         \/ \E a, b \in Addresses : /\ Allowances' = [Allowances EXCEPT ![a][b] = v]
                                    /\ UNCHANGED <<PairScalars, Balances>>
      /\ UNCHANGED <<FactoryScalars, PairOf, Listed>>
<1>1. TypeOK' /\ UNCHANGED factory /\ Step
  <2>1. CASE \E s \in PairSlots : SetPairSlot(s, v)
    BY <2>1, PairSlotStep, FactoryKept
  <2>2. CASE \E a \in Addresses : set_balance(a, v)
    BY <2>2, BalanceStep, FactoryKept
  <2>3. CASE \E a, b \in Addresses : set_allowance(a, b, v)
    BY <2>3, AllowanceStep, FactoryKept
  <2> QED
    BY <2>1, <2>2, <2>3
<1>2. Step => Variables!PairStep(v)
  BY Reading, ReadingNext DEF Variables!PairStep, Variables!factoryVars
<1> QED
  BY <1>1, <1>2

LEMMA FactorySlotSteps ==
  ASSUME TypeOK, NEW v \in Values, \E s \in FactorySlots : SetFactorySlot(s, v)
  PROVE  TypeOK' /\ Variables!SlotStep(v)
<1> DEFINE Step == /\ \E s \in FactorySlots : FactoryScalars' = [FactoryScalars EXCEPT ![s] = v]
                   /\ UNCHANGED <<PairScalars, Balances, Allowances, PairOf, Listed>>
<1>1. TypeOK' /\ Step
  BY FactorySlotStep, PairKept
<1>2. Step => Variables!SlotStep(v)
  BY Reading, ReadingNext DEF Variables!SlotStep, Variables!pairVars
<1> QED
  BY <1>1, <1>2

LEMMA RegistrySteps ==
  ASSUME TypeOK, NEW p \in Addresses,
         (\E a, b \in Addresses : set_pair(a, b, p)) \/ all_pairs_push(p)
  PROVE  TypeOK' /\ Variables!RegistryStep(p)
<1> DEFINE Step ==
      /\ \/ \E a, b \in Addresses : PairOf' = [PairOf EXCEPT ![a][b] = p] /\ UNCHANGED Listed
         \/ Listed' = Append(Listed, p) /\ UNCHANGED PairOf
      /\ UNCHANGED <<PairScalars, Balances, Allowances, FactoryScalars>>
<1>1. TypeOK' /\ Step
  <2>1. CASE \E a, b \in Addresses : set_pair(a, b, p)
    BY <2>1, SetPairStep, PairKept
  <2>2. CASE all_pairs_push(p)
    BY <2>2, PushStep, PairKept
  <2> QED
    BY <2>1, <2>2
<1>2. Step => Variables!RegistryStep(p)
  BY Reading, ReadingNext DEF Variables!RegistryStep, Variables!pairVars
<1> QED
  BY <1>1, <1>2

LEMMA StepImplemented ==
  ASSUME TypeOK, [Next]_vars
  PROVE  TypeOK' /\ [Variables!Next]_(Variables!vars)
<1>1. CASE UNCHANGED vars
  <2>1. pair' = pair /\ factory' = factory
    BY <1>1 DEF vars
  <2>2. TypeOK'
    BY <2>1, TypeParts, TypePartsNext DEF Length
  <2>3. UNCHANGED <<PairScalars, Balances, Allowances, FactoryScalars, PairOf, Listed>>
    BY <2>1, PairKept, FactoryKept
  <2>4. UNCHANGED Variables!vars
    BY <2>3, Reading, ReadingNext DEF Variables!vars, Variables!pairVars, Variables!factoryVars
  <2> QED
    BY <2>2, <2>4
<1>2. ASSUME NEW v \in Values,
             \/ \E s \in PairSlots : SetPairSlot(s, v)
             \/ \E a \in Addresses : set_balance(a, v)
             \/ \E a, b \in Addresses : set_allowance(a, b, v)
      PROVE  TypeOK' /\ Variables!Next
  BY <1>2, PairSteps DEF Variables!Next
<1>3. ASSUME NEW v \in Values, \E s \in FactorySlots : SetFactorySlot(s, v)
      PROVE  TypeOK' /\ Variables!Next
  BY <1>3, FactorySlotSteps DEF Variables!Next
<1>4. ASSUME NEW p \in Addresses, (\E a, b \in Addresses : set_pair(a, b, p)) \/ all_pairs_push(p)
      PROVE  TypeOK' /\ Variables!Next
  BY <1>4, RegistrySteps DEF Variables!Next
<1> QED
  BY <1>1, <1>2, <1>3, <1>4 DEF Next

LEMMA Start ==
  ASSUME Init
  PROVE  TypeOK /\ Variables!Init
<1>1. pair = [k \in Keys |-> 0] /\ factory = [k \in Keys |-> 0]
  BY DEF Init
<1>2. 0 \in Values /\ 0 \in Addresses /\ 0 \in 0 .. MaxPairs /\ 0 % ADDR = 0 /\ 3 \in Keys
  <2>1. 3 \in 0 .. 10
    OBVIOUS
  <2> QED
    BY <2>1, LayoutAssumption, AddressFits, KeysOfVariables
<1>3. Length = 0
  BY <1>1, <1>2 DEF Length
<1>4. TypeOK
  BY <1>1, <1>2, <1>3, KeysOfVariables, TypeParts DEF FactoryWords
<1>5. PairSlots \subseteq Keys /\ FactorySlots \subseteq Keys
  <2>1. PairSlots \subseteq 0 .. 10 /\ FactorySlots \subseteq 0 .. 10
    BY LayoutAssumption
  <2> QED
    BY <2>1, KeysOfVariables
<1>6. PairScalars = [s \in PairSlots |-> 0] /\ FactoryScalars = [s \in FactorySlots |-> 0]
  BY <1>1, <1>5 DEF PairScalars, FactoryScalars
<1>7. /\ Balances = [a \in Addresses |-> 0]
      /\ Allowances = [a \in Addresses |-> [b \in Addresses |-> 0]]
  BY <1>1, KeysOfVariables DEF Balances, Allowances
<1>8. PairOf = [a \in Addresses |-> [b \in Addresses |-> 0]]
  BY <1>1, <1>2, KeysOfVariables DEF PairOf
<1>9. Listed = <<>>
  BY <1>3 DEF Listed
<1> QED
  BY <1>4, <1>6, <1>7, <1>8, <1>9, Reading DEF Variables!Init

\* The length of allPairs stays within its bound, and every key has a word of
\* its kind (factory.rs:53-104, pair.rs:108-132).
THEOREM TypeCorrect == Spec => []TypeOK
<1>1. Init => TypeOK
  BY Start
<1>2. TypeOK /\ [Next]_vars => TypeOK'
  BY StepImplemented
<1> QED
  BY <1>1, <1>2, PTL DEF Spec

\* The flat storages of pair and factory (lib.rs, pair.rs, factory.rs) behave
\* like variables that share nothing, for every set of addresses and every
\* hash that does not collide on the words the contracts hash.
THEOREM VariablesImplemented == Spec => ImplementsVariables
<1>1. Init => Variables!Init
  BY Start
<1>2. TypeOK /\ [Next]_vars => [Variables!Next]_(Variables!vars)
  BY StepImplemented
<1> QED
  BY <1>1, <1>2, TypeCorrect, PTL DEF Spec, ImplementsVariables, Variables!Spec

-----------------------------------------------------------------------------
\* The inner hashes of the getPair entries, and the indices whose keys are not
\* those of such entries.
Inners == {keccak(b, 3 * SHIFT) : b \in Addresses}
Plain == {i \in Asked : 3 \in Addresses => i \notin Inners}

\* The keys of the plain indices meet no other key of the factory.
LEMMA PlainKeysApart ==
  ASSUME NEW i \in Plain
  PROVE  /\ ElementKey(i) \in Keys \ (0 .. 10)
         /\ \A j \in Asked : ElementKey(i) = ElementKey(j) => i = j
         /\ \A a, b \in Addresses : ElementKey(i) # PairKey(a, b)
<1>1. <<3, i>> \in Hashed /\ i \in Asked
  BY HashedWords DEF Plain
<1>2. ElementKey(i) \in Keys \ (0 .. 10)
  BY <1>1, HashIsKey, KeyForms
<1>3. ASSUME NEW j \in Asked, ElementKey(i) = ElementKey(j) PROVE i = j
  BY <1>1, <1>3, HashedWords, NoCollision, KeyForms
<1>4. ASSUME NEW a \in Addresses, NEW b \in Addresses, ElementKey(i) = PairKey(a, b)
      PROVE  FALSE
  <2>1. keccak(3, i) = keccak(a, keccak(b, 3 * SHIFT))
    BY <1>4, KeyForms
  <2>2. <<a, keccak(b, 3 * SHIFT)>> \in Hashed
    BY HashedWords
  <2>3. 3 = a /\ i = keccak(b, 3 * SHIFT)
    BY <1>1, <2>1, <2>2, NoCollision
  <2> QED
    BY <2>3 DEF Plain, Inners
<1> QED
  BY <1>2, <1>3, <1>4

\* Behind the end the plain indices have never been written.
RestClear == \A i \in Plain : i \notin 0 .. Length - 1 => factory[ElementKey(i)] = 0

LEMMA RestStart == ASSUME Init PROVE RestClear
BY PlainKeysApart DEF RestClear, Init

\* A step that writes neither the length nor an element.
LEMMA RestKept ==
  ASSUME RestClear, Length' = Length,
         \A i \in Plain : factory'[ElementKey(i)] = factory[ElementKey(i)]
  PROVE  RestClear'
BY DEF RestClear

LEMMA RestStep == ASSUME TypeOK, RestClear, [Next]_vars PROVE RestClear'
<1> USE DEF Length
<1>0. factory \in [Keys -> FactoryWords] /\ Length \in 0 .. MaxPairs /\ 3 \in Keys
  BY TypeParts, KeysOfVariables
<1>1. CASE UNCHANGED factory
  BY <1>1, RestKept
<1>2. ASSUME NEW s \in FactorySlots, NEW v \in Values, SetFactorySlot(s, v)
      PROVE  RestClear'
  <2>1. factory' = [factory EXCEPT ![s] = v]
    BY <1>2 DEF SetFactorySlot
  <2>2. s \in 0 .. 10 /\ s # 3
    BY LayoutAssumption
  <2>3. \A i \in Plain : factory'[ElementKey(i)] = factory[ElementKey(i)]
    BY <1>0, <2>1, <2>2, PlainKeysApart
  <2> QED
    BY <1>0, <2>1, <2>2, <2>3, RestKept
<1>3. ASSUME NEW a \in Addresses, NEW b \in Addresses, NEW p \in Addresses, set_pair(a, b, p)
      PROVE  RestClear'
  <2>1. factory' = [factory EXCEPT ![PairKey(a, b)] = p]
    BY <1>3 DEF set_pair, PairKey
  <2>2. PairKey(a, b) \in Keys \ (0 .. 10) /\ 3 \in 0 .. 10
    BY KeysOfVariables
  <2>3. \A i \in Plain : factory'[ElementKey(i)] = factory[ElementKey(i)]
    BY <1>0, <2>1, PlainKeysApart
  <2> QED
    BY <1>0, <2>1, <2>2, <2>3, RestKept
<1>4. ASSUME NEW p \in Addresses, all_pairs_push(p) PROVE RestClear'
  <2>1. /\ Length < MaxPairs
        /\ factory' = [[factory EXCEPT ![ElementKey(Length)] = p] EXCEPT ![3] = Length + 1]
    BY <1>4 DEF all_pairs_push, all_pairs_length, storage_get_u256, ElementKey, SLOT_ALL_PAIRS
  <2>2. Length \in Asked /\ Length \in Nat
    BY <1>0, <2>1, LayoutAssumption, HashedWords DEF Indices
  <2>3. Length' = Length + 1
    BY <1>0, <2>1
  <2>4. ASSUME NEW i \in Plain, i \notin 0 .. Length' - 1
        PROVE  factory'[ElementKey(i)] = 0
    <3>1. i # Length /\ i \notin 0 .. Length - 1
      BY <2>2, <2>3, <2>4
    <3>2. ElementKey(i) # ElementKey(Length) /\ ElementKey(i) # 3 /\ ElementKey(i) \in Keys
      BY <2>2, <3>1, PlainKeysApart
    <3>3. factory[ElementKey(i)] = 0
      BY <3>1 DEF RestClear
    <3> QED
      BY <1>0, <2>1, <3>2, <3>3
  <2> QED
    BY <2>4 DEF RestClear
<1>5. CASE \E v \in Values :
             \/ \E s \in PairSlots : SetPairSlot(s, v)
             \/ \E a \in Addresses : set_balance(a, v)
             \/ \E a, b \in Addresses : set_allowance(a, b, v)
  BY <1>1, <1>5, PairSteps
<1>6. CASE UNCHANGED vars
  BY <1>1, <1>6 DEF vars
<1> QED
  BY <1>2, <1>3, <1>4, <1>5, <1>6 DEF Next

\* What allPairs answers for an index depends on which of the three it is.
LEMMA RestAnswers == ASSUME TypeOK, RestClear PROVE AllPairsAnswers
<1> SUFFICES ASSUME NEW i \in Asked
             PROVE  \/ all_pairs_get(i) = 0
                    \/ \E j \in 0 .. all_pairs_length - 1 : all_pairs_get(i) = all_pairs_get(j)
                    \/ \E a, b \in Addresses : all_pairs_get(i) = get_pair_internal(a, b)
  BY DEF AllPairsAnswers
<1>1. all_pairs_length = Length
  BY Reading
<1>2. CASE i \in 0 .. Length - 1
  BY <1>1, <1>2
<1>3. CASE i \in Plain /\ i \notin 0 .. Length - 1
  <2>1. factory[ElementKey(i)] = 0
    BY <1>3 DEF RestClear
  <2> QED
    BY <2>1, LayoutAssumption DEF all_pairs_get, ElementKey
<1>4. CASE i \notin Plain
  <2>1. PICK b \in Addresses : i = keccak(b, 3 * SHIFT)
    BY <1>4 DEF Plain, Inners
  <2>2. 3 \in Addresses
    BY <1>4 DEF Plain
  <2>3. ElementKey(i) = PairKey(3, b)
    BY <2>1, KeyForms
  <2>4. all_pairs_get(i) = get_pair_internal(3, b)
    BY <2>3 DEF all_pairs_get, get_pair_internal, ElementKey, PairKey
  <2> QED
    BY <2>2, <2>4
<1> QED
  BY <1>2, <1>3, <1>4

\* The call allPairs, which takes any word for an index (factory.rs:165-170),
\* never answers with anything but zero, an element, or a pair of getPair.
THEOREM AnswersArePairs == Spec => []AllPairsAnswers
<1>1. Init => RestClear
  BY RestStart
<1>2. TypeOK /\ RestClear /\ [Next]_vars => RestClear'
  BY RestStep
<1>3. TypeOK /\ RestClear => AllPairsAnswers
  BY RestAnswers
<1> QED
  BY <1>1, <1>2, <1>3, TypeCorrect, PTL DEF Spec

=============================================================================
