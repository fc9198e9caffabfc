------------------------- MODULE PvmExecutorProofs -------------------------
(***************************************************************************)
(* PvmExecutor implements SlotStore for every size of words and every      *)
(* memory: the hash map is a total storage because it never holds a zero.  *)
(* A copy of call data changes the buffer it is given and nothing else.    *)
(***************************************************************************)
EXTENDS PvmExecutor, SequenceTheorems, TLAPS

Memories == [Readable -> Bytes]
Results == {"none", "ok", "reverted", "trapped", "out of gas", "error", "panicked"}

\* The storage the contract sees.
Seen == [k \in Words |-> GetOrZero(k)]

\* The length of data of the executor.
LEMMA LenOfData ==
  ASSUME NEW n \in Nat, NEW data \in [1 .. n -> Bytes]
  PROVE  Len(data) = n
<1>1. data \in Seq(Bytes)
  BY SeqDef
<1>2. Len(data) \in Nat /\ DOMAIN data = 1 .. Len(data)
  BY <1>1, LenProperties
<1>3. 1 .. Len(data) = 1 .. n
  BY <1>2
<1> QED
  BY <1>2, <1>3

LEMMA ZerosData == \A n \in Nat : Zeros(n) \in [1 .. n -> Bytes]
BY PvmAssumption DEF Zeros

LEMMA ZeroIsWord == ZeroWord \in Words
BY ZerosData, PvmAssumption DEF ZeroWord, Words

\* What is read has the length asked for.
LEMMA ReadData ==
  ASSUME TypeOK, NEW ptr \in Nat, NEW n \in Nat
  PROVE  Read(ptr, n) \in [1 .. n -> Bytes]
<1>1. CASE Region(ptr, n) \subseteq Readable
  <2>1. \A i \in 1 .. n : ptr + i - 1 \in Region(ptr, n)
    BY DEF Region
  <2> QED
    BY <1>1, <2>1 DEF Read, TypeOK
<1>2. CASE ~(Region(ptr, n) \subseteq Readable)
  BY <1>2, ZerosData DEF Read
<1> QED
  BY <1>1, <1>2

LEMMA ReadWord ==
  ASSUME TypeOK, NEW ptr \in Pointers
  PROVE  Read(ptr, WORD) \in Words
BY ReadData, PvmAssumption DEF Words

\* A write changes the whole region, or nothing, and nothing else.
LEMMA WrittenFacts ==
  ASSUME NEW m \in Memories, NEW ptr \in Nat, NEW n \in Nat, NEW data \in [1 .. n -> Bytes]
  PROVE  /\ Written(m, ptr, data) \in Memories
         /\ \A a \in Readable \ Region(ptr, n) : Written(m, ptr, data)[a] = m[a]
         /\ Region(ptr, n) \subseteq Writable =>
              \A a \in Region(ptr, n) : Written(m, ptr, data)[a] = data[a - ptr + 1]
         /\ ~(Region(ptr, n) \subseteq Writable) => Written(m, ptr, data) = m
<1>1. Len(data) = n
  BY LenOfData
<1>2. CASE Region(ptr, n) \subseteq Writable
  <2>1. Written(m, ptr, data) =
          [a \in Readable |-> IF a \in Region(ptr, n) THEN data[a - ptr + 1] ELSE m[a]]
    BY <1>1, <1>2 DEF Written
  <2>2. Region(ptr, n) \subseteq Readable
    BY <1>2, PvmAssumption
  <2>3. \A a \in Region(ptr, n) : a - ptr + 1 \in 1 .. n
    BY DEF Region
  <2>4. \A a \in Region(ptr, n) : data[a - ptr + 1] \in Bytes
    BY <2>3
  <2> QED
    BY <1>2, <2>1, <2>2, <2>4 DEF Memories
<1>3. CASE ~(Region(ptr, n) \subseteq Writable)
  BY <1>1, <1>3 DEF Written
<1> QED
  BY <1>2, <1>3

LEMMA ByteAtType ==
  ASSUME NEW d \in Seq(Bytes), NEW off \in Int, off >= 0
  PROVE  ByteAt(d, off) \in Bytes
<1>1. CASE off < Len(d)
  <2>1. off + 1 \in 1 .. Len(d)
    BY <1>1, LenProperties
  <2> QED
    BY <1>1, <2>1, ElementOfSeq DEF ByteAt
<1>2. CASE ~(off < Len(d))
  BY <1>2, PvmAssumption DEF ByteAt
<1> QED
  BY <1>1, <1>2

\* Offsets are natural numbers.
LEMMA OffsetsNat == Offsets \subseteq Nat
<1>1. \A d \in CallDatas : Len(d) \in Nat
  BY PvmAssumption, LenProperties
<1> QED
  BY <1>1 DEF Offsets

LEMMA PointersNat == Pointers \subseteq Nat
BY PvmAssumption

\* Call data in the state is call data of a call, or there is none.
LEMMA CallDataSeq == TypeOK => calldata \in Seq(Bytes)
BY PvmAssumption, EmptySeq DEF TypeOK

LEMMA LoadedType ==
  ASSUME TypeOK, NEW ptr \in Pointers, NEW off \in Offsets
  PROVE  Loaded(memory, calldata, ptr, off) \in Memories
<1>1. /\ off \in Nat
      /\ ptr \in Nat
      /\ WORD \in Nat
      /\ memory \in Memories
  <2>1. off \in Nat
    BY OffsetsNat
  <2>2. ptr \in Nat
    BY PointersNat
  <2>3. WORD \in Nat
    BY PvmAssumption
  <2> QED
    BY <2>1, <2>2, <2>3 DEF TypeOK, Memories
<1>2. \A i \in 1 .. WORD : ByteAt(calldata, off + WORD - i) \in Bytes
  BY <1>1, CallDataSeq, ByteAtType
<1>3. [i \in 1 .. WORD |-> ByteAt(calldata, off + WORD - i)] \in [1 .. WORD -> Bytes]
  BY <1>2
<1> QED
  BY <1>1, <1>3, WrittenFacts DEF Loaded

\* The part of the call data that is copied is there.
LEMMA AvailableFacts ==
  ASSUME NEW d \in Seq(Bytes), NEW n \in Nat, NEW off \in Nat
  PROVE  /\ Available(d, n, off) \in 0 .. n
         /\ Available(d, n, off) > 0 => off + Available(d, n, off) <= Len(d)
         /\ Available(d, n, off) < n => off + Available(d, n, off) >= Len(d)
         /\ Available(d, n, off) <= Len(d)
BY LenProperties DEF Available

LEMMA PartData ==
  ASSUME NEW d \in Seq(Bytes), NEW off \in Nat, NEW k \in Nat, k > 0 => off + k <= Len(d)
  PROVE  /\ SubSeq(d, off + 1, off + k) \in [1 .. k -> Bytes]
         /\ \A i \in 1 .. k : SubSeq(d, off + 1, off + k)[i] = d[off + i]
<1>1. Len(d) \in Nat
  BY LenProperties
<1>2. \A i \in off + 1 .. off + k : i \in 1 .. Len(d)
  BY <1>1
<1>3. \A i \in off + 1 .. off + k : d[i] \in Bytes
  BY <1>2, ElementOfSeq
<1>4. /\ SubSeq(d, off + 1, off + k) \in Seq(Bytes)
      /\ Len(SubSeq(d, off + 1, off + k)) =
           IF off + 1 <= off + k THEN off + k - (off + 1) + 1 ELSE 0
      /\ \A i \in 1 .. off + k - (off + 1) + 1 :
           SubSeq(d, off + 1, off + k)[i] = d[off + 1 + i - 1]
  BY <1>3, SubSeqProperties
<1>5. Len(SubSeq(d, off + 1, off + k)) = k
  BY <1>4
<1>6. SubSeq(d, off + 1, off + k) \in [1 .. k -> Bytes]
  BY <1>4, <1>5, LenProperties
<1> QED
  BY <1>4, <1>6

\* Where the zeros of a copy go: behind the data, or nowhere when the address
\* wraps around, for the addresses it wraps to cannot be written.
LEMMA SecondWrite ==
  ASSUME NEW p \in Pointers, NEW n \in Nat, NEW k \in 0 .. n,
         NEW d \in CallDatas \cup {<<>>}, k <= Len(d)
  PROVE  \/ k = n
         \/ p + k < Space /\ (p + k) % Space = p + k
         \/ ~(Region((p + k) % Space, n - k) \subseteq Writable)
<1>1. p \in Nat /\ Space \in Nat /\ p < Space /\ k \in Nat
  BY PvmAssumption
<1>2. CASE p + k < Space
  BY <1>1, <1>2
<1>3. CASE p + k >= Space /\ k < n
  <2> DEFINE q == (p + k) % Space
  <2>1. SUFFICES ASSUME Region(q, n - k) \subseteq Writable PROVE FALSE
    BY DEF Region
  <2>2. Space > 0
    BY PvmAssumption
  <2>3. q \in 0 .. Space - 1
    BY <1>1, <2>2
  <2>4. q \in Region(q, n - k)
    BY <1>1, <1>3, <2>3 DEF Region
  <2>5. q \in Readable
    BY <2>1, <2>4, PvmAssumption
  <2>6. d \in CallDatas
    <3>1. k > 0
      BY <1>1, <1>3
    <3>2. Len(<<>>) = 0
      BY EmptySeq
    <3> QED
      BY <3>1, <3>2, <1>1
  <2>7. Len(d) \in Nat /\ Len(d) <= q
    BY <2>5, <2>6, PvmAssumption, LenProperties
  <2>8. k < Space
    BY <1>1, <2>3, <2>7
  <2>9. q = p + k - Space
    BY <1>1, <1>3, <2>2, <2>8
  <2>10. q < k
    BY <1>1, <2>9
  <2> QED
    BY <1>1, <2>3, <2>7, <2>10
<1> QED
  BY <1>1, <1>2, <1>3

\* A copy keeps the memory a memory, and changes the buffer it is given only.
LEMMA CopiedFacts ==
  ASSUME TypeOK, NEW p \in Pointers, NEW n \in Lengths, NEW off \in Offsets
  PROVE  /\ Copied(memory, calldata, p, n, off) \in Memories
         /\ \A a \in Readable \ Region(p, n) : Copied(memory, calldata, p, n, off)[a] = memory[a]
         /\ \A a \in Readable \cap Region(p, n) :
              \/ Copied(memory, calldata, p, n, off)[a] = ByteAt(calldata, off + a - p)
              \/ /\ Copied(memory, calldata, p, n, off)[a] = memory[a]
                 /\ ~(Region(p, n) \subseteq Writable)
<1> DEFINE k == Available(calldata, n, off)
           data == SubSeq(calldata, off + 1, off + k)
           m1 == Written(memory, p, data)
           q == (p + k) % Space
           m2 == Written(m1, q, Zeros(n - k))
<1>1. p \in Nat
  BY PointersNat
<1>2. n \in Nat
  BY PvmAssumption
<1>3. off \in Nat
  BY OffsetsNat
<1>4. calldata \in Seq(Bytes)
  BY CallDataSeq
<1>5. /\ k \in 0 .. n
      /\ k > 0 => off + k <= Len(calldata)
      /\ k < n => off + k >= Len(calldata)
      /\ k <= Len(calldata)
  BY <1>2, <1>3, <1>4, AvailableFacts
<1>6. k \in Nat /\ n - k \in Nat
  BY <1>2, <1>5
<1>7. data \in [1 .. k -> Bytes] /\ \A i \in 1 .. k : data[i] = calldata[off + i]
  BY <1>3, <1>4, <1>5, <1>6, PartData
<1>8. memory \in Memories
  BY DEF TypeOK, Memories
<1> HIDE DEF k, data
<1>9. /\ m1 \in Memories
      /\ \A a \in Readable \ Region(p, k) : m1[a] = memory[a]
      /\ Region(p, k) \subseteq Writable => \A a \in Region(p, k) : m1[a] = data[a - p + 1]
      /\ ~(Region(p, k) \subseteq Writable) => m1 = memory
  BY <1>1, <1>6, <1>7, <1>8, WrittenFacts
<1>10. Zeros(n - k) \in [1 .. n - k -> Bytes]
  BY <1>6, ZerosData
<1>11. q \in Nat
  BY <1>1, <1>6, PvmAssumption
<1> HIDE DEF m1, q
<1>12. /\ m2 \in Memories
       /\ \A a \in Readable \ Region(q, n - k) : m2[a] = m1[a]
       /\ Region(q, n - k) \subseteq Writable =>
            \A a \in Region(q, n - k) : m2[a] = Zeros(n - k)[a - q + 1]
       /\ ~(Region(q, n - k) \subseteq Writable) => m2 = m1
  BY <1>6, <1>9, <1>10, <1>11, WrittenFacts
<1>13. k = n \/ q = p + k \/ ~(Region(q, n - k) \subseteq Writable)
  BY <1>2, <1>5, SecondWrite DEF q, TypeOK
<1>14. \A a \in Region(q, n - k) :
         Region(q, n - k) \subseteq Writable => m2[a] = 0 /\ q = p + k
  <2>1. \A a \in Region(q, n - k) : k # n /\ a - q + 1 \in 1 .. n - k
    BY <1>2, <1>6, <1>11 DEF Region
  <2> QED
    BY <1>12, <1>13, <2>1 DEF Zeros
<1>15. Copied(memory, calldata, p, n, off) = m2
  BY DEF Copied, m2, m1, q, data, k
<1> HIDE DEF m2
<1>16. ASSUME NEW a \in Readable \ Region(p, n)
       PROVE  m2[a] = memory[a]
  <2>1. a \notin Region(p, k)
    BY <1>1, <1>2, <1>5, <1>6 DEF Region
  <2>2. m1[a] = memory[a]
    BY <1>9, <2>1
  <2>3. CASE a \in Region(q, n - k) /\ Region(q, n - k) \subseteq Writable
    BY <1>1, <1>2, <1>6, <1>14, <2>3 DEF Region
  <2>4. CASE a \notin Region(q, n - k) \/ ~(Region(q, n - k) \subseteq Writable)
    BY <1>12, <2>2, <2>4
  <2> QED
    BY <2>3, <2>4
<1>17. ASSUME NEW a \in Readable \cap Region(p, n)
       PROVE  \/ m2[a] = ByteAt(calldata, off + a - p)
              \/ m2[a] = memory[a] /\ ~(Region(p, n) \subseteq Writable)
  <2>1. a \in Int /\ a >= p /\ a < p + n
    BY <1>1, <1>2 DEF Region
  <2>2. CASE a < p + k
    <3>1. a \in Region(p, k) /\ ~(a \in Region(q, n - k) /\ Region(q, n - k) \subseteq Writable)
      BY <1>1, <1>6, <1>14, <2>1, <2>2 DEF Region
    <3>2. m2[a] = m1[a]
      BY <1>12, <3>1
    <3>3. CASE Region(p, k) \subseteq Writable
      <4>1. a - p + 1 \in 1 .. k
        BY <1>1, <1>6, <2>1, <2>2
      <4>2. m1[a] = calldata[off + (a - p + 1)]
        BY <1>7, <1>9, <3>1, <3>3, <4>1
      <4>3. off + a - p < Len(calldata) /\ off + (a - p + 1) = off + a - p + 1
        BY <1>1, <1>3, <1>5, <1>6, <2>1, <2>2, <1>4, LenProperties
      <4> QED
        BY <3>2, <4>2, <4>3 DEF ByteAt
    <3>4. CASE ~(Region(p, k) \subseteq Writable)
      <4>1. Region(p, k) \subseteq Region(p, n)
        BY <1>1, <1>2, <1>5, <1>6 DEF Region
      <4> QED
        BY <1>9, <3>2, <3>4, <4>1
    <3> QED
      BY <3>3, <3>4
  <2>3. CASE a >= p + k
    <3>1. a \notin Region(p, k) /\ k < n
      BY <1>1, <1>2, <1>6, <2>1, <2>3 DEF Region
    <3>2. m1[a] = memory[a]
      BY <1>9, <3>1
    <3>3. CASE Region(q, n - k) \subseteq Writable
      <4>1. q = p + k
        BY <1>2, <1>6, <1>13, <3>1, <3>3
      <4>2. a \in Region(q, n - k)
        BY <1>1, <1>2, <1>6, <2>1, <2>3, <4>1 DEF Region
      <4>3. m2[a] = 0
        BY <1>14, <3>3, <4>2
      <4>4. ~(off + a - p < Len(calldata))
        BY <1>1, <1>3, <1>5, <1>6, <2>1, <2>3, <3>1, <1>4, LenProperties
      <4> QED
        BY <4>3, <4>4 DEF ByteAt
    <3>4. CASE ~(Region(q, n - k) \subseteq Writable)
      <4>1. m2[a] = memory[a]
        BY <1>12, <3>2, <3>4
      <4>2. CASE q = p + k
        <5>1. Region(q, n - k) \subseteq Region(p, n)
          BY <1>1, <1>2, <1>6, <4>2 DEF Region
        <5> QED
          BY <3>4, <4>1, <5>1
      <4>3. CASE q # p + k
        <5>1. ~(p + k < Space)
          BY <1>1, <1>6, <4>3, PvmAssumption DEF q
        <5>2. p + k \in Region(p, n) /\ p + k \notin Writable
          BY <1>1, <1>2, <1>6, <3>1, <5>1, PvmAssumption DEF Region
        <5> QED
          BY <4>1, <5>2
      <4> QED
        BY <4>2, <4>3
    <3> QED
      BY <3>3, <3>4
  <2> QED
    BY <1>1, <1>6, <2>1, <2>2, <2>3
<1> QED
  BY <1>12, <1>15, <1>16, <1>17

\* The gas stays between nothing and the limit.
LEMMA GasStep ==
  ASSUME TypeOK, Interrupt \/ gas' = gas \/ gas' = GAS_LIMIT
  PROVE  gas' \in 0 .. GAS_LIMIT
<1>1. gas \in 0 .. GAS_LIMIT
  BY DEF TypeOK
<1>2. (gas > 0 /\ gas' = gas - 1) \/ gas' = gas \/ gas' = GAS_LIMIT
  BY DEF Interrupt
<1> QED
  BY <1>1, <1>2, PvmAssumption

\* What Insert leaves in the map.
LEMMA InsertFacts ==
  ASSUME TypeOK, NEW k \in Words, NEW v \in Words
  PROVE  /\ DOMAIN Insert(k, v) =
              IF v = ZeroWord THEN DOMAIN storage \ {k} ELSE DOMAIN storage \cup {k}
         /\ \A j \in DOMAIN Insert(k, v) : Insert(k, v)[j] = IF j = k THEN v ELSE storage[j]
         /\ Insert(k, v) = [j \in DOMAIN Insert(k, v) |-> Insert(k, v)[j]]
BY DEF Insert, Restrict

\* A write keeps the types, changes the slot written and no other, and its
\* answer says whether the slot was zero.
LEMMA SetStep ==
  ASSUME TypeOK, NEW key_ptr \in Pointers, NEW value_ptr \in Pointers,
         SetStorageOrClear(key_ptr, value_ptr)
  PROVE  TypeOK' /\ \E k \in Words, v \in Words : Slots!Set(k, v)
<1> DEFINE k == Read(key_ptr, WORD)
           v == Read(value_ptr, WORD)
<1>1. /\ answer' = IF k \in DOMAIN storage THEN SLOT_LEN ELSE SENTINEL
      /\ storage' = Insert(k, v)
  BY DEF SetStorageOrClear
<1>2. k \in Words /\ v \in Words
  BY ReadWord
<1> HIDE DEF k, v
<1>3. /\ DOMAIN storage' = IF v = ZeroWord THEN DOMAIN storage \ {k}
                                           ELSE DOMAIN storage \cup {k}
      /\ \A j \in DOMAIN storage' : storage'[j] = IF j = k THEN v ELSE storage[j]
      /\ storage' = [j \in DOMAIN storage' |-> storage'[j]]
  <2>1. /\ DOMAIN Insert(k, v) =
              IF v = ZeroWord THEN DOMAIN storage \ {k} ELSE DOMAIN storage \cup {k}
        /\ \A j \in DOMAIN Insert(k, v) : Insert(k, v)[j] = IF j = k THEN v ELSE storage[j]
        /\ Insert(k, v) = [j \in DOMAIN Insert(k, v) |-> Insert(k, v)[j]]
    BY <1>2, InsertFacts
  <2> QED
    BY <1>1, <2>1
<1>4. gas' \in 0 .. GAS_LIMIT /\ UNCHANGED <<instance, result>>
  BY GasStep DEF SetStorageOrClear
<1>5. TypeOK'
  BY <1>1, <1>2, <1>3, <1>4 DEF TypeOK, instance
<1>6. k \in DOMAIN storage <=> GetOrZero(k) # ZeroWord
  BY <1>2 DEF GetOrZero, TypeOK
<1>7. ASSUME NEW j \in Words
      PROVE  GetOrZero(j)' = IF j = k THEN v ELSE GetOrZero(j)
  BY <1>3 DEF GetOrZero
<1>8. Seen' = [Seen EXCEPT ![k] = v]
  BY <1>7 DEF Seen
<1>9. answer' = IF Seen[k] = ZeroWord THEN SENTINEL ELSE SLOT_LEN
  BY <1>1, <1>2, <1>6 DEF Seen
<1>10. Slots!Set(k, v)
  BY <1>8, <1>9 DEF Slots!Set, Seen
<1> QED
  BY <1>2, <1>5, <1>10

\* A read gives the contract the value of a slot.
LEMMA GetStep ==
  ASSUME TypeOK, NEW key_ptr \in Pointers, NEW out_ptr \in Pointers,
         GetStorageOrZero(key_ptr, out_ptr)
  PROVE  TypeOK' /\ \E k \in Words : Slots!Get(k)
<1> DEFINE k == Read(key_ptr, WORD)
<1>1. /\ answer' = GetOrZero(k)
      /\ memory' = Written(memory, out_ptr, answer')
  BY DEF GetStorageOrZero
<1>2. k \in Words
  BY ReadWord
<1> HIDE DEF k
<1>3. GetOrZero(k) \in Words
  BY <1>2, ZeroIsWord DEF GetOrZero, TypeOK
<1>4. gas' \in 0 .. GAS_LIMIT /\ UNCHANGED <<storage, running, calldata, result>>
  BY GasStep DEF GetStorageOrZero
<1>5. memory \in Memories /\ out_ptr \in Nat /\ answer' \in [1 .. WORD -> Bytes]
  BY <1>1, <1>3, PointersNat DEF TypeOK, Memories, Words
<1>6. WORD \in Nat
  BY PvmAssumption
<1>7. memory' \in Memories
  BY <1>1, <1>5, <1>6, WrittenFacts
<1>8. TypeOK'
  BY <1>1, <1>3, <1>4, <1>7 DEF TypeOK, Memories
<1>9. Seen' = Seen
  BY <1>4 DEF Seen, GetOrZero
<1>10. Slots!Get(k)
  BY <1>1, <1>2, <1>9 DEF Slots!Get, Seen
<1> QED
  BY <1>2, <1>8, <1>10

\* reset_storage clears every slot.
LEMMA ResetStep ==
  ASSUME TypeOK, ResetStorage
  PROVE  TypeOK' /\ Slots!Clear
<1>1. DOMAIN storage' = {} /\ storage' = [j \in DOMAIN storage' |-> storage'[j]]
      /\ UNCHANGED <<instance, gas, answer, result>>
  BY DEF ResetStorage
<1>2. TypeOK'
  BY <1>1 DEF TypeOK, instance
<1>3. Seen' = [k \in Words |-> ZeroWord]
  BY <1>1 DEF Seen, GetOrZero
<1> QED
  BY <1>1, <1>2, <1>3 DEF Slots!Clear, Seen

\* No other step touches what the contract sees.
LEMMA QuietStep ==
  ASSUME TypeOK, UNCHANGED <<storage, answer>>,
         running' \in BOOLEAN, memory' \in Memories, calldata' \in CallDatas \cup {<<>>},
         gas' \in 0 .. GAS_LIMIT, result' \in Results
  PROVE  TypeOK' /\ UNCHANGED Slots!vars
<1>1. TypeOK'
  BY DEF TypeOK, Memories, Results
<1>2. Seen' = Seen
  BY DEF Seen, GetOrZero
<1> QED
  BY <1>1, <1>2 DEF Slots!vars, Seen

LEMMA ImageType == Image \in Memories
BY PvmAssumption DEF Image, Memories

\* The syscalls that write to the memory of the contract.
LEMMA MemoryStep ==
  ASSUME TypeOK,
         \/ Compute
         \/ \E p \in Pointers : PutWord(p)
         \/ \E p \in Pointers, off \in Offsets : CallDataLoad(p, off)
         \/ \E p \in Pointers, n \in Lengths, off \in Offsets : CallDataCopy(p, n, off)
  PROVE  TypeOK' /\ UNCHANGED Slots!vars
<1>1. memory \in Memories /\ running \in BOOLEAN /\ result \in Results
      /\ calldata \in CallDatas \cup {<<>>}
  BY DEF TypeOK, Memories, Results
<1>2. memory' \in Memories
  <2>1. CASE Compute
    BY <1>1, <2>1, PvmAssumption DEF Compute, Memories
  <2>2. CASE \E p \in Pointers : PutWord(p)
    <3>1. PICK p \in Pointers, n \in 1 .. WORD : \E w \in [1 .. n -> Bytes] :
            memory' = Written(memory, p, w)
      BY <2>2 DEF PutWord
    <3>2. p \in Nat /\ n \in Nat
      BY PointersNat
    <3> QED
      BY <1>1, <3>1, <3>2, WrittenFacts
  <2>3. CASE \E p \in Pointers, off \in Offsets : CallDataLoad(p, off)
    BY <2>3, LoadedType DEF CallDataLoad
  <2>4. CASE \E p \in Pointers, n \in Lengths, off \in Offsets : CallDataCopy(p, n, off)
    BY <2>4, CopiedFacts DEF CallDataCopy
  <2> QED
    BY <2>1, <2>2, <2>3, <2>4
<1>3. UNCHANGED <<storage, running, calldata, answer, result>>
  BY DEF Compute, PutWord, CallDataLoad, CallDataCopy
<1>4. gas' \in 0 .. GAS_LIMIT
  BY GasStep DEF Compute, PutWord, CallDataLoad, CallDataCopy
<1> QED
  BY <1>1, <1>2, <1>3, <1>4, QuietStep

\* The steps of the loop and its ends.
LEMMA LoopStep ==
  ASSUME TypeOK,
         \/ \E d \in CallDatas : Call(d)
         \/ CallFails \/ OtherSyscall \/ ConsumeAllGas
         \/ \E flags \in 0 .. 3 : SealReturn(flags)
         \/ \E p \in Pointers, n \in Lengths, off \in Offsets : CopyPanics(p, n, off)
         \/ Finished \/ Trap \/ OutOfGas \/ RunError \/ UNCHANGED vars
  PROVE  TypeOK' /\ UNCHANGED Slots!vars
<1>1. memory \in Memories /\ running \in BOOLEAN /\ result \in Results
      /\ calldata \in CallDatas \cup {<<>>}
  BY DEF TypeOK, Memories, Results
<1>2. UNCHANGED <<storage, answer>>
  BY DEF Call, CallFails, OtherSyscall, ConsumeAllGas, SealReturn, CopyPanics, Finished,
         Trap, OutOfGas, RunError, End, vars
<1>3. /\ running' \in BOOLEAN
      /\ memory' \in Memories
      /\ calldata' \in CallDatas \cup {<<>>}
      /\ result' \in Results
  BY <1>1, ImageType DEF Call, CallFails, OtherSyscall, ConsumeAllGas, SealReturn, CopyPanics,
     Finished, Trap, OutOfGas, RunError, End, vars, instance, Results
<1>4. gas' \in 0 .. GAS_LIMIT
  BY GasStep DEF Call, CallFails, OtherSyscall, ConsumeAllGas, SealReturn, CopyPanics,
     Finished, Trap, OutOfGas, RunError, vars
<1> QED
  BY <1>2, <1>3, <1>4, QuietStep

\* Every step keeps the types and is a step of SlotStore or a stutter.
LEMMA Step ==
  TypeOK /\ [Next]_vars => TypeOK' /\ [Slots!Next]_Slots!vars
<1> SUFFICES ASSUME TypeOK, [Next]_vars
             PROVE  TypeOK' /\ [Slots!Next]_Slots!vars
  OBVIOUS
<1>1. CASE \E p, q \in Pointers : GetStorageOrZero(p, q)
  BY <1>1, GetStep DEF Slots!Next
<1>2. CASE \E p, q \in Pointers : SetStorageOrClear(p, q)
  BY <1>2, SetStep DEF Slots!Next
<1>3. CASE ResetStorage
  BY <1>3, ResetStep DEF Slots!Next
<1>4. CASE \/ Compute
           \/ \E p \in Pointers : PutWord(p)
           \/ \E p \in Pointers, off \in Offsets : CallDataLoad(p, off)
           \/ \E p \in Pointers, n \in Lengths, off \in Offsets : CallDataCopy(p, n, off)
  BY <1>4, MemoryStep
<1>5. CASE \/ \E d \in CallDatas : Call(d)
           \/ CallFails \/ OtherSyscall \/ ConsumeAllGas
           \/ \E flags \in 0 .. 3 : SealReturn(flags)
           \/ \E p \in Pointers, n \in Lengths, off \in Offsets : CopyPanics(p, n, off)
           \/ Finished \/ Trap \/ OutOfGas \/ RunError \/ UNCHANGED vars
  BY <1>5, LoopStep
<1> QED
  BY <1>1, <1>2, <1>3, <1>4, <1>5 DEF Next, Syscall

\* The start of the executor.
LEMMA Start == Init => TypeOK /\ Slots!Init
<1> SUFFICES ASSUME Init PROVE TypeOK /\ Slots!Init
  OBVIOUS
<1>1. DOMAIN storage = {} /\ storage = [k \in DOMAIN storage |-> storage[k]]
  BY DEF Init
<1>2. /\ running = FALSE /\ gas = 0 /\ answer = SENTINEL /\ result = "none"
      /\ memory = Image /\ calldata = <<>>
  BY DEF Init
<1>3. 0 \in 0 .. GAS_LIMIT
  BY PvmAssumption
<1>4. TypeOK
  BY <1>1, <1>2, <1>3, ImageType DEF TypeOK, Memories
<1>5. Seen = [k \in Words |-> ZeroWord]
  BY <1>1 DEF Seen, GetOrZero
<1> QED
  BY <1>2, <1>4, <1>5 DEF Slots!Init, Seen

\* The hash map of the executor never holds a zero, and no syscall leaves
\* something in the memory of a contract that is not a byte
\* (polkavm_runner.rs:382-386).
THEOREM TypeCorrect == Spec => []TypeOK
BY Start, Step, PTL DEF Spec

\* For every size of words and every memory the contract sees a storage in
\* which every slot has a value (polkavm_runner.rs:358-388).
THEOREM SlotsImplemented == Spec => ImplementsSlots
<1>1. Init => Slots!Init
  BY Start
<1>2. TypeOK /\ [Next]_vars => [Slots!Next]_Slots!vars
  BY Step
<1> QED
  BY <1>1, <1>2, TypeCorrect, PTL DEF Spec, ImplementsSlots, Slots!Spec

\* Whatever buffer a contract names, a copy of call data changes that buffer
\* only, and puts into it what belongs there (polkavm_runner.rs:307-323).
THEOREM CopiesCorrect == Spec => []CopyCorrect
<1>1. TypeOK => CopyCorrect
  BY CopiedFacts DEF CopyCorrect
<1> QED
  BY <1>1, TypeCorrect, PTL

\* A word of the call data arrives in the memory back to front, so that the
\* bytes from the last to the first are those of the call data in order.
LEMMA LoadedFacts ==
  ASSUME TypeOK, NEW p \in Pointers, NEW off \in Offsets
  PROVE  /\ Region(p, WORD) \subseteq Writable =>
              /\ \A i \in 1 .. WORD : Loaded(memory, calldata, p, off)[p + WORD - i]
                                        = ByteAt(calldata, off + i - 1)
              /\ \A a \in Readable \ Region(p, WORD) :
                   Loaded(memory, calldata, p, off)[a] = memory[a]
         /\ ~(Region(p, WORD) \subseteq Writable) =>
              Loaded(memory, calldata, p, off) = memory
<1> DEFINE data == [i \in 1 .. WORD |-> ByteAt(calldata, off + WORD - i)]
           m == Loaded(memory, calldata, p, off)
<1>1. off \in Nat /\ p \in Nat /\ WORD \in Nat \ {0}
  BY OffsetsNat, PointersNat, PvmAssumption
<1>2. \A i \in 1 .. WORD : ByteAt(calldata, off + WORD - i) \in Bytes
  BY <1>1, CallDataSeq, ByteAtType
<1>3. data \in [1 .. WORD -> Bytes]
  BY <1>2
<1>4. m = Written(memory, p, data)
  BY DEF Loaded
<1>5. memory \in Memories
  BY DEF TypeOK, Memories
<1> HIDE DEF m, data
<1>6. ~(Region(p, WORD) \subseteq Writable) => m = memory
  BY <1>1, <1>3, <1>4, <1>5, WrittenFacts
<1>7. \A a \in Readable \ Region(p, WORD) : m[a] = memory[a]
  BY <1>1, <1>3, <1>4, <1>5, WrittenFacts
<1>8. ASSUME Region(p, WORD) \subseteq Writable, NEW i \in 1 .. WORD
      PROVE  m[p + WORD - i] = ByteAt(calldata, off + i - 1)
  <2>1. \A a \in Region(p, WORD) : m[a] = data[a - p + 1]
    BY <1>1, <1>3, <1>4, <1>5, <1>8, WrittenFacts
  <2>2. p + WORD - i \in Region(p, WORD)
    BY <1>1 DEF Region
  <2> DEFINE j == WORD + 1 - i
  <2>3. j \in 1 .. WORD /\ (p + WORD - i) - p + 1 = j /\ off + WORD - j = off + i - 1
    BY <1>1
  <2>4. m[p + WORD - i] = data[j]
    BY <2>1, <2>2, <2>3
  <2>5. data[j] = ByteAt(calldata, off + WORD - j)
    BY <2>3 DEF data
  <2> QED
    BY <2>3, <2>4, <2>5
<1> QED
  BY <1>6, <1>7, <1>8 DEF m

\* Whatever buffer and offset a contract names, the number it loads is the one
\* the caller wrote there, or its memory is as it was (polkavm_runner.rs:293-304).
THEOREM LoadsCorrect == Spec => []LoadCorrect
<1>1. ASSUME TypeOK, NEW p \in Pointers, NEW off \in Offsets
      PROVE  LET m == Loaded(memory, calldata, p, off)
             IN  IF Region(p, WORD) \subseteq Writable
                   THEN /\ LittleEndian(m, p) = BigEndian(calldata, off)
                        /\ \A a \in Readable \ Region(p, WORD) : m[a] = memory[a]
                   ELSE m = memory
  <2> DEFINE m == Loaded(memory, calldata, p, off)
  <2>1. ASSUME Region(p, WORD) \subseteq Writable
        PROVE  LittleEndian(m, p) = BigEndian(calldata, off)
    <3>1. \A i \in 1 .. WORD : m[p + WORD - i] = ByteAt(calldata, off + i - 1)
      BY <1>1, <2>1, LoadedFacts
    <3> HIDE DEF m
    <3>2. [i \in 1 .. WORD |-> m[p + WORD - i]]
            = [i \in 1 .. WORD |-> ByteAt(calldata, off + i - 1)]
      BY <3>1
    <3> QED
      BY <3>2 DEF LittleEndian, BigEndian
  <2> QED
    BY <1>1, <2>1, LoadedFacts
<1>2. TypeOK => LoadCorrect
  BY <1>1 DEF LoadCorrect
<1> QED
  BY <1>2, TypeCorrect, PTL

=============================================================================
