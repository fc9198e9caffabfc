---------------------------- MODULE PvmExecutor ----------------------------
(***************************************************************************)
(* PolkaVmExecutor of pvm/src/polkavm_runner.rs: it runs the "call" export *)
(* of a contract, answers the contract's syscalls out of the call data and *)
(* the storage, and keeps the storage from one call to the next.           *)
(*                                                                         *)
(* The contract is any program: between syscalls it changes its memory as  *)
(* it likes, and it may return, trap or use up its gas.  A pointer it      *)
(* passes may lie outside its memory; the executor ignores the failure     *)
(* (the `let _ =` of the handlers): a failed read leaves the executor's    *)
(* buffer zero, a failed write leaves the memory as it was.                *)
(***************************************************************************)
EXTENDS Integers, Sequences, Functions

CONSTANTS
  WORD,                   \* 32, the bytes of a key, a value and a loaded word
  Bytes,                  \* the bytes: 0 .. 255
  Space,                  \* 2^32, the size of the address space
  Readable, Writable,     \* the addresses a contract may read and write (external)
  CallDatas,              \* the call data of calls
  Pointers, Lengths,      \* bound: the addresses and sizes passed to syscalls
  SLOT_LEN, SENTINEL,     \* 32 and u32::MAX: the two answers of a write
  GAS_LIMIT               \* the gas of a call (bound: the syscalls of a call)

\* PolkaVM leaves the lowest addresses unmapped (external): more of them than
\* the call data is long.
ASSUME PvmAssumption ==
  /\ WORD \in Nat \ {0} /\ Space \in Nat \ {0} /\ GAS_LIMIT \in Nat
  /\ Bytes \subseteq Nat /\ 0 \in Bytes
  /\ Writable \subseteq Readable /\ Readable \subseteq 0 .. Space - 1
  /\ CallDatas \subseteq Seq(Bytes)
  /\ \A d \in CallDatas, a \in Readable : Len(d) <= a
  /\ Pointers \subseteq 0 .. Space - 1 /\ Lengths \subseteq Nat

VARIABLES
  storage,     \* the hash map: a function on the keys it contains
  running,     \* a call is in progress
  memory,      \* the memory of its instance
  calldata,    \* its call data
  gas,
  answer,      \* what the last storage syscall gave the contract
  result       \* how the last call ended, "none" while one is running

instance == <<running, memory, calldata>>
vars == <<storage, instance, gas, answer, result>>

Words == [1 .. WORD -> Bytes]
Zeros(n) == [i \in 1 .. n |-> 0]
ZeroWord == Zeros(WORD)
Image == [a \in Readable |-> 0]      \* the memory of a new instance (external)

-----------------------------------------------------------------------------
\* read_memory_into and write_memory (external): all of the region, or nothing.
Region(ptr, n) == ptr .. ptr + n - 1

Read(ptr, n) ==
  IF Region(ptr, n) \subseteq Readable
    THEN [i \in 1 .. n |-> memory[ptr + i - 1]] ELSE Zeros(n)

Written(m, ptr, data) ==
  IF Region(ptr, Len(data)) \subseteq Writable
    THEN [a \in Readable |->
            IF a \in Region(ptr, Len(data)) THEN data[a - ptr + 1] ELSE m[a]]
    ELSE m

\* The byte of the call data at an offset, zero past its end.
ByteAt(d, off) == IF off < Len(d) THEN d[off + 1] ELSE 0

\* Mutant: the word is not reversed.
LoadedForward(m, d, ptr, off) == Written(m, ptr, [i \in 1 .. WORD |-> ByteAt(d, off + i - 1)])

\* call_data_load: the word at an offset, reversed (`data.reverse()`).
Loaded(m, d, ptr, off) == Written(m, ptr, [i \in 1 .. WORD |-> ByteAt(d, off + WORD - i)])

\* The length of calldata[start..end] of call_data_copy, none past the end.
Available(d, n, off) ==
  IF off >= Len(d) THEN 0 ELSE IF off + n < Len(d) THEN n ELSE Len(d) - off

\* Mutant: what follows the call data is zeroed from the start of the buffer.
CopiedOver(m, d, ptr, n, off) ==
  LET k == Available(d, n, off)
  IN  Written(Written(m, ptr, SubSeq(d, off + 1, off + k)), ptr, Zeros(n - k))

\* call_data_copy: two writes, either of which may fail; the address of the
\* second wraps around in a release build.
Copied(m, d, ptr, n, off) ==
  LET k == Available(d, n, off)
  IN  Written(Written(m, ptr, SubSeq(d, off + 1, off + k)),
              (ptr + k) % Space, Zeros(n - k))

GetOrZero(k) == IF k \in DOMAIN storage THEN storage[k] ELSE ZeroWord

\* Mutant: a zero is inserted like any other value.
InsertAll(k, v) == [j \in DOMAIN storage \cup {k} |-> IF j = k THEN v ELSE storage[j]]

Insert(k, v) ==
  IF v = ZeroWord
    THEN Restrict(storage, DOMAIN storage \ {k})
    ELSE [j \in DOMAIN storage \cup {k} |-> IF j = k THEN v ELSE storage[j]]

-----------------------------------------------------------------------------
\* call_with_dispatch_table: a new instance with fresh gas.
Call(d) ==
  /\ ~running /\ result # "panicked"
  /\ running' = TRUE /\ memory' = Image /\ calldata' = d
  /\ gas' = GAS_LIMIT /\ result' = "none"
  /\ UNCHANGED <<storage, answer>>

\* The module has no "call" export, or cannot be instantiated.
CallFails ==
  /\ ~running /\ result # "panicked"
  /\ result' = "error"
  /\ UNCHANGED <<storage, instance, gas, answer>>

ResetStorage ==
  /\ ~running /\ result # "panicked"
  /\ storage' = [k \in {} |-> ZeroWord]
  /\ UNCHANGED <<instance, gas, answer, result>>

\* The contract computes: its own memory changes.
Compute ==
  /\ running
  /\ \E a \in Writable, b \in Bytes : memory' = [memory EXCEPT ![a] = b]
  /\ UNCHANGED <<storage, running, calldata, gas, answer, result>>

\* The contract runs on to its next interrupt, which costs it gas.
Interrupt == running /\ gas > 0 /\ gas' = gas - 1

GetStorageOrZero(key_ptr, out_ptr) ==
  /\ Interrupt
  /\ answer' = GetOrZero(Read(key_ptr, WORD))
  /\ memory' = Written(memory, out_ptr, answer')
  /\ UNCHANGED <<storage, running, calldata, result>>

SetStorageOrClear(key_ptr, value_ptr) ==
  LET k == Read(key_ptr, WORD)
  IN  /\ Interrupt
      /\ answer' = IF k \in DOMAIN storage THEN SLOT_LEN ELSE SENTINEL
      /\ storage' = Insert(k, Read(value_ptr, WORD))
      /\ UNCHANGED <<instance, result>>

CallDataLoad(out_ptr, off) ==
  /\ Interrupt
  /\ memory' = Loaded(memory, calldata, out_ptr, off)
  /\ UNCHANGED <<storage, running, calldata, answer, result>>

CallDataCopy(out_ptr, out_len, off) ==
  /\ Interrupt
  /\ memory' = Copied(memory, calldata, out_ptr, out_len, off)
  /\ UNCHANGED <<storage, running, calldata, answer, result>>

\* The syscalls that put a value of their own into the memory: the hash, the
\* addresses, the value, the balance, the block number, the immutable data.
PutWord(out_ptr) ==
  /\ Interrupt
  /\ \E n \in 1 .. WORD : \E w \in [1 .. n -> Bytes] : memory' = Written(memory, out_ptr, w)
  /\ UNCHANGED <<storage, running, calldata, answer, result>>

\* Those that answer in a register, and the unknown ones.
OtherSyscall ==
  /\ Interrupt
  /\ UNCHANGED <<storage, instance, answer, result>>

End(r) ==
  /\ running' = FALSE /\ memory' = Image /\ calldata' = <<>>
  /\ result' = r
  /\ UNCHANGED <<storage, answer>>

\* seal_return: the lowest flag is REVERT.
SealReturn(flags) ==
  /\ Interrupt
  /\ End(IF flags % 2 # 0 THEN "reverted" ELSE "ok")

ConsumeAllGas == Interrupt /\ End("reverted")

\* A build with overflow checks panics in call_data_copy, and the process with it.
CopyPanics(out_ptr, out_len, off) ==
  LET k == Available(calldata, out_len, off)
  IN  /\ Interrupt
      /\ k < out_len /\ out_ptr + k >= Space
      /\ End("panicked")

\* The other ends of the loop.
Finished == Interrupt /\ End("ok")
Trap == Interrupt /\ End("trapped")
OutOfGas == running /\ UNCHANGED gas /\ End("out of gas")
RunError == running /\ UNCHANGED gas /\ End("error")

-----------------------------------------------------------------------------
Init ==
  /\ storage = [k \in {} |-> ZeroWord]
  /\ running = FALSE /\ memory = Image /\ calldata = <<>>
  /\ gas = 0
  /\ answer = SENTINEL
  /\ result = "none"

\* Offsets into the call data: in it, at its end, and past it.
Offsets == UNION {0 .. Len(d) + 1 : d \in CallDatas}

Syscall ==
  \/ \E p, q \in Pointers : GetStorageOrZero(p, q) \/ SetStorageOrClear(p, q)
  \/ \E p \in Pointers : PutWord(p)
  \/ \E p \in Pointers, off \in Offsets : CallDataLoad(p, off)
  \/ \E p \in Pointers, n \in Lengths, off \in Offsets :
       CallDataCopy(p, n, off) \/ CopyPanics(p, n, off)
  \/ OtherSyscall
  \/ \E flags \in 0 .. 3 : SealReturn(flags)
  \/ ConsumeAllGas

Next ==
  \/ \E d \in CallDatas : Call(d)
  \/ CallFails \/ ResetStorage
  \/ Compute \/ Syscall
  \/ Finished \/ Trap \/ OutOfGas \/ RunError

Spec == Init /\ [][Next]_vars

-----------------------------------------------------------------------------
\* The state; the hash map holds keys with values other than zero
\* (polkavm_runner.rs:382-386).
TypeOK ==
  /\ DOMAIN storage \subseteq Words
  /\ \A k \in DOMAIN storage : storage[k] \in Words \ {ZeroWord}
  /\ storage = [k \in DOMAIN storage |-> storage[k]]
  /\ running \in BOOLEAN
  /\ memory \in [Readable -> Bytes]
  /\ calldata \in CallDatas \cup {<<>>}
  /\ gas \in 0 .. GAS_LIMIT
  /\ answer \in Words \cup {SLOT_LEN, SENTINEL}
  /\ result \in {"none", "ok", "reverted", "trapped", "out of gas", "error", "panicked"}

\* The storage of the contract as slots that always hold a value.
Slots == INSTANCE SlotStore WITH
  Keys <- Words, Values <- Words, ZeroValue <- ZeroWord,
  slot <- [k \in Words |-> GetOrZero(k)], answer <- answer

\* For the contract the hash map is a storage in which every slot has a value:
\* a slot cleared with a zero cannot be told from one never written, neither
\* by reading it nor by the answer of the next write, in whatever order calls
\* write, clear, fail and are reset (polkavm_runner.rs:358-388).
ImplementsSlots == Slots!Spec

\* A copy fills the buffer the contract named with the call data, and with
\* zeros behind its end; when a part of the buffer cannot be written, every
\* byte of it has its old value or its new one.  No byte outside the buffer
\* changes, although the address of the second write may wrap around the
\* address space (polkavm_runner.rs:309-323).
CopyCorrect ==
  running => \A p \in Pointers, n \in Lengths, off \in Offsets :
    LET m == Copied(memory, calldata, p, n, off)
        wanted(a) == ByteAt(calldata, off + a - p)
    IN  \A a \in Readable :
          /\ a \notin Region(p, n) => m[a] = memory[a]
          /\ a \in Region(p, n) =>
               \/ m[a] = wanted(a)
               \/ m[a] = memory[a] /\ ~(Region(p, n) \subseteq Writable)

\* The number that bytes make, the highest one first.
Number(b) ==
  LET value[i \in 0 .. WORD] == IF i = 0 THEN 0 ELSE 256 * value[i - 1] + b[i]
  IN  value[WORD]

\* The number a contract reads from a buffer, whose last byte is the highest,
\* and the one that a caller writes at an offset of the call data.
LittleEndian(m, p) == Number([i \in 1 .. WORD |-> m[p + WORD - i]])
BigEndian(d, off) == Number([i \in 1 .. WORD |-> ByteAt(d, off + i - 1)])

\* The number a contract loads is the one the caller wrote, the missing bytes
\* being zero, and no other byte of the memory changes ("Critical: BE->LE
\* conversion", polkavm_runner.rs:293-304).
LoadCorrect ==
  running => \A p \in Pointers, off \in Offsets :
    LET m == Loaded(memory, calldata, p, off)
    IN  IF Region(p, WORD) \subseteq Writable
          THEN /\ LittleEndian(m, p) = BigEndian(calldata, off)
               /\ \A a \in Readable \ Region(p, WORD) : m[a] = memory[a]
          ELSE m = memory

=============================================================================
