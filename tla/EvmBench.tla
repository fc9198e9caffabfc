------------------------------ MODULE EvmBench ------------------------------
(***************************************************************************)
(* The executor of pvm/src/evm_runner.rs under any sequence of its         *)
(* operations: files of bytecode are split and deployed as in              *)
(* bench_revm_arithmetic of pvm/src/main.rs, called, and the storage is    *)
(* reset "between benchmark iterations" (evm_runner.rs:161).               *)
(*                                                                         *)
(* A file is written as the two parts a compiler put together, which the   *)
(* loader does not know.  An init code ends with RETURN, and solc puts an  *)
(* INVALID behind it; a file of runtime code has an empty first part.      *)
(***************************************************************************)
EXTENDS EvmExecutor, SequencesExt

CONSTANTS
  RETURN, SWAP1, INVALID,    \* the bytes 0xf3, 0x90 and 0xfe
  Others,                    \* some other bytes
  MaxInit, MaxRuntime,       \* bounds: of the init code up to its RETURN, of the runtime
  MaxCreated                 \* bound: of the code that init code returns

ASSUME BoundsAssumption == MaxInit \in Nat \ {0} /\ MaxRuntime \in Nat /\ MaxCreated \in Nat

Bytes == {RETURN, SWAP1, INVALID} \cup Others
Codes == Seq(Bytes)
Returning == {Append(c, RETURN) : c \in BoundedSeq(Bytes, MaxInit - 1)}
Inits == {<<>>} \cup Returning \cup {Append(c, INVALID) : c \in Returning}
Runtimes == BoundedSeq(Bytes, MaxRuntime)
Files == [init : Inits, runtime : Runtimes]
NoFile == [init |-> <<>>, runtime |-> <<>>]

VARIABLES
  loaded,        \* the file whose contract was deployed last
  installed      \* the code that this deployment put in place

vars == <<evmVars, loaded, installed>>

Full(file) == file.init \o file.runtime

-----------------------------------------------------------------------------
\* The length of the first part (main.rs:32-47).
\* Mutant: the position of the byte is taken for the length.
init_len_short(full) == SelectInSeq(full, LAMBDA b : b = RETURN) - 1

init_len(full) ==
  LET len == SelectInSeq(full, LAMBDA b : b = RETURN)
  IN  IF len > 0 /\ len < Len(full) /\ full[len + 1] \in {RETURN, SWAP1} THEN len + 1 ELSE len

load_evm_bytecode(full) ==
  LET len == init_len(full)
  IN  IF Len(full) > len /\ len > 0
      THEN [init |-> SubSeq(full, 1, len), runtime |-> SubSeq(full, len + 1, Len(full))]
      ELSE [init |-> full, runtime |-> <<>>]

\* What the loader takes for runtime code is deployed directly; otherwise the
\* whole file runs as init code, and what it returns is its own.
Deploy(file) ==
  LET runtime == load_evm_bytecode(Full(file)).runtime
      put(code) == IF result'.kind = "deployed"
                     THEN loaded' = file /\ installed' = code
                     ELSE UNCHANGED <<loaded, installed>>
  IN  IF runtime # <<>>
      THEN deploy(runtime) /\ put(runtime)
      ELSE \E created \in BoundedSeq(Bytes, MaxCreated) : deploy_create(created) /\ put(created)

Running == result.kind # "panicked"

Init == new /\ loaded = NoFile /\ installed = <<>>

Next ==
  /\ Running
  /\ \/ \E file \in Files : Deploy(file)
     \/ (call \/ reset_storage) /\ UNCHANGED <<loaded, installed>>

Spec == Init /\ [][Next]_vars

-----------------------------------------------------------------------------
\* The types of the state; contract_address leaves CONTRACT_ADDRESS only for an
\* account that exists, whatever creations fail (evm_runner.rs:110-121).
TypeOK ==
  /\ accounts \in [Addresses -> [exists : BOOLEAN, code : Codes, storage : Storages]]
  /\ nonce \in Nat
  /\ contract_address \in Addresses
  /\ contract_address = CREATED => accounts[CREATED].exists
  /\ result.code \in Codes /\ loaded \in Files /\ installed \in Codes

\* Calls go to the code of the deployment that succeeded last, and the call
\* that has just succeeded ran it: a creation, a direct deployment over it, a
\* creation that fails or a reset never leave contract_address or the code
\* behind it with an older one (evm_runner.rs:65-122, 162-172).
CallsTheLastDeployed ==
  /\ accounts[contract_address].code = installed
  /\ result.kind = "ok" => result.code = installed

\* A code deployed directly is not empty, and is what the file has behind its
\* first RETURN, or one byte further (main.rs:32-52).
CutBehindReturn ==
  LET full == Full(loaded)
  IN  contract_address = CONTRACT_ADDRESS /\ loaded # NoFile =>
        /\ installed # <<>>
        /\ \E k \in 1 .. Len(full) :
             /\ full[k] = RETURN /\ \A i \in 1 .. k - 1 : full[i] # RETURN
             /\ \E skip \in {0, 1} : installed = SubSeq(full, k + 1 + skip, Len(full))

\* A code deployed directly is the runtime code of its file ("Returns
\* (init_bytecode, runtime_bytecode). For deployment use init; for direct
\* deploy use runtime.", main.rs:23).
RuntimeDeployed ==
  contract_address = CONTRACT_ADDRESS => installed = loaded.runtime

\* After a deployment calls are executed, one benchmark iteration after the
\* other ("Reset storage state (useful between benchmark iterations)",
\* evm_runner.rs:161).
Executed == loaded # NoFile => result.kind # "refused"

=============================================================================
