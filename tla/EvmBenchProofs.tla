-------------------------- MODULE EvmBenchProofs ----------------------------
(***************************************************************************)
(* What the calls of the EVM executor run, and what the loader cuts off,   *)
(* for files of every length and any bytes.                                *)
(***************************************************************************)
EXTENDS EvmBench, SequenceTheorems, WellFoundedInduction, TLAPS

LEMMA BoundedSeqs ==
  ASSUME NEW S, NEW n \in Nat
  PROVE  BoundedSeq(S, n) = {s \in Seq(S) : Len(s) <= n}
<1>1. ASSUME NEW s \in BoundedSeq(S, n) PROVE s \in Seq(S) /\ Len(s) <= n
  <2>1. PICK m \in 0 .. n : s \in [1 .. m -> S]
    BY DEF BoundedSeq, SeqOf
  <2>2. s \in Seq(S)
    BY <2>1, SeqDef
  <2>3. Len(s) \in Nat /\ 1 .. Len(s) = 1 .. m
    BY <2>1, <2>2, LenProperties
  <2> QED
    BY <2>1, <2>2, <2>3
<1>2. ASSUME NEW s \in Seq(S), Len(s) <= n PROVE s \in BoundedSeq(S, n)
  <2>1. Len(s) \in 0 .. n /\ s \in [1 .. Len(s) -> S]
    BY <1>2, LenProperties
  <2> QED
    BY <2>1 DEF BoundedSeq, SeqOf
<1> QED
  BY <1>1, <1>2

\* A file is a sequence of bytes.
LEMMA FullIsCode == \A file \in Files : Full(file) \in Seq(Bytes)
<1> SUFFICES ASSUME NEW file \in Files PROVE Full(file) \in Seq(Bytes)
  OBVIOUS
<1>1. file.runtime \in Seq(Bytes)
  BY BoundedSeqs, BoundsAssumption DEF Files, Runtimes
<1>2. file.init \in Seq(Bytes)
  <2>1. RETURN \in Bytes /\ INVALID \in Bytes
    BY DEF Bytes
  <2>2. ASSUME NEW c \in Returning PROVE c \in Seq(Bytes)
    <3>1. PICK d \in BoundedSeq(Bytes, MaxInit - 1) : c = Append(d, RETURN)
      BY <2>2 DEF Returning
    <3>2. d \in Seq(Bytes)
      BY BoundedSeqs, BoundsAssumption
    <3> QED
      BY <2>1, <3>1, <3>2, AppendProperties
  <2>3. CASE file.init = <<>>
    BY <2>3, EmptySeq
  <2>4. CASE file.init \in {Append(c, INVALID) : c \in Returning}
    BY <2>1, <2>2, <2>4, AppendProperties
  <2> QED
    BY <2>2, <2>3, <2>4 DEF Files, Inits
<1> QED
  BY <1>1, <1>2, ConcatProperties DEF Full

\* What the loader looks for is the first RETURN.
LEMMA FirstReturn ==
  ASSUME NEW full \in Seq(Bytes), NEW k, k = SelectInSeq(full, LAMBDA b : b = RETURN)
  PROVE  \/ k = 0
         \/ k \in 1 .. Len(full) /\ full[k] = RETURN /\ \A i \in 1 .. k - 1 : full[i] # RETURN
<1> DEFINE I == {i \in 1 .. Len(full) : full[i] = RETURN}
<1>1. k = IF I # {} THEN Min(I) ELSE 0
  BY DEF SelectInSeq
<1>2. I \in SUBSET Nat /\ Len(full) \in Nat
  BY LenProperties
<1>3. ASSUME NEW i \in 1 .. Len(full), full[i] = RETURN PROVE i \in I
  BY <1>3
<1>4. I \subseteq 1 .. Len(full) /\ \A i \in I : full[i] = RETURN
  OBVIOUS
<1> HIDE DEF I
<1>5. ASSUME I # {} PROVE Min(I) \in I /\ \A y \in I : Min(I) <= y
  <2>1. PICK x \in I : \A y \in I : ~ (<<y, x>> \in OpToRel(<, Nat))
    BY <1>2, <1>5, NatLessThanWellFounded, WFMin, Zenon
  <2>2. \A y \in I : ~ (y < x)
    BY <1>2, <2>1 DEF OpToRel
  <2>3. \A y \in I : x <= y
    BY <1>2, <2>2
  <2> QED
    BY <2>3 DEF Min
<1>6. CASE I # {}
  <2>1. PICK m : m = Min(I)
    OBVIOUS
  <2>2. k = m /\ m \in I /\ \A y \in I : m <= y
    BY <1>1, <1>5, <1>6, <2>1
  <2>3. m \in 1 .. Len(full) /\ full[m] = RETURN
    BY <1>4, <2>2
  <2>4. ASSUME NEW i \in 1 .. m - 1 PROVE full[i] # RETURN
    <3>1. i \in 1 .. Len(full) /\ ~(m <= i)
      BY <1>2, <2>3
    <3> QED
      BY <1>3, <2>2, <3>1
  <2> QED
    BY <2>2, <2>3, <2>4
<1> QED
  BY <1>1, <1>6

\* What CutBehindReturn says of a code and the file it was cut from.
Cut(full, code) ==
  \E k \in 1 .. Len(full) :
    /\ full[k] = RETURN /\ \A i \in 1 .. k - 1 : full[i] # RETURN
    /\ \E skip \in {0, 1} : code = SubSeq(full, k + 1 + skip, Len(full))

LEMMA SplitCut ==
  ASSUME NEW full \in Seq(Bytes)
  PROVE  /\ load_evm_bytecode(full).runtime \in Codes
         /\ load_evm_bytecode(full).runtime # <<>> => Cut(full, load_evm_bytecode(full).runtime)
<1>1. PICK k : k = SelectInSeq(full, LAMBDA b : b = RETURN)
  OBVIOUS
<1>2. \/ k = 0
      \/ k \in 1 .. Len(full) /\ full[k] = RETURN /\ \A i \in 1 .. k - 1 : full[i] # RETURN
  BY <1>1, FirstReturn
<1>3. PICK n : n = init_len(full)
  OBVIOUS
<1>4. n = k \/ (k > 0 /\ n = k + 1)
  BY <1>1, <1>3 DEF init_len
<1>5. Len(full) \in Nat /\ k \in Nat /\ n \in Nat
  BY <1>2, <1>4, LenProperties
<1>6. CASE Len(full) > n /\ n > 0
  <2>1. load_evm_bytecode(full).runtime = SubSeq(full, n + 1, Len(full))
    BY <1>3, <1>6 DEF load_evm_bytecode
  <2>2. SubSeq(full, n + 1, Len(full)) \in Seq(Bytes)
    <3>1. PICK l \in Nat : l = Len(full)
      BY LenProperties
    <3>2. \A i \in n + 1 .. l : i \in 1 .. l
      BY <1>5
    <3>3. \A i \in n + 1 .. l : full[i] \in Bytes
      BY <3>1, <3>2, ElementOfSeq, Zenon
    <3> QED
      BY <1>5, <3>1, <3>3, SubSeqProperties
  <2>3. k # 0
    BY <1>4, <1>6
  <2>4. \E skip \in {0, 1} : n + 1 = k + 1 + skip
    BY <1>4, <1>5
  <2>5. \E skip \in {0, 1} : SubSeq(full, n + 1, Len(full)) = SubSeq(full, k + 1 + skip, Len(full))
    BY <2>4
  <2> QED
    BY <1>2, <2>1, <2>2, <2>3, <2>5 DEF Cut, Codes
<1>7. CASE ~(Len(full) > n /\ n > 0)
  <2>1. load_evm_bytecode(full).runtime = <<>>
    BY <1>3, <1>7 DEF load_evm_bytecode
  <2> QED
    BY <2>1, EmptySeq DEF Codes
<1> QED
  BY <1>6, <1>7

-----------------------------------------------------------------------------
Inv == TypeOK /\ CallsTheLastDeployed /\ CutBehindReturn

\* Every result but that of a successful call has no code.
LEMMA NoCode == \A kind : Outcome(kind).code \in Codes /\ Outcome(kind).kind = kind
BY EmptySeq DEF Codes, Outcome

LEMMA InvInit == Init => Inv
<1> SUFFICES ASSUME Init PROVE Inv
  OBVIOUS
<1>1. <<>> \in Codes
  BY EmptySeq DEF Codes
<1>2. NoFile \in Files
  <2>1. PICK e \in Seq(Bytes) : e = <<>> /\ Len(e) = 0
    BY EmptySeq
  <2>2. e \in BoundedSeq(Bytes, MaxRuntime)
    <3>1. MaxRuntime \in Nat /\ 0 <= MaxRuntime
      BY BoundsAssumption
    <3> QED
      BY <2>1, <3>1, BoundedSeqs, Zenon
  <2> QED
    BY <2>1, <2>2 DEF Files, NoFile, Inits, Runtimes
<1> QED
  BY <1>1, <1>2 DEF Init, new, Inv, TypeOK, CallsTheLastDeployed, CutBehindReturn, Outcome,
     NoAccount, Addresses, Storages, CONTRACT_ADDRESS, CREATED

\* A step that leaves the deployment as it is, and reports no success.
LEMMA KeepInv ==
  ASSUME Inv, nonce' \in Nat, UNCHANGED <<contract_address, loaded, installed>>,
         accounts' \in [Addresses -> [exists : BOOLEAN, code : Codes, storage : Storages]],
         \A a \in Addresses : /\ accounts'[a].code = accounts[a].code
                              /\ accounts'[a].exists = accounts[a].exists,
         result'.code \in Codes, result'.kind = "ok" => result'.code = installed
  PROVE  Inv'
<1>1. contract_address \in Addresses /\ CREATED \in Addresses
  BY DEF Inv, TypeOK, Addresses
<1>2. TypeOK'
  BY <1>1 DEF Inv, TypeOK
<1>3. CallsTheLastDeployed'
  BY <1>1 DEF Inv, CallsTheLastDeployed
<1>4. CutBehindReturn'
  BY DEF Inv, CutBehindReturn
<1> QED
  BY <1>2, <1>3, <1>4 DEF Inv

LEMMA Numbers == ASSUME TypeOK PROVE nonce \in Nat /\ nonce + 1 \in Nat
BY DEF TypeOK

LEMMA CallStep ==
  ASSUME Inv, call, UNCHANGED <<loaded, installed>>
  PROVE  Inv'
<1> DEFINE account == accounts[contract_address]
<1>0. /\ nonce \in Nat /\ nonce + 1 \in Nat
      /\ accounts \in [Addresses -> [exists : BOOLEAN, code : Codes, storage : Storages]]
      /\ contract_address \in Addresses
  BY Numbers DEF Inv, TypeOK
<1>1. CASE /\ ~Accepted /\ result' = Outcome("refused")
           /\ UNCHANGED <<accounts, nonce, contract_address>>
  BY <1>0, <1>1, NoCode, KeepInv
<1>2. CASE /\ Accepted /\ nonce' = nonce + 1
           /\ \E s \in Storages : accounts' = [accounts EXCEPT ![contract_address].storage = s]
           /\ result' = [kind |-> "ok", code |-> account.code]
           /\ UNCHANGED contract_address
  <2>1. PICK s \in Storages : accounts' = [accounts EXCEPT ![contract_address].storage = s]
    BY <1>2
  <2>2. /\ accounts' \in [Addresses -> [exists : BOOLEAN, code : Codes, storage : Storages]]
        /\ \A a \in Addresses : /\ accounts'[a].code = accounts[a].code
                                /\ accounts'[a].exists = accounts[a].exists
    BY <1>0, <2>1
  <2>3. result'.code = installed /\ installed \in Codes
    BY <1>2 DEF Inv, TypeOK, CallsTheLastDeployed
  <2> QED
    BY <1>0, <1>2, <2>2, <2>3, KeepInv
<1>3. CASE /\ Accepted /\ nonce' = nonce + 1 /\ result' = Outcome("failed")
           /\ UNCHANGED <<accounts, contract_address>>
  BY <1>0, <1>3, NoCode, KeepInv
<1> QED
  BY <1>1, <1>2, <1>3 DEF call

LEMMA ResetStep ==
  ASSUME Inv, reset_storage, UNCHANGED <<loaded, installed>>
  PROVE  Inv'
<1>1. /\ accounts' = [accounts EXCEPT ![contract_address].storage = "empty"]
      /\ UNCHANGED <<nonce, contract_address>> /\ result' = Outcome("none")
  BY DEF reset_storage
<1>2. "empty" \in Storages
  BY DEF Storages
<1>3. /\ accounts' \in [Addresses -> [exists : BOOLEAN, code : Codes, storage : Storages]]
      /\ \A a \in Addresses : /\ accounts'[a].code = accounts[a].code
                              /\ accounts'[a].exists = accounts[a].exists
  BY <1>1, <1>2 DEF Inv, TypeOK
<1> QED
  BY <1>1, <1>3, Numbers, NoCode, KeepInv DEF Inv

\* A creation that succeeds moves contract_address to the new account.
LEMMA CreateStep ==
  ASSUME Inv, NEW file \in Files, NEW c \in Codes, deploy_create(c),
         IF result'.kind = "deployed" THEN loaded' = file /\ installed' = c
                                      ELSE UNCHANGED <<loaded, installed>>
  PROVE  Inv'
<1>0. /\ nonce \in Nat /\ nonce + 1 \in Nat
      /\ accounts \in [Addresses -> [exists : BOOLEAN, code : Codes, storage : Storages]]
  BY Numbers DEF Inv, TypeOK
<1>1. CASE result' = Outcome("panicked") /\ UNCHANGED <<accounts, nonce, contract_address>>
  BY <1>0, <1>1, NoCode, KeepInv
<1>2. CASE /\ Accepted /\ nonce' = nonce + 1
           /\ \E s \in Storages :
                accounts' = [accounts EXCEPT
                               ![CREATED] = [exists |-> TRUE, code |-> c, storage |-> s]]
           /\ contract_address' = CREATED /\ result' = Outcome("deployed")
  <2>1. PICK s \in Storages :
          accounts' = [accounts EXCEPT ![CREATED] = [exists |-> TRUE, code |-> c, storage |-> s]]
    BY <1>2
  <2>2. CREATED \in Addresses /\ CREATED # CONTRACT_ADDRESS
    BY DEF Addresses, CREATED, CONTRACT_ADDRESS
  <2>3. [exists |-> TRUE, code |-> c, storage |-> s]
          \in [exists : BOOLEAN, code : Codes, storage : Storages]
    OBVIOUS
  <2>4. /\ accounts' \in [Addresses -> [exists : BOOLEAN, code : Codes, storage : Storages]]
        /\ accounts'[CREATED].code = c /\ accounts'[CREATED].exists
    BY <1>0, <2>1, <2>2, <2>3
  <2>5. loaded' = file /\ installed' = c
    BY <1>2, NoCode
  <2>6. result'.kind # "ok"
    BY <1>2, NoCode
  <2>7. TypeOK'
    BY <1>0, <1>2, <2>2, <2>4, <2>5, NoCode DEF TypeOK
  <2>8. CallsTheLastDeployed'
    BY <1>2, <2>4, <2>5, <2>6 DEF CallsTheLastDeployed
  <2>9. CutBehindReturn'
    BY <1>2, <2>2 DEF CutBehindReturn
  <2> QED
    BY <2>7, <2>8, <2>9 DEF Inv
<1>3. CASE /\ Accepted /\ nonce' = nonce + 1 /\ result' = Outcome("createFailed")
           /\ UNCHANGED <<accounts, contract_address>>
  BY <1>0, <1>3, NoCode, KeepInv
<1> QED
  BY <1>1, <1>2, <1>3 DEF deploy_create

LEMMA DirectStep ==
  ASSUME Inv, NEW file \in Files, NEW runtime \in Codes, runtime # <<>>, deploy(runtime),
         Cut(Full(file), runtime), loaded' = file, installed' = runtime
  PROVE  Inv'
<1>1. /\ accounts' = [accounts EXCEPT ![CONTRACT_ADDRESS].exists = TRUE,
                                      ![CONTRACT_ADDRESS].code = runtime]
      /\ contract_address' = CONTRACT_ADDRESS /\ nonce' = nonce
      /\ result' = Outcome("deployed")
  BY DEF deploy, InsertCode
<1>2. CONTRACT_ADDRESS \in Addresses /\ CONTRACT_ADDRESS # CREATED
  BY DEF Addresses, CONTRACT_ADDRESS, CREATED
<1>3. accounts \in [Addresses -> [exists : BOOLEAN, code : Codes, storage : Storages]]
  BY DEF Inv, TypeOK
<1>4. /\ accounts' \in [Addresses -> [exists : BOOLEAN, code : Codes, storage : Storages]]
      /\ accounts'[CONTRACT_ADDRESS].code = runtime
  BY <1>1, <1>2, <1>3
<1>5. TypeOK'
  BY <1>1, <1>2, <1>4, NoCode DEF Inv, TypeOK
<1>6. CallsTheLastDeployed'
  BY <1>1, <1>4, NoCode DEF CallsTheLastDeployed
<1>7. CutBehindReturn'
  BY DEF CutBehindReturn, Cut
<1> QED
  BY <1>5, <1>6, <1>7 DEF Inv

LEMMA DeployStep ==
  ASSUME Inv, NEW file \in Files, Deploy(file)
  PROVE  Inv'
<1>1. PICK runtime : runtime = load_evm_bytecode(Full(file)).runtime
  OBVIOUS
<1>2. runtime \in Codes /\ (runtime # <<>> => Cut(Full(file), runtime))
  BY <1>1, FullIsCode, SplitCut
<1>3. CASE runtime # <<>>
  <2>1. deploy(runtime) /\ IF result'.kind = "deployed"
                             THEN loaded' = file /\ installed' = runtime
                             ELSE UNCHANGED <<loaded, installed>>
    BY <1>1, <1>3 DEF Deploy
  <2>2. result'.kind = "deployed"
    BY <2>1, NoCode DEF deploy
  <2> QED
    BY <1>2, <1>3, <2>1, <2>2, DirectStep
<1>4. CASE runtime = <<>>
  <2>1. PICK c \in BoundedSeq(Bytes, MaxCreated) :
          deploy_create(c) /\ IF result'.kind = "deployed"
                                THEN loaded' = file /\ installed' = c
                                ELSE UNCHANGED <<loaded, installed>>
    BY <1>1, <1>4 DEF Deploy
  <2>2. c \in Codes
    BY BoundedSeqs, BoundsAssumption DEF Codes
  <2> QED
    BY <2>1, <2>2, CreateStep
<1> QED
  BY <1>3, <1>4

LEMMA InvStep == Inv /\ [Next]_vars => Inv'
<1> SUFFICES ASSUME Inv, [Next]_vars PROVE Inv'
  OBVIOUS
<1>1. CASE UNCHANGED vars
  BY <1>1 DEF vars, evmVars, Inv, TypeOK, CallsTheLastDeployed, CutBehindReturn
<1> QED
  BY <1>1, CallStep, ResetStep, DeployStep DEF Next

\* The database of the executor keeps its type, and contract_address leaves
\* CONTRACT_ADDRESS only for an account that exists (evm_runner.rs:85-122).
THEOREM TypeCorrect == Spec => []TypeOK
<1>1. Inv => TypeOK
  BY DEF Inv
<1> QED
  BY <1>1, InvInit, InvStep, PTL DEF Spec

\* Every call of the executor goes to the code of the last successful
\* deployment, and a successful one ran it (evm_runner.rs:65-159).
THEOREM LastDeployedRuns == Spec => []CallsTheLastDeployed
<1>1. Inv => CallsTheLastDeployed
  BY DEF Inv
<1> QED
  BY <1>1, InvInit, InvStep, PTL DEF Spec

\* What the loader deploys directly is cut off behind the first RETURN of the
\* file, or one byte further, and is not empty, for files of every form and
\* length (main.rs:32-52).
THEOREM CutIsBehindReturn == Spec => []CutBehindReturn
<1>1. Inv => CutBehindReturn
  BY DEF Inv
<1> QED
  BY <1>1, InvInit, InvStep, PTL DEF Spec

=============================================================================
