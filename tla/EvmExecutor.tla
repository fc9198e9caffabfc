---------------------------- MODULE EvmExecutor -----------------------------
(***************************************************************************)
(* RevmExecutor of pvm/src/evm_runner.rs: a contract address and an        *)
(* in-memory database that revm, which is external, executes transactions  *)
(* on.  A code is a sequence of bytes, <<>> where there is none.           *)
(* The storage of an account counts as empty or written.  All transactions *)
(* come from one caller, whose balance never limits them, and have inputs  *)
(* within revm's limits of size.                                           *)
(***************************************************************************)
EXTENDS Integers, Sequences

VARIABLES
  accounts,          \* the database: what it knows of every account
  nonce,             \* the nonce of the caller's account in the database
  contract_address,
  result             \* the outcome of the last operation

evmVars == <<accounts, nonce, contract_address, result>>

CONTRACT_ADDRESS == "CONTRACT_ADDRESS"
CREATED == "CREATED"             \* the address of what nonce 0 creates
Addresses == {CONTRACT_ADDRESS, CREATED}
Storages == {"empty", "written"}

\* The nonce of a TxEnv (evm_runner.rs:95, 135).
tx_nonce == 0

\* revm refuses a transaction with another nonce than the account's.
Accepted == tx_nonce = nonce

NoAccount == [exists |-> FALSE, code |-> <<>>, storage |-> "empty"]
Outcome(kind) == [kind |-> kind, code |-> <<>>]

new ==
  /\ accounts = [a \in Addresses |-> NoAccount]
  /\ nonce = 0
  /\ contract_address = CONTRACT_ADDRESS
  /\ result = Outcome("none")

\* insert_account_info leaves the storage of the account.
InsertCode(bytecode) ==
  accounts' = [accounts EXCEPT ![CONTRACT_ADDRESS].exists = TRUE,
                               ![CONTRACT_ADDRESS].code = bytecode]

\* Mutant: contract_address stays that of a contract created before.
deploy_elsewhere(bytecode) ==
  /\ InsertCode(bytecode)
  /\ result' = Outcome("deployed")
  /\ UNCHANGED <<nonce, contract_address>>

deploy(bytecode) ==
  /\ InsertCode(bytecode)
  /\ contract_address' = CONTRACT_ADDRESS
  /\ result' = Outcome("deployed")
  /\ UNCHANGED nonce

\* Mutant: the address is taken before the result of the creation is known.
deploy_create_early(created) ==
  \/ /\ ~Accepted
     /\ result' = Outcome("panicked")
     /\ UNCHANGED <<accounts, nonce, contract_address>>
  \/ /\ Accepted
     /\ nonce' = nonce + 1
     /\ contract_address' = CREATED
     /\ \/ /\ \E s \in Storages :
               accounts' = [accounts EXCEPT
                              ![CREATED] = [exists |-> TRUE, code |-> created, storage |-> s]]
           /\ result' = Outcome("deployed")
        \/ result' = Outcome("createFailed") /\ UNCHANGED accounts

\* A creation whose init code, if it succeeds, returns the code `created`.
\* The result of a refused transaction is unwrapped (109).
deploy_create(created) ==
  \/ /\ ~Accepted
     /\ result' = Outcome("panicked")
     /\ UNCHANGED <<accounts, nonce, contract_address>>
  \/ /\ Accepted
     /\ nonce' = nonce + 1
     /\ \E s \in Storages :
          accounts' = [accounts EXCEPT
                         ![CREATED] = [exists |-> TRUE, code |-> created, storage |-> s]]
     /\ contract_address' = CREATED
     /\ result' = Outcome("deployed")
  \/ /\ Accepted
     /\ nonce' = nonce + 1
     /\ result' = Outcome("createFailed")
     /\ UNCHANGED <<accounts, contract_address>>

\* A call records which code ran.  An account without code succeeds and does
\* nothing.
call ==
  LET account == accounts[contract_address]
  IN  \/ /\ ~Accepted
         /\ result' = Outcome("refused")
         /\ UNCHANGED <<accounts, nonce, contract_address>>
      \/ /\ Accepted
         /\ nonce' = nonce + 1
         /\ \E s \in Storages :
              /\ account.code = <<>> => s = account.storage
              /\ accounts' = [accounts EXCEPT ![contract_address].storage = s]
         /\ result' = [kind |-> "ok", code |-> account.code]
         /\ UNCHANGED contract_address
      \/ /\ Accepted /\ account.code # <<>>
         /\ nonce' = nonce + 1
         /\ result' = Outcome("failed")
         /\ UNCHANGED <<accounts, contract_address>>

reset_storage ==
  /\ accounts' = [accounts EXCEPT ![contract_address].storage = "empty"]
  /\ result' = Outcome("none")
  /\ UNCHANGED <<nonce, contract_address>>

=============================================================================
