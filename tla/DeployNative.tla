---------------------------- MODULE DeployNative ----------------------------
(***************************************************************************)
(* The deployment script ts-interact/src/deploy_native.ts against the      *)
(* chain of module Factory.  Each run of the script sends one transaction  *)
(* at a time and awaits it: the transaction is in flight until the chain   *)
(* executes it, answers it with a dispatch error or never includes it, and *)
(* the script may lose its connection meanwhile, which ends it and leaves  *)
(* the transaction in flight.  Other runs and other accounts act between.  *)
(*                                                                         *)
(* The transactions that call view functions (steps 3, 5 and 6) change     *)
(* nothing, and the script catches their errors: they are left out.        *)
(*                                                                         *)
(* The script computes the arguments of the factory's constructor from the *)
(* bytes of the pair and its public key.  Whether its hash is the one the  *)
(* chain gives the code, and whose address it makes of the key, is not     *)
(* known: both are chosen once.  Only that the hash is not that of some    *)
(* other code on the chain is taken for granted.                           *)
(***************************************************************************)
EXTENDS Factory

CONSTANTS
  Runs,              \* the runs of the script, all with the same key
  Deployer,          \* the account of that key
  TokenA, TokenB,    \* the two placeholder tokens
  OtherTokens        \* bound: what the other accounts name beside TokenB

ASSUME DeployAssumption ==
  /\ Deployer \in Accounts
  /\ TokenA \in Tokens /\ TokenB \in Tokens
  /\ OtherTokens \subseteq Tokens

VARIABLES
  pc,          \* the transaction a run awaits, or how it ended
  sent,        \* the transaction of a run the chain has yet to deal with
  answer,      \* the chain's answer to it
  address,     \* of a run: the contract its Instantiated event names
  outcome,     \* of a run: what its createPair came to
  constructor  \* what every run passes to the constructor of its factory

chain == <<vars, constructor>>
script == <<pc, outcome, constructor>>
varsD == <<vars, pc, sent, answer, address, outcome, constructor>>

\* The results of pubkeyToAccountId20 and codeHash.
Arguments == [setter : Accounts, hash : CodeHashes \ (Foreign \cup {NoHash})]

Others == Accounts \ {Deployer}

\* signAndSubmit: the next transaction, and the step that awaits it.
Submit(r, step) ==
  /\ pc' = [pc EXCEPT ![r] = step]
  /\ sent' = [sent EXCEPT ![r] = step]
  /\ answer' = [answer EXCEPT ![r] = "none"]

\* throw, or process.exit(1).
Fail(r) ==
  /\ pc' = [pc EXCEPT ![r] = "failed"]
  /\ UNCHANGED <<sent, answer>>

-----------------------------------------------------------------------------
\* The account is funded, and step 1 sends the code of the pair; or it is not.
Start(r) ==
  /\ pc[r] = "start"
  /\ Submit(r, "upload") \/ Fail(r)
  /\ UNCHANGED <<chain, address, outcome>>

\* Mutant: the result of the upload is not looked at.
UploadedUnchecked(r) ==
  /\ pc[r] = "upload" /\ answer[r] # "none"
  /\ Submit(r, "factory")
  /\ UNCHANGED <<chain, address, outcome>>

\* Step 2: the factory.
Uploaded(r) ==
  /\ pc[r] = "upload" /\ answer[r] # "none"
  /\ IF answer[r] = "ok" THEN Submit(r, "factory") ELSE Fail(r)
  /\ UNCHANGED <<chain, address, outcome>>

\* Steps 3 and 4.  Whether the address is found in the events depends on the
\* shape the library gives them.
FactoryDeployed(r) ==
  /\ pc[r] = "factory" /\ answer[r] # "none"
  /\ \/ answer[r] = "ok" /\ Submit(r, "create")
     \/ Fail(r)
  /\ UNCHANGED <<chain, address, outcome>>

\* Mutant: only a createPair that succeeded lets the script go on.
PairCreatedOnly(r) ==
  /\ pc[r] = "create" /\ answer[r] = "ok"
  /\ outcome' = [outcome EXCEPT ![r] = answer[r]]
  /\ pc' = [pc EXCEPT ![r] = "done"]
  /\ UNCHANGED <<chain, sent, answer, address>>

\* A failed createPair is only reported, and the run goes on to its end.
PairCreated(r) ==
  /\ pc[r] = "create" /\ answer[r] # "none"
  /\ outcome' = [outcome EXCEPT ![r] = answer[r]]
  /\ pc' = [pc EXCEPT ![r] = "done"]
  /\ UNCHANGED <<chain, sent, answer, address>>

\* The connection is lost: signAndSubmit rejects.
LoseConnection(r) ==
  /\ pc[r] \in {"upload", "factory", "create"}
  /\ Fail(r)
  /\ UNCHANGED <<chain, address, outcome>>

-----------------------------------------------------------------------------
\* The chain deals with the transaction of a run.
Answer(r, a) ==
  /\ answer' = [answer EXCEPT ![r] = a]
  /\ sent' = [sent EXCEPT ![r] = "none"]

ExecuteUpload(r) ==
  /\ sent[r] = "upload"
  /\ \E p \in PairAddrs : DeployPair(Deployer, p)
  /\ Answer(r, "ok")
  /\ UNCHANGED <<script, address>>

ExecuteFactory(r) ==
  /\ sent[r] = "factory"
  /\ \E f \in Factories :
       /\ DeployFactory(f, constructor.setter, constructor.hash)
       /\ address' = [address EXCEPT ![r] = f]
  /\ Answer(r, "ok")
  /\ UNCHANGED script

\* createPair takes many steps; ChainStep takes the rest of them.
ExecuteCreate(r) ==
  /\ sent[r] = "create"
  /\ CreatePair(address[r], TokenA, TokenB)
  /\ sent' = [sent EXCEPT ![r] = "executing"]
  /\ UNCHANGED <<script, answer, address>>

\* A dispatch error: weight, deposit, nonce, or a revert on entry.
Reject(r) ==
  /\ frame = Idle
  /\ sent[r] \in {"upload", "factory", "create"}
  /\ Answer(r, "failed")
  /\ UNCHANGED <<vars, script, address>>

ChainStep ==
  /\ CallStep
  /\ IF \E r \in Runs : sent[r] = "executing" /\ frame' = Idle
       THEN \E r \in Runs : /\ sent[r] = "executing"
                            /\ Answer(r, IF allPairs' # saved.allPairs THEN "ok" ELSE "failed")
       ELSE UNCHANGED <<sent, answer>>
  /\ UNCHANGED <<script, address>>

\* The other accounts of the chain.
Interfere ==
  /\ \/ \E c \in Others, p \in PairAddrs : DeployPair(c, p)
     \/ \E p \in PairAddrs, a \in OtherTokens : Initialize(p, a, TokenB)
     \/ \E f \in Factories, a \in OtherTokens : CreatePair(f, a, TokenB)
  /\ UNCHANGED <<script, sent, answer, address>>

-----------------------------------------------------------------------------
InitD ==
  /\ Init
  /\ pc = [r \in Runs |-> "start"]
  /\ sent = [r \in Runs |-> "none"]
  /\ answer = [r \in Runs |-> "none"]
  /\ address = [r \in Runs |-> Zero]
  /\ outcome = [r \in Runs |-> "none"]
  /\ constructor \in Arguments

ScriptStep(r) == Start(r) \/ Uploaded(r) \/ FactoryDeployed(r) \/ PairCreated(r)

Execute(r) == ExecuteUpload(r) \/ ExecuteFactory(r) \/ ExecuteCreate(r) \/ Reject(r)

NextD ==
  \/ \E r \in Runs : ScriptStep(r) \/ LoseConnection(r) \/ Execute(r)
  \/ ChainStep
  \/ Interfere

\* A run takes its next step; the chain ends what it executes and, between the
\* transactions of others, executes or refuses each transaction in flight
\* (its lifetime is limited).
Fairness ==
  /\ \A r \in Runs : WF_varsD(ScriptStep(r)) /\ SF_varsD(Execute(r))
  /\ WF_varsD(ChainStep)

SpecD == InitD /\ [][NextD]_varsD /\ Fairness

-----------------------------------------------------------------------------
\* The factory a run goes on with after step 2 is a factory, it keeps what
\* the script gave its constructor, and the chain has the code of the pair, so
\* that createPair can work if the script's hash is the chain's: whatever the
\* transactions in flight of other runs, lost connections and the other
\* accounts do (deploy_native.ts:83-128, "register code on chain").
FactoryUsable ==
  \A r \in Runs : pc[r] \in {"create", "done"} =>
    /\ address[r] \in factories
    /\ feeToSetter[address[r]] = constructor.setter
    /\ pairCodeHash[address[r]] = constructor.hash
    /\ PairCode \in codes

\* A createPair the chain answers with success has registered, for the two
\* tokens of the script, a pair of the run's own factory with the code that
\* step 1 uploaded, so the hash the script computes is the chain's; the pair
\* stays whatever happens to the other runs (deploy_native.ts:162-166,
\* utils.ts:91-93).
ReportedPairExists ==
  \A r \in Runs : outcome[r] = "ok" =>
    LET p == getPair[address[r]][TokenA][TokenB]
    IN  /\ constructor.hash = PairCode
        /\ p # Zero /\ pairs[p].code = PairCode /\ pairs[p].factory = address[r]
        /\ {pairs[p].token0, pairs[p].token1} = {TokenA, TokenB}

\* Every run ends, whether its transactions succeed or not.
RunsEnd == \A r \in Runs : <>(pc[r] \in {"done", "failed"})

=============================================================================
