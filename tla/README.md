# A verification project for risc-v-rust

The repository compiles smart contracts to RISC-V and runs them on PolkaVM. Its
largest program is a port of the Uniswap V2 factory and pair to Rust
(`uniswap-rust`); around it are an executor for PolkaVM and EVM blobs with a
benchmark driver (`pvm`), scripts that deploy the contracts to a chain
(`ts-interact`), and small sample contracts. This directory holds TLA+ modules
for the parts with state and concurrency, the TLC configurations that
model-check them on small instances, and theorems about them checked by TLAPS.

Contents: 1 the system; 2 the modules; 3 the runs; 4 fairness and deadlock;
5 the proofs; 6 disagreements between code and documentation; 7 what is not
modelled; 8 the plan.

## 1. The system

### Pair (`uniswap-rust/src/pair.rs`)

*State.* One packed reserves word (two 112-bit fields and a timestamp), the lock
slot, `totalSupply`, the LP balances and allowances, the tokens' addresses and
the factory; the pair's holdings in the two token contracts are state of those
contracts.
*Operations.* `deploy`, `initialize`, `mint`, `burn`, `swap`, `skim`, `sync`;
`approve`, `transfer`, `transferFrom`; views.
*Interactions.* Each of the five pool operations calls `balanceOf` and
`transfer` of both tokens (foreign code); `initialize` is called by the factory;
the host undoes a call that reverts, traps or runs out of gas.
*Hard.* Balances read before a call and used after it; payment before the check
that it was paid for; a lock slot held across foreign calls; LP operations that
do not look at the lock; arithmetic that wraps modulo 2^256; fields and masks of
different widths; LP supply that does not count the first provider.
*Correct when* the recorded reserves are backed by tokens, a swap never lowers
the product of the reserves, minting and burning never dilute a share, balances
and supply move together, spenders take no more than was granted, and every call
leaves the pair unlocked.

### Factory (`uniswap-rust/src/factory.rs`)

*State.* `feeTo`, `feeToSetter`, the code hash of the pair, the map `getPair`,
the array `allPairs`.
*Operations.* `deploy`, `setFeeTo`, `setFeeToSetter`, `createPair`; views.
*Interactions.* `createPair` instantiates a pair by its code hash and calls its
`initialize`, which is open to everyone while `token0` is zero.
*Hard.* `createPair` has five effects, each of which may be the last; the code
it instantiates is whatever its stored hash names, and may call back before
`createPair` goes on; pairs deployed and initialized by hand live on the same
chain; a constructor called with too little data.
*Correct when* array, map and pairs agree, a listed pair never changes, only the
setter changes the fee addresses, and foreign code behind the hash of one
factory does no harm to another.

### Square root (`uniswap-rust/src/math.rs`)

A pure function: a loop that improves an estimate until it no longer falls.
*Correct when* it ends, returns the floor root, and neither wraps nor divides by
zero.

### Storage helpers (`uniswap-rust/src/lib.rs`)

*State.* None of their own: they read and write the storage of the contract that
calls them, one map of 32-byte keys.
*Operations.* `mapping_key_1`, `mapping_key_2`, `array_slot`, `storage_get_u256`,
`storage_set_u256`; the getters and setters of the pair and the factory are
made of them.
*Hard.* Slots, balances, allowances, registered pairs and the elements of the
pair list share one key space; the slot number goes into the middle of the
hashed word, and the inner hash of a two-key mapping uses the number of the slot
behind its own.
*Correct when* the keys of different variables never meet.

### PolkaVM executor (`pvm/src/polkavm_runner.rs`)

*State.* The compiled module and a hash map of 32-byte keys and values, kept
from one call to the next; during a call, the instance with its memory, its
registers and its gas.
*Operations.* `deploy`, `call` (a loop around the interrupts of the contract and
its syscalls), `reset_storage`; the syscalls for storage, call data, hashing,
the values of the environment and the end of the call.
*Hard.* A zero written is an entry removed; failed memory reads and writes are
ignored; the bytes of a loaded word are reversed; addresses are added without a
check; writes are not undone when a call fails; many ways for a call to end.
*Correct when* the contract cannot tell the hash map from slots that always hold
a value, and reads the call data that the caller wrote, padded with zeros, in the
buffers it named and nowhere else.

### EVM executor (`pvm/src/evm_runner.rs`) and benchmark driver
(`pvm/src/main.rs`)

*State.* A database of accounts (code and storage) with the caller's nonce, and
the address of the contract deployed last.
*Operations.* `new`, `deploy` (install runtime code at a fixed address),
`deploy_create` (run init code), `call`, `reset_storage`. The driver reads a
file of bytecode, splits it into init and runtime code at the first byte `0xf3`,
deploys what it found and calls it; it does the same with a PolkaVM blob.
*Interactions.* revm executes the transactions and keeps the nonces.
*Hard.* The byte that ends the init code may also be data, or the start of the
runtime code; a file may hold either part alone; `deploy` keeps the storage of
the contract it replaces; every transaction is sent with nonce 0.
*Correct when* calls go to the contract deployed last, whatever was deployed,
created or reset before, and what the loader deploys directly is what the file
has behind its init code.

### Native deployment script (`ts-interact/src/deploy_native.ts`, `utils.ts`,
`config.ts`)

*State.* The addresses learned from events, held in locals of `main`.
*Operations.* Upload the pair's code, deploy the factory, call its views, create
a pair, call the pair's views; each awaits one transaction.
*Hard.* The connection may be lost while a transaction is in flight, which may
still be executed; the script is run again, or twice; other accounts may act
between its transactions.
*Correct when* the factory it goes on with keeps what its constructor was given
and can create pairs if the hash the script computed is the chain's, the pair of
a successful `createPair` exists, and every run ends.

### The rest

`deploy_evm.ts` and `deploy_pvm.ts` never call their `main`. `interact.ts` is a
client of `Counter.sol`. `fibonacci-rust` is a pure contract. `risc` prints a
string to a UART. `pvm/contracts` are loops that give the executors work.
`pvm/tests/integration.rs` uses functions the crate no longer has.
`PROJECT.json` lists every component with its status, and under `hazards` each
thing that is hard to test with the line where it bites and the properties that
cover it.

## 2. The modules

| module | what it is |
| --- | --- |
| `U256` | the words of the contracts: wrapping `WAdd`, `WSub`, `WMul` modulo `Word`, and `sqrt_u256` by what it returns |
| `SqrtLoop` | the loop of `math.rs`, one step per iteration |
| `Pair` | the pair; EXTENDS `U256` |
| `PairAllowance` | `Pair` with a history of what owners granted and spenders took |
| `LPToken` | abstract: the ledger of LP shares; every operation is one step |
| `PairLedger` | `Pair` with the refinement mapping to `LPToken` |
| `Factory` | factories, pairs, `initialize`, `createPair` step by step |
| `PairRegistry` | abstract: a set of registered pairs; a pair is registered in one step, inside foreign calls that return or take everything back |
| `FactoryRegistry` | `Factory` with the refinement mapping to `PairRegistry` |
| `SlotStore` | abstract: slots that always hold a value |
| `PvmExecutor` | the executor's storage, memory and call loop, and its refinement of `SlotStore` |
| `ContractVariables` | abstract: the variables of pair and factory, which share nothing |
| `StorageLayout` | the same variables in two flat storages, and the refinement of `ContractVariables` |
| `EvmExecutor` | the executor on revm: accounts, nonce, contract address |
| `EvmBench` | the loader of bytecode and the benchmark on `EvmExecutor`, which it EXTENDS |
| `DeployNative` | the deployment script on the chain of `Factory`; EXTENDS `Factory` |
| `MCPair`, `MCPairAllowance`, `MCFactory`, `MCPvmExecutor`, `MCStorageLayout` | definitions for the model checker |
| `U256Proofs`, `SqrtLoopProofs`, `PairProofs`, `PairValueProofs`, `FactoryProofs`, `PvmExecutorProofs`, `StorageLayoutProofs`, `EvmBenchProofs` | the proofs |

**Pair.** `reserves.hi` and `reserves.mid` are the bits 144..255 and 32..143 of
the reserves word. `GetReserve1` adds the bits of `hi` that the code's 128-bit
mask lets through, `SetReserves` ors what a balance of more than 112 bits spills
over. `frame` is the call in progress: `op`, the next step `pc`, and the locals
(`r0`, `r1` the reserves read, `b0`, `b1` the balances read, `x0`, `x1` the
amounts to pay, `liq` and `ts` what burn read before its calls). A pool
operation is `Enter` (the guards before the first call, `require_unlocked`,
`set_unlocked(0)`), the calls of the tokens one by one (`ReadBalance0`,
`ReadBalance1`, `SettleBurn` or `SettleSkim`, `Pay0`, `Pay1`), and an end
(`MintFirst`, `MintMore`, `EndBurn`, `EndSwap`, `EndSkim`, `EndSync`) that does
everything after the last call. `TokenTransfer` (external) may happen between
any two steps: it is a transfer by a holder, or by the code of the token the
pair is calling. `Revert` may happen at any step of a call and restores `saved`,
which is what the host does; a guard that fails inside the code leads there,
because no other step is then enabled. `CallFlags` is the empty set of flags of
every `call_evm`: the host refuses calls into a pair that is in the middle of
one, which is the only reason why `Approve`, `Transfer` and `TransferFrom` need
no lock. `FalseTokens` are tokens that may answer `false` to a transfer instead
of reverting: `safe_transfer` looks at the error flag only, so the call goes on
as if it had paid. The timestamp is left out, as no operation reads it, and so
are the slots for cumulative prices and `kLast`, which are never written.
`LPToken` knows neither the lock nor the calls: `PairLedger` maps the books to
those of the checkpoint while a call is in progress and to the current ones
otherwise, so that a mint or a burn takes effect when it returns.

**Factory.** The variables are functions of the factory's address. Token
addresses are naturals, ordered as the code orders the byte arrays, and 0 is the
zero address and the empty slot. `createPair` is `CreatePair` (the guards),
`Instantiate`, `CallInitialize` or `InitializeFails`, `SetPair01`, `SetPair10`,
`Push`, and `Revert` at any of them. `DeployPair` and `Initialize` are what
anyone else may do with the pair's code. A factory may have been given the hash
of other code that the chain knows (`Foreign`). Then `InstantiateForeign` puts
the `createPair` aside (`outer`, the last one inmost) and any operations follow:
they are what the foreign constructor does, the `createPair` of the same factory
among them. `Resume` takes the `createPair` up again where `initialize` has
returned; what the foreign code does in its `initialize` it could have done in
its constructor. `Revert` restores the checkpoint of the inmost `createPair`,
and with it everything done inside it. A record of `pairs` has the code at the
address, so that a foreign contract is no pair. `Honest` factories are those that
store the hash of the pair's code.

`PairRegistry` has none of these steps: there, `Create` adds a pair with its
factory and its two tokens at once. It has `Begin`, `Return` and `TakeBack` of
foreign calls, with a stack of snapshots. `FactoryRegistry` maps the honest
factories to it: a `createPair` of theirs in progress is not seen before its
push, and one of any other factory is a foreign call that begins at the state it
would be undone to.

**PvmExecutor.** `storage` is the hash map, a function whose domain is the keys
present. A contract is any sequence of computations and syscalls on a `memory`
of which some addresses are mapped and some are writable. `Read` and `Written`
are the accesses of the executor to it: all of a region or nothing, a failed
read leaving the executor's zero buffer. `Loaded` and `Copied` are
`call_data_load` and `call_data_copy`. The address of the second write of a copy
is added without a check: a release build wraps it around (`Copied`), a build
with overflow checks panics (`CopyPanics`), and both are behaviours of the model.
`gas` bounds the syscalls of a call. The syscalls that put a value of the
environment or a hash into the memory are `PutWord` with any bytes; those that
answer in a register are `OtherSyscall`. The mapping to `SlotStore` is
`GetOrZero`.

**StorageLayout.** A key is the number its 32 bytes spell, so that a slot, an
address in the last bytes of a word, an index and a hash are comparable, and
meet when the code lets them. A slot number in the bytes 12..15 of a word is
that number times `SHIFT` = 2^128. `keccak` is a constant operator of two words;
`KeccakAssumption` says what is expected of it, and only for the words that the
contracts hash: no collisions, and no hash that is a slot number, a shifted slot
number or an index. The mapping to `ContractVariables` reads each variable with
the code's own getter.

**EvmExecutor and EvmBench.** `accounts` has the code and the storage (empty or
written) of the two addresses an executor can come to use: `CONTRACT_ADDRESS`
and the one that nonce 0 creates. revm is external and modelled by what the
executor relies on: it refuses a transaction whose nonce is not the account's,
and raises the nonce with each one it executes, failed ones included. A file is
a record of the two parts a compiler put together, of which the first ends with
RETURN, or with RETURN and the INVALID that solc puts behind it, or is empty: a
file of runtime code only, as `arithmetic.bin` is. `load_evm_bytecode` sees their
concatenation. When it finds no runtime code, the file runs as init code, and
what that returns is any code (`created`). `main` runs one deployment and one
call; `EvmBench` runs any number of deployments, creations, calls and resets on
one executor, since its operations are public and `reset_storage` is meant for
use between iterations. `loaded` and `installed` record the file and the code of
the deployment that succeeded last. A refused creation panics and ends the
program.

**DeployNative.** `pc` is the transaction a run awaits, `sent` the one in flight,
`answer` the chain's answer to it, `address` the contract named by its event.
They differ when the connection is lost: the run has failed and its transaction
is still `sent`. Other accounts (`Interfere`) deploy and initialize pairs and
call `createPair` of the run's factory. `constructor` is what the script computes
with `pubkeyToAccountId20` and `codeHash` (`utils.ts`): which account the first
20 bytes of a public key are, and whether the hash is the one by which the chain
knows the uploaded code, is decided outside the repository, so both are chosen
once and for all runs. Only that the hash is not that of some other code on the
chain is taken for granted, so that the script's factories run no foreign code.
`setFeeTo` and `setFeeToSetter` of other
accounts are left out, as they fail for all but the setter (`RenouncedForEver`
and the theorem about it).

Definitions named "Mutant" in a comment are never used by the specifications:
they are plausible mistakes in the code, and each property is known to fail when
one of them takes the place of the definition it stands next to.

## 3. The runs

`tlc -config X.cfg M` for the module and configuration given.

| run | module, cfg | states | shows |
| --- | --- | --- | --- |
| sqrt | `SqrtLoop`, `SqrtLoop.cfg` | 8,018 | floor root, no wrap, no division by zero, termination for every 10-bit argument |
| pair | `MCPair`, `MCPair.cfg` | 973,212 | `TypeOK`, `LockMatchesCall`, `ReservesBacked`, `KNeverFalls`, `ShareNeverDiluted`, `LedgerInStep`, the refinement of `LPToken`, one of the tokens answering `false` |
| pair_allowance | `MCPairAllowance`, `MCPairAllowance.cfg` | 340,754 | `TakenWithinGrants`, the refinement of `LPToken` with approvals and what is taken of them |
| pair_supply | `MCPair`, `MCPairSupply.cfg` | violated | LP balances exceed `totalSupply` after the first mint |
| pair_u112 | `MCPair`, `MCPairU112.cfg` | violated | `getReserves` returns a reserve1 of more than 112 bits |
| factory | `MCFactory`, `MCFactory.cfg` | 1,316,205 | `TypeOK`, `ListedPairsMatch`, `GetPairMatches`, `ListedForEver`, `RenouncedForEver` and the refinement of `PairRegistry`, with foreign code inside `createPair` |
| pvm_executor | `MCPvmExecutor`, `MCPvmExecutor.cfg` | 26,107 | `TypeOK`, `CopyCorrect`, `LoadCorrect` and the refinement of `SlotStore` |
| storage_layout | `MCStorageLayout`, `MCStorageLayout.cfg` | 28,672 | `TypeOK`, `AllPairsAnswers` and the refinement of `ContractVariables` |
| evm_bench | `EvmBench`, `MCEvmBench.cfg` | 51,993 | `TypeOK`, `CallsTheLastDeployed`, `CutBehindReturn` |
| evm_nonce | `EvmBench`, `MCEvmNonce.cfg` | violated | after one transaction an executor refuses every call |
| evm_loader | `EvmBench`, `MCEvmLoader.cfg` | violated | a file of runtime code only is cut in its middle |
| deploy_native | `DeployNative`, `MCDeployNative.cfg` | 354,744 | `FactoryUsable`, `ReportedPairExists`, `RunsEnd` |

**Bounds.** *Pair.* `Word` = 2^14, `R112` = 2^3, `Spill` = 2 (so the masks of
`get_reserves` are one bit wider than the fields, as they are 16 bits wider in
the code), a fee of 1/10, `MINIMUM_LIQUIDITY` = 1, a token supply (`TokenMax`)
of 3 or 4 and at most `MaxLP` = 3 shares before a mint is refused. This is the
smallest instance in which: a first and a later mint, a burn of part and of all
the shares, swaps in both directions, surplus for skim and sync, an odd reserve0
that reads back into reserve1, surplus that wraps around, and a `totalSupply`
that wraps below zero all happen. `Word` holds the products of the K check for
these supplies (`SmallSupply`), as 2^256 does for any supply below 2^108; a
wrapped K check needs supplies that the 112-bit fields can hardly record, and
`KNeverFalls` is stated for the supplies that fit. One user suffices in `pair`,
because every account behaves alike and the pair itself is a holder too (shares
to burn are sent to it); one token answers `false` at will and the other never.
Two users are needed for allowances; there tokens are transferred two at a time,
`MaxLP` is 2, and grants count up to `GrantMax` = 3 besides the unlimited one.
*Factory.* Three tokens and the zero address, two factories, each honest,
foreign or bare, and two pair addresses: two pairs of one factory, or one of
each, or pairs made by hand among them. Foreign code runs two calls deep
(`MaxDepth`): the foreign constructor of one `createPair` calls `createPair` of
the same or the other factory, whose pair is another pair of the code, or
foreign again. Inside it anyone may call anything, so one foreign code and one
account stand for all. The code hash 0 is what a constructor with too little
data stores; the hash of the pair's code is unknown to the chain until the code
is uploaded. Addresses of factories and pairs are interchangeable: nothing
compares them (`Symmetry`). *PvmExecutor.* Words of two bytes, an address space
of eight with three mapped addresses of which one is read-only, call data of one
byte and of two, and offsets up to one past its end: pointers before, across and
behind each border, the last one wrapping when a length is added. Two syscalls
per call, with computations between them; the storage keeps what earlier calls
left, so that the calls are unbounded. *StorageLayout.* Two addresses, 0 and 3,
of which 3 is also the number of the slot of the pair list; two values, one
scalar slot per contract, a list of two, asked for the indices up to its end,
one far behind it, and every inner hash of getPair (`Asked`); `SHIFT` is 11, the
least above the slot numbers; the hash is a pairing function, injective and
above everything that is used as a slot. *EvmBench.* The bytes that the loader
looks at, `0xf3` and `0x90`, INVALID and one other; init code with a RETURN at
its first or second byte, with INVALID behind it or without, or none; runtime
code of up to two bytes: a second `0xf3` before and after the first, each byte
at the start of the runtime code, and a `0xf3` in a file of runtime code only. A
creation returns no code or any one byte. *DeployNative.* Two runs, another
account, as many factories as runs; three pair addresses: one per run for the
code and one for a `createPair`, or fewer of these when other accounts take
them; the code hash is the chain's or another one. *SqrtLoop.* All 1024
arguments of a ten-bit word.

**Why these properties.** `ReservesBacked` is what skim, swap and burn rely on
when they pay; it could break by a stale balance, a payout in the wrong order or
a wrapped surplus. `KNeverFalls` is the purpose of the K check, with tokens
coming in while the call runs. `ShareNeverDiluted` is what a liquidity provider
relies on; it has three premises: supplies for which no field overflows
(`SmallSupply`), reserves that read back as stored, and burned shares that are
among those `totalSupply` counts. The last two are exactly the two code bugs of
section 6, without which it would hold of every mint and burn. `LedgerInStep`
says that the gap between LP balances and `totalSupply` opens at a first mint
and nowhere else. `ImplementsLPToken` says that the steps of a mint or a burn,
the reverts and the calls of the tokens cannot be told from an atomic operation
on the ledger, although burn reads the books, calls, writes, and calls again,
and the LP operations ignore the lock: it is checked with burns and later mints
in `pair`, where approvals are all zero to keep the run small, and with
allowances in `pair_allowance`. `ImplementsRegistry` says that nobody ever sees
a half made pair, and that foreign code inside the `createPair` of one factory
has no effect on another that it could not have had from outside.
`ListedForEver` is about the factory that runs the foreign code, too: it may
list several pairs for the same two tokens, and `getPair` then names the last of
them, but it loses none, as it would if the length of the array were read before
the call. `ImplementsVariables` is what `Pair` and `Factory` take for granted
when they keep balances, allowances and pairs in variables of their own; a key
that left out one of its parts, or an array laid out behind its length, would
break it for some pair of entries only. `CopyCorrect` and `LoadCorrect` say the
same of the call data: what the contract computes from is what the caller sent.
`AllPairsAnswers` bounds what the unchecked index of `allPairs` can reveal: an
index that is the inner hash of a getPair entry does read that entry.
`CallsTheLastDeployed` relates two addresses, the code at each, and the order of
deployments, creations that fail and resets. `CutBehindReturn` says where the
loader cuts; that this is not always where the runtime code begins is
`RuntimeDeployed` and section 6. `FactoryUsable` and `ReportedPairExists` tell
what a run may conclude from the chain's answers: after step 2 the factory
stands and the code is known, but only a `createPair` that succeeds shows that
the computed hash is right.

## 4. Fairness and deadlock

- `SqrtLoop`: weak fairness of the loop: it is sequential code.
- `DeployNative`: weak fairness of the script's own steps (an event loop with one
  pending promise) and of the steps of a `createPair` the chain executes; strong
  fairness of the chain dealing with each transaction in flight, by executing or
  refusing it, since other transactions come between and a transaction has a
  limited lifetime. The script's connection is not assumed to last.
- The other specifications are safety only.

Deadlock is not checked where the program may stop: the factory run ends when
the bounded addresses are used up and no guard is open, the deployment run when
every run has ended, the runs of the two executors when the process panics. All
other runs check deadlock.

## 5. The proofs

`tlapm M.tla` for the modules ending in `Proofs`. The theorems hold for every
value of the constants that satisfies the assumptions named in the modules:
`WordAssumption`, `PairAssumption`, `AccountsAssumption`, `AllowanceAssumption`,
`FactoryAssumption`, `PvmAssumption`, `LayoutAssumption`, `KeccakAssumption`,
`BoundsAssumption`. These say that the special addresses are different ones, the
widths of fields are positive and fit the word, a bitwise or stays within its
field and changes nothing when one side is zero, there are finitely many
accounts (addresses have 20 bytes), owners and spenders are users, addresses and
values contain zero, the lowest addresses of a contract's memory, as many as the
call data is long, are unmapped, and the hash has no collisions on the words
that are hashed (section 2).

- **Square root** (`SqrtLoopProofs`): `TypeCorrect`, `SqrtCorrect`,
  `LoopReturnsRoot`, `SqrtNeverWraps`. The invariant `IInv` says that while the
  loop runs the estimate z is at least the floor root and x is Newton's successor
  of z; the lemmas `NewtonAbove` and `NewtonSum` do the arithmetic. That the root
  exists follows from the well-foundedness of the naturals (`U256Proofs`).
  `LoopReturnsRoot` justifies that `Pair` uses `sqrt_u256` by what it returns.
- **Pair** (`PairProofs`): `TypeCorrect`, `LockCorrect`, `ReservesAlwaysBacked`.
  `ReservesBacked` alone is not inductive: inside a call the balances read are
  not yet recorded, and the call may be undone. `IInv` adds what the pair is
  known to hold at each step of each operation (at least the balance read, less
  what is still to be paid or has been paid; others may only add to it) and that
  the checkpoint is itself a backed state.
- **Swap** (`PairValueProofs`): `SwapKeepsK`. `SwapInv` adds that the locals of a
  swap are those of the state it started from; `KSound` shows that, without
  overflow, the check on the adjusted balances implies that the product of the
  balances is at least that of the reserves, whatever came in.
- **Allowances** (`PairValueProofs`): `TakenIsGranted`. `AllowanceInv` adds that no
  call in progress can undo an approval (the checkpoint has the allowances of
  now, because nobody is let into the pair meanwhile) and that an allowance of
  2^256 - 1 was granted as such, not reached by a subtraction.
- **Worth of a share** (`PairValueProofs`): `SharesKeepWorth`. `ShareInv` follows a
  mint or a burn from its checkpoint: where it is (`CallPath`), which books it
  works on (`Books`), that the balances read are no less than the reserves
  (`WorthHeld`), and that what a settled burn leaves, and goes on leaving while
  it pays and while others transfer tokens to the pair, covers the remaining
  shares (`WorthLeft`). `MintCovers` and `BurnCovers` are the arithmetic: wrapped
  products only make the amounts smaller.
- **Supply** (`PairValueProofs`): `LedgerStaysInStep`, from `ShareInv`. The sum of a
  ledger changes by as much as the balance that is set (`SumUpdate`), proved of
  the community modules' `SumFunction` by induction on the cardinality of the
  subsets of the accounts; the rest is arithmetic modulo `Word`.
- **Refinement of the LP ledger** (`PairValueProofs`): `LPTokenImplemented`, and
  `WatchedLPToken` for the pair with the history of grants. `LedgerInv` is
  `ShareInv` and the checkpoint's allowances: the books seen in a call are those
  it will return on, less what a burn has taken. Steps inside a call, `swap`,
  `skim`, `sync` and a revert are stutters; a transfer to oneself is one too.
- **Factory** (`FactoryProofs`): `TypeCorrect`, `ListedPairsCorrect`,
  `GetPairCorrect`, `ListedPairsStay`, `RenouncedStays`, for any depth of foreign
  code. `ListedPairsMatch` is not inductive: a call may be undone, to a state that
  must satisfy it as well, and a pair may be listed only if nobody changed it
  since it was instantiated. `IInv` says that every checkpoint, of the
  `createPair` in progress and of the suspended ones, is `Consistent`; that
  `getPair` is right but for the two tokens of the `createPair` between its writes
  (`Underway`); that the pair of an honest factory is new, complete and not yet
  listed (`Fresh`); and that each state keeps what earlier ones have listed
  (`Chain`). `Kept` is a preorder, every step but an undoing steps upwards in it
  (`StepKeeps`), and so what a call is undone to is kept by what follows.
- **Refinement of the registry** (`FactoryProofs`): `RegistryImplemented`. `RefInv`
  adds that during a `createPair` of an honest factory the fee addresses, the
  stored hashes, the deployed factories and `allPairs` are those it started from
  (`Steady`), so undoing it does not show. Everything inside a `createPair`
  of an honest factory is a stutter except the push, which is `Create` of
  `PairRegistry`; `createPair`, its push and its undoing of any other factory are
  `Begin`, `Return` and `TakeBack`, and suspending or resuming it is a stutter.
- **Deployment script** (`FactoryProofs`): `FactoryIsUsable`, `ReportedPairStays`,
  for every hash and setter the script may compute. `ScriptInv` says which
  transaction a run that has not given up awaits (`Awaited`), what it may rely on
  from each answer on (`Earned`), that the `createPair` the chain executes for a
  run is the one in the factory's frame (`Executing`), and that no factory of the
  script runs foreign code (`Plain`), together with the invariant of `Factory`,
  from which a listed pair is what `getPair` returns, in either order of the
  tokens and inside calls of other accounts too (`ListedIsReturned`).
- **PolkaVM executor** (`PvmExecutorProofs`): `TypeCorrect`, `SlotsImplemented`,
  `CopiesCorrect`, `LoadsCorrect`. Every step of `PvmExecutor` is a step of
  `SlotStore` or leaves slots and answer unchanged; this needs that the map
  holds no zero, which is in `TypeOK`. For a copy, the two writes are shown to
  lie in the buffer and to fill it; when the second address wraps around, it
  falls among the unmapped addresses, which is why nothing is written there. For
  a load, reversing the padded word in the code's way and reading it from its
  highest byte down spell the same bytes in the same order (`Number`).
- **Storage layout** (`StorageLayoutProofs`): `TypeCorrect`,
  `VariablesImplemented`, `AnswersArePairs`. The lemmas show, from the two assumptions
  on constants, that the keys of any two entries differ; each setter then changes
  one variable of `ContractVariables`. `TypeOK` has the parts that the mapping
  needs: the entries of getPair and of the list are addresses, so that the
  getters' truncation to 20 bytes loses nothing. An index that `allPairs` is asked
  for is a small one, whose key no other variable has, or an inner hash of
  getPair, whose key is that of an entry of getPair.
- **EVM benchmark** (`EvmBenchProofs`): `TypeCorrect`, `LastDeployedRuns`,
  `CutIsBehindReturn`. The three properties together are inductive (`Inv`). That
  the loader cuts behind the first RETURN of every file, of any form and length,
  and that what it returns is not empty, are lemmas about the first occurrence
  of a byte in a sequence.

Only model-checked: the liveness properties (`Terminates`, `RunsEnd`), which are
out of the prover's reach together with anything that needs ENABLED. Every
invariant, action property and refinement of the passing runs is also a theorem.
The four runs that expect a violation have none.

## 6. Where code and documentation disagree

1. `pair.rs:322`: the first mint adds only `MINIMUM_LIQUIDITY` to `totalSupply`,
   not the shares it gives the caller. The balances exceed the supply from then
   on (`pair_supply`); later providers share a pool of which the first owns
   shares that are not counted, and burning them wraps `totalSupply`. When the
   counted shares are burned the next mint is a first mint again and overwrites
   the zero address's balance.
2. `pair.rs:98`: `get_reserves` masks with 128 bits fields that are 112 bits
   wide, so the low 16 bits of reserve0 appear on top of reserve1 (`pair_u112`).
3. `evm_runner.rs:135`: every transaction is sent with nonce 0, so that the first
   one, a creation included, makes revm refuse all later ones (`evm_nonce`): a
   contract created by `deploy_create` cannot be called, and there is no second
   iteration between which `reset_storage` could be of use.
4. `main.rs:35`: the loader takes everything up to the first byte `0xf3` for init
   code, also in a file that has none (`evm_loader`). `arithmetic.bin`, the file
   that `main.rs:25` loads, is runtime code, and what lies behind its first
   `0xf3`, in the middle of the contract, would be deployed;
   `bench_revm_arithmetic` is not called from `main`.

Smaller observations, without a run:

- `deploy_native.ts:170`: step 5 needs an event that the contracts never emit,
  and is never reached.
- `factory.rs:19` says of the pair list "data at keccak(3)+i"; the code uses
  keccak(3, i), which is as good (`StorageLayout`). The view `allPairs` accepts
  any index; one behind the end reads zero, and one that is the inner hash of a
  getPair entry reads that entry (`AllPairsAnswers`).
- `polkavm_runner.rs:385`: the writes of a call that fails stay. No document says
  otherwise.
- `utils.ts:90` calls blake2b the hash "used by Substrate/pallet-revive for
  contract code". Whether the chain hashes code this way is not in the repository;
  if it does not, every run deploys its factory and no `createPair` works.
- `burn` and `swap` take a payment that a token answered with `false` for made:
  the shares are burned, and the reserves are still backed (`ReservesBacked` with
  `FalseTokens`), since they are recorded from balances read afterwards.

## 7. What is not modelled

- Views, formatting, encoding and logging; names, symbols and decimals, which
  the contracts do not have.
- The timestamp and its host encoding (`now_secs`): a trap there, or when the
  4096 bytes of the allocator are used up, is one of the reverts that may happen
  at any step.
- Tokens that take fees or change balances by themselves: the tokens modelled
  are ERC20 ledgers, with or without a revert on failure.
- The second dispatch of syscalls by their names (`polkavm_runner.rs` 440-635),
  which is never called and has the same handlers. Loading a module: it either
  fails, or gives some contract. `bench_pvm_arithmetic` of the driver is one
  behaviour of `PvmExecutor`: a new executor and one call.
- Gas and output of revm, which the driver only prints.
- The transactions with which the script calls views: they change nothing and
  their errors are caught. How the chain hashes code and maps public keys to
  accounts: the results of `utils.ts` are unknown values (section 2).
- `deploy_evm.ts`, `deploy_pvm.ts`: their `main` is never called. `interact.ts`
  and `Counter.sol`: one slot, and a client that prints what it reads and
  computes nothing from it. `fibonacci.rs`: a pure recursion on one number. The
  benchmark contracts: `PvmExecutor` takes any contract in their place.
  `risc`: a constant string written to a device. `pvm/tests/integration.rs`:
  tests of functions the crate no longer has.

## 8. The plan

Done, in this order: `U256`, `SqrtLoop` and their proofs; `Pair` with
`PairAllowance` and the proofs of its types, lock, backing and swap; `Factory`,
`PairRegistry` and their proofs; `PvmExecutor`, `SlotStore` and their proofs;
`DeployNative` on `Factory`; the memory and call data of `PvmExecutor`; tokens
that answer `false`; `StorageLayout` with `ContractVariables`; `EvmExecutor` with
`EvmBench`; the proofs of these; foreign code inside `createPair`.

Then the proofs of the rest of the safety properties: the worth of a share, the
supply, the allowances, the refinements of the registry and, with a new abstract
specification, of the LP ledger (`LPToken`, `PairLedger`), the deployment script,
and the loads of the executor.

Next, proofs: what the liveness properties rest on for every value of the
constants, as action properties: a number that each iteration of the square root
lowers, and one that each step of a run of the script lowers; the wrapping of
skim's surplus and of `totalSupply`, stated as when they cannot wrap; and a
refinement of the pool operations, swap, skim and sync, by their effect on
reserves and holdings, as `LPToken` states it for the shares.
