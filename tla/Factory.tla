------------------------------ MODULE Factory ------------------------------
(***************************************************************************)
(* The factory contract of uniswap-rust/src/factory.rs together with the   *)
(* part of pair.rs it depends on: the constructor of a pair and the public *)
(* call initialize.  Several factories and accounts share one chain, and   *)
(* anyone may instantiate and initialize pairs of their own.               *)
(*                                                                         *)
(* createPair is a sequence of steps, because it instantiates a contract   *)
(* and calls it: either may fail, and the gas may run out at any step.     *)
(* The code of a pair calls nobody, so nothing else runs meanwhile; but a  *)
(* factory may be given the hash of any other code.  Its constructor may   *)
(* call every contract, this factory included, before createPair goes on:  *)
(* the createPair is then suspended (outer), and what follows happens      *)
(* inside it.  The other operations are single steps.                      *)
(*                                                                         *)
(* Token addresses are naturals, ordered as the 20-byte arrays are; 0 is   *)
(* the zero address, and a storage slot that was never written.            *)
(***************************************************************************)
EXTENDS Integers, Sequences

CONSTANTS
  Accounts,      \* the accounts that call contracts
  Tokens,        \* the addresses given as tokens, the zero address among them
  Factories,     \* bound: the addresses factories are deployed at
  PairAddrs,     \* bound: the addresses pairs are deployed at
  CodeHashes,    \* the code hashes given to the constructor
  PairCode,      \* the code hash of the pair contract
  Foreign,       \* the hashes of other code that the chain knows (external)
  MaxDepth       \* bound: the depth of calls inside suspended createPairs

Zero == 0
NoHash == 0      \* a code hash of 32 zero bytes

ASSUME FactoryAssumption ==
  /\ Zero \notin Accounts \cup Factories \cup PairAddrs
  /\ Tokens \subseteq Nat /\ Zero \in Tokens
  /\ CodeHashes \subseteq Nat /\ NoHash \in CodeHashes /\ PairCode \in CodeHashes \ {NoHash}
  /\ Foreign \subseteq CodeHashes \ {NoHash, PairCode}
  /\ MaxDepth \in Nat

VARIABLES
  feeTo, feeToSetter, pairCodeHash,   \* of each factory
  getPair,       \* of each factory: token -> token -> pair
  allPairs,      \* of each factory: the array of its pairs
  factories,     \* the factories deployed so far
  pairs,         \* what each pair address holds
  codes,         \* the code hashes known to the chain (external)
  frame,         \* the createPair in progress and its locals
  saved,         \* the state it started from
  outer          \* the createPairs suspended in foreign code, the last one inmost

calls == <<frame, saved, outer>>
fees == <<feeTo, feeToSetter, pairCodeHash, factories, codes>>
registry == <<getPair, allPairs>>
vars == <<feeTo, feeToSetter, pairCodeHash, getPair, allPairs, factories, pairs,
          codes, frame, saved, outer>>

NoPair == [code |-> NoHash, factory |-> Zero, token0 |-> Zero, token1 |-> Zero]
Idle == [pc |-> "idle", f |-> Zero, token0 |-> Zero, token1 |-> Zero, pair |-> Zero]
NoCheckpoint == <<>>
Checkpoint ==
  [feeTo |-> feeTo, feeToSetter |-> feeToSetter, pairCodeHash |-> pairCodeHash,
   getPair |-> getPair, allPairs |-> allPairs, factories |-> factories,
   pairs |-> pairs, codes |-> codes]

-----------------------------------------------------------------------------
\* pair.rs:deploy: the caller becomes the factory of the pair.
DeployedBy(caller) == [NoPair EXCEPT !.code = PairCode, !.factory = caller]

\* pair.rs:initialize: anyone may call it while token0 is the zero address.
Initialized(pair, t0, t1) == [pair EXCEPT !.token0 = t0, !.token1 = t1]
\* Mutant: initialize does not look at token0.
CanInitializeAgain(pair) == pair.code = PairCode
CanInitialize(pair) == pair.code = PairCode /\ pair.token0 = Zero

Free(p) == pairs[p].code = NoHash

\* An account uploads the pair's code with a pair of its own; from inside a
\* call a contract can only name code that is known.
DeployPair(caller, p) ==
  /\ frame = Idle
  /\ outer = <<>> \/ PairCode \in codes
  /\ Free(p)
  /\ pairs' = [pairs EXCEPT ![p] = DeployedBy(caller)]
  /\ codes' = codes \cup {PairCode}
  /\ UNCHANGED <<feeTo, feeToSetter, pairCodeHash, registry, factories, calls>>

Initialize(p, t0, t1) ==
  /\ frame = Idle
  /\ CanInitialize(pairs[p])
  /\ pairs' = [pairs EXCEPT ![p] = Initialized(pairs[p], t0, t1)]
  /\ UNCHANGED <<fees, registry, calls>>

\* deploy with at least 64 bytes of arguments.
DeployFactory(f, setter, hash) ==
  /\ frame = Idle
  /\ f \notin factories
  /\ factories' = factories \cup {f}
  /\ feeToSetter' = [feeToSetter EXCEPT ![f] = setter]
  /\ pairCodeHash' = [pairCodeHash EXCEPT ![f] = hash]
  /\ UNCHANGED <<feeTo, registry, pairs, codes, calls>>

\* deploy with less returns at once, and the factory keeps its empty slots.
DeployFactoryBare(f) ==
  /\ frame = Idle
  /\ f \notin factories
  /\ factories' = factories \cup {f}
  /\ UNCHANGED <<feeTo, feeToSetter, pairCodeHash, registry, pairs, codes, calls>>

\* Mutant: the caller is not compared with the setter.
MaySetAnyone(f, caller) == f \in factories
MaySet(f, caller) == f \in factories /\ caller = feeToSetter[f]

SetFeeTo(f, caller, to) ==
  /\ frame = Idle
  /\ MaySet(f, caller)
  /\ feeTo' = [feeTo EXCEPT ![f] = to]
  /\ UNCHANGED <<feeToSetter, pairCodeHash, registry, factories, pairs, codes, calls>>

SetFeeToSetter(f, caller, setter) ==
  /\ frame = Idle
  /\ MaySet(f, caller)
  /\ feeToSetter' = [feeToSetter EXCEPT ![f] = setter]
  /\ UNCHANGED <<feeTo, pairCodeHash, registry, factories, pairs, codes, calls>>

-----------------------------------------------------------------------------
\* createPair, one step per effect.
sort_tokens(a, b) == IF a < b THEN <<a, b>> ELSE <<b, a>>

At(pc) == frame.pc = pc
Goto(pc) == frame' = [frame EXCEPT !.pc = pc]

\* createPair looks for an existing pair.
NewTokens(f, t) == getPair[f][t[1]][t[2]] = Zero

\* The guards of lines 180-197.
CreatePair(f, a, b) ==
  LET t == sort_tokens(a, b)
  IN  /\ frame = Idle
      /\ f \in factories
      /\ a # b
      /\ t[1] # Zero
      /\ NewTokens(f, t)
      /\ pairCodeHash[f] # NoHash
      /\ saved' = Checkpoint
      /\ frame' = [Idle EXCEPT !.pc = "instantiate", !.f = f,
                               !.token0 = t[1], !.token1 = t[2]]
      /\ UNCHANGED <<fees, registry, pairs, outer>>

\* Mutant: the address of the new pair is not handed back.
InstantiatedUnnamed(p) == [frame EXCEPT !.pc = "initialize"]
Instantiated(p) == [frame EXCEPT !.pc = "initialize", !.pair = p]

\* The host puts the pair at an address nobody uses, if it knows the code.
Instantiate(p) ==
  /\ At("instantiate")
  /\ pairCodeHash[frame.f] = PairCode /\ PairCode \in codes
  /\ Free(p)
  /\ pairs' = [pairs EXCEPT ![p] = DeployedBy(frame.f)]
  /\ frame' = Instantiated(p)
  /\ UNCHANGED <<fees, registry, saved, outer>>

\* Foreign code behind the hash: its constructor runs, and then its answer to
\* initialize, with nothing of the factory between them.
InstantiateForeign(p) ==
  LET hash == pairCodeHash[frame.f]
      back == [frame EXCEPT !.pc = "set01", !.pair = p]
  IN  /\ At("instantiate")
      /\ hash \in Foreign
      /\ Free(p)
      /\ Len(outer) < MaxDepth
      /\ pairs' = [pairs EXCEPT ![p] = [NoPair EXCEPT !.code = hash]]
      /\ outer' = Append(outer, [frame |-> back, saved |-> saved])
      /\ frame' = Idle
      /\ saved' = NoCheckpoint
      /\ UNCHANGED <<fees, registry>>

\* The foreign code is done, and the inmost createPair goes on, or fails.
Resume ==
  LET inmost == outer[Len(outer)]
  IN  /\ frame = Idle
      /\ outer # <<>>
      /\ frame' = inmost.frame
      /\ saved' = inmost.saved
      /\ outer' = SubSeq(outer, 1, Len(outer) - 1)
      /\ UNCHANGED <<fees, registry, pairs>>

CallInitialize ==
  /\ At("initialize")
  /\ CanInitialize(pairs[frame.pair])
  /\ pairs' = [pairs EXCEPT ![frame.pair] =
                 Initialized(pairs[frame.pair], frame.token0, frame.token1)]
  /\ Goto("set01")
  /\ UNCHANGED <<fees, registry, saved, outer>>

\* A revert, a trap or the end of the gas: the host undoes the call.
Undo ==
  /\ feeTo' = saved.feeTo
  /\ feeToSetter' = saved.feeToSetter
  /\ pairCodeHash' = saved.pairCodeHash
  /\ getPair' = saved.getPair
  /\ allPairs' = saved.allPairs
  /\ factories' = saved.factories
  /\ pairs' = saved.pairs
  /\ codes' = saved.codes
  /\ frame' = Idle
  /\ saved' = NoCheckpoint
  /\ UNCHANGED outer

\* Mutant: createPair goes on when initialize has failed.
InitializeIgnored ==
  /\ At("initialize")
  /\ Goto("set01")
  /\ UNCHANGED <<fees, registry, pairs, saved, outer>>

InitializeFails == At("initialize") /\ Undo

SetPair(f, a, b, p) == getPair' = [getPair EXCEPT ![f][a][b] = p]

SetPair01 ==
  /\ At("set01")
  /\ SetPair(frame.f, frame.token0, frame.token1, frame.pair)
  /\ Goto("set10")
  /\ UNCHANGED <<fees, allPairs, pairs, saved, outer>>

\* Mutant: the second set_pair repeats the order of the first.
SetPair01Again ==
  /\ At("set10")
  /\ SetPair(frame.f, frame.token0, frame.token1, frame.pair)
  /\ Goto("push")
  /\ UNCHANGED <<fees, allPairs, pairs, saved, outer>>

SetPair10 ==
  /\ At("set10")
  /\ SetPair(frame.f, frame.token1, frame.token0, frame.pair)
  /\ Goto("push")
  /\ UNCHANGED <<fees, allPairs, pairs, saved, outer>>

\* Mutant: the length of the array is the one read before the calls.
PushStale ==
  /\ At("push")
  /\ allPairs' = [allPairs EXCEPT ![frame.f] = Append(saved.allPairs[frame.f], frame.pair)]
  /\ frame' = Idle
  /\ saved' = NoCheckpoint
  /\ UNCHANGED <<fees, getPair, pairs, outer>>

\* all_pairs_push, and the call returns.
Push ==
  /\ At("push")
  /\ allPairs' = [allPairs EXCEPT ![frame.f] = Append(allPairs[frame.f], frame.pair)]
  /\ frame' = Idle
  /\ saved' = NoCheckpoint
  /\ UNCHANGED <<fees, getPair, pairs, outer>>

Revert == frame # Idle /\ Undo

-----------------------------------------------------------------------------
Init ==
  /\ feeTo = [f \in Factories |-> Zero]
  /\ feeToSetter = [f \in Factories |-> Zero]
  /\ pairCodeHash = [f \in Factories |-> NoHash]
  /\ getPair = [f \in Factories |-> [a \in Tokens |-> [b \in Tokens |-> Zero]]]
  /\ allPairs = [f \in Factories |-> <<>>]
  /\ factories = {}
  /\ pairs = [p \in PairAddrs |-> NoPair]
  /\ codes = Foreign
  /\ frame = Idle
  /\ saved = NoCheckpoint
  /\ outer = <<>>

Deployments ==
  \/ \E c \in Accounts, p \in PairAddrs : DeployPair(c, p)
  \/ \E f \in Factories, c \in Accounts \cup {Zero}, h \in CodeHashes : DeployFactory(f, c, h)
  \/ \E f \in Factories : DeployFactoryBare(f)

Calls ==
  \/ \E p \in PairAddrs, a, b \in Tokens : Initialize(p, a, b)
  \/ \E f \in Factories, c \in Accounts, d \in Accounts \cup {Zero} : SetFeeTo(f, c, d)
  \/ \E f \in Factories, c \in Accounts, d \in Accounts \cup {Zero} : SetFeeToSetter(f, c, d)
  \/ \E f \in Factories, a, b \in Tokens : CreatePair(f, a, b)

CallStep ==
  \/ \E p \in PairAddrs : Instantiate(p) \/ InstantiateForeign(p)
  \/ Resume
  \/ CallInitialize \/ InitializeFails
  \/ SetPair01 \/ SetPair10 \/ Push \/ Revert

Next == Deployments \/ Calls \/ CallStep

Spec == Init /\ [][Next]_vars

-----------------------------------------------------------------------------
PairRecords ==
  [code : CodeHashes, factory : Accounts \cup Factories \cup {Zero},
   token0 : Tokens, token1 : Tokens]

Maps == [Tokens -> [Tokens -> PairAddrs \cup {Zero}]]

Checkpoints ==
  [feeTo : [Factories -> Accounts \cup {Zero}],
   feeToSetter : [Factories -> Accounts \cup {Zero}],
   pairCodeHash : [Factories -> CodeHashes],
   getPair : [Factories -> Maps], allPairs : [Factories -> Seq(PairAddrs)],
   factories : SUBSET Factories,
   pairs : [PairAddrs -> PairRecords], codes : SUBSET CodeHashes]

\* A createPair that knows the address of its pair, and one that does not yet.
Named(pcs) ==
  [pc : pcs, f : Factories, token0 : Tokens, token1 : Tokens, pair : PairAddrs]
Frames ==
  [pc : {"instantiate"}, f : Factories, token0 : Tokens, token1 : Tokens, pair : {Zero}]
    \cup Named({"initialize", "set01", "set10", "push"})

TypeOK ==
  /\ Checkpoint \in Checkpoints
  /\ frame = Idle \/ frame \in Frames
  /\ frame # Idle => saved \in Checkpoints
  /\ outer \in Seq([frame : Named({"set01"}), saved : Checkpoints])

\* Factories whose stored hash is that of the pair.
Honest(s, f) == s.pairCodeHash[f] = PairCode

\* Each pair in the allPairs of a factory that stores the hash of the pair's
\* code belongs to this factory, has two different tokens in ascending order,
\* neither the zero address, is what getPair returns for them, and is listed
\* once: neither the public initialize, nor a createPair that fails half way,
\* nor foreign code that runs inside the createPairs of other factories leaves
\* a pair that its registry describes wrongly (factory.rs:198-233,
\* pair.rs:266-292).
ListedPairsMatch ==
  \A f \in Factories : Honest(Checkpoint, f) => \A i \in DOMAIN allPairs[f] :
    LET p == allPairs[f][i]
    IN  /\ pairs[p].code = PairCode /\ pairs[p].factory = f
        /\ pairs[p].token0 # Zero /\ pairs[p].token0 < pairs[p].token1
        /\ getPair[f][pairs[p].token0][pairs[p].token1] = p
        /\ \A j \in DOMAIN allPairs[f] : allPairs[f][j] = p => j = i

\* Whenever no createPair is between two of its writes, getPair answers the
\* same for both orders of two tokens, and what it returns is listed in
\* allPairs: for every factory, one whose createPair ran foreign code that
\* called back included (factory.rs:187-233).
GetPairMatches ==
  frame = Idle =>
    \A f \in Factories, a, b \in Tokens :
      /\ getPair[f][a][b] = getPair[f][b][a]
      /\ getPair[f][a][b] # Zero =>
           \E i \in DOMAIN allPairs[f] : allPairs[f][i] = getPair[f][a][b]

\* The state of the chain without the effects of an unfinished createPair.
Committed ==
  IF outer # <<>> THEN outer[1].saved ELSE IF frame = Idle THEN Checkpoint ELSE saved

\* The step takes back the createPair in progress.
Undone == frame # Idle /\ Checkpoint' = saved

\* Every element of the arrays keeps its place, and the pairs that factories
\* with the hash of the pair's code have listed keep their factory and tokens.
KeepsPairs(s, t) ==
  \A f \in Factories : \A i \in DOMAIN s.allPairs[f] :
    /\ i \in DOMAIN t.allPairs[f] /\ t.allPairs[f][i] = s.allPairs[f][i]
    /\ Honest(s, f) => t.pairs[s.allPairs[f][i]] = s.pairs[s.allPairs[f][i]]

\* No step but one that takes back a call loses a listed pair, and none loses
\* one that was there before the outermost call in progress: createPair never
\* replaces or drops an element, although foreign code inside it may add some
\* to the same array, and initialize never touches a listed pair
\* (factory.rs:82-89, 187-189, 233, pair.rs:270-273).
ListedForEver ==
  [][/\ Undone \/ KeepsPairs(Checkpoint, Checkpoint')
     /\ KeepsPairs(Committed, Committed')]_vars

KeepsRenounced(s, t) ==
  \A f \in s.factories : s.feeToSetter[f] = Zero =>
    t.feeTo[f] = s.feeTo[f] /\ t.feeToSetter[f] = Zero

\* A deployed factory whose setter is the zero address (deployed without
\* arguments, or given up with setFeeToSetter(0)) never changes its fee
\* addresses again, whoever calls it (factory.rs:110-112, 243-245, 266-268),
\* unless the call is undone that gave it up.
RenouncedForEver ==
  [][/\ Undone \/ KeepsRenounced(Checkpoint, Checkpoint')
     /\ KeepsRenounced(Committed, Committed')]_vars

=============================================================================
