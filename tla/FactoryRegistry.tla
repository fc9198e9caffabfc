-------------------------- MODULE FactoryRegistry --------------------------
(***************************************************************************)
(* Factory implements PairRegistry.  The factories that store the hash of  *)
(* the pair's code are the open ones; the createPair of any other factory  *)
(* is a foreign call, which begins at the state it would be undone to.     *)
(***************************************************************************)
EXTENDS Factory

Records(s, f) ==
  {[factory |-> f, tokens |-> {s.pairs[p].token0, s.pairs[p].token1}, pair |-> p] :
     p \in {s.allPairs[f][i] : i \in DOMAIN s.allPairs[f]}}

\* The registry that a state of the chain describes.
Open(s) == {f \in Factories : Honest(s, f)}
Created(s) == UNION {Records(s, f) : f \in Open(s)}
Described(s) ==
  [created |-> Created(s), open |-> Open(s), feeTo |-> s.feeTo,
   feeToSetter |-> s.feeToSetter, deployed |-> s.factories]

\* The states at which the foreign calls in progress began.
Suspended == [i \in DOMAIN outer |-> Described(outer[i].saved)]
Snapshots ==
  IF frame = Idle \/ Honest(Checkpoint, frame.f)
    THEN Suspended ELSE Append(Suspended, Described(saved))

Registry == INSTANCE PairRegistry WITH
  created <- Created(Checkpoint),
  open <- Open(Checkpoint),
  deployed <- factories,
  snapshots <- Snapshots

\* The factories that store the hash of the pair's code are a registry: a
\* createPair of theirs that returns adds exactly one pair for two new tokens
\* in one step, one that fails adds nothing, only the setter moves the fee
\* addresses, and no pair leaves unless a foreign call around all this is
\* taken back: what the code behind other hashes does inside a createPair
\* makes no other change (factory.rs:107-136, 175-281).
ImplementsRegistry == Registry!Spec

=============================================================================
