--------------------------- MODULE FactoryProofs ---------------------------
(***************************************************************************)
(* What holds of Factory for every number of factories, pairs and tokens,  *)
(* and every depth of foreign code in createPair.                          *)
(*                                                                         *)
(* The argument: at every step the arrays of the honest factories, those   *)
(* that store the hash of the pair's code, describe their pairs rightly,   *)
(* and getPair is right but for the two tokens of the createPair between   *)
(* its writes.  Each step but the undoing of a call keeps what earlier     *)
(* states have listed (Kept, a preorder), so each state a createPair may   *)
(* be taken back to is kept by the states after it (Chain).                *)
(***************************************************************************)
EXTENDS FactoryRegistry, DeployNative, TLAPS

\* The record of a pair that createPair has initialized.
Complete(f, t0, t1) == Initialized(DeployedBy(f), t0, t1)

With(g, f, a, b, p) == [g EXCEPT ![f][a][b] = p]

\* ListedPairsMatch and GetPairMatches of a checkpoint.
Entry(s, f, i, p) ==
  /\ s.pairs[p].code = PairCode /\ s.pairs[p].factory = f
  /\ s.pairs[p].token0 # Zero /\ s.pairs[p].token0 < s.pairs[p].token1
  /\ s.getPair[f][s.pairs[p].token0][s.pairs[p].token1] = p
  /\ \A j \in DOMAIN s.allPairs[f] : s.allPairs[f][j] = p => j = i

ListedIn(s) ==
  \A f \in Factories : Honest(s, f) =>
    \A i \in DOMAIN s.allPairs[f] : Entry(s, f, i, s.allPairs[f][i])

MappedAt(s, f, a, b) ==
  /\ s.getPair[f][a][b] = s.getPair[f][b][a]
  /\ s.getPair[f][a][b] # Zero =>
       \E i \in DOMAIN s.allPairs[f] : s.allPairs[f][i] = s.getPair[f][a][b]

MappedIn(s) == \A f \in Factories, a, b \in Tokens : MappedAt(s, f, a, b)

\* The slots of a factory that is not there are empty.
Undeployed(s) ==
  \A f \in Factories \ s.factories :
    s.pairCodeHash[f] = NoHash /\ s.feeToSetter[f] = Zero /\ s.allPairs[f] = <<>>

Consistent(s) == ListedIn(s) /\ MappedIn(s) /\ Undeployed(s)

\* What a later state keeps of an earlier one.
Kept(s, t) ==
  /\ KeepsPairs(s, t) /\ KeepsRenounced(s, t)
  /\ s.factories \subseteq t.factories
  /\ \A f \in Factories : s.pairCodeHash[f] # NoHash => t.pairCodeHash[f] = s.pairCodeHash[f]

\* The state that the calls in progress have committed to each other.
Base == IF frame = Idle THEN Checkpoint ELSE saved

Chain ==
  /\ Kept(Base, Checkpoint)
  /\ \A i \in DOMAIN outer : Kept(outer[i].saved, Base)
  /\ \A i, j \in DOMAIN outer : i <= j => Kept(outer[i].saved, outer[j].saved)

\* The createPairs suspended in foreign code.
Waiting ==
  \A i \in DOMAIN outer :
    /\ Consistent(outer[i].saved)
    /\ outer[i].frame.token0 # Zero /\ outer[i].frame.token0 < outer[i].frame.token1
    /\ outer[i].saved.pairCodeHash[outer[i].frame.f] \in Foreign

Both(fr, f, a, b) ==
  f = fr.f /\ ((a = fr.token0 /\ b = fr.token1) \/ (a = fr.token1 /\ b = fr.token0))

\* The createPair in progress: getPair may be wrong for its two tokens only.
Underway ==
  frame # Idle =>
    /\ Consistent(saved)
    /\ frame.token0 # Zero /\ frame.token0 < frame.token1
    /\ pairCodeHash[frame.f] # NoHash
    /\ saved.pairCodeHash[frame.f] = pairCodeHash[frame.f]
    /\ \A f \in Factories, a, b \in Tokens :
         ~Both(frame, f, a, b) => MappedAt(Checkpoint, f, a, b)
    /\ frame.pc \in {"instantiate", "initialize", "set01"} => MappedIn(Checkpoint)
    /\ frame.pc \in {"set10", "push"} =>
         getPair[frame.f][frame.token0][frame.token1] = frame.pair
    /\ frame.pc = "push" => getPair[frame.f][frame.token1][frame.token0] = frame.pair

\* One of an honest factory: its pair is new, complete, and not yet listed.
Fresh ==
  frame # Idle =>
    /\ frame.pc = "initialize" => Honest(Checkpoint, frame.f)
    /\ Honest(Checkpoint, frame.f) =>
         /\ frame.pc \in {"instantiate", "initialize", "set01"} =>
              getPair[frame.f][frame.token0][frame.token1] = Zero
         /\ frame.pc # "instantiate" =>
              /\ \A i \in DOMAIN allPairs[frame.f] : allPairs[frame.f][i] # frame.pair
              /\ pairs[frame.pair] = IF frame.pc = "initialize" THEN DeployedBy(frame.f)
                                     ELSE Complete(frame.f, frame.token0, frame.token1)

IInv ==
  /\ TypeOK
  /\ ListedIn(Checkpoint) /\ Undeployed(Checkpoint)
  /\ frame = Idle => MappedIn(Checkpoint)
  /\ Underway /\ Fresh
  /\ Waiting /\ Chain

-----------------------------------------------------------------------------
\* sort_tokens (factory.rs:286-292) returns two different tokens in order.
LEMMA SortTokens ==
  ASSUME NEW a \in Tokens, NEW b \in Tokens, a # b
  PROVE  /\ sort_tokens(a, b)[1] \in Tokens /\ sort_tokens(a, b)[2] \in Tokens
         /\ sort_tokens(a, b)[1] < sort_tokens(a, b)[2]
BY FactoryAssumption DEF sort_tokens

\* The idle frame is no frame of a createPair in progress.
LEMMA IdleApart == Idle \notin Frames /\ Idle.pc = "idle"
BY DEF Idle, Frames, Named

\* A suspended createPair goes on as one in progress.
LEMMA NamedFrames == \A fr \in Named({"set01"}) : fr \in Frames
BY DEF Frames, Named

\* What a frame is made of.
LEMMA FrameParts ==
  ASSUME NEW fr \in Frames
  PROVE  /\ fr.f \in Factories /\ fr.token0 \in Tokens /\ fr.token1 \in Tokens
         /\ fr.pc \in {"instantiate", "initialize", "set01", "set10", "push"}
         /\ fr.pair \in PairAddrs \cup {Zero}
         /\ fr.pc # "instantiate" => fr \in Named({"initialize", "set01", "set10", "push"})
         /\ fr.pc # "instantiate" => fr.pair \in PairAddrs
BY DEF Frames, Named

\* initialize keeps a pair's record a record.
LEMMA InitializedType ==
  ASSUME NEW r \in PairRecords, NEW a \in Tokens, NEW b \in Tokens
  PROVE  Initialized(r, a, b) \in PairRecords
BY DEF Initialized, PairRecords

\* What TypeOK says of the parts of the checkpoint.
LEMMA TypeParts ==
  TypeOK <=> /\ feeTo \in [Factories -> Accounts \cup {Zero}]
             /\ feeToSetter \in [Factories -> Accounts \cup {Zero}]
             /\ pairCodeHash \in [Factories -> CodeHashes]
             /\ factories \subseteq Factories
             /\ codes \subseteq CodeHashes
             /\ getPair \in [Factories -> Maps]
             /\ allPairs \in [Factories -> Seq(PairAddrs)]
             /\ pairs \in [PairAddrs -> PairRecords]
             /\ frame = Idle \/ frame \in Frames
             /\ frame # Idle => saved \in Checkpoints
             /\ outer \in Seq([frame : Named({"set01"}), saved : Checkpoints])
BY DEF TypeOK, Checkpoint, Checkpoints

\* A checkpoint is made of its parts.
LEMMA Rebuilt ==
  ASSUME NEW s \in Checkpoints
  PROVE  s = [feeTo |-> s.feeTo, feeToSetter |-> s.feeToSetter,
              pairCodeHash |-> s.pairCodeHash, getPair |-> s.getPair,
              allPairs |-> s.allPairs, factories |-> s.factories,
              pairs |-> s.pairs, codes |-> s.codes]
BY DEF Checkpoints

\* Undo restores the checkpoint.
LEMMA UndoRestores ==
  ASSUME TypeOK, frame # Idle, Undo
  PROVE  Checkpoint' = saved /\ saved \in Checkpoints
BY Rebuilt DEF TypeOK, Undo, Checkpoint

\* The last element of a sequence, and the sequence without it.
LEMMA LastOf ==
  ASSUME NEW T, NEW q \in Seq(T), q # <<>>
  PROVE  /\ Len(q) \in Nat \ {0} /\ DOMAIN q = 1 .. Len(q)
         /\ q[Len(q)] \in T
         /\ SubSeq(q, 1, Len(q) - 1) \in Seq(T)
         /\ DOMAIN SubSeq(q, 1, Len(q) - 1) = 1 .. Len(q) - 1
         /\ \A i \in 1 .. Len(q) - 1 : SubSeq(q, 1, Len(q) - 1)[i] = q[i]
<1>1. Len(q) \in Nat /\ DOMAIN q = 1 .. Len(q) /\ \A i \in 1 .. Len(q) : q[i] \in T
  OBVIOUS
<1>2. Len(q) # 0
  OBVIOUS
<1>3. SubSeq(q, 1, Len(q) - 1) = [i \in 1 .. Len(q) - 1 |-> q[i]]
  BY <1>1, <1>2
<1> QED
  BY <1>1, <1>2, <1>3

\* A sequence with an element appended.
LEMMA Appended ==
  ASSUME NEW T, NEW q \in Seq(T), NEW e \in T
  PROVE  /\ Append(q, e) \in Seq(T) /\ Len(q) \in Nat /\ Len(Append(q, e)) = Len(q) + 1
         /\ DOMAIN q = 1 .. Len(q) /\ DOMAIN Append(q, e) = 1 .. Len(q) + 1
         /\ Append(q, e)[Len(q) + 1] = e
         /\ \A i \in 1 .. Len(q) : Append(q, e)[i] = q[i]
OBVIOUS

\* Every step that is not part of a createPair keeps the types.
LEMMA TypeOutside ==
  ASSUME TypeOK, Deployments \/ Calls
  PROVE  TypeOK'
<1> USE DEF TypeOK, Checkpoint, Checkpoints, calls
<1>1. ASSUME NEW c \in Accounts, NEW p \in PairAddrs, DeployPair(c, p)
      PROVE  TypeOK'
  <2>1. DeployedBy(c) \in PairRecords
    BY FactoryAssumption DEF DeployedBy, NoPair, PairRecords, Zero
  <2>2. pairs' \in [PairAddrs -> PairRecords]
    BY <1>1, <2>1 DEF DeployPair
  <2>3. codes' \subseteq CodeHashes
    BY <1>1, FactoryAssumption DEF DeployPair
  <2> QED
    BY <1>1, <2>2, <2>3 DEF DeployPair, registry
<1>2. ASSUME NEW f \in Factories, NEW c \in Accounts \cup {Zero}, NEW h \in CodeHashes,
             DeployFactory(f, c, h)
      PROVE  TypeOK'
  BY <1>2 DEF DeployFactory, registry
<1>3. ASSUME NEW f \in Factories, DeployFactoryBare(f)
      PROVE  TypeOK'
  BY <1>3 DEF DeployFactoryBare, registry
<1>4. ASSUME NEW p \in PairAddrs, NEW a \in Tokens, NEW b \in Tokens, Initialize(p, a, b)
      PROVE  TypeOK'
  <2>1. Initialized(pairs[p], a, b) \in PairRecords
    BY TypeParts, InitializedType
  <2>2. pairs' \in [PairAddrs -> PairRecords]
    BY <1>4, <2>1 DEF Initialize
  <2> QED
    BY <1>4, <2>2 DEF Initialize, fees, registry
<1>5. ASSUME NEW f \in Factories, NEW c \in Accounts, NEW d \in Accounts \cup {Zero},
             SetFeeTo(f, c, d) \/ SetFeeToSetter(f, c, d)
      PROVE  TypeOK'
  <2>1. CASE SetFeeTo(f, c, d)
    BY <2>1 DEF SetFeeTo, registry
  <2>2. CASE SetFeeToSetter(f, c, d)
    BY <2>2 DEF SetFeeToSetter, registry
  <2> QED
    BY <1>5, <2>1, <2>2
<1>6. ASSUME NEW f \in Factories, NEW a \in Tokens, NEW b \in Tokens, CreatePair(f, a, b)
      PROVE  TypeOK'
  <2>1. frame' \in Frames
    BY <1>6, SortTokens DEF CreatePair, Frames, Idle
  <2> QED
    BY <1>6, <2>1 DEF CreatePair, fees, registry
<1> QED
  BY <1>1, <1>2, <1>3, <1>4, <1>5, <1>6 DEF Deployments, Calls

\* An entry of a getPair map may be replaced by a pair.
LEMMA WithType ==
  ASSUME NEW g \in [Factories -> Maps], NEW f \in Factories,
         NEW a \in Tokens, NEW b \in Tokens, NEW p \in PairAddrs \cup {Zero}
  PROVE  With(g, f, a, b, p) \in [Factories -> Maps]
BY DEF With, Maps

\* Every step of a createPair keeps the types.
LEMMA TypeInside ==
  ASSUME TypeOK, CallStep
  PROVE  TypeOK'
<1> USE DEF At, Goto
<1>1. ASSUME NEW p \in PairAddrs, Instantiate(p)
      PROVE  TypeOK'
  <2>1. frame \in Frames
    BY <1>1, IdleApart DEF Instantiate, Instantiated, TypeOK
  <2>2. DeployedBy(frame.f) \in PairRecords
    BY <2>1, FrameParts, FactoryAssumption DEF DeployedBy, NoPair, PairRecords, Zero
  <2>3. pairs' \in [PairAddrs -> PairRecords]
    BY <1>1, <2>2, TypeParts DEF Instantiate
  <2>4. frame' \in Frames
    BY <1>1, <2>1 DEF Instantiate, Instantiated, Frames, Named
  <2> QED
    BY <1>1, <2>1, <2>3, <2>4, IdleApart
    DEF Instantiate, Instantiated, fees, registry, TypeOK, Checkpoint, Checkpoints
<1>2. ASSUME NEW p \in PairAddrs, InstantiateForeign(p)
      PROVE  TypeOK'
  <2>1. frame \in Frames /\ frame # Idle
    BY <1>2, IdleApart DEF InstantiateForeign, TypeOK
  <2>2. [NoPair EXCEPT !.code = pairCodeHash[frame.f]] \in PairRecords
    BY <2>1, FrameParts, TypeParts, FactoryAssumption DEF NoPair, PairRecords, Zero
  <2>3. pairs' \in [PairAddrs -> PairRecords]
    BY <1>2, <2>2, TypeParts DEF InstantiateForeign
  <2>4. [frame EXCEPT !.pc = "set01", !.pair = p] \in Named({"set01"})
    BY <2>1 DEF Frames, Named
  <2>5. outer' \in Seq([frame : Named({"set01"}), saved : Checkpoints])
    <3>1. [frame |-> [frame EXCEPT !.pc = "set01", !.pair = p], saved |-> saved]
             \in [frame : Named({"set01"}), saved : Checkpoints]
      BY <2>1, <2>4, TypeParts
    <3> QED
      BY <1>2, <3>1, TypeParts, Appended DEF InstantiateForeign
  <2> QED
    BY <1>2, <2>3, <2>5 DEF InstantiateForeign, fees, registry, TypeOK, Checkpoint, Checkpoints
<1>3. CASE Resume
  <2> DEFINE T == [frame : Named({"set01"}), saved : Checkpoints]
  <2>1. outer \in Seq(T) /\ outer # <<>>
    BY <1>3 DEF Resume, TypeOK
  <2> HIDE DEF T
  <2>2. outer[Len(outer)] \in T /\ SubSeq(outer, 1, Len(outer) - 1) \in Seq(T)
    BY <2>1, LastOf
  <2> USE DEF T
  <2>3. outer' \in Seq([frame : Named({"set01"}), saved : Checkpoints])
    BY <1>3, <2>2 DEF Resume
  <2>4. frame' \in Frames /\ saved' \in Checkpoints
    BY <1>3, <2>2, NamedFrames DEF Resume
  <2> QED
    BY <1>3, <2>3, <2>4 DEF Resume, fees, registry, TypeOK, Checkpoint, Checkpoints
<1>4. CASE CallInitialize
  <2>1. frame \in Frames
    BY <1>4, IdleApart DEF CallInitialize, TypeOK
  <2>2. pairs' \in [PairAddrs -> PairRecords]
    <3>1. frame.pair \in PairAddrs
      BY <1>4, <2>1, FrameParts DEF CallInitialize
    <3>2. Initialized(pairs[frame.pair], frame.token0, frame.token1) \in PairRecords
      BY <2>1, <3>1, TypeParts, FrameParts, InitializedType
    <3> QED
      BY <1>4, <3>1, <3>2, TypeParts DEF CallInitialize
  <2>3. frame' \in Frames
    BY <1>4, <2>1 DEF CallInitialize, Frames, Named
  <2> QED
    BY <1>4, <2>1, <2>2, <2>3, IdleApart
    DEF CallInitialize, fees, registry, TypeOK, Checkpoint, Checkpoints
<1>5. CASE Undo /\ frame # Idle
  BY <1>5, UndoRestores DEF Undo, TypeOK
<1>6. CASE SetPair01 \/ SetPair10
  <2>1. frame \in Frames
    BY <1>6, IdleApart DEF SetPair01, SetPair10, TypeOK
  <2>2. getPair' \in [Factories -> Maps]
    <3>1. frame.f \in Factories /\ frame.token0 \in Tokens /\ frame.token1 \in Tokens
          /\ frame.pair \in PairAddrs \cup {Zero}
      BY <2>1, FrameParts
    <3>2. CASE SetPair01
      BY <3>1, <3>2, TypeParts, WithType DEF SetPair01, SetPair, With
    <3>3. CASE SetPair10
      BY <3>1, <3>3, TypeParts, WithType DEF SetPair10, SetPair, With
    <3> QED
      BY <1>6, <3>2, <3>3
  <2>3. frame' \in Frames
    BY <1>6, <2>1 DEF SetPair01, SetPair10, Frames, Named
  <2> QED
    BY <1>6, <2>1, <2>2, <2>3, IdleApart
    DEF SetPair01, SetPair10, fees, TypeOK, Checkpoint, Checkpoints
<1>7. CASE Push
  <2>1. frame \in Frames
    BY <1>7, IdleApart DEF Push, TypeOK
  <2>2. allPairs' \in [Factories -> Seq(PairAddrs)]
    BY <1>7, <2>1, FrameParts, TypeParts DEF Push
  <2> QED
    BY <1>7, <2>2 DEF Push, fees, TypeOK, Checkpoint, Checkpoints
<1> QED
  BY <1>1, <1>2, <1>3, <1>4, <1>5, <1>6, <1>7, IdleApart
  DEF CallStep, InitializeFails, Revert

-----------------------------------------------------------------------------
\* Kept is a preorder.
LEMMA KeptReflexive == \A s : Kept(s, s)
BY DEF Kept, KeepsPairs, KeepsRenounced

LEMMA KeptTransitive ==
  ASSUME NEW s, NEW t, NEW u, Kept(s, t), Kept(t, u)
  PROVE  Kept(s, u)
<1>1. ASSUME NEW f \in Factories, Honest(s, f)
      PROVE  Honest(t, f)
  BY <1>1, FactoryAssumption DEF Honest, Kept
<1>2. KeepsPairs(s, u)
  <2>1. ASSUME NEW f \in Factories, NEW i \in DOMAIN s.allPairs[f]
        PROVE  /\ i \in DOMAIN u.allPairs[f] /\ u.allPairs[f][i] = s.allPairs[f][i]
               /\ Honest(s, f) => u.pairs[s.allPairs[f][i]] = s.pairs[s.allPairs[f][i]]
    <3>1. /\ i \in DOMAIN t.allPairs[f] /\ t.allPairs[f][i] = s.allPairs[f][i]
          /\ Honest(s, f) => t.pairs[s.allPairs[f][i]] = s.pairs[s.allPairs[f][i]]
      BY DEF Kept, KeepsPairs
    <3>2. /\ i \in DOMAIN u.allPairs[f] /\ u.allPairs[f][i] = t.allPairs[f][i]
          /\ Honest(t, f) => u.pairs[t.allPairs[f][i]] = t.pairs[t.allPairs[f][i]]
      BY <3>1 DEF Kept, KeepsPairs
    <3> QED
      BY <1>1, <3>1, <3>2
  <2> QED
    BY <2>1 DEF KeepsPairs
<1>3. KeepsRenounced(s, u) /\ s.factories \subseteq u.factories
  BY DEF Kept, KeepsRenounced
<1>4. \A f \in Factories : s.pairCodeHash[f] # NoHash => u.pairCodeHash[f] = s.pairCodeHash[f]
  BY DEF Kept
<1> QED
  BY <1>2, <1>3, <1>4 DEF Kept

\* A change that leaves the arrays, the setters, the hashes and the records of
\* initialized pairs alone keeps what is listed.
LEMMA RecordsChange ==
  ASSUME NEW s \in Checkpoints, NEW t, ListedIn(s),
         t.getPair = s.getPair, t.allPairs = s.allPairs, t.pairCodeHash = s.pairCodeHash,
         \A p \in PairAddrs :
           s.pairs[p].code = PairCode /\ s.pairs[p].token0 # Zero => t.pairs[p] = s.pairs[p]
  PROVE  ListedIn(t) /\ KeepsPairs(s, t)
<1>1. ASSUME NEW f \in Factories, Honest(s, f), NEW i \in DOMAIN s.allPairs[f]
      PROVE  /\ t.pairs[s.allPairs[f][i]] = s.pairs[s.allPairs[f][i]]
             /\ Entry(s, f, i, s.allPairs[f][i])
  <2>1. s.allPairs[f][i] \in PairAddrs
    BY DEF Checkpoints
  <2> QED
    BY <1>1, <2>1 DEF ListedIn, Entry
<1>2. ListedIn(t)
  <2>1. ASSUME NEW f \in Factories, Honest(t, f), NEW i \in DOMAIN t.allPairs[f]
        PROVE  Entry(t, f, i, t.allPairs[f][i])
    <3>1. Honest(s, f)
      BY <2>1 DEF Honest
    <3> DEFINE q == s.allPairs[f][i]
    <3>2. t.pairs[q] = s.pairs[q] /\ Entry(s, f, i, q)
      BY <1>1, <3>1
    <3> HIDE DEF q
    <3>3. Entry(t, f, i, q)
      BY <3>2 DEF Entry
    <3> QED
      BY <3>3 DEF q
  <2> QED
    BY <2>1 DEF ListedIn
<1>3. KeepsPairs(s, t)
  BY <1>1 DEF KeepsPairs
<1> QED
  BY <1>2, <1>3

\* getPair and the arrays decide what is mapped.
LEMMA SameMapped ==
  ASSUME NEW s, NEW t, t.getPair = s.getPair, t.allPairs = s.allPairs
  PROVE  \A f, a, b : MappedAt(t, f, a, b) <=> MappedAt(s, f, a, b)
BY DEF MappedAt

\* The invariant of a step that is not part of a createPair.
Holds(s, t) == ListedIn(t) /\ Undeployed(t) /\ Kept(s, t)

LEMMA KeptParts ==
  ASSUME NEW s, NEW t, KeepsPairs(s, t), t.feeTo = s.feeTo, t.feeToSetter = s.feeToSetter,
         t.pairCodeHash = s.pairCodeHash, t.factories = s.factories
  PROVE  Kept(s, t)
BY DEF Kept, KeepsRenounced

\* Every step but an undoing keeps what is listed.
LEMMA OutsideHolds ==
  ASSUME TypeOK, ListedIn(Checkpoint), Undeployed(Checkpoint), Deployments \/ Calls
  PROVE  Holds(Checkpoint, Checkpoint')
<1>1. Checkpoint \in Checkpoints
  BY DEF TypeOK
<1>2. ASSUME NEW c \in Accounts, NEW p \in PairAddrs, DeployPair(c, p)
      PROVE  Holds(Checkpoint, Checkpoint')
  <2>1. \A q \in PairAddrs : pairs[q].code = PairCode => pairs'[q] = pairs[q]
    BY <1>2, FactoryAssumption, TypeParts DEF DeployPair, Free
  <2>2. UNCHANGED <<feeTo, feeToSetter, pairCodeHash, registry, factories>>
    BY <1>2 DEF DeployPair
  <2>3. ListedIn(Checkpoint') /\ KeepsPairs(Checkpoint, Checkpoint')
    BY <1>1, <2>1, <2>2, RecordsChange DEF Checkpoint, registry
  <2> QED
    BY <2>2, <2>3, KeptParts DEF Holds, Undeployed, Checkpoint, registry
<1>3. ASSUME NEW p \in PairAddrs, NEW a \in Tokens, NEW b \in Tokens, Initialize(p, a, b)
      PROVE  Holds(Checkpoint, Checkpoint')
  <2>1. \A q \in PairAddrs : pairs[q].token0 # Zero => pairs'[q] = pairs[q]
    BY <1>3, TypeParts DEF Initialize, CanInitialize
  <2>2. UNCHANGED <<fees, registry>>
    BY <1>3 DEF Initialize
  <2>3. ListedIn(Checkpoint') /\ KeepsPairs(Checkpoint, Checkpoint')
    BY <1>1, <2>1, <2>2, RecordsChange DEF Checkpoint, registry, fees
  <2> QED
    BY <2>2, <2>3, KeptParts DEF Holds, Undeployed, Checkpoint, registry, fees
<1>4. ASSUME NEW f \in Factories, NEW c \in Accounts \cup {Zero}, NEW h \in CodeHashes,
             DeployFactory(f, c, h)
      PROVE  Holds(Checkpoint, Checkpoint')
  <2>1. /\ UNCHANGED <<feeTo, registry, pairs>> /\ f \notin factories
        /\ factories' = factories \cup {f}
        /\ feeToSetter' = [feeToSetter EXCEPT ![f] = c]
        /\ pairCodeHash' = [pairCodeHash EXCEPT ![f] = h]
    BY <1>4 DEF DeployFactory
  <2>2. pairCodeHash[f] = NoHash /\ allPairs[f] = <<>>
    BY <2>1 DEF Undeployed, Checkpoint
  <2>3. \A g \in Factories \ {f} :
          pairCodeHash'[g] = pairCodeHash[g] /\ feeToSetter'[g] = feeToSetter[g]
    BY <2>1, TypeParts
  <2>4. Honest(Checkpoint, f) => FALSE
    BY <2>2, FactoryAssumption DEF Honest, Checkpoint
  <2>5. ListedIn(Checkpoint')
    <3>1. ASSUME NEW g \in Factories, Honest(Checkpoint', g), NEW i \in DOMAIN allPairs[g]
          PROVE  Entry(Checkpoint', g, i, allPairs[g][i])
      <4>1. g # f
        BY <2>2, <3>1
      <4>2. Honest(Checkpoint, g)
        BY <2>3, <3>1, <4>1 DEF Honest, Checkpoint
      <4>3. Entry(Checkpoint, g, i, allPairs[g][i])
        BY <4>2 DEF ListedIn, Checkpoint
      <4> QED
        BY <2>1, <4>3 DEF Entry, Checkpoint, registry
    <3> QED
      BY <2>1, <3>1 DEF ListedIn, Checkpoint, registry
  <2>6. Undeployed(Checkpoint')
    BY <2>1, <2>3 DEF Undeployed, Checkpoint, registry
  <2>7. Kept(Checkpoint, Checkpoint')
    <3>1. KeepsPairs(Checkpoint, Checkpoint')
      BY <2>1 DEF KeepsPairs, Checkpoint, registry
    <3>2. KeepsRenounced(Checkpoint, Checkpoint')
      BY <2>1, <2>3, TypeParts DEF KeepsRenounced, Checkpoint
    <3> QED
      BY <2>1, <2>2, <2>3, <3>1, <3>2 DEF Kept, Checkpoint
  <2> QED
    BY <2>5, <2>6, <2>7 DEF Holds
<1>5. ASSUME NEW f \in Factories, DeployFactoryBare(f)
      PROVE  Holds(Checkpoint, Checkpoint')
  <2>1. UNCHANGED <<feeTo, feeToSetter, pairCodeHash, registry, pairs>>
        /\ factories' = factories \cup {f}
    BY <1>5 DEF DeployFactoryBare
  <2>2. ListedIn(Checkpoint') /\ KeepsPairs(Checkpoint, Checkpoint')
    BY <1>1, <2>1, RecordsChange DEF Checkpoint, registry
  <2>3. Undeployed(Checkpoint')
    BY <2>1 DEF Undeployed, Checkpoint, registry
  <2>4. Kept(Checkpoint, Checkpoint')
    BY <2>1, <2>2 DEF Kept, KeepsRenounced, Checkpoint
  <2> QED
    BY <2>2, <2>3, <2>4 DEF Holds
<1>6. ASSUME NEW f \in Factories, NEW c \in Accounts, NEW d \in Accounts \cup {Zero},
             SetFeeTo(f, c, d) \/ SetFeeToSetter(f, c, d)
      PROVE  Holds(Checkpoint, Checkpoint')
  <2>1. /\ UNCHANGED <<pairCodeHash, registry, pairs, factories>>
        /\ f \in factories /\ feeToSetter[f] # Zero
    BY <1>6, FactoryAssumption DEF SetFeeTo, SetFeeToSetter, MaySet
  <2>2. \A g \in Factories \ {f} : feeTo'[g] = feeTo[g] /\ feeToSetter'[g] = feeToSetter[g]
    BY <1>6, TypeParts DEF SetFeeTo, SetFeeToSetter
  <2>3. ListedIn(Checkpoint') /\ KeepsPairs(Checkpoint, Checkpoint')
    BY <1>1, <2>1, RecordsChange DEF Checkpoint, registry
  <2>4. Undeployed(Checkpoint')
    BY <2>1, <2>2 DEF Undeployed, Checkpoint, registry
  <2>5. KeepsRenounced(Checkpoint, Checkpoint')
    BY <2>1, <2>2, TypeParts DEF KeepsRenounced, Checkpoint
  <2> QED
    BY <2>1, <2>3, <2>4, <2>5 DEF Holds, Kept, Checkpoint
<1>7. ASSUME NEW f \in Factories, NEW a \in Tokens, NEW b \in Tokens, CreatePair(f, a, b)
      PROVE  Holds(Checkpoint, Checkpoint')
  <2>1. Checkpoint' = Checkpoint
    BY <1>7 DEF CreatePair, fees, registry, Checkpoint
  <2> QED
    BY <2>1, KeptReflexive DEF Holds
<1> QED
  BY <1>2, <1>3, <1>4, <1>5, <1>6, <1>7 DEF Deployments, Calls

\* What an entry of getPair is after set_pair.
LEMMA SetPairEntry ==
  ASSUME TypeOK, NEW f \in Factories, NEW a \in Tokens, NEW b \in Tokens, NEW p,
         SetPair(f, a, b, p)
  PROVE  \A g \in Factories, c, d \in Tokens :
           getPair'[g][c][d] = IF g = f /\ c = a /\ d = b THEN p ELSE getPair[g][c][d]
<1>1. getPair \in [Factories -> Maps]
  BY TypeParts
<1> QED
  BY <1>1 DEF SetPair, Maps

\* The step of a createPair that writes getPair.
LEMMA SetPairHolds ==
  ASSUME TypeOK, ListedIn(Checkpoint), Undeployed(Checkpoint), Underway, Fresh,
         SetPair01 \/ SetPair10
  PROVE  Holds(Checkpoint, Checkpoint')
<1>1. frame \in Frames /\ frame # Idle
  BY IdleApart DEF TypeOK, SetPair01, SetPair10, At
<1>2. UNCHANGED <<fees, allPairs, pairs>>
  BY DEF SetPair01, SetPair10
<1>3. frame.f \in Factories /\ frame.token0 \in Tokens /\ frame.token1 \in Tokens
  BY <1>1, FrameParts
<1>4. /\ frame.token0 # Zero /\ frame.token0 < frame.token1
      /\ frame.token0 \in Nat /\ frame.token1 \in Nat
  BY <1>1, <1>3, FactoryAssumption DEF Underway
<1>5. ASSUME NEW f \in Factories, Honest(Checkpoint, f), NEW i \in DOMAIN allPairs[f]
      PROVE  Entry(Checkpoint', f, i, allPairs[f][i])
  <2> DEFINE q == allPairs[f][i]
             a == pairs[q].token0
             b == pairs[q].token1
  <2>1. Entry(Checkpoint, f, i, q)
    BY <1>5 DEF ListedIn, Checkpoint
  <2>2. q \in PairAddrs /\ q # Zero
    BY TypeParts, FactoryAssumption
  <2>3. a \in Tokens /\ b \in Tokens /\ a \in Nat /\ b \in Nat
    BY <2>2, TypeParts, FactoryAssumption DEF PairRecords
  <2>4. a < b /\ getPair[f][a][b] = q
    BY <2>1 DEF Entry, Checkpoint
  <2>5. getPair'[f][a][b] = q
    <3> HIDE DEF a, b, q
    <3>1. CASE SetPair01
      <4>1. ~(f = frame.f /\ a = frame.token0 /\ b = frame.token1)
        <5>1. frame.pc = "set01"
          BY <3>1 DEF SetPair01, At
        <5> QED
          BY <1>1, <1>5, <2>2, <2>4, <5>1 DEF Fresh
      <4> QED
        BY <1>3, <2>3, <2>4, <3>1, <4>1, SetPairEntry DEF SetPair01
    <3>2. CASE SetPair10
      <4>1. ~(a = frame.token1 /\ b = frame.token0)
        BY <1>4, <2>3, <2>4
      <4>2. SetPair(frame.f, frame.token1, frame.token0, frame.pair)
        BY <3>2 DEF SetPair10
      <4>3. \A g \in Factories, c, d \in Tokens :
              getPair'[g][c][d] = IF g = frame.f /\ c = frame.token1 /\ d = frame.token0
                                    THEN frame.pair ELSE getPair[g][c][d]
        BY <1>3, <4>2, SetPairEntry
      <4> QED
        BY <2>3, <2>4, <4>1, <4>3
    <3> QED
      BY <3>1, <3>2
  <2> QED
    BY <1>2, <2>1, <2>5 DEF Entry, Checkpoint
<1>6. ListedIn(Checkpoint')
  BY <1>2, <1>5 DEF ListedIn, Honest, Checkpoint, fees
<1>7. Undeployed(Checkpoint') /\ KeepsPairs(Checkpoint, Checkpoint')
  BY <1>2 DEF Undeployed, KeepsPairs, Checkpoint, fees
<1> QED
  BY <1>2, <1>6, <1>7, KeptParts DEF Holds, Checkpoint, fees

\* The step of a createPair that writes the array.
LEMMA PushHolds ==
  ASSUME TypeOK, ListedIn(Checkpoint), Undeployed(Checkpoint), Underway, Fresh, Push
  PROVE  Holds(Checkpoint, Checkpoint') /\ MappedIn(Checkpoint')
<1> DEFINE f == frame.f
           p == frame.pair
           new == Len(allPairs[f]) + 1
<1>1. frame \in Frames /\ frame # Idle /\ frame.pc = "push"
  BY IdleApart DEF TypeOK, Push, At
<1>2. /\ UNCHANGED <<fees, getPair, pairs>>
      /\ allPairs' = [allPairs EXCEPT ![f] = Append(allPairs[f], p)]
  BY DEF Push
<1>3. /\ f \in Factories /\ p \in PairAddrs /\ p # Zero
      /\ frame.token0 \in Tokens /\ frame.token1 \in Tokens
  BY <1>1, FrameParts, FactoryAssumption
<1>4. allPairs \in [Factories -> Seq(PairAddrs)] /\ pairs \in [PairAddrs -> PairRecords]
  BY TypeParts
<1>5. /\ frame.token0 # Zero /\ frame.token0 < frame.token1
      /\ getPair[f][frame.token0][frame.token1] = p
      /\ getPair[f][frame.token1][frame.token0] = p
      /\ pairCodeHash[f] # NoHash
  BY <1>1 DEF Underway
<1> HIDE DEF f, p
<1>6. ASSUME NEW g \in Factories, NEW i \in DOMAIN allPairs[g]
      PROVE  i \in DOMAIN allPairs'[g] /\ allPairs'[g][i] = allPairs[g][i]
  BY <1>2, <1>3, <1>4
<1>7. /\ \A g \in Factories : \A i \in DOMAIN allPairs'[g] :
           i \in DOMAIN allPairs[g] \/ (g = f /\ i = new)
      /\ new \in DOMAIN allPairs'[f] /\ allPairs'[f][new] = p
      /\ \A i \in DOMAIN allPairs[f] : i # new
  BY <1>2, <1>3, <1>4
<1> HIDE DEF new
<1>8. Honest(Checkpoint, f) =>
        /\ \A i \in DOMAIN allPairs[f] : allPairs[f][i] # p
        /\ pairs[p] = Complete(f, frame.token0, frame.token1)
  BY <1>1 DEF Fresh, f, p
<1>9. ASSUME NEW g \in Factories, Honest(Checkpoint, g), NEW i \in DOMAIN allPairs'[g]
      PROVE  Entry(Checkpoint', g, i, allPairs'[g][i])
  <2>1. CASE i \in DOMAIN allPairs[g]
    <3> DEFINE q == allPairs[g][i]
    <3>1. Entry(Checkpoint, g, i, q) /\ allPairs'[g][i] = q
      BY <1>6, <1>9, <2>1 DEF ListedIn, Checkpoint
    <3>2. g = f => q # p
      BY <1>8, <1>9, <2>1
    <3> HIDE DEF q
    <3>3. ASSUME NEW j \in DOMAIN allPairs'[g], allPairs'[g][j] = q
          PROVE  j = i
      <4>1. j \in DOMAIN allPairs[g]
        BY <1>7, <3>2, <3>3
      <4>2. allPairs[g][j] = q
        BY <1>6, <3>3, <4>1
      <4> QED
        BY <3>1, <4>1, <4>2 DEF Entry, Checkpoint
    <3>4. /\ pairs[q].code = PairCode /\ pairs[q].factory = g
          /\ pairs[q].token0 # Zero /\ pairs[q].token0 < pairs[q].token1
          /\ getPair[g][pairs[q].token0][pairs[q].token1] = q
      BY <3>1 DEF Entry, Checkpoint
    <3> QED
      BY <1>2, <3>1, <3>3, <3>4 DEF Entry, Checkpoint
  <2>2. CASE g = f /\ i = new
    <3>1. allPairs'[g][i] = p /\ pairs[p] = Complete(f, frame.token0, frame.token1)
      BY <1>7, <1>8, <1>9, <2>2
    <3>2. /\ pairs[p].code = PairCode /\ pairs[p].factory = f
          /\ pairs[p].token0 = frame.token0 /\ pairs[p].token1 = frame.token1
      BY <3>1 DEF Complete, Initialized, DeployedBy, NoPair
    <3>3. ASSUME NEW j \in DOMAIN allPairs'[g], allPairs'[g][j] = p
          PROVE  j = i
      <4>1. j \in DOMAIN allPairs[g] => allPairs[g][j] # p
        BY <1>8, <1>9, <2>2
      <4> QED
        BY <1>6, <1>7, <2>2, <3>3, <4>1
    <3> QED
      BY <1>2, <1>5, <2>2, <3>1, <3>2, <3>3 DEF Entry, Checkpoint
  <2> QED
    BY <1>7, <2>1, <2>2
<1>10. ListedIn(Checkpoint')
  BY <1>2, <1>9 DEF ListedIn, Honest, Checkpoint, fees
<1>11. Undeployed(Checkpoint')
  <2>1. f \in factories
    BY <1>3, <1>5 DEF Undeployed, Checkpoint
  <2> QED
    BY <1>2, <1>4, <2>1 DEF Undeployed, Checkpoint, fees
<1>12. Kept(Checkpoint, Checkpoint')
  <2>1. KeepsPairs(Checkpoint, Checkpoint')
    BY <1>2, <1>6 DEF KeepsPairs, Checkpoint
  <2> QED
    BY <1>2, <2>1, KeptParts DEF Checkpoint, fees
<1>13. MappedIn(Checkpoint')
  <2> SUFFICES ASSUME NEW g \in Factories, NEW a \in Tokens, NEW b \in Tokens
               PROVE  MappedAt(Checkpoint', g, a, b)
    BY DEF MappedIn
  <2>1. CASE ~Both(frame, g, a, b)
    <3>1. MappedAt(Checkpoint, g, a, b)
      BY <1>1, <2>1 DEF Underway
    <3> QED
      BY <1>2, <1>6, <3>1 DEF MappedAt, Checkpoint
  <2>2. CASE Both(frame, g, a, b)
    <3>1. g = f /\ getPair[g][a][b] = p /\ getPair[g][b][a] = p
      BY <1>5, <2>2 DEF Both, f
    <3> QED
      BY <1>2, <1>7, <3>1 DEF MappedAt, Checkpoint
  <2> QED
    BY <2>1, <2>2
<1> QED
  BY <1>10, <1>11, <1>12, <1>13 DEF Holds

\* The steps of a createPair that touch the record of its own pair.
LEMMA RecordHolds ==
  ASSUME TypeOK, ListedIn(Checkpoint), Undeployed(Checkpoint),
         CallInitialize \/ \E p \in PairAddrs : Instantiate(p) \/ InstantiateForeign(p)
  PROVE  Holds(Checkpoint, Checkpoint')
<1>1. UNCHANGED <<fees, registry>>
  BY DEF CallInitialize, Instantiate, InstantiateForeign
<1>2. \A q \in PairAddrs : pairs[q].code = PairCode /\ pairs[q].token0 # Zero => pairs'[q] = pairs[q]
  <2>1. CASE CallInitialize
    BY <2>1, TypeParts DEF CallInitialize, CanInitialize
  <2>2. ASSUME NEW p \in PairAddrs, Instantiate(p) \/ InstantiateForeign(p)
        PROVE  \A q \in PairAddrs : pairs[q].code = PairCode => pairs'[q] = pairs[q]
    <3>1. pairs[p].code # PairCode
      BY <2>2, FactoryAssumption DEF Instantiate, InstantiateForeign, Free
    <3>2. \A q \in PairAddrs \ {p} : pairs'[q] = pairs[q]
      <4>1. CASE Instantiate(p)
        BY <4>1, TypeParts DEF Instantiate
      <4>2. CASE InstantiateForeign(p)
        BY <4>2, TypeParts DEF InstantiateForeign
      <4> QED
        BY <2>2, <4>1, <4>2
    <3> QED
      BY <3>1, <3>2
  <2> QED
    BY <2>1, <2>2
<1>3. ListedIn(Checkpoint') /\ KeepsPairs(Checkpoint, Checkpoint')
  <2>1. Checkpoint \in Checkpoints
    BY DEF TypeOK
  <2> QED
    BY <1>1, <1>2, <2>1, RecordsChange DEF Checkpoint, registry, fees
<1> QED
  BY <1>1, <1>3, KeptParts DEF Holds, Undeployed, Checkpoint, registry, fees

-----------------------------------------------------------------------------
\* The parts of IInv in the next state.
LEMMA PrimedListed ==
  /\ ListedIn(Checkpoint)' <=> ListedIn(Checkpoint')
  /\ Undeployed(Checkpoint)' <=> Undeployed(Checkpoint')
  /\ MappedIn(Checkpoint)' <=> MappedIn(Checkpoint')
BY DEF ListedIn, Undeployed, MappedIn, MappedAt, Entry, Honest, Checkpoint

LEMMA PrimedChain ==
  Chain' <=> /\ Kept(Base', Checkpoint')
             /\ \A i \in DOMAIN outer' : Kept(outer'[i].saved, Base')
             /\ \A i, j \in DOMAIN outer' : i <= j => Kept(outer'[i].saved, outer'[j].saved)
BY DEF Chain, Kept, KeepsPairs, KeepsRenounced, Honest

LEMMA PrimedWaiting ==
  Waiting' <=>
    \A i \in DOMAIN outer' :
      /\ Consistent(outer'[i].saved)
      /\ outer'[i].frame.token0 # Zero /\ outer'[i].frame.token0 < outer'[i].frame.token1
      /\ outer'[i].saved.pairCodeHash[outer'[i].frame.f] \in Foreign
BY DEF Waiting, Consistent, ListedIn, Undeployed, MappedIn, MappedAt, Entry, Honest

LEMMA PrimedUnderway ==
  Underway' <=>
    (frame' # Idle =>
      /\ Consistent(saved')
      /\ frame'.token0 # Zero /\ frame'.token0 < frame'.token1
      /\ pairCodeHash'[frame'.f] # NoHash
      /\ saved'.pairCodeHash[frame'.f] = pairCodeHash'[frame'.f]
      /\ \A f \in Factories, a, b \in Tokens :
           ~Both(frame', f, a, b) => MappedAt(Checkpoint', f, a, b)
      /\ frame'.pc \in {"instantiate", "initialize", "set01"} => MappedIn(Checkpoint')
      /\ frame'.pc \in {"set10", "push"} =>
           getPair'[frame'.f][frame'.token0][frame'.token1] = frame'.pair
      /\ frame'.pc = "push" => getPair'[frame'.f][frame'.token1][frame'.token0] = frame'.pair)
BY DEF Underway, Consistent, ListedIn, Undeployed, MappedIn, MappedAt, Entry, Honest, Both,
       Idle, Checkpoint

-----------------------------------------------------------------------------
\* IInv holds at the start.
LEMMA InitIInv == Init => IInv
<1> SUFFICES ASSUME Init PROVE IInv
  OBVIOUS
<1>1. TypeOK
  BY FactoryAssumption, TypeParts DEF Init, Maps, NoPair, PairRecords, Zero, NoHash
<1>2. frame = Idle /\ outer = <<>>
  BY DEF Init
<1>3. Consistent(Checkpoint)
  BY FactoryAssumption
  DEF Init, Checkpoint, Consistent, ListedIn, MappedIn, MappedAt, Undeployed, Honest
<1>4. Chain /\ Waiting
  <2>1. Kept(Base, Checkpoint)
    BY <1>2, KeptReflexive DEF Base
  <2> QED
    BY <1>2, <2>1 DEF Chain, Waiting
<1> QED
  BY <1>1, <1>2, <1>3, <1>4 DEF IInv, Consistent, Underway, Fresh

\* A step that suspends and resumes no createPair.
LEMMA Assemble ==
  ASSUME IInv, TypeOK', Holds(Checkpoint, Checkpoint'), outer' = outer,
         Base' \in {Base, Checkpoint, Checkpoint'},
         frame' = Idle => MappedIn(Checkpoint'), Underway', Fresh'
  PROVE  IInv'
<1>1. Kept(Base, Checkpoint) /\ Kept(Checkpoint, Checkpoint')
  BY DEF IInv, Chain, Holds
<1>2. Kept(Base, Base') /\ Kept(Base', Checkpoint')
  BY <1>1, KeptReflexive, KeptTransitive
<1>3. \A i \in DOMAIN outer : Kept(outer[i].saved, Base')
  BY <1>2, KeptTransitive DEF IInv, Chain
<1>4. Chain'
  BY <1>2, <1>3, PrimedChain DEF IInv, Chain
<1>5. Waiting'
  BY PrimedWaiting DEF IInv, Waiting
<1>6. ListedIn(Checkpoint)' /\ Undeployed(Checkpoint)' /\ (frame' = Idle => MappedIn(Checkpoint)')
  BY PrimedListed DEF Holds
<1>7. (frame = Idle => MappedIn(Checkpoint))'
  BY <1>6 DEF Idle
<1> QED
  BY <1>4, <1>5, <1>6, <1>7 DEF IInv

\* The operations that are single steps keep IInv, and createPair begins in it.
LEMMA IInvOutside ==
  ASSUME IInv, Deployments \/ Calls
  PROVE  IInv'
<1>1. TypeOK /\ TypeOK' /\ Holds(Checkpoint, Checkpoint')
  BY TypeOutside, OutsideHolds DEF IInv
<1>2. frame = Idle /\ MappedIn(Checkpoint)
  BY DEF IInv, Deployments, Calls, DeployPair, DeployFactory, DeployFactoryBare, Initialize,
         SetFeeTo, SetFeeToSetter, CreatePair
<1>3. ASSUME UNCHANGED <<registry, calls>>
      PROVE  IInv'
  <2>1. frame' = Idle /\ outer' = outer
    BY <1>2, <1>3 DEF calls
  <2>2. Base' = Checkpoint'
    BY <2>1 DEF Base, Idle
  <2>3. MappedIn(Checkpoint')
    BY <1>2, <1>3, SameMapped DEF MappedIn, Checkpoint, registry
  <2>4. Underway' /\ Fresh'
    BY <2>1 DEF Underway, Fresh, Idle
  <2> QED
    BY <1>1, <2>1, <2>2, <2>3, <2>4, Assemble
<1>4. ASSUME NEW f \in Factories, NEW a \in Tokens, NEW b \in Tokens, CreatePair(f, a, b)
      PROVE  IInv'
  <2> DEFINE t == sort_tokens(a, b)
  <2>1. /\ t[1] \in Tokens /\ t[2] \in Tokens /\ t[1] < t[2] /\ t[1] # Zero
        /\ getPair[f][t[1]][t[2]] = Zero /\ pairCodeHash[f] # NoHash
    BY <1>4, SortTokens DEF CreatePair, NewTokens
  <2> HIDE DEF t
  <2>2. /\ frame' = [Idle EXCEPT !.pc = "instantiate", !.f = f, !.token0 = t[1], !.token1 = t[2]]
        /\ saved' = Checkpoint /\ outer' = outer /\ UNCHANGED <<fees, registry, pairs>>
    BY <1>4 DEF CreatePair, t
  <2>3. /\ frame'.pc = "instantiate" /\ frame'.f = f
        /\ frame'.token0 = t[1] /\ frame'.token1 = t[2]
    BY <2>2 DEF Idle
  <2>4. Checkpoint' = Checkpoint
    BY <2>2 DEF Checkpoint, fees, registry
  <2>5. frame' # Idle
    BY <2>3 DEF Idle
  <2>6. Base' = Checkpoint
    BY <2>2, <2>5 DEF Base, Idle
  <2>7. Consistent(Checkpoint)
    BY <1>2 DEF IInv, Consistent
  <2>8. \A g \in Factories, c, d \in Tokens : MappedAt(Checkpoint', g, c, d)
    BY <1>2, <2>4 DEF MappedIn
  <2>9. pairCodeHash' = pairCodeHash /\ getPair' = getPair
    BY <2>2 DEF fees, registry
  <2>10. saved'.pairCodeHash = pairCodeHash
    BY <2>2 DEF Checkpoint
  <2>11. Underway'
    BY <1>2, <2>1, <2>2, <2>3, <2>4, <2>7, <2>8, <2>9, <2>10, PrimedUnderway
  <2>12. Fresh'
    BY <2>1, <2>3, <2>9 DEF Fresh
  <2> QED
    BY <1>1, <2>2, <2>5, <2>6, <2>11, <2>12, Assemble
<1> QED
  BY <1>3, <1>4 DEF Deployments, Calls, DeployPair, DeployFactory, DeployFactoryBare,
     Initialize, SetFeeTo, SetFeeToSetter, fees

\* A step of a createPair that goes on.
LEMMA GoesOn ==
  ASSUME IInv, TypeOK', Holds(Checkpoint, Checkpoint'), frame # Idle, frame' # Idle,
         saved' = saved, outer' = outer, Underway', Fresh'
  PROVE  IInv'
<1>1. Base' = Base
  BY DEF Base, Idle
<1> QED
  BY <1>1, Assemble

\* createPair has an address for its pair, and calls it.
LEMMA InstantiateKeeps ==
  ASSUME IInv, NEW p \in PairAddrs, Instantiate(p)
  PROVE  IInv'
<1>1. TypeOK /\ TypeOK' /\ Holds(Checkpoint, Checkpoint')
  BY TypeInside, RecordHolds DEF IInv, CallStep
<1>2. frame \in Frames /\ frame # Idle /\ frame.pc = "instantiate"
  BY <1>1, IdleApart DEF TypeOK, Instantiate, At
<1>3. /\ frame'.pc = "initialize" /\ frame'.f = frame.f /\ frame'.pair = p
      /\ frame'.token0 = frame.token0 /\ frame'.token1 = frame.token1
  BY <1>2 DEF Instantiate, Instantiated, Frames, Named
<1>4. UNCHANGED <<fees, registry, saved, outer>> /\ pairs' = [pairs EXCEPT ![p] = DeployedBy(frame.f)]
  BY DEF Instantiate
<1>5. frame' # Idle
  BY <1>3 DEF Idle
<1>6. Honest(Checkpoint, frame.f) /\ Honest(Checkpoint', frame'.f)
  BY <1>3, <1>4 DEF Instantiate, Honest, Checkpoint, fees
<1>7. /\ \A g, c, d : MappedAt(Checkpoint', g, c, d) <=> MappedAt(Checkpoint, g, c, d)
      /\ \A g, c, d : Both(frame', g, c, d) <=> Both(frame, g, c, d)
  BY <1>3, <1>4, SameMapped DEF Checkpoint, registry, Both
<1>8. Underway
  BY DEF IInv
<1>9. pairCodeHash' = pairCodeHash /\ getPair' = getPair /\ allPairs' = allPairs
  BY <1>4 DEF fees, registry
<1>10. Underway'
  BY <1>2, <1>3, <1>4, <1>7, <1>8, <1>9, PrimedUnderway DEF Underway, MappedIn
<1>11. Fresh'
  <2>1. \A i \in DOMAIN allPairs[frame.f] : allPairs[frame.f][i] # p
    <3>1. frame.f \in Factories
      BY <1>2, FrameParts
    <3>2. pairs[p].code # PairCode
      BY FactoryAssumption DEF Instantiate, Free
    <3> QED
      BY <1>6, <3>1, <3>2 DEF IInv, ListedIn, Entry, Checkpoint
  <2>2. pairs'[p] = DeployedBy(frame.f)
    BY <1>1, <1>4, TypeParts
  <2>3. getPair[frame.f][frame.token0][frame.token1] = Zero
    BY <1>2, <1>6 DEF IInv, Fresh
  <2>4. Honest(Checkpoint, frame.f)'
    BY <1>6 DEF Honest, Checkpoint
  <2> QED
    BY <1>3, <1>9, <2>1, <2>2, <2>3, <2>4 DEF Fresh
<1> QED
  BY <1>1, <1>2, <1>4, <1>5, <1>10, <1>11, GoesOn

\* The pair takes its tokens.
LEMMA CallInitializeKeeps ==
  ASSUME IInv, CallInitialize
  PROVE  IInv'
<1>1. TypeOK /\ TypeOK' /\ Holds(Checkpoint, Checkpoint')
  BY TypeInside, RecordHolds DEF IInv, CallStep
<1>2. frame \in Frames /\ frame # Idle /\ frame.pc = "initialize"
  BY <1>1, IdleApart DEF TypeOK, CallInitialize, At
<1>3. /\ frame'.pc = "set01" /\ frame'.f = frame.f /\ frame'.pair = frame.pair
      /\ frame'.token0 = frame.token0 /\ frame'.token1 = frame.token1
  BY <1>2 DEF CallInitialize, Goto, Frames, Named
<1>4. /\ UNCHANGED <<fees, registry, saved, outer>>
      /\ pairs' = [pairs EXCEPT ![frame.pair] =
                     Initialized(pairs[frame.pair], frame.token0, frame.token1)]
  BY DEF CallInitialize
<1>5. frame' # Idle
  BY <1>3 DEF Idle
<1>6. Honest(Checkpoint, frame.f)
  BY <1>2 DEF IInv, Fresh
<1>7. /\ \A g, c, d : MappedAt(Checkpoint', g, c, d) <=> MappedAt(Checkpoint, g, c, d)
      /\ \A g, c, d : Both(frame', g, c, d) <=> Both(frame, g, c, d)
  BY <1>3, <1>4, SameMapped DEF Checkpoint, registry, Both
<1>8. Underway
  BY DEF IInv
<1>9. pairCodeHash' = pairCodeHash /\ getPair' = getPair /\ allPairs' = allPairs
  BY <1>4 DEF fees, registry
<1>10. Underway'
  BY <1>2, <1>3, <1>4, <1>7, <1>8, <1>9, PrimedUnderway DEF Underway, MappedIn
<1>11. Fresh'
  <2>1. /\ \A i \in DOMAIN allPairs[frame.f] : allPairs[frame.f][i] # frame.pair
        /\ pairs[frame.pair] = DeployedBy(frame.f)
        /\ getPair[frame.f][frame.token0][frame.token1] = Zero
    BY <1>2, <1>6 DEF IInv, Fresh
  <2>2. frame.pair \in PairAddrs
    BY <1>2, FrameParts
  <2>3. pairs'[frame.pair] = Complete(frame.f, frame.token0, frame.token1)
    BY <1>1, <1>4, <2>1, <2>2, TypeParts DEF Complete
  <2> QED
    BY <1>3, <1>9, <2>1, <2>3 DEF Fresh
<1> QED
  BY <1>1, <1>2, <1>4, <1>5, <1>10, <1>11, GoesOn

\* The two writes of getPair.
LEMMA SetPairKeeps ==
  ASSUME IInv, SetPair01 \/ SetPair10
  PROVE  IInv'
<1>1. TypeOK /\ TypeOK' /\ Holds(Checkpoint, Checkpoint')
  BY TypeInside, SetPairHolds DEF IInv, CallStep
<1>2. frame \in Frames /\ frame # Idle /\ frame.pc \in {"set01", "set10"}
  BY <1>1, IdleApart DEF TypeOK, SetPair01, SetPair10, At
<1>3. /\ frame'.pc = IF SetPair01 THEN "set10" ELSE "push"
      /\ frame'.f = frame.f /\ frame'.pair = frame.pair
      /\ frame'.token0 = frame.token0 /\ frame'.token1 = frame.token1
  BY <1>2 DEF SetPair01, SetPair10, Goto, Frames, Named
<1>4. UNCHANGED <<fees, allPairs, pairs, saved, outer>>
  BY DEF SetPair01, SetPair10
<1>5. frame' # Idle
  BY <1>3 DEF Idle
<1>6. /\ frame.f \in Factories /\ frame.token0 \in Tokens /\ frame.token1 \in Tokens
      /\ frame.token0 \in Nat /\ frame.token1 \in Nat
  BY <1>2, FrameParts, FactoryAssumption
<1>7. Underway /\ frame.token0 < frame.token1
  BY <1>2 DEF IInv, Underway
<1>8. \A g \in Factories, c, d \in Tokens :
        /\ Both(frame', g, c, d) <=> Both(frame, g, c, d)
        /\ Both(frame, g, c, d) <=> Both(frame, g, d, c)
        /\ ~Both(frame, g, c, d) => getPair'[g][c][d] = getPair[g][c][d]
  <2>1. CASE SetPair01
    BY <1>1, <1>3, <1>6, <2>1, SetPairEntry DEF SetPair01, Both
  <2>2. CASE SetPair10
    <3>1. SetPair(frame.f, frame.token1, frame.token0, frame.pair)
      BY <2>2 DEF SetPair10
    <3>2. \A g \in Factories, c, d \in Tokens :
            getPair'[g][c][d] = IF g = frame.f /\ c = frame.token1 /\ d = frame.token0
                                  THEN frame.pair ELSE getPair[g][c][d]
      BY <1>1, <1>6, <3>1, SetPairEntry
    <3> QED
      BY <1>3, <3>2 DEF Both
  <2> QED
    BY <2>1, <2>2
<1>9. \A g \in Factories, c, d \in Tokens :
        ~Both(frame', g, c, d) => MappedAt(Checkpoint', g, c, d)
  <2> SUFFICES ASSUME NEW g \in Factories, NEW c \in Tokens, NEW d \in Tokens,
                      ~Both(frame, g, c, d)
               PROVE  MappedAt(Checkpoint', g, c, d)
    BY <1>8
  <2>1. MappedAt(Checkpoint, g, c, d)
    BY <1>2, <1>7 DEF Underway
  <2>2. getPair'[g][c][d] = getPair[g][c][d] /\ getPair'[g][d][c] = getPair[g][d][c]
    BY <1>8
  <2> QED
    BY <1>4, <2>1, <2>2 DEF MappedAt, Checkpoint
<1>10. /\ getPair'[frame.f][frame.token0][frame.token1] = frame.pair
       /\ SetPair10 => getPair'[frame.f][frame.token1][frame.token0] = frame.pair
  <2>1. CASE SetPair01
    <3>1. SetPair(frame.f, frame.token0, frame.token1, frame.pair) /\ ~SetPair10
      BY <2>1 DEF SetPair01, SetPair10, At
    <3> QED
      BY <1>1, <1>6, <3>1, SetPairEntry
  <2>2. CASE SetPair10
    <3>1. SetPair(frame.f, frame.token1, frame.token0, frame.pair) /\ frame.pc = "set10"
      BY <2>2 DEF SetPair10, At
    <3>2. getPair[frame.f][frame.token0][frame.token1] = frame.pair
      BY <1>2, <1>7, <3>1 DEF Underway
    <3>3. \A g \in Factories, c, d \in Tokens :
            getPair'[g][c][d] = IF g = frame.f /\ c = frame.token1 /\ d = frame.token0
                                  THEN frame.pair ELSE getPair[g][c][d]
      BY <1>1, <1>6, <3>1, SetPairEntry
    <3> QED
      BY <1>6, <1>7, <3>2, <3>3
  <2> QED
    BY <2>1, <2>2
<1>11. pairCodeHash' = pairCodeHash
  BY <1>4 DEF fees
<1>12. Underway'
  <2>1. frame'.pc = "push" => SetPair10
    BY <1>3
  <2>2. frame'.pc \notin {"instantiate", "initialize", "set01"}
    BY <1>3
  <2> QED
    BY <1>2, <1>3, <1>4, <1>7, <1>9, <1>10, <1>11, <2>1, <2>2, PrimedUnderway DEF Underway
<1>13. Fresh'
  <2>1. Honest(Checkpoint, frame.f)' <=> Honest(Checkpoint, frame.f)
    BY <1>3, <1>11 DEF Honest, Checkpoint
  <2>2. frame'.pc \in {"set10", "push"}
    BY <1>3
  <2>3. Fresh
    BY DEF IInv
  <2> QED
    BY <1>2, <1>3, <1>4, <2>1, <2>2, <2>3 DEF Fresh, Honest, Checkpoint
<1> QED
  BY <1>1, <1>2, <1>4, <1>5, <1>12, <1>13, GoesOn

\* createPair returns.
LEMMA PushKeeps ==
  ASSUME IInv, Push
  PROVE  IInv'
<1>1. TypeOK /\ TypeOK' /\ Holds(Checkpoint, Checkpoint') /\ MappedIn(Checkpoint')
  BY TypeInside, PushHolds DEF IInv, CallStep
<1>2. frame' = Idle /\ outer' = outer
  BY DEF Push
<1>3. Base' = Checkpoint' /\ Underway' /\ Fresh'
  BY <1>2 DEF Base, Idle, Underway, Fresh
<1> QED
  BY <1>1, <1>2, <1>3, Assemble

\* createPair is undone.
LEMMA UndoKeeps ==
  ASSUME IInv, frame # Idle, Undo
  PROVE  IInv'
<1>1. TypeOK'
  BY TypeInside DEF IInv, CallStep, Revert
<1>2. Checkpoint' = saved /\ frame' = Idle /\ outer' = outer
  BY UndoRestores DEF IInv, Undo
<1>3. Base' = saved /\ Base = saved /\ Underway' /\ Fresh'
  BY <1>2 DEF Base, Idle, Underway, Fresh
<1>4. Consistent(saved)
  BY DEF IInv, Underway
<1>5. ListedIn(Checkpoint)' /\ Undeployed(Checkpoint)' /\ MappedIn(Checkpoint)'
  BY <1>2, <1>4, PrimedListed DEF Consistent
<1>6. Chain'
  BY <1>2, <1>3, KeptReflexive, PrimedChain DEF IInv, Chain
<1>7. Waiting'
  BY <1>2, PrimedWaiting DEF IInv, Waiting
<1> QED
  BY <1>1, <1>3, <1>5, <1>6, <1>7 DEF IInv

\* createPair runs foreign code, and is suspended.
LEMMA InstantiateForeignKeeps ==
  ASSUME IInv, NEW p \in PairAddrs, InstantiateForeign(p)
  PROVE  IInv'
<1> DEFINE back == [frame EXCEPT !.pc = "set01", !.pair = p]
           e == [frame |-> back, saved |-> saved]
           n == Len(outer) + 1
<1>1. TypeOK /\ TypeOK' /\ Holds(Checkpoint, Checkpoint')
  BY TypeInside, RecordHolds DEF IInv, CallStep
<1>2. frame \in Frames /\ frame # Idle /\ frame.pc = "instantiate"
  BY <1>1, IdleApart DEF TypeOK, InstantiateForeign, At
<1>3. /\ UNCHANGED <<fees, registry>> /\ frame' = Idle
      /\ outer' = Append(outer, e) /\ pairCodeHash[frame.f] \in Foreign
  BY DEF InstantiateForeign
<1>4. /\ back.f = frame.f /\ back.token0 = frame.token0 /\ back.token1 = frame.token1
      /\ back \in Named({"set01"})
  BY <1>2 DEF Frames, Named
<1>5. e.frame = back /\ e.saved = saved
  OBVIOUS
<1>6. /\ Consistent(saved) /\ back.token0 # Zero /\ back.token0 < back.token1
      /\ saved.pairCodeHash[back.f] \in Foreign
      /\ MappedIn(Checkpoint)
  BY <1>2, <1>3, <1>4 DEF IInv, Underway
<1>7. e \in [frame : Named({"set01"}), saved : Checkpoints]
  BY <1>1, <1>2, <1>4, TypeParts
<1> HIDE DEF back, e
<1>8. /\ Len(outer) \in Nat /\ DOMAIN outer = 1 .. Len(outer) /\ DOMAIN outer' = 1 .. n
      /\ outer'[n] = e /\ \A i \in 1 .. Len(outer) : outer'[i] = outer[i]
  BY <1>1, <1>3, <1>7, Appended, TypeParts
<1>9. Waiting'
  <2>1. ASSUME NEW i \in DOMAIN outer'
        PROVE  /\ Consistent(outer'[i].saved)
               /\ outer'[i].frame.token0 # Zero /\ outer'[i].frame.token0 < outer'[i].frame.token1
               /\ outer'[i].saved.pairCodeHash[outer'[i].frame.f] \in Foreign
    <3>1. CASE i \in DOMAIN outer
      BY <1>8, <3>1 DEF IInv, Waiting
    <3>2. CASE i = n
      BY <1>5, <1>6, <1>8, <3>2
    <3> QED
      BY <1>8, <3>1, <3>2
  <2> QED
    BY <2>1, PrimedWaiting
<1>10. Base' = Checkpoint' /\ Base = saved
  BY <1>2, <1>3 DEF Base, Idle
<1>11. Chain'
  <2>1. Kept(saved, Checkpoint')
    BY <1>1, <1>10, KeptTransitive DEF IInv, Chain, Holds
  <2>2. ASSUME NEW i \in DOMAIN outer'
        PROVE  Kept(outer'[i].saved, saved)
    <3>1. CASE i \in DOMAIN outer
      BY <1>8, <1>10, <3>1 DEF IInv, Chain
    <3>2. CASE i = n
      BY <1>5, <1>8, <3>2, KeptReflexive
    <3> QED
      BY <1>8, <3>1, <3>2
  <2>3. ASSUME NEW i \in DOMAIN outer', NEW j \in DOMAIN outer', i <= j
        PROVE  Kept(outer'[i].saved, outer'[j].saved)
    <3>1. CASE j \in DOMAIN outer
      <4>1. i \in DOMAIN outer
        BY <1>8, <2>3, <3>1
      <4> QED
        BY <1>8, <2>3, <3>1, <4>1 DEF IInv, Chain
    <3>2. CASE j = n
      BY <1>5, <1>8, <2>2, <3>2
    <3> QED
      BY <1>8, <3>1, <3>2
  <2>4. \A i \in DOMAIN outer' : Kept(outer'[i].saved, Base')
    BY <1>10, <2>1, <2>2, KeptTransitive
  <2> QED
    BY <1>10, <2>3, <2>4, KeptReflexive, PrimedChain
<1>12. MappedIn(Checkpoint')
  BY <1>3, <1>6, SameMapped DEF MappedIn, Checkpoint, registry
<1>13. Underway' /\ Fresh'
  BY <1>3 DEF Underway, Fresh, Idle
<1>14. ListedIn(Checkpoint)' /\ Undeployed(Checkpoint)' /\ MappedIn(Checkpoint)'
  BY <1>1, <1>12, PrimedListed DEF Holds
<1> QED
  BY <1>1, <1>9, <1>11, <1>13, <1>14 DEF IInv

\* The foreign code is done.
LEMMA ResumeKeeps ==
  ASSUME IInv, Resume
  PROVE  IInv'
<1> DEFINE n == Len(outer)
           T == [frame : Named({"set01"}), saved : Checkpoints]
<1>1. TypeOK /\ TypeOK'
  BY TypeInside DEF IInv, CallStep
<1>2. /\ frame = Idle /\ outer # <<>> /\ UNCHANGED <<fees, registry, pairs>>
      /\ frame' = outer[n].frame /\ saved' = outer[n].saved
      /\ outer' = SubSeq(outer, 1, n - 1)
  BY DEF Resume
<1>3. Checkpoint' = Checkpoint
  BY <1>2 DEF Checkpoint, fees, registry
<1>4. outer \in Seq(T)
  BY <1>1, TypeParts
<1> HIDE DEF T
<1>5. /\ n \in Nat \ {0} /\ DOMAIN outer = 1 .. n /\ DOMAIN outer' = 1 .. n - 1
      /\ outer[n] \in T /\ \A i \in 1 .. n - 1 : outer'[i] = outer[i]
  BY <1>2, <1>4, LastOf
<1>6. outer[n].frame \in Frames /\ frame' # Idle /\ frame'.pc = "set01"
  BY <1>2, <1>5, NamedFrames, IdleApart DEF T, Named
<1> HIDE DEF n
<1>7. n \in DOMAIN outer /\ \A i \in DOMAIN outer' : i \in DOMAIN outer /\ outer'[i] = outer[i] /\ i <= n
  BY <1>5
<1>8. Base' = saved' /\ Base = Checkpoint
  BY <1>2, <1>6 DEF Base, Idle
<1>9. Waiting'
  BY <1>7, PrimedWaiting DEF IInv, Waiting
<1>10. Kept(saved', Checkpoint)
  BY <1>2, <1>7, <1>8 DEF IInv, Chain
<1>11. Chain'
  <2>1. \A i \in DOMAIN outer' : Kept(outer'[i].saved, saved')
    BY <1>2, <1>7 DEF IInv, Chain
  <2>2. \A i, j \in DOMAIN outer' : i <= j => Kept(outer'[i].saved, outer'[j].saved)
    BY <1>7 DEF IInv, Chain
  <2> QED
    BY <1>3, <1>8, <1>10, <2>1, <2>2, PrimedChain
<1>12. /\ Consistent(saved') /\ frame'.token0 # Zero /\ frame'.token0 < frame'.token1
       /\ saved'.pairCodeHash[frame'.f] \in Foreign
  BY <1>2, <1>7 DEF IInv, Waiting
<1>13. /\ pairCodeHash'[frame'.f] = saved'.pairCodeHash[frame'.f]
       /\ pairCodeHash'[frame'.f] \in Foreign /\ pairCodeHash'[frame'.f] # NoHash
  <2>1. frame'.f \in Factories
    BY <1>2, <1>6, FrameParts
  <2>2. saved'.pairCodeHash[frame'.f] # NoHash
    BY <1>12, FactoryAssumption
  <2>3. pairCodeHash[frame'.f] = saved'.pairCodeHash[frame'.f]
    BY <1>10, <2>1, <2>2 DEF Kept, Checkpoint
  <2> QED
    BY <1>2, <1>12, <2>2, <2>3 DEF fees
<1>14. MappedIn(Checkpoint')
  BY <1>2, <1>3 DEF IInv
<1>15. Underway'
  BY <1>6, <1>12, <1>13, <1>14, PrimedUnderway DEF MappedIn
<1>16. Fresh'
  <2>1. pairCodeHash'[frame'.f] # PairCode
    BY <1>13, FactoryAssumption
  <2> QED
    BY <1>6, <2>1 DEF Fresh, Honest, Checkpoint
<1>17. ListedIn(Checkpoint)' /\ Undeployed(Checkpoint)' /\ MappedIn(Checkpoint)'
  BY <1>3, <1>14, PrimedListed DEF IInv
<1> QED
  BY <1>1, <1>9, <1>11, <1>15, <1>16, <1>17 DEF IInv

\* IInv is inductive.
LEMMA IInvInside ==
  ASSUME IInv, CallStep
  PROVE  IInv'
BY InstantiateKeeps, InstantiateForeignKeeps, ResumeKeeps, CallInitializeKeeps, SetPairKeeps,
   PushKeeps, UndoKeeps, IdleApart DEF CallStep, InitializeFails, Revert, At

LEMMA IInvNext == IInv /\ [Next]_vars => IInv'
<1> SUFFICES ASSUME IInv, [Next]_vars PROVE IInv'
  OBVIOUS
<1>1. CASE Deployments \/ Calls
  BY <1>1, IInvOutside
<1>2. CASE CallStep
  BY <1>2, IInvInside
<1>3. CASE UNCHANGED vars
  <2>1. Checkpoint' = Checkpoint /\ Base' = Base /\ frame' = frame /\ saved' = saved /\ outer' = outer
    BY <1>3 DEF vars, Checkpoint, Base, Idle
  <2>2. TypeOK'
    BY <1>3 DEF IInv, TypeOK, vars, Checkpoint
  <2>3. Holds(Checkpoint, Checkpoint')
    BY <2>1, KeptReflexive DEF IInv, Holds
  <2>4. Underway' /\ Fresh'
    <3>1. Underway'
      BY <1>3, <2>1, PrimedUnderway DEF IInv, Underway, vars
    <3>2. Fresh'
      BY <1>3 DEF IInv, Fresh, vars, Honest, Checkpoint, Idle
    <3> QED
      BY <3>1, <3>2
  <2>5. frame' = Idle => MappedIn(Checkpoint')
    BY <2>1 DEF IInv
  <2> QED
    BY <2>1, <2>2, <2>3, <2>4, <2>5, Assemble
<1> QED
  BY <1>1, <1>2, <1>3 DEF Next

LEMMA IInvInvariant == Spec => []IInv
BY InitIInv, IInvNext, PTL DEF Spec

-----------------------------------------------------------------------------
\* Every variable keeps its type.
THEOREM TypeCorrect == Spec => []TypeOK
<1>1. IInv => TypeOK
  BY DEF IInv
<1> QED
  BY <1>1, IInvInvariant, PTL

\* At every step, every listed pair of a factory that stores the hash of the
\* pair's code is complete, is what getPair returns for its tokens, and is
\* listed once, whatever foreign code runs in other createPairs.
THEOREM ListedPairsCorrect == Spec => []ListedPairsMatch
<1>1. IInv => ListedPairsMatch
  BY DEF IInv, ListedIn, Entry, ListedPairsMatch, Checkpoint, Honest
<1> QED
  BY <1>1, IInvInvariant, PTL

\* getPair is symmetric and returns listed pairs, between the calls of every
\* factory.
THEOREM GetPairCorrect == Spec => []GetPairMatches
<1>1. IInv => GetPairMatches
  BY DEF IInv, MappedIn, MappedAt, GetPairMatches, Checkpoint
<1> QED
  BY <1>1, IInvInvariant, PTL

-----------------------------------------------------------------------------
\* Every step undoes a call or keeps what is listed.
LEMMA StepKeeps ==
  ASSUME IInv, [Next]_vars
  PROVE  (frame # Idle /\ Undo) \/ Kept(Checkpoint, Checkpoint')
<1> USE DEF IInv
<1>1. CASE Deployments \/ Calls
  BY <1>1, OutsideHolds DEF Holds
<1>2. CASE CallStep
  <2>1. CASE CallInitialize \/ \E p \in PairAddrs : Instantiate(p) \/ InstantiateForeign(p)
    BY <2>1, RecordHolds DEF Holds
  <2>2. CASE Resume
    <3>1. Checkpoint' = Checkpoint
      BY <2>2 DEF Resume, Checkpoint, fees, registry
    <3> QED
      BY <3>1, KeptReflexive
  <2>3. CASE SetPair01 \/ SetPair10
    BY <2>3, SetPairHolds DEF Holds
  <2>4. CASE Push
    BY <2>4, PushHolds DEF Holds
  <2> QED
    BY <1>2, <2>1, <2>2, <2>3, <2>4, IdleApart DEF CallStep, InitializeFails, Revert, At
<1>3. CASE UNCHANGED vars
  <2>1. Checkpoint' = Checkpoint
    BY <1>3 DEF vars, Checkpoint
  <2> QED
    BY <2>1, KeptReflexive
<1> QED
  BY <1>1, <1>2, <1>3 DEF Next

\* The first element of a sequence with an element appended.
LEMMA FirstOf ==
  ASSUME NEW T, NEW q \in Seq(T), NEW e
  PROVE  Append(q, e) # <<>> /\ Append(q, e)[1] = IF q = <<>> THEN e ELSE q[1]
<1>1. Len(q) \in Nat /\ (Len(q) = 0 <=> q = <<>>)
  OBVIOUS
<1>2. q \in Seq(T \cup {e}) /\ e \in T \cup {e}
  OBVIOUS
<1>3. /\ Len(Append(q, e)) = Len(q) + 1 /\ Append(q, e)[Len(q) + 1] = e
      /\ \A i \in 1 .. Len(q) : Append(q, e)[i] = q[i]
  BY <1>2, Appended
<1>4. CASE q = <<>>
  BY <1>1, <1>3, <1>4
<1>5. CASE q # <<>>
  <2>1. 1 \in 1 .. Len(q) /\ Len(Append(q, e)) # 0
    BY <1>1, <1>3, <1>5
  <2> QED
    BY <1>3, <1>5, <2>1
<1> QED
  BY <1>4, <1>5

\* Suspending and resuming a createPair changes nothing for those outside.
LEMMA SuspendCommits ==
  ASSUME TypeOK, Resume \/ \E p \in PairAddrs : InstantiateForeign(p)
  PROVE  Committed' = Committed
<1> DEFINE T == [frame : Named({"set01"}), saved : Checkpoints]
<1>1. outer \in Seq(T)
  BY TypeParts
<1>2. ASSUME NEW p \in PairAddrs, InstantiateForeign(p)
      PROVE  Committed' = Committed
  <2> DEFINE e == [frame |-> [frame EXCEPT !.pc = "set01", !.pair = p], saved |-> saved]
  <2>1. outer' = Append(outer, e) /\ e.saved = saved /\ frame # Idle
    <3>1. outer' = Append(outer, e) /\ frame.pc = "instantiate"
      BY <1>2 DEF InstantiateForeign, At
    <3>2. e.saved = saved
      OBVIOUS
    <3>3. frame # Idle
      BY <3>1, IdleApart
    <3> QED
      BY <3>1, <3>2, <3>3
  <2>2. outer' # <<>> /\ outer'[1] = IF outer = <<>> THEN e ELSE outer[1]
    <3> HIDE DEF e
    <3> QED
      BY <1>1, <2>1, FirstOf
  <2> QED
    BY <2>1, <2>2 DEF Committed
<1>3. CASE Resume
  <2>1. /\ outer # <<>> /\ frame' = outer[Len(outer)].frame /\ saved' = outer[Len(outer)].saved
        /\ outer' = SubSeq(outer, 1, Len(outer) - 1)
    BY <1>3 DEF Resume
  <2> HIDE DEF T
  <2>2. /\ Len(outer) \in Nat \ {0} /\ DOMAIN outer' = 1 .. Len(outer) - 1
        /\ outer[Len(outer)] \in T
        /\ \A i \in 1 .. Len(outer) - 1 : outer'[i] = outer[i]
        /\ outer' \in Seq(T)
    BY <1>1, <2>1, LastOf
  <2>3. frame' # Idle
    BY <2>1, <2>2, NamedFrames, IdleApart DEF T
  <2>4. CASE Len(outer) = 1
    <3>1. outer' = <<>>
      BY <2>2, <2>4
    <3> QED
      BY <2>1, <2>3, <2>4, <3>1 DEF Committed, Idle
  <2>5. CASE Len(outer) # 1
    <3> DEFINE n == Len(outer)
    <3>1. 1 \in DOMAIN outer' /\ outer'[1] = outer[1]
      <4>1. n \in Nat \ {0} /\ n # 1 /\ DOMAIN outer' = 1 .. n - 1
            /\ \A i \in 1 .. n - 1 : outer'[i] = outer[i]
        BY <2>2, <2>5
      <4> HIDE DEF n
      <4>2. 1 \in 1 .. n - 1
        BY <4>1
      <4> QED
        BY <4>1, <4>2
    <3>2. outer' # <<>>
      BY <3>1
    <3> QED
      BY <2>1, <3>1, <3>2 DEF Committed
  <2> QED
    BY <2>4, <2>5
<1> QED
  BY <1>2, <1>3

\* Every step keeps what was there before the outermost call in progress.
LEMMA CommittedKeeps ==
  ASSUME IInv, [Next]_vars
  PROVE  Kept(Committed, Committed')
<1>1. CASE Resume \/ \E p \in PairAddrs : InstantiateForeign(p)
  BY <1>1, SuspendCommits, KeptReflexive DEF IInv
<1>2. CASE ~(Resume \/ \E p \in PairAddrs : InstantiateForeign(p))
  <2>1. outer' = outer
    <3>1. CASE Deployments \/ Calls
      BY <3>1 DEF Deployments, Calls, DeployPair, DeployFactory, DeployFactoryBare,
         Initialize, SetFeeTo, SetFeeToSetter, CreatePair, calls
    <3>2. CASE CallStep
      BY <1>2, <3>2 DEF CallStep, Instantiate, CallInitialize, InitializeFails, SetPair01,
         SetPair10, Push, Revert, Undo
    <3>3. CASE UNCHANGED vars
      BY <3>3 DEF vars
    <3> QED
      BY <3>1, <3>2, <3>3 DEF Next
  <2>2. Kept(Base, Base')
    <3>1. CASE frame # Idle /\ Undo
      BY <3>1, UndoRestores, KeptReflexive DEF IInv, Undo, Base, Idle
    <3>2. CASE Kept(Checkpoint, Checkpoint') /\ frame' = Idle
      <4>1. Kept(Base, Checkpoint) /\ Base' = Checkpoint'
        BY <3>2 DEF IInv, Chain, Base, Idle
      <4> QED
        BY <3>2, <4>1, KeptTransitive
    <3>3. CASE frame' # Idle
      <4>1. Base' = Base
        <5>1. CASE Deployments \/ Calls
          BY <3>3, <5>1 DEF Deployments, Calls, DeployPair, DeployFactory, DeployFactoryBare,
             Initialize, SetFeeTo, SetFeeToSetter, CreatePair, calls, Base, Idle
        <5>2. CASE CallStep
          BY <1>2, <3>3, <5>2, IdleApart
          DEF CallStep, Instantiate, CallInitialize, InitializeFails, SetPair01,
              SetPair10, Push, Revert, Undo, Base, Idle, At
        <5>3. CASE UNCHANGED vars
          BY <5>3 DEF vars, Base, Checkpoint, Idle
        <5> QED
          BY <5>1, <5>2, <5>3 DEF Next
      <4> QED
        BY <4>1, KeptReflexive
    <3> QED
      BY <3>1, <3>2, <3>3, StepKeeps
  <2>3. Committed = IF outer # <<>> THEN outer[1].saved ELSE Base
    BY DEF Committed, Base
  <2>4. Committed' = IF outer' # <<>> THEN outer'[1].saved ELSE Base'
    BY DEF Committed, Base, Idle
  <2> QED
    BY <2>1, <2>2, <2>3, <2>4, KeptReflexive
<1> QED
  BY <1>1, <1>2

\* What both action properties say of a step.
LEMMA KeptInBoth ==
  ASSUME IInv, [Next]_vars
  PROVE  /\ Undone \/ Kept(Checkpoint, Checkpoint')
         /\ Kept(Committed, Committed')
<1>1. frame # Idle /\ Undo => Undone
  BY UndoRestores DEF IInv, Undone
<1> QED
  BY <1>1, StepKeeps, CommittedKeeps

\* No step but one that takes back a call loses a listed pair of a factory that
\* stores the hash of the pair's code, or an element of any array; and no step
\* loses what was there before the outermost call in progress.
THEOREM ListedPairsStay == Spec => ListedForEver
<1>1. IInv /\ [Next]_vars =>
        [/\ Undone \/ KeepsPairs(Checkpoint, Checkpoint')
         /\ KeepsPairs(Committed, Committed')]_vars
  BY KeptInBoth DEF Kept
<1> QED
  BY <1>1, IInvInvariant, PTL DEF Spec, ListedForEver

\* A deployed factory whose setter is the zero address keeps its fee addresses,
\* unless the call that gave the setter up is taken back.
THEOREM RenouncedStays == Spec => RenouncedForEver
<1>1. IInv /\ [Next]_vars =>
        [/\ Undone \/ KeepsRenounced(Checkpoint, Checkpoint')
         /\ KeepsRenounced(Committed, Committed')]_vars
  BY KeptInBoth DEF Kept
<1> QED
  BY <1>1, IInvInvariant, PTL DEF Spec, RenouncedForEver

-----------------------------------------------------------------------------
(***************************************************************************)
(* The factories that store the hash of the pair's code implement the      *)
(* registry of PairRegistry.  A createPair of theirs stutters in every     *)
(* step but the last one, Push, which is Create, and when it is undone     *)
(* (Steady); one of another factory begins with Begin and ends with        *)
(* Return or TakeBack, and being suspended does not show.                  *)
(***************************************************************************)
Steady ==
  frame # Idle /\ Honest(Checkpoint, frame.f) =>
    /\ feeTo = saved.feeTo /\ feeToSetter = saved.feeToSetter
    /\ pairCodeHash = saved.pairCodeHash /\ factories = saved.factories
    /\ allPairs = saved.allPairs

RefInv == IInv /\ Steady

\* An abstract pair is an entry of an array of pairs, with the pair's tokens.
IsRecord(r, s) ==
  \E f \in Factories : Honest(s, f) /\ \E i \in DOMAIN s.allPairs[f] :
    LET p == s.allPairs[f][i]
    IN  r = [factory |-> f, tokens |-> {s.pairs[p].token0, s.pairs[p].token1}, pair |-> p]

LEMMA CreatedRecords == \A s, r : r \in Created(s) <=> IsRecord(r, s)
BY DEF Created, Open, Records, IsRecord

\* The part of a state that the registry describes for one factory.
SameListed(s, t, f) ==
  /\ t.allPairs[f] = s.allPairs[f]
  /\ \A i \in DOMAIN s.allPairs[f] : t.pairs[s.allPairs[f][i]] = s.pairs[s.allPairs[f][i]]

LEMMA CreatedSame ==
  ASSUME NEW s, NEW t,
         \A f \in Factories :
           \/ (Honest(t, f) <=> Honest(s, f)) /\ (Honest(s, f) => SameListed(s, t, f))
           \/ s.allPairs[f] = <<>> /\ t.allPairs[f] = <<>>
  PROVE  Created(t) = Created(s)
<1>1. ASSUME NEW r, IsRecord(r, s)
      PROVE  IsRecord(r, t)
  <2>1. PICK f \in Factories : Honest(s, f) /\ \E i \in DOMAIN s.allPairs[f] :
          r = [factory |-> f, tokens |-> {s.pairs[s.allPairs[f][i]].token0,
                 s.pairs[s.allPairs[f][i]].token1}, pair |-> s.allPairs[f][i]]
    BY <1>1 DEF IsRecord
  <2>2. PICK i \in DOMAIN s.allPairs[f] :
          r = [factory |-> f, tokens |-> {s.pairs[s.allPairs[f][i]].token0,
                 s.pairs[s.allPairs[f][i]].token1}, pair |-> s.allPairs[f][i]]
    BY <2>1
  <2>3. s.allPairs[f] # <<>>
    BY <2>2
  <2>4. Honest(t, f) /\ SameListed(s, t, f)
    BY <2>1, <2>3
  <2>5. /\ i \in DOMAIN t.allPairs[f]
        /\ r = [factory |-> f, tokens |-> {t.pairs[t.allPairs[f][i]].token0,
                 t.pairs[t.allPairs[f][i]].token1}, pair |-> t.allPairs[f][i]]
    BY <2>2, <2>4 DEF SameListed
  <2> QED
    BY <2>4, <2>5 DEF IsRecord
<1>2. ASSUME NEW r, IsRecord(r, t)
      PROVE  IsRecord(r, s)
  <2>1. PICK f \in Factories : Honest(t, f) /\ \E i \in DOMAIN t.allPairs[f] :
          r = [factory |-> f, tokens |-> {t.pairs[t.allPairs[f][i]].token0,
                 t.pairs[t.allPairs[f][i]].token1}, pair |-> t.allPairs[f][i]]
    BY <1>2 DEF IsRecord
  <2>2. PICK i \in DOMAIN t.allPairs[f] :
          r = [factory |-> f, tokens |-> {t.pairs[t.allPairs[f][i]].token0,
                 t.pairs[t.allPairs[f][i]].token1}, pair |-> t.allPairs[f][i]]
    BY <2>1
  <2>3. t.allPairs[f] # <<>>
    BY <2>2
  <2>4. Honest(s, f) /\ SameListed(s, t, f)
    BY <2>1, <2>3
  <2>5. /\ i \in DOMAIN s.allPairs[f]
        /\ r = [factory |-> f, tokens |-> {s.pairs[s.allPairs[f][i]].token0,
                 s.pairs[s.allPairs[f][i]].token1}, pair |-> s.allPairs[f][i]]
    BY <2>2, <2>4 DEF SameListed
  <2> QED
    BY <2>4, <2>5 DEF IsRecord
<1> QED
  BY <1>1, <1>2, CreatedRecords

\* Steps that leave all this alone do not show.
LEMMA DescribedSame ==
  ASSUME NEW s, NEW t,
         t.feeTo = s.feeTo, t.feeToSetter = s.feeToSetter,
         t.pairCodeHash = s.pairCodeHash, t.factories = s.factories,
         \A f \in Factories : Honest(s, f) => SameListed(s, t, f)
  PROVE  Described(t) = Described(s)
<1>1. Open(t) = Open(s) /\ \A f \in Factories : Honest(t, f) <=> Honest(s, f)
  BY DEF Open, Honest
<1>2. Created(t) = Created(s)
  BY <1>1, CreatedSame
<1> QED
  BY <1>1, <1>2 DEF Described

\* The abstract state after a step.
LEMMA PrimedRegistry ==
  /\ Created(Checkpoint)' = Created(Checkpoint') /\ Open(Checkpoint)' = Open(Checkpoint')
  /\ Suspended' = [i \in DOMAIN outer' |-> Described(outer'[i].saved)]
  /\ Snapshots' = IF frame' = Idle \/ Honest(Checkpoint', frame'.f)
                    THEN Suspended' ELSE Append(Suspended', Described(saved'))
<1>1. Created(Checkpoint)' = Created(Checkpoint') /\ Open(Checkpoint)' = Open(Checkpoint')
  BY DEF Created, Open, Records, Honest, Checkpoint
<1>2. Suspended' = [i \in DOMAIN outer' |-> Described(outer'[i].saved)]
  BY DEF Suspended, Described, Created, Open, Records, Honest
<1>3. Snapshots' = IF frame' = Idle \/ Honest(Checkpoint', frame'.f)
                     THEN Suspended' ELSE Append(Suspended', Described(saved'))
  BY DEF Snapshots, Described, Created, Open, Records, Honest, Idle, Checkpoint
<1> QED
  BY <1>1, <1>2, <1>3

\* What Described says, part by part.
LEMMA DescribedParts ==
  \A s, t : Described(s) = Described(t) <=>
    /\ Created(s) = Created(t) /\ Open(s) = Open(t) /\ s.feeTo = t.feeTo
    /\ s.feeToSetter = t.feeToSetter /\ s.factories = t.factories
BY DEF Described

\* A step that changes neither the description nor the snapshots stutters.
LEMMA Stutters ==
  ASSUME Described(Checkpoint') = Described(Checkpoint), Snapshots' = Snapshots
  PROVE  UNCHANGED Registry!vars
<1>1. /\ Created(Checkpoint') = Created(Checkpoint) /\ Open(Checkpoint') = Open(Checkpoint)
      /\ feeTo' = feeTo /\ feeToSetter' = feeToSetter /\ factories' = factories
  <2>1. /\ Checkpoint.feeTo = feeTo /\ Checkpoint'.feeTo = feeTo'
        /\ Checkpoint.feeToSetter = feeToSetter /\ Checkpoint'.feeToSetter = feeToSetter'
        /\ Checkpoint.factories = factories /\ Checkpoint'.factories = factories'
    BY DEF Checkpoint
  <2> QED
    BY <2>1, DescribedParts
<1> QED
  BY <1>1, PrimedRegistry DEF Registry!vars

\* The snapshots are a sequence.
LEMMA SuspendedSeq ==
  ASSUME TypeOK
  PROVE  \E U : Suspended \in Seq(U) /\ DOMAIN Suspended = DOMAIN outer
<1>1. Len(outer) \in Nat /\ DOMAIN outer = 1 .. Len(outer)
  BY TypeParts
<1> DEFINE U == {Described(outer[i].saved) : i \in DOMAIN outer}
<1>2. Suspended \in [1 .. Len(outer) -> U]
  BY <1>1 DEF Suspended
<1>3. Suspended \in Seq(U)
  BY <1>1, <1>2
<1> QED
  BY <1>3 DEF Suspended

\* A sequence without the element appended last.
LEMMA Popped ==
  ASSUME NEW T, NEW q \in Seq(T), NEW e
  PROVE  /\ Append(q, e) # <<>>
         /\ Append(q, e)[Len(Append(q, e))] = e
         /\ SubSeq(Append(q, e), 1, Len(Append(q, e)) - 1) = q
<1> DEFINE r == Append(q, e)
           n == Len(q)
<1>1. q \in Seq(T \cup {e}) /\ e \in T \cup {e}
  OBVIOUS
<1>2. /\ r \in Seq(T \cup {e}) /\ n \in Nat /\ Len(r) = n + 1 /\ DOMAIN q = 1 .. n
      /\ r[n + 1] = e /\ \A i \in 1 .. n : r[i] = q[i]
  BY <1>1, Appended
<1> HIDE DEF r
<1>3. r # <<>>
  BY <1>2
<1>4. /\ SubSeq(r, 1, n) \in Seq(T \cup {e}) /\ DOMAIN SubSeq(r, 1, n) = 1 .. n
      /\ \A i \in 1 .. n : SubSeq(r, 1, n)[i] = r[i]
  <2>1. Len(r) - 1 = n
    BY <1>2
  <2> QED
    BY <1>2, <1>3, <2>1, LastOf
<1>5. SubSeq(r, 1, n) = q
  <2>1. q \in Seq(T \cup {e}) /\ Len(q) = n /\ Len(SubSeq(r, 1, n)) = n
    BY <1>1, <1>2, <1>4
  <2>2. q = [i \in 1 .. n |-> q[i]] /\ SubSeq(r, 1, n) = [i \in 1 .. n |-> SubSeq(r, 1, n)[i]]
    BY <1>2, <1>4, <2>1
  <2> QED
    BY <1>2, <1>4, <2>2
<1> QED
  BY <1>2, <1>3, <1>5 DEF r

\* A function that is a sequence with an element appended.
LEMMA IsAppended ==
  ASSUME NEW U, NEW q \in Seq(U), NEW d, NEW n \in Nat, Len(q) = n,
         NEW V, NEW h \in [1 .. n + 1 -> V],
         \A i \in 1 .. n : h[i] = q[i], h[n + 1] = d
  PROVE  Append(q, d) = h
<1> DEFINE r == Append(q, d)
<1>1. q \in Seq(U \cup {d}) /\ d \in U \cup {d}
  OBVIOUS
<1>2. /\ r \in Seq(U \cup {d}) /\ Len(r) = n + 1
      /\ r[n + 1] = d /\ \A i \in 1 .. n : r[i] = q[i]
  BY <1>1, Appended
<1> HIDE DEF r
<1>3. r = [i \in 1 .. n + 1 |-> r[i]]
  BY <1>2
<1>4. ASSUME NEW i \in 1 .. n + 1
      PROVE  r[i] = h[i]
  <2>1. i \in 1 .. n \/ i = n + 1
    OBVIOUS
  <2> QED
    BY <1>2, <2>1
<1>5. r = h
  <2>1. h = [i \in 1 .. n + 1 |-> h[i]]
    OBVIOUS
  <2> QED
    BY <1>3, <1>4, <2>1
<1> QED
  BY <1>5 DEF r

\* Suspending and resuming a createPair does not show.
LEMMA SuspendStutters ==
  ASSUME IInv, Resume \/ \E p \in PairAddrs : InstantiateForeign(p)
  PROVE  UNCHANGED Registry!vars
<1> DEFINE T == [frame : Named({"set01"}), saved : Checkpoints]
<1>1. outer \in Seq(T) /\ IInv'
  BY IInvInside, TypeParts DEF IInv, CallStep
<1>2. Described(Checkpoint') = Described(Checkpoint)
  <2>1. KeepsPairs(Checkpoint, Checkpoint')
    <3>1. CASE Resume
      <4>1. Checkpoint' = Checkpoint
        BY <3>1 DEF Resume, Checkpoint, fees, registry
      <4> QED
        BY <4>1, KeptReflexive DEF Kept
    <3>2. CASE \E p \in PairAddrs : InstantiateForeign(p)
      BY <3>2, RecordHolds DEF IInv, Holds, Kept
    <3> QED
      BY <3>1, <3>2
  <2>2. UNCHANGED <<fees, registry>>
    BY DEF Resume, InstantiateForeign
  <2> QED
    BY <2>1, <2>2, DescribedSame DEF SameListed, KeepsPairs, Checkpoint, fees, registry
<1>3. ASSUME NEW p \in PairAddrs, InstantiateForeign(p)
      PROVE  Snapshots' = Snapshots
  <2> DEFINE e == [frame |-> [frame EXCEPT !.pc = "set01", !.pair = p], saved |-> saved]
             d == Described(saved)
             n == Len(outer)
  <2>1. /\ frame.pc = "instantiate" /\ frame' = Idle
        /\ outer' = Append(outer, e) /\ pairCodeHash[frame.f] \in Foreign
    BY <1>3 DEF InstantiateForeign, At
  <2>2. frame # Idle /\ ~Honest(Checkpoint, frame.f)
    BY <2>1, IdleApart, FactoryAssumption DEF Honest, Checkpoint
  <2>3. Snapshots = Append(Suspended, d)
    BY <2>2 DEF Snapshots
  <2>4. Snapshots' = [i \in DOMAIN outer' |-> Described(outer'[i].saved)]
    BY <2>1, PrimedRegistry
  <2>5. e.saved = saved
    OBVIOUS
  <2> HIDE DEF e, d, T
  <2>6. outer \in Seq(T \cup {e}) /\ e \in T \cup {e}
    BY <1>1
  <2>7. /\ n \in Nat /\ DOMAIN outer = 1 .. n /\ DOMAIN outer' = 1 .. n + 1
        /\ outer'[n + 1] = e /\ \A i \in 1 .. n : outer'[i] = outer[i]
    BY <2>1, <2>6, Appended
  <2> HIDE DEF n
  <2>8. PICK U : Suspended \in Seq(U) /\ DOMAIN Suspended = DOMAIN outer
    BY SuspendedSeq DEF IInv
  <2>9. Suspended \in Seq(U) /\ Len(Suspended) = n
    BY <2>7, <2>8
  <2> DEFINE V == {Described(outer'[i].saved) : i \in DOMAIN outer'}
  <2>10. Snapshots' \in [1 .. n + 1 -> V]
         /\ \A i \in 1 .. n + 1 : Snapshots'[i] = Described(outer'[i].saved)
    BY <2>4, <2>7
  <2> HIDE DEF V
  <2>11. \A i \in 1 .. n : Snapshots'[i] = Suspended[i]
    <3>1. ASSUME NEW i \in 1 .. n
          PROVE  Snapshots'[i] = Suspended[i]
      <4>1. i \in 1 .. n + 1 /\ outer'[i] = outer[i]
        BY <2>7
      <4>2. Suspended[i] = Described(outer[i].saved)
        BY <2>7 DEF Suspended
      <4> QED
        BY <2>10, <4>1, <4>2
    <3> QED
      BY <3>1
  <2>12. Snapshots'[n + 1] = d
    <3>1. n + 1 \in 1 .. n + 1
      BY <2>7
    <3> QED
      BY <2>5, <2>7, <2>10, <3>1 DEF d
  <2> QED
    BY <2>3, <2>7, <2>9, <2>10, <2>11, <2>12, IsAppended
<1>4. ASSUME Resume
      PROVE  Snapshots' = Snapshots
  <2> DEFINE n == Len(outer)
             d == Described(saved')
  <2>1. /\ frame = Idle /\ outer # <<>> /\ frame' = outer[n].frame /\ saved' = outer[n].saved
        /\ outer' = SubSeq(outer, 1, n - 1) /\ UNCHANGED pairCodeHash
    BY <1>4 DEF Resume, fees
  <2> HIDE DEF T
  <2>2. /\ n \in Nat \ {0} /\ DOMAIN outer = 1 .. n /\ DOMAIN outer' = 1 .. n - 1
        /\ outer[n] \in T /\ \A i \in 1 .. n - 1 : outer'[i] = outer[i] /\ outer' \in Seq(T)
    BY <1>1, <2>1, LastOf
  <2>3. frame' # Idle
    BY <2>1, <2>2, NamedFrames, IdleApart DEF T
  <2>4. ~Honest(Checkpoint', frame'.f)
    <3>1. saved'.pairCodeHash[frame'.f] \in Foreign
      BY <2>1, <2>2 DEF IInv, Waiting
    <3>2. saved'.pairCodeHash[frame'.f] = pairCodeHash'[frame'.f]
      BY <1>1, <2>3, PrimedUnderway DEF IInv
    <3> QED
      BY <3>1, <3>2, FactoryAssumption DEF Honest, Checkpoint
  <2>5. Snapshots = Suspended
    BY <2>1 DEF Snapshots
  <2>6. Snapshots' = Append(Suspended', d)
    BY <2>3, <2>4, PrimedRegistry
  <2>7. Suspended' = [i \in 1 .. n - 1 |-> Described(outer[i].saved)]
    BY <2>2, PrimedRegistry
  <2>8. Suspended = [i \in 1 .. n |-> Described(outer[i].saved)]
    BY <2>2 DEF Suspended
  <2>9. d = Described(outer[n].saved)
    BY <2>1
  <2> HIDE DEF n, d
  <2>10. Append(Suspended', d) = Suspended
    <3> DEFINE U == {Described(outer[i].saved) : i \in 1 .. n}
               q == [i \in 1 .. n - 1 |-> Described(outer[i].saved)]
    <3>1. n \in 1 .. n /\ n - 1 \in Nat /\ \A i \in 1 .. n - 1 : i \in 1 .. n
      BY <2>2
    <3>2. q \in [1 .. n - 1 -> U] /\ d \in U
      BY <2>9, <3>1
    <3>3. q \in Seq(U) /\ Len(q) = n - 1
      BY <3>1, <3>2
    <3>4. \A i \in 1 .. n - 1 : q[i] = Described(outer[i].saved)
      OBVIOUS
    <3> HIDE DEF U, q
    <3> DEFINE m == n - 1
    <3>5. m \in Nat /\ m + 1 = n
      BY <2>2
    <3> HIDE DEF m
    <3>6. \A i \in 1 .. n : Suspended[i] = Described(outer[i].saved)
      BY <2>8
    <3>7. (\A i \in 1 .. m : Suspended[i] = q[i]) /\ Suspended[m + 1] = d
      BY <2>9, <3>1, <3>4, <3>5, <3>6 DEF m
    <3>8. Suspended \in [1 .. m + 1 -> U]
      BY <2>8, <3>5 DEF U
    <3>9. Append(q, d) = Suspended
      <4>1. q \in Seq(U) /\ Len(q) = m
        BY <3>3 DEF m
      <4> QED
        BY <3>5, <3>7, <3>8, <4>1, IsAppended
    <3> QED
      BY <2>7, <3>9 DEF q
  <2> QED
    BY <2>5, <2>6, <2>10
<1> QED
  BY <1>2, <1>3, <1>4, Stutters

\* The foreign code a createPair goes on after belongs to another factory.
LEMMA ResumedForeign ==
  ASSUME IInv, Resume
  PROVE  frame' # Idle /\ ~Honest(Checkpoint', frame'.f)
<1> DEFINE T == [frame : Named({"set01"}), saved : Checkpoints]
           n == Len(outer)
<1>1. outer \in Seq(T) /\ IInv'
  BY IInvInside, TypeParts DEF IInv, CallStep
<1>2. outer # <<>> /\ frame' = outer[n].frame /\ saved' = outer[n].saved
  BY DEF Resume
<1> HIDE DEF T
<1>3. n \in Nat \ {0} /\ DOMAIN outer = 1 .. n /\ outer[n] \in T
  BY <1>1, <1>2, LastOf
<1>4. frame' # Idle
  BY <1>2, <1>3, NamedFrames, IdleApart DEF T
<1>5. saved'.pairCodeHash[frame'.f] \in Foreign
  BY <1>2, <1>3 DEF IInv, Waiting
<1>6. saved'.pairCodeHash[frame'.f] = pairCodeHash'[frame'.f]
  BY <1>1, <1>4, PrimedUnderway DEF IInv
<1> QED
  BY <1>4, <1>5, <1>6, FactoryAssumption DEF Honest, Checkpoint

\* The steps of a createPair after which it still goes on.
GoesOnStep ==
  CallInitialize \/ SetPair01 \/ SetPair10 \/ \E p \in PairAddrs : Instantiate(p)

LEMMA GoesOnParts ==
  ASSUME IInv, GoesOnStep
  PROVE  /\ frame # Idle /\ frame' # Idle /\ frame'.f = frame.f
         /\ UNCHANGED <<fees, allPairs, saved, outer>>
<1>1. frame # Idle
  BY IdleApart DEF GoesOnStep, CallInitialize, SetPair01, SetPair10, Instantiate, At
<1>2. frame \in Frames
  BY <1>1 DEF IInv, TypeOK
<1>3. frame'.f = frame.f /\ frame'.pc \in {"initialize", "set01", "set10", "push"}
  BY <1>2 DEF GoesOnStep, CallInitialize, SetPair01, SetPair10, Instantiate, Instantiated,
     Goto, Frames, Named
<1>4. frame' # Idle
  BY <1>3, IdleApart
<1>5. UNCHANGED <<fees, allPairs, saved, outer>>
  BY DEF GoesOnStep, CallInitialize, SetPair01, SetPair10, Instantiate, registry
<1> QED
  BY <1>1, <1>3, <1>4, <1>5

\* The cases of a step, with those of createPair apart.
LEMMA StepCases ==
  ASSUME IInv, [Next]_vars
  PROVE  \/ UNCHANGED vars
         \/ Deployments \/ Calls
         \/ Resume \/ \E p \in PairAddrs : InstantiateForeign(p)
         \/ GoesOnStep \/ Push \/ (frame # Idle /\ Undo)
BY IdleApart DEF Next, CallStep, InitializeFails, Revert, At, GoesOnStep

LEMMA RefInvInit == Init => RefInv
BY InitIInv DEF Init, RefInv, Steady

\* Every step keeps Steady.
LEMMA SteadyNext ==
  ASSUME RefInv, [Next]_vars
  PROVE  Steady'
<1>1. CASE frame' = Idle
  BY <1>1 DEF Steady, Idle
<1>2. CASE UNCHANGED vars
  BY <1>2 DEF RefInv, Steady, Honest, Checkpoint, vars, Idle
<1>3. CASE Deployments \/ Calls
  <2>1. ASSUME NEW f \in Factories, NEW a \in Tokens, NEW b \in Tokens, CreatePair(f, a, b)
        PROVE  Steady'
    BY <2>1 DEF CreatePair, Steady, Checkpoint, fees, registry
  <2>2. ASSUME ~ \E f \in Factories, a, b \in Tokens : CreatePair(f, a, b)
        PROVE  frame' = Idle
    BY <1>3, <2>2 DEF Deployments, Calls, DeployPair, DeployFactory, DeployFactoryBare,
       Initialize, SetFeeTo, SetFeeToSetter, calls
  <2> QED
    BY <1>1, <2>1, <2>2
<1>4. CASE Resume
  <2>1. ~Honest(Checkpoint, frame.f)'
    BY <1>4, ResumedForeign DEF RefInv, Honest, Checkpoint
  <2> QED
    BY <2>1 DEF Steady
<1>5. CASE GoesOnStep
  <2>1. /\ frame # Idle /\ frame'.f = frame.f /\ UNCHANGED <<fees, allPairs, saved>>
    BY <1>5, GoesOnParts DEF RefInv
  <2> QED
    BY <2>1 DEF RefInv, Steady, Honest, Checkpoint, fees
<1>6. CASE Push \/ Undo \/ \E p \in PairAddrs : InstantiateForeign(p)
  BY <1>1, <1>6 DEF Push, Undo, InstantiateForeign
<1> QED
  BY <1>2, <1>3, <1>4, <1>5, <1>6, StepCases DEF RefInv

-----------------------------------------------------------------------------
LEMMA StateIsDescribed ==
  Registry!State = Described(Checkpoint) /\ Registry!State' = Described(Checkpoint')
<1>1. Registry!State = Described(Checkpoint)
  BY DEF Registry!State, Described, Checkpoint
<1>2. /\ Checkpoint'.feeTo = feeTo' /\ Checkpoint'.feeToSetter = feeToSetter'
      /\ Checkpoint'.factories = factories'
  BY DEF Checkpoint
<1>3. Registry!State' = Described(Checkpoint')
  BY <1>2, PrimedRegistry DEF Registry!State, Described
<1> QED
  BY <1>1, <1>3

\* No createPair of another factory begins, ends or is suspended.
LEMMA SnapshotsSame ==
  ASSUME outer' = outer
  PROVE  /\ Suspended' = Suspended
         /\ (frame = Idle \/ Honest(Checkpoint, frame.f))
              /\ (frame' = Idle \/ Honest(Checkpoint', frame'.f)) => Snapshots' = Snapshots
<1>1. Suspended' = Suspended
  BY PrimedRegistry DEF Suspended
<1> QED
  BY <1>1, PrimedRegistry DEF Snapshots

\* What the registry describes is kept when nothing is pushed.
LEMMA KeptDescribed ==
  ASSUME UNCHANGED <<feeTo, feeToSetter, pairCodeHash, factories>>,
         KeepsPairs(Checkpoint, Checkpoint'),
         \A f \in Factories : Honest(Checkpoint, f) => allPairs'[f] = allPairs[f]
  PROVE  Described(Checkpoint') = Described(Checkpoint)
<1>1. ASSUME NEW f \in Factories, Honest(Checkpoint, f)
      PROVE  SameListed(Checkpoint, Checkpoint', f)
  BY <1>1 DEF SameListed, KeepsPairs, Checkpoint
<1> QED
  BY <1>1, DescribedSame DEF Checkpoint

\* A createPair that goes on does not show.
LEMMA GoesOnStutters ==
  ASSUME IInv, GoesOnStep
  PROVE  UNCHANGED Registry!vars
<1>1. /\ frame # Idle /\ frame' # Idle /\ frame'.f = frame.f
      /\ UNCHANGED <<fees, allPairs, saved, outer>>
  BY GoesOnParts
<1>2. KeepsPairs(Checkpoint, Checkpoint')
  BY RecordHolds, SetPairHolds DEF GoesOnStep, IInv, Holds, Kept
<1>3. Described(Checkpoint') = Described(Checkpoint)
  BY <1>1, <1>2, KeptDescribed DEF fees
<1>4. Honest(Checkpoint', frame'.f) <=> Honest(Checkpoint, frame.f)
  BY <1>1 DEF Honest, Checkpoint, fees
<1>5. Suspended' = Suspended
  BY <1>1, SnapshotsSame
<1>6. Snapshots' = Snapshots
  BY <1>1, <1>4, <1>5, PrimedRegistry DEF Snapshots
<1> QED
  BY <1>3, <1>6, Stutters

\* createPair begins: unseen, or as a foreign call.
LEMMA CreatePairRefines ==
  ASSUME IInv, NEW f \in Factories, NEW a \in Tokens, NEW b \in Tokens, CreatePair(f, a, b)
  PROVE  [Registry!Next]_(Registry!vars)
<1>1. /\ frame = Idle /\ outer' = outer /\ saved' = Checkpoint /\ Checkpoint' = Checkpoint
      /\ frame'.f = f /\ frame'.pc = "instantiate"
      /\ UNCHANGED <<feeTo, feeToSetter, factories>>
  BY DEF CreatePair, Idle, Checkpoint, fees, registry
<1>2. frame' # Idle
  BY <1>1, IdleApart
<1>3. CASE Honest(Checkpoint', f)
  <2>1. Snapshots' = Snapshots
    BY <1>1, <1>3, SnapshotsSame
  <2> QED
    BY <1>1, <2>1, Stutters
<1>4. CASE ~Honest(Checkpoint', f)
  <2>1. Snapshots = Suspended /\ Snapshots' = Append(Suspended, Described(Checkpoint))
    BY <1>1, <1>2, <1>4, SnapshotsSame, PrimedRegistry DEF Snapshots
  <2>2. Created(Checkpoint)' = Created(Checkpoint) /\ Open(Checkpoint)' = Open(Checkpoint)
    BY <1>1, PrimedRegistry
  <2>3. Registry!Begin
    BY <1>1, <2>1, <2>2, StateIsDescribed DEF Registry!Begin
  <2> QED
    BY <2>3 DEF Registry!Next
<1> QED
  BY <1>3, <1>4

\* The snapshots while a createPair of another factory is in progress.
LEMMA LastSnapshot ==
  ASSUME IInv, frame # Idle, ~Honest(Checkpoint, frame.f)
  PROVE  /\ Snapshots # <<>> /\ Snapshots[Len(Snapshots)] = Described(saved)
         /\ SubSeq(Snapshots, 1, Len(Snapshots) - 1) = Suspended
<1>1. PICK U : Suspended \in Seq(U)
  BY SuspendedSeq DEF IInv
<1>2. Snapshots = Append(Suspended, Described(saved))
  BY DEF Snapshots
<1> QED
  BY <1>1, <1>2, Popped

\* createPair is undone: unseen, or as a foreign call.
LEMMA UndoRefines ==
  ASSUME RefInv, frame # Idle, Undo
  PROVE  [Registry!Next]_(Registry!vars)
<1>1. Checkpoint' = saved /\ frame' = Idle /\ outer' = outer
  BY UndoRestores DEF RefInv, IInv, Undo
<1>2. CASE Honest(Checkpoint, frame.f)
  <2>1. /\ feeTo = saved.feeTo /\ feeToSetter = saved.feeToSetter
        /\ pairCodeHash = saved.pairCodeHash /\ factories = saved.factories
        /\ allPairs = saved.allPairs
    BY <1>2 DEF RefInv, Steady
  <2>2. KeepsPairs(saved, Checkpoint)
    BY DEF RefInv, IInv, Chain, Base, Kept
  <2>3. \A f \in Factories : Honest(saved, f) => SameListed(saved, Checkpoint, f)
    BY <2>1, <2>2 DEF SameListed, KeepsPairs, Checkpoint
  <2>4. Described(Checkpoint) = Described(saved)
    BY <2>1, <2>3, DescribedSame DEF Checkpoint
  <2>5. Snapshots' = Snapshots
    BY <1>1, <1>2, SnapshotsSame
  <2> QED
    BY <1>1, <2>4, <2>5, Stutters
<1>3. CASE ~Honest(Checkpoint, frame.f)
  <2>1. Snapshots' = Suspended
    BY <1>1, SnapshotsSame, PrimedRegistry
  <2>2. Registry!TakeBack
    BY <1>1, <1>3, <2>1, LastSnapshot, StateIsDescribed DEF RefInv, Registry!TakeBack
  <2> QED
    BY <2>2 DEF Registry!Next
<1> QED
  BY <1>2, <1>3

\* A createPair of another factory returns.
LEMMA ForeignReturns ==
  ASSUME IInv, Push, ~Honest(Checkpoint, frame.f)
  PROVE  Registry!Return
<1>1. frame # Idle /\ frame \in Frames
  BY IdleApart DEF Push, At, IInv, TypeOK
<1>2. /\ frame' = Idle /\ outer' = outer /\ UNCHANGED <<fees, getPair, pairs>>
      /\ allPairs' = [allPairs EXCEPT ![frame.f] = Append(allPairs[frame.f], frame.pair)]
  BY DEF Push
<1>3. KeepsPairs(Checkpoint, Checkpoint')
  BY PushHolds DEF IInv, Holds, Kept
<1>4. \A f \in Factories : Honest(Checkpoint, f) => allPairs'[f] = allPairs[f]
  <2>1. allPairs \in [Factories -> Seq(PairAddrs)]
    BY TypeParts DEF IInv
  <2> QED
    BY <1>2, <2>1
<1>5. Described(Checkpoint') = Described(Checkpoint)
  BY <1>2, <1>3, <1>4, KeptDescribed DEF fees
<1>6. Created(Checkpoint') = Created(Checkpoint) /\ Open(Checkpoint') = Open(Checkpoint)
  BY <1>5, DescribedParts
<1>7. Snapshots' = Suspended
  BY <1>2, SnapshotsSame, PrimedRegistry
<1> QED
  BY <1>1, <1>2, <1>6, <1>7, LastSnapshot, PrimedRegistry DEF Registry!Return, fees

\* Push adds one record for two new tokens: it is Create.
LEMMA PushCreates ==
  ASSUME IInv, Push, Honest(Checkpoint, frame.f)
  PROVE  \E f \in Factories, t \in SUBSET Tokens, p \in PairAddrs : Registry!Create(f, t, p)
<1> DEFINE f == frame.f
           p == frame.pair
           t == {frame.token0, frame.token1}
           new == [factory |-> f, tokens |-> t, pair |-> p]
<1>1. /\ frame.pc = "push" /\ frame' = Idle /\ UNCHANGED <<fees, getPair, pairs, outer>>
      /\ allPairs' = [allPairs EXCEPT ![f] = Append(allPairs[f], p)]
  BY DEF Push, At
<1>2. frame # Idle /\ frame \in Frames
  BY <1>1, IdleApart DEF IInv, TypeOK
<1>3. /\ f \in Factories /\ p \in PairAddrs
      /\ frame.token0 \in Tokens /\ frame.token1 \in Tokens
  BY <1>1, <1>2, FrameParts
<1>4. /\ frame.token0 # Zero /\ frame.token0 < frame.token1
      /\ getPair[f][frame.token0][frame.token1] = p
      /\ \A i \in DOMAIN allPairs[f] : allPairs[f][i] # p
      /\ pairs[p] = Complete(f, frame.token0, frame.token1)
  BY <1>1, <1>2 DEF IInv, Underway, Fresh
<1>5. allPairs \in [Factories -> Seq(PairAddrs)] /\ pairs \in [PairAddrs -> PairRecords]
  BY TypeParts DEF IInv
<1>6. frame.token0 \in Nat /\ frame.token1 \in Nat /\ frame.token0 # frame.token1
      /\ frame.token1 # Zero
  <2>1. frame.token0 \in Nat /\ frame.token1 \in Nat
    BY <1>3, FactoryAssumption
  <2> QED
    BY <1>4, <2>1 DEF Zero
<1>7. /\ t \in SUBSET Tokens
      /\ \E a, b \in Tokens \ {Zero} : a # b /\ t = {a, b}
  BY <1>3, <1>4, <1>6
<1>8. pairs[p].token0 = frame.token0 /\ pairs[p].token1 = frame.token1 /\ pairs[p].factory = f
  BY <1>4 DEF Complete, Initialized, DeployedBy, NoPair
<1> HIDE DEF f, p, t
<1>9. ASSUME NEW g \in Factories, Honest(Checkpoint, g), NEW i \in DOMAIN allPairs[g]
      PROVE  /\ allPairs[g][i] # p
             /\ g = f => {pairs[allPairs[g][i]].token0, pairs[allPairs[g][i]].token1} # t
  <2> DEFINE q == allPairs[g][i]
             a == pairs[q].token0
             b == pairs[q].token1
  <2>1. Entry(Checkpoint, g, i, q)
    BY <1>9 DEF IInv, ListedIn, Checkpoint
  <2>2. q # p
    <3>1. pairs[q].factory = g
      BY <2>1 DEF Entry, Checkpoint
    <3> QED
      BY <1>4, <1>8, <3>1
  <2>3. q \in PairAddrs /\ a \in Tokens /\ b \in Tokens
    BY <1>5 DEF PairRecords
  <2>4. a < b /\ getPair[g][a][b] = q
    BY <2>1 DEF Entry, Checkpoint
  <2> HIDE DEF a, b
  <2>5. g = f => {a, b} # t
    <3> SUFFICES ASSUME g = f, {a, b} = {frame.token0, frame.token1} PROVE FALSE
      BY DEF t
    <3>1. a \in Nat /\ b \in Nat
      BY <2>3, FactoryAssumption
    <3>2. a = frame.token0 /\ b = frame.token1
      BY <1>4, <1>6, <2>4, <3>1
    <3> QED
      BY <1>4, <2>2, <2>4, <3>2
  <2> QED
    BY <2>2, <2>5 DEF a, b
<1>10. ASSUME NEW r \in Created(Checkpoint)
       PROVE  r.pair # p /\ (r.factory = f => r.tokens # t)
  <2>1. PICK g \in Factories : Honest(Checkpoint, g) /\ \E i \in DOMAIN allPairs[g] :
          r = [factory |-> g, tokens |-> {pairs[allPairs[g][i]].token0,
                 pairs[allPairs[g][i]].token1}, pair |-> allPairs[g][i]]
    BY CreatedRecords DEF IsRecord, Checkpoint
  <2>2. PICK i \in DOMAIN allPairs[g] :
          r = [factory |-> g, tokens |-> {pairs[allPairs[g][i]].token0,
                 pairs[allPairs[g][i]].token1}, pair |-> allPairs[g][i]]
    BY <2>1
  <2> QED
    BY <1>9, <2>1, <2>2
<1>11. \A g \in Factories : Honest(Checkpoint', g) <=> Honest(Checkpoint, g)
  BY <1>1 DEF Honest, Checkpoint, fees
<1>12. Created(Checkpoint') = Created(Checkpoint) \cup {new}
  <2>1. ASSUME NEW g \in Factories, NEW i \in DOMAIN allPairs[g]
        PROVE  i \in DOMAIN allPairs'[g] /\ allPairs'[g][i] = allPairs[g][i]
    BY <1>1, <1>3, <1>5
  <2>2. ASSUME NEW g \in Factories, NEW i \in DOMAIN allPairs'[g]
        PROVE  i \in DOMAIN allPairs[g] \/ (g = f /\ allPairs'[g][i] = p)
    BY <1>1, <1>3, <1>5
  <2>3. Len(allPairs[f]) + 1 \in DOMAIN allPairs'[f] /\ allPairs'[f][Len(allPairs[f]) + 1] = p
    BY <1>1, <1>3, <1>5
  <2>4. ASSUME NEW r, r \in Created(Checkpoint)
        PROVE  r \in Created(Checkpoint')
    <3>1. PICK g \in Factories : Honest(Checkpoint, g) /\ \E i \in DOMAIN allPairs[g] :
            r = [factory |-> g, tokens |-> {pairs[allPairs[g][i]].token0,
                   pairs[allPairs[g][i]].token1}, pair |-> allPairs[g][i]]
      BY <2>4, CreatedRecords DEF IsRecord, Checkpoint
    <3>2. PICK i \in DOMAIN allPairs[g] :
            r = [factory |-> g, tokens |-> {pairs[allPairs[g][i]].token0,
                   pairs[allPairs[g][i]].token1}, pair |-> allPairs[g][i]]
      BY <3>1
    <3>3. /\ i \in DOMAIN allPairs'[g]
          /\ r = [factory |-> g, tokens |-> {pairs'[allPairs'[g][i]].token0,
                    pairs'[allPairs'[g][i]].token1}, pair |-> allPairs'[g][i]]
      BY <1>1, <2>1, <3>2
    <3>4. IsRecord(r, Checkpoint')
      BY <1>11, <3>1, <3>3 DEF IsRecord, Checkpoint
    <3> QED
      BY <3>4, CreatedRecords
  <2>5. new \in Created(Checkpoint')
    <3>1. new = [factory |-> f, tokens |-> {pairs'[p].token0, pairs'[p].token1}, pair |-> p]
      BY <1>1, <1>8 DEF t
    <3>2. Honest(Checkpoint', f)
      BY <1>3, <1>11 DEF f
    <3>3. IsRecord(new, Checkpoint')
      BY <1>3, <2>3, <3>1, <3>2 DEF IsRecord, Checkpoint
    <3> QED
      BY <3>3, CreatedRecords
  <2>6. ASSUME NEW r, r \in Created(Checkpoint')
        PROVE  r = new \/ r \in Created(Checkpoint)
    <3>1. PICK g \in Factories : Honest(Checkpoint', g) /\ \E i \in DOMAIN allPairs'[g] :
            r = [factory |-> g, tokens |-> {pairs'[allPairs'[g][i]].token0,
                   pairs'[allPairs'[g][i]].token1}, pair |-> allPairs'[g][i]]
      BY <2>6, CreatedRecords DEF IsRecord, Checkpoint
    <3>2. PICK i \in DOMAIN allPairs'[g] :
            r = [factory |-> g, tokens |-> {pairs'[allPairs'[g][i]].token0,
                   pairs'[allPairs'[g][i]].token1}, pair |-> allPairs'[g][i]]
      BY <3>1
    <3>3. CASE i \in DOMAIN allPairs[g]
      <4>1. r = [factory |-> g, tokens |-> {pairs[allPairs[g][i]].token0,
                   pairs[allPairs[g][i]].token1}, pair |-> allPairs[g][i]]
        BY <1>1, <2>1, <3>2, <3>3
      <4>2. IsRecord(r, Checkpoint)
        BY <1>11, <3>1, <3>3, <4>1 DEF IsRecord, Checkpoint
      <4> QED
        BY <4>2, CreatedRecords
    <3>4. CASE g = f /\ allPairs'[g][i] = p
      BY <1>1, <1>8, <3>2, <3>4 DEF t
    <3> QED
      BY <2>2, <3>3, <3>4
  <2> QED
    BY <2>4, <2>5, <2>6
<1>13. f \in Open(Checkpoint) /\ Open(Checkpoint') = Open(Checkpoint)
  BY <1>3, <1>11 DEF Open, f
<1>14. Snapshots' = Snapshots
  BY <1>1, SnapshotsSame DEF f
<1>15. Registry!Create(f, t, p)
  BY <1>1, <1>7, <1>10, <1>12, <1>13, <1>14, PrimedRegistry DEF Registry!Create, fees
<1> QED
  BY <1>3, <1>7, <1>15

\* The constructor, the setters, and what accounts do with pairs.
LEMMA OutsideRefines ==
  ASSUME IInv, Deployments \/ Calls
  PROVE  [Registry!Next]_(Registry!vars)
<1>1. /\ feeTo \in [Factories -> Accounts \cup {Zero}]
      /\ feeToSetter \in [Factories -> Accounts \cup {Zero}]
      /\ pairCodeHash \in [Factories -> CodeHashes]
  BY TypeParts DEF IInv
<1>2. Undeployed(Checkpoint) /\ KeepsPairs(Checkpoint, Checkpoint')
  BY OutsideHolds DEF IInv, Holds, Kept
<1>3. ASSUME frame = Idle, UNCHANGED calls
      PROVE  Snapshots' = Snapshots
  BY <1>3, SnapshotsSame DEF calls
<1>4. ASSUME frame = Idle, UNCHANGED calls, UNCHANGED <<pairCodeHash, factories, registry>>
      PROVE  /\ Created(Checkpoint)' = Created(Checkpoint)
             /\ Open(Checkpoint)' = Open(Checkpoint)
             /\ Snapshots' = Snapshots
  <2>1. \A f \in Factories : Honest(Checkpoint', f) <=> Honest(Checkpoint, f)
    BY <1>4 DEF Honest, Checkpoint
  <2>2. \A f \in Factories : Honest(Checkpoint, f) => SameListed(Checkpoint, Checkpoint', f)
    BY <1>2, <1>4 DEF SameListed, KeepsPairs, Checkpoint, registry
  <2>3. Created(Checkpoint') = Created(Checkpoint)
    BY <2>1, <2>2, CreatedSame
  <2> QED
    BY <1>3, <1>4, <2>1, <2>3, PrimedRegistry DEF Open
<1>5. ASSUME NEW c \in Accounts, NEW p \in PairAddrs, DeployPair(c, p)
      PROVE  UNCHANGED Registry!vars
  BY <1>4, <1>5 DEF DeployPair, Registry!vars
<1>6. ASSUME NEW p \in PairAddrs, NEW a \in Tokens, NEW b \in Tokens, Initialize(p, a, b)
      PROVE  UNCHANGED Registry!vars
  BY <1>4, <1>6 DEF Initialize, fees, Registry!vars
<1>7. ASSUME NEW f \in Factories, NEW c \in Accounts, NEW d \in Accounts \cup {Zero},
             SetFeeTo(f, c, d) \/ SetFeeToSetter(f, c, d)
      PROVE  Registry!SetFees(f, c)
  BY <1>4, <1>7 DEF SetFeeTo, SetFeeToSetter, MaySet, Registry!SetFees
<1>8. ASSUME NEW f \in Factories, NEW c \in Accounts \cup {Zero}, NEW h \in CodeHashes,
             DeployFactory(f, c, h)
      PROVE  Registry!Deploy(f, c)
  <2>1. /\ frame = Idle /\ UNCHANGED calls /\ UNCHANGED <<feeTo, registry, pairs>>
        /\ f \notin factories /\ factories' = factories \cup {f}
        /\ feeToSetter' = [feeToSetter EXCEPT ![f] = c]
        /\ pairCodeHash' = [pairCodeHash EXCEPT ![f] = h]
    BY <1>8 DEF DeployFactory
  <2>2. pairCodeHash[f] = NoHash /\ allPairs[f] = <<>> /\ allPairs'[f] = <<>>
    BY <1>2, <2>1 DEF Undeployed, Checkpoint, registry
  <2>3. \A g \in Factories \ {f} : Honest(Checkpoint', g) <=> Honest(Checkpoint, g)
    BY <1>1, <2>1 DEF Honest, Checkpoint
  <2>4. Created(Checkpoint') = Created(Checkpoint)
    <3>1. ASSUME NEW g \in Factories \ {f}, Honest(Checkpoint, g)
          PROVE  SameListed(Checkpoint, Checkpoint', g)
      BY <2>1 DEF SameListed, Checkpoint, registry
    <3>2. Checkpoint.allPairs = allPairs /\ Checkpoint'.allPairs = allPairs'
      BY DEF Checkpoint
    <3> QED
      BY <2>2, <2>3, <3>1, <3>2, CreatedSame
  <2>5. Open(Checkpoint') = IF h = PairCode THEN Open(Checkpoint) \cup {f} ELSE Open(Checkpoint)
    <3>1. ~Honest(Checkpoint, f) /\ (Honest(Checkpoint', f) <=> h = PairCode)
      BY <1>1, <2>1, <2>2, FactoryAssumption DEF Honest, Checkpoint
    <3> QED
      BY <2>3, <3>1 DEF Open
  <2>6. Snapshots' = Snapshots
    BY <1>3, <2>1
  <2> QED
    BY <2>1, <2>4, <2>5, <2>6, PrimedRegistry DEF Registry!Deploy
<1>9. ASSUME NEW f \in Factories, DeployFactoryBare(f)
      PROVE  Registry!Deploy(f, Zero)
  <2>1. /\ frame = Idle /\ UNCHANGED calls
        /\ UNCHANGED <<feeTo, feeToSetter, pairCodeHash, registry, pairs>>
        /\ f \notin factories /\ factories' = factories \cup {f}
    BY <1>9 DEF DeployFactoryBare
  <2>2. feeToSetter' = [feeToSetter EXCEPT ![f] = Zero]
    BY <1>1, <1>2, <2>1 DEF Undeployed, Checkpoint
  <2>3. \A g \in Factories : Honest(Checkpoint', g) <=> Honest(Checkpoint, g)
    BY <2>1 DEF Honest, Checkpoint
  <2>4. \A g \in Factories : SameListed(Checkpoint, Checkpoint', g)
    BY <2>1 DEF SameListed, Checkpoint, registry
  <2>5. Created(Checkpoint') = Created(Checkpoint) /\ Open(Checkpoint') = Open(Checkpoint)
    BY <2>3, <2>4, CreatedSame DEF Open
  <2>6. Snapshots' = Snapshots
    BY <1>3, <2>1
  <2> QED
    BY <2>1, <2>2, <2>5, <2>6, PrimedRegistry DEF Registry!Deploy
<1> QED
  BY <1>5, <1>6, <1>7, <1>8, <1>9, CreatePairRefines
  DEF Deployments, Calls, Registry!Next

\* Every step is a step of the registry, or is not seen.
LEMMA StepRefines ==
  ASSUME RefInv, [Next]_vars
  PROVE  [Registry!Next]_(Registry!vars)
<1>1. CASE Push
  BY <1>1, PushCreates, ForeignReturns DEF RefInv, Registry!Next
<1>2. CASE UNCHANGED vars
  <2>1. Checkpoint' = Checkpoint /\ frame' = frame /\ saved' = saved /\ outer' = outer
    BY <1>2 DEF vars, Checkpoint
  <2>2. Snapshots' = Snapshots
    BY <2>1, SnapshotsSame, PrimedRegistry DEF Snapshots
  <2> QED
    BY <2>1, <2>2, Stutters
<1> QED
  BY <1>1, <1>2, StepCases, OutsideRefines, SuspendStutters, GoesOnStutters, UndoRefines
  DEF RefInv

LEMMA InitRefines == Init => Registry!Init
<1> SUFFICES ASSUME Init PROVE Registry!Init
  OBVIOUS
<1>1. \A f \in Factories : ~Honest(Checkpoint, f)
  BY FactoryAssumption DEF Init, Honest, Checkpoint
<1>2. Created(Checkpoint) = {} /\ Open(Checkpoint) = {}
  BY <1>1 DEF Created, Open
<1>3. Snapshots = <<>>
  <2>1. Snapshots = Suspended /\ DOMAIN outer = {}
    BY DEF Init, Snapshots
  <2> QED
    BY <2>1 DEF Suspended
<1> QED
  BY <1>2, <1>3 DEF Init, Registry!Init

\* The factories that store the hash of the pair's code implement the abstract
\* registry: their calls, with all their steps and failures, are single steps
\* on a set of pairs, one for each factory and each two tokens, whatever code
\* runs inside the createPairs of other factories (factory.rs:107-136, 175-281).
THEOREM RegistryImplemented == Spec => ImplementsRegistry
<1>1. RefInv /\ [Next]_vars => RefInv'
  BY IInvNext, SteadyNext DEF RefInv
<1>2. RefInv /\ [Next]_vars => [Registry!Next]_(Registry!vars)
  BY StepRefines
<1> QED
  BY <1>1, <1>2, RefInvInit, InitRefines, PTL DEF Spec, ImplementsRegistry, Registry!Spec


-----------------------------------------------------------------------------
(***************************************************************************)
(* The deployment script.  Its chain takes steps of Factory only, so IInv  *)
(* holds of it.  The two invariants of the script are about what a run has *)
(* learnt from an answer; the strengthening says which transaction an      *)
(* answer can belong to, what each answer stands for from the moment it is *)
(* given, that the createPair the chain executes for a run is the one in   *)
(* progress, for the run's own factory and the two tokens, and that no     *)
(* factory of the script runs foreign code (Plain).                        *)
(***************************************************************************)
Usable(f) ==
  f \in factories /\ feeToSetter[f] = constructor.setter /\ pairCodeHash[f] = constructor.hash

Lists(f, i) ==
  {pairs[allPairs[f][i]].token0, pairs[allPairs[f][i]].token1} = {TokenA, TokenB}

HasPair(f) ==
  Honest(Checkpoint, f) /\ constructor.hash = PairCode /\ \E i \in DOMAIN allPairs[f] : Lists(f, i)

Plain ==
  /\ outer = <<>>
  /\ \A f \in factories : pairCodeHash[f] = constructor.hash
  /\ frame # Idle =>
       /\ saved.factories = factories /\ saved.feeToSetter = feeToSetter
       /\ saved.pairCodeHash = pairCodeHash /\ saved.codes = codes
       /\ saved.allPairs = allPairs
       /\ frame.f \in factories
       /\ frame.pc # "instantiate" => Honest(Checkpoint, frame.f)

ScriptType ==
  /\ pc \in [Runs -> {"start", "upload", "factory", "create", "done", "failed"}]
  /\ sent \in [Runs -> {"none", "upload", "factory", "create", "executing"}]
  /\ answer \in [Runs -> {"none", "ok", "failed"}]
  /\ address \in [Runs -> Factories \cup {Zero}]
  /\ outcome \in [Runs -> {"none", "ok", "failed"}]
  /\ constructor \in Arguments

\* A run awaits the transaction in flight, unless it has given up.
Awaited(r) ==
  /\ sent[r] \in {"upload", "factory", "create"} => pc[r] \in {sent[r], "failed"}
  /\ sent[r] = "executing" => pc[r] \in {"create", "failed"}
  /\ answer[r] # "none" => sent[r] = "none"
  /\ outcome[r] = "ok" => pc[r] = "done"

\* What a run may rely on once it has its answer.
Earned(r) ==
  /\ pc[r] \in {"factory", "create", "done"} \/ (pc[r] = "upload" /\ answer[r] = "ok") =>
       PairCode \in codes
  /\ pc[r] \in {"create", "done"} \/ (pc[r] = "factory" /\ answer[r] = "ok") =>
       Usable(address[r])
  /\ outcome[r] = "ok" \/ (pc[r] = "create" /\ answer[r] = "ok") =>
       address[r] \in Factories /\ HasPair(address[r])

Executing(r) ==
  sent[r] = "executing" =>
    /\ frame # Idle /\ frame.f = address[r]
    /\ {frame.token0, frame.token1} = {TokenA, TokenB}
    /\ \A q \in Runs : sent[q] = "executing" => q = r

ScriptInv ==
  /\ IInv /\ ScriptType /\ Plain
  /\ \A r \in Runs : Awaited(r) /\ Earned(r) /\ Executing(r)

\* What happens on the chain of the script: steps of Factory, none of which
\* sets a fee address.
ChainMove ==
  /\ constructor' = constructor
  /\ \/ UNCHANGED vars
     \/ \E c \in Accounts, p \in PairAddrs : DeployPair(c, p)
     \/ \E f \in Factories : DeployFactory(f, constructor.setter, constructor.hash)
     \/ \E p \in PairAddrs, a, b \in Tokens : Initialize(p, a, b)
     \/ \E f \in Factories, a, b \in Tokens : CreatePair(f, a, b)
     \/ CallStep

LEMMA ChainMoves ==
  ASSUME IInv, [NextD]_varsD
  PROVE  ChainMove
<1>1. factories \subseteq Factories /\ Deployer \in Accounts /\ Others \subseteq Accounts
      /\ TokenA \in Tokens /\ TokenB \in Tokens /\ OtherTokens \subseteq Tokens
  BY TypeParts, DeployAssumption DEF IInv, Others
<1>2. CASE UNCHANGED varsD
  BY <1>2 DEF varsD, ChainMove
<1>3. ASSUME NEW r \in Runs, ScriptStep(r) \/ LoseConnection(r)
      PROVE  ChainMove
  BY <1>3 DEF ScriptStep, Start, Uploaded, FactoryDeployed, PairCreated, LoseConnection,
              ChainMove, chain
<1>4. ASSUME NEW r \in Runs, Execute(r)
      PROVE  ChainMove
  <2>1. CASE ExecuteUpload(r)
    BY <1>1, <2>1 DEF ExecuteUpload, ChainMove, script
  <2>2. CASE ExecuteFactory(r)
    BY <2>2 DEF ExecuteFactory, ChainMove, script
  <2>3. CASE ExecuteCreate(r)
    <3>1. CreatePair(address[r], TokenA, TokenB) /\ constructor' = constructor
      BY <2>3 DEF ExecuteCreate, script
    <3>2. address[r] \in factories
      BY <3>1 DEF CreatePair
    <3> QED
      BY <1>1, <3>1, <3>2 DEF ChainMove
  <2>4. CASE Reject(r)
    BY <2>4 DEF Reject, ChainMove, script
  <2> QED
    BY <1>4, <2>1, <2>2, <2>3, <2>4 DEF Execute
<1>5. CASE ChainStep
  BY <1>5 DEF ChainStep, ChainMove, script
<1>6. CASE Interfere
  BY <1>1, <1>6 DEF Interfere, ChainMove, script
<1> QED
  BY <1>2, <1>3, <1>4, <1>5, <1>6 DEF NextD

LEMMA ChainIsFactory ==
  ASSUME ChainMove, constructor \in Arguments
  PROVE  [Next]_vars
<1>1. constructor.setter \in Accounts \cup {Zero} /\ constructor.hash \in CodeHashes
  BY DEF Arguments
<1> QED
  BY <1>1 DEF ChainMove, Next, Deployments, Calls

\* The createPairs of the script's factories call no foreign code.
LEMMA NothingForeign ==
  ASSUME Plain, constructor \in Arguments, CallStep
  PROVE  /\ frame # Idle
         /\ \/ \E p \in PairAddrs : Instantiate(p)
            \/ CallInitialize \/ SetPair01 \/ SetPair10 \/ Push \/ Undo
<1>1. ~Resume
  BY DEF Resume, Plain
<1>2. ASSUME NEW p \in PairAddrs, InstantiateForeign(p)
      PROVE  FALSE
  <2>1. frame # Idle /\ pairCodeHash[frame.f] \in Foreign
    BY <1>2, IdleApart DEF InstantiateForeign, At
  <2> QED
    BY <2>1 DEF Plain, Arguments
<1> QED
  BY <1>1, <1>2, IdleApart DEF CallStep, Instantiate, CallInitialize, InitializeFails,
     SetPair01, SetPair10, Push, Revert, At

\* What a createPair changes before it pushes or is undone.
LEMMA CallParts ==
  ASSUME IInv, Plain, (\E p \in PairAddrs : Instantiate(p))
                        \/ CallInitialize \/ SetPair01 \/ SetPair10
  PROVE  /\ UNCHANGED <<fees, allPairs, saved, outer>>
         /\ frame # Idle /\ frame' # Idle /\ frame'.f = frame.f
         /\ frame'.token0 = frame.token0 /\ frame'.token1 = frame.token1
         /\ Honest(Checkpoint, frame.f)
<1>1. frame # Idle /\ frame \in Frames
  BY IdleApart, TypeParts DEF IInv, Instantiate, CallInitialize, SetPair01, SetPair10, At
<1>2. UNCHANGED <<fees, allPairs, saved, outer>>
  BY DEF Instantiate, CallInitialize, SetPair01, SetPair10, registry
<1>3. /\ frame'.f = frame.f /\ frame'.token0 = frame.token0 /\ frame'.token1 = frame.token1
      /\ frame'.pc # "idle"
  BY <1>1 DEF Instantiate, Instantiated, CallInitialize, SetPair01, SetPair10, Goto, Frames, Named
<1>4. Honest(Checkpoint, frame.f)
  <2>1. CASE \E p \in PairAddrs : Instantiate(p)
    BY <2>1 DEF Instantiate, Honest, Checkpoint
  <2>2. CASE CallInitialize \/ SetPair01 \/ SetPair10
    BY <1>1, <2>2 DEF Plain, CallInitialize, SetPair01, SetPair10, At
  <2> QED
    BY <2>1, <2>2
<1> QED
  BY <1>1, <1>2, <1>3, <1>4, IdleApart

\* Plain is kept.
LEMMA PlainKeeps ==
  ASSUME IInv, Plain, constructor \in Arguments, ChainMove
  PROVE  Plain'
<1>1. outer = <<>> /\ factories \subseteq Factories /\ pairCodeHash \in [Factories -> CodeHashes]
  BY TypeParts DEF Plain, IInv
<1>2. ASSUME frame' = Idle, outer' = outer, UNCHANGED <<factories, pairCodeHash>>
      PROVE  Plain'
  BY <1>2 DEF Plain, Idle, ChainMove
<1>3. CASE UNCHANGED vars
  BY <1>3 DEF Plain, Idle, Honest, Checkpoint, vars, ChainMove
<1>4. ASSUME NEW c \in Accounts, NEW p \in PairAddrs, DeployPair(c, p)
      PROVE  Plain'
  BY <1>2, <1>4 DEF DeployPair, calls
<1>5. ASSUME NEW f \in Factories, DeployFactory(f, constructor.setter, constructor.hash)
      PROVE  Plain'
  BY <1>1, <1>5 DEF DeployFactory, calls, Plain, Idle, ChainMove
<1>6. ASSUME NEW p \in PairAddrs, NEW a \in Tokens, NEW b \in Tokens, Initialize(p, a, b)
      PROVE  Plain'
  BY <1>2, <1>6 DEF Initialize, fees, calls
<1>7. ASSUME NEW f \in Factories, NEW a \in Tokens, NEW b \in Tokens, CreatePair(f, a, b)
      PROVE  Plain'
  <2>1. /\ frame'.pc = "instantiate" /\ frame'.f = f /\ f \in factories /\ saved' = Checkpoint
        /\ UNCHANGED <<feeToSetter, pairCodeHash, factories, codes, allPairs, outer>>
    BY <1>7 DEF CreatePair, Idle, fees, registry
  <2> QED
    BY <2>1 DEF Plain, ChainMove, Checkpoint
<1>8. CASE CallStep
  <2>1. CASE (\E p \in PairAddrs : Instantiate(p)) \/ CallInitialize \/ SetPair01 \/ SetPair10
    BY <2>1, CallParts DEF Plain, ChainMove, fees, Honest, Checkpoint
  <2>2. CASE Push
    BY <1>2, <2>2 DEF Push, fees
  <2>3. CASE frame # Idle /\ Undo
    BY <1>2, <2>3 DEF Undo, Plain
  <2> QED
    BY <1>8, <2>1, <2>2, <2>3, NothingForeign
<1> QED
  BY <1>3, <1>4, <1>5, <1>6, <1>7, <1>8 DEF ChainMove

\* Nothing on the chain takes back a code, a factory or a pair.
LEMMA ChainKeeps ==
  ASSUME IInv, Plain, constructor \in Arguments, ChainMove
  PROVE  /\ codes \subseteq codes'
         /\ \A f \in Factories \cup {Zero} : Usable(f) => Usable(f)'
         /\ \A f \in Factories : HasPair(f) => HasPair(f)'
<1>1. CASE Undo /\ frame # Idle
  <2>1. /\ UNCHANGED <<factories, feeToSetter, pairCodeHash, codes, allPairs>>
        /\ pairs' = saved.pairs /\ constructor' = constructor
    BY <1>1 DEF Undo, Plain, ChainMove
  <2>2. ASSUME NEW f \in Factories, HasPair(f) PROVE HasPair(f)'
    <3>1. PICK i \in DOMAIN allPairs[f] : Lists(f, i)
      BY <2>2 DEF HasPair
    <3>2. Honest(saved, f) /\ saved.allPairs = allPairs
      BY <1>1, <2>2 DEF HasPair, Honest, Checkpoint, Plain
    <3>3. KeepsPairs(saved, Checkpoint)
      BY <1>1 DEF IInv, Chain, Base, Kept
    <3>4. pairs[allPairs[f][i]] = pairs'[allPairs[f][i]]
      BY <2>1, <3>2, <3>3 DEF KeepsPairs, Checkpoint
    <3>5. Lists(f, i)'
      BY <2>1, <3>1, <3>4 DEF Lists
    <3> QED
      BY <2>1, <2>2, <3>5 DEF HasPair, Honest, Checkpoint
  <2> QED
    BY <2>1, <2>2 DEF Usable
<1>2. CASE ~(Undo /\ frame # Idle)
  <2>1. Kept(Checkpoint, Checkpoint') /\ constructor' = constructor
    BY <1>2, ChainIsFactory, StepKeeps DEF ChainMove
  <2>2. ASSUME NEW f \in Factories, HasPair(f) PROVE HasPair(f)'
    <3>1. PICK i \in DOMAIN allPairs[f] : Lists(f, i)
      BY <2>2 DEF HasPair
    <3>2. Honest(Checkpoint, f)
      BY <2>2 DEF HasPair
    <3>3. KeepsPairs(Checkpoint, Checkpoint')
      BY <2>1 DEF Kept
    <3>4. /\ i \in DOMAIN allPairs'[f] /\ allPairs'[f][i] = allPairs[f][i]
          /\ pairs'[allPairs[f][i]] = pairs[allPairs[f][i]]
      BY <3>2, <3>3 DEF KeepsPairs, Checkpoint
    <3>5. Lists(f, i)'
      BY <3>1, <3>4 DEF Lists
    <3>6. pairCodeHash'[f] = PairCode
      BY <2>1, <3>2, FactoryAssumption DEF Kept, Honest, Checkpoint
    <3> QED
      BY <2>1, <2>2, <3>4, <3>5, <3>6 DEF HasPair, Honest, Checkpoint
  <2>3. CASE CallStep
    <3>1. UNCHANGED <<fees, constructor>>
      BY <1>2, <2>1, <2>3, NothingForeign, CallParts DEF Push
    <3> QED
      BY <2>2, <3>1 DEF Usable, fees
  <2>4. ASSUME NEW g \in Factories, DeployFactory(g, constructor.setter, constructor.hash),
               NEW f \in Factories \cup {Zero}, Usable(f)
        PROVE  Usable(f)'
    <3>1. /\ factories' = factories \cup {g} /\ g \notin factories
          /\ feeToSetter' = [feeToSetter EXCEPT ![g] = constructor.setter]
          /\ pairCodeHash' = [pairCodeHash EXCEPT ![g] = constructor.hash]
      BY <2>4 DEF DeployFactory
    <3>2. f # g
      BY <2>4, <3>1 DEF Usable
    <3> QED
      BY <2>1, <2>4, <3>1, <3>2 DEF Usable
  <2>5. CASE \E g \in Factories : DeployFactory(g, constructor.setter, constructor.hash)
    BY <2>2, <2>4, <2>5 DEF DeployFactory
  <2>6. CASE UNCHANGED <<factories, feeToSetter, pairCodeHash>> /\ codes \subseteq codes'
    BY <2>1, <2>2, <2>6 DEF Usable
  <2> QED
    BY <2>3, <2>5, <2>6 DEF ChainMove, DeployPair, Initialize, CreatePair, fees, vars
<1> QED
  BY <1>1, <1>2

LEMMA InitScript == InitD => ScriptInv
<1> SUFFICES ASSUME InitD PROVE ScriptInv
  OBVIOUS
<1>1. IInv
  BY InitIInv DEF InitD
<1>2. Plain
  BY DEF InitD, Init, Plain
<1> QED
  BY <1>1, <1>2 DEF InitD, ScriptInv, ScriptType, Awaited, Earned, Executing

\* What the address of a run stands for is not taken back either.
LEMMA AddressKeeps ==
  ASSUME IInv, Plain, constructor \in Arguments, ChainMove, NEW r \in Runs,
         address[r] \in Factories \cup {Zero}, address'[r] = address[r]
  PROVE  /\ codes \subseteq codes'
         /\ Usable(address[r]) => Usable(address[r])'
         /\ address[r] \in Factories /\ HasPair(address[r]) => HasPair(address[r])'
<1>1. PICK a \in Factories \cup {Zero} : a = address[r]
  OBVIOUS
<1>2. /\ codes \subseteq codes'
      /\ Usable(a) => Usable(a)'
      /\ a \in Factories /\ HasPair(a) => HasPair(a)'
  BY ChainKeeps
<1>3. Usable(a) => Usable(address[r])'
  BY <1>1, <1>2 DEF Usable
<1>4. a \in Factories /\ HasPair(a) => HasPair(address[r])'
  BY <1>1, <1>2 DEF HasPair, Honest, Checkpoint, Lists
<1> QED
  BY <1>1, <1>2, <1>3, <1>4

\* A step that leaves a run alone, or at most ends it, keeps what it has earned.
LEMMA RunKept ==
  ASSUME ScriptInv, ChainMove, NEW r \in Runs,
         pc'[r] = pc[r] \/ (pc'[r] = "failed" /\ pc[r] # "done"),
         sent'[r] = sent[r], answer'[r] = answer[r], address'[r] = address[r],
         outcome'[r] = outcome[r]
  PROVE  Awaited(r)' /\ Earned(r)'
<1>1. Awaited(r) /\ Earned(r) /\ IInv /\ ScriptType /\ Plain
  BY DEF ScriptInv
<1>2. Awaited(r)'
  BY <1>1 DEF Awaited
<1>3. /\ codes \subseteq codes'
      /\ Usable(address[r]) => Usable(address[r])'
      /\ address[r] \in Factories /\ HasPair(address[r]) => HasPair(address[r])'
  BY <1>1, AddressKeeps DEF ScriptType
<1> QED
  BY <1>1, <1>2, <1>3 DEF Earned, Awaited

\* The steps of a run on its side.
LEMMA ScriptKeeps ==
  ASSUME ScriptInv, NEW r \in Runs, ScriptStep(r) \/ LoseConnection(r)
  PROVE  ScriptInv'
<1>1. /\ IInv /\ ScriptType /\ Plain /\ constructor \in Arguments
      /\ \A q \in Runs : Awaited(q) /\ Earned(q) /\ Executing(q)
  BY DEF ScriptInv, ScriptType
<1>2. UNCHANGED <<vars, address, constructor>>
  BY DEF ScriptStep, Start, Uploaded, FactoryDeployed, PairCreated, LoseConnection, chain
<1>3. IInv' /\ Plain' /\ ChainMove /\ UNCHANGED <<codes, frame>>
  <2>1. ChainMove /\ UNCHANGED <<codes, frame>>
    BY <1>2 DEF ChainMove, vars
  <2> QED
    BY <1>1, <1>2, <2>1, IInvNext, PlainKeeps
<1>4. ScriptType'
  BY <1>1, <1>2 DEF ScriptStep, Start, Uploaded, FactoryDeployed, PairCreated, LoseConnection,
              Submit, Fail, ScriptType
<1>5. /\ Usable(address[r]) => Usable(address[r])'
      /\ address[r] \in Factories /\ HasPair(address[r]) => HasPair(address[r])'
  BY <1>1, <1>2, <1>3, AddressKeeps DEF ScriptType
<1>6. ASSUME NEW q \in Runs, q # r
      PROVE  /\ pc'[q] = pc[q] /\ sent'[q] = sent[q] /\ answer'[q] = answer[q]
             /\ outcome'[q] = outcome[q]
  BY <1>1, <1>6 DEF ScriptStep, Start, Uploaded, FactoryDeployed, PairCreated, LoseConnection,
                    Submit, Fail, ScriptType
<1>7. \/ /\ pc'[r] = "upload" /\ sent'[r] = "upload" /\ answer'[r] = "none"
         /\ pc[r] = "start" /\ outcome'[r] = outcome[r]
      \/ /\ pc'[r] = "factory" /\ sent'[r] = "factory" /\ answer'[r] = "none"
         /\ pc[r] = "upload" /\ answer[r] = "ok" /\ outcome'[r] = outcome[r]
      \/ /\ pc'[r] = "create" /\ sent'[r] = "create" /\ answer'[r] = "none"
         /\ pc[r] = "factory" /\ answer[r] = "ok" /\ outcome'[r] = outcome[r]
      \/ /\ pc'[r] = "done" /\ sent'[r] = sent[r] /\ answer'[r] = answer[r]
         /\ pc[r] = "create" /\ answer[r] # "none" /\ outcome'[r] = answer[r]
      \/ /\ pc'[r] = "failed" /\ sent'[r] = sent[r] /\ answer'[r] = answer[r]
         /\ pc[r] # "done" /\ outcome'[r] = outcome[r]
  <2> USE <1>1 DEF Submit, Fail, ScriptType
  <2>1. CASE Start(r)
    BY <2>1 DEF Start
  <2>2. CASE Uploaded(r)
    BY <2>2 DEF Uploaded
  <2>3. CASE FactoryDeployed(r)
    BY <2>3 DEF FactoryDeployed
  <2>4. CASE PairCreated(r)
    BY <2>4 DEF PairCreated
  <2>5. CASE LoseConnection(r)
    BY <2>5 DEF LoseConnection
  <2> QED
    BY <2>1, <2>2, <2>3, <2>4, <2>5 DEF ScriptStep
<1>8. ASSUME NEW q \in Runs PROVE Awaited(q)' /\ Earned(q)'
  <2>1. CASE q # r
    BY <1>2, <1>3, <1>6, <2>1, RunKept
  <2>2. CASE q = r
    <3>1. Awaited(r) /\ Earned(r)
      BY <1>1
    <3>2. Awaited(r)'
      BY <1>7, <3>1 DEF Awaited
    <3>3. Earned(r)'
      BY <1>2, <1>3, <1>5, <1>7, <3>1 DEF Earned, Awaited
    <3> QED
      BY <2>2, <3>2, <3>3
  <2> QED
    BY <2>1, <2>2
<1>9. \A q \in Runs : sent'[q] = "executing" => sent[q] = "executing"
  BY <1>6, <1>7
<1>10. ASSUME NEW q \in Runs PROVE Executing(q)'
  BY <1>1, <1>2, <1>3, <1>9 DEF Executing
<1> QED
  BY <1>3, <1>4, <1>8, <1>10 DEF ScriptInv

\* The chain deals with the transaction of a run, or begins its createPair.
LEMMA ExecuteKeeps ==
  ASSUME ScriptInv, NEW r \in Runs, Execute(r)
  PROVE  ScriptInv'
<1>1. /\ IInv /\ ScriptType /\ Plain /\ constructor \in Arguments
      /\ \A q \in Runs : Awaited(q) /\ Earned(q) /\ Executing(q)
  BY DEF ScriptInv, ScriptType
<1>2. ChainMove
  BY <1>1, ChainMoves DEF NextD
<1>3. IInv' /\ Plain' /\ constructor' = constructor
  BY <1>1, <1>2, IInvNext, ChainIsFactory, PlainKeeps DEF ChainMove
<1>4. frame = Idle /\ UNCHANGED <<pc, outcome>>
  BY DEF Execute, ExecuteUpload, ExecuteFactory, ExecuteCreate, Reject, DeployPair,
         DeployFactory, CreatePair, script
<1>5. ASSUME NEW q \in Runs PROVE sent[q] # "executing"
  BY <1>1, <1>4 DEF Executing
<1>6. ScriptType' /\ \A q \in Runs \ {r} : /\ sent'[q] = sent[q] /\ answer'[q] = answer[q]
                                           /\ address'[q] = address[q]
  BY <1>1, <1>3, <1>4 DEF Execute, ExecuteUpload, ExecuteFactory, ExecuteCreate, Reject, Answer,
     ScriptType
<1>7. ASSUME NEW q \in Runs, q # r PROVE Awaited(q)' /\ Earned(q)'
  BY <1>2, <1>4, <1>6, <1>7, RunKept
<1>8. ASSUME frame' = Idle, sent'[r] = "none" PROVE \A q \in Runs : Executing(q)'
  BY <1>5, <1>6, <1>8 DEF Executing
<1>9. Awaited(r) /\ Earned(r)
  BY <1>1
<1>10. CASE ExecuteUpload(r)
  <2>1. /\ sent[r] = "upload" /\ sent'[r] = "none" /\ answer'[r] = "ok"
        /\ address' = address /\ frame' = Idle /\ PairCode \in codes'
    BY <1>1, <1>4, <1>10 DEF ExecuteUpload, Answer, ScriptType, DeployPair, calls
  <2>2. /\ Usable(address[r]) => Usable(address[r])'
        /\ address[r] \in Factories /\ HasPair(address[r]) => HasPair(address[r])'
    BY <1>1, <1>2, <2>1, AddressKeeps DEF ScriptType
  <2>3. Awaited(r)' /\ Earned(r)'
    <3>1. Awaited(r)'
      BY <1>4, <1>9, <2>1 DEF Awaited
    <3>2. PairCode \in codes => PairCode \in codes'
      BY <2>1, <2>2
    <3>3. Earned(r)'
      BY <1>4, <1>9, <2>1, <2>2, <3>2 DEF Awaited, Earned
    <3> QED
      BY <3>1, <3>3
  <2> QED
    BY <1>3, <1>6, <1>7, <1>8, <2>1, <2>3 DEF ScriptInv
<1>11. CASE ExecuteFactory(r)
  <2>1. /\ sent[r] = "factory" /\ sent'[r] = "none" /\ answer'[r] = "ok"
        /\ frame' = Idle /\ codes' = codes
    BY <1>1, <1>4, <1>11 DEF ExecuteFactory, Answer, ScriptType, DeployFactory, calls
  <2>2. Usable(address[r])'
    <3>1. PICK f \in Factories : DeployFactory(f, constructor.setter, constructor.hash)
                                /\ address' = [address EXCEPT ![r] = f]
      BY <1>11 DEF ExecuteFactory
    <3>2. address'[r] = f
      BY <1>1, <3>1 DEF ScriptType
    <3>3. feeToSetter \in [Factories -> Accounts \cup {Zero}]
          /\ pairCodeHash \in [Factories -> CodeHashes]
      BY <1>1, TypeParts DEF IInv
    <3> QED
      BY <1>3, <3>1, <3>2, <3>3 DEF DeployFactory, Usable
  <2>3. Awaited(r)' /\ Earned(r)'
    <3>1. Awaited(r)'
      BY <1>4, <1>9, <2>1 DEF Awaited
    <3>2. PairCode \in codes => PairCode \in codes'
      BY <2>1, <2>2
    <3>3. Earned(r)'
      BY <1>4, <1>9, <2>1, <2>2, <3>2 DEF Awaited, Earned
    <3> QED
      BY <3>1, <3>3
  <2> QED
    BY <1>3, <1>6, <1>7, <1>8, <2>1, <2>3 DEF ScriptInv
<1>12. CASE ExecuteCreate(r)
  <2>1. /\ sent[r] = "create" /\ sent'[r] = "executing" /\ answer' = answer
        /\ address' = address /\ CreatePair(address[r], TokenA, TokenB)
    BY <1>1, <1>12 DEF ExecuteCreate, ScriptType
  <2>2. /\ codes \subseteq codes'
        /\ Usable(address[r]) => Usable(address[r])'
        /\ address[r] \in Factories /\ HasPair(address[r]) => HasPair(address[r])'
    BY <1>1, <1>2, <2>1, AddressKeeps DEF ScriptType
  <2>3. Awaited(r)' /\ Earned(r)'
    <3>1. Awaited(r)'
      BY <1>4, <1>9, <2>1 DEF Awaited
    <3>2. PairCode \in codes => PairCode \in codes'
      BY <2>1, <2>2
    <3>3. Earned(r)'
      BY <1>4, <1>9, <2>1, <2>2, <3>2 DEF Awaited, Earned
    <3> QED
      BY <3>1, <3>3
  <2>4. /\ frame'.pc = "instantiate" /\ frame'.f = address[r]
        /\ {frame'.token0, frame'.token1} = {TokenA, TokenB}
    BY <2>1 DEF CreatePair, sort_tokens, Idle
  <2>5. frame' # Idle
    BY <2>4, IdleApart
  <2>6. \A q \in Runs : sent'[q] = "executing" => q = r
    BY <1>5, <1>6
  <2>7. ASSUME NEW q \in Runs PROVE Executing(q)'
    BY <2>1, <2>4, <2>5, <2>6 DEF Executing
  <2> QED
    BY <1>3, <1>6, <1>7, <2>3, <2>7 DEF ScriptInv
<1>13. CASE Reject(r)
  <2>1. /\ sent'[r] = "none" /\ answer'[r] = "failed" /\ address' = address
        /\ frame' = Idle
    BY <1>1, <1>4, <1>13 DEF Reject, Answer, ScriptType, vars
  <2>2. /\ codes \subseteq codes'
        /\ Usable(address[r]) => Usable(address[r])'
        /\ address[r] \in Factories /\ HasPair(address[r]) => HasPair(address[r])'
    BY <1>1, <1>2, <2>1, AddressKeeps DEF ScriptType
  <2>3. Awaited(r)' /\ Earned(r)'
    <3>1. Awaited(r)'
      BY <1>4, <1>9, <2>1 DEF Awaited
    <3>2. PairCode \in codes => PairCode \in codes'
      BY <2>1, <2>2
    <3>3. Earned(r)'
      BY <1>4, <1>9, <2>1, <2>2, <3>2 DEF Awaited, Earned
    <3> QED
      BY <3>1, <3>3
  <2> QED
    BY <1>3, <1>6, <1>7, <1>8, <2>1, <2>3 DEF ScriptInv
<1> QED
  BY <1>10, <1>11, <1>12, <1>13 DEF Execute

\* The createPair that Push ends gives its factory a pair of its two tokens.
LEMMA PushGivesPair ==
  ASSUME IInv, Plain, Push
  PROVE  \E i \in DOMAIN allPairs'[frame.f] :
           {pairs'[allPairs'[frame.f][i]].token0, pairs'[allPairs'[frame.f][i]].token1}
             = {frame.token0, frame.token1}
<1>1. /\ frame.pc = "push" /\ pairs' = pairs
      /\ allPairs' = [allPairs EXCEPT ![frame.f] = Append(allPairs[frame.f], frame.pair)]
  BY DEF Push, At
<1>2. frame # Idle /\ frame \in Frames
  BY <1>1, IdleApart, TypeParts DEF IInv
<1>3. frame.f \in Factories /\ frame.pair \in PairAddrs
  BY <1>1, <1>2 DEF Frames, Named
<1>4. /\ allPairs \in [Factories -> Seq(PairAddrs)]
      /\ pairs[frame.pair] = Complete(frame.f, frame.token0, frame.token1)
  BY <1>1, <1>2, TypeParts DEF IInv, Plain, Fresh
<1>5. pairs[frame.pair].token0 = frame.token0 /\ pairs[frame.pair].token1 = frame.token1
  BY <1>4 DEF Complete, Initialized, DeployedBy, NoPair
<1>6. /\ Len(allPairs[frame.f]) + 1 \in DOMAIN allPairs'[frame.f]
      /\ allPairs'[frame.f][Len(allPairs[frame.f]) + 1] = frame.pair
  BY <1>1, <1>3, <1>4
<1> QED
  BY <1>1, <1>5, <1>6

\* A step of the createPair in progress, which may end it and answer its run.
LEMMA ChainStepKeeps ==
  ASSUME ScriptInv, ChainStep
  PROVE  ScriptInv'
<1>1. /\ IInv /\ ScriptType /\ Plain /\ constructor \in Arguments
      /\ \A q \in Runs : Awaited(q) /\ Earned(q) /\ Executing(q)
  BY DEF ScriptInv, ScriptType
<1>2. CallStep /\ ChainMove /\ UNCHANGED <<pc, outcome, address, constructor>>
  BY DEF ChainStep, ChainMove, script
<1>3. IInv' /\ Plain' /\ constructor' = constructor
  BY <1>1, <1>2, IInvNext, ChainIsFactory, PlainKeeps DEF ChainMove
<1>4. CASE ~(\E r \in Runs : sent[r] = "executing" /\ frame' = Idle)
  <2>1. UNCHANGED <<sent, answer>>
    BY <1>4 DEF ChainStep
  <2>2. ScriptType'
    BY <1>1, <1>2, <2>1 DEF ScriptType
  <2>3. ASSUME NEW q \in Runs PROVE Awaited(q)' /\ Earned(q)'
    BY <1>2, <2>1, RunKept
  <2>4. frame' # Idle => /\ frame'.f = frame.f /\ frame'.token0 = frame.token0
                         /\ frame'.token1 = frame.token1
    BY <1>1, <1>2, NothingForeign, CallParts DEF Push, Undo
  <2>5. ASSUME NEW q \in Runs PROVE Executing(q)'
    <3> SUFFICES ASSUME sent'[q] = "executing"
                 PROVE  /\ frame' # Idle /\ frame'.f = address'[q]
                        /\ {frame'.token0, frame'.token1} = {TokenA, TokenB}
                        /\ \A p \in Runs : sent'[p] = "executing" => p = q
      BY DEF Executing
    <3>1. sent[q] = "executing" /\ frame' # Idle
      BY <1>4, <2>1
    <3>2. Executing(q)
      BY <1>1
    <3> QED
      BY <1>2, <2>1, <2>4, <3>1, <3>2 DEF Executing
  <2> QED
    BY <1>3, <2>2, <2>3, <2>5 DEF ScriptInv
<1>5. CASE \E r \in Runs : sent[r] = "executing" /\ frame' = Idle
  <2>1. frame' = Idle
    BY <1>5
  <2>2. PICK r \in Runs : /\ sent[r] = "executing"
                          /\ Answer(r, IF allPairs' # saved.allPairs THEN "ok" ELSE "failed")
    BY <1>5 DEF ChainStep
  <2>3. /\ sent' = [sent EXCEPT ![r] = "none"]
        /\ answer' = [answer EXCEPT ![r] = IF allPairs' # saved.allPairs THEN "ok" ELSE "failed"]
    BY <2>2 DEF Answer
  <2>4. ScriptType'
    BY <1>1, <1>2, <2>3 DEF ScriptType
  <2>5. ASSUME NEW q \in Runs, q # r PROVE Awaited(q)' /\ Earned(q)'
    <3>1. sent'[q] = sent[q] /\ answer'[q] = answer[q]
      BY <1>1, <2>3, <2>5 DEF ScriptType
    <3> QED
      BY <1>2, <3>1, RunKept
  <2>6. Executing(r) /\ Awaited(r) /\ Earned(r)
    BY <1>1
  <2>7. sent'[r] = "none" /\ pc'[r] = pc[r] /\ pc[r] \in {"create", "failed"} /\ outcome[r] # "ok"
    BY <1>1, <1>2, <2>2, <2>3, <2>6 DEF ScriptType, Awaited
  <2>8. answer'[r] = "ok" => address'[r] \in Factories /\ HasPair(address[r])'
    <3> SUFFICES ASSUME answer'[r] = "ok" PROVE address'[r] \in Factories /\ HasPair(address[r])'
      OBVIOUS
    <3>1. allPairs' # saved.allPairs
      BY <1>1, <2>3 DEF ScriptType
    <3>2. /\ frame # Idle /\ frame.f = address[r]
          /\ {frame.token0, frame.token1} = {TokenA, TokenB}
      BY <2>2, <2>6 DEF Executing
    <3>3. frame \in Frames
      BY <1>1, <3>2, TypeParts DEF IInv
    <3>4. frame.f \in Factories
      BY <3>3 DEF Frames, Named
    <3>5. Push
      BY <1>1, <1>2, <2>1, <3>1, NothingForeign, CallParts DEF Undo
    <3>6. HasPair(address[r])'
      <4>1. Honest(Checkpoint, frame.f) /\ constructor.hash = PairCode
        BY <1>1, <3>2, <3>5 DEF Plain, Push, At, Honest, Checkpoint
      <4>2. Honest(Checkpoint', frame.f)
        BY <3>5, <4>1 DEF Push, fees, Honest, Checkpoint
      <4>3. PICK i \in DOMAIN allPairs'[frame.f] :
               {pairs'[allPairs'[frame.f][i]].token0, pairs'[allPairs'[frame.f][i]].token1}
                 = {frame.token0, frame.token1}
        BY <1>1, <3>5, PushGivesPair
      <4>4. address'[r] = frame.f
        BY <1>2, <3>2
      <4> QED
        BY <1>2, <3>2, <4>1, <4>2, <4>3, <4>4 DEF HasPair, Lists, Honest, Checkpoint
    <3> QED
      BY <1>2, <3>2, <3>4, <3>6
  <2>9. /\ codes \subseteq codes'
        /\ Usable(address[r]) => Usable(address[r])'
    BY <1>1, <1>2, AddressKeeps DEF ScriptType
  <2>10. Awaited(r)' /\ Earned(r)'
    <3>1. Awaited(r)'
      BY <1>2, <2>6, <2>7 DEF Awaited
    <3>2. Earned(r)'
      BY <1>2, <2>6, <2>7, <2>8, <2>9 DEF Earned
    <3> QED
      BY <3>1, <3>2
  <2>11. ASSUME NEW q \in Runs PROVE sent'[q] # "executing"
    <3>1. sent[q] = "executing" => q = r
      BY <2>2, <2>6 DEF Executing
    <3> QED
      BY <1>1, <2>3, <3>1 DEF ScriptType
  <2>12. ASSUME NEW q \in Runs PROVE Executing(q)'
    BY <2>11 DEF Executing
  <2> QED
    BY <1>3, <2>4, <2>5, <2>10, <2>12 DEF ScriptInv
<1> QED
  BY <1>4, <1>5

\* The other accounts act between the calls only.
LEMMA InterfereKeeps ==
  ASSUME ScriptInv, Interfere
  PROVE  ScriptInv'
<1>1. /\ IInv /\ ScriptType /\ Plain /\ constructor \in Arguments
      /\ \A q \in Runs : Awaited(q) /\ Earned(q) /\ Executing(q)
  BY DEF ScriptInv, ScriptType
<1>2. ChainMove
  BY <1>1, ChainMoves DEF NextD
<1>3. IInv' /\ Plain' /\ constructor' = constructor
  BY <1>1, <1>2, IInvNext, ChainIsFactory, PlainKeeps DEF ChainMove
<1>4. frame = Idle /\ UNCHANGED <<pc, outcome, sent, answer, address>>
  BY DEF Interfere, DeployPair, Initialize, CreatePair, script
<1>5. ScriptType'
  BY <1>1, <1>3, <1>4 DEF ScriptType
<1>6. ASSUME NEW q \in Runs PROVE Awaited(q)' /\ Earned(q)'
  BY <1>2, <1>4, RunKept
<1>7. ASSUME NEW q \in Runs PROVE Executing(q)'
  BY <1>1, <1>4 DEF Executing
<1> QED
  BY <1>3, <1>5, <1>6, <1>7 DEF ScriptInv

LEMMA ScriptNext == ScriptInv /\ [NextD]_varsD => ScriptInv'
<1> SUFFICES ASSUME ScriptInv, [NextD]_varsD PROVE ScriptInv'
  OBVIOUS
<1>1. CASE UNCHANGED varsD
  <2>1. UNCHANGED <<vars, pc, sent, answer, address, outcome, constructor>> /\ ChainMove
    BY <1>1 DEF varsD, ChainMove
  <2>2. IInv' /\ Plain'
    BY <2>1, IInvNext, PlainKeeps DEF ScriptInv, ScriptType
  <2>3. ScriptType'
    BY <2>1 DEF ScriptInv, ScriptType
  <2>4. ASSUME NEW q \in Runs PROVE Awaited(q)' /\ Earned(q)'
    BY <2>1, RunKept
  <2>5. ASSUME NEW q \in Runs PROVE Executing(q)'
    BY <2>1 DEF ScriptInv, Executing, vars
  <2> QED
    BY <2>2, <2>3, <2>4, <2>5 DEF ScriptInv
<1> QED
  BY <1>1, ScriptKeeps, ExecuteKeeps, ChainStepKeeps, InterfereKeeps DEF NextD

\* A pair that an honest factory lists is what getPair returns for its tokens
\* in either order, between the calls and inside one.
LEMMA ListedIsReturned ==
  ASSUME IInv, NEW f \in Factories, Honest(Checkpoint, f), NEW i \in DOMAIN allPairs[f],
         NEW a \in Tokens, NEW b \in Tokens,
         {pairs[allPairs[f][i]].token0, pairs[allPairs[f][i]].token1} = {a, b}
  PROVE  getPair[f][a][b] = allPairs[f][i]
<1> DEFINE p == allPairs[f][i]
           t0 == pairs[p].token0
           t1 == pairs[p].token1
<1>1. allPairs \in [Factories -> Seq(PairAddrs)] /\ pairs \in [PairAddrs -> PairRecords]
  BY TypeParts DEF IInv
<1>2. p \in PairAddrs /\ p # Zero
  BY <1>1, FactoryAssumption
<1>3. getPair[f][t0][t1] = p /\ t0 < t1
  BY DEF IInv, ListedIn, Entry, Checkpoint
<1>4. t0 \in Tokens /\ t1 \in Tokens
  BY <1>1, <1>2 DEF PairRecords
<1>5. getPair[f][t1][t0] = p
  <2> HIDE DEF t0, t1
  <2>1. CASE MappedAt(Checkpoint, f, t0, t1)
    BY <1>3, <2>1 DEF MappedAt, Checkpoint
  <2>2. CASE ~MappedAt(Checkpoint, f, t0, t1)
    <3>1. frame # Idle /\ frame \in Frames
      BY <1>4, <2>2, TypeParts DEF IInv, MappedIn
    <3>2. Both(frame, f, t0, t1) /\ frame.pc \notin {"instantiate", "initialize", "set01"}
      BY <1>4, <2>2, <3>1 DEF IInv, Underway, MappedIn
    <3>3. /\ frame.token0 < frame.token1 /\ f = frame.f
          /\ getPair[frame.f][frame.token0][frame.token1] = frame.pair
      BY <3>1, <3>2 DEF IInv, Underway, Frames, Named, Both
    <3>4. frame.token0 = t0 /\ frame.token1 = t1
      <4>1. t0 \in Nat /\ t1 \in Nat
        BY <1>4, FactoryAssumption
      <4> QED
        BY <1>3, <3>2, <3>3, <4>1 DEF Both
    <3>5. p = frame.pair
      BY <1>3, <3>3, <3>4
    <3>6. \A j \in DOMAIN allPairs[frame.f] : allPairs[frame.f][j] # frame.pair
      BY <3>1, <3>2, <3>3 DEF IInv, Fresh
    <3> QED
      BY <3>3, <3>5, <3>6
  <2> QED
    BY <2>1, <2>2
<1> QED
  BY <1>3, <1>5

LEMMA ScriptInvInvariant == SpecD => []ScriptInv
BY InitScript, ScriptNext, PTL DEF SpecD

\* The factory a run of the script goes on with keeps what its constructor was
\* given, and the chain has the code of the pair, whatever transactions of
\* other runs are in flight and whenever the connection is lost, for whatever
\* hash and setter the script computes (deploy_native.ts:83-128).
THEOREM FactoryIsUsable == SpecD => []FactoryUsable
<1>1. ScriptInv => FactoryUsable
  BY DEF ScriptInv, Earned, Usable, FactoryUsable
<1> QED
  BY <1>1, ScriptInvInvariant, PTL

\* A createPair the chain answers with success shows that the hash the script
\* computed is the chain's, and has registered a pair of the two tokens in the
\* run's own factory, for ever (deploy_native.ts:162-166).
THEOREM ReportedPairStays == SpecD => []ReportedPairExists
<1>1. ScriptInv => ReportedPairExists
  <2> SUFFICES ASSUME ScriptInv, NEW r \in Runs, outcome[r] = "ok", NEW f, f = address[r], NEW p,
                      p = getPair[f][TokenA][TokenB]
               PROVE  /\ constructor.hash = PairCode
                      /\ p # Zero /\ pairs[p].code = PairCode /\ pairs[p].factory = f
                      /\ {pairs[p].token0, pairs[p].token1} = {TokenA, TokenB}
    BY DEF ReportedPairExists
  <2>1. IInv /\ f \in Factories /\ HasPair(f)
    BY DEF ScriptInv, Earned
  <2>2. Honest(Checkpoint, f) /\ constructor.hash = PairCode
    BY <2>1 DEF HasPair
  <2>3. PICK i \in DOMAIN allPairs[f] : Lists(f, i)
    BY <2>1 DEF HasPair
  <2>4. p = allPairs[f][i]
    BY <2>1, <2>2, <2>3, DeployAssumption, ListedIsReturned DEF Lists
  <2>5. p \in PairAddrs
    <3>1. allPairs \in [Factories -> Seq(PairAddrs)]
      BY <2>1, TypeParts DEF IInv
    <3> QED
      BY <2>1, <2>4, <3>1
  <2>6. pairs[p].code = PairCode /\ pairs[p].factory = f
    BY <2>1, <2>2, <2>4 DEF IInv, ListedIn, Entry, Checkpoint
  <2> QED
    BY <2>2, <2>3, <2>4, <2>5, <2>6, FactoryAssumption DEF Lists
<1> QED
  BY <1>1, ScriptInvInvariant, PTL

=============================================================================
