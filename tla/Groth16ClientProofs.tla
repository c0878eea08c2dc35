------------------------ MODULE Groth16ClientProofs -------------------------
(***************************************************************************)
(* Proofs, for every set of packets and every bound, of the properties of  *)
(* Groth16Client that MCGroth16Client checks on small instances.           *)
(***************************************************************************)
EXTENDS Groth16Client, TLAPS

\* What the roll-up itself guarantees: blocks only add commitments, their times
\* never go back, and no block comes from the future.
EvmMonotone ==
    /\ \A i, j \in DOMAIN evmChain : i <= j =>
         /\ evmChain[i].root.commitments \subseteq evmChain[j].root.commitments
         /\ evmChain[i].time <= evmChain[j].time
    /\ \A i \in DOMAIN evmChain : evmChain[i].time <= now

\* The inductive invariant: each conjunct needs the ones before it.
IInv ==
    /\ TypeOK
    /\ StoreConsistent
    /\ RootsMatchEvm
    /\ LatestHeightTrusted
    /\ EvmMonotone
    /\ ProcessedAfterProduced

-----------------------------------------------------------------------------
(* The shape of the steps.                                                 *)

\* A store write of a value of type S keeps the function's type.
LEMMA SetType ==
    ASSUME NEW f, NEW S, f \in [DOMAIN f -> S], NEW k, NEW v \in S
    PROVE  Set(f, k, v) \in [DOMAIN f \cup {k} -> S]
BY DEF Set

\* A new block extends the chain by one block and touches nothing before it.
LEMMA ProduceBlockLemma ==
    ASSUME TypeOK, NEW ps \in SUBSET Packets, NEW changed \in BOOLEAN,
           ProduceBlock(ps, changed)
    PROVE  /\ evmChain' \in Seq(Blocks)
           /\ Len(evmChain') = Len(evmChain) + 1
           /\ DOMAIN evmChain = 1..Len(evmChain)
           /\ DOMAIN evmChain' = 1..(Len(evmChain) + 1)
           /\ \A i \in DOMAIN evmChain : evmChain'[i] = evmChain[i]
           /\ evmChain'[Len(evmChain) + 1].time = now + 1
           /\ LatestRoot.commitments \subseteq
                evmChain'[Len(evmChain) + 1].root.commitments
           /\ now' = now + 1
<1> DEFINE new == [root |-> IF changed
                            THEN [version |-> LatestRoot.version + 1,
                                  commitments |-> LatestRoot.commitments \cup ps]
                            ELSE LatestRoot,
                   time |-> now + 1]
<1>1. LatestRoot \in Roots
  <2>1. CASE evmChain = <<>>
    BY <2>1 DEF LatestRoot, GenesisRoot, Roots
  <2>2. CASE evmChain # <<>>
    <3>1. evmChain[Len(evmChain)] \in Blocks
      BY <2>2 DEF TypeOK
    <3> QED BY <2>2, <3>1 DEF LatestRoot, Blocks
  <2> QED BY <2>1, <2>2
<1>2. new \in Blocks
  <2>1. [version |-> LatestRoot.version + 1,
         commitments |-> LatestRoot.commitments \cup ps] \in Roots
    BY <1>1 DEF Roots
  <2> QED BY <1>1, <2>1 DEF TypeOK, Blocks
<1>3. evmChain' = Append(evmChain, new) /\ now' = now + 1
  BY DEF ProduceBlock
<1>4. LatestRoot.commitments \subseteq new.root.commitments
  OBVIOUS
<1> HIDE DEF new
<1>5. evmChain' \in Seq(Blocks) /\ Len(evmChain') = Len(evmChain) + 1
  BY <1>2, <1>3 DEF TypeOK
<1>6. /\ DOMAIN evmChain = 1..Len(evmChain)
      /\ DOMAIN evmChain' = 1..(Len(evmChain) + 1)
      /\ \A i \in DOMAIN evmChain : evmChain'[i] = evmChain[i]
      /\ evmChain'[Len(evmChain) + 1] = new
  BY <1>2, <1>3, <1>5 DEF TypeOK
<1>7. new.time = now + 1
  BY DEF new
<1> QED BY <1>3, <1>4, <1>5, <1>6, <1>7

\* Initialize and UpdateClient both store, at a height of the chain, that block's
\* root with the time of a block that is not later, and make it LatestHeight.
StoreStep(h, t) ==
    /\ h \in DOMAIN evmChain
    /\ \E b \in 1..h : t = evmChain[b].time
    /\ SetConsensusState(h, [StateRoot |-> evmChain[h].root, HeaderTimestamp |-> t])
    /\ SetConsensusMetadata(h)
    /\ SetClientState(h)
    /\ UNCHANGED <<evmChain, now>>

\* Both handlers that write the store are such steps.
LEMMA StoreStepLemma ==
    ASSUME TypeOK
    PROVE  /\ \A h \in DOMAIN evmChain : Initialize(h) => StoreStep(h, evmChain[h].time)
           /\ \A t \in 1..MaxEvmHeight, n \in DOMAIN evmChain, b \in DOMAIN evmChain :
                b <= n /\ UpdateClient(RelayedHeader(t, n, b)) =>
                  StoreStep(n, evmChain[b].time)
<1> USE DEF TypeOK
<1>1. DOMAIN evmChain = 1..Len(evmChain)
  OBVIOUS
<1>2. ASSUME NEW h \in DOMAIN evmChain, Initialize(h)
      PROVE  StoreStep(h, evmChain[h].time)
  <2>1. h \in 1..h
    BY <1>1
  <2> QED BY <1>2, <2>1 DEF Initialize, StoreStep
<1>3. ASSUME NEW t \in 1..MaxEvmHeight, NEW n \in DOMAIN evmChain,
             NEW b \in DOMAIN evmChain, b <= n, UpdateClient(RelayedHeader(t, n, b))
      PROVE  StoreStep(n, evmChain[b].time)
  <2>1. b \in 1..n
    BY <1>1, <1>3
  <2> QED BY <1>3, <2>1 DEF UpdateClient, UpdateState, RelayedHeader, StoreStep
<1> QED BY <1>2, <1>3

\* What such a step does to the four maps.
LEMMA StoreStepShape ==
    ASSUME TypeOK, NEW h, NEW t, StoreStep(h, t)
    PROVE  /\ h \in Heights /\ t \in Nat
           /\ EvmMonotone => t <= evmChain[h].time
           /\ DOMAIN consensusStates' = DOMAIN consensusStates \cup {h}
           /\ consensusStates'[h] = [StateRoot |-> evmChain[h].root, HeaderTimestamp |-> t]
           /\ \A k \in DOMAIN consensusStates : k # h => consensusStates'[k] = consensusStates[k]
           /\ consensusStates' \in [DOMAIN consensusStates' -> ConsensusState]
<1> DEFINE cs == [StateRoot |-> evmChain[h].root, HeaderTimestamp |-> t]
<1>1. h \in DOMAIN evmChain /\ h \in Heights /\ evmChain[h] \in Blocks
  BY DEF StoreStep, TypeOK, Heights
<1>2. PICK b \in 1..h : t = evmChain[b].time
  BY DEF StoreStep
<1>3. b \in DOMAIN evmChain /\ b <= h /\ evmChain[b] \in Blocks
  BY <1>1, <1>2 DEF TypeOK, Heights
<1>4. t \in Nat /\ cs \in ConsensusState
  BY <1>1, <1>2, <1>3 DEF Blocks, ConsensusState
<1>5. EvmMonotone => t <= evmChain[h].time
  BY <1>1, <1>2, <1>3 DEF EvmMonotone
<1>6. consensusStates' = Set(consensusStates, h, cs)
  BY DEF StoreStep, SetConsensusState
<1>7. consensusStates' \in [DOMAIN consensusStates \cup {h} -> ConsensusState]
  BY <1>4, <1>6, SetType DEF TypeOK
<1> HIDE DEF cs
<1>8. /\ DOMAIN consensusStates' = DOMAIN consensusStates \cup {h}
      /\ consensusStates'[h] = cs
      /\ \A k \in DOMAIN consensusStates : k # h => consensusStates'[k] = consensusStates[k]
  BY <1>6 DEF Set
<1> QED BY <1>1, <1>4, <1>5, <1>7, <1>8 DEF cs

-----------------------------------------------------------------------------
(* The inductive invariant.                                                *)

\* The initial states have it: the store is empty.
LEMMA InitIInv == Init => IInv
BY DEF Init, IInv, TypeOK, StoreConsistent, RootsMatchEvm, LatestHeightTrusted,
       EvmMonotone, ProcessedAfterProduced, Heights

\* A new EVM block keeps it: the store is untouched, the chain only grows.
LEMMA ProduceBlockIInv ==
    ASSUME IInv, NEW ps \in SUBSET Packets, NEW changed \in BOOLEAN,
           ProduceBlock(ps, changed)
    PROVE  IInv'
<1> DEFINE n == Len(evmChain)
<1>1. TypeOK
  BY DEF IInv
<1>t. n \in Nat /\ now \in Nat
  BY <1>1 DEF TypeOK
<1>2. /\ evmChain' \in Seq(Blocks)
      /\ n \in Nat
      /\ DOMAIN evmChain = 1..n
      /\ DOMAIN evmChain' = 1..(n + 1)
      /\ \A i \in DOMAIN evmChain : evmChain'[i] = evmChain[i]
      /\ evmChain'[n + 1].time = now + 1
      /\ LatestRoot.commitments \subseteq evmChain'[n + 1].root.commitments
      /\ now' = now + 1
      /\ now \in Nat
  BY <1>1, <1>t, ProduceBlockLemma
<1>3. UNCHANGED store
  BY DEF ProduceBlock
<1>4. TypeOK' /\ StoreConsistent' /\ LatestHeightTrusted'
  BY <1>2, <1>3 DEF IInv, TypeOK, StoreConsistent, LatestHeightTrusted, store
<1>5. RootsMatchEvm'
  BY <1>2, <1>3 DEF IInv, RootsMatchEvm, store
<1>6. EvmMonotone'
  <2>1. \A i \in DOMAIN evmChain : evmChain[i] \in Blocks
    BY <1>1 DEF TypeOK
  <2>2. \A i \in DOMAIN evmChain : evmChain[i].time \in Nat
    BY <2>1 DEF Blocks
  <2>3. \A i \in DOMAIN evmChain' : evmChain'[i].time <= now'
    BY <1>2, <2>2 DEF IInv, EvmMonotone
  <2>4. ASSUME NEW i \in DOMAIN evmChain', NEW j \in DOMAIN evmChain', i <= j
        PROVE  /\ evmChain'[i].root.commitments \subseteq evmChain'[j].root.commitments
               /\ evmChain'[i].time <= evmChain'[j].time
    <3>1. CASE j \in DOMAIN evmChain
      <4>1. i \in DOMAIN evmChain
        BY <1>2, <2>4, <3>1
      <4> QED BY <1>2, <2>4, <3>1, <4>1 DEF IInv, EvmMonotone
    <3>2. CASE j = n + 1 /\ i = n + 1
      BY <1>2, <3>2
    <3>3. CASE j = n + 1 /\ i \in DOMAIN evmChain
      <4>1. evmChain # <<>> /\ n \in DOMAIN evmChain /\ i <= n
        BY <1>2, <3>3
      <4>2. LatestRoot = evmChain[n].root
        BY <4>1 DEF LatestRoot
      <4>3. evmChain[i].root.commitments \subseteq evmChain[n].root.commitments
        BY <3>3, <4>1 DEF IInv, EvmMonotone
      <4>4. evmChain'[i].root.commitments \subseteq evmChain'[j].root.commitments
        BY <1>2, <3>3, <4>2, <4>3
      <4>5. evmChain'[i].time <= evmChain'[j].time
        BY <1>2, <2>2, <3>3 DEF IInv, EvmMonotone
      <4> QED BY <4>4, <4>5
    <3> QED BY <1>2, <2>4, <3>1, <3>2, <3>3
  <2> QED BY <2>3, <2>4 DEF EvmMonotone
<1>7. ProcessedAfterProduced'
  <2>1. \A h \in DOMAIN consensusStates : processedTime[h] \in Nat
    BY DEF IInv, StoreConsistent
  <2> QED BY <1>2, <1>3, <2>1 DEF IInv, ProcessedAfterProduced, RootsMatchEvm, store
<1> QED BY <1>4, <1>5, <1>6, <1>7 DEF IInv

\* A SimApp block keeps it: only the clock moves.
LEMMA TickIInv == IInv /\ Tick => IInv'
<1> SUFFICES ASSUME IInv, Tick PROVE IInv'
  OBVIOUS
<1>1. /\ UNCHANGED <<evmChain, store>>
      /\ now' = now + 1
      /\ now \in Nat
  BY DEF Tick, IInv, TypeOK
<1>2. /\ \A i \in DOMAIN evmChain : evmChain[i].time \in Nat
      /\ \A h \in DOMAIN consensusStates : processedTime[h] \in Nat
  <2>1. \A i \in DOMAIN evmChain : evmChain[i] \in Blocks
    BY DEF IInv, TypeOK
  <2> QED BY <2>1 DEF IInv, StoreConsistent, Blocks
<1>3. TypeOK' /\ StoreConsistent' /\ LatestHeightTrusted' /\ RootsMatchEvm'
  BY <1>1 DEF IInv, TypeOK, StoreConsistent, LatestHeightTrusted, RootsMatchEvm, store
<1>4. EvmMonotone' /\ ProcessedAfterProduced'
  BY <1>1, <1>2 DEF IInv, EvmMonotone, ProcessedAfterProduced, store
<1> QED BY <1>3, <1>4 DEF IInv

\* A step that stores the root of a block keeps it.
LEMMA StoreStepIInv ==
    ASSUME IInv, NEW h, NEW t, StoreStep(h, t)
    PROVE  IInv'
<1>1. TypeOK /\ EvmMonotone
  BY DEF IInv
<1>2. /\ h \in Heights /\ t \in Nat
      /\ t <= evmChain[h].time
      /\ DOMAIN consensusStates' = DOMAIN consensusStates \cup {h}
      /\ consensusStates'[h] = [StateRoot |-> evmChain[h].root, HeaderTimestamp |-> t]
      /\ \A k \in DOMAIN consensusStates : k # h => consensusStates'[k] = consensusStates[k]
      /\ consensusStates' \in [DOMAIN consensusStates' -> ConsensusState]
  BY <1>1, StoreStepShape
<1>3. /\ h \in DOMAIN evmChain
      /\ UNCHANGED <<evmChain, now>>
      /\ now \in Nat
  BY <1>1 DEF StoreStep, TypeOK
<1>4. /\ iterationKeys' = iterationKeys \cup {h}
      /\ processedTime' \in [iterationKeys' -> Nat]
      /\ processedHeight' \in [iterationKeys' -> Nat]
      /\ processedTime'[h] = now
      /\ \A k \in iterationKeys : k # h => processedTime'[k] = processedTime[k]
  BY <1>3 DEF StoreStep, SetConsensusMetadata, Set, IInv, StoreConsistent
<1>5. clientState' = [exists |-> TRUE, LatestHeight |-> h]
  BY DEF StoreStep, SetClientState
<1>6. TypeOK'
  <2>1. clientState' \in [exists : BOOLEAN, LatestHeight : Nat]
    BY <1>2, <1>5 DEF Heights
  <2> QED BY <1>1, <1>2, <1>3, <1>4, <2>1 DEF TypeOK
<1>7. StoreConsistent' /\ LatestHeightTrusted'
  BY <1>2, <1>4, <1>5 DEF IInv, StoreConsistent, LatestHeightTrusted
<1>8. RootsMatchEvm'
  BY <1>2, <1>3 DEF IInv, RootsMatchEvm
<1>9. EvmMonotone'
  BY <1>1, <1>3 DEF EvmMonotone
<1>10. ProcessedAfterProduced'
  <2>1. evmChain[h].time \in Nat /\ evmChain[h].time <= now
    <3>1. evmChain[h] \in Blocks
      BY <1>1, <1>3 DEF TypeOK
    <3> QED BY <1>1, <1>3, <3>1 DEF Blocks, EvmMonotone
  <2>2. iterationKeys = DOMAIN consensusStates
    BY DEF IInv, StoreConsistent
  <2> QED BY <1>2, <1>3, <1>4, <2>1, <2>2 DEF IInv, ProcessedAfterProduced
<1> QED BY <1>6, <1>7, <1>8, <1>9, <1>10 DEF IInv

\* Every step keeps it.
LEMMA NextIInv == IInv /\ [Next]_vars => IInv'
<1> SUFFICES ASSUME IInv, [Next]_vars PROVE IInv'
  OBVIOUS
<1>1. TypeOK
  BY DEF IInv
<1>2. CASE \E ps \in SUBSET Packets, changed \in BOOLEAN : ProduceBlock(ps, changed)
  BY <1>2, ProduceBlockIInv
<1>3. CASE Tick
  BY <1>3, TickIInv
<1>4. CASE \E height \in DOMAIN evmChain : Initialize(height)
  BY <1>1, <1>4, StoreStepLemma, StoreStepIInv
<1>5. CASE \E t \in 1..MaxEvmHeight, n \in DOMAIN evmChain, b \in DOMAIN evmChain :
             b <= n /\ UpdateClient(RelayedHeader(t, n, b))
  BY <1>1, <1>5, StoreStepLemma, StoreStepIInv
<1>6. CASE UNCHANGED vars
  BY <1>6 DEF vars, store, IInv, TypeOK, StoreConsistent, RootsMatchEvm,
     LatestHeightTrusted, EvmMonotone, ProcessedAfterProduced
<1> QED BY <1>2, <1>3, <1>4, <1>5, <1>6 DEF Next

\* Every reachable state has it.
THEOREM Invariance == Spec => []IInv
BY InitIInv, NextIInv, PTL DEF Spec

-----------------------------------------------------------------------------
(* The results.                                                            *)

\* The variables of the client keep their types.
THEOREM TypeCorrectness == Spec => []TypeOK
BY Invariance, PTL DEF IInv

\* Consensus states and their metadata come and go together (store.go).
THEOREM StoreConsistency == Spec => []StoreConsistent
BY Invariance, PTL DEF IInv

\* The client stores no root but the EVM block's own (UpdateState, initialize).
THEOREM RootSoundness == Spec => []RootsMatchEvm
BY Invariance, PTL DEF IInv

\* The height relayers anchor an update at has a consensus state (verifyHeader).
THEOREM LatestHeightSoundness == Spec => []LatestHeightTrusted
BY Invariance, PTL DEF IInv

\* Processed times are consistent with the roll-up's (setConsensusMetadata).
THEOREM ProcessedTimeSoundness == Spec => []ProcessedAfterProduced
BY Invariance, PTL DEF IInv

\* What VerifyMembership accepts was committed on the roll-up and stays provable.
THEOREM MembershipSoundness == Spec => []MembershipSound
<1>1. IInv => MembershipSound
  BY DEF IInv, TypeOK, RootsMatchEvm, EvmMonotone, MembershipSound, VerifyMembership
<1> QED BY <1>1, Invariance, PTL

\* The store only gains heights, and keeps the root of every height it has.
LEMMA StepKeepsRoots ==
    ASSUME IInv, [Next]_vars
    PROVE  \A h \in DOMAIN consensusStates :
              /\ h \in DOMAIN consensusStates'
              /\ consensusStates'[h].StateRoot = consensusStates[h].StateRoot
<1>1. TypeOK
  BY DEF IInv
<1>2. ASSUME NEW h, NEW t, StoreStep(h, t)
      PROVE  \A k \in DOMAIN consensusStates :
                /\ k \in DOMAIN consensusStates'
                /\ consensusStates'[k].StateRoot = consensusStates[k].StateRoot
  <2>1. /\ DOMAIN consensusStates' = DOMAIN consensusStates \cup {h}
        /\ consensusStates'[h] = [StateRoot |-> evmChain[h].root, HeaderTimestamp |-> t]
        /\ \A k \in DOMAIN consensusStates : k # h => consensusStates'[k] = consensusStates[k]
    BY <1>1, <1>2, StoreStepShape
  <2> QED BY <2>1 DEF IInv, RootsMatchEvm
<1>3. CASE \E height \in DOMAIN evmChain : Initialize(height)
  BY <1>1, <1>2, <1>3, StoreStepLemma
<1>4. CASE \E t \in 1..MaxEvmHeight, n \in DOMAIN evmChain, b \in DOMAIN evmChain :
             b <= n /\ UpdateClient(RelayedHeader(t, n, b))
  BY <1>1, <1>2, <1>4, StoreStepLemma
<1>5. CASE UNCHANGED consensusStates
  BY <1>5
<1> QED BY <1>3, <1>4, <1>5 DEF Next, ProduceBlock, Tick, vars, store

\* No trusted height is lost and no trusted root revised by any handler.
THEOREM RootsStable == Spec => RootsNeverRevised
<1>1. IInv /\ [Next]_vars =>
        [\A h \in DOMAIN consensusStates :
            /\ h \in DOMAIN consensusStates'
            /\ consensusStates'[h].StateRoot = consensusStates[h].StateRoot]_vars
  BY StepKeepsRoots
<1> QED BY <1>1, Invariance, PTL DEF Spec, RootsNeverRevised

\* verifyHeader anchors every update at a stored, lower height, so the client
\* never comes to trust a height below the one it was created at.
THEOREM TrustGoesForward == Spec => TrustExtendsForward
<1> DEFINE Anchored == \A h \in DOMAIN consensusStates' :
                          \E k \in DOMAIN consensusStates : k <= h
<1>1. ASSUME IInv, [Next]_vars, clientState.exists
      PROVE  Anchored
  <2>1. TypeOK
    BY <1>1 DEF IInv
  <2>2. CASE UNCHANGED consensusStates
    BY <2>1, <2>2 DEF TypeOK, Heights
  <2>3. CASE \E t \in 1..MaxEvmHeight, n \in DOMAIN evmChain, b \in DOMAIN evmChain :
               b <= n /\ UpdateClient(RelayedHeader(t, n, b))
    <3>1. PICK t \in 1..MaxEvmHeight, n \in DOMAIN evmChain, b \in DOMAIN evmChain :
               b <= n /\ UpdateClient(RelayedHeader(t, n, b))
      BY <2>3
    <3>2. t \in DOMAIN consensusStates /\ n > t
      BY <3>1 DEF UpdateClient, VerifyClientMessage, GetConsensusStateFound, RelayedHeader
    <3>3. DOMAIN consensusStates' = DOMAIN consensusStates \cup {n}
      BY <2>1, <3>1, StoreStepLemma, StoreStepShape
    <3>4. n \in Nat /\ t \in Nat /\ DOMAIN consensusStates \subseteq Nat
      BY <2>1, <3>1, <3>2 DEF TypeOK, Heights
    <3> QED BY <3>2, <3>3, <3>4
  <2>4. ~ \E height \in DOMAIN evmChain : Initialize(height)
    BY <1>1 DEF Initialize
  <2> QED BY <1>1, <2>2, <2>3, <2>4 DEF Next, ProduceBlock, Tick, vars, store
<1>2. IInv /\ [Next]_vars => [clientState.exists => Anchored]_vars
  BY <1>1
<1> QED BY <1>2, Invariance, PTL DEF Spec, TrustExtendsForward

\* The client implements the abstract light client: a new EVM block is a Grow,
\* a stored height a Trust, everything else a stutter.
THEOREM Refinement == Spec => AbstractSpec
<1> DEFINE Chain == [i \in DOMAIN evmChain |-> evmChain[i].root]
           Trusted == [h \in DOMAIN consensusStates |-> consensusStates[h].StateRoot]
<1>1. Init => Abstract!Init
  BY DEF Init, Abstract!Init
<1>2. ASSUME IInv, [Next]_vars
      PROVE  [Abstract!Next]_(Abstract!vars)
  <2>1. TypeOK
    BY <1>2 DEF IInv
  <2>2. ASSUME NEW ps \in SUBSET Packets, NEW changed \in BOOLEAN,
               ProduceBlock(ps, changed)
        PROVE  Abstract!Grow
    <3>1. /\ evmChain' \in Seq(Blocks)
          /\ Len(evmChain') = Len(evmChain) + 1
          /\ DOMAIN evmChain = 1..Len(evmChain)
          /\ DOMAIN evmChain' = 1..(Len(evmChain) + 1)
          /\ \A i \in DOMAIN evmChain : evmChain'[i] = evmChain[i]
      BY <2>1, <2>2, ProduceBlockLemma
    <3>2. Len(evmChain) \in Nat
      BY <2>1 DEF TypeOK
    <3>3. Len(Chain) = Len(evmChain) /\ Len(Chain') = Len(evmChain) + 1
      BY <3>1, <3>2
    <3>4. Chain'[Len(Chain')] \in Roots
      <4>1. evmChain'[Len(evmChain) + 1] \in Blocks
        BY <3>1, <3>2
      <4>2. Chain'[Len(evmChain) + 1] = evmChain'[Len(evmChain) + 1].root
        BY <3>1, <3>2
      <4> QED BY <3>3, <4>1, <4>2 DEF Blocks
    <3>5. \A i \in DOMAIN Chain : Chain'[i] = Chain[i]
      BY <3>1, <3>2
    <3>6. UNCHANGED Trusted
      BY <2>2 DEF ProduceBlock, store
    <3> QED BY <3>3, <3>4, <3>5, <3>6 DEF Abstract!Grow
  <2>3. ASSUME NEW h, NEW t, StoreStep(h, t)
        PROVE  h \in DOMAIN Chain /\ Abstract!Trust(h)
    <3>1. /\ DOMAIN consensusStates' = DOMAIN consensusStates \cup {h}
          /\ consensusStates'[h] = [StateRoot |-> evmChain[h].root, HeaderTimestamp |-> t]
          /\ \A k \in DOMAIN consensusStates : k # h => consensusStates'[k] = consensusStates[k]
      BY <2>1, <2>3, StoreStepShape
    <3>2. h \in DOMAIN evmChain /\ UNCHANGED evmChain
      BY <2>3 DEF StoreStep
    <3>3. Trusted' = [k \in DOMAIN Trusted \cup {h} |->
                        IF k = h THEN Chain[h] ELSE Trusted[k]]
      BY <3>1, <3>2
    <3> QED BY <3>2, <3>3 DEF Abstract!Trust
  <2>4. CASE \E ps \in SUBSET Packets, changed \in BOOLEAN : ProduceBlock(ps, changed)
    BY <2>2, <2>4 DEF Abstract!Next
  <2>5. CASE UNCHANGED <<evmChain, consensusStates>>
    BY <2>5 DEF Abstract!vars
  <2>6. CASE \E height \in DOMAIN evmChain : Initialize(height)
    BY <2>1, <2>3, <2>6, StoreStepLemma DEF Abstract!Next
  <2>7. CASE \E t \in 1..MaxEvmHeight, n \in DOMAIN evmChain, b \in DOMAIN evmChain :
               b <= n /\ UpdateClient(RelayedHeader(t, n, b))
    BY <2>1, <2>3, <2>7, StoreStepLemma DEF Abstract!Next
  <2> QED BY <1>2, <2>4, <2>5, <2>6, <2>7 DEF Next, Tick, vars, store
<1> QED BY <1>1, <1>2, Invariance, PTL DEF Spec, AbstractSpec, Abstract!Spec
=============================================================================
