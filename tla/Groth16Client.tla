--------------------------- MODULE Groth16Client ----------------------------
(***************************************************************************)
(* The Groth16 light client of the EVM roll-up that runs in SimApp         *)
(* (ibc/lightclients/groth16).  Its store holds a client state, one        *)
(* consensus state per verified EVM height and, per consensus state, three *)
(* metadata entries.  MsgCreateClient runs Initialize, MsgUpdateClient     *)
(* runs VerifyClientMessage and UpdateState in one transaction, and packet *)
(* handlers call VerifyMembership.  A transaction that returns an error or *)
(* panics leaves the store as it was, so only the successful outcome of a  *)
(* handler is an action.                                                   *)
(*                                                                         *)
(* The roll-up is external.  A state root is abstracted to the number of   *)
(* state changes that led to it and the packet commitments it commits to:  *)
(* different states have different roots, an empty block keeps the root.   *)
(***************************************************************************)
EXTENDS Naturals, Sequences, FiniteSets

CONSTANTS
    Packets,        \* the packets that may be committed on the roll-up
    MaxEvmHeight,   \* bound: no EVM block beyond this number
    MaxNow          \* bound: the clock stops here

ASSUME BoundsAssumption == MaxEvmHeight \in Nat /\ MaxNow \in Nat

VARIABLES
    evmChain,         \* the EVM blocks, by number: [root, time]
    now,              \* SimApp's block time, which is also its block height
    clientState,      \* [exists, LatestHeight]; LatestHeight 0 before Initialize
    consensusStates,  \* EVM height -> [StateRoot, HeaderTimestamp]
    processedTime,    \* EVM height -> SimApp time at which it was stored
    processedHeight,  \* EVM height -> SimApp height at which it was stored
    iterationKeys     \* EVM heights that have an iteration key

store == <<clientState, consensusStates, processedTime, processedHeight, iterationKeys>>
vars == <<evmChain, now, store>>

Heights == Nat \ {0}
Roots == [version : Nat, commitments : SUBSET Packets]
Blocks == [root : Roots, time : Nat]
ConsensusState == [StateRoot : Roots, HeaderTimestamp : Nat]
Header == [TrustedHeight : Heights, NewestHeight : Heights,
           NewestStateRoot : Roots, Timestamp : Nat]

\* A key-value store write: f with key k set to v.
Set(f, k, v) == [x \in DOMAIN f \cup {k} |-> IF x = k THEN v ELSE f[x]]

GenesisRoot == [version |-> 0, commitments |-> {}]
LatestRoot == IF evmChain = <<>> THEN GenesisRoot ELSE evmChain[Len(evmChain)].root

Init ==
    /\ evmChain = <<>>
    /\ now = 0
    /\ clientState = [exists |-> FALSE, LatestHeight |-> 0]
    /\ consensusStates = [h \in {} |-> evmChain[h]]
    /\ processedTime = [h \in {} |-> 0]
    /\ processedHeight = [h \in {} |-> 0]
    /\ iterationKeys = {}

-----------------------------------------------------------------------------
(* The environment: the roll-up's blocks and SimApp's clock.               *)

\* The roll-up produces a block that commits the packets ps.  A block that
\* commits a packet changes the state; another block may or may not.
ProduceBlock(ps, changed) ==
    /\ Len(evmChain) < MaxEvmHeight
    /\ now < MaxNow
    /\ ps # {} => changed
    /\ now' = now + 1
    /\ evmChain' = Append(evmChain,
         [root |-> IF changed
                   THEN [version |-> LatestRoot.version + 1,
                         commitments |-> LatestRoot.commitments \cup ps]
                   ELSE LatestRoot,
          time |-> now + 1])
    /\ UNCHANGED store

\* SimApp commits a block in which nothing reaches the client.
Tick ==
    /\ now < MaxNow
    /\ now' = now + 1
    /\ UNCHANGED <<evmChain, store>>

-----------------------------------------------------------------------------
(* The store (store.go).                                                   *)

SetConsensusState(height, consensusState) ==
    consensusStates' = Set(consensusStates, height, consensusState)

\* Faulty variants of the next definition: no iteration key; the EVM height
\* where the context's time is meant.
SetConsensusMetadataNoKey(height) ==
    /\ processedTime' = Set(processedTime, height, now)
    /\ processedHeight' = Set(processedHeight, height, now)
    /\ UNCHANGED iterationKeys
SetConsensusMetadataEvmTime(height) ==
    /\ processedTime' = Set(processedTime, height, height)
    /\ processedHeight' = Set(processedHeight, height, now)
    /\ iterationKeys' = iterationKeys \cup {height}

\* Processed time, processed height and iteration key of a height.
SetConsensusMetadata(height) ==
    /\ processedTime' = Set(processedTime, height, now)
    /\ processedHeight' = Set(processedHeight, height, now)
    /\ iterationKeys' = iterationKeys \cup {height}

\* Faulty variant of the next definition: SimApp's height for the EVM height.
SetClientStateSelfHeight(height) ==
    clientState' = [exists |-> TRUE, LatestHeight |-> now]

SetClientState(height) ==
    clientState' = [exists |-> TRUE, LatestHeight |-> height]

GetConsensusStateFound(height) == height \in DOMAIN consensusStates

-----------------------------------------------------------------------------
(* The client's handlers (light_client_module.go, client_state.go).        *)

\* MsgCreateClient.  The setup tool builds client and consensus state from one
\* EVM block, the latest when it asked; blocks may have been added since.
Initialize(height) ==
    /\ ~clientState.exists
    /\ height \in DOMAIN evmChain
    /\ SetConsensusState(height, [StateRoot |-> evmChain[height].root,
                                  HeaderTimestamp |-> evmChain[height].time])
    /\ SetConsensusMetadata(height)
    /\ SetClientState(height)
    /\ UNCHANGED <<evmChain, now>>

\* Faulty variant of the next definition: the trusted height need not be stored.
VerifyClientMessageUnanchored(header) ==
    header.NewestHeight > header.TrustedHeight

\* verifyHeader: the trusted height must be in the store, though its root is
\* not looked at, and the header must be newer than the trusted height.
VerifyClientMessage(header) ==
    /\ GetConsensusStateFound(header.TrustedHeight)
    /\ header.NewestHeight > header.TrustedHeight

\* Faulty variant of the next definition: the new root goes to the old height.
UpdateStateAtTrusted(header) ==
    /\ SetConsensusState(header.TrustedHeight,
         [StateRoot |-> header.NewestStateRoot, HeaderTimestamp |-> header.Timestamp])
    /\ SetConsensusMetadata(header.TrustedHeight)
    /\ SetClientState(header.TrustedHeight)

\* UpdateState after the prover accepted the proof; when it does not, or does
\* not answer, the error reverts the transaction.
UpdateState(header) ==
    /\ SetConsensusState(header.NewestHeight,
         [StateRoot |-> header.NewestStateRoot, HeaderTimestamp |-> header.Timestamp])
    /\ SetConsensusMetadata(header.NewestHeight)
    /\ SetClientState(header.NewestHeight)

\* MsgUpdateClient, as ibc-go's client keeper runs it.
UpdateClient(header) ==
    /\ clientState.exists
    /\ VerifyClientMessage(header)
    /\ UpdateState(header)
    /\ UNCHANGED <<evmChain, now>>

\* The header a relayer builds from a proof up to EVM block n: height and root
\* come from the proof's public values.  The trusted height t and the block b
\* whose time is the header's are the relayer's: any height it once saw, and a
\* block it knew before it asked for the proof.
RelayedHeader(t, n, b) ==
    [TrustedHeight |-> t, NewestHeight |-> n,
     NewestStateRoot |-> evmChain[n].root, Timestamp |-> evmChain[b].time]

\* Faulty variant of the next definition: the root is compared, the value not.
VerifyMembershipRootOnly(height, proofRoot, packet) ==
    /\ GetConsensusStateFound(height)
    /\ proofRoot = consensusStates[height].StateRoot

\* verifyMembership: a proof is what eth_getProof returned for a block, so it
\* names that block's state root, and proves the commitments under it.
VerifyMembership(height, proofRoot, packet) ==
    /\ GetConsensusStateFound(height)
    /\ proofRoot = consensusStates[height].StateRoot
    /\ packet \in proofRoot.commitments

Next ==
    \/ \E ps \in SUBSET Packets, changed \in BOOLEAN : ProduceBlock(ps, changed)
    \/ Tick
    \/ \E height \in DOMAIN evmChain : Initialize(height)
    \/ \E t \in 1..MaxEvmHeight, n \in DOMAIN evmChain, b \in DOMAIN evmChain :
         b <= n /\ UpdateClient(RelayedHeader(t, n, b))

Spec == Init /\ [][Next]_vars

-----------------------------------------------------------------------------
(* Properties.                                                             *)

\* Every variable keeps its type; EVM heights are block numbers from 1 on.
TypeOK ==
    /\ evmChain \in Seq(Blocks)
    /\ now \in Nat
    /\ clientState \in [exists : BOOLEAN, LatestHeight : Nat]
    /\ DOMAIN consensusStates \subseteq Heights
    /\ consensusStates \in [DOMAIN consensusStates -> ConsensusState]
    /\ processedTime \in [DOMAIN processedTime -> Nat]
    /\ processedHeight \in [DOMAIN processedHeight -> Nat]

\* The four kinds of store entry of a height come and go together: the pruning
\* and iteration code of store.go follows iteration keys to consensus states
\* and says of a missing one that "this error should never occur".
StoreConsistent ==
    /\ iterationKeys = DOMAIN consensusStates
    /\ processedTime \in [iterationKeys -> Nat]
    /\ processedHeight \in [iterationKeys -> Nat]

\* The client trusts nothing but what the roll-up did: the root stored at a
\* height is the state root of the EVM block with that number.
RootsMatchEvm ==
    \A h \in DOMAIN consensusStates :
        /\ h \in DOMAIN evmChain
        /\ consensusStates[h].StateRoot = evmChain[h].root

\* Once created the client can always be updated: the height that relayers and
\* the prover read as trusted height (LatestHeight) has a consensus state, so
\* verifyHeader will find it.
LatestHeightTrusted ==
    clientState.exists <=> clientState.LatestHeight \in DOMAIN consensusStates

\* A commitment VerifyMembership accepts at some height was made on the roll-up
\* in that block or before, and any later height the client trusts proves it
\* too: a packet relayed late is not lost because the client moved on.
MembershipSound ==
    \A h \in DOMAIN consensusStates, p \in Packets :
        VerifyMembership(h, consensusStates[h].StateRoot, p) =>
            \A b \in DOMAIN evmChain : b >= h => p \in evmChain[b].root.commitments

\* The metadata of a height is not older than the block it describes: neither
\* the header's time nor the block's own time is after the processed time.
ProcessedAfterProduced ==
    \A h \in DOMAIN consensusStates :
        /\ consensusStates[h].HeaderTimestamp <= evmChain[h].time
        /\ evmChain[h].time <= processedTime[h]
        /\ processedTime[h] <= now

\* No update removes a trusted height or changes its root, even one that sends
\* a height a second time.
RootsNeverRevised ==
    [][\A h \in DOMAIN consensusStates :
          /\ h \in DOMAIN consensusStates'
          /\ consensusStates'[h].StateRoot = consensusStates[h].StateRoot]_vars

\* Trust only ever extends forward from the height the client was created at:
\* an update is anchored at a stored height and goes beyond it, so no height
\* below the first one is ever trusted.
TrustExtendsForward ==
    [][clientState.exists =>
          \A h \in DOMAIN consensusStates' :
              \E k \in DOMAIN consensusStates : k <= h]_vars

\* The client implements the abstract light client of EvmLightClient.
Abstract == INSTANCE EvmLightClient WITH
    chain <- [i \in DOMAIN evmChain |-> evmChain[i].root],
    trusted <- [h \in DOMAIN consensusStates |-> consensusStates[h].StateRoot]

AbstractSpec == Abstract!Spec
=============================================================================
