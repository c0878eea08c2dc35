---------------------------- MODULE Groth16Store ----------------------------
(***************************************************************************)
(* The Groth16 client one level below Groth16Client: its store is the one  *)
(* key-value store of store.go, with the keys the code builds and the byte *)
(* order its iterators follow, and a membership proof is the two lists of  *)
(* trie nodes that verifyMembership walks (ibc/mpt).  Pruning, which no    *)
(* handler calls yet, may run at any SimApp height.  The client implements *)
(* Groth16Pruning, which has a variable for each kind of entry.            *)
(*                                                                         *)
(* A key is its kind and the bytes that follow: a height is written in     *)
(* decimal in the consensus state keys and big-endian, with a fixed width, *)
(* in iteration keys.  External: the store's iterators, keccak (injective) *)
(* and geth's walk of a trie; a trie is a binary tree, a key its path.     *)
(***************************************************************************)
EXTENDS Naturals, Sequences

CONSTANTS
    Packets, MaxEvmHeight, MaxNow, UnbondingTime,
    ConfigSlot, \* a storage slot of the router with a small value
    Radix,      \* of the decimal heights in consensus state keys
    ByteBase    \* of the two bytes of a big-endian height

ASSUME StoreAssumption ==
    /\ MaxEvmHeight \in Nat /\ MaxNow \in Nat /\ UnbondingTime \in Nat
    /\ ConfigSlot \notin Packets
    /\ Radix \in Nat /\ Radix > 1 /\ ByteBase \in Nat /\ ByteBase > 1
    /\ MaxEvmHeight < Radix * Radix /\ MaxEvmHeight < ByteBase * ByteBase

VARIABLES
    evmChain, now,   \* as in Groth16Client
    kv               \* the client store

vars == <<evmChain, now, kv>>

Heights == 0..MaxEvmHeight

-----------------------------------------------------------------------------
(* Keys, reads and writes (store.go).                                      *)

\* clienttypes.Height.String, external.
Decimal(h) == IF h < Radix THEN <<h>> ELSE <<h \div Radix, h % Radix>>

BigEndianHeightBytes(h) == <<h \div ByteBase, h % ByteBase>>

ClientStateKey == [kind |-> "clientState", bytes |-> <<>>]
ConsensusStateKey(h) == [kind |-> "consensusStates", bytes |-> Decimal(h)]
ProcessedTimeKey(h) == [kind |-> "processedTime", bytes |-> Decimal(h)]
ProcessedHeightKey(h) == [kind |-> "processedHeight", bytes |-> Decimal(h)]
IterationKey(h) == [kind |-> "iterateConsensusStates", bytes |-> BigEndianHeightBytes(h)]
GetHeightFromIterationKey(key) == key.bytes[1] * ByteBase + key.bytes[2]

Put(s, key, val) == [k \in DOMAIN s \cup {key} |-> IF k = key THEN val ELSE s[k]]
Without(s, keys) == [k \in DOMAIN s \ keys |-> s[k]]

SetClientState(s, height) == Put(s, ClientStateKey, height)
SetConsensusState(s, height, consensusState) == Put(s, ConsensusStateKey(height), consensusState)
SetProcessedTime(s, height, time) == Put(s, ProcessedTimeKey(height), time)
SetProcessedHeight(s, height, self) == Put(s, ProcessedHeightKey(height), self)
SetIterationKey(s, height) == Put(s, IterationKey(height), ConsensusStateKey(height))

SetConsensusMetadata(s, height) ==
    SetIterationKey(SetProcessedHeight(SetProcessedTime(s, height, now), height, now), height)

\* Deletions, for each of some heights: their order makes no difference.
DeleteProcessedTime(s, heights) == Without(s, {ProcessedTimeKey(h) : h \in heights})
DeleteProcessedHeight(s, heights) == Without(s, {ProcessedHeightKey(h) : h \in heights})
DeleteIterationKey(s, heights) == Without(s, {IterationKey(h) : h \in heights})
DeleteConsensusState(s, heights) == Without(s, {ConsensusStateKey(h) : h \in heights})

\* Faulty variant of the next definition: the iteration key stays.
DeleteConsensusMetadataNoKey(s, heights) ==
    DeleteProcessedHeight(DeleteProcessedTime(s, heights), heights)

DeleteConsensusMetadata(s, heights) ==
    DeleteIterationKey(DeleteProcessedHeight(DeleteProcessedTime(s, heights), heights), heights)

\* Reads: [found, value].
Get(key) == IF key \in DOMAIN kv THEN [found |-> TRUE, value |-> kv[key]] ELSE [found |-> FALSE]
GetClientState == Get(ClientStateKey)
GetProcessedTime(height) == Get(ProcessedTimeKey(height))
GetProcessedHeight(height) == Get(ProcessedHeightKey(height))
GetIterationKey(height) == Get(IterationKey(height))
GetConsensusStateFound(height) == ConsensusStateKey(height) \in DOMAIN kv
GetConsensusState(height) == kv[ConsensusStateKey(height)]

\* External: iterators visit the keys of one kind in the order of their bytes.
BytesLess(a, b) ==
    \E i \in DOMAIN b :
        /\ \A j \in 1..i - 1 : j \in DOMAIN a /\ a[j] = b[j]
        /\ i > Len(a) \/ a[i] < b[i]
First(keys) == CHOOSE k \in keys : \A l \in keys \ {k} : BytesLess(k.bytes, l.bytes)
Last(keys) == CHOOSE k \in keys : \A l \in keys \ {k} : BytesLess(l.bytes, k.bytes)
KeysOf(kind) == {k \in DOMAIN kv : k.kind = kind}
IterationKeys == KeysOf("iterateConsensusStates")

-----------------------------------------------------------------------------
(* Iteration and neighbours (store.go).                                    *)

\* Faulty variant of the next definition: processed heights are ignored too.
IterateConsensusMetadataTimesOnly == KeysOf("processedTime") \cup IterationKeys

\* The keys a callback that never stops is given: the entries below the
\* consensus states, then the iteration keys.
IterateConsensusMetadata ==
    KeysOf("processedTime") \cup KeysOf("processedHeight") \cup IterationKeys

\* The heights pruneCb is given: it stops at one without a consensus state.
IterateConsensusStateAscending ==
    {GetHeightFromIterationKey(k) : k \in
        {k \in IterationKeys : \A l \in IterationKeys :
            BytesLess(l.bytes, k.bytes) => GetConsensusStateFound(GetHeightFromIterationKey(l))}}

NoConsensusState == [found |-> FALSE]
Found(height) == [found |-> TRUE, consensusState |-> GetConsensusState(height)]

\* Through the consensus state key that an iteration key holds.
GetTmConsensusState(key) ==
    IF key \in DOMAIN kv THEN [found |-> TRUE, consensusState |-> kv[key]] ELSE NoConsensusState

\* Faulty variant of the next definition: a key at height itself is returned.
GetNextConsensusStateInclusive(height) ==
    LET keys == {k \in IterationKeys : ~ BytesLess(k.bytes, BigEndianHeightBytes(height))}
    IN  IF keys = {} THEN NoConsensusState ELSE GetTmConsensusState(kv[First(keys)])

\* The iterator starts at height inclusive; a key at height itself is skipped.
GetNextConsensusState(height) ==
    LET keys == {k \in IterationKeys : ~ BytesLess(k.bytes, BigEndianHeightBytes(height))}
        rest == IF keys # {} /\ kv[First(keys)] = ConsensusStateKey(height)
                THEN keys \ {First(keys)} ELSE keys
    IN  IF rest = {} THEN NoConsensusState ELSE GetTmConsensusState(kv[First(rest)])

\* The reverse iterator ends at height exclusive.
GetPreviousConsensusState(height) ==
    LET keys == {k \in IterationKeys : BytesLess(k.bytes, BigEndianHeightBytes(height))}
    IN  IF keys = {} THEN NoConsensusState ELSE GetTmConsensusState(kv[Last(keys)])

-----------------------------------------------------------------------------
(* Membership proofs (ibc/mpt, client_state.go).                           *)

\* Tries: a branch refers to a leaf by its hash, or holds it when it is small.
Leaf(v) == [kind |-> "leaf", value |-> v]
Hash(node) == [kind |-> "hash", of |-> node]
IsSmall(node) == node.kind = "leaf" /\ node.value = ConfigSlot
Ref(node) == IF IsSmall(node) THEN node ELSE Hash(node)
TrieRoot(f) == [kind |-> "branch", child |-> [k \in DOMAIN f |-> Ref(Leaf(f[k]))]]

\* External: the nodes eth_getProof returns for a key, embedded ones left out.
Prove(f, key) ==
    {TrieRoot(f)} \cup (IF key \in DOMAIN f THEN {n \in {Leaf(f[key])} : ~ IsSmall(n)} ELSE {})

\* Each node under its hash, a small one under itself.
ReconstructProofDB(proof) == [k \in {Ref(n) : n \in proof} |-> CHOOSE n \in proof : Ref(n) = k]

Error == [res |-> "error"]
Nil == [res |-> "nil"]
Value(v) == [res |-> "value", value |-> v]

\* trie.VerifyProof, external, on the reconstructed database: the value of the
\* key, nil if the trie has none, an error if a node is missing.
VerifyMerklePatriciaTrieProof(rootHash, key, proof) ==
    LET db == ReconstructProofDB(proof)
        ref == db[rootHash].child[key]
    IN  CASE rootHash \notin DOMAIN db -> Error
          [] rootHash \in DOMAIN db /\ key \notin DOMAIN db[rootHash].child -> Nil
          [] OTHER -> IF ref.kind = "leaf" THEN Value(ref.value)
                      ELSE IF ref \in DOMAIN db THEN Value(db[ref].value) ELSE Error

\* The roll-up's state under a root: the router's storage holds the commitments.
Storage(root) == [slot \in root.commitments \cup {ConfigSlot} |-> slot]
Account(root) == [Nonce |-> root.version, StorageHash |-> Hash(TrieRoot(Storage(root)))]
World(root) ==
    [a \in {"router", "other"} |->
        IF a = "router" THEN Account(root) ELSE [Nonce |-> 0, StorageHash |-> Hash(TrieRoot(<<>>))]]
StateRootHash(root) == Hash(TrieRoot(World(root)))

\* A relayer's proof; its parts may come from two blocks.
MptProof(root, storageRoot, slot) ==
    [Address |-> "router", AccountProof |-> Prove(World(root), "router"),
     Account |-> Account(storageRoot),
     StorageKey |-> slot, StorageProof |-> Prove(Storage(storageRoot), slot)]

\* Faulty variant of the next definition: any account state will do.
verifyMembershipAnyAccount(height, proof, value) ==
    /\ GetConsensusStateFound(height)
    /\ LET root == StateRootHash(GetConsensusState(height).StateRoot)
       IN  VerifyMerklePatriciaTrieProof(root, proof.Address, proof.AccountProof).res = "value"
    /\ VerifyMerklePatriciaTrieProof(proof.Account.StorageHash, proof.StorageKey, proof.StorageProof)
         = Value(value)

\* The account under the trusted root must be the one the proof claims, the value
\* under its storage root the one to verify.
verifyMembership(height, proof, value) ==
    /\ GetConsensusStateFound(height)
    /\ LET root == StateRootHash(GetConsensusState(height).StateRoot)
       IN  VerifyMerklePatriciaTrieProof(root, proof.Address, proof.AccountProof) = Value(proof.Account)
    /\ VerifyMerklePatriciaTrieProof(proof.Account.StorageHash, proof.StorageKey, proof.StorageProof)
         = Value(value)

\* The path's key, which is not hashed, has no value in the tree of accounts.  (The
\* code notes that this is "not correct": it does not look at the router's storage.)
verifyNonMembership(height, proof, mptKey) ==
    /\ GetConsensusStateFound(height)
    /\ LET root == StateRootHash(GetConsensusState(height).StateRoot)
       IN  VerifyMerklePatriciaTrieProof(root, mptKey, proof.AccountProof) = Nil

-----------------------------------------------------------------------------
(* The module's answers (light_client_module.go).                          *)

Status == IF GetClientState.found THEN "Active" ELSE "Unknown"
LatestHeight == IF GetClientState.found THEN GetClientState.value ELSE 0

\* Faulty variant of the next definition: when it was stored.
getTimestampAtHeightProcessed(height) == kv[ProcessedTimeKey(height)]

getTimestampAtHeight(height) == GetConsensusState(height).HeaderTimestamp

\* Without a client, and without a consensus state at the height, an error.
TimestampAtHeight(height) ==
    IF Status = "Active" /\ GetConsensusStateFound(height)
    THEN Value(getTimestampAtHeight(height)) ELSE Error

VerifyMembership(height, proof, value) ==
    Status = "Active" /\ verifyMembership(height, proof, value)

VerifyNonMembership(height, proof, mptKey) ==
    Status = "Active" /\ verifyNonMembership(height, proof, mptKey)

P == INSTANCE Groth16Pruning WITH
    clientState <- [exists |-> Status = "Active", LatestHeight |-> LatestHeight],
    consensusStates <- [h \in {k \in Heights : GetConsensusStateFound(k)} |->
        [StateRoot |-> GetConsensusState(h).StateRoot, HeaderTimestamp |-> TimestampAtHeight(h).value]],
    processedTime <- [h \in {k \in Heights : GetProcessedTime(k).found} |->
        GetProcessedTime(h).value],
    processedHeight <- [h \in {k \in Heights : GetProcessedHeight(k).found} |->
        GetProcessedHeight(h).value],
    iterationKeys <- {GetHeightFromIterationKey(k) : k \in IterationKeys}

-----------------------------------------------------------------------------
(* Handlers, each one transaction; an error or a panic reverts it.         *)

Init == evmChain = <<>> /\ now = 0 /\ kv = [k \in {} |-> 0]

\* The environment of Groth16Client: the roll-up's blocks and SimApp's clock.
Environment ==
    /\ UNCHANGED kv
    /\ \/ \E ps \in SUBSET Packets, changed \in BOOLEAN : P!ProduceBlock(ps, changed)
       \/ P!Tick

\* Consensus state, metadata and client state of a height are written in turn.
Write(height, consensusState) ==
    /\ kv' = SetClientState(SetConsensusMetadata(
               SetConsensusState(kv, height, consensusState), height), height)
    /\ UNCHANGED <<evmChain, now>>

Initialize(height) ==
    /\ Status = "Unknown"
    /\ Write(height, [StateRoot |-> evmChain[height].root, HeaderTimestamp |-> evmChain[height].time])

\* VerifyClientMessage, then UpdateState.
UpdateClient(header) ==
    /\ Status = "Active"
    /\ GetConsensusStateFound(header.TrustedHeight)
    /\ header.NewestHeight > header.TrustedHeight
    /\ Write(header.NewestHeight,
             [StateRoot |-> header.NewestStateRoot, HeaderTimestamp |-> header.Timestamp])

\* pruneCb collects expired heights; then each is deleted, state and metadata.
PruneAllExpiredConsensusStates ==
    LET heights == {h \in IterateConsensusStateAscending :
                      GetConsensusStateFound(h) /\ P!IsExpired(GetConsensusState(h), now)}
    IN  /\ heights # {}
        /\ kv' = DeleteConsensusMetadata(DeleteConsensusState(kv, heights), heights)
        /\ UNCHANGED <<evmChain, now>>

Next ==
    \/ Environment
    \/ \E height \in DOMAIN evmChain : Initialize(height)
    \/ \E t \in 1..MaxEvmHeight, n \in DOMAIN evmChain, b \in DOMAIN evmChain :
         b <= n /\ UpdateClient(P!RelayedHeader(t, n, b))
    \/ PruneAllExpiredConsensusStates

Spec == Init /\ [][Next]_vars

-----------------------------------------------------------------------------
(* Properties.                                                             *)

\* The key-value store behaves like Groth16Pruning's separate maps: no write of one
\* kind of entry touches another, and the module's answers (Status, LatestHeight,
\* TimestampAtHeight) are the client's.
StoreRefines == P!PruneSpec

\* Pruning keeps the store consistent and what stays is still the roll-up's: the
\* iteration never meets the missing consensus state of which store.go says "this
\* error should never occur", and a height deleted and verified again has the
\* root it had before.
PruneKeepsStore == P!StoreConsistent /\ P!RootsMatchEvm

\* GetNextConsensusState and GetPreviousConsensusState, which follow the byte order
\* of the iteration keys, return what their comments define on heights: "the lowest
\* consensus state that is larger than the given height" and "the highest consensus
\* state that is lower", after any updates and prunings.
NeighboursOfHeight ==
    \A h \in Heights :
        LET stored == {k \in Heights : GetConsensusStateFound(k)}
            above == {k \in stored : k > h}
            below == {k \in stored : k < h}
        IN  /\ \/ above = {} /\ GetNextConsensusState(h) = NoConsensusState
               \/ \E k \in above : /\ \A l \in above : k <= l
                                   /\ GetNextConsensusState(h) = Found(k)
            /\ \/ below = {} /\ GetPreviousConsensusState(h) = NoConsensusState
               \/ \E k \in below : /\ \A l \in below : k >= l
                                   /\ GetPreviousConsensusState(h) = Found(k)

\* Client state, consensus states and what IterateConsensusMetadata hands to its
\* callback are the whole store: an export that writes these loses nothing, what it
\* hands out belongs to a consensus state there is, and every iteration key leads
\* to the consensus state of its own height.
MetadataComplete ==
    LET handed == IterateConsensusMetadata
    IN  /\ handed = DOMAIN kv \ (KeysOf("clientState") \cup KeysOf("consensusStates"))
        /\ handed = UNION {{ProcessedTimeKey(h), ProcessedHeightKey(h), IterationKey(h)} :
                             h \in {k \in Heights : GetConsensusStateFound(k)}}
        /\ \A h \in Heights : GetConsensusStateFound(h) =>
             GetIterationKey(h) = [found |-> TRUE, value |-> ConsensusStateKey(h)]

\* verifyMembership on trie nodes decides what Groth16Client's abstract test says:
\* a proof, also one put together from two blocks, is accepted exactly if the
\* trusted root is its account's block's, both blocks have the same storage, and
\* the slot it opens holds the commitment to verify.  verifyNonMembership accepts
\* only proofs of the trusted root, for keys that are no account's.
MembershipAgrees ==
    \A h \in Heights, b \in DOMAIN evmChain :
        /\ \A c \in DOMAIN evmChain, p \in Packets, slot \in Packets \cup {ConfigSlot} :
             VerifyMembership(h, MptProof(evmChain[b].root, evmChain[c].root, slot), p) <=>
                 /\ P!VerifyMembership(h, evmChain[b].root, p)
                 /\ Account(evmChain[b].root) = Account(evmChain[c].root)
                 /\ slot = p
        /\ \A mptKey \in {"router", "other", "none"} :
             VerifyNonMembership(h, MptProof(evmChain[b].root, evmChain[b].root, ConfigSlot), mptKey) <=>
                 /\ P!GetConsensusStateFound(h)
                 /\ GetConsensusState(h).StateRoot = evmChain[b].root
                 /\ mptKey \notin DOMAIN World(evmChain[b].root)
=============================================================================
