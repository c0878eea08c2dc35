------------------------- MODULE Groth16StoreProofs -------------------------
(***************************************************************************)
(* Proofs about Groth16Store: the one key-value store with its byte keys   *)
(* implements the maps of Groth16Pruning, its iterators find what their    *)
(* comments say, and a proof made of trie nodes is accepted exactly when   *)
(* the abstract membership test says so, for any heights that the keys can *)
(* hold, any packets and any radix.                                        *)
(***************************************************************************)
EXTENDS Groth16Store, WellFoundedInduction, SequenceTheorems, TLAPS

-----------------------------------------------------------------------------
(* Keys.                                                                   *)

\* The two digits of a height determine it (bigEndianHeightBytes).
LEMMA Digits ==
    ASSUME NEW h \in Nat, NEW b \in Nat, b > 1
    PROVE  /\ h \div b \in Nat /\ h % b \in Nat /\ h % b < b
           /\ h = (h \div b) * b + (h % b)
OBVIOUS

\* The order of the digits is the order of the heights.
LEMMA DigitsOrder ==
    ASSUME NEW b \in Nat, b > 1, NEW p \in Nat, NEW q \in Nat, NEW m \in Nat, NEW n \in Nat,
           m < b, n < b, p < q
    PROVE  p * b + m < q * b + n
<1>1. PICK d \in Nat : q = p + 1 + d
  <2>1. q - p - 1 \in Nat /\ q = p + 1 + (q - p - 1)
    OBVIOUS
  <2> QED BY <2>1
<1>2. q * b = p * b + b + d * b
  BY <1>1
<1>3. d * b \in Nat /\ p * b \in Nat
  BY <1>1
<1> DEFINE x == p * b
           y == d * b
           z == q * b
<1> HIDE DEF x, y, z
<1>4. z = x + b + y /\ x \in Nat /\ y \in Nat
  BY <1>2, <1>3 DEF x, y, z
<1>5. x + m < z + n
  BY <1>4
<1> QED BY <1>5 DEF x, z

\* An iteration key gives its height back (GetHeightFromIterationKey).
LEMMA IterationKeyHeight ==
    ASSUME NEW h \in Nat
    PROVE  GetHeightFromIterationKey(IterationKey(h)) = h
<1>1. h = (h \div ByteBase) * ByteBase + (h % ByteBase)
  BY Digits, StoreAssumption
<1> QED BY <1>1 DEF GetHeightFromIterationKey, IterationKey, BigEndianHeightBytes

\* Decimal heights differ for different heights.
LEMMA DecimalInjective ==
    ASSUME NEW g \in Nat, NEW h \in Nat, Decimal(g) = Decimal(h)
    PROVE  g = h
<1>1. Len(<<g>>) = 1 /\ Len(<<h>>) = 1
      /\ Len(<<g \div Radix, g % Radix>>) = 2 /\ Len(<<h \div Radix, h % Radix>>) = 2
  OBVIOUS
<1>2. CASE g < Radix /\ h < Radix
  <2>1. <<g>> = <<h>>
    BY <1>2 DEF Decimal
  <2> QED BY <2>1
<1>3. CASE ~ (g < Radix) /\ ~ (h < Radix)
  <2>1. <<g \div Radix, g % Radix>> = <<h \div Radix, h % Radix>>
    BY <1>3 DEF Decimal
  <2>2. g \div Radix = h \div Radix /\ g % Radix = h % Radix
    BY <2>1
  <2>3. g = (g \div Radix) * Radix + (g % Radix) /\ h = (h \div Radix) * Radix + (h % Radix)
    BY Digits, StoreAssumption
  <2> QED BY <2>2, <2>3
<1>4. CASE (g < Radix) # (h < Radix)
  BY <1>1, <1>4 DEF Decimal
<1> QED BY <1>2, <1>3, <1>4

\* Big-endian heights sort as numbers: the order the iterators rely on.
LEMMA BytesOrder ==
    ASSUME NEW g \in Nat, NEW h \in Nat
    PROVE  BytesLess(BigEndianHeightBytes(g), BigEndianHeightBytes(h)) <=> g < h
<1> DEFINE p == g \div ByteBase
           m == g % ByteBase
           q == h \div ByteBase
           n == h % ByteBase
<1>1. /\ p \in Nat /\ m \in Nat /\ m < ByteBase /\ g = p * ByteBase + m
      /\ q \in Nat /\ n \in Nat /\ n < ByteBase /\ h = q * ByteBase + n
  BY Digits, StoreAssumption
<1> HIDE DEF p, m, q, n
<1>2. BytesLess(<<p, m>>, <<q, n>>) <=> p < q \/ (p = q /\ m < n)
  <2> DEFINE a == <<p, m>>
             b == <<q, n>>
  <2>1. DOMAIN a = {1, 2} /\ DOMAIN b = {1, 2} /\ Len(a) = 2
        /\ a[1] = p /\ a[2] = m /\ b[1] = q /\ b[2] = n
    OBVIOUS
  <2> HIDE DEF a, b
  <2>2. (1 .. 1 - 1) = {} /\ (1 .. 2 - 1) = {1}
    OBVIOUS
  <2>3. BytesLess(a, b) <=> \E i \in {1, 2} :
           (\A j \in 1..i - 1 : j \in {1, 2} /\ a[j] = b[j]) /\ (i > 2 \/ a[i] < b[i])
    BY <2>1 DEF BytesLess
  <2>4. @ <=> (p < q \/ (p = q /\ m < n))
    BY <2>1, <2>2
  <2> QED BY <2>3, <2>4 DEF a, b
<1>3. p < q => g < h
  BY <1>1, DigitsOrder, StoreAssumption
<1>4. q < p => h < g
  BY <1>1, DigitsOrder, StoreAssumption
<1>5. p = q => (m < n <=> g < h)
  <2> DEFINE x == p * ByteBase
  <2>1. x \in Nat /\ (p = q => g = x + m /\ h = x + n)
    BY <1>1, StoreAssumption
  <2> HIDE DEF x
  <2> QED BY <1>1, <2>1
<1>6. g < h \/ g = h \/ h < g
  OBVIOUS
<1>7. p < q \/ (p = q /\ m < n) <=> g < h
  BY <1>1, <1>3, <1>4, <1>5
<1> QED BY <1>2, <1>7 DEF BigEndianHeightBytes, p, m, q, n

\* The entries of a height.
Entries(h) == {ConsensusStateKey(h), ProcessedTimeKey(h), ProcessedHeightKey(h), IterationKey(h)}

\* No two entries share a key: store.go writes the keys of a height by kind, and each
\* kind's are different for different heights.
LEMMA KeysDiffer ==
    /\ ClientStateKey.kind = "clientState"
    /\ \A h : /\ ConsensusStateKey(h).kind = "consensusStates"
              /\ ProcessedTimeKey(h).kind = "processedTime"
              /\ ProcessedHeightKey(h).kind = "processedHeight"
              /\ IterationKey(h).kind = "iterateConsensusStates"
    /\ \A g, h \in Nat :
         /\ ConsensusStateKey(g) = ConsensusStateKey(h) => g = h
         /\ ProcessedTimeKey(g) = ProcessedTimeKey(h) => g = h
         /\ ProcessedHeightKey(g) = ProcessedHeightKey(h) => g = h
         /\ IterationKey(g) = IterationKey(h) => g = h
         /\ g # h => Entries(g) \cap Entries(h) = {}
<1>1. /\ ClientStateKey.kind = "clientState"
      /\ \A h : /\ ConsensusStateKey(h).kind = "consensusStates"
                /\ ProcessedTimeKey(h).kind = "processedTime"
                /\ ProcessedHeightKey(h).kind = "processedHeight"
                /\ IterationKey(h).kind = "iterateConsensusStates"
                /\ ConsensusStateKey(h).bytes = Decimal(h)
                /\ ProcessedTimeKey(h).bytes = Decimal(h)
                /\ ProcessedHeightKey(h).bytes = Decimal(h)
  BY DEF ClientStateKey, ConsensusStateKey, ProcessedTimeKey, ProcessedHeightKey, IterationKey
<1>2. ASSUME NEW g \in Nat, NEW h \in Nat
      PROVE  /\ ConsensusStateKey(g) = ConsensusStateKey(h) => g = h
             /\ ProcessedTimeKey(g) = ProcessedTimeKey(h) => g = h
             /\ ProcessedHeightKey(g) = ProcessedHeightKey(h) => g = h
             /\ IterationKey(g) = IterationKey(h) => g = h
  <2>1. Decimal(g) = Decimal(h) => g = h
    BY DecimalInjective
  <2>2. IterationKey(g) = IterationKey(h) => g = h
    BY IterationKeyHeight
  <2> QED BY <1>1, <2>1, <2>2
<1>3. ASSUME NEW g \in Nat, NEW h \in Nat, g # h
      PROVE  Entries(g) \cap Entries(h) = {}
  BY <1>1, <1>2, <1>3 DEF Entries
<1> QED BY <1>1, <1>2, <1>3

-----------------------------------------------------------------------------
(* The inductive invariant.                                                *)

Stored == {h \in Heights : GetConsensusStateFound(h)}

\* The store has the client state and, for each of some EVM heights, all four
\* entries and nothing else; the entries of a height are about that height.
IInv ==
    /\ evmChain \in Seq(P!Blocks) /\ Len(evmChain) <= MaxEvmHeight /\ now \in Nat
    /\ \A k \in DOMAIN kv : k = ClientStateKey \/ \E h \in Stored : k \in Entries(h)
    /\ ClientStateKey \in DOMAIN kv => kv[ClientStateKey] \in Nat
    /\ \A h \in Stored :
         /\ h \in 1..Len(evmChain)
         /\ Entries(h) \subseteq DOMAIN kv /\ ClientStateKey \in DOMAIN kv
         /\ kv[ConsensusStateKey(h)] \in P!ConsensusState
         /\ kv[ConsensusStateKey(h)].StateRoot = evmChain[h].root
         /\ kv[ProcessedTimeKey(h)] \in Nat /\ kv[ProcessedHeightKey(h)] \in Nat
         /\ kv[IterationKey(h)] = ConsensusStateKey(h)

\* What initialize and UpdateState write: the entries of one height and the client
\* state, and nothing else.
LEMMA WriteEffect ==
    ASSUME NEW h \in Nat, NEW cs, Write(h, cs)
    PROVE  /\ DOMAIN kv' = DOMAIN kv \cup Entries(h) \cup {ClientStateKey}
           /\ kv'[ClientStateKey] = h /\ kv'[ConsensusStateKey(h)] = cs
           /\ kv'[ProcessedTimeKey(h)] = now /\ kv'[ProcessedHeightKey(h)] = now
           /\ kv'[IterationKey(h)] = ConsensusStateKey(h)
           /\ \A k \in DOMAIN kv \ (Entries(h) \cup {ClientStateKey}) : kv'[k] = kv[k]
<1> DEFINE a == Put(kv, ConsensusStateKey(h), cs)
           b == Put(a, ProcessedTimeKey(h), now)
           c == Put(b, ProcessedHeightKey(h), now)
           d == Put(c, IterationKey(h), ConsensusStateKey(h))
           e == Put(d, ClientStateKey, h)
<1>1. kv' = e
  BY DEF Write, SetClientState, SetConsensusMetadata, SetConsensusState, SetIterationKey,
         SetProcessedHeight, SetProcessedTime
<1>a. /\ DOMAIN a = DOMAIN kv \cup {ConsensusStateKey(h)} /\ a[ConsensusStateKey(h)] = cs
      /\ \A k \in DOMAIN kv \ {ConsensusStateKey(h)} : a[k] = kv[k]
  BY DEF Put
<1> HIDE DEF a
<1>b. /\ DOMAIN b = DOMAIN a \cup {ProcessedTimeKey(h)} /\ b[ProcessedTimeKey(h)] = now
      /\ \A k \in DOMAIN a \ {ProcessedTimeKey(h)} : b[k] = a[k]
  BY DEF Put
<1> HIDE DEF b
<1>c. /\ DOMAIN c = DOMAIN b \cup {ProcessedHeightKey(h)} /\ c[ProcessedHeightKey(h)] = now
      /\ \A k \in DOMAIN b \ {ProcessedHeightKey(h)} : c[k] = b[k]
  BY DEF Put
<1> HIDE DEF c
<1>d. /\ DOMAIN d = DOMAIN c \cup {IterationKey(h)} /\ d[IterationKey(h)] = ConsensusStateKey(h)
      /\ \A k \in DOMAIN c \ {IterationKey(h)} : d[k] = c[k]
  BY DEF Put
<1> HIDE DEF d
<1>e. /\ DOMAIN e = DOMAIN d \cup {ClientStateKey} /\ e[ClientStateKey] = h
      /\ \A k \in DOMAIN d \ {ClientStateKey} : e[k] = d[k]
  BY DEF Put
<1> HIDE DEF e
<1>k. /\ ConsensusStateKey(h) \notin {ProcessedTimeKey(h), ProcessedHeightKey(h),
                                       IterationKey(h), ClientStateKey}
      /\ ProcessedTimeKey(h) \notin {ProcessedHeightKey(h), IterationKey(h), ClientStateKey}
      /\ ProcessedHeightKey(h) \notin {IterationKey(h), ClientStateKey}
      /\ IterationKey(h) # ClientStateKey
  BY KeysDiffer
<1>2. /\ DOMAIN kv' = DOMAIN kv \cup Entries(h) \cup {ClientStateKey}
      /\ kv'[ClientStateKey] = h
  BY <1>1, <1>a, <1>b, <1>c, <1>d, <1>e DEF Entries
<1>3. /\ kv'[ConsensusStateKey(h)] = cs /\ kv'[ProcessedTimeKey(h)] = now
      /\ kv'[ProcessedHeightKey(h)] = now /\ kv'[IterationKey(h)] = ConsensusStateKey(h)
  BY <1>1, <1>a, <1>b, <1>c, <1>d, <1>e, <1>k
<1>4. \A k \in DOMAIN kv \ (Entries(h) \cup {ClientStateKey}) : kv'[k] = kv[k]
  BY <1>1, <1>a, <1>b, <1>c, <1>d, <1>e DEF Entries
<1> QED BY <1>2, <1>3, <1>4

\* Heights are numbers that the chain has.
LEMMA StoredHeights ==
    ASSUME IInv
    PROVE  /\ Heights \subseteq Nat /\ Stored \subseteq Heights
           /\ Len(evmChain) \in Nat /\ 1..Len(evmChain) \subseteq Heights \ {0}
           /\ DOMAIN evmChain = 1..Len(evmChain)
<1>1. Len(evmChain) \in Nat /\ DOMAIN evmChain = 1..Len(evmChain)
  BY DEF IInv
<1>2. MaxEvmHeight \in Nat /\ Len(evmChain) <= MaxEvmHeight
  BY StoreAssumption DEF IInv
<1> QED BY <1>1, <1>2 DEF Heights, Stored

\* An update keeps the invariant: it adds one height, or writes it again.
LEMMA WriteIInv ==
    ASSUME IInv, NEW h \in 1..Len(evmChain), NEW cs \in P!ConsensusState,
           cs.StateRoot = evmChain[h].root, Write(h, cs)
    PROVE  /\ IInv' /\ Stored' = Stored \cup {h}
           /\ \A g \in Stored \ {h} : \A k \in Entries(g) : kv'[k] = kv[k]
<1>1. h \in Nat /\ h \in Heights /\ Stored \subseteq Nat /\ Heights \subseteq Nat
  BY StoredHeights
<1>2. /\ DOMAIN kv' = DOMAIN kv \cup Entries(h) \cup {ClientStateKey}
      /\ kv'[ClientStateKey] = h /\ kv'[ConsensusStateKey(h)] = cs
      /\ kv'[ProcessedTimeKey(h)] = now /\ kv'[ProcessedHeightKey(h)] = now
      /\ kv'[IterationKey(h)] = ConsensusStateKey(h)
      /\ \A k \in DOMAIN kv \ (Entries(h) \cup {ClientStateKey}) : kv'[k] = kv[k]
  BY <1>1, WriteEffect
<1>3. UNCHANGED <<evmChain, now>>
  BY DEF Write
<1>4. \A g \in Nat \ {h} : Entries(g) \cap Entries(h) = {}
  BY <1>1, KeysDiffer
<1>5. \A g \in Nat : ClientStateKey \notin Entries(g)
  BY KeysDiffer DEF Entries
<1>6. \A g \in Nat : /\ ConsensusStateKey(g) \in Entries(g) /\ ProcessedTimeKey(g) \in Entries(g)
                     /\ ProcessedHeightKey(g) \in Entries(g) /\ IterationKey(g) \in Entries(g)
  BY DEF Entries
<1>7. Stored' = Stored \cup {h}
  <2>1. \A g \in Heights : ConsensusStateKey(g) \in DOMAIN kv' <=>
                            ConsensusStateKey(g) \in DOMAIN kv \/ g = h
    BY <1>1, <1>2, <1>4, <1>5, <1>6
  <2> QED BY <1>1, <2>1 DEF Stored, GetConsensusStateFound
<1>8. \A g \in Stored \ {h} : /\ Entries(g) \subseteq DOMAIN kv
                              /\ \A k \in Entries(g) : kv'[k] = kv[k]
  BY <1>1, <1>2, <1>4, <1>5 DEF IInv
<1>9. ASSUME NEW g \in Stored'
      PROVE  /\ g \in 1..Len(evmChain)
             /\ Entries(g) \subseteq DOMAIN kv' /\ ClientStateKey \in DOMAIN kv'
             /\ kv'[ConsensusStateKey(g)] \in P!ConsensusState
             /\ kv'[ConsensusStateKey(g)].StateRoot = evmChain[g].root
             /\ kv'[ProcessedTimeKey(g)] \in Nat /\ kv'[ProcessedHeightKey(g)] \in Nat
             /\ kv'[IterationKey(g)] = ConsensusStateKey(g)
  <2>1. CASE g = h
    BY <1>2, <2>1 DEF IInv
  <2>2. CASE g # h
    <3>1. g \in Stored \ {h} /\ g \in Nat
      BY <1>1, <1>7, <2>2
    <3>2. /\ kv'[ConsensusStateKey(g)] = kv[ConsensusStateKey(g)]
          /\ kv'[ProcessedTimeKey(g)] = kv[ProcessedTimeKey(g)]
          /\ kv'[ProcessedHeightKey(g)] = kv[ProcessedHeightKey(g)]
          /\ kv'[IterationKey(g)] = kv[IterationKey(g)]
          /\ Entries(g) \subseteq DOMAIN kv
      BY <1>6, <1>8, <3>1
    <3> QED BY <1>2, <3>1, <3>2 DEF IInv
  <2> QED BY <2>1, <2>2
<1>10. ASSUME NEW k \in DOMAIN kv'
       PROVE  k = ClientStateKey \/ \E g \in Stored' : k \in Entries(g)
  BY <1>2, <1>7 DEF IInv
<1>11. IInv'
  BY <1>1, <1>2, <1>3, <1>9, <1>10 DEF IInv
<1> QED BY <1>7, <1>8, <1>11

\* Every iteration key is that of a stored height, and the iteration never stops early:
\* the error of pruneCb does not occur.
LEMMA IterationFacts ==
    ASSUME IInv
    PROVE  /\ IterationKeys = {IterationKey(h) : h \in Stored}
           /\ {GetHeightFromIterationKey(k) : k \in IterationKeys} = Stored
           /\ IterateConsensusStateAscending = Stored
<1>1. Stored \subseteq Nat
  BY StoredHeights
<1>2. \A h \in Stored : GetHeightFromIterationKey(IterationKey(h)) = h
  BY <1>1, IterationKeyHeight
<1>3. IterationKeys = {IterationKey(h) : h \in Stored}
  <2>1. \A k \in IterationKeys : \E h \in Stored : k = IterationKey(h)
    BY KeysDiffer DEF IInv, IterationKeys, KeysOf, Entries
  <2>2. \A h \in Stored : IterationKey(h) \in IterationKeys
    BY KeysDiffer DEF IInv, IterationKeys, KeysOf, Entries
  <2> QED BY <2>1, <2>2
<1>4. {GetHeightFromIterationKey(k) : k \in IterationKeys} = Stored
  BY <1>2, <1>3
<1>5. \A k \in IterationKeys : GetConsensusStateFound(GetHeightFromIterationKey(k))
  BY <1>2, <1>3 DEF Stored
<1>6. IterateConsensusStateAscending = {GetHeightFromIterationKey(k) : k \in IterationKeys}
  BY <1>5 DEF IterateConsensusStateAscending
<1> QED BY <1>3, <1>4, <1>6

\* Pruning keeps the invariant: heights go with all of their entries.
LEMMA PruneIInv ==
    ASSUME IInv, PruneAllExpiredConsensusStates,
           NEW heights, heights = {h \in Stored : P!IsExpired(GetConsensusState(h), now)}
    PROVE  /\ IInv' /\ Stored' = Stored \ heights
           /\ \A k \in DOMAIN kv' : k \in DOMAIN kv /\ kv'[k] = kv[k]
           /\ ClientStateKey \in DOMAIN kv' <=> ClientStateKey \in DOMAIN kv
<1>1. heights = {h \in IterateConsensusStateAscending :
                   GetConsensusStateFound(h) /\ P!IsExpired(GetConsensusState(h), now)}
  BY IterationFacts DEF Stored
<1>2. /\ kv' = DeleteConsensusMetadata(DeleteConsensusState(kv, heights), heights)
      /\ UNCHANGED <<evmChain, now>>
  BY <1>1 DEF PruneAllExpiredConsensusStates
<1> DEFINE gone == UNION {Entries(h) : h \in heights}
<1>3. DOMAIN kv' = DOMAIN kv \ gone /\ \A k \in DOMAIN kv' : kv'[k] = kv[k]
  <2> DEFINE a == Without(kv, {ConsensusStateKey(h) : h \in heights})
             b == Without(a, {ProcessedTimeKey(h) : h \in heights})
             c == Without(b, {ProcessedHeightKey(h) : h \in heights})
             d == Without(c, {IterationKey(h) : h \in heights})
  <2>1. kv' = d
    BY <1>2 DEF DeleteConsensusMetadata, DeleteConsensusState, DeleteIterationKey,
                DeleteProcessedHeight, DeleteProcessedTime
  <2>a. /\ DOMAIN a = DOMAIN kv \ {ConsensusStateKey(h) : h \in heights}
        /\ \A k \in DOMAIN a : a[k] = kv[k]
    BY DEF Without
  <2> HIDE DEF a
  <2>b. /\ DOMAIN b = DOMAIN a \ {ProcessedTimeKey(h) : h \in heights}
        /\ \A k \in DOMAIN b : b[k] = a[k]
    BY DEF Without
  <2> HIDE DEF b
  <2>c. /\ DOMAIN c = DOMAIN b \ {ProcessedHeightKey(h) : h \in heights}
        /\ \A k \in DOMAIN c : c[k] = b[k]
    BY DEF Without
  <2> HIDE DEF c
  <2>d. /\ DOMAIN d = DOMAIN c \ {IterationKey(h) : h \in heights}
        /\ \A k \in DOMAIN d : d[k] = c[k]
    BY DEF Without
  <2> HIDE DEF d
  <2>2. gone = {ConsensusStateKey(h) : h \in heights} \cup {ProcessedTimeKey(h) : h \in heights}
               \cup {ProcessedHeightKey(h) : h \in heights} \cup {IterationKey(h) : h \in heights}
    BY DEF Entries
  <2> QED BY <2>1, <2>2, <2>a, <2>b, <2>c, <2>d
<1>4. heights \subseteq Stored /\ Stored \subseteq Nat /\ Heights \subseteq Nat
  BY StoredHeights
<1>5. \A g \in Nat \ heights : Entries(g) \cap gone = {}
  BY <1>4, KeysDiffer
<1>6. ClientStateKey \notin gone
  BY KeysDiffer DEF Entries
<1> HIDE DEF gone
<1>7. \A g \in Nat : /\ ConsensusStateKey(g) \in Entries(g) /\ ProcessedTimeKey(g) \in Entries(g)
                     /\ ProcessedHeightKey(g) \in Entries(g) /\ IterationKey(g) \in Entries(g)
  BY DEF Entries
<1>8. Stored' = Stored \ heights
  <2>1. \A g \in heights : ConsensusStateKey(g) \in gone
    BY DEF gone, Entries
  <2>2. \A g \in Heights : ConsensusStateKey(g) \in DOMAIN kv' <=>
                            ConsensusStateKey(g) \in DOMAIN kv /\ g \notin heights
    BY <1>3, <1>4, <1>5, <1>7, <2>1
  <2> QED BY <2>2 DEF Stored, GetConsensusStateFound
<1>9. ASSUME NEW g \in Stored'
      PROVE  /\ g \in Stored /\ Entries(g) \subseteq DOMAIN kv' /\ ClientStateKey \in DOMAIN kv'
             /\ kv'[ConsensusStateKey(g)] = kv[ConsensusStateKey(g)]
             /\ kv'[ProcessedTimeKey(g)] = kv[ProcessedTimeKey(g)]
             /\ kv'[ProcessedHeightKey(g)] = kv[ProcessedHeightKey(g)]
             /\ kv'[IterationKey(g)] = kv[IterationKey(g)]
  <2>1. g \in Stored /\ g \in Nat \ heights
    BY <1>4, <1>8
  <2>2. Entries(g) \subseteq DOMAIN kv /\ ClientStateKey \in DOMAIN kv
    BY <2>1 DEF IInv
  <2>3. Entries(g) \subseteq DOMAIN kv' /\ ClientStateKey \in DOMAIN kv'
    BY <1>3, <1>5, <1>6, <2>1, <2>2
  <2> QED BY <1>3, <1>7, <2>1, <2>3
<1>10. ASSUME NEW k \in DOMAIN kv'
       PROVE  k = ClientStateKey \/ \E g \in Stored' : k \in Entries(g)
  <2>1. k \in DOMAIN kv /\ k \notin gone
    BY <1>3
  <2>2. CASE k # ClientStateKey
    <3>1. PICK g \in Stored : k \in Entries(g)
      BY <2>1, <2>2 DEF IInv
    <3>2. g \notin heights
      BY <2>1, <3>1 DEF gone
    <3> QED BY <1>8, <3>1, <3>2
  <2> QED BY <2>2
<1>11. IInv'
  BY <1>2, <1>3, <1>9, <1>10 DEF IInv
<1> QED BY <1>3, <1>6, <1>8, <1>11

\* The roll-up's blocks keep it: the chain only grows.
LEMMA ProduceBlockIInv ==
    ASSUME IInv, NEW ps \in SUBSET Packets, NEW changed \in BOOLEAN,
           P!ProduceBlock(ps, changed), UNCHANGED kv
    PROVE  IInv'
<1> DEFINE n == Len(evmChain)
           root == IF changed
                   THEN [version |-> P!LatestRoot.version + 1,
                         commitments |-> P!LatestRoot.commitments \cup ps]
                   ELSE P!LatestRoot
           block == [root |-> root, time |-> now + 1]
<1>1. /\ evmChain \in Seq(P!Blocks) /\ n \in Nat /\ DOMAIN evmChain = 1..n /\ now \in Nat
      /\ n < MaxEvmHeight /\ now' = now + 1 /\ evmChain' = Append(evmChain, block)
  BY DEF IInv, P!ProduceBlock
<1>2. P!LatestRoot \in P!Roots
  <2>1. CASE evmChain = <<>>
    BY <2>1 DEF P!LatestRoot, P!GenesisRoot, P!Roots
  <2>2. CASE evmChain # <<>>
    <3>1. n \in 1..n
      <4>1. n \in Nat \ {0}
        BY <1>1, <2>2, EmptySeq, Zenon
      <4> HIDE DEF n
      <4> QED BY <4>1
    <3>2. evmChain[n] \in P!Blocks
      BY <1>1, <3>1, ElementOfSeq
    <3> QED BY <2>2, <3>2 DEF P!LatestRoot, P!Blocks
  <2> QED BY <2>1, <2>2
<1>3. root \in P!Roots
  BY <1>2 DEF P!Roots
<1>4. block \in P!Blocks
  <2> HIDE DEF root
  <2> QED BY <1>1, <1>3 DEF P!Blocks
<1> HIDE DEF block
<1>5. /\ evmChain' \in Seq(P!Blocks) /\ Len(evmChain') = n + 1
      /\ \A i \in 1..n : evmChain'[i] = evmChain[i]
  BY <1>1, <1>4
<1>6. n + 1 <= MaxEvmHeight
  BY <1>1, StoreAssumption
<1>7. UNCHANGED Stored
  BY DEF Stored, GetConsensusStateFound
<1>8. \A h \in Stored : h \in 1..(n + 1) /\ h \in 1..n
  BY <1>1 DEF IInv
<1> QED BY <1>1, <1>5, <1>6, <1>7, <1>8 DEF IInv

\* The header a relayer builds is of the block it names.
LEMMA RelayedState ==
    ASSUME IInv, NEW n \in DOMAIN evmChain, NEW b \in DOMAIN evmChain
    PROVE  /\ n \in 1..Len(evmChain)
           /\ [StateRoot |-> evmChain[n].root, HeaderTimestamp |-> evmChain[b].time]
                \in P!ConsensusState
<1>1. n \in 1..Len(evmChain) /\ b \in 1..Len(evmChain) /\ evmChain \in Seq(P!Blocks)
  BY StoredHeights DEF IInv
<1>2. evmChain[n] \in P!Blocks /\ evmChain[b] \in P!Blocks
  BY <1>1, ElementOfSeq
<1> QED BY <1>1, <1>2 DEF P!Blocks, P!ConsensusState

\* A step that writes a height: which, and what.
WriteStep(h, cs) ==
    /\ h \in 1..Len(evmChain) /\ cs \in P!ConsensusState /\ cs.StateRoot = evmChain[h].root
    /\ Write(h, cs)

\* initialize writes the block that the client is created from.
LEMMA InitializeWrites ==
    ASSUME IInv, NEW h \in DOMAIN evmChain, Initialize(h)
    PROVE  WriteStep(h, [StateRoot |-> evmChain[h].root, HeaderTimestamp |-> evmChain[h].time])
<1> DEFINE cs == [StateRoot |-> evmChain[h].root, HeaderTimestamp |-> evmChain[h].time]
<1>1. Write(h, cs)
  BY DEF Initialize
<1>2. h \in 1..Len(evmChain) /\ cs \in P!ConsensusState
  BY RelayedState
<1>3. cs.StateRoot = evmChain[h].root
  OBVIOUS
<1> HIDE DEF cs
<1>4. WriteStep(h, cs)
  BY <1>1, <1>2, <1>3 DEF WriteStep
<1> QED BY <1>4 DEF cs

\* UpdateState writes the newest block of the proof.
LEMMA UpdateWrites ==
    ASSUME IInv, NEW t, NEW n \in DOMAIN evmChain, NEW b \in DOMAIN evmChain,
           UpdateClient(P!RelayedHeader(t, n, b))
    PROVE  /\ WriteStep(n, [StateRoot |-> evmChain[n].root, HeaderTimestamp |-> evmChain[b].time])
           /\ Status = "Active" /\ GetConsensusStateFound(t) /\ n > t
<1> DEFINE cs == [StateRoot |-> evmChain[n].root, HeaderTimestamp |-> evmChain[b].time]
           header == P!RelayedHeader(t, n, b)
<1>1. /\ header.TrustedHeight = t /\ header.NewestHeight = n
      /\ header.NewestStateRoot = evmChain[n].root /\ header.Timestamp = evmChain[b].time
  BY DEF P!RelayedHeader
<1>2. /\ Status = "Active" /\ GetConsensusStateFound(header.TrustedHeight)
      /\ header.NewestHeight > header.TrustedHeight
      /\ Write(header.NewestHeight,
               [StateRoot |-> header.NewestStateRoot, HeaderTimestamp |-> header.Timestamp])
  BY DEF UpdateClient
<1> HIDE DEF header
<1>3. Write(n, cs)
  BY <1>1, <1>2
<1>4. n \in 1..Len(evmChain) /\ cs \in P!ConsensusState
  BY RelayedState
<1>5. cs.StateRoot = evmChain[n].root
  OBVIOUS
<1> HIDE DEF cs
<1>6. WriteStep(n, cs)
  BY <1>3, <1>4, <1>5 DEF WriteStep
<1> QED BY <1>1, <1>2, <1>6 DEF cs

\* Every step keeps the invariant.
LEMMA NextIInv == IInv /\ [Next]_vars => IInv'
<1> SUFFICES ASSUME IInv, [Next]_vars PROVE IInv'
  OBVIOUS
<1>1. CASE Environment
  <2>1. CASE \E ps \in SUBSET Packets, changed \in BOOLEAN : P!ProduceBlock(ps, changed)
    BY <1>1, <2>1, ProduceBlockIInv DEF Environment
  <2>2. CASE P!Tick
    <3>1. UNCHANGED <<evmChain, kv, Stored>> /\ now' \in Nat
      BY <1>1, <2>2 DEF Environment, P!Tick, IInv, Stored, GetConsensusStateFound
    <3> QED BY <3>1 DEF IInv
  <2> QED BY <1>1, <2>1, <2>2 DEF Environment
<1>2. ASSUME NEW h, NEW cs, WriteStep(h, cs)
      PROVE  IInv'
  BY <1>2, WriteIInv DEF WriteStep
<1>3. CASE \E h \in DOMAIN evmChain : Initialize(h)
  BY <1>2, <1>3, InitializeWrites
<1>4. CASE \E t \in 1..MaxEvmHeight, n \in DOMAIN evmChain, b \in DOMAIN evmChain :
             b <= n /\ UpdateClient(P!RelayedHeader(t, n, b))
  BY <1>2, <1>4, UpdateWrites
<1>5. CASE PruneAllExpiredConsensusStates
  BY <1>5, PruneIInv
<1>6. CASE UNCHANGED vars
  BY <1>6 DEF vars, IInv, Stored, GetConsensusStateFound
<1> QED BY <1>1, <1>3, <1>4, <1>5, <1>6 DEF Next

\* The invariant holds throughout.
THEOREM Invariance == Spec => []IInv
<1>1. Init => IInv
  BY StoreAssumption DEF Init, IInv, Stored, GetConsensusStateFound
<1> QED BY <1>1, NextIInv, PTL DEF Spec

-----------------------------------------------------------------------------
(* The store implements Groth16Pruning.                                    *)

\* The maps that the store stands for, as P instantiates them.
Client == [exists |-> Status = "Active", LatestHeight |-> LatestHeight]
ConsensusStates == [h \in {k \in Heights : GetConsensusStateFound(k)} |->
    [StateRoot |-> GetConsensusState(h).StateRoot, HeaderTimestamp |-> TimestampAtHeight(h).value]]
ProcessedTimes == [h \in {k \in Heights : GetProcessedTime(k).found} |-> GetProcessedTime(h).value]
ProcessedHeights ==
    [h \in {k \in Heights : GetProcessedHeight(k).found} |-> GetProcessedHeight(h).value]
IterationHeights == {GetHeightFromIterationKey(k) : k \in IterationKeys}

\* All maps have the stored heights as their domain.
MapsOfStore ==
    /\ ConsensusStates = [h \in Stored |-> kv[ConsensusStateKey(h)]]
    /\ ProcessedTimes = [h \in Stored |-> kv[ProcessedTimeKey(h)]]
    /\ ProcessedHeights = [h \in Stored |-> kv[ProcessedHeightKey(h)]]
    /\ IterationHeights = Stored
    /\ Client = [exists |-> ClientStateKey \in DOMAIN kv,
                 LatestHeight |-> IF ClientStateKey \in DOMAIN kv THEN kv[ClientStateKey] ELSE 0]

\* Reads of the store in a state that has the invariant.
LEMMA MapFacts ==
    ASSUME IInv
    PROVE  MapsOfStore
<1>1. (Status = "Active") = (ClientStateKey \in DOMAIN kv)
      /\ LatestHeight = IF ClientStateKey \in DOMAIN kv THEN kv[ClientStateKey] ELSE 0
  BY DEF Status, LatestHeight, GetClientState, Get
<1>2. ASSUME NEW h \in Stored
      PROVE  [StateRoot |-> GetConsensusState(h).StateRoot,
              HeaderTimestamp |-> TimestampAtHeight(h).value] = kv[ConsensusStateKey(h)]
  <2>1. kv[ConsensusStateKey(h)] \in P!ConsensusState /\ ClientStateKey \in DOMAIN kv
        /\ GetConsensusStateFound(h)
    BY DEF IInv, Stored
  <2>2. TimestampAtHeight(h) = Value(kv[ConsensusStateKey(h)].HeaderTimestamp)
    BY <1>1, <2>1 DEF TimestampAtHeight, getTimestampAtHeight, GetConsensusState
  <2>3. TimestampAtHeight(h).value = kv[ConsensusStateKey(h)].HeaderTimestamp
    BY <2>2 DEF Value
  <2> QED BY <2>1, <2>3 DEF P!ConsensusState, GetConsensusState
<1>3. ConsensusStates = [h \in Stored |-> kv[ConsensusStateKey(h)]]
  BY <1>2 DEF ConsensusStates, Stored
<1>4. \A h \in Heights : /\ h \in Stored <=> ProcessedTimeKey(h) \in DOMAIN kv
                         /\ h \in Stored <=> ProcessedHeightKey(h) \in DOMAIN kv
  <2>1. ASSUME NEW h \in Heights
        PROVE  /\ ProcessedTimeKey(h) \in DOMAIN kv => h \in Stored
               /\ ProcessedHeightKey(h) \in DOMAIN kv => h \in Stored
    <3>1. h \in Nat /\ Stored \subseteq Nat
      BY StoredHeights
    <3>2. /\ ProcessedTimeKey(h) \in Entries(h) /\ ProcessedHeightKey(h) \in Entries(h)
          /\ ProcessedTimeKey(h) # ClientStateKey /\ ProcessedHeightKey(h) # ClientStateKey
      BY KeysDiffer DEF Entries
    <3>3. \A g \in Nat \ {h} : Entries(g) \cap Entries(h) = {}
      BY <3>1, KeysDiffer
    <3> QED BY <3>1, <3>2, <3>3 DEF IInv
  <2>2. \A h \in Stored : /\ ProcessedTimeKey(h) \in DOMAIN kv
                          /\ ProcessedHeightKey(h) \in DOMAIN kv
    BY DEF IInv, Entries
  <2> QED BY <2>1, <2>2
<1>5. ProcessedTimes = [h \in Stored |-> kv[ProcessedTimeKey(h)]]
  <2>1. {k \in Heights : GetProcessedTime(k).found} = Stored
    BY <1>4, StoredHeights DEF GetProcessedTime, Get
  <2>2. \A h \in Stored : GetProcessedTime(h).value = kv[ProcessedTimeKey(h)]
    BY <1>4, StoredHeights DEF GetProcessedTime, Get
  <2> QED BY <2>1, <2>2 DEF ProcessedTimes
<1>6. ProcessedHeights = [h \in Stored |-> kv[ProcessedHeightKey(h)]]
  <2>1. {k \in Heights : GetProcessedHeight(k).found} = Stored
    BY <1>4, StoredHeights DEF GetProcessedHeight, Get
  <2>2. \A h \in Stored : GetProcessedHeight(h).value = kv[ProcessedHeightKey(h)]
    BY <1>4, StoredHeights DEF GetProcessedHeight, Get
  <2> QED BY <2>1, <2>2 DEF ProcessedHeights
<1>7. IterationHeights = Stored
  BY IterationFacts DEF IterationHeights
<1>8. Client = [exists |-> ClientStateKey \in DOMAIN kv,
                LatestHeight |-> IF ClientStateKey \in DOMAIN kv THEN kv[ClientStateKey] ELSE 0]
  BY <1>1, Zenon DEF Client
<1> QED BY <1>3, <1>5, <1>6, <1>7, <1>8 DEF MapsOfStore

\* The same in the next state.
LEMMA MapFactsNext == IInv' => MapsOfStore'
<1>1. IInv => MapsOfStore
  BY MapFacts
<1> QED BY <1>1, PTL

\* Pruning keeps the store consistent, and what stays is the roll-up's.
THEOREM PruningKeepsStore == Spec => []PruneKeepsStore
<1>1. ASSUME IInv
      PROVE  PruneKeepsStore
  <2>1. /\ ConsensusStates = [h \in Stored |-> kv[ConsensusStateKey(h)]]
        /\ ProcessedTimes = [h \in Stored |-> kv[ProcessedTimeKey(h)]]
        /\ ProcessedHeights = [h \in Stored |-> kv[ProcessedHeightKey(h)]]
        /\ IterationHeights = Stored
    BY <1>1, MapFacts DEF MapsOfStore
  <2>2. /\ IterationHeights = DOMAIN ConsensusStates
        /\ ProcessedTimes \in [IterationHeights -> Nat]
        /\ ProcessedHeights \in [IterationHeights -> Nat]
    BY <1>1, <2>1 DEF IInv
  <2>3. P!StoreConsistent
    BY <2>2 DEF P!StoreConsistent, IterationHeights, ConsensusStates, ProcessedTimes, ProcessedHeights
  <2>4. \A h \in DOMAIN ConsensusStates :
          h \in DOMAIN evmChain /\ ConsensusStates[h].StateRoot = evmChain[h].root
    BY <1>1, <2>1, StoredHeights DEF IInv
  <2>5. P!RootsMatchEvm
    BY <2>4 DEF P!RootsMatchEvm, ConsensusStates
  <2> QED BY <2>3, <2>5 DEF PruneKeepsStore
<1> QED BY <1>1, Invariance, PTL

\* A metadata export is complete.
THEOREM MetadataIsComplete == Spec => []MetadataComplete
<1>1. ASSUME IInv
      PROVE  MetadataComplete
  <2> DEFINE handed == IterateConsensusMetadata
             Metadata(h) == {ProcessedTimeKey(h), ProcessedHeightKey(h), IterationKey(h)}
  <2>1. \A k \in DOMAIN kv : k.kind \in {"clientState", "consensusStates", "processedTime",
                                        "processedHeight", "iterateConsensusStates"}
    BY <1>1, KeysDiffer DEF IInv, Entries
  <2>2. handed = DOMAIN kv \ (KeysOf("clientState") \cup KeysOf("consensusStates"))
    BY <2>1 DEF IterateConsensusMetadata, IterationKeys, KeysOf
  <2>3. ASSUME NEW k \in handed
        PROVE  \E h \in Stored : k \in Metadata(h)
    <3>1. k \in DOMAIN kv /\ k.kind \in {"processedTime", "processedHeight", "iterateConsensusStates"}
      BY DEF IterateConsensusMetadata, IterationKeys, KeysOf
    <3>2. PICK h \in Stored : k \in Entries(h)
      BY <1>1, <3>1, KeysDiffer DEF IInv
    <3>3. k \in Metadata(h)
      BY <3>1, <3>2, KeysDiffer DEF Entries
    <3> QED BY <3>3
  <2>4. ASSUME NEW h \in Stored
        PROVE  Metadata(h) \subseteq handed
    <3>1. Metadata(h) \subseteq DOMAIN kv
      BY <1>1 DEF IInv, Entries
    <3> QED BY <3>1, KeysDiffer DEF IterateConsensusMetadata, IterationKeys, KeysOf
  <2>5. handed = UNION {Metadata(h) : h \in Stored}
    <3> HIDE DEF handed, Metadata
    <3> QED BY <2>3, <2>4
  <2>6. \A h \in Stored : GetIterationKey(h) = [found |-> TRUE, value |-> ConsensusStateKey(h)]
    BY <1>1 DEF IInv, Entries, GetIterationKey, Get
  <2> QED BY <2>2, <2>5, <2>6 DEF MetadataComplete, Stored
<1> QED BY <1>1, Invariance, PTL

\* A write is one write of each map (setConsensusMetadata and what it is called with).
LEMMA WriteMaps ==
    ASSUME IInv, NEW h, NEW cs, WriteStep(h, cs)
    PROVE  /\ ConsensusStates' = P!Set(ConsensusStates, h, cs)
           /\ ProcessedTimes' = P!Set(ProcessedTimes, h, now)
           /\ ProcessedHeights' = P!Set(ProcessedHeights, h, now)
           /\ IterationHeights' = IterationHeights \cup {h}
           /\ Client' = [exists |-> TRUE, LatestHeight |-> h]
           /\ UNCHANGED <<evmChain, now>>
<1>1. /\ h \in 1..Len(evmChain) /\ cs \in P!ConsensusState
      /\ cs.StateRoot = evmChain[h].root /\ Write(h, cs)
  BY DEF WriteStep
<1>2. h \in Nat
  BY <1>1
<1>3. /\ IInv' /\ Stored' = Stored \cup {h}
      /\ \A g \in Stored \ {h} : \A k \in Entries(g) : kv'[k] = kv[k]
  BY <1>1, WriteIInv
<1>4. /\ ClientStateKey \in DOMAIN kv' /\ kv'[ClientStateKey] = h
      /\ kv'[ConsensusStateKey(h)] = cs
      /\ kv'[ProcessedTimeKey(h)] = now /\ kv'[ProcessedHeightKey(h)] = now
  BY <1>1, <1>2, WriteEffect
<1>5. /\ ConsensusStates = [g \in Stored |-> kv[ConsensusStateKey(g)]]
      /\ ProcessedTimes = [g \in Stored |-> kv[ProcessedTimeKey(g)]]
      /\ ProcessedHeights = [g \in Stored |-> kv[ProcessedHeightKey(g)]]
      /\ IterationHeights = Stored
  BY MapFacts DEF MapsOfStore
<1>6. /\ ConsensusStates' = [g \in Stored' |-> kv'[ConsensusStateKey(g)]]
      /\ ProcessedTimes' = [g \in Stored' |-> kv'[ProcessedTimeKey(g)]]
      /\ ProcessedHeights' = [g \in Stored' |-> kv'[ProcessedHeightKey(g)]]
      /\ IterationHeights' = Stored'
      /\ Client' = [exists |-> ClientStateKey \in DOMAIN kv',
                    LatestHeight |-> IF ClientStateKey \in DOMAIN kv' THEN kv'[ClientStateKey] ELSE 0]
  BY <1>3, MapFactsNext DEF MapsOfStore
<1>7. \A g \in Stored \ {h} :
         /\ kv'[ConsensusStateKey(g)] = kv[ConsensusStateKey(g)]
         /\ kv'[ProcessedTimeKey(g)] = kv[ProcessedTimeKey(g)]
         /\ kv'[ProcessedHeightKey(g)] = kv[ProcessedHeightKey(g)]
  BY <1>3 DEF Entries
<1>8. ConsensusStates' = P!Set(ConsensusStates, h, cs)
  BY <1>3, <1>4, <1>5, <1>6, <1>7 DEF P!Set
<1>9. ProcessedTimes' = P!Set(ProcessedTimes, h, now)
  BY <1>3, <1>4, <1>5, <1>6, <1>7 DEF P!Set
<1>10. ProcessedHeights' = P!Set(ProcessedHeights, h, now)
  BY <1>3, <1>4, <1>5, <1>6, <1>7 DEF P!Set
<1>11. Client' = [exists |-> TRUE, LatestHeight |-> h]
  BY <1>4, <1>6
<1> QED BY <1>1, <1>3, <1>5, <1>6, <1>8, <1>9, <1>10, <1>11 DEF Write

\* Pruning removes the same heights from every map.
LEMMA PruneMaps ==
    ASSUME IInv, PruneAllExpiredConsensusStates
    PROVE  LET heights == {k \in IterationHeights : P!IsExpired(ConsensusStates[k], now)}
           IN  /\ heights # {}
               /\ ConsensusStates' = [k \in DOMAIN ConsensusStates \ heights |-> ConsensusStates[k]]
               /\ ProcessedTimes' = [k \in DOMAIN ProcessedTimes \ heights |-> ProcessedTimes[k]]
               /\ ProcessedHeights' =
                    [k \in DOMAIN ProcessedHeights \ heights |-> ProcessedHeights[k]]
               /\ IterationHeights' = IterationHeights \ heights
               /\ UNCHANGED <<evmChain, now, Client>>
<1> DEFINE heights == {k \in IterationHeights : P!IsExpired(ConsensusStates[k], now)}
<1>1. /\ ConsensusStates = [g \in Stored |-> kv[ConsensusStateKey(g)]]
      /\ ProcessedTimes = [g \in Stored |-> kv[ProcessedTimeKey(g)]]
      /\ ProcessedHeights = [g \in Stored |-> kv[ProcessedHeightKey(g)]]
      /\ IterationHeights = Stored
      /\ Client = [exists |-> ClientStateKey \in DOMAIN kv,
                   LatestHeight |-> IF ClientStateKey \in DOMAIN kv THEN kv[ClientStateKey] ELSE 0]
  BY MapFacts DEF MapsOfStore
<1>2. heights = {h \in Stored : P!IsExpired(GetConsensusState(h), now)}
  BY <1>1 DEF GetConsensusState
<1>3. heights # {} /\ UNCHANGED <<evmChain, now>>
  BY <1>2, IterationFacts DEF PruneAllExpiredConsensusStates, Stored
<1> HIDE DEF heights
<1>4. /\ IInv' /\ Stored' = Stored \ heights
      /\ \A k \in DOMAIN kv' : k \in DOMAIN kv /\ kv'[k] = kv[k]
      /\ ClientStateKey \in DOMAIN kv' <=> ClientStateKey \in DOMAIN kv
  BY <1>2, PruneIInv
<1>5. /\ ConsensusStates' = [g \in Stored' |-> kv'[ConsensusStateKey(g)]]
      /\ ProcessedTimes' = [g \in Stored' |-> kv'[ProcessedTimeKey(g)]]
      /\ ProcessedHeights' = [g \in Stored' |-> kv'[ProcessedHeightKey(g)]]
      /\ IterationHeights' = Stored'
      /\ Client' = [exists |-> ClientStateKey \in DOMAIN kv',
                    LatestHeight |-> IF ClientStateKey \in DOMAIN kv' THEN kv'[ClientStateKey] ELSE 0]
  BY <1>4, MapFactsNext DEF MapsOfStore
<1>6. \A g \in Stored' :
         /\ kv'[ConsensusStateKey(g)] = kv[ConsensusStateKey(g)]
         /\ kv'[ProcessedTimeKey(g)] = kv[ProcessedTimeKey(g)]
         /\ kv'[ProcessedHeightKey(g)] = kv[ProcessedHeightKey(g)]
  BY <1>4 DEF IInv, Entries
<1>7. ConsensusStates' = [k \in DOMAIN ConsensusStates \ heights |-> ConsensusStates[k]]
  BY <1>1, <1>4, <1>5, <1>6
<1>8. ProcessedTimes' = [k \in DOMAIN ProcessedTimes \ heights |-> ProcessedTimes[k]]
  BY <1>1, <1>4, <1>5, <1>6
<1>9. ProcessedHeights' = [k \in DOMAIN ProcessedHeights \ heights |-> ProcessedHeights[k]]
  BY <1>1, <1>4, <1>5, <1>6
<1>10. IterationHeights' = IterationHeights \ heights
  BY <1>1, <1>4, <1>5
<1>11. UNCHANGED Client
  <2>1. (ClientStateKey \in DOMAIN kv') = (ClientStateKey \in DOMAIN kv)
    BY <1>4
  <2>2. (IF ClientStateKey \in DOMAIN kv' THEN kv'[ClientStateKey] ELSE 0)
        = (IF ClientStateKey \in DOMAIN kv THEN kv[ClientStateKey] ELSE 0)
    BY <1>4
  <2> QED BY <1>1, <1>5, <2>1, <2>2, Zenon
<1> QED BY <1>3, <1>7, <1>8, <1>9, <1>10, <1>11 DEF heights

\* The client on its key-value store implements the client on separate maps: every
\* handler, pruning included, is a step of Groth16Pruning.
THEOREM StoreRefinement == Spec => StoreRefines
<1>1. Init => P!Init
  <2> SUFFICES ASSUME Init PROVE P!Init
    OBVIOUS
  <2>1. DOMAIN kv = {}
    BY DEF Init
  <2>2. Client = [exists |-> FALSE, LatestHeight |-> 0]
    BY <2>1 DEF Client, Status, LatestHeight, GetClientState, Get
  <2>3. ConsensusStates = [h \in {} |-> evmChain[h]]
    BY <2>1 DEF ConsensusStates, GetConsensusStateFound
  <2>4. ProcessedTimes = [h \in {} |-> 0] /\ ProcessedHeights = [h \in {} |-> 0]
    BY <2>1 DEF ProcessedTimes, ProcessedHeights, GetProcessedTime, GetProcessedHeight, Get
  <2>5. IterationHeights = {}
    BY <2>1 DEF IterationHeights, IterationKeys, KeysOf
  <2> QED BY <2>2, <2>3, <2>4, <2>5 DEF Init, P!Init, Client, ConsensusStates, ProcessedTimes,
             ProcessedHeights, IterationHeights
<1>2. ASSUME IInv, [Next]_vars
      PROVE  [P!PruneNext]_(P!vars)
  <2>1. CASE Environment
    BY <2>1 DEF Environment, P!PruneNext, P!Next
  <2>2. ASSUME NEW h \in DOMAIN evmChain, Initialize(h)
        PROVE  P!Initialize(h)
    <3> DEFINE cs == [StateRoot |-> evmChain[h].root, HeaderTimestamp |-> evmChain[h].time]
    <3>1. WriteStep(h, cs)
      BY <1>2, <2>2, InitializeWrites
    <3> HIDE DEF cs
    <3>2. /\ ConsensusStates' = P!Set(ConsensusStates, h, cs)
          /\ ProcessedTimes' = P!Set(ProcessedTimes, h, now)
          /\ ProcessedHeights' = P!Set(ProcessedHeights, h, now)
          /\ IterationHeights' = IterationHeights \cup {h}
          /\ Client' = [exists |-> TRUE, LatestHeight |-> h]
          /\ UNCHANGED <<evmChain, now>>
      BY <1>2, <3>1, WriteMaps
    <3>3. ~ Client.exists
      BY <2>2 DEF Initialize, Client
    <3> QED BY <3>2, <3>3 DEF P!Initialize, P!SetConsensusState, P!SetConsensusMetadata,
               P!SetClientState, Client, ConsensusStates, ProcessedTimes, ProcessedHeights,
               IterationHeights, cs
  <2>3. ASSUME NEW t \in 1..MaxEvmHeight, NEW n \in DOMAIN evmChain, NEW b \in DOMAIN evmChain,
               UpdateClient(P!RelayedHeader(t, n, b))
        PROVE  P!UpdateClient(P!RelayedHeader(t, n, b))
    <3> DEFINE cs == [StateRoot |-> evmChain[n].root, HeaderTimestamp |-> evmChain[b].time]
               header == P!RelayedHeader(t, n, b)
    <3>1. WriteStep(n, cs) /\ Status = "Active" /\ GetConsensusStateFound(t) /\ n > t
      BY <1>2, <2>3, UpdateWrites
    <3>h. /\ header.TrustedHeight = t /\ header.NewestHeight = n
          /\ [StateRoot |-> header.NewestStateRoot, HeaderTimestamp |-> header.Timestamp] = cs
      BY DEF P!RelayedHeader
    <3> HIDE DEF cs, header
    <3>2. /\ ConsensusStates' = P!Set(ConsensusStates, n, cs)
          /\ ProcessedTimes' = P!Set(ProcessedTimes, n, now)
          /\ ProcessedHeights' = P!Set(ProcessedHeights, n, now)
          /\ IterationHeights' = IterationHeights \cup {n}
          /\ Client' = [exists |-> TRUE, LatestHeight |-> n]
          /\ UNCHANGED <<evmChain, now>>
      BY <1>2, <3>1, WriteMaps
    <3>3. Client.exists /\ t \in DOMAIN ConsensusStates
      <4>1. t \in Heights
        BY StoreAssumption DEF Heights
      <4> QED BY <3>1, <4>1 DEF Client, ConsensusStates
    <3>4. P!VerifyClientMessage(header)
      BY <3>1, <3>3, <3>h DEF P!VerifyClientMessage, P!GetConsensusStateFound, ConsensusStates
    <3>5. P!UpdateState(header)
      BY <3>2, <3>h DEF P!UpdateState, P!SetConsensusState, P!SetConsensusMetadata,
         P!SetClientState, Client, ConsensusStates, ProcessedTimes, ProcessedHeights, IterationHeights
    <3>6. P!UpdateClient(header)
      BY <3>2, <3>3, <3>4, <3>5 DEF P!UpdateClient, Client
    <3> QED BY <3>6 DEF header
  <2>4. CASE PruneAllExpiredConsensusStates
    <3>1. P!PruneAllExpiredConsensusStates
      BY <1>2, <2>4, PruneMaps DEF P!PruneAllExpiredConsensusStates, P!DeleteConsensusMetadata,
         Client, ConsensusStates, ProcessedTimes, ProcessedHeights, IterationHeights
    <3> QED BY <3>1 DEF P!PruneNext
  <2>5. CASE UNCHANGED vars
    BY <2>5 DEF vars, P!vars, P!store, Status, LatestHeight, GetClientState, Get,
       GetConsensusStateFound, GetConsensusState, TimestampAtHeight, getTimestampAtHeight,
       GetProcessedTime, GetProcessedHeight, IterationKeys, KeysOf
  <2>6. CASE \E h \in DOMAIN evmChain : Initialize(h)
    BY <2>2, <2>6 DEF P!PruneNext, P!Next
  <2>7. CASE \E t \in 1..MaxEvmHeight, n \in DOMAIN evmChain, b \in DOMAIN evmChain :
               b <= n /\ UpdateClient(P!RelayedHeader(t, n, b))
    <3>1. \E t \in 1..MaxEvmHeight, n \in DOMAIN evmChain, b \in DOMAIN evmChain :
               b <= n /\ P!UpdateClient(P!RelayedHeader(t, n, b))
      BY <2>3, <2>7
    <3> QED BY <3>1 DEF P!PruneNext, P!Next
  <2> QED BY <1>2, <2>1, <2>4, <2>5, <2>6, <2>7 DEF Next
<1> QED BY <1>1, <1>2, Invariance, PTL DEF Spec, StoreRefines, P!PruneSpec

-----------------------------------------------------------------------------
(* Neighbours of a height.                                                 *)

KeysFor(S) == {IterationKey(h) : h \in S}

\* A nonempty set of heights has a lowest and a highest one.
LEMMA LowestAndHighest ==
    ASSUME NEW S \in SUBSET Heights, S # {}
    PROVE  /\ \E m \in S : \A l \in S : m <= l
           /\ \E m \in S : \A l \in S : l <= m
<1> DEFINE R == {p \in Nat \X Nat : p[1] < p[2]}
<1>1. IsWellFoundedOn(R, Nat)
  BY NatLessThanWellFounded DEF OpToRel
<1>2. MaxEvmHeight \in Nat /\ S \subseteq 0..MaxEvmHeight /\ S \subseteq Nat
  BY StoreAssumption DEF Heights
<1>3. ASSUME NEW T \in SUBSET Nat, T # {}
      PROVE  \E m \in T : \A l \in T : m <= l
  <2>1. \E m \in T : \A l \in T : ~ (<<l, m>> \in R)
    <3> HIDE DEF R
    <3> QED BY <1>1, <1>3, WFMin
  <2>2. PICK m \in T : \A l \in T : ~ (<<l, m>> \in R)
    BY <2>1
  <2>3. \A l \in T : m <= l
    <3> TAKE l \in T
    <3>1. <<l, m>> \in Nat \X Nat /\ <<l, m>>[1] = l /\ <<l, m>>[2] = m
      OBVIOUS
    <3>2. ~ (l < m)
      BY <2>2, <3>1
    <3> QED BY <3>2
  <2> QED BY <2>3
<1>4. \E m \in S : \A l \in S : m <= l
  BY <1>2, <1>3
<1>5. \E m \in S : \A l \in S : l <= m
  <2> DEFINE T == {MaxEvmHeight - l : l \in S}
  <2>1. T \in SUBSET Nat /\ T # {}
    <3>1. \A l \in S : MaxEvmHeight - l \in Nat
      BY <1>2
    <3> QED BY <3>1
  <2>2. PICK d \in T : \A l \in T : d <= l
    <3> HIDE DEF T
    <3> QED BY <1>3, <2>1
  <2>3. PICK m \in S : d = MaxEvmHeight - m
    OBVIOUS
  <2>4. \A l \in S : l <= m
    BY <1>2, <2>2, <2>3
  <2> QED BY <2>4
<1> QED BY <1>4, <1>5

\* The iterators of store.go stop at the key of the lowest or the highest height.
LEMMA FirstAndLast ==
    ASSUME NEW S \in SUBSET Heights, NEW m \in S
    PROVE  /\ (\A l \in S : m <= l) => First(KeysFor(S)) = IterationKey(m)
           /\ (\A l \in S : l <= m) => Last(KeysFor(S)) = IterationKey(m)
<1>1. S \subseteq Nat
  BY StoreAssumption DEF Heights
<1>2. \A g, h \in S : BytesLess(IterationKey(g).bytes, IterationKey(h).bytes) <=> g < h
  BY <1>1, BytesOrder DEF IterationKey
<1>3. \A g, h \in S : IterationKey(g) = IterationKey(h) => g = h
  BY <1>1, KeysDiffer
<1>4. ASSUME \A l \in S : m <= l
      PROVE  First(KeysFor(S)) = IterationKey(m)
  <2> DEFINE Q(k) == \A l \in KeysFor(S) \ {k} : BytesLess(k.bytes, l.bytes)
  <2>1. IterationKey(m) \in KeysFor(S)
    BY DEF KeysFor
  <2>2. Q(IterationKey(m))
    <3>1. \A l \in S : l # m => m < l
      BY <1>1, <1>4
    <3> QED BY <1>2, <1>3, <3>1 DEF KeysFor
  <2>3. ASSUME NEW k \in KeysFor(S), Q(k)
        PROVE  k = IterationKey(m)
    <3>1. PICK j \in S : k = IterationKey(j)
      BY DEF KeysFor
    <3>2. CASE j # m
      <4>1. BytesLess(IterationKey(j).bytes, IterationKey(m).bytes)
        BY <1>3, <2>1, <2>3, <3>1, <3>2
      <4>2. j < m /\ m <= j
        BY <1>2, <1>4, <4>1
      <4> QED BY <1>1, <4>2
    <3> QED BY <3>1, <3>2
  <2>4. First(KeysFor(S)) = CHOOSE k \in KeysFor(S) : Q(k)
    BY DEF First
  <2> HIDE DEF Q
  <2> QED BY <2>1, <2>2, <2>3, <2>4
<1>5. ASSUME \A l \in S : l <= m
      PROVE  Last(KeysFor(S)) = IterationKey(m)
  <2> DEFINE Q(k) == \A l \in KeysFor(S) \ {k} : BytesLess(l.bytes, k.bytes)
  <2>1. IterationKey(m) \in KeysFor(S)
    BY DEF KeysFor
  <2>2. Q(IterationKey(m))
    <3>1. \A l \in S : l # m => l < m
      BY <1>1, <1>5
    <3> QED BY <1>2, <1>3, <3>1 DEF KeysFor
  <2>3. ASSUME NEW k \in KeysFor(S), Q(k)
        PROVE  k = IterationKey(m)
    <3>1. PICK j \in S : k = IterationKey(j)
      BY DEF KeysFor
    <3>2. CASE j # m
      <4>1. BytesLess(IterationKey(m).bytes, IterationKey(j).bytes)
        BY <1>3, <2>1, <2>3, <3>1, <3>2
      <4>2. m < j /\ j <= m
        BY <1>2, <1>5, <4>1
      <4> QED BY <1>1, <4>2
    <3> QED BY <3>1, <3>2
  <2>4. Last(KeysFor(S)) = CHOOSE k \in KeysFor(S) : Q(k)
    BY DEF Last
  <2> HIDE DEF Q
  <2> QED BY <2>1, <2>2, <2>3, <2>4
<1> QED BY <1>4, <1>5

\* GetNextConsensusState and GetPreviousConsensusState return the neighbours that
\* their comments promise, for every height and every set of stored heights.
THEOREM NeighboursAreRight == Spec => []NeighboursOfHeight
<1>1. ASSUME IInv, NEW h \in Heights
      PROVE  LET above == {k \in Stored : k > h}
                 below == {k \in Stored : k < h}
             IN  /\ \/ above = {} /\ GetNextConsensusState(h) = NoConsensusState
                    \/ \E k \in above : /\ \A l \in above : k <= l
                                        /\ GetNextConsensusState(h) = Found(k)
                 /\ \/ below = {} /\ GetPreviousConsensusState(h) = NoConsensusState
                    \/ \E k \in below : /\ \A l \in below : k >= l
                                        /\ GetPreviousConsensusState(h) = Found(k)
  <2> DEFINE above == {k \in Stored : k > h}
             below == {k \in Stored : k < h}
             from == {k \in Stored : k >= h}
             keys == {k \in IterationKeys : ~ BytesLess(k.bytes, BigEndianHeightBytes(h))}
             lower == {k \in IterationKeys : BytesLess(k.bytes, BigEndianHeightBytes(h))}
  <2>1. /\ Stored \subseteq Nat /\ h \in Nat /\ Stored \subseteq Heights
        /\ above \in SUBSET Heights /\ below \in SUBSET Heights /\ from \in SUBSET Heights
    BY <1>1, StoredHeights
  <2>2. \A k \in Stored : BytesLess(IterationKey(k).bytes, BigEndianHeightBytes(h)) <=> k < h
    BY <2>1, BytesOrder DEF IterationKey
  <2>3. keys = KeysFor(from) /\ lower = KeysFor(below)
    <3>1. IterationKeys = {IterationKey(k) : k \in Stored}
      BY <1>1, IterationFacts
    <3>2. \A k \in Stored : ~ (k < h) <=> k >= h
      BY <2>1
    <3> QED BY <2>2, <3>1, <3>2 DEF KeysFor
  <2>4. ASSUME NEW k \in Stored
        PROVE  GetTmConsensusState(kv[IterationKey(k)]) = Found(k)
    <3>1. kv[IterationKey(k)] = ConsensusStateKey(k) /\ ConsensusStateKey(k) \in DOMAIN kv
      BY <1>1 DEF IInv, Stored, GetConsensusStateFound
    <3> QED BY <3>1 DEF GetTmConsensusState, Found, GetConsensusState
  <2>5. \A k \in Stored : kv[IterationKey(k)] = ConsensusStateKey(h) <=> k = h
    <3>1. \A k \in Stored : kv[IterationKey(k)] = ConsensusStateKey(k)
      BY <1>1 DEF IInv
    <3> QED BY <2>1, <3>1, KeysDiffer
  <2> DEFINE rest == IF keys # {} /\ kv[First(keys)] = ConsensusStateKey(h)
                     THEN keys \ {First(keys)} ELSE keys
  <2>6. rest = KeysFor(above)
    <3>1. CASE from = {}
      <4>1. above \subseteq from
        <5>1. \A k \in Stored : k > h => k >= h
          BY <2>1
        <5> QED BY <5>1, Zenon
      <4>2. keys = {}
        <5> HIDE DEF keys, from
        <5> QED BY <2>3, <3>1 DEF KeysFor
      <4>3. above = {}
        BY <3>1, <4>1, Zenon
      <4> HIDE DEF above, keys
      <4> QED BY <4>2, <4>3 DEF KeysFor
    <3>2. CASE from # {}
      <4> HIDE DEF above, below, keys, lower
      <4>1. PICK m \in from : \A l \in from : m <= l
        <5> HIDE DEF from
        <5> QED BY <2>1, <3>2, LowestAndHighest
      <4>2. First(keys) = IterationKey(m)
        <5> HIDE DEF from
        <5> QED BY <2>1, <2>3, <4>1, FirstAndLast
      <4>3. keys # {}
        BY <2>3, <3>2 DEF KeysFor
      <4>4. CASE m = h
        <5>1. rest = KeysFor(from) \ {IterationKey(h)}
          BY <2>3, <2>5, <4>1, <4>2, <4>3, <4>4
        <5>2. from \ {h} = above
          <6>1. \A k \in Stored : (k >= h /\ k # h) <=> k > h
            BY <2>1
          <6> QED BY <6>1, Zenon DEF above
        <5>3. \A k \in Nat : IterationKey(k) = IterationKey(h) => k = h
          BY <2>1, KeysDiffer
        <5> HIDE DEF rest
        <5> QED BY <2>1, <5>1, <5>2, <5>3 DEF KeysFor
      <4>5. CASE m # h
        <5>1. rest = keys
          BY <2>5, <4>1, <4>2, <4>3, <4>5
        <5>2. from = above
          <6>1. h \notin from
            BY <2>1, <4>1, <4>5
          <6>2. \A k \in Stored : (k >= h /\ k # h) <=> k > h
            BY <2>1
          <6> QED BY <6>1, <6>2, Zenon DEF above
        <5> HIDE DEF rest, from
        <5> QED BY <2>3, <5>1, <5>2
      <4> QED BY <4>4, <4>5
    <3> QED BY <3>1, <3>2
  <2>7. GetNextConsensusState(h) =
          IF rest = {} THEN NoConsensusState ELSE GetTmConsensusState(kv[First(rest)])
    BY DEF GetNextConsensusState
  <2>8. GetPreviousConsensusState(h) =
          IF lower = {} THEN NoConsensusState ELSE GetTmConsensusState(kv[Last(lower)])
    BY DEF GetPreviousConsensusState
  <2>9. /\ above \subseteq Stored /\ below \subseteq Stored
    OBVIOUS
  <2> HIDE DEF above, below, rest, lower, from, keys
  <2>10. \/ above = {} /\ GetNextConsensusState(h) = NoConsensusState
         \/ \E k \in above : /\ \A l \in above : k <= l
                             /\ GetNextConsensusState(h) = Found(k)
    <3>1. CASE above = {}
      BY <2>6, <2>7, <3>1 DEF KeysFor
    <3>2. CASE above # {}
      <4>1. PICK m \in above : \A l \in above : m <= l
        BY <2>1, <3>2, LowestAndHighest
      <4>2. First(rest) = IterationKey(m) /\ rest # {}
        BY <2>1, <2>6, <4>1, FirstAndLast DEF KeysFor
      <4> QED BY <2>4, <2>7, <2>9, <4>1, <4>2
    <3> QED BY <3>1, <3>2
  <2>11. \/ below = {} /\ GetPreviousConsensusState(h) = NoConsensusState
         \/ \E k \in below : /\ \A l \in below : k >= l
                             /\ GetPreviousConsensusState(h) = Found(k)
    <3>1. CASE below = {}
      BY <2>3, <2>8, <3>1 DEF KeysFor
    <3>2. CASE below # {}
      <4>1. PICK m \in below : \A l \in below : l <= m
        BY <2>1, <3>2, LowestAndHighest
      <4>2. Last(lower) = IterationKey(m) /\ lower # {}
        BY <2>1, <2>3, <4>1, FirstAndLast DEF KeysFor
      <4>3. \A l \in below : m >= l
        BY <2>1, <2>9, <4>1
      <4> QED BY <2>4, <2>8, <2>9, <4>1, <4>2, <4>3
    <3> QED BY <3>1, <3>2
  <2> QED BY <2>10, <2>11 DEF above, below
<1>2. IInv => NeighboursOfHeight
  BY <1>1 DEF NeighboursOfHeight, Stored
<1> QED BY <1>2, Invariance, PTL

-----------------------------------------------------------------------------
(* Membership proofs.                                                      *)

\* Hashes do not collide, and a reference to a leaf determines its value, whether
\* it is a hash or the embedded leaf itself.
LEMMA References ==
    /\ \A m, n : Hash(m) = Hash(n) => m = n
    /\ \A u, v : Leaf(u) = Leaf(v) => u = v
    /\ \A u, v : Ref(Leaf(u)) = Ref(Leaf(v)) => u = v
    /\ \A f : Ref(TrieRoot(f)) = Hash(TrieRoot(f))
    /\ \A f, v : TrieRoot(f) # Leaf(v)
<1>1. \A m, n : Hash(m) = Hash(n) => m = n
  <2>1. \A m : Hash(m).of = m
    BY DEF Hash
  <2> QED BY <2>1
<1>2. \A u : Leaf(u).value = u /\ Leaf(u).kind = "leaf"
  BY DEF Leaf
<1>3. \A u, v : Leaf(u) = Leaf(v) => u = v
  BY <1>2
<1>4. \A u, m : Leaf(u) # Hash(m)
  <2>1. \A m : Hash(m).kind = "hash"
    BY DEF Hash
  <2>2. "hash" # "leaf"
    OBVIOUS
  <2> QED BY <1>2, <2>1, <2>2
<1>5. \A u, v : Ref(Leaf(u)) = Ref(Leaf(v)) => u = v
  BY <1>1, <1>3, <1>4, Zenon DEF Ref
<1>6. \A f : TrieRoot(f).kind # "leaf"
  BY DEF TrieRoot
<1>7. \A f : Ref(TrieRoot(f)) = Hash(TrieRoot(f))
  BY <1>6, Zenon DEF Ref, IsSmall
<1>8. \A f, v : TrieRoot(f) # Leaf(v)
  BY <1>2, <1>6, Zenon
<1> QED BY <1>1, <1>3, <1>5, <1>7, <1>8

\* The database of eth_getProof's nodes has the trie's root, the leaf of the key
\* unless it is embedded, and no other trie's root.
LEMMA ProofDB ==
    ASSUME NEW f, NEW g, NEW key, NEW db, db = ReconstructProofDB(Prove(f, key))
    PROVE  /\ Hash(TrieRoot(g)) \in DOMAIN db <=> TrieRoot(g) = TrieRoot(f)
           /\ db[Hash(TrieRoot(f))] = TrieRoot(f)
           /\ key \in DOMAIN f /\ ~ IsSmall(Leaf(f[key])) =>
                /\ Hash(Leaf(f[key])) \in DOMAIN db
                /\ db[Hash(Leaf(f[key]))] = Leaf(f[key])
<1> DEFINE proof == Prove(f, key)
<1>1. /\ TrieRoot(f) \in proof
      /\ \A n \in proof : n = TrieRoot(f) \/ (key \in DOMAIN f /\ n = Leaf(f[key]) /\ ~ IsSmall(n))
      /\ key \in DOMAIN f /\ ~ IsSmall(Leaf(f[key])) => Leaf(f[key]) \in proof
  BY DEF Prove
<1>2. db = [k \in {Ref(n) : n \in proof} |-> CHOOSE n \in proof : Ref(n) = k]
  BY DEF ReconstructProofDB
<1> HIDE DEF proof
<1>3. \A n \in proof : Ref(n) = Hash(n)
  <2> TAKE n \in proof
  <2>1. CASE n = TrieRoot(f)
    BY <2>1, References, Zenon
  <2>2. CASE ~ IsSmall(n)
    BY <2>2 DEF Ref
  <2> QED BY <1>1, <2>1, <2>2, Zenon
<1>4. \A n \in proof : Hash(n) \in DOMAIN db /\ db[Hash(n)] = n
  <2> TAKE n \in proof
  <2>1. Hash(n) \in {Ref(m) : m \in proof}
    BY <1>3
  <2>2. db[Hash(n)] = CHOOSE m \in proof : Ref(m) = Hash(n)
    BY <1>2, <2>1
  <2>3. \A m \in proof : Ref(m) = Hash(n) => m = n
    BY <1>3, References, Zenon
  <2>4. (CHOOSE m \in proof : Ref(m) = Hash(n)) = n
    BY <1>3, <2>3
  <2> QED BY <1>2, <2>1, <2>2, <2>4
<1>5. Hash(TrieRoot(g)) \in DOMAIN db => TrieRoot(g) = TrieRoot(f)
  <2>1. ASSUME Hash(TrieRoot(g)) \in DOMAIN db
        PROVE  TrieRoot(g) \in proof
    <3>1. PICK n \in proof : Hash(TrieRoot(g)) = Ref(n)
      BY <1>2, <2>1
    <3> QED BY <1>3, <3>1, References, Zenon
  <2> QED BY <1>1, <2>1, References, Zenon
<1> QED BY <1>1, <1>4, <1>5, Zenon

\* The three results of a trie walk are different.
LEMMA Results ==
    \A u, v : (Value(u) = Value(v) => u = v) /\ Value(u) # Nil /\ Value(u) # Error /\ Error # Nil
<1>1. \A v : Value(v).res = "value" /\ Value(v).value = v
  BY DEF Value
<1>2. Nil.res = "nil" /\ Error.res = "error"
  BY DEF Nil, Error
<1>3. \A u, v : Value(u) = Value(v) => u = v
  BY <1>1
<1>4. \A u : Value(u) # Nil /\ Value(u) # Error
  BY <1>1, <1>2
<1>5. Error # Nil
  BY <1>2
<1> QED BY <1>3, <1>4, <1>5, Zenon

\* key looked up under the root of g, with the nodes that prove a key of f.
Read(g, key, f, proven) ==
    VerifyMerklePatriciaTrieProof(Hash(TrieRoot(g)), key, Prove(f, proven))

\* What VerifyMerklePatriciaTrieProof answers to the nodes that eth_getProof gave for
\* some key of a trie, against the root of a trie.
LEMMA ReadTrie ==
    ASSUME NEW f, NEW g, NEW proven, NEW key
    PROVE  /\ TrieRoot(g) # TrieRoot(f) => Read(g, key, f, proven) = Error
           /\ TrieRoot(g) = TrieRoot(f) =>
                /\ key \notin DOMAIN f => Read(g, key, f, proven) = Nil
                /\ key \in DOMAIN f => Read(g, key, f, proven) # Nil
                /\ key \in DOMAIN f /\ key = proven => Read(g, key, f, proven) = Value(f[key])
<1> DEFINE r == Read(g, key, f, proven)
           db == ReconstructProofDB(Prove(f, proven))
           root == Hash(TrieRoot(g))
           ref == db[root].child[key]
<1>1. /\ root \in DOMAIN db <=> TrieRoot(g) = TrieRoot(f)
      /\ db[Hash(TrieRoot(f))] = TrieRoot(f)
      /\ proven \in DOMAIN f /\ ~ IsSmall(Leaf(f[proven])) =>
           /\ Hash(Leaf(f[proven])) \in DOMAIN db
           /\ db[Hash(Leaf(f[proven]))] = Leaf(f[proven])
  <2> HIDE DEF db
  <2> QED BY ProofDB DEF db
<1>2. r = CASE root \notin DOMAIN db -> Error
            [] root \in DOMAIN db /\ key \notin DOMAIN db[root].child -> Nil
            [] OTHER -> IF ref.kind = "leaf" THEN Value(ref.value)
                        ELSE IF ref \in DOMAIN db THEN Value(db[ref].value) ELSE Error
  BY DEF Read, VerifyMerklePatriciaTrieProof
<1> HIDE DEF db, r
<1>3. \A v : Value(v) # Nil /\ Error # Nil
  BY Results, Zenon
<1>4. CASE TrieRoot(g) # TrieRoot(f)
  <2>1. root \notin DOMAIN db
    BY <1>1, <1>4
  <2> HIDE DEF root, ref
  <2>2. r = Error
    BY <1>2, <2>1
  <2> QED BY <1>4, <2>2 DEF r
<1>5. CASE TrieRoot(g) = TrieRoot(f)
  <2>1. /\ root \in DOMAIN db /\ db[root] = TrieRoot(f)
    BY <1>1, <1>5
  <2>2. /\ DOMAIN TrieRoot(f).child = DOMAIN f
        /\ key \in DOMAIN f => TrieRoot(f).child[key] = Ref(Leaf(f[key]))
    BY DEF TrieRoot
  <2>3. /\ DOMAIN db[root].child = DOMAIN f
        /\ key \in DOMAIN f => ref = Ref(Leaf(f[key]))
    BY <2>1, <2>2
  <2> HIDE DEF root, ref
  <2>4. key \notin DOMAIN f => r = Nil
    BY <1>2, <2>1, <2>3
  <2>5. key \in DOMAIN f => r = IF ref.kind = "leaf" THEN Value(ref.value)
                               ELSE IF ref \in DOMAIN db THEN Value(db[ref].value) ELSE Error
    BY <1>2, <2>1, <2>3
  <2>6. key \in DOMAIN f => r # Nil
    BY <1>3, <2>5
  <2>7. ASSUME key \in DOMAIN f, key = proven
        PROVE  r = Value(f[key])
    <3>1. CASE IsSmall(Leaf(f[key]))
      <4>1. ref = Leaf(f[key])
        BY <2>3, <2>7, <3>1 DEF Ref
      <4>2. ref.kind = "leaf" /\ ref.value = f[key]
        BY <4>1 DEF Leaf
      <4> QED BY <2>5, <2>7, <4>2
    <3>2. CASE ~ IsSmall(Leaf(f[key]))
      <4>1. ref = Hash(Leaf(f[key]))
        BY <2>3, <2>7, <3>2 DEF Ref
      <4>2. ref.kind # "leaf"
        BY <4>1 DEF Hash
      <4>3. ref \in DOMAIN db /\ db[ref] = Leaf(f[key])
        BY <1>1, <2>7, <3>2, <4>1
      <4>4. db[ref].value = f[key]
        BY <4>3 DEF Leaf
      <4> QED BY <2>5, <2>7, <4>2, <4>3, <4>4
    <3> QED BY <3>1, <3>2
  <2> QED BY <1>5, <2>4, <2>6, <2>7 DEF r
<1> QED BY <1>4, <1>5

\* A state root determines the state: no two of them have the same hash, and none
\* that agree on the router's account differ in its commitments.
LEMMA StateRoots ==
    ASSUME NEW a \in P!Roots, NEW b \in P!Roots
    PROVE  /\ TrieRoot(World(a)) = TrieRoot(World(b)) => a = b
           /\ Account(a) = Account(b) => a = b
<1>1. ASSUME Account(a) = Account(b)
      PROVE  a = b
  <2>1. a.version = b.version /\ Hash(TrieRoot(Storage(a))) = Hash(TrieRoot(Storage(b)))
    <3>1. /\ Account(a).Nonce = a.version /\ Account(b).Nonce = b.version
          /\ Account(a).StorageHash = Hash(TrieRoot(Storage(a)))
          /\ Account(b).StorageHash = Hash(TrieRoot(Storage(b)))
      BY DEF Account
    <3> QED BY <1>1, <3>1, Zenon
  <2>2. TrieRoot(Storage(a)) = TrieRoot(Storage(b))
    BY <2>1, References, Zenon
  <2>3. DOMAIN Storage(a) = DOMAIN Storage(b)
    <3>1. \A f : DOMAIN TrieRoot(f).child = DOMAIN f
      BY DEF TrieRoot
    <3> QED BY <2>2, <3>1, Zenon
  <2>4. a.commitments \cup {ConfigSlot} = b.commitments \cup {ConfigSlot}
    BY <2>3 DEF Storage
  <2>5. a.commitments \subseteq Packets /\ b.commitments \subseteq Packets
        /\ ConfigSlot \notin Packets
    BY StoreAssumption DEF P!Roots
  <2>6. a.commitments = b.commitments
    BY <2>4, <2>5, Zenon
  <2> QED BY <2>1, <2>6 DEF P!Roots
<1>2. ASSUME TrieRoot(World(a)) = TrieRoot(World(b))
      PROVE  Account(a) = Account(b)
  <2>1. \A f : "router" \in DOMAIN f => TrieRoot(f).child["router"] = Ref(Leaf(f["router"]))
    BY DEF TrieRoot
  <2>2. /\ "router" \in DOMAIN World(a) /\ World(a)["router"] = Account(a)
        /\ "router" \in DOMAIN World(b) /\ World(b)["router"] = Account(b)
    BY DEF World
  <2>3. Ref(Leaf(Account(a))) = Ref(Leaf(Account(b)))
    BY <1>2, <2>1, <2>2
  <2> QED BY <2>3, References, Zenon
<1> QED BY <1>1, <1>2

\* The two walks of verifyMembership and the one of verifyNonMembership.
AccountOk(root, proof) ==
    VerifyMerklePatriciaTrieProof(StateRootHash(root), proof.Address, proof.AccountProof)
      = Value(proof.Account)
StorageOk(proof, value) ==
    VerifyMerklePatriciaTrieProof(proof.Account.StorageHash, proof.StorageKey, proof.StorageProof)
      = Value(value)
IsAbsent(root, proof, mptKey) ==
    VerifyMerklePatriciaTrieProof(StateRootHash(root), mptKey, proof.AccountProof) = Nil

\* What a proof whose parts come from the roots b and c shows of a trusted root.
LEMMA Walks ==
    ASSUME NEW trusted \in P!Roots, NEW b \in P!Roots, NEW c \in P!Roots, NEW slot
    PROVE  /\ AccountOk(trusted, MptProof(b, c, slot)) <=> trusted = b /\ Account(b) = Account(c)
           /\ \A p \in Packets : StorageOk(MptProof(b, c, slot), p) <=> slot = p /\ p \in c.commitments
           /\ \A mptKey : IsAbsent(trusted, MptProof(b, c, slot), mptKey) <=>
                             trusted = b /\ mptKey \notin DOMAIN World(b)
<1> DEFINE proof == MptProof(b, c, slot)
<1>1. /\ proof.Address = "router" /\ proof.AccountProof = Prove(World(b), "router")
      /\ proof.Account = Account(c) /\ proof.StorageKey = slot
      /\ proof.StorageProof = Prove(Storage(c), slot)
  BY DEF MptProof
<1>2. proof.Account.StorageHash = Hash(TrieRoot(Storage(c)))
  BY <1>1 DEF Account
<1>3. /\ "router" \in DOMAIN World(b) /\ World(b)["router"] = Account(b)
  BY DEF World
<1>4. TrieRoot(World(trusted)) = TrieRoot(World(b)) <=> trusted = b
  BY StateRoots
<1> HIDE DEF proof
<1>5. AccountOk(trusted, proof) <=> trusted = b /\ Account(b) = Account(c)
  <2> DEFINE r == Read(World(trusted), "router", World(b), "router")
  <2>1. AccountOk(trusted, proof) <=> r = Value(Account(c))
    BY <1>1 DEF AccountOk, StateRootHash, Read
  <2>2. trusted # b => r = Error
    BY <1>4, ReadTrie, Zenon
  <2>3. trusted = b => r = Value(Account(b))
    BY <1>3, <1>4, ReadTrie
  <2> HIDE DEF r
  <2>4. r = Value(Account(c)) <=> trusted = b /\ Account(b) = Account(c)
    BY <2>2, <2>3, Results, Zenon
  <2> QED BY <2>1, <2>4
<1>6. ASSUME NEW p \in Packets
      PROVE  StorageOk(proof, p) <=> slot = p /\ p \in c.commitments
  <2> DEFINE r == Read(Storage(c), slot, Storage(c), slot)
  <2>1. StorageOk(proof, p) <=> r = Value(p)
    BY <1>1, <1>2 DEF StorageOk, Read
  <2>2. /\ slot \notin DOMAIN Storage(c) => r = Nil
        /\ slot \in DOMAIN Storage(c) => r = Value(Storage(c)[slot])
    BY ReadTrie
  <2>3. /\ slot \in DOMAIN Storage(c) <=> slot \in c.commitments \/ slot = ConfigSlot
        /\ slot \in DOMAIN Storage(c) => Storage(c)[slot] = slot
    BY DEF Storage
  <2>4. p # ConfigSlot
    BY StoreAssumption
  <2> HIDE DEF r
  <2>5. r = Value(p) <=> slot = p /\ p \in c.commitments
    BY <2>2, <2>3, <2>4, Results, Zenon
  <2> QED BY <2>1, <2>5
<1>7. ASSUME NEW mptKey
      PROVE  IsAbsent(trusted, proof, mptKey) <=> trusted = b /\ mptKey \notin DOMAIN World(b)
  <2> DEFINE r == Read(World(trusted), mptKey, World(b), "router")
  <2>1. IsAbsent(trusted, proof, mptKey) <=> r = Nil
    BY <1>1 DEF IsAbsent, StateRootHash, Read
  <2>2. /\ trusted # b => r = Error
        /\ trusted = b /\ mptKey \notin DOMAIN World(b) => r = Nil
        /\ trusted = b /\ mptKey \in DOMAIN World(b) => r # Nil
    BY <1>4, ReadTrie, Zenon
  <2> HIDE DEF r
  <2>3. r = Nil <=> trusted = b /\ mptKey \notin DOMAIN World(b)
    BY <2>2, Results, Zenon
  <2> QED BY <2>1, <2>3
<1> QED BY <1>5, <1>6, <1>7 DEF proof

\* verifyMembership accepts a proof exactly if it opens, under the trusted root and
\* the router's storage there, the slot of the commitment to verify: for every
\* roll-up chain, client store and pair of blocks the proof was put together from.
THEOREM MembershipIsRight == Spec => []MembershipAgrees
<1>1. ASSUME IInv, NEW h \in Heights, NEW b \in DOMAIN evmChain
      PROVE  /\ \A c \in DOMAIN evmChain, p \in Packets, slot \in Packets \cup {ConfigSlot} :
                  VerifyMembership(h, MptProof(evmChain[b].root, evmChain[c].root, slot), p) <=>
                      /\ P!VerifyMembership(h, evmChain[b].root, p)
                      /\ Account(evmChain[b].root) = Account(evmChain[c].root)
                      /\ slot = p
             /\ \A mptKey \in {"router", "other", "none"} :
                  VerifyNonMembership(h, MptProof(evmChain[b].root, evmChain[b].root, ConfigSlot), mptKey) <=>
                      /\ P!GetConsensusStateFound(h)
                      /\ GetConsensusState(h).StateRoot = evmChain[b].root
                      /\ mptKey \notin DOMAIN World(evmChain[b].root)
  <2>1. \A i \in DOMAIN evmChain : evmChain[i].root \in P!Roots
    <3>1. \A i \in DOMAIN evmChain : evmChain[i] \in P!Blocks
      BY <1>1, ElementOfSeq, StoredHeights DEF IInv
    <3> QED BY <3>1 DEF P!Blocks
  <2>2. /\ h \in Stored <=> GetConsensusStateFound(h)
        /\ h \in Stored => /\ Status = "Active"
                          /\ GetConsensusState(h).StateRoot \in P!Roots
    <3>1. h \in Stored => ClientStateKey \in DOMAIN kv /\ kv[ConsensusStateKey(h)] \in P!ConsensusState
      BY <1>1 DEF IInv
    <3>2. ClientStateKey \in DOMAIN kv => Status = "Active"
      BY DEF Status, GetClientState, Get
    <3>3. h \in Stored => GetConsensusState(h).StateRoot \in P!Roots
      BY <3>1 DEF GetConsensusState, P!ConsensusState
    <3> QED BY <3>1, <3>2, <3>3 DEF Stored
  <2>3. /\ P!GetConsensusStateFound(h) <=> h \in Stored
        /\ \A root, p : P!VerifyMembership(h, root, p) <=>
             h \in Stored /\ root = GetConsensusState(h).StateRoot /\ p \in root.commitments
    <3>1. ConsensusStates = [k \in Stored |-> kv[ConsensusStateKey(k)]]
      BY <1>1, MapFacts DEF MapsOfStore
    <3>2. P!GetConsensusStateFound(h) <=> h \in DOMAIN ConsensusStates
      BY DEF P!GetConsensusStateFound, ConsensusStates
    <3>3. \A root, p : P!VerifyMembership(h, root, p) <=>
             /\ P!GetConsensusStateFound(h)
             /\ root = ConsensusStates[h].StateRoot
             /\ p \in root.commitments
      BY DEF P!VerifyMembership, ConsensusStates
    <3> HIDE DEF ConsensusStates
    <3> QED BY <3>1, <3>2, <3>3 DEF GetConsensusState
  <2>4. ASSUME NEW c \in DOMAIN evmChain, NEW p \in Packets, NEW slot \in Packets \cup {ConfigSlot}
        PROVE  VerifyMembership(h, MptProof(evmChain[b].root, evmChain[c].root, slot), p) <=>
                 /\ P!VerifyMembership(h, evmChain[b].root, p)
                 /\ Account(evmChain[b].root) = Account(evmChain[c].root)
                 /\ slot = p
    <3> DEFINE B == evmChain[b].root
               C == evmChain[c].root
               T == GetConsensusState(h).StateRoot
               proof == MptProof(B, C, slot)
    <3>1. B \in P!Roots /\ C \in P!Roots
      BY <2>1
    <3>2. VerifyMembership(h, proof, p) <=>
            Status = "Active" /\ GetConsensusStateFound(h) /\ AccountOk(T, proof) /\ StorageOk(proof, p)
      BY Zenon DEF VerifyMembership, verifyMembership, AccountOk, StorageOk
    <3>3. h \in Stored =>
            /\ AccountOk(T, proof) <=> T = B /\ Account(B) = Account(C)
            /\ StorageOk(proof, p) <=> slot = p /\ p \in C.commitments
      <4>1. h \in Stored => T \in P!Roots
        BY <2>2
      <4> HIDE DEF B, C, T
      <4> QED BY <3>1, <4>1, Walks, Zenon
    <3>4. Account(B) = Account(C) => B = C
      <4> HIDE DEF B, C
      <4> QED BY <3>1, StateRoots, Zenon
    <3>5. P!VerifyMembership(h, B, p) <=> h \in Stored /\ B = T /\ p \in B.commitments
      BY <2>3, Zenon
    <3> HIDE DEF B, C, T, proof
    <3>6. VerifyMembership(h, proof, p) <=>
            P!VerifyMembership(h, B, p) /\ Account(B) = Account(C) /\ slot = p
      BY <2>2, <3>2, <3>3, <3>4, <3>5, Zenon
    <3> QED BY <3>6 DEF proof, B, C
  <2>5. ASSUME NEW mptKey
        PROVE  VerifyNonMembership(h, MptProof(evmChain[b].root, evmChain[b].root, ConfigSlot), mptKey) <=>
                 /\ P!GetConsensusStateFound(h)
                 /\ GetConsensusState(h).StateRoot = evmChain[b].root
                 /\ mptKey \notin DOMAIN World(evmChain[b].root)
    <3> DEFINE B == evmChain[b].root
               T == GetConsensusState(h).StateRoot
               proof == MptProof(B, B, ConfigSlot)
    <3>1. B \in P!Roots
      BY <2>1
    <3>2. VerifyNonMembership(h, proof, mptKey) <=>
            Status = "Active" /\ GetConsensusStateFound(h) /\ IsAbsent(T, proof, mptKey)
      BY Zenon DEF VerifyNonMembership, verifyNonMembership, IsAbsent
    <3>3. h \in Stored => (IsAbsent(T, proof, mptKey) <=> T = B /\ mptKey \notin DOMAIN World(B))
      <4>1. h \in Stored => T \in P!Roots
        BY <2>2
      <4> HIDE DEF B, T
      <4> QED BY <3>1, <4>1, Walks, Zenon
    <3> HIDE DEF B, T, proof
    <3>4. VerifyNonMembership(h, proof, mptKey) <=>
            /\ P!GetConsensusStateFound(h)
            /\ T = B /\ mptKey \notin DOMAIN World(B)
      BY <2>2, <2>3, <3>2, <3>3, Zenon
    <3> QED BY <3>4 DEF proof, B, T
  <2> QED BY <2>4, <2>5
<1>2. IInv => MembershipAgrees
  BY <1>1 DEF MembershipAgrees
<1> QED BY <1>2, Invariance, PTL
=============================================================================
