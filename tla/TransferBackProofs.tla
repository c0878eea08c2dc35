------------------------- MODULE TransferBackProofs -------------------------
(***************************************************************************)
(* Proofs about TransferBack, for any number of concurrent invocations.    *)
(* The light client's part is not proved again: every step of the transfer *)
(* is shown to be a step of Groth16Client or to leave it alone, which      *)
(* brings its inductive invariant along.                                   *)
(***************************************************************************)
EXTENDS TransferBack, WellFoundedInduction, FiniteSetTheorems, SequenceTheorems, TLAPS

Labels == {"approve", "approving", "send", "sending", "proveLatest", "proveTrusted", "getHeader",
           "update", "updating", "relay", "relaying", "done", "failed"}
BeforeSend == {"approve", "approving", "send"}
EthTxs == [kind : {"approve", "sendTransfer"}, by : Invocations]
Receipts == [status : {"pending", "successful", "reverted"}, block : Nat]

TypeOK ==
    /\ ethMempool \in Seq(EthTxs)
    /\ receipt \in [Invocations -> Receipts]
    /\ allowance \in {0, 1} /\ supply \in Nat /\ escrow \in Nat
    /\ txResult \in [Invocations -> {None, "ok", "error"}]
    /\ packetReceipts \in SUBSET Invocations
    /\ pc \in [Invocations -> Labels]
    /\ evmTransferBlockNumber \in [Invocations -> Nat]
    /\ provedHeight \in [Invocations -> Nat]
    /\ DOMAIN header = Invocations

\* A header that the light client's own specification allows for on a chain.
IsRelayed(h, chain) ==
    \E t \in 1..MaxEvmHeight, n \in DOMAIN chain, b \in DOMAIN chain :
        /\ b <= n
        /\ h = [TrustedHeight |-> t, NewestHeight |-> n,
                NewestStateRoot |-> chain[n].root, Timestamp |-> chain[b].time]

\* An invocation burns at most once: its packet is not committed before its only
\* sendTransfer is in a block.
BurnOnce ==
    /\ \A i \in 1..Len(ethMempool) :
         ethMempool[i].kind = "sendTransfer" =>
             pc[ethMempool[i].by] \notin BeforeSend /\ ethMempool[i].by \notin Committed
    /\ \A i, j \in 1..Len(ethMempool) :
         /\ ethMempool[i].kind = "sendTransfer" /\ ethMempool[j].kind = "sendTransfer"
         /\ ethMempool[i].by = ethMempool[j].by
         => i = j
    /\ \A r \in Invocations : pc[r] \in BeforeSend => r \notin Committed

\* The heights an invocation keeps are heights of the roll-up.
HeightsKnown ==
    /\ Len(evmChain) <= MaxEvmHeight
    /\ \A r \in Invocations :
         /\ pc[r] # "approve" /\ pc[r] # "failed" => clientState.exists
         /\ receipt[r].status # "pending" => receipt[r].block \in 1..Len(evmChain)
         /\ pc[r] \in {"proveLatest", "proveTrusted", "getHeader"} =>
              evmTransferBlockNumber[r] \in 1..Len(evmChain)
         /\ pc[r] \in {"proveTrusted", "getHeader"} =>
              provedHeight[r] \in evmTransferBlockNumber[r]..Len(evmChain)
         /\ pc[r] = "update" => IsRelayed(header[r], evmChain)

\* The transaction that is pending on SimApp is the one its invocation waits for,
\* unless that gave up, and the result it finds is that transaction's.
PendingSound ==
    /\ simMempool # <<>> =>
         LET tx == simMempool[1]
         IN  /\ tx.by \in Invocations
             /\ pc[tx.by] \in {"updating", "relaying", "failed"}
             /\ pc[tx.by] = "updating" => tx.kind = "update"
             /\ pc[tx.by] = "relaying" => tx.kind = "recv"
             /\ pc[tx.by] # "failed" => txResult[tx.by] = None
             /\ tx.kind = "update" => IsRelayed(tx.header, evmChain)
    /\ \A r \in Invocations : pc[r] = "relaying" /\ txResult[r] = "ok" => r \in packetReceipts

Own ==
    /\ TypeOK /\ BurnOnce /\ HeightsKnown /\ PendingSound
    /\ Conservation /\ UnlockedWasBurnt /\ DoneMeansUnlocked

\* What the transfer uses of the light client's invariant ...
ClientInv ==
    /\ evmChain \in Seq(LC!Blocks)
    /\ Len(evmChain) \in Nat /\ DOMAIN evmChain = 1..Len(evmChain)
    /\ Committed \in SUBSET Invocations
    /\ \A i \in 1..Len(evmChain) : evmChain[i].root.commitments \subseteq Committed
    /\ \A h \in DOMAIN consensusStates :
         /\ h \in 1..Len(evmChain)
         /\ consensusStates[h].StateRoot = evmChain[h].root
    /\ clientState.exists => clientState.LatestHeight \in DOMAIN consensusStates

\* ... and of its steps: blocks, trusted roots and the client stay.
ClientKeeps ==
    /\ ClientInv'
    /\ Len(evmChain) <= Len(evmChain')
    /\ \A i \in 1..Len(evmChain) : evmChain'[i] = evmChain[i]
    /\ \A h \in DOMAIN consensusStates :
         /\ h \in DOMAIN consensusStates'
         /\ consensusStates'[h].StateRoot = consensusStates[h].StateRoot
    /\ clientState.exists => clientState'.exists

-----------------------------------------------------------------------------
(* The transactions of a block.  AfterTxs is a recursive function: that    *)
(* there is one, and what holds after any number of transactions, follows  *)
(* by least counterexample.                                                *)

\* A nonempty set of naturals has a least element: how the induction over the
\* transactions of a block is done.
LEMMA LeastNat ==
    ASSUME NEW S \in SUBSET Nat, S # {}
    PROVE  \E n \in S : \A m \in S : n <= m
<1> DEFINE R == {p \in Nat \X Nat : p[1] < p[2]}
<1>1. IsWellFoundedOn(R, Nat)
  BY NatLessThanWellFounded DEF OpToRel
<1>2. \E n \in S : \A m \in S : ~ (<<m, n>> \in R)
  <2> HIDE DEF R
  <2> QED BY <1>1, WFMin
<1>3. PICK n \in S : \A m \in S : ~ (<<m, n>> \in R)
  BY <1>2
<1>4. \A m \in S : n <= m
  <2> TAKE m \in S
  <2>1. <<m, n>> \in Nat \X Nat /\ <<m, n>>[1] = m /\ <<m, n>>[2] = n
    OBVIOUS
  <2>2. ~ (m < n)
    BY <1>3, <2>1
  <2> QED BY <2>2
<1>5. QED BY <1>4

Before == [allowance |-> allowance, supply |-> supply, sent |-> {}, receipt |-> receipt]
IsRun(f, k) ==
    f = [i \in 0..k |-> IF i = 0 THEN Before ELSE ApplyTx(f[i - 1], ethMempool[i])]

\* The function that AfterTxs chooses exists.
LEMMA RunExists ==
    ASSUME NEW k \in Nat
    PROVE  \E f : IsRun(f, k)
<1> DEFINE S == {n \in Nat : ~ \E f : IsRun(f, n)}
<1>1. SUFFICES ASSUME S # {} PROVE FALSE
  OBVIOUS
<1>2. PICK n \in S : \A m \in S : n <= m
  <2> HIDE DEF S
  <2>1. S \in SUBSET Nat
    BY DEF S
  <2> QED BY <1>1, <2>1, LeastNat
<1>3. CASE n = 0
  <2> DEFINE g == [i \in 0..0 |-> Before]
  <2>1. IsRun(g, 0)
    BY DEF IsRun
  <2> QED BY <1>2, <1>3, <2>1
<1>4. CASE n # 0
  <2>1. n \in Nat /\ n - 1 \in Nat /\ n - 1 \notin S
    BY <1>2, <1>4
  <2>2. PICK f : IsRun(f, n - 1)
    BY <2>1
  <2> DEFINE g == [i \in 0..n |-> IF i = n THEN ApplyTx(f[n - 1], ethMempool[n]) ELSE f[i]]
  <2>3. \A i \in 0..(n - 1) : f[i] = IF i = 0 THEN Before ELSE ApplyTx(f[i - 1], ethMempool[i])
    BY <2>1, <2>2 DEF IsRun
  <2>4. \A i \in 0..n : g[i] = IF i = 0 THEN Before ELSE ApplyTx(g[i - 1], ethMempool[i])
    <3> TAKE i \in 0..n
    <3>1. CASE i = n
      <4>1. n - 1 \in 0..n /\ n - 1 # n
        BY <2>1
      <4>2. g[n - 1] = f[n - 1]
        BY <4>1
      <4> QED BY <1>4, <3>1, <4>2
    <3>2. CASE i # n
      <4>1. i \in 0..(n - 1) /\ g[i] = f[i]
        BY <2>1, <3>2
      <4>2. i # 0 => g[i - 1] = f[i - 1]
        BY <2>1, <3>2
      <4> HIDE DEF g
      <4> QED BY <2>3, <4>1, <4>2
    <3> QED BY <3>1, <3>2
  <2>5. IsRun(g, n)
    <3>1. g = [i \in 0..n |-> g[i]]
      OBVIOUS
    <3> HIDE DEF g
    <3>2. [i \in 0..n |-> g[i]]
            = [i \in 0..n |-> IF i = 0 THEN Before ELSE ApplyTx(g[i - 1], ethMempool[i])]
      BY <2>4
    <3> QED BY <3>1, <3>2 DEF IsRun
  <2> QED BY <1>2, <2>5
<1> QED BY <1>3, <1>4

\* AfterTxs(k) is the last state of a run over the first k transactions.
LEMMA AfterTxsIsRun ==
    ASSUME NEW k \in Nat
    PROVE  \E f : IsRun(f, k) /\ AfterTxs(k) = f[k]
<1> DEFINE f == CHOOSE st : IsRun(st, k)
<1>1. IsRun(f, k)
  BY RunExists
<1>2. AfterTxs(k) = f[k]
  BY DEF AfterTxs, IsRun, Before
<1> QED BY <1>1, <1>2

EthStates == [allowance : {0, 1}, supply : Nat, sent : SUBSET Invocations,
              receipt : [Invocations -> Receipts]]

\* What the first i transactions do: a token is burnt for each packet that is sent,
\* each packet by a sendTransfer of its own invocation, and new receipts are of the
\* block that is being produced.
RunSound(st, i) ==
    /\ st \in EthStates
    /\ \A r \in st.sent :
         \E j \in 1..i : ethMempool[j].kind = "sendTransfer" /\ ethMempool[j].by = r
    /\ st.supply + Cardinality(st.sent) = supply
    /\ \A r \in Invocations : st.receipt[r] = receipt[r] \/ st.receipt[r].block = Len(evmChain) + 1

\* A set of packets is finite.
LEMMA PacketsFinite ==
    ASSUME NEW S \in SUBSET Invocations
    PROVE  IsFiniteSet(S) /\ Cardinality(S) \in Nat
BY FS_Subset, FS_CardinalityType, TransferAssumption

\* One more transaction of the block: an approve, a revert or a burn (ApplyTx).
LEMMA ApplyTxSound ==
    ASSUME TypeOK, BurnOnce, Len(evmChain) \in Nat, NEW i \in 1..Len(ethMempool),
           NEW st, RunSound(st, i - 1)
    PROVE  RunSound(ApplyTx(st, ethMempool[i]), i)
<1> DEFINE tx == ethMempool[i]
           R(status) == [st.receipt EXCEPT ![tx.by] =
                           [status |-> status, block |-> Len(evmChain) + 1]]
<1>1. tx \in EthTxs /\ i \in Nat \ {0}
  BY ElementOfSeq DEF TypeOK
<1>2. tx.by \in Invocations /\ tx.kind \in {"approve", "sendTransfer"}
  BY <1>1 DEF EthTxs
<1>3. st \in EthStates /\ st.receipt \in [Invocations -> Receipts] /\ st.allowance \in {0, 1}
      /\ st.supply \in Nat /\ st.sent \in SUBSET Invocations
  BY DEF RunSound, EthStates
<1>4. ASSUME NEW status \in {"successful", "reverted"}
      PROVE  /\ R(status) \in [Invocations -> Receipts]
             /\ \A r \in Invocations :
                  R(status)[r] = receipt[r] \/ R(status)[r].block = Len(evmChain) + 1
  <2>1. [status |-> status, block |-> Len(evmChain) + 1] \in Receipts
    BY DEF Receipts
  <2>2. R(status) \in [Invocations -> Receipts]
    BY <1>3, <2>1
  <2>3. R(status)[tx.by].block = Len(evmChain) + 1
    BY <1>2, <1>3
  <2>4. \A r \in Invocations \ {tx.by} : R(status)[r] = st.receipt[r]
    BY <1>3
  <2> QED BY <2>2, <2>3, <2>4 DEF RunSound
<1>5. \A r \in st.sent :
         \E j \in 1..i : ethMempool[j].kind = "sendTransfer" /\ ethMempool[j].by = r
  <2>1. \A j \in 1..(i - 1) : j \in 1..i
    BY <1>1
  <2> QED BY <2>1 DEF RunSound
<1>6. st.supply + Cardinality(st.sent) = supply
  BY DEF RunSound
<1>7. CASE tx.kind = "approve"
  <2> DEFINE new == ApplyTx(st, tx)
  <2>1. new = [st EXCEPT !.allowance = 1, !.receipt = R("successful")]
    BY <1>7 DEF ApplyTx
  <2>2. R("successful") \in [Invocations -> Receipts]
    BY <1>4
  <2> HIDE DEF R, new
  <2>3. /\ new \in EthStates /\ new.sent = st.sent /\ new.supply = st.supply
        /\ new.receipt = R("successful")
    BY <1>3, <2>1, <2>2 DEF EthStates
  <2>4. \A r \in Invocations : new.receipt[r] = receipt[r] \/ new.receipt[r].block = Len(evmChain) + 1
    BY <1>4, <2>3 DEF R
  <2> HIDE DEF tx
  <2> QED BY <1>5, <1>6, <2>3, <2>4 DEF RunSound, new, tx
<1>8. CASE tx.kind = "sendTransfer" /\ (st.allowance = 0 \/ st.supply = 0)
  <2> DEFINE new == ApplyTx(st, tx)
  <2>1. new = [st EXCEPT !.receipt = R("reverted")]
    BY <1>8 DEF ApplyTx
  <2>2. R("reverted") \in [Invocations -> Receipts]
    BY <1>4
  <2> HIDE DEF R, new
  <2>3. /\ new \in EthStates /\ new.sent = st.sent /\ new.supply = st.supply
        /\ new.receipt = R("reverted")
    BY <1>3, <2>1, <2>2 DEF EthStates
  <2>4. \A r \in Invocations : new.receipt[r] = receipt[r] \/ new.receipt[r].block = Len(evmChain) + 1
    BY <1>4, <2>3 DEF R
  <2> HIDE DEF tx
  <2> QED BY <1>5, <1>6, <2>3, <2>4 DEF RunSound, new, tx
<1>9. CASE tx.kind = "sendTransfer" /\ st.allowance # 0 /\ st.supply # 0
  <2> DEFINE new == ApplyTx(st, tx)
  <2>1. new = [allowance |-> st.allowance - 1, supply |-> st.supply - 1,
               sent |-> st.sent \cup {tx.by}, receipt |-> R("successful")]
    BY <1>9 DEF ApplyTx
  <2>2. R("successful") \in [Invocations -> Receipts]
    BY <1>4
  <2>3. tx.by \notin st.sent
    <3>1. ASSUME tx.by \in st.sent PROVE FALSE
      <4>1. PICK j \in 1..(i - 1) : ethMempool[j].kind = "sendTransfer" /\ ethMempool[j].by = tx.by
        BY <3>1 DEF RunSound
      <4>2. j \in 1..Len(ethMempool) /\ j # i
        BY <1>1, <4>1
      <4> QED BY <1>9, <4>1, <4>2 DEF BurnOnce
    <3> QED BY <3>1
  <2>4. Cardinality(st.sent \cup {tx.by}) = Cardinality(st.sent) + 1 /\ Cardinality(st.sent) \in Nat
    <3>1. IsFiniteSet(st.sent) /\ Cardinality(st.sent) \in Nat
      BY <1>3, PacketsFinite
    <3> QED BY <2>3, <3>1, FS_AddElement
  <2> HIDE DEF R, new, tx
  <2>5. /\ new \in EthStates /\ new.sent = st.sent \cup {tx.by} /\ new.supply = st.supply - 1
        /\ new.receipt = R("successful")
    BY <1>2, <1>3, <1>9, <2>1, <2>2 DEF EthStates
  <2>6. \A r \in Invocations : new.receipt[r] = receipt[r] \/ new.receipt[r].block = Len(evmChain) + 1
    BY <1>4, <2>5 DEF R
  <2>7. new.supply + Cardinality(new.sent) = supply
    <3> DEFINE c == Cardinality(st.sent)
    <3>1. Cardinality(new.sent) = c + 1 /\ c \in Nat /\ st.supply + c = supply
      BY <1>6, <2>4, <2>5
    <3> HIDE DEF c
    <3> QED BY <1>3, <2>5, <3>1
  <2>8. i \in 1..i
    BY <1>1
  <2>9. \A r \in new.sent :
           \E j \in 1..i : ethMempool[j].kind = "sendTransfer" /\ ethMempool[j].by = r
    BY <1>5, <1>9, <2>5, <2>8 DEF tx
  <2> QED BY <2>5, <2>6, <2>7, <2>9 DEF RunSound, new, tx
<1> QED BY <1>2, <1>7, <1>8, <1>9

\* The first k transactions leave a state like that.
LEMMA AfterTxsSound ==
    ASSUME TypeOK, BurnOnce, Len(evmChain) \in Nat, NEW k \in 0..Len(ethMempool)
    PROVE  RunSound(AfterTxs(k), k)
<1>1. Len(ethMempool) \in Nat /\ k \in Nat
  BY LenProperties DEF TypeOK
<1>2. PICK f : IsRun(f, k) /\ AfterTxs(k) = f[k]
  BY <1>1, AfterTxsIsRun
<1>3. \A i \in 0..k : f[i] = IF i = 0 THEN Before ELSE ApplyTx(f[i - 1], ethMempool[i])
  BY <1>2 DEF IsRun
<1> DEFINE S == {n \in 0..k : ~ RunSound(f[n], n)}
<1>4. ASSUME S # {} PROVE FALSE
  <2>1. S \in SUBSET Nat
    BY <1>1
  <2>2. PICK n \in S : \A m \in S : n <= m
    <3> HIDE DEF S
    <3> QED BY <1>4, <2>1, LeastNat
  <2>3. CASE n = 0
    <3>1. f[0] = Before
      BY <1>1, <1>3
    <3>2. /\ Before \in EthStates /\ Before.sent = {} /\ Before.supply = supply
          /\ Before.receipt = receipt
      BY DEF Before, EthStates, TypeOK
    <3>3. Cardinality({}) = 0 /\ supply \in Nat
      BY FS_EmptySet DEF TypeOK
    <3>4. RunSound(Before, 0)
      BY <3>2, <3>3 DEF RunSound
    <3> QED BY <2>2, <2>3, <3>1, <3>4
  <2>4. CASE n # 0
    <3>1. n \in 1..Len(ethMempool) /\ n \in 0..k /\ n - 1 \in 0..k /\ n - 1 \notin S
      BY <1>1, <2>2, <2>4
    <3>2. RunSound(f[n - 1], n - 1)
      BY <3>1
    <3>3. f[n] = ApplyTx(f[n - 1], ethMempool[n])
      BY <1>3, <2>4, <3>1
    <3>4. RunSound(f[n], n)
      BY <3>1, <3>2, <3>3, ApplyTxSound
    <3> QED BY <2>2, <3>4
  <2> QED BY <2>3, <2>4
<1>5. k \in 0..k
  BY <1>1
<1> QED BY <1>2, <1>4, <1>5

-----------------------------------------------------------------------------
(* The roll-up's blocks.                                                   *)

\* Relayed headers stay what they are when the chain grows.
LEMMA RelayedStays ==
    ASSUME NEW h, ClientInv, ClientKeeps, IsRelayed(h, evmChain)
    PROVE  IsRelayed(h, evmChain')
<1>1. PICK t \in 1..MaxEvmHeight, n \in 1..Len(evmChain), b \in 1..Len(evmChain) :
        /\ b <= n
        /\ h = [TrustedHeight |-> t, NewestHeight |-> n,
                NewestStateRoot |-> evmChain[n].root, Timestamp |-> evmChain[b].time]
  BY DEF ClientInv, IsRelayed
<1>2. /\ n \in DOMAIN evmChain' /\ b \in DOMAIN evmChain'
      /\ evmChain'[n] = evmChain[n] /\ evmChain'[b] = evmChain[b]
  BY DEF ClientInv, ClientKeeps
<1> QED BY <1>1, <1>2 DEF IsRelayed

\* A block commits what its transactions sent.
LEMMA BlockCommits ==
    ASSUME ClientInv, NEW ps \in SUBSET Invocations, NEW changed \in BOOLEAN,
           LC!ProduceBlock(ps, changed)
    PROVE  Committed' = Committed \cup ps /\ Len(evmChain') = Len(evmChain) + 1
<1> DEFINE new == [root |-> IF changed
                            THEN [version |-> LC!LatestRoot.version + 1,
                                  commitments |-> LC!LatestRoot.commitments \cup ps]
                            ELSE LC!LatestRoot,
                   time |-> now + 1]
<1>1. evmChain' = Append(evmChain, new) /\ (ps # {} => changed)
  BY DEF LC!ProduceBlock
<1>2. new.root.commitments = Committed \cup ps
  BY <1>1 DEF Committed
<1> HIDE DEF new
<1>3. evmChain \in Seq(LC!Blocks \cup {new}) /\ new \in LC!Blocks \cup {new}
  BY DEF ClientInv
<1>4. /\ evmChain' # <<>> /\ Len(evmChain') = Len(evmChain) + 1
      /\ evmChain'[Len(evmChain) + 1] = new
  <2>1. Len(evmChain') = Len(evmChain) + 1 /\ evmChain'[Len(evmChain) + 1] = new
    BY <1>1, <1>3
  <2>2. Len(evmChain) + 1 # 0
    BY DEF ClientInv
  <2> QED BY <2>1, <2>2
<1>5. LC!LatestRoot' = new.root
  BY <1>4 DEF LC!LatestRoot
<1> QED BY <1>2, <1>4, <1>5 DEF Committed

\* A block with the first k pending transactions: what is burnt is on its way.
LEMMA EvmBlockOwn ==
    ASSUME Own, ClientInv, ClientKeeps, NEW k \in 0..Len(ethMempool), NEW changed \in BOOLEAN,
           EvmBlock(k, changed)
    PROVE  Own'
<1> DEFINE st == AfterTxs(k)
<1>1. /\ LC!ProduceBlock(st.sent, changed) /\ receipt' = st.receipt /\ allowance' = st.allowance
      /\ supply' = st.supply /\ ethMempool' = SubSeq(ethMempool, k + 1, Len(ethMempool))
      /\ UNCHANGED <<simMempool, txResult, packetReceipts, escrow, pc, evmTransferBlockNumber,
                     provedHeight, header>>
  BY DEF EvmBlock, simVars, runVars
<1>2. TypeOK /\ BurnOnce /\ Len(evmChain) \in Nat
  BY DEF Own, ClientInv
<1>3. RunSound(st, k)
  BY <1>2, AfterTxsSound
<1> HIDE DEF st
<1>4. /\ st.allowance \in {0, 1} /\ st.supply \in Nat /\ st.sent \in SUBSET Invocations
      /\ st.receipt \in [Invocations -> Receipts]
  BY <1>3 DEF RunSound, EthStates
<1>5. Committed' = Committed \cup st.sent /\ Len(evmChain') = Len(evmChain) + 1
  BY <1>1, <1>4, BlockCommits
<1>6. Len(evmChain) < MaxEvmHeight /\ UNCHANGED <<clientState, consensusStates>>
  BY <1>1 DEF LC!ProduceBlock, LC!store
<1>7. /\ ethMempool' \in Seq(EthTxs) /\ k \in Nat
      /\ \A i \in 1..Len(ethMempool') :
           k + i \in 1..Len(ethMempool) /\ ethMempool'[i] = ethMempool[k + i] /\ i \in Nat \ {0}
  <2> DEFINE m == k + 1
             n == Len(ethMempool)
  <2>1. n \in Nat /\ k \in Nat /\ m \in Int /\ n \in Int
    BY <1>2, LenProperties DEF TypeOK
  <2>2. \A i \in m..n : ethMempool[i] \in EthTxs
    <3>1. \A i \in m..n : i \in 1..n
      BY <2>1
    <3> QED BY <1>2, <3>1, ElementOfSeq DEF TypeOK
  <2> HIDE DEF m, n
  <2>3. /\ SubSeq(ethMempool, m, n) \in Seq(EthTxs)
        /\ Len(SubSeq(ethMempool, m, n)) = IF m <= n THEN n - m + 1 ELSE 0
        /\ \A i \in 1..n - m + 1 : SubSeq(ethMempool, m, n)[i] = ethMempool[m + i - 1]
    BY <2>1, <2>2, SubSeqProperties
  <2>4. ethMempool' = SubSeq(ethMempool, m, n)
    BY <1>1 DEF m, n
  <2>5. Len(ethMempool') = n - k
    BY <2>1, <2>3, <2>4 DEF m, n
  <2>6. ASSUME NEW i \in 1..Len(ethMempool')
        PROVE  k + i \in 1..n /\ ethMempool'[i] = ethMempool[k + i] /\ i \in Nat \ {0}
    <3>1. i \in 1..n - m + 1 /\ m + i - 1 = k + i /\ k + i \in 1..n /\ i \in Nat \ {0}
      BY <2>1, <2>5, <2>6 DEF m
    <3>2. SubSeq(ethMempool, m, n)[i] = ethMempool[m + i - 1]
      BY <2>3, <3>1
    <3> QED BY <2>4, <3>1, <3>2
  <2> QED BY <2>1, <2>3, <2>4, <2>6 DEF n
<1>8. \A r \in st.sent :
         \E j \in 1..k : /\ j \in 1..Len(ethMempool)
                       /\ ethMempool[j].kind = "sendTransfer" /\ ethMempool[j].by = r
  <2>1. \A j \in 1..k : j \in 1..Len(ethMempool)
    BY <1>7
  <2> QED BY <1>3, <2>1 DEF RunSound
<1>9. \A r \in st.sent : pc[r] \notin BeforeSend /\ r \notin Committed
  BY <1>8 DEF Own, BurnOnce
<1>10. TypeOK'
  BY <1>1, <1>4, <1>7 DEF Own, TypeOK
<1>11. BurnOnce'
  <2>1. ASSUME NEW i \in 1..Len(ethMempool'), ethMempool'[i].kind = "sendTransfer"
        PROVE  pc[ethMempool'[i].by] \notin BeforeSend /\ ethMempool'[i].by \notin Committed'
    <3>1. /\ k + i \in 1..Len(ethMempool) /\ ethMempool'[i] = ethMempool[k + i]
          /\ i \in Nat \ {0}
      BY <1>7
    <3>2. pc[ethMempool'[i].by] \notin BeforeSend /\ ethMempool'[i].by \notin Committed
      BY <2>1, <3>1 DEF Own, BurnOnce
    <3>3. ethMempool'[i].by \notin st.sent
      <4>1. ASSUME ethMempool'[i].by \in st.sent PROVE FALSE
        <5>1. PICK j \in 1..k : /\ j \in 1..Len(ethMempool)
                                /\ ethMempool[j].kind = "sendTransfer"
                                /\ ethMempool[j].by = ethMempool'[i].by
          BY <1>8, <4>1
        <5>2. j # k + i
          BY <1>7, <3>1, <5>1
        <5> QED BY <2>1, <3>1, <5>1, <5>2 DEF Own, BurnOnce
      <4> QED BY <4>1
    <3> QED BY <1>5, <3>2, <3>3
  <2>2. ASSUME NEW i \in 1..Len(ethMempool'), NEW j \in 1..Len(ethMempool'),
               ethMempool'[i].kind = "sendTransfer", ethMempool'[j].kind = "sendTransfer",
               ethMempool'[i].by = ethMempool'[j].by
        PROVE  i = j
    <3>1. k + i = k + j
      BY <1>7, <2>2 DEF Own, BurnOnce
    <3> QED BY <1>7, <3>1
  <2>3. \A r \in Invocations : pc[r] \in BeforeSend => r \notin Committed'
    BY <1>5, <1>9 DEF Own, BurnOnce
  <2> QED BY <1>1, <2>1, <2>2, <2>3 DEF BurnOnce
<1>12. HeightsKnown'
  <2>1. Len(evmChain') <= MaxEvmHeight
    BY <1>2, <1>5, <1>6, TransferAssumption
  <2>2. ASSUME NEW r \in Invocations, receipt'[r].status # "pending"
        PROVE  receipt'[r].block \in 1..Len(evmChain')
    <3>1. receipt'[r] = receipt[r] \/ receipt'[r].block = Len(evmChain) + 1
      BY <1>1, <1>3 DEF RunSound
    <3>2. receipt'[r] = receipt[r] => receipt'[r].block \in 1..Len(evmChain)
      BY <2>2 DEF Own, HeightsKnown
    <3> QED BY <1>2, <1>5, <3>1, <3>2
  <2>3. ASSUME NEW r \in Invocations
        PROVE  /\ pc[r] \in {"proveLatest", "proveTrusted", "getHeader"} =>
                    evmTransferBlockNumber[r] \in 1..Len(evmChain')
               /\ pc[r] \in {"proveTrusted", "getHeader"} =>
                    provedHeight[r] \in evmTransferBlockNumber[r]..Len(evmChain')
    <3>1. evmTransferBlockNumber[r] \in Nat
      BY <1>2 DEF TypeOK
    <3> QED BY <1>2, <1>5, <3>1 DEF Own, HeightsKnown
  <2>4. \A r \in Invocations : pc[r] = "update" => IsRelayed(header[r], evmChain')
    BY RelayedStays DEF Own, HeightsKnown
  <2>5. \A r \in Invocations : pc[r] # "approve" /\ pc[r] # "failed" => clientState.exists
    BY DEF Own, HeightsKnown
  <2> QED BY <1>1, <1>6, <2>1, <2>2, <2>3, <2>4, <2>5 DEF HeightsKnown
<1>13. PendingSound'
  <2>1. simMempool # <<>> /\ simMempool[1].kind = "update" => IsRelayed(simMempool[1].header, evmChain')
    BY RelayedStays DEF Own, PendingSound
  <2> QED BY <1>1, <2>1 DEF Own, PendingSound
<1>14. Conservation'
  <2> DEFINE A == Committed \ packetReceipts
             B == st.sent
  <2>1. A \in SUBSET Invocations /\ B \in SUBSET Invocations /\ A \cap B = {}
    BY <1>4, <1>9 DEF ClientInv
  <2>2. IsFiniteSet(A) /\ IsFiniteSet(B) /\ Cardinality(A) \in Nat /\ Cardinality(B) \in Nat
    BY <2>1, PacketsFinite
  <2>3. Committed' \ packetReceipts' = A \cup B
    <3>1. packetReceipts \subseteq Committed
      BY DEF Own, UnlockedWasBurnt
    <3> QED BY <1>1, <1>5, <1>9, <3>1
  <2>4. escrow = supply + Cardinality(A) /\ st.supply + Cardinality(B) = supply
    BY <1>3 DEF Own, Conservation, RunSound
  <2> HIDE DEF A, B
  <2>5. Cardinality(A \cup B) = Cardinality(A) + Cardinality(B) - Cardinality(A \cap B)
    BY <2>2, FS_Union
  <2>6. Cardinality(A \cap B) = 0
    BY <2>1, FS_EmptySet
  <2>7. escrow = st.supply + Cardinality(A \cup B)
    <3> DEFINE a == Cardinality(A)
               b == Cardinality(B)
               c == Cardinality(A \cup B)
    <3>1. a \in Nat /\ b \in Nat /\ c = a + b - 0 /\ escrow = supply + a /\ st.supply + b = supply
      BY <2>2, <2>4, <2>5, <2>6
    <3> HIDE DEF a, b, c
    <3>2. escrow = st.supply + c
      BY <1>4, <3>1
    <3> QED BY <3>2 DEF c
  <2> QED BY <1>1, <2>3, <2>7 DEF Conservation
<1>15. UnlockedWasBurnt' /\ DoneMeansUnlocked'
  BY <1>1, <1>5, <1>6 DEF Own, UnlockedWasBurnt, DoneMeansUnlocked
<1> QED BY <1>10, <1>11, <1>12, <1>13, <1>14, <1>15 DEF Own

-----------------------------------------------------------------------------
(* SimApp.                                                                 *)

\* A step of the client alone disturbs nothing: it keeps the chain and the roots.
LEMMA ClientOnlyOwn ==
    ASSUME Own, ClientInv, ClientKeeps, UNCHANGED <<evmChain, ethVars, packetReceipts, escrow, runVars>>,
           \/ UNCHANGED <<simMempool, txResult>>
           \/ /\ simMempool' = <<>>
              /\ txResult' \in [Invocations -> {None, "ok", "error"}]
              /\ \A r \in Invocations : pc[r] = "relaying" => txResult'[r] = txResult[r]
    PROVE  Own'
<1>1. UNCHANGED <<evmChain, ethMempool, receipt, allowance, supply, packetReceipts, escrow, pc,
                  evmTransferBlockNumber, provedHeight, header>>
  BY DEF ethVars, runVars
<1>2. TypeOK'
  BY <1>1 DEF Own, TypeOK
<1>3. UNCHANGED Committed
  BY <1>1 DEF Committed, LC!LatestRoot
<1>4. BurnOnce'
  BY <1>1, <1>3 DEF Own, BurnOnce
<1>5. HeightsKnown'
  BY <1>1 DEF Own, HeightsKnown, ClientKeeps
<1>6. PendingSound'
  BY <1>1 DEF Own, PendingSound
<1>7. Conservation' /\ DoneMeansUnlocked'
  BY <1>1, <1>3 DEF Own, Conservation, DoneMeansUnlocked
<1>8. UnlockedWasBurnt'
  BY <1>1, <1>3 DEF Own, UnlockedWasBurnt, ClientKeeps
<1> QED BY <1>2, <1>4, <1>5, <1>6, <1>7, <1>8 DEF Own

\* The escrow is released for a committed packet that was not received before, under
\* a root that the client holds.
LEMMA RecvPacketLemma ==
    ASSUME Own, ClientInv, NEW packet \in Invocations, NEW h, NEW root,
           RecvPacket(packet, h, root), UNCHANGED <<lcVars, supply>>
    PROVE  /\ escrow' \in Nat /\ packetReceipts' \in SUBSET Invocations
           /\ packetReceipts \subseteq packetReceipts'
           /\ RecvSucceeds(packet, h, root) => packet \in packetReceipts'
           /\ Conservation' /\ UnlockedWasBurnt'
<1>1. UNCHANGED <<evmChain, clientState, consensusStates, Committed>>
  BY DEF lcVars, Committed, LC!LatestRoot
<1>2. CASE packet \notin packetReceipts /\ RecvSucceeds(packet, h, root)
  <2>1. packetReceipts' = packetReceipts \cup {packet} /\ escrow' = escrow - 1
    BY <1>2 DEF RecvPacket
  <2>2. LC!VerifyMembership(h, root, packet) /\ escrow > 0
    BY <1>2 DEF RecvSucceeds
  <2>3. h \in DOMAIN consensusStates /\ packet \in consensusStates[h].StateRoot.commitments
    BY <2>2 DEF LC!VerifyMembership, LC!GetConsensusStateFound
  <2>4. packet \in Committed
    BY <2>3 DEF ClientInv
  <2>5. escrow' \in Nat /\ packetReceipts' \in SUBSET Invocations
    BY <2>1, <2>2 DEF Own, TypeOK
  <2>6. UnlockedWasBurnt'
    BY <1>1, <2>1, <2>3, <2>4 DEF Own, UnlockedWasBurnt
  <2>7. Conservation'
    <3> DEFINE S == Committed \ packetReceipts
               n == Cardinality(S)
    <3>1. S \in SUBSET Invocations /\ packet \in S /\ Committed' \ packetReceipts' = S \ {packet}
      BY <1>1, <1>2, <2>1, <2>4 DEF ClientInv
    <3>2. Cardinality(S \ {packet}) = n - 1 /\ n \in Nat
      <4> HIDE DEF S
      <4>1. IsFiniteSet(S) /\ Cardinality(S) \in Nat
        BY <3>1, PacketsFinite
      <4> QED BY <3>1, <4>1, FS_RemoveElement
    <3>3. escrow = supply + n /\ supply \in Nat
      BY DEF Own, Conservation, TypeOK
    <3>4. Cardinality(Committed' \ packetReceipts') = n - 1
      BY <3>1, <3>2
    <3> HIDE DEF n
    <3>5. escrow - 1 = supply + (n - 1)
      BY <3>2, <3>3
    <3> QED BY <2>1, <3>4, <3>5 DEF Conservation
  <2> QED BY <2>1, <2>5, <2>6, <2>7
<1>3. CASE ~ (packet \notin packetReceipts /\ RecvSucceeds(packet, h, root))
  <2>1. UNCHANGED <<packetReceipts, escrow>>
    BY <1>3 DEF RecvPacket
  <2>2. Conservation' /\ UnlockedWasBurnt'
    BY <1>1, <2>1 DEF Own, Conservation, UnlockedWasBurnt
  <2> QED BY <1>3, <2>1, <2>2 DEF Own, TypeOK
<1> QED BY <1>2, <1>3

\* Somebody else relays.
LEMMA OtherRelayerOwn ==
    ASSUME Own, ClientInv, NEW packet \in Invocations, NEW h, OtherRelayer(packet, h)
    PROVE  Own'
<1>1. /\ RecvPacket(packet, h, evmChain[h].root)
      /\ UNCHANGED <<lcVars, supply>>
      /\ UNCHANGED <<evmChain, clientState, consensusStates, Committed>>
      /\ UNCHANGED <<ethMempool, receipt, allowance, supply, simMempool, txResult, pc,
                     evmTransferBlockNumber, provedHeight, header>>
  BY DEF OtherRelayer, lcVars, ethVars, runVars, Committed, LC!LatestRoot
<1>2. /\ escrow' \in Nat /\ packetReceipts' \in SUBSET Invocations
      /\ packetReceipts \subseteq packetReceipts' /\ Conservation' /\ UnlockedWasBurnt'
  BY <1>1, RecvPacketLemma
<1>3. TypeOK' /\ BurnOnce' /\ HeightsKnown'
  BY <1>1, <1>2 DEF Own, TypeOK, BurnOnce, HeightsKnown
<1>4. PendingSound' /\ DoneMeansUnlocked'
  BY <1>1, <1>2 DEF Own, PendingSound, DoneMeansUnlocked
<1> QED BY <1>2, <1>3, <1>4 DEF Own

\* A SimApp block with the pending transaction.
LEMMA DeliverTxOwn ==
    ASSUME Own, ClientInv, ClientKeeps, DeliverTx
    PROVE  Own'
<1> DEFINE tx == simMempool[1]
           ok == IF tx.kind = "update"
                 THEN clientState.exists /\ LC!VerifyClientMessage(tx.header)
                 ELSE RecvSucceeds(tx.by, tx.proofHeight, tx.proofRoot)
           result == IF ok THEN "ok" ELSE "error"
<1>1. /\ simMempool # <<>> /\ simMempool' = <<>> /\ UNCHANGED <<ethVars, runVars>>
      /\ txResult' = [txResult EXCEPT ![tx.by] = result]
  BY DEF DeliverTx
<1>2. tx.by \in Invocations /\ (pc[tx.by] = "relaying" => tx.kind = "recv")
  BY <1>1 DEF Own, PendingSound
<1>3. /\ txResult' \in [Invocations -> {None, "ok", "error"}]
      /\ txResult'[tx.by] = result
      /\ \A r \in Invocations \ {tx.by} : txResult'[r] = txResult[r]
  BY <1>1, <1>2 DEF Own, TypeOK
<1>4. CASE tx.kind = "update"
  <2>1. UNCHANGED <<evmChain, packetReceipts, escrow>>
    BY <1>4 DEF DeliverTx, LC!UpdateClient, lcVars
  <2>2. \A r \in Invocations : pc[r] = "relaying" => txResult'[r] = txResult[r]
    BY <1>2, <1>3, <1>4
  <2> HIDE DEF tx, result
  <2> QED BY <1>1, <1>3, <2>1, <2>2, ClientOnlyOwn
<1>5. CASE tx.kind # "update"
  <2>1. RecvPacket(tx.by, tx.proofHeight, tx.proofRoot) /\ UNCHANGED lcVars
    BY <1>5 DEF DeliverTx
  <2>2. result = "ok" => RecvSucceeds(tx.by, tx.proofHeight, tx.proofRoot)
    BY <1>5
  <2> HIDE DEF tx, result
  <2>3. /\ UNCHANGED <<evmChain, clientState, consensusStates, Committed>>
        /\ UNCHANGED <<ethMempool, receipt, allowance, supply, pc, evmTransferBlockNumber,
                       provedHeight, header>>
    BY <1>1, <2>1 DEF lcVars, ethVars, runVars, Committed, LC!LatestRoot
  <2>4. /\ escrow' \in Nat /\ packetReceipts' \in SUBSET Invocations
        /\ packetReceipts \subseteq packetReceipts' /\ Conservation' /\ UnlockedWasBurnt'
        /\ result = "ok" => tx.by \in packetReceipts'
    BY <1>2, <2>1, <2>2, <2>3, RecvPacketLemma
  <2>5. TypeOK' /\ BurnOnce' /\ HeightsKnown'
    BY <1>3, <2>3, <2>4 DEF Own, TypeOK, BurnOnce, HeightsKnown
  <2>6. PendingSound'
    BY <1>1, <1>3, <2>3, <2>4 DEF Own, PendingSound
  <2>7. DoneMeansUnlocked'
    BY <2>3, <2>4 DEF Own, DoneMeansUnlocked
  <2> QED BY <2>4, <2>5, <2>6, <2>7 DEF Own
<1> QED BY <1>4, <1>5

-----------------------------------------------------------------------------
(* The steps of transferBack().                                            *)

\* What a step that only moves the invocation on has to establish.
LEMMA MoveOwn ==
    ASSUME Own, ClientInv, NEW r \in Invocations, NEW l \in Labels \ {"updating", "relaying"},
           Goto(r, l), UNCHANGED <<lcVars, ethVars, simVars>>,
           evmTransferBlockNumber' \in [Invocations -> Nat],
           provedHeight' \in [Invocations -> Nat], DOMAIN header' = Invocations,
           \A q \in Invocations \ {r} :
               /\ evmTransferBlockNumber'[q] = evmTransferBlockNumber[q]
               /\ provedHeight'[q] = provedHeight[q]
               /\ header'[q] = header[q],
           l \in BeforeSend => pc[r] \in BeforeSend,
           l \notin {"approve", "failed"} => clientState.exists,
           l \in {"proveLatest", "proveTrusted", "getHeader"} =>
               evmTransferBlockNumber'[r] \in 1..Len(evmChain),
           l \in {"proveTrusted", "getHeader"} =>
               provedHeight'[r] \in evmTransferBlockNumber'[r]..Len(evmChain),
           l = "update" => IsRelayed(header'[r], evmChain),
           l # "failed" => simMempool = <<>> \/ simMempool[1].by # r,
           l = "done" => r \in packetReceipts
    PROVE  Own'
<1>1. /\ UNCHANGED <<evmChain, clientState, consensusStates, Committed>>
      /\ UNCHANGED <<ethMempool, receipt, allowance, supply>>
      /\ UNCHANGED <<simMempool, txResult, packetReceipts, escrow>>
  BY DEF lcVars, ethVars, simVars, Committed, LC!LatestRoot
<1>2. /\ pc' \in [Invocations -> Labels] /\ pc'[r] = l
      /\ \A q \in Invocations \ {r} : pc'[q] = pc[q]
  BY DEF Own, TypeOK, Goto
<1>3. TypeOK'
  BY <1>1, <1>2 DEF Own, TypeOK
<1>4. BurnOnce'
  <2>1. \A q \in Invocations : pc'[q] \in BeforeSend => pc[q] \in BeforeSend
    BY <1>2
  <2>2. \A i \in 1..Len(ethMempool) : ethMempool[i].by \in Invocations
    <3>1. \A i \in 1..Len(ethMempool) : ethMempool[i] \in EthTxs
      BY ElementOfSeq DEF Own, TypeOK
    <3> QED BY <3>1 DEF EthTxs
  <2>3. /\ \A i \in 1..Len(ethMempool) :
             ethMempool[i].kind = "sendTransfer" => pc'[ethMempool[i].by] \notin BeforeSend
        /\ \A q \in Invocations : pc'[q] \in BeforeSend => q \notin Committed
    BY <2>1, <2>2 DEF Own, BurnOnce
  <2> QED BY <1>1, <2>3 DEF Own, BurnOnce
<1>5. HeightsKnown'
  <2>1. ASSUME NEW q \in Invocations, q # r
        PROVE  /\ pc'[q] = pc[q] /\ evmTransferBlockNumber'[q] = evmTransferBlockNumber[q]
               /\ provedHeight'[q] = provedHeight[q] /\ header'[q] = header[q]
    BY <1>2, <2>1
  <2>2. /\ pc'[r] # "approve" /\ pc'[r] # "failed" => clientState.exists
        /\ pc'[r] \in {"proveLatest", "proveTrusted", "getHeader"} =>
             evmTransferBlockNumber'[r] \in 1..Len(evmChain)
        /\ pc'[r] \in {"proveTrusted", "getHeader"} =>
             provedHeight'[r] \in evmTransferBlockNumber'[r]..Len(evmChain)
        /\ pc'[r] = "update" => IsRelayed(header'[r], evmChain)
    BY <1>2
  <2>3. receipt[r].status # "pending" => receipt[r].block \in 1..Len(evmChain)
    BY DEF Own, HeightsKnown
  <2>4. ASSUME NEW q \in Invocations
        PROVE  /\ pc'[q] # "approve" /\ pc'[q] # "failed" => clientState.exists
               /\ receipt[q].status # "pending" => receipt[q].block \in 1..Len(evmChain)
               /\ pc'[q] \in {"proveLatest", "proveTrusted", "getHeader"} =>
                    evmTransferBlockNumber'[q] \in 1..Len(evmChain)
               /\ pc'[q] \in {"proveTrusted", "getHeader"} =>
                    provedHeight'[q] \in evmTransferBlockNumber'[q]..Len(evmChain)
               /\ pc'[q] = "update" => IsRelayed(header'[q], evmChain)
    <3>1. CASE q = r
      BY <2>2, <2>3, <3>1
    <3>2. CASE q # r
      BY <2>1, <3>2 DEF Own, HeightsKnown
    <3> QED BY <3>1, <3>2
  <2>5. Len(evmChain) <= MaxEvmHeight
    BY DEF Own, HeightsKnown
  <2> QED BY <1>1, <2>4, <2>5 DEF HeightsKnown
<1>6. PendingSound'
  <2>1. simMempool # <<>> =>
          /\ simMempool[1].by \in Invocations
          /\ pc'[simMempool[1].by] \in {pc[simMempool[1].by], "failed"}
    BY <1>2 DEF Own, PendingSound
  <2>2. \A q \in Invocations : pc'[q] = "relaying" => pc[q] = "relaying"
    BY <1>2
  <2> QED BY <1>1, <2>1, <2>2 DEF Own, PendingSound
<1>7. Conservation' /\ UnlockedWasBurnt'
  BY <1>1 DEF Own, Conservation, UnlockedWasBurnt
<1>8. DoneMeansUnlocked'
  BY <1>1, <1>2 DEF Own, DoneMeansUnlocked
<1> QED BY <1>3, <1>4, <1>5, <1>6, <1>7, <1>8 DEF Own

\* The steps that read and compute, and giving up.
LEMMA MovesOwn ==
    ASSUME Own, ClientInv, NEW r \in Invocations,
           \/ CheckAllowance(r) \/ SendPacketEvent(r) \/ ProveLatest(r) \/ ProveTrusted(r)
           \/ GetHeader(r) \/ TxLanded(r) \/ GiveUp(r)
    PROVE  Own'
<1> DEFINE Kept == UNCHANGED <<evmTransferBlockNumber, provedHeight, header>>
           Elsewhere == UNCHANGED <<lcVars, ethVars, simVars>>
<1>0. /\ evmTransferBlockNumber \in [Invocations -> Nat]
      /\ provedHeight \in [Invocations -> Nat] /\ DOMAIN header = Invocations
      /\ receipt[r] \in Receipts /\ txResult[r] \in {None, "ok", "error"}
      /\ pc \in [Invocations -> Labels]
  BY DEF Own, TypeOK
<1>f. ASSUME Goto(r, "failed"), Kept, Elsewhere
      PROVE  Own'
  BY <1>f, <1>0, MoveOwn DEF Labels, BeforeSend
<1>h. pc[r] \notin {"updating", "relaying", "failed"} => simMempool = <<>> \/ simMempool[1].by # r
  BY DEF Own, PendingSound
<1>e. pc[r] \notin {"approve", "failed"} => clientState.exists
  BY DEF Own, HeightsKnown
<1>1. CASE CheckAllowance(r)
  <2>1. pc[r] = "approving" /\ Kept /\ Elsewhere
        /\ (Goto(r, "send") \/ Goto(r, "failed"))
    BY <1>1 DEF CheckAllowance
  <2>2. CASE Goto(r, "send")
    BY <1>0, <1>h, <1>e, <2>1, <2>2, MoveOwn DEF Labels, BeforeSend
  <2> QED BY <1>f, <2>1, <2>2
<1>2. CASE SendPacketEvent(r)
  <2>1. CASE receipt[r].status = "successful"
    <3>1. /\ pc[r] = "sending" /\ Goto(r, "proveLatest") /\ Elsewhere
          /\ evmTransferBlockNumber' = [evmTransferBlockNumber EXCEPT ![r] = receipt[r].block]
          /\ UNCHANGED <<provedHeight, header>>
      BY <1>2, <2>1 DEF SendPacketEvent
    <3>2. receipt[r].block \in 1..Len(evmChain) /\ receipt[r].block \in Nat
      BY <1>0, <2>1 DEF Own, HeightsKnown, Receipts
    <3>3. /\ evmTransferBlockNumber' \in [Invocations -> Nat]
          /\ evmTransferBlockNumber'[r] = receipt[r].block
          /\ \A q \in Invocations \ {r} : evmTransferBlockNumber'[q] = evmTransferBlockNumber[q]
      BY <1>0, <3>1, <3>2
    <3> QED BY <1>0, <1>h, <1>e, <3>1, <3>2, <3>3, MoveOwn DEF Labels, BeforeSend
  <2>2. CASE receipt[r].status # "successful"
    BY <1>2, <1>f, <2>2 DEF SendPacketEvent
  <2> QED BY <2>1, <2>2
<1>3. CASE ProveLatest(r)
  <2>1. /\ pc[r] = "proveLatest" /\ Goto(r, "proveTrusted") /\ Elsewhere
        /\ provedHeight' = [provedHeight EXCEPT ![r] = Len(evmChain)]
        /\ UNCHANGED <<evmTransferBlockNumber, header>>
    BY <1>3 DEF ProveLatest
  <2>2. evmTransferBlockNumber[r] \in 1..Len(evmChain) /\ Len(evmChain) \in Nat
    BY <2>1 DEF Own, HeightsKnown, ClientInv
  <2>3. /\ provedHeight' \in [Invocations -> Nat] /\ provedHeight'[r] = Len(evmChain)
        /\ \A q \in Invocations \ {r} : provedHeight'[q] = provedHeight[q]
    BY <1>0, <2>1, <2>2
  <2>4. Len(evmChain) \in evmTransferBlockNumber[r]..Len(evmChain)
    BY <2>2
  <2> QED BY <1>0, <1>h, <1>e, <2>1, <2>2, <2>3, <2>4, MoveOwn DEF Labels, BeforeSend
<1>4. CASE ProveTrusted(r)
  <2>1. pc[r] = "proveTrusted" /\ Kept /\ Elsewhere
        /\ (Goto(r, "getHeader") \/ Goto(r, "failed"))
    BY <1>4 DEF ProveTrusted
  <2>2. CASE Goto(r, "getHeader")
    <3>1. /\ evmTransferBlockNumber[r] \in 1..Len(evmChain)
          /\ provedHeight[r] \in evmTransferBlockNumber[r]..Len(evmChain)
      BY <2>1 DEF Own, HeightsKnown
    <3> QED BY <1>0, <1>h, <1>e, <2>1, <2>2, <3>1, MoveOwn DEF Labels, BeforeSend
  <2> QED BY <1>f, <2>1, <2>2
<1>5. CASE GetHeader(r)
  <2> DEFINE h == LC!RelayedHeader(clientState.LatestHeight, provedHeight[r],
                                   evmTransferBlockNumber[r])
  <2>1. /\ pc[r] = "getHeader" /\ Goto(r, "update") /\ Elsewhere
        /\ header' = [header EXCEPT ![r] = h]
        /\ UNCHANGED <<evmTransferBlockNumber, provedHeight>>
    BY <1>5 DEF GetHeader
  <2>2. /\ evmTransferBlockNumber[r] \in 1..Len(evmChain)
        /\ provedHeight[r] \in evmTransferBlockNumber[r]..Len(evmChain)
        /\ clientState.exists /\ Len(evmChain) <= MaxEvmHeight
    BY <2>1 DEF Own, HeightsKnown
  <2>3. clientState.LatestHeight \in 1..Len(evmChain) /\ DOMAIN evmChain = 1..Len(evmChain)
        /\ Len(evmChain) \in Nat
    BY <2>2 DEF ClientInv
  <2>4. /\ clientState.LatestHeight \in 1..MaxEvmHeight
        /\ provedHeight[r] \in DOMAIN evmChain /\ evmTransferBlockNumber[r] \in DOMAIN evmChain
        /\ evmTransferBlockNumber[r] <= provedHeight[r]
    BY <2>2, <2>3, TransferAssumption
  <2>5. IsRelayed(h, evmChain)
    BY <2>4 DEF IsRelayed, LC!RelayedHeader
  <2> HIDE DEF h
  <2>6. DOMAIN header' = Invocations /\ header'[r] = h
        /\ \A q \in Invocations \ {r} : header'[q] = header[q]
    BY <1>0, <2>1
  <2> QED BY <1>0, <1>h, <1>e, <2>1, <2>5, <2>6, MoveOwn DEF Labels, BeforeSend
<1>6. CASE TxLanded(r)
  <2>1. /\ pc[r] \in {"updating", "relaying"} /\ txResult[r] # None /\ Kept /\ Elsewhere
        /\ Goto(r, IF txResult[r] = "error" THEN "failed"
                   ELSE IF pc[r] = "updating" THEN "relay" ELSE "done")
    BY <1>6 DEF TxLanded
  <2>2. simMempool = <<>> \/ simMempool[1].by # r
    BY <2>1 DEF Own, PendingSound
  <2>3. CASE txResult[r] = "error"
    BY <1>f, <2>1, <2>3
  <2>4. CASE txResult[r] = "ok" /\ pc[r] = "updating"
    <3>1. Goto(r, "relay")
      BY <2>1, <2>4
    <3> QED BY <1>0, <1>e, <2>1, <2>2, <2>4, <3>1, MoveOwn DEF Labels, BeforeSend
  <2>5. CASE txResult[r] = "ok" /\ pc[r] = "relaying"
    <3>1. Goto(r, "done") /\ r \in packetReceipts
      BY <2>1, <2>5 DEF Own, PendingSound
    <3> QED BY <1>0, <1>e, <2>1, <2>2, <2>5, <3>1, MoveOwn DEF Labels, BeforeSend
  <2> QED BY <1>0, <2>1, <2>3, <2>4, <2>5 DEF None
<1>7. CASE GiveUp(r)
  BY <1>f, <1>7 DEF GiveUp
<1> QED BY <1>1, <1>2, <1>3, <1>4, <1>5, <1>6, <1>7

\* approve and sendTransfer go to the roll-up's mempool, sendTransfer once.
LEMMA SubmitOwn ==
    ASSUME Own, ClientInv, NEW r \in Invocations, Approve(r) \/ SendTransferBackMsg(r)
    PROVE  Own'
<1>1. PICK kind \in {"approve", "sendTransfer"}, l \in {"approving", "sending"} :
        /\ SubmitEth(r, kind) /\ Goto(r, l)
        /\ UNCHANGED <<evmTransferBlockNumber, provedHeight, header>>
        /\ kind = "sendTransfer" => l = "sending" /\ pc[r] = "send"
        /\ l = "approving" => pc[r] = "approve"
        /\ clientState.exists
        /\ pc[r] \in {"approve", "send"}
  <2>1. CASE Approve(r)
    BY <2>1 DEF Approve
  <2>2. CASE SendTransferBackMsg(r)
    <3>1. clientState.exists
      BY <2>2 DEF SendTransferBackMsg, Own, HeightsKnown
    <3> QED BY <2>2, <3>1 DEF SendTransferBackMsg
  <2> QED BY <2>1, <2>2
<1> DEFINE tx == [kind |-> kind, by |-> r]
<1>2. /\ UNCHANGED <<evmChain, clientState, consensusStates, Committed>>
      /\ UNCHANGED <<allowance, supply, simMempool, txResult, packetReceipts, escrow>>
      /\ UNCHANGED <<evmTransferBlockNumber, provedHeight, header>>
      /\ ethMempool' = Append(ethMempool, tx)
      /\ receipt' = [receipt EXCEPT ![r] = NoReceipt]
  BY <1>1 DEF SubmitEth, lcVars, simVars, Committed, LC!LatestRoot
<1>3. /\ pc' \in [Invocations -> Labels] /\ pc'[r] = l
      /\ \A q \in Invocations \ {r} : pc'[q] = pc[q]
  BY <1>1 DEF Own, TypeOK, Goto, Labels
<1>4. /\ receipt' \in [Invocations -> Receipts] /\ receipt'[r].status = "pending"
      /\ \A q \in Invocations \ {r} : receipt'[q] = receipt[q]
  BY <1>2 DEF Own, TypeOK, Receipts, NoReceipt
<1>5. tx \in EthTxs /\ tx.kind = kind /\ tx.by = r
  BY <1>1 DEF EthTxs
<1> HIDE DEF tx
<1> DEFINE n == Len(ethMempool)
<1>6. ethMempool \in Seq(EthTxs) /\ n \in Nat
  BY DEF Own, TypeOK
<1>7. /\ ethMempool' \in Seq(EthTxs) /\ Len(ethMempool') = n + 1
      /\ ethMempool'[n + 1] = tx
      /\ \A i \in 1..n : ethMempool'[i] = ethMempool[i]
  BY <1>2, <1>5, <1>6
<1>8. TypeOK'
  BY <1>2, <1>3, <1>4, <1>7 DEF Own, TypeOK
<1>9. BurnOnce'
  <2>1. \A i \in 1..n : ethMempool[i].by \in Invocations
    <3>1. \A i \in 1..n : ethMempool[i] \in EthTxs
      BY <1>6, ElementOfSeq
    <3> QED BY <3>1 DEF EthTxs
  <2>2. /\ \A i \in 1..n : ethMempool[i].kind = "sendTransfer" =>
              pc[ethMempool[i].by] \notin BeforeSend /\ ethMempool[i].by \notin Committed
        /\ \A i, j \in 1..n :
              /\ ethMempool[i].kind = "sendTransfer" /\ ethMempool[j].kind = "sendTransfer"
              /\ ethMempool[i].by = ethMempool[j].by
              => i = j
        /\ \A q \in Invocations : pc[q] \in BeforeSend => q \notin Committed
    BY DEF Own, BurnOnce
  <2> HIDE DEF n
  <2>3. \A i \in 1..(n + 1) : i \in 1..n \/ i = n + 1
    BY <1>6
  <2>4. pc[r] \in BeforeSend
    BY <1>1 DEF BeforeSend
  <2>5. \A q \in Invocations : pc'[q] \in BeforeSend => pc[q] \in BeforeSend
    BY <1>3, <2>4
  <2>6. kind = "sendTransfer" => pc'[r] \notin BeforeSend
    BY <1>1, <1>3 DEF BeforeSend
  <2>7. ASSUME NEW i \in 1..(n + 1), ethMempool'[i].kind = "sendTransfer"
        PROVE  pc'[ethMempool'[i].by] \notin BeforeSend /\ ethMempool'[i].by \notin Committed
    <3>1. CASE i \in 1..n
      BY <1>7, <2>1, <2>2, <2>5, <2>7, <3>1
    <3>2. CASE i = n + 1
      BY <1>5, <1>7, <2>2, <2>4, <2>6, <2>7, <3>2
    <3> QED BY <2>3, <3>1, <3>2
  <2>8. ASSUME NEW i \in 1..(n + 1), NEW j \in 1..(n + 1), ethMempool'[i].kind = "sendTransfer",
               ethMempool'[j].kind = "sendTransfer", ethMempool'[i].by = ethMempool'[j].by
        PROVE  i = j
    <3>1. \A k \in 1..n : ethMempool[k].kind = "sendTransfer" => ethMempool[k].by # r
      BY <2>2, <2>4
    <3>2. CASE i \in 1..n /\ j \in 1..n
      BY <1>7, <2>2, <2>8, <3>2
    <3>3. CASE i \in 1..n /\ j = n + 1
      BY <1>5, <1>7, <2>8, <3>1, <3>3
    <3>4. CASE i = n + 1 /\ j \in 1..n
      BY <1>5, <1>7, <2>8, <3>1, <3>4
    <3> QED BY <2>3, <3>2, <3>3, <3>4
  <2>9. \A i \in 1..Len(ethMempool') :
          ethMempool'[i].kind = "sendTransfer" =>
              pc'[ethMempool'[i].by] \notin BeforeSend /\ ethMempool'[i].by \notin Committed'
    BY <1>2, <1>7, <2>7
  <2>10. \A i, j \in 1..Len(ethMempool') :
          /\ ethMempool'[i].kind = "sendTransfer" /\ ethMempool'[j].kind = "sendTransfer"
          /\ ethMempool'[i].by = ethMempool'[j].by
          => i = j
    BY <1>7, <2>8
  <2>11. \A q \in Invocations : pc'[q] \in BeforeSend => q \notin Committed'
    BY <1>2, <2>2, <2>5
  <2> QED BY <2>9, <2>10, <2>11, Zenon DEF BurnOnce
<1>10. HeightsKnown'
  <2>1. l # "update" /\ l \notin {"proveLatest", "proveTrusted", "getHeader"}
    BY <1>1
  <2> QED BY <1>1, <1>2, <1>3, <1>4, <2>1 DEF Own, HeightsKnown
<1>11. PendingSound'
  BY <1>1, <1>2, <1>3 DEF Own, PendingSound
<1>12. Conservation' /\ UnlockedWasBurnt'
  BY <1>2 DEF Own, Conservation, UnlockedWasBurnt
<1>13. DoneMeansUnlocked'
  BY <1>1, <1>2, <1>3 DEF Own, DoneMeansUnlocked
<1> QED BY <1>8, <1>9, <1>10, <1>11, <1>12, <1>13 DEF Own

\* The update and the receive messages go to SimApp's mempool if nothing is pending.
LEMMA BroadcastOwn ==
    ASSUME Own, ClientInv, NEW r \in Invocations,
           UpdateGroth16LightClient(r) \/ RelayFromEvmToSimapp(r)
    PROVE  Own'
<1> DEFINE Sends(tx, l) ==
        /\ Broadcast(r, tx, l) /\ tx.by = r
        /\ l = "updating" => tx.kind = "update"
        /\ l = "relaying" => tx.kind = "recv"
        /\ tx.kind = "update" => IsRelayed(tx.header, evmChain)
        /\ pc[r] \in {"update", "relay"}
<1>0. \E tx : \E l \in {"updating", "relaying"} : Sends(tx, l)
  <2>1. CASE UpdateGroth16LightClient(r)
    <3> DEFINE tx == [kind |-> "update", by |-> r, header |-> header[r]]
    <3>1. Broadcast(r, tx, "updating") /\ pc[r] = "update" /\ IsRelayed(header[r], evmChain)
      BY <2>1 DEF UpdateGroth16LightClient, Own, HeightsKnown
    <3>2. tx.by = r /\ tx.kind = "update" /\ tx.header = header[r]
      OBVIOUS
    <3> HIDE DEF tx
    <3> QED BY <3>1, <3>2
  <2>2. CASE RelayFromEvmToSimapp(r)
    <3> DEFINE n == evmTransferBlockNumber[r]
               tx == [kind |-> "recv", by |-> r, proofHeight |-> n, proofRoot |-> GetMPTProof(n)]
    <3>1. Broadcast(r, tx, "relaying") /\ pc[r] = "relay"
      BY <2>2 DEF RelayFromEvmToSimapp
    <3>2. tx.by = r /\ tx.kind = "recv"
      OBVIOUS
    <3> HIDE DEF tx
    <3> QED BY <3>1, <3>2
  <2> QED BY <2>1, <2>2
<1>1. PICK tx : \E l \in {"updating", "relaying"} : Sends(tx, l)
  BY <1>0
<1>l. PICK l \in {"updating", "relaying"} : Sends(tx, l)
  BY <1>1
<1>2. /\ UNCHANGED <<evmChain, clientState, consensusStates, Committed>>
      /\ UNCHANGED <<ethMempool, receipt, allowance, supply, packetReceipts, escrow>>
      /\ UNCHANGED <<evmTransferBlockNumber, provedHeight, header>>
  BY <1>l DEF Broadcast, lcVars, ethVars, Committed, LC!LatestRoot
<1>3. CASE simMempool # <<>>
  <2>1. Goto(r, "failed") /\ UNCHANGED <<lcVars, ethVars, simVars>>
    BY <1>l, <1>3 DEF Broadcast, simVars
  <2>2. /\ evmTransferBlockNumber \in [Invocations -> Nat]
        /\ provedHeight \in [Invocations -> Nat] /\ DOMAIN header = Invocations
    BY DEF Own, TypeOK
  <2> QED BY <1>2, <2>1, <2>2, MoveOwn DEF Labels, BeforeSend
<1>4. CASE simMempool = <<>>
  <2>1. simMempool' = <<tx>> /\ txResult' = [txResult EXCEPT ![r] = None] /\ Goto(r, l)
    BY <1>l, <1>4 DEF Broadcast
  <2>2. /\ pc' \in [Invocations -> Labels] /\ pc'[r] = l
        /\ \A q \in Invocations \ {r} : pc'[q] = pc[q]
    BY <2>1 DEF Own, TypeOK, Goto, Labels
  <2>3. /\ txResult' \in [Invocations -> {None, "ok", "error"}] /\ txResult'[r] = None
        /\ \A q \in Invocations \ {r} : txResult'[q] = txResult[q]
    BY <2>1 DEF Own, TypeOK
  <2>4. TypeOK'
    BY <1>2, <2>2, <2>3 DEF Own, TypeOK
  <2>5. \A q \in Invocations : pc'[q] \in BeforeSend => pc[q] \in BeforeSend
    BY <2>2 DEF BeforeSend
  <2>6. BurnOnce'
    <3>1. \A i \in 1..Len(ethMempool) : ethMempool[i].by \in Invocations
      <4>1. \A i \in 1..Len(ethMempool) : ethMempool[i] \in EthTxs
        BY ElementOfSeq DEF Own, TypeOK
      <4> QED BY <4>1 DEF EthTxs
    <3>2. /\ \A i \in 1..Len(ethMempool) :
               ethMempool[i].kind = "sendTransfer" => pc'[ethMempool[i].by] \notin BeforeSend
          /\ \A q \in Invocations : pc'[q] \in BeforeSend => q \notin Committed
      BY <2>5, <3>1 DEF Own, BurnOnce
    <3> QED BY <1>2, <3>2 DEF Own, BurnOnce
  <2>7. HeightsKnown'
    BY <1>l, <1>2, <2>2 DEF Own, HeightsKnown
  <2>8. PendingSound'
    <3>1. simMempool'[1] = tx
      BY <2>1
    <3>2. \A q \in Invocations : pc'[q] = "relaying" /\ txResult'[q] = "ok" => q \in packetReceipts
      BY <2>2, <2>3 DEF Own, PendingSound, None
    <3> QED BY <1>l, <1>2, <2>2, <2>3, <3>1, <3>2 DEF PendingSound
  <2>9. Conservation' /\ UnlockedWasBurnt'
    BY <1>2 DEF Own, Conservation, UnlockedWasBurnt
  <2>10. DoneMeansUnlocked'
    BY <1>l, <1>2, <2>2 DEF Own, DoneMeansUnlocked
  <2> QED BY <2>4, <2>6, <2>7, <2>8, <2>9, <2>10 DEF Own
<1> QED BY <1>3, <1>4

\* The initial states: nothing was burnt, all is in escrow.
LEMMA InitOwn == Init => Own
<1> SUFFICES ASSUME Init PROVE Own
  OBVIOUS
<1>1. Committed = {} /\ evmChain = <<>> /\ Len(evmChain) = 0 /\ packetReceipts = {}
      /\ ~ clientState.exists
  BY DEF Init, Committed, LC!Init, LC!LatestRoot, LC!GenesisRoot
<1>2. Escrowed \in Nat /\ MaxEvmHeight \in Nat
  BY TransferAssumption
<1>3. TypeOK
  <2>1. ethMempool \in Seq(EthTxs)
    BY DEF Init
  <2>2. NoReceipt \in Receipts /\ "approve" \in Labels /\ 0 \in Nat
    BY DEF Receipts, NoReceipt, Labels
  <2>3. /\ receipt \in [Invocations -> Receipts] /\ pc \in [Invocations -> Labels]
        /\ txResult \in [Invocations -> {None, "ok", "error"}]
    BY <2>2 DEF Init
  <2>4. /\ evmTransferBlockNumber \in [Invocations -> Nat]
        /\ provedHeight \in [Invocations -> Nat] /\ DOMAIN header = Invocations
    BY DEF Init
  <2>5. allowance \in {0, 1} /\ supply \in Nat /\ escrow \in Nat
    BY <1>2 DEF Init
  <2> QED BY <1>1, <2>1, <2>3, <2>4, <2>5 DEF TypeOK
<1>4. BurnOnce
  <2>1. Len(ethMempool) = 0
    BY DEF Init
  <2> QED BY <1>1, <2>1 DEF BurnOnce
<1>5. HeightsKnown
  BY <1>1, <1>2 DEF Init, HeightsKnown, NoReceipt
<1>6. PendingSound
  BY DEF Init, PendingSound
<1>7. Conservation
  <2>1. Cardinality(Committed \ packetReceipts) = 0
    BY <1>1, FS_EmptySet
  <2> QED BY <1>2, <2>1 DEF Init, Conservation
<1>8. UnlockedWasBurnt /\ DoneMeansUnlocked
  BY <1>1 DEF Init, UnlockedWasBurnt, DoneMeansUnlocked
<1> QED BY <1>3, <1>4, <1>5, <1>6, <1>7, <1>8 DEF Own

\* Every step of the transfer is a step of the light client's specification or
\* leaves the client alone: the relayer sends no header but those it allows for.
LEMMA StepIsClientStep ==
    ASSUME Own, ClientInv, [Next]_vars
    PROVE  [LC!Next]_(LC!vars)
<1>1. ASSUME NEW k \in 0..Len(ethMempool), NEW changed \in BOOLEAN, EvmBlock(k, changed)
      PROVE  LC!Next
  <2>1. AfterTxs(k).sent \in SUBSET Invocations
    <3>1. RunSound(AfterTxs(k), k)
      BY AfterTxsSound DEF Own, ClientInv
    <3> QED BY <3>1 DEF RunSound, EthStates
  <2>2. LC!ProduceBlock(AfterTxs(k).sent, changed)
    BY <1>1 DEF EvmBlock
  <2> QED BY <2>1, <2>2 DEF LC!Next
<1>2. CASE CreateClient
  BY <1>2 DEF CreateClient, LC!Next
<1>3. CASE UNCHANGED lcVars
  BY <1>3 DEF lcVars, LC!vars, LC!store
<1>4. CASE DeliverTx
  <2> DEFINE tx == simMempool[1]
  <2>1. CASE tx.kind = "update" /\ LC!UpdateClient(tx.header)
    <3>1. IsRelayed(tx.header, evmChain)
      BY <1>4, <2>1 DEF DeliverTx, Own, PendingSound
    <3>2. PICK t \in 1..MaxEvmHeight, n \in DOMAIN evmChain, b \in DOMAIN evmChain :
            b <= n /\ tx.header = LC!RelayedHeader(t, n, b)
      BY <3>1 DEF IsRelayed, LC!RelayedHeader
    <3>3. LC!UpdateClient(LC!RelayedHeader(t, n, b))
      BY <2>1, <3>2
    <3> QED BY <3>2, <3>3 DEF LC!Next
  <2>2. CASE ~ (tx.kind = "update" /\ LC!UpdateClient(tx.header))
    <3>1. UNCHANGED lcVars
      BY <1>4, <2>2 DEF DeliverTx
    <3> QED BY <1>3, <3>1
  <2> QED BY <2>1, <2>2
<1>5. CASE \E r \in Invocations, h \in DOMAIN evmChain : OtherRelayer(r, h)
  BY <1>3, <1>5 DEF OtherRelayer
<1>6. ASSUME NEW r \in Invocations, Step(r) \/ GiveUp(r)
      PROVE  UNCHANGED lcVars
  BY <1>6 DEF Step, GiveUp, Approve, CheckAllowance, SendTransferBackMsg, SendPacketEvent,
              ProveLatest, ProveTrusted, GetHeader, UpdateGroth16LightClient,
              RelayFromEvmToSimapp, TxLanded, SubmitEth, Broadcast
<1>7. CASE UNCHANGED vars
  BY <1>3, <1>7 DEF vars
<1>8. Len(ethMempool) \in Nat
  BY LenProperties DEF Own, TypeOK
<1>9. CASE \E changed \in BOOLEAN : EvmBlock(0, changed)
  <2>1. 0 \in 0..Len(ethMempool)
    BY <1>8
  <2> QED BY <1>1, <1>9, <2>1
<1>10. CASE IncludePending
  <2>1. PICK k \in 1..Len(ethMempool) : EvmBlock(k, TRUE)
    BY <1>10 DEF IncludePending
  <2>2. k \in 0..Len(ethMempool)
    BY <1>8
  <2> QED BY <1>1, <2>1, <2>2
<1> QED BY <1>2, <1>3, <1>4, <1>5, <1>6, <1>7, <1>9, <1>10 DEF Next

\* Every step keeps the transfer's own invariant, one case per action.
LEMMA NextOwn ==
    ASSUME Own, ClientInv, ClientKeeps, [Next]_vars
    PROVE  Own'
<1>1. Len(ethMempool) \in Nat
  BY LenProperties DEF Own, TypeOK
<1>2. CASE \E changed \in BOOLEAN : EvmBlock(0, changed)
  <2>1. 0 \in 0..Len(ethMempool)
    BY <1>1
  <2> QED BY <1>2, <2>1, EvmBlockOwn
<1>3. CASE IncludePending
  <2>1. PICK k \in 1..Len(ethMempool) : EvmBlock(k, TRUE)
    BY <1>3 DEF IncludePending
  <2>2. k \in 0..Len(ethMempool)
    BY <1>1
  <2> QED BY <2>1, <2>2, EvmBlockOwn
<1>4. CASE CreateClient
  <2>1. /\ UNCHANGED <<evmChain, ethVars, packetReceipts, escrow, runVars>>
        /\ UNCHANGED <<simMempool, txResult>>
    BY <1>4 DEF CreateClient, LC!Initialize, simVars
  <2> QED BY <2>1, ClientOnlyOwn
<1>5. CASE DeliverTx
  BY <1>5, DeliverTxOwn
<1>6. CASE \E r \in Invocations, h \in DOMAIN evmChain : OtherRelayer(r, h)
  BY <1>6, OtherRelayerOwn
<1>7. ASSUME NEW r \in Invocations, Step(r) \/ GiveUp(r)
      PROVE  Own'
  BY <1>7, MovesOwn, SubmitOwn, BroadcastOwn DEF Step
<1>8. CASE UNCHANGED vars
  <2>1. /\ UNCHANGED <<evmChain, ethVars, packetReceipts, escrow, runVars>>
        /\ UNCHANGED <<simMempool, txResult>>
    BY <1>8 DEF vars, lcVars, simVars
  <2> QED BY <2>1, ClientOnlyOwn
<1> QED BY <1>2, <1>3, <1>4, <1>5, <1>6, <1>7, <1>8 DEF Next

-----------------------------------------------------------------------------
(* The light client.                                                       *)

LCP == INSTANCE Groth16ClientProofs WITH Packets <- Invocations

\* The two instances of the client's module say the same.
LEMMA SameClient ==
    /\ LC!Init => LCP!Init
    /\ [LC!Next]_(LC!vars) => [LCP!Next]_(LCP!vars)
BY DEF LC!Init, LCP!Init, LC!Next, LCP!Next, LC!vars, LCP!vars, LC!store, LCP!store,
       LC!ProduceBlock, LCP!ProduceBlock, LC!Tick, LCP!Tick, LC!LatestRoot, LCP!LatestRoot,
       LC!GenesisRoot, LCP!GenesisRoot, LC!Initialize, LCP!Initialize, LC!UpdateClient,
       LCP!UpdateClient, LC!RelayedHeader, LCP!RelayedHeader, LC!UpdateState, LCP!UpdateState,
       LC!VerifyClientMessage, LCP!VerifyClientMessage, LC!GetConsensusStateFound,
       LCP!GetConsensusStateFound, LC!SetClientState, LCP!SetClientState, LC!SetConsensusState,
       LCP!SetConsensusState, LC!SetConsensusMetadata, LCP!SetConsensusMetadata, LC!Set, LCP!Set

\* What the transfer uses of the client's invariant.
LEMMA ClientFacts ==
    ASSUME LCP!IInv
    PROVE  ClientInv
<1>1. evmChain \in Seq(LCP!Blocks)
  BY DEF LCP!IInv, LCP!TypeOK
<1>2. Len(evmChain) \in Nat /\ DOMAIN evmChain = 1..Len(evmChain)
  BY <1>1
<1>3. \A i \in 1..Len(evmChain) : evmChain[i].root.commitments \in SUBSET Invocations
  <2>1. \A i \in 1..Len(evmChain) : evmChain[i] \in LCP!Blocks
    BY <1>1, ElementOfSeq
  <2> QED BY <2>1 DEF LCP!Blocks, LCP!Roots
<1>4. /\ Committed \in SUBSET Invocations
      /\ \A i \in 1..Len(evmChain) : evmChain[i].root.commitments \subseteq Committed
  <2>1. CASE evmChain = <<>>
    <3>1. Committed = {} /\ Len(evmChain) = 0
      BY <2>1 DEF Committed, LC!LatestRoot, LC!GenesisRoot
    <3> QED BY <3>1
  <2>2. CASE evmChain # <<>>
    <3>1. Committed = evmChain[Len(evmChain)].root.commitments
      BY <2>2 DEF Committed, LC!LatestRoot
    <3>2. Len(evmChain) \in Nat \ {0}
      BY <1>1, <2>2, EmptySeq, Zenon
    <3>3. /\ Len(evmChain) \in 1..Len(evmChain)
          /\ \A i \in 1..Len(evmChain) : i <= Len(evmChain)
      BY <1>2, <3>2
    <3>4. \A i, j \in 1..Len(evmChain) : i <= j =>
            evmChain[i].root.commitments \subseteq evmChain[j].root.commitments
      BY <1>2 DEF LCP!IInv, LCP!EvmMonotone
    <3> QED BY <1>3, <3>1, <3>3, <3>4
  <2> QED BY <2>1, <2>2
<1>5. \A h \in DOMAIN consensusStates :
         /\ h \in 1..Len(evmChain)
         /\ consensusStates[h].StateRoot = evmChain[h].root
  BY <1>2 DEF LCP!IInv, LCP!RootsMatchEvm
<1>6. clientState.exists => clientState.LatestHeight \in DOMAIN consensusStates
  BY DEF LCP!IInv, LCP!LatestHeightTrusted
<1>7. LC!Blocks = LCP!Blocks
  BY DEF LC!Blocks, LCP!Blocks, LC!Roots, LCP!Roots
<1> QED BY <1>1, <1>2, <1>4, <1>5, <1>6, <1>7 DEF ClientInv

\* The same in the next state.
LEMMA ClientFactsNext == LCP!IInv' => ClientInv'
<1>1. LCP!IInv => ClientInv
  BY ClientFacts
<1> QED BY <1>1, PTL

\* A step of the client keeps its invariant, blocks, trusted roots and existence.
LEMMA ClientStep ==
    ASSUME LCP!IInv, [LC!Next]_(LC!vars)
    PROVE  LCP!IInv' /\ ClientKeeps
<1>1. [LCP!Next]_(LCP!vars)
  BY SameClient
<1>2. LCP!IInv'
  BY <1>1, LCP!NextIInv, TransferAssumption, Zenon
<1>3. \A h \in DOMAIN consensusStates :
         /\ h \in DOMAIN consensusStates'
         /\ consensusStates'[h].StateRoot = consensusStates[h].StateRoot
  BY <1>1, LCP!StepKeepsRoots, TransferAssumption, Zenon
<1>4. /\ Len(evmChain) <= Len(evmChain')
      /\ \A i \in 1..Len(evmChain) : evmChain'[i] = evmChain[i]
      /\ clientState.exists => clientState'.exists
  <2>1. evmChain \in Seq(LC!Blocks) /\ Len(evmChain) \in Nat
    BY ClientFacts DEF ClientInv
  <2>2. ASSUME NEW ps \in SUBSET Invocations, NEW changed \in BOOLEAN,
               LC!ProduceBlock(ps, changed)
        PROVE  /\ Len(evmChain) <= Len(evmChain')
               /\ \A i \in 1..Len(evmChain) : evmChain'[i] = evmChain[i]
               /\ clientState.exists => clientState'.exists
    <3>1. PICK b : evmChain' = Append(evmChain, b)
      BY <2>2 DEF LC!ProduceBlock
    <3>2. UNCHANGED clientState
      BY <2>2 DEF LC!ProduceBlock, LC!store
    <3> QED BY <2>1, <3>1, <3>2
  <2>3. CASE UNCHANGED evmChain /\ (UNCHANGED clientState \/ clientState'.exists)
    BY <2>1, <2>3
  <2>4. ASSUME NEW height, LC!Initialize(height)
        PROVE  UNCHANGED evmChain /\ clientState'.exists
    BY <2>4 DEF LC!Initialize, LC!SetClientState
  <2>5. ASSUME NEW h, LC!UpdateClient(h)
        PROVE  UNCHANGED evmChain /\ clientState'.exists
    BY <2>5 DEF LC!UpdateClient, LC!UpdateState, LC!SetClientState
  <2> QED BY <2>2, <2>3, <2>4, <2>5 DEF LC!Next, LC!Tick, LC!vars, LC!store
<1>5. ClientInv'
  BY <1>2, ClientFactsNext
<1> QED BY <1>2, <1>3, <1>4, <1>5 DEF ClientKeeps

-----------------------------------------------------------------------------
(* The results.                                                            *)

\* The inductive invariant: the light client's and the transfer's own.
IInv == LCP!IInv /\ Own

\* The initial states have it.
LEMMA InitIInv == Init => IInv
<1>1. Init => LCP!Init
  BY SameClient DEF Init
<1>2. LCP!Init => LCP!IInv
  BY LCP!InitIInv, TransferAssumption, Zenon
<1> QED BY <1>1, <1>2, InitOwn DEF IInv

\* Every step keeps it.
LEMMA NextIInv == IInv /\ [Next]_vars => IInv' /\ [LC!Next]_(LC!vars)
<1> SUFFICES ASSUME IInv, [Next]_vars PROVE IInv' /\ [LC!Next]_(LC!vars)
  OBVIOUS
<1>1. Own /\ LCP!IInv /\ ClientInv
  BY ClientFacts DEF IInv
<1>2. [LC!Next]_(LC!vars)
  BY <1>1, StepIsClientStep
<1>3. LCP!IInv' /\ ClientKeeps
  BY <1>1, <1>2, ClientStep
<1> QED BY <1>1, <1>2, <1>3, NextOwn DEF IInv

\* Every reachable state has it.
THEOREM Invariance == Spec => []IInv
BY InitIInv, NextIInv, PTL DEF Spec

\* The escrow backs the EVM supply and the burnt units on their way back, whatever
\* the invocations, the other relayer and the two chains do, in any order.
THEOREM EscrowConserved == Spec => []Conservation
BY Invariance, PTL DEF IInv, Own

\* SimApp unlocks nothing that was not burnt and is not under a trusted root.
THEOREM UnlockingIsBacked == Spec => []UnlockedWasBurnt
BY Invariance, PTL DEF IInv, Own

\* transferBack() ends without an error only after its packet was received.
THEOREM SuccessMeansUnlocked == Spec => []DoneMeansUnlocked
BY Invariance, PTL DEF IInv, Own

\* The transfer uses the light client as its own specification allows for, so what
\* is proved of Groth16Client holds of the client the transfer runs against.
THEOREM ClientRefinement == Spec => LightClientSpec
<1>1. Init => LC!Init
  BY DEF Init
<1> QED BY <1>1, Invariance, NextIInv, PTL DEF Spec, LightClientSpec, LC!Spec

-----------------------------------------------------------------------------
(* The abstract transfer.                                                  *)

\* Units leave the supply on the roll-up and are released from SimApp's escrow.
PT == INSTANCE PacketTransfer
        WITH Packets <- Invocations, source <- supply, destination <- Escrowed - escrow,
             sent <- Committed, delivered <- packetReceipts

\* The abstract transfer counts as this module does.
LEMMA SameCount == \A S : PT!Cardinality(S) = Cardinality(S)
BY DEF PT!Cardinality, Cardinality

\* A block of the roll-up burns a unit for each packet it commits, none of which was
\* committed before.
LEMMA EvmBlockSends ==
    ASSUME Own, ClientInv, NEW k \in 0..Len(ethMempool), NEW changed \in BOOLEAN,
           EvmBlock(k, changed)
    PROVE  PT!Next \/ UNCHANGED PT!vars
<1> DEFINE st == AfterTxs(k)
<1>1. /\ LC!ProduceBlock(st.sent, changed) /\ supply' = st.supply
      /\ UNCHANGED <<packetReceipts, escrow>>
  BY DEF EvmBlock, simVars
<1>2. TypeOK /\ BurnOnce /\ Len(evmChain) \in Nat
  BY DEF Own, ClientInv
<1>3. RunSound(st, k)
  BY <1>2, AfterTxsSound
<1> HIDE DEF st
<1>4. /\ st.sent \in SUBSET Invocations /\ st.supply \in Nat /\ supply \in Nat
      /\ st.supply + Cardinality(st.sent) = supply /\ Cardinality(st.sent) \in Nat
  BY <1>2, <1>3, PacketsFinite DEF RunSound, EthStates, TypeOK
<1>5. Committed' = Committed \cup st.sent
  BY <1>1, <1>4, BlockCommits
<1>6. st.sent \cap Committed = {}
  <2>1. ASSUME NEW r \in st.sent PROVE r \notin Committed
    <3>1. PICK j \in 1..k : ethMempool[j].kind = "sendTransfer" /\ ethMempool[j].by = r
      BY <1>3 DEF RunSound
    <3>2. j \in 1..Len(ethMempool)
      <4>1. Len(ethMempool) \in Nat
        BY <1>2, LenProperties DEF TypeOK
      <4> QED BY <4>1
    <3> QED BY <1>2, <3>1, <3>2 DEF BurnOnce
  <2> QED BY <2>1
<1>7. CASE st.sent = {}
  <2>1. Cardinality(st.sent) = 0
    BY <1>7, FS_EmptySet
  <2>2. Committed' = Committed /\ supply' = supply
    BY <1>1, <1>4, <1>5, <1>7, <2>1
  <2> QED BY <1>1, <2>2 DEF PT!vars
<1>8. CASE st.sent # {}
  <2>1. PT!Cardinality(st.sent) = Cardinality(st.sent)
    BY SameCount
  <2>2. supply >= Cardinality(st.sent) /\ supply' = supply - Cardinality(st.sent)
    BY <1>1, <1>4
  <2>3. PT!Send(st.sent)
    BY <1>1, <1>5, <1>6, <1>8, <2>1, <2>2 DEF PT!Send
  <2> QED BY <1>4, <2>3 DEF PT!Next
<1> QED BY <1>7, <1>8

\* RecvPacket, whoever relays, releases a unit for a packet that was committed and not
\* received before, or changes nothing.
LEMMA RecvPacketReceives ==
    ASSUME Own, ClientInv, NEW packet \in Invocations, NEW h, NEW root,
           RecvPacket(packet, h, root), UNCHANGED <<lcVars, supply>>
    PROVE  PT!Next \/ UNCHANGED PT!vars
<1>1. UNCHANGED <<supply, Committed>>
  BY DEF lcVars, Committed, LC!LatestRoot
<1>2. CASE packet \notin packetReceipts /\ RecvSucceeds(packet, h, root)
  <2>1. packetReceipts' = packetReceipts \cup {packet} /\ escrow' = escrow - 1
    BY <1>2 DEF RecvPacket
  <2>2. packet \in Committed
    BY <1>1, <2>1, RecvPacketLemma DEF UnlockedWasBurnt
  <2>3. Escrowed - escrow' = (Escrowed - escrow) + 1
    BY <2>1, TransferAssumption DEF Own, TypeOK
  <2>4. PT!Receive(packet)
    BY <1>1, <1>2, <2>1, <2>2, <2>3 DEF PT!Receive
  <2> QED BY <2>4 DEF PT!Next
<1>3. CASE ~ (packet \notin packetReceipts /\ RecvSucceeds(packet, h, root))
  <2>1. UNCHANGED <<packetReceipts, escrow>>
    BY <1>3 DEF RecvPacket
  <2> QED BY <1>1, <2>1 DEF PT!vars
<1> QED BY <1>2, <1>3

\* Every step is a step of the abstract transfer or invisible to it.
LEMMA StepIsPacketStep ==
    ASSUME Own, ClientInv, [Next]_vars
    PROVE  PT!Next \/ UNCHANGED PT!vars
<1>0. ASSUME UNCHANGED <<evmChain, supply, packetReceipts, escrow>>
      PROVE  UNCHANGED PT!vars
  BY <1>0 DEF PT!vars, Committed, LC!LatestRoot
<1>1. Len(ethMempool) \in Nat
  BY LenProperties DEF Own, TypeOK
<1>2. CASE \E changed \in BOOLEAN : EvmBlock(0, changed)
  <2>1. 0 \in 0..Len(ethMempool)
    BY <1>1
  <2> QED BY <1>2, <2>1, EvmBlockSends
<1>3. CASE IncludePending
  <2>1. PICK k \in 1..Len(ethMempool) : EvmBlock(k, TRUE)
    BY <1>3 DEF IncludePending
  <2>2. k \in 0..Len(ethMempool)
    BY <1>1
  <2> QED BY <2>1, <2>2, EvmBlockSends
<1>4. CASE CreateClient
  BY <1>0, <1>4 DEF CreateClient, LC!Initialize, ethVars, simVars
<1>5. CASE DeliverTx
  <2> DEFINE tx == simMempool[1]
  <2>1. simMempool # <<>> /\ UNCHANGED supply
    BY <1>5 DEF DeliverTx, ethVars
  <2>2. CASE tx.kind = "update"
    <3>1. UNCHANGED <<packetReceipts, escrow, evmChain>>
      BY <1>5, <2>2 DEF DeliverTx, LC!UpdateClient, lcVars
    <3> QED BY <1>0, <2>1, <3>1
  <2>3. CASE tx.kind # "update"
    <3>1. /\ RecvPacket(tx.by, tx.proofHeight, tx.proofRoot)
          /\ UNCHANGED lcVars
      BY <1>5, <2>3 DEF DeliverTx
    <3>2. tx.by \in Invocations
      BY <2>1 DEF Own, PendingSound
    <3> QED BY <2>1, <3>1, <3>2, RecvPacketReceives
  <2> QED BY <2>2, <2>3
<1>6. ASSUME NEW r \in Invocations, NEW h \in DOMAIN evmChain, OtherRelayer(r, h)
      PROVE  PT!Next \/ UNCHANGED PT!vars
  <2>1. RecvPacket(r, h, evmChain[h].root) /\ UNCHANGED <<lcVars, supply>>
    BY <1>6 DEF OtherRelayer, ethVars
  <2> QED BY <2>1, RecvPacketReceives
<1>7. ASSUME NEW r \in Invocations, Step(r) \/ GiveUp(r)
      PROVE  UNCHANGED PT!vars
  <2>1. UNCHANGED <<evmChain, supply, packetReceipts, escrow>>
    BY <1>7 DEF Step, GiveUp, Approve, CheckAllowance, SendTransferBackMsg, SendPacketEvent,
                ProveLatest, ProveTrusted, GetHeader, UpdateGroth16LightClient,
                RelayFromEvmToSimapp, TxLanded, SubmitEth, Broadcast, lcVars, ethVars, simVars
  <2> QED BY <1>0, <2>1
<1>8. CASE UNCHANGED vars
  BY <1>0, <1>8 DEF vars, lcVars, ethVars, simVars
<1> QED BY <1>2, <1>3, <1>4, <1>5, <1>6, <1>7, <1>8 DEF Next

\* Transfers back implement the abstract transfer: whatever commands, relayers and
\* blocks do, a unit is burnt with each packet, and released from the escrow once,
\* when SimApp receives the packet.
THEOREM TransfersBackOnce == Spec => PT!Spec
<1>1. Init => PT!Init
  <2> SUFFICES ASSUME Init PROVE PT!Init
    OBVIOUS
  <2>1. Committed = {} /\ packetReceipts = {}
    BY DEF Init, Committed, LC!Init, LC!LatestRoot, LC!GenesisRoot
  <2>2. supply \in Nat /\ Escrowed - escrow = 0
    BY TransferAssumption DEF Init
  <2> QED BY <2>1, <2>2 DEF PT!Init
<1>2. IInv /\ [Next]_vars => [PT!Next]_(PT!vars)
  BY ClientFacts, StepIsPacketStep DEF IInv
<1> QED BY <1>1, <1>2, Invariance, PTL DEF Spec, PT!Spec
=============================================================================
