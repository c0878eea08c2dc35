-------------------------- MODULE TransferOutProofs -------------------------
(***************************************************************************)
(* Proofs about TransferOut, for any number of concurrent transfers, any   *)
(* balance and any interleaving of the two chains with the commands.  The  *)
(* argument follows a packet: it is committed at most once, by its own     *)
(* invocation, and an invocation has at most one EVM transaction pending,  *)
(* so that the receipt it polls is that of its last transaction.           *)
(***************************************************************************)
EXTENDS TransferOut, FiniteSetTheorems, SequenceTheorems, TLAPS

Labels == {"submit", "submitting", "proveTrusted", "proveTarget", "update", "updating",
           "membership", "recv", "relaying", "done", "failed"}
Proofs == [from : Nat, to : Nat]
Memberships == [height : Nat, found : BOOLEAN]
Txs == [kind : {"update"}, by : Invocations, proof : Proofs]
         \cup [kind : {"recv"}, by : Invocations, membership : Memberships]

TypeOK ==
    /\ simHeight \in Nat
    /\ simMempool \in Seq(Invocations) /\ Len(simMempool) <= 1
    /\ DOMAIN commitments \subseteq Invocations
    /\ commitments \in [DOMAIN commitments -> Nat]
    /\ balance \in Nat /\ escrow \in Nat /\ supply \in Nat
    /\ txResult \in [Invocations -> {None, "ok", "error"}]
    /\ ethMempool \in Seq(Txs)
    /\ receipt \in [Invocations -> {None, "successful", "reverted"}]
    /\ trusted \in SUBSET Nat /\ clientHeight \in trusted
    /\ received \in SUBSET Invocations
    /\ pc \in [Invocations -> Labels]
    /\ proof \in [Invocations -> Proofs]
    /\ membership \in [Invocations -> Memberships]

\* A packet is committed once, by the MsgSendPacket that its invocation submits.
SendOnce ==
    /\ \A i \in 1..Len(simMempool) :
         /\ pc[simMempool[i]] # "submit"
         /\ simMempool[i] \notin DOMAIN commitments
         /\ txResult[simMempool[i]] = None
    /\ \A r \in Invocations :
         /\ pc[r] = "submit" => r \notin DOMAIN commitments /\ txResult[r] = None
         /\ txResult[r] = "ok" => r \in DOMAIN commitments
         /\ pc[r] \notin {"submit", "submitting", "failed"} => r \in DOMAIN commitments

\* A transaction of a command at label at, which has built the proof own and seen
\* the receipt seen; sent: the transfers that SimApp has committed.
TxSound(tx, at, own, seen, sent) ==
    /\ at \in {"updating", "relaying", "failed"}
    /\ at = "updating" => tx.kind = "update" /\ tx.proof = own /\ seen = None
    /\ at = "relaying" => tx.kind = "recv" /\ seen = None
    /\ tx.kind = "recv" /\ tx.membership.found => tx.by \in sent

\* An invocation has at most one EVM transaction pending, the one it waits for
\* unless it gave up, and nobody looks at a receipt before it is there.
PendingSound ==
    /\ \A i, j \in 1..Len(ethMempool) : ethMempool[i].by = ethMempool[j].by => i = j
    /\ \A i \in 1..Len(ethMempool) :
         LET tx == ethMempool[i]
         IN  TxSound(tx, pc[tx.by], proof[tx.by], receipt[tx.by], DOMAIN commitments)

\* What an invocation has seen succeed did happen.
ReceiptSound ==
    \A r \in Invocations :
        /\ pc[r] = "updating" /\ receipt[r] = "successful" => proof[r].to <= clientHeight
        /\ pc[r] \in {"membership", "recv", "relaying", "done"} => proof[r].to <= clientHeight
        /\ pc[r] = "relaying" /\ receipt[r] = "successful" => r \in received

MembershipSound ==
    \A r \in Invocations :
        membership[r] # NoMembership =>
            pc[r] \in {"recv", "relaying", "done", "failed"} /\ r \in DOMAIN commitments

IInv ==
    /\ TypeOK /\ SendOnce /\ PendingSound /\ ReceiptSound /\ MembershipSound
    /\ MintedIsBacked /\ DoneMeansReceived /\ MembershipAtTrustedHeader

-----------------------------------------------------------------------------
(* The initial state and the chains.                                       *)

\* The initial states have it: nothing was sent, minted or trusted.
LEMMA InitIInv == Init => IInv
<1> SUFFICES ASSUME Init PROVE IInv
  OBVIOUS
<1>1. DOMAIN commitments = {} /\ DOMAIN commitments \ received = {}
  BY DEF Init
<1>2. TypeOK
  <2>1. simMempool \in Seq(Invocations) /\ Len(simMempool) = 0
    BY DEF Init
  <2>2. ethMempool \in Seq(Txs)
    BY DEF Init
  <2>3. commitments \in [DOMAIN commitments -> Nat]
    BY DEF Init
  <2> QED BY <1>1, <2>1, <2>2, <2>3, TransferOutAssumption
          DEF Init, TypeOK, Labels, Proofs, Memberships, NoProof, NoMembership, None
<1>3. SendOnce
  BY <1>1 DEF Init, SendOnce, None
<1>4. PendingSound /\ ReceiptSound /\ MembershipSound
  BY DEF Init, PendingSound, ReceiptSound, MembershipSound
<1>5. MintedIsBacked
  BY <1>1, FS_EmptySet DEF Init, MintedIsBacked
<1>6. DoneMeansReceived /\ MembershipAtTrustedHeader
  BY DEF Init, DoneMeansReceived, MembershipAtTrustedHeader
<1> QED BY <1>2, <1>3, <1>4, <1>5, <1>6 DEF IInv

\* A set of packets is finite, and one more or one less counts.
LEMMA PacketCount ==
    ASSUME NEW S \in SUBSET Invocations
    PROVE  /\ Cardinality(S) \in Nat
           /\ \A r \in Invocations \ S : Cardinality(S \cup {r}) = Cardinality(S) + 1
           /\ \A r \in S : Cardinality(S \ {r}) = Cardinality(S) - 1
<1>1. IsFiniteSet(S)
  BY FS_Subset, TransferOutAssumption
<1> QED BY <1>1, FS_CardinalityType, FS_AddElement, FS_RemoveElement

\* A SimApp block without a transaction of the account.
LEMMA EmptySimBlockIInv ==
    ASSUME IInv, EmptySimBlock
    PROVE  IInv'
<1>1. /\ simHeight' = simHeight + 1
      /\ UNCHANGED <<simMempool, commitments, balance, escrow, txResult, ethMempool, receipt,
                     trusted, clientHeight, received, supply, pc, proof, membership>>
  BY DEF EmptySimBlock, ethVars, runVars
<1>2. TypeOK'
  BY <1>1 DEF IInv, TypeOK
<1>3. SendOnce' /\ PendingSound' /\ ReceiptSound' /\ MembershipSound'
  BY <1>1 DEF IInv, SendOnce, PendingSound, ReceiptSound, MembershipSound
<1>4. MintedIsBacked' /\ DoneMeansReceived' /\ MembershipAtTrustedHeader'
  BY <1>1 DEF IInv, MintedIsBacked, DoneMeansReceived, MembershipAtTrustedHeader
<1> QED BY <1>2, <1>3, <1>4 DEF IInv

\* The pending MsgSendPacket escrows a unit and commits its packet for the first
\* time, or changes nothing but its result.
LEMMA DeliverTxIInv ==
    ASSUME IInv, DeliverTx
    PROVE  IInv'
<1> DEFINE r == simMempool[1]
<1>1. /\ r \in Invocations /\ Len(simMempool) = 1
      /\ pc[r] # "submit" /\ r \notin DOMAIN commitments /\ txResult[r] = None
  <2>1. simMempool \in Seq(Invocations) /\ simMempool # <<>>
    BY DEF IInv, TypeOK, DeliverTx
  <2>2. Len(simMempool) = 1
    <3> DEFINE n == Len(simMempool)
    <3>1. n \in Nat \ {0}
      BY <2>1, EmptySeq, Zenon
    <3>2. n <= 1
      BY DEF IInv, TypeOK
    <3>3. n = 1
      <4> HIDE DEF n
      <4> QED BY <3>1, <3>2
    <3> QED BY <3>3
  <2>3. r \in Invocations
    BY <2>1, <2>2, ElementOfSeq
  <2> QED BY <2>2, <2>3 DEF IInv, SendOnce
<1>2. /\ simMempool' = <<>> /\ simHeight' = simHeight + 1
      /\ UNCHANGED <<ethMempool, receipt, trusted, clientHeight, received, supply, pc, proof,
                     membership>>
  BY DEF DeliverTx, ethVars, runVars
<1>3. simMempool' \in Seq(Invocations) /\ Len(simMempool') = 0
  BY <1>2
<1>4. CASE balance > 0
  <2>1. /\ commitments' = [p \in DOMAIN commitments \cup {r} |->
                              IF p = r THEN simHeight + 1 ELSE commitments[p]]
        /\ balance' = balance - 1 /\ escrow' = escrow + 1
        /\ txResult' = [txResult EXCEPT ![r] = "ok"]
    BY <1>4 DEF DeliverTx
  <2> HIDE DEF r
  <2>2. /\ DOMAIN commitments' = DOMAIN commitments \cup {r}
        /\ \A p \in DOMAIN commitments : commitments'[p] = commitments[p]
    BY <1>1, <2>1
  <2>3. TypeOK'
    <3>1. commitments' \in [DOMAIN commitments' -> Nat]
      BY <2>1 DEF IInv, TypeOK
    <3>2. balance' \in Nat /\ escrow' \in Nat /\ DOMAIN commitments' \subseteq Invocations
      BY <1>1, <1>4, <2>1, <2>2 DEF IInv, TypeOK
    <3> QED BY <1>1, <1>2, <1>3, <2>1, <3>1, <3>2 DEF IInv, TypeOK
  <2>4. SendOnce'
    BY <1>1, <1>2, <1>3, <2>1, <2>2 DEF IInv, TypeOK, SendOnce, None
  <2>5. PendingSound' /\ ReceiptSound' /\ MembershipSound'
    BY <1>2, <2>2 DEF IInv, PendingSound, TxSound, ReceiptSound, MembershipSound
  <2>6. MintedIsBacked'
    <3>1. /\ DOMAIN commitments' \ received' = (DOMAIN commitments \ received) \cup {r}
          /\ r \notin DOMAIN commitments \ received
          /\ DOMAIN commitments \ received \in SUBSET Invocations
      BY <1>1, <1>2, <2>2 DEF IInv, TypeOK, MintedIsBacked
    <3>2. Cardinality(DOMAIN commitments' \ received') = Cardinality(DOMAIN commitments \ received) + 1
      BY <1>1, <3>1, PacketCount
    <3>3. Cardinality(DOMAIN commitments \ received) \in Nat
      BY <3>1, PacketCount
    <3>4. received' \subseteq DOMAIN commitments'
      BY <1>2, <2>2 DEF IInv, MintedIsBacked
    <3>5. escrow = supply + Cardinality(DOMAIN commitments \ received) /\ supply \in Nat
      BY DEF IInv, TypeOK, MintedIsBacked
    <3>6. escrow' = supply' + Cardinality(DOMAIN commitments' \ received')
      BY <1>2, <2>1, <3>2, <3>3, <3>5
    <3> QED BY <3>4, <3>6 DEF MintedIsBacked
  <2>7. DoneMeansReceived'
    BY <1>2 DEF IInv, DoneMeansReceived
  <2>8. MembershipAtTrustedHeader'
    BY <1>2, <2>2 DEF IInv, MembershipAtTrustedHeader, MembershipSound
  <2> QED BY <2>3, <2>4, <2>5, <2>6, <2>7, <2>8 DEF IInv
<1>5. CASE ~ (balance > 0)
  <2>1. /\ txResult' = [txResult EXCEPT ![r] = "error"]
        /\ UNCHANGED <<commitments, balance, escrow>>
    BY <1>5 DEF DeliverTx
  <2> HIDE DEF r
  <2>2. TypeOK'
    BY <1>1, <1>2, <1>3, <2>1 DEF IInv, TypeOK
  <2>3. SendOnce'
    BY <1>1, <1>2, <1>3, <2>1 DEF IInv, TypeOK, SendOnce, None
  <2>4. PendingSound' /\ ReceiptSound' /\ MembershipSound'
    BY <1>2, <2>1 DEF IInv, PendingSound, ReceiptSound, MembershipSound
  <2>5. MintedIsBacked' /\ DoneMeansReceived' /\ MembershipAtTrustedHeader'
    BY <1>2, <2>1 DEF IInv, MintedIsBacked, DoneMeansReceived, MembershipAtTrustedHeader
  <2> QED BY <2>2, <2>3, <2>4, <2>5 DEF IInv
<1> QED BY <1>4, <1>5

-----------------------------------------------------------------------------
(* The roll-up.  Taking the first transaction off keeps the others.        *)

\* Without its first transaction a mempool holds the ones it held.
LEMMA MempoolTail ==
    ASSUME IInv, IncludePending
    PROVE  /\ Head(ethMempool) \in Txs /\ Head(ethMempool) = ethMempool[1]
           /\ 1 \in 1..Len(ethMempool)
           /\ Head(ethMempool).by \in Invocations
           /\ ethMempool' \in Seq(Txs)
           /\ \A i \in 1..Len(ethMempool') :
                /\ i + 1 \in 1..Len(ethMempool) /\ ethMempool'[i] = ethMempool[i + 1]
                /\ ethMempool'[i].by # Head(ethMempool).by
<1>1. ethMempool \in Seq(Txs) /\ ethMempool # <<>> /\ ethMempool' = Tail(ethMempool)
  BY DEF IInv, TypeOK, IncludePending
<1>2. Len(ethMempool) \in Nat \ {0}
  BY <1>1, EmptySeq, Zenon
<1>3. /\ Head(ethMempool) \in Txs /\ Tail(ethMempool) \in Seq(Txs)
      /\ Len(Tail(ethMempool)) = Len(ethMempool) - 1
      /\ \A i \in 1..Len(Tail(ethMempool)) : Tail(ethMempool)[i] = ethMempool[i + 1]
  BY <1>1, HeadTailProperties, Zenon
<1>4. Head(ethMempool) = ethMempool[1] /\ 1 \in 1..Len(ethMempool)
  BY <1>1, <1>2
<1>5. Head(ethMempool).by \in Invocations
  BY <1>3 DEF Txs
<1>6. ASSUME NEW i \in 1..Len(ethMempool')
      PROVE  /\ i + 1 \in 1..Len(ethMempool) /\ ethMempool'[i] = ethMempool[i + 1]
             /\ ethMempool'[i].by # Head(ethMempool).by
  <2>1. i + 1 \in 1..Len(ethMempool) /\ ethMempool'[i] = ethMempool[i + 1] /\ i + 1 # 1
    BY <1>1, <1>2, <1>3, <1>6
  <2> QED BY <1>4, <2>1 DEF IInv, PendingSound
<1> QED BY <1>1, <1>3, <1>4, <1>5, <1>6

\* The client contract's update.
LEMMA UpdateClientIInv ==
    ASSUME IInv, IncludePending, UpdateClient(Head(ethMempool))
    PROVE  IInv'
<1> DEFINE tx == Head(ethMempool)
<1>1. /\ tx \in Txs /\ tx = ethMempool[1] /\ 1 \in 1..Len(ethMempool) /\ tx.by \in Invocations
      /\ ethMempool' \in Seq(Txs)
      /\ \A i \in 1..Len(ethMempool') :
           /\ i + 1 \in 1..Len(ethMempool) /\ ethMempool'[i] = ethMempool[i + 1]
           /\ ethMempool'[i].by # tx.by
  BY MempoolTail
<1>2. /\ UNCHANGED <<simHeight, simMempool, commitments, balance, escrow, txResult, received,
                     supply, pc, proof, membership>>
      /\ tx.kind = "update"
      /\ \/ /\ trusted' = trusted \cup {tx.proof.to}
            /\ clientHeight' = IF tx.proof.to > clientHeight THEN tx.proof.to ELSE clientHeight
            /\ receipt' = [receipt EXCEPT ![tx.by] = "successful"]
         \/ /\ receipt' = [receipt EXCEPT ![tx.by] = "reverted"]
            /\ UNCHANGED <<trusted, clientHeight>>
  BY DEF IncludePending, UpdateClient, simVars, runVars
<1>3. tx.proof \in Proofs /\ tx.proof.to \in Nat
  BY <1>1, <1>2 DEF Txs, Proofs
<1>4. /\ pc[tx.by] \in {"updating", "relaying", "failed"} /\ pc[tx.by] # "relaying"
      /\ pc[tx.by] = "updating" => tx.proof = proof[tx.by]
  BY <1>1, <1>2 DEF IInv, PendingSound, TxSound
<1> HIDE DEF tx
<1>5. /\ trusted \subseteq trusted' /\ trusted' \in SUBSET Nat /\ clientHeight' \in trusted'
      /\ clientHeight \in Nat /\ clientHeight' \in Nat /\ clientHeight <= clientHeight'
      /\ receipt'[tx.by] = "successful" => tx.proof.to <= clientHeight'
  BY <1>1, <1>2, <1>3 DEF IInv, TypeOK
<1>6. /\ receipt' \in [Invocations -> {None, "successful", "reverted"}]
      /\ \A r \in Invocations \ {tx.by} : receipt'[r] = receipt[r]
  BY <1>1, <1>2 DEF IInv, TypeOK
<1>7. TypeOK'
  BY <1>1, <1>2, <1>5, <1>6 DEF IInv, TypeOK
<1>8. SendOnce' /\ MembershipSound' /\ MintedIsBacked' /\ DoneMeansReceived'
  BY <1>2 DEF IInv, SendOnce, MembershipSound, MintedIsBacked, DoneMeansReceived
<1>9. PendingSound'
  <2>1. ASSUME NEW i \in 1..Len(ethMempool'), NEW j \in 1..Len(ethMempool'),
               ethMempool'[i].by = ethMempool'[j].by
        PROVE  i = j
    <3>1. /\ i + 1 \in 1..Len(ethMempool) /\ ethMempool'[i] = ethMempool[i + 1]
          /\ j + 1 \in 1..Len(ethMempool) /\ ethMempool'[j] = ethMempool[j + 1]
      BY <1>1
    <3>2. i + 1 = j + 1
      BY <2>1, <3>1 DEF IInv, PendingSound
    <3> QED BY <3>2
  <2>2. ASSUME NEW i \in 1..Len(ethMempool')
        PROVE  /\ receipt'[ethMempool'[i].by] = receipt[ethMempool[i + 1].by]
               /\ ethMempool'[i] = ethMempool[i + 1] /\ i + 1 \in 1..Len(ethMempool)
    <3>1. ethMempool'[i] \in Txs
      BY <1>1, ElementOfSeq
    <3>2. ethMempool'[i].by \in Invocations
      BY <3>1 DEF Txs
    <3> QED BY <1>1, <1>6, <3>2
  <2> QED BY <1>2, <2>1, <2>2 DEF IInv, PendingSound
<1>10. ReceiptSound'
  <2> SUFFICES ASSUME NEW r \in Invocations
               PROVE  /\ pc[r] = "updating" /\ receipt'[r] = "successful"
                           => proof[r].to <= clientHeight'
                      /\ pc[r] \in {"membership", "recv", "relaying", "done"}
                           => proof[r].to <= clientHeight'
                      /\ pc[r] = "relaying" /\ receipt'[r] = "successful" => r \in received
    BY <1>2 DEF ReceiptSound
  <2>1. CASE r = tx.by
    BY <1>4, <1>5, <2>1
  <2>2. CASE r # tx.by
    <3>1. proof[r].to \in Nat
      BY DEF IInv, TypeOK, Proofs
    <3> QED BY <1>5, <1>6, <2>2, <3>1 DEF IInv, ReceiptSound
  <2> QED BY <2>1, <2>2
<1>11. MembershipAtTrustedHeader'
  BY <1>2, <1>5 DEF IInv, MembershipAtTrustedHeader
<1> QED BY <1>7, <1>8, <1>9, <1>10, <1>11 DEF IInv

\* The router's reception mints for a packet that is committed and was not
\* received, or mints nothing.
LEMMA RecvPacketIInv ==
    ASSUME IInv, IncludePending, RecvPacket(Head(ethMempool))
    PROVE  IInv'
<1> DEFINE tx == Head(ethMempool)
<1>1. /\ tx \in Txs /\ tx = ethMempool[1] /\ 1 \in 1..Len(ethMempool) /\ tx.by \in Invocations
      /\ ethMempool' \in Seq(Txs)
      /\ \A i \in 1..Len(ethMempool') :
           /\ i + 1 \in 1..Len(ethMempool) /\ ethMempool'[i] = ethMempool[i + 1]
           /\ ethMempool'[i].by # tx.by
  BY MempoolTail
<1>2. /\ UNCHANGED <<simHeight, simMempool, commitments, balance, escrow, txResult, trusted,
                     clientHeight, pc, proof, membership>>
      /\ tx.kind = "recv"
      /\ \/ /\ tx.by \in received \/ tx.membership.found
            /\ received' = received \cup {tx.by}
            /\ supply' = IF tx.by \in received THEN supply ELSE supply + 1
            /\ receipt' = [receipt EXCEPT ![tx.by] = "successful"]
         \/ /\ receipt' = [receipt EXCEPT ![tx.by] = "reverted"]
            /\ UNCHANGED <<received, supply>>
  BY DEF IncludePending, RecvPacket, RecvPacketSucceeds, simVars, runVars
<1>3. /\ pc[tx.by] \in {"updating", "relaying", "failed"} /\ pc[tx.by] # "updating"
      /\ tx.membership.found => tx.by \in DOMAIN commitments
  BY <1>1, <1>2 DEF IInv, PendingSound, TxSound
<1> HIDE DEF tx
<1>4. received \subseteq received' /\ received' \in SUBSET Invocations /\ supply' \in Nat
  BY <1>1, <1>2 DEF IInv, TypeOK
<1>5. /\ receipt' \in [Invocations -> {None, "successful", "reverted"}]
      /\ receipt'[tx.by] = "successful" => tx.by \in received'
      /\ \A r \in Invocations \ {tx.by} : receipt'[r] = receipt[r]
  BY <1>1, <1>2 DEF IInv, TypeOK
<1>6. TypeOK'
  BY <1>1, <1>2, <1>4, <1>5 DEF IInv, TypeOK
<1>7. SendOnce' /\ MembershipSound' /\ MembershipAtTrustedHeader'
  BY <1>2 DEF IInv, SendOnce, MembershipSound, MembershipAtTrustedHeader
<1>8. DoneMeansReceived'
  BY <1>2, <1>4 DEF IInv, DoneMeansReceived
<1>9. PendingSound'
  <2>1. ASSUME NEW i \in 1..Len(ethMempool'), NEW j \in 1..Len(ethMempool'),
               ethMempool'[i].by = ethMempool'[j].by
        PROVE  i = j
    <3>1. /\ i + 1 \in 1..Len(ethMempool) /\ ethMempool'[i] = ethMempool[i + 1]
          /\ j + 1 \in 1..Len(ethMempool) /\ ethMempool'[j] = ethMempool[j + 1]
      BY <1>1
    <3>2. i + 1 = j + 1
      BY <2>1, <3>1 DEF IInv, PendingSound
    <3> QED BY <3>2
  <2>2. ASSUME NEW i \in 1..Len(ethMempool')
        PROVE  /\ receipt'[ethMempool'[i].by] = receipt[ethMempool[i + 1].by]
               /\ ethMempool'[i] = ethMempool[i + 1] /\ i + 1 \in 1..Len(ethMempool)
    <3>1. ethMempool'[i] \in Txs
      BY <1>1, ElementOfSeq
    <3>2. ethMempool'[i].by \in Invocations
      BY <3>1 DEF Txs
    <3> QED BY <1>1, <1>5, <3>2
  <2> QED BY <1>2, <2>1, <2>2 DEF IInv, PendingSound
<1>10. ReceiptSound'
  <2> SUFFICES ASSUME NEW r \in Invocations
               PROVE  /\ pc[r] = "updating" /\ receipt'[r] = "successful"
                           => proof[r].to <= clientHeight
                      /\ pc[r] \in {"membership", "recv", "relaying", "done"}
                           => proof[r].to <= clientHeight
                      /\ pc[r] = "relaying" /\ receipt'[r] = "successful" => r \in received'
    BY <1>2 DEF ReceiptSound
  <2>1. CASE r = tx.by
    BY <1>3, <1>5, <2>1 DEF IInv, ReceiptSound
  <2>2. CASE r # tx.by
    BY <1>4, <1>5, <2>2 DEF IInv, ReceiptSound
  <2> QED BY <2>1, <2>2
<1>11. MintedIsBacked'
  <2> DEFINE S == DOMAIN commitments \ received
  <2>1. S \in SUBSET Invocations /\ Cardinality(S) \in Nat
    BY PacketCount DEF IInv, TypeOK
  <2>2. CASE UNCHANGED <<received, supply>>
    BY <1>2, <2>2 DEF IInv, MintedIsBacked
  <2>3. CASE /\ tx.by \notin received /\ tx.membership.found
             /\ received' = received \cup {tx.by} /\ supply' = supply + 1
    <3>1. tx.by \in S /\ DOMAIN commitments' \ received' = S \ {tx.by}
      BY <1>2, <1>3, <2>3
    <3>2. Cardinality(S \ {tx.by}) = Cardinality(S) - 1
      BY <2>1, <3>1, PacketCount
    <3>3. received' \subseteq DOMAIN commitments'
      BY <1>2, <1>3, <2>3 DEF IInv, MintedIsBacked
    <3>4. escrow = supply + Cardinality(S) /\ supply \in Nat
      BY DEF IInv, TypeOK, MintedIsBacked
    <3> DEFINE n == Cardinality(S)
    <3>5. escrow = (supply + 1) + (n - 1)
      <4>1. n \in Nat /\ escrow = supply + n
        BY <2>1, <3>4
      <4> HIDE DEF n
      <4> QED BY <3>4, <4>1
    <3>6. escrow' = supply' + Cardinality(DOMAIN commitments' \ received')
      BY <1>2, <2>3, <3>1, <3>2, <3>5, Zenon
    <3> QED BY <3>3, <3>6 DEF MintedIsBacked
  <2>4. CASE tx.by \in received /\ received' = received \cup {tx.by} /\ supply' = supply
    <3>1. received' = received
      BY <2>4
    <3> QED BY <2>2, <2>4, <3>1
  <2> QED BY <1>2, <2>2, <2>3, <2>4
<1> QED BY <1>6, <1>7, <1>8, <1>9, <1>10, <1>11 DEF IInv

-----------------------------------------------------------------------------
(* The commands.                                                           *)

\* A command goes on to a label whose claim holds, and changes nothing else.
LEMMA GotoIInv ==
    ASSUME IInv, NEW r \in Invocations, NEW l \in Labels, Goto(r, l),
           UNCHANGED <<simVars, ethVars, proof, membership>>,
           l \notin {"submit", "submitting", "updating", "relaying"},
           l # "failed" => /\ r \in DOMAIN commitments
                          /\ \A i \in 1..Len(ethMempool) : ethMempool[i].by # r,
           l \in {"membership", "recv", "done"} => proof[r].to <= clientHeight,
           l = "done" => r \in received,
           membership[r] # NoMembership => l \in {"recv", "done", "failed"}
    PROVE  IInv'
<1>1. /\ pc' = [pc EXCEPT ![r] = l] /\ pc' \in [Invocations -> Labels]
      /\ UNCHANGED <<simHeight, simMempool, commitments, balance, escrow, txResult, ethMempool,
                     receipt, trusted, clientHeight, received, supply, proof, membership>>
  BY DEF IInv, TypeOK, Goto, simVars, ethVars
<1>2. pc'[r] = l /\ \A q \in Invocations \ {r} : pc'[q] = pc[q]
  BY <1>1 DEF IInv, TypeOK
<1>3. TypeOK'
  BY <1>1 DEF IInv, TypeOK
<1>4. SendOnce'
  <2>1. \A i \in 1..Len(simMempool) : simMempool[i] \in Invocations
    BY ElementOfSeq DEF IInv, TypeOK
  <2> QED BY <1>1, <1>2, <2>1 DEF IInv, SendOnce
<1>5. PendingSound'
  <2>1. \A i \in 1..Len(ethMempool) : ethMempool[i].by \in Invocations
    <3>1. \A i \in 1..Len(ethMempool) : ethMempool[i] \in Txs
      BY ElementOfSeq DEF IInv, TypeOK
    <3> QED BY <3>1 DEF Txs
  <2>2. ASSUME NEW i \in 1..Len(ethMempool)
        PROVE  \/ pc'[ethMempool[i].by] = pc[ethMempool[i].by]
               \/ pc'[ethMempool[i].by] = "failed"
    BY <1>2, <2>1
  <2>3. ASSUME NEW i \in 1..Len(ethMempool)
        PROVE  LET tx == ethMempool[i]
               IN  TxSound(tx, pc'[tx.by], proof[tx.by], receipt[tx.by], DOMAIN commitments)
    <3> DEFINE tx == ethMempool[i]
    <3>1. TxSound(tx, pc[tx.by], proof[tx.by], receipt[tx.by], DOMAIN commitments)
      BY DEF IInv, PendingSound
    <3>2. pc'[tx.by] = pc[tx.by] \/ pc'[tx.by] = "failed"
      BY <2>2
    <3> HIDE DEF tx
    <3>3. TxSound(tx, pc'[tx.by], proof[tx.by], receipt[tx.by], DOMAIN commitments)
      BY <3>1, <3>2 DEF TxSound
    <3> QED BY <3>3 DEF tx
  <2> QED BY <1>1, <2>3 DEF IInv, PendingSound
<1>6. ReceiptSound' /\ MembershipSound' /\ DoneMeansReceived'
  BY <1>1, <1>2 DEF IInv, ReceiptSound, MembershipSound, DoneMeansReceived
<1>7. MintedIsBacked' /\ MembershipAtTrustedHeader'
  BY <1>1 DEF IInv, MintedIsBacked, MembershipAtTrustedHeader
<1> QED BY <1>3, <1>4, <1>5, <1>6, <1>7 DEF IInv

\* Giving up is always safe.
LEMMA FailIInv ==
    ASSUME IInv, NEW r \in Invocations, Goto(r, "failed"),
           UNCHANGED <<simVars, ethVars, proof, membership>>
    PROVE  IInv'
<1>1. "failed" \in Labels
  BY DEF Labels
<1> QED BY <1>1, GotoIInv

\* SubmitMsgTransfer keeps it: an invocation that has a result sends nothing more.
LEMMA SubmitMsgTransferIInv ==
    ASSUME IInv, NEW r \in Invocations, SubmitMsgTransfer(r)
    PROVE  IInv'
<1>1. CASE simMempool # <<>>
  BY <1>1, FailIInv DEF SubmitMsgTransfer, simVars
<1>2. CASE simMempool = <<>>
  <2>1. /\ pc[r] = "submit" /\ simMempool' = <<r>> /\ pc' = [pc EXCEPT ![r] = "submitting"]
        /\ UNCHANGED <<simHeight, commitments, balance, escrow, txResult, ethMempool, receipt,
                       trusted, clientHeight, received, supply, proof, membership>>
    BY <1>2 DEF SubmitMsgTransfer, Goto, ethVars
  <2>2. /\ simMempool' \in Seq(Invocations) /\ Len(simMempool') = 1
        /\ \A i \in 1..Len(simMempool') : simMempool'[i] = r
    BY <2>1
  <2>3. /\ pc' \in [Invocations -> Labels] /\ pc'[r] = "submitting"
        /\ \A q \in Invocations \ {r} : pc'[q] = pc[q]
    BY <2>1 DEF IInv, TypeOK, Labels
  <2>4. /\ r \notin DOMAIN commitments /\ txResult[r] = None
        /\ membership[r] = NoMembership
    BY <2>1 DEF IInv, SendOnce, MembershipSound
  <2>5. TypeOK'
    BY <2>1, <2>2, <2>3 DEF IInv, TypeOK
  <2>6. SendOnce'
    BY <2>1, <2>2, <2>3, <2>4 DEF IInv, SendOnce
  <2>7. PendingSound'
    <3>1. \A i \in 1..Len(ethMempool) : ethMempool[i] \in Txs
      BY ElementOfSeq DEF IInv, TypeOK
    <3>2. \A i \in 1..Len(ethMempool) : ethMempool[i].by \in Invocations \ {r}
      BY <2>1, <3>1 DEF IInv, PendingSound, TxSound, Txs
    <3> QED BY <2>1, <2>3, <3>2 DEF IInv, PendingSound
  <2>8. ReceiptSound' /\ MembershipSound' /\ DoneMeansReceived'
    BY <2>1, <2>3, <2>4 DEF IInv, ReceiptSound, MembershipSound, DoneMeansReceived
  <2>9. MintedIsBacked' /\ MembershipAtTrustedHeader'
    BY <2>1 DEF IInv, MintedIsBacked, MembershipAtTrustedHeader
  <2> QED BY <2>5, <2>6, <2>7, <2>8, <2>9 DEF IInv
<1> QED BY <1>1, <1>2

\* BroadcastMessages' wait for the transaction keeps it.
LEMMA TxLandedIInv ==
    ASSUME IInv, NEW r \in Invocations, TxLanded(r)
    PROVE  IInv'
<1>1. CASE txResult[r] # "ok"
  BY <1>1, FailIInv DEF TxLanded
<1>2. CASE txResult[r] = "ok"
  <2>1. pc[r] = "submitting" /\ Goto(r, "proveTrusted")
    BY <1>2 DEF TxLanded
  <2>2. r \in DOMAIN commitments /\ membership[r] = NoMembership /\ "proveTrusted" \in Labels
    BY <1>2, <2>1 DEF IInv, SendOnce, MembershipSound, Labels
  <2>3. \A i \in 1..Len(ethMempool) : ethMempool[i].by # r
    BY <2>1 DEF IInv, PendingSound, TxSound
  <2> QED BY <2>1, <2>2, <2>3, GotoIInv DEF TxLanded
<1> QED BY <1>1, <1>2

\* getTxReciept keeps it: a successful receipt is the packet's own.
LEMMA ReceiptFoundIInv ==
    ASSUME IInv, NEW r \in Invocations, ReceiptFound(r)
    PROVE  IInv'
<1>1. /\ pc[r] \in {"updating", "relaying"} /\ receipt[r] # None
      /\ UNCHANGED <<simVars, ethVars, proof, membership>>
  BY DEF ReceiptFound
<1>2. CASE receipt[r] = "reverted"
  BY <1>1, <1>2, FailIInv DEF ReceiptFound
<1>3. CASE receipt[r] # "reverted"
  <2>1. receipt[r] = "successful"
    BY <1>1, <1>3 DEF IInv, TypeOK
  <2>2. r \in DOMAIN commitments /\ \A i \in 1..Len(ethMempool) : ethMempool[i].by # r
    BY <1>1 DEF IInv, SendOnce, PendingSound, TxSound
  <2>3. proof[r].to <= clientHeight
    BY <1>1, <2>1 DEF IInv, ReceiptSound
  <2>4. CASE pc[r] = "updating"
    <3>1. Goto(r, "membership")
      BY <1>3, <2>4 DEF ReceiptFound
    <3>2. membership[r] = NoMembership /\ "membership" \in Labels
      BY <2>4 DEF IInv, MembershipSound, Labels
    <3> QED BY <1>1, <2>2, <2>3, <3>1, <3>2, GotoIInv
  <2>5. CASE pc[r] = "relaying"
    <3>1. Goto(r, "done")
      BY <1>3, <2>5 DEF ReceiptFound
    <3>2. r \in received /\ "done" \in Labels
      BY <2>1, <2>5 DEF IInv, ReceiptSound, Labels
    <3> QED BY <1>1, <2>2, <2>3, <3>1, <3>2, GotoIInv
  <2> QED BY <1>1, <2>4, <2>5
<1> QED BY <1>2, <1>3

\* The two reads of prove_state_transition.  The invocation has no membership proof
\* yet, so its heights may still change.
LEMMA ProveStateTransitionIInv ==
    ASSUME IInv, NEW r \in Invocations, GetTrustedBlock(r) \/ GetTargetBlock(r)
    PROVE  IInv'
<1>1. PICK l \in {"proveTarget", "update", "failed"} :
        /\ pc' = [pc EXCEPT ![r] = l]
        /\ pc[r] \in {"proveTrusted", "proveTarget"}
        /\ UNCHANGED <<simHeight, simMempool, commitments, balance, escrow, txResult, ethMempool,
                       receipt, trusted, clientHeight, received, supply, membership>>
  BY DEF GetTrustedBlock, GetTargetBlock, Goto, simVars, ethVars
<1>2. proof' \in [Invocations -> Proofs] /\ \A q \in Invocations \ {r} : proof'[q] = proof[q]
  <2>1. proof \in [Invocations -> Proofs] /\ simHeight \in Nat /\ clientHeight \in Nat
    BY DEF IInv, TypeOK
  <2>2. CASE GetTrustedBlock(r)
    <3>1. proof' = [proof EXCEPT ![r] = [proof[r] EXCEPT !.from = clientHeight]]
      BY <2>2 DEF GetTrustedBlock
    <3>2. proof[r] \in Proofs
      BY <2>1
    <3>3. [proof[r] EXCEPT !.from = clientHeight] \in Proofs
      BY <2>1, <3>2 DEF Proofs
    <3> QED BY <2>1, <3>1, <3>3
  <2>3. CASE GetTargetBlock(r)
    <3>1. proof' = [proof EXCEPT ![r] = [proof[r] EXCEPT !.to = simHeight]]
      BY <2>3 DEF GetTargetBlock
    <3>2. proof[r] \in Proofs
      BY <2>1
    <3>3. [proof[r] EXCEPT !.to = simHeight] \in Proofs
      BY <2>1, <3>2 DEF Proofs
    <3> QED BY <2>1, <3>1, <3>3
  <2> QED BY <2>2, <2>3
<1>3. /\ pc' \in [Invocations -> Labels] /\ pc'[r] = l
      /\ \A q \in Invocations \ {r} : pc'[q] = pc[q]
  BY <1>1 DEF IInv, TypeOK, Labels
<1>4. r \in DOMAIN commitments /\ membership[r] = NoMembership
  BY <1>1 DEF IInv, SendOnce, MembershipSound
<1>5. TypeOK'
  BY <1>1, <1>2, <1>3 DEF IInv, TypeOK
<1>6. SendOnce'
  <2>1. \A i \in 1..Len(simMempool) : simMempool[i] \in Invocations
    BY ElementOfSeq DEF IInv, TypeOK
  <2> QED BY <1>1, <1>3, <1>4, <2>1 DEF IInv, SendOnce
<1>7. PendingSound'
  <2>1. \A i \in 1..Len(ethMempool) : ethMempool[i] \in Txs
    BY ElementOfSeq DEF IInv, TypeOK
  <2>2. \A i \in 1..Len(ethMempool) : ethMempool[i].by \in Invocations \ {r}
    BY <1>1, <2>1 DEF IInv, PendingSound, TxSound, Txs
  <2> QED BY <1>1, <1>2, <1>3, <2>2 DEF IInv, PendingSound
<1>8. ReceiptSound' /\ MembershipSound' /\ DoneMeansReceived'
  BY <1>1, <1>2, <1>3, <1>4 DEF IInv, ReceiptSound, MembershipSound, DoneMeansReceived
<1>9. MintedIsBacked' /\ MembershipAtTrustedHeader'
  BY <1>1, <1>2, <1>4 DEF IInv, MintedIsBacked, MembershipAtTrustedHeader
<1> QED BY <1>5, <1>6, <1>7, <1>8, <1>9 DEF IInv

\* A transaction is sent: the invocation has none pending before, and its label
\* says that the new one is.
LEMMA SubmitIInv ==
    ASSUME IInv, NEW r \in Invocations, NEW l \in {"updating", "relaying"},
           NEW tx \in Txs, tx.by = r, SubmitEth(r, tx), Goto(r, l), UNCHANGED <<proof, membership>>,
           l = "updating" => pc[r] = "update" /\ tx.kind = "update" /\ tx.proof = proof[r],
           l = "relaying" => pc[r] = "recv" /\ tx.kind = "recv" /\ tx.membership = membership[r]
    PROVE  IInv'
<1>1. /\ pc' = [pc EXCEPT ![r] = l] /\ ethMempool' = Append(ethMempool, tx)
      /\ receipt' = [receipt EXCEPT ![r] = None]
      /\ UNCHANGED <<simHeight, simMempool, commitments, balance, escrow, txResult,
                     trusted, clientHeight, received, supply, proof, membership>>
  BY DEF SubmitEth, Goto, simVars
<1>2. /\ pc' \in [Invocations -> Labels] /\ pc'[r] = l
      /\ \A q \in Invocations \ {r} : pc'[q] = pc[q]
  BY <1>1 DEF IInv, TypeOK, Labels
<1>3. /\ receipt' \in [Invocations -> {None, "successful", "reverted"}] /\ receipt'[r] = None
      /\ \A q \in Invocations \ {r} : receipt'[q] = receipt[q]
  BY <1>1 DEF IInv, TypeOK
<1>4. /\ ethMempool' \in Seq(Txs) /\ Len(ethMempool) \in Nat
      /\ Len(ethMempool') = Len(ethMempool) + 1
      /\ \A i \in 1..Len(ethMempool) : ethMempool'[i] = ethMempool[i]
      /\ ethMempool'[Len(ethMempool) + 1] = tx
  BY <1>1, AppendProperties, LenProperties DEF IInv, TypeOK
<1>5. pc[r] \in {"update", "recv"} /\ r \in DOMAIN commitments
  BY DEF IInv, SendOnce
<1>6. TypeOK'
  BY <1>1, <1>2, <1>3, <1>4 DEF IInv, TypeOK
<1>7. SendOnce'
  <2>1. \A i \in 1..Len(simMempool) : simMempool[i] \in Invocations
    BY ElementOfSeq DEF IInv, TypeOK
  <2> QED BY <1>1, <1>2, <1>5, <2>1 DEF IInv, SendOnce
<1>8. PendingSound'
  <2>1. \A i \in 1..Len(ethMempool) : ethMempool[i] \in Txs
    BY ElementOfSeq DEF IInv, TypeOK
  <2>2. \A i \in 1..Len(ethMempool) : ethMempool[i].by \in Invocations \ {r}
    BY <1>5, <2>1 DEF IInv, PendingSound, TxSound, Txs
  <2>3. \A i \in 1..Len(ethMempool') : i \in 1..Len(ethMempool) \/ i = Len(ethMempool) + 1
    BY <1>4
  <2>4. \A i, j \in 1..Len(ethMempool') : ethMempool'[i].by = ethMempool'[j].by => i = j
    BY <1>4, <2>2, <2>3 DEF IInv, PendingSound
  <2>5. ASSUME NEW i \in 1..Len(ethMempool)
        PROVE  /\ pc'[ethMempool[i].by] = pc[ethMempool[i].by]
               /\ receipt'[ethMempool[i].by] = receipt[ethMempool[i].by]
    BY <1>2, <1>3, <2>2
  <2>6. TxSound(tx, pc'[r], proof[r], receipt'[r], DOMAIN commitments)
    BY <1>2, <1>3, <1>5 DEF TxSound
  <2>7. ASSUME NEW i \in 1..Len(ethMempool')
        PROVE  LET t == ethMempool'[i]
               IN  TxSound(t, pc'[t.by], proof[t.by], receipt'[t.by], DOMAIN commitments)
    <3>1. CASE i \in 1..Len(ethMempool)
      BY <1>4, <2>5, <3>1 DEF IInv, PendingSound
    <3>2. CASE i = Len(ethMempool) + 1
      BY <1>4, <2>6, <3>2
    <3> QED BY <2>3, <3>1, <3>2
  <2> QED BY <1>1, <2>4, <2>7 DEF PendingSound
<1>9. ReceiptSound'
  BY <1>1, <1>2, <1>3 DEF IInv, ReceiptSound, None
<1>10. MembershipSound' /\ DoneMeansReceived'
  BY <1>1, <1>2 DEF IInv, MembershipSound, DoneMeansReceived
<1>11. MintedIsBacked' /\ MembershipAtTrustedHeader'
  BY <1>1 DEF IInv, MintedIsBacked, MembershipAtTrustedHeader
<1> QED BY <1>6, <1>7, <1>8, <1>9, <1>10, <1>11 DEF IInv

\* updateTendermintLightClient keeps it: what it submits was proved by the prover.
LEMMA UpdateTendermintLightClientIInv ==
    ASSUME IInv, NEW r \in Invocations, UpdateTendermintLightClient(r)
    PROVE  IInv'
<1> DEFINE tx == [kind |-> "update", by |-> r, proof |-> proof[r]]
<1>1. tx \in Txs /\ tx.by = r /\ tx.kind = "update" /\ tx.proof = proof[r]
  BY DEF IInv, TypeOK, Txs
<1>2. /\ pc[r] = "update" /\ SubmitEth(r, tx) /\ Goto(r, "updating")
      /\ UNCHANGED <<proof, membership>>
  BY DEF UpdateTendermintLightClient
<1> HIDE DEF tx
<1> QED BY <1>1, <1>2, SubmitIInv

\* relayByTx keeps it: the packet and its proof go to the router's mempool.
LEMMA RelayByTxIInv ==
    ASSUME IInv, NEW r \in Invocations, RelayByTx(r)
    PROVE  IInv'
<1> DEFINE tx == [kind |-> "recv", by |-> r, membership |-> membership[r]]
<1>1. tx \in Txs /\ tx.by = r /\ tx.kind = "recv" /\ tx.membership = membership[r]
  BY DEF IInv, TypeOK, Txs
<1>2. /\ pc[r] = "recv" /\ SubmitEth(r, tx) /\ Goto(r, "relaying")
      /\ UNCHANGED <<proof, membership>>
  BY DEF RelayByTx
<1> HIDE DEF tx
<1> QED BY <1>1, <1>2, SubmitIInv

\* The contract's height is read again: it is at least the one this invocation's
\* own update brought, and the packet's block does not change.
LEMMA ProveStateMembershipIInv ==
    ASSUME IInv, NEW r \in Invocations, ProveStateMembership(r)
    PROVE  IInv'
<1> DEFINE m == MembershipProof(r, clientHeight)
<1>1. /\ pc[r] = "membership" /\ pc' = [pc EXCEPT ![r] = "recv"]
      /\ membership' = [membership EXCEPT ![r] = m]
      /\ UNCHANGED <<simHeight, simMempool, commitments, balance, escrow, txResult, ethMempool,
                     receipt, trusted, clientHeight, received, supply, proof>>
  BY DEF ProveStateMembership, Goto, simVars, ethVars
<1>2. r \in DOMAIN commitments /\ proof[r].to <= clientHeight /\ clientHeight \in trusted
  BY <1>1 DEF IInv, TypeOK, SendOnce, ReceiptSound
<1>3. /\ m \in Memberships /\ m.height = clientHeight
      /\ m.found <=> commitments[r] < clientHeight
  <2>1. (r \in DOMAIN commitments /\ commitments[r] < clientHeight) \in BOOLEAN /\ clientHeight \in Nat
    BY DEF IInv, TypeOK
  <2>2. /\ m \in Memberships /\ m.height = clientHeight
        /\ m.found = (r \in DOMAIN commitments /\ commitments[r] < clientHeight)
    BY <2>1 DEF MembershipProof, Memberships, CommittedBy
  <2> QED BY <1>2, <2>2
<1> HIDE DEF m
<1>4. /\ pc' \in [Invocations -> Labels] /\ pc'[r] = "recv"
      /\ \A q \in Invocations \ {r} : pc'[q] = pc[q]
  BY <1>1 DEF IInv, TypeOK, Labels
<1>5. /\ membership' \in [Invocations -> Memberships] /\ membership'[r] = m
      /\ \A q \in Invocations \ {r} : membership'[q] = membership[q]
  BY <1>1, <1>3 DEF IInv, TypeOK
<1>6. TypeOK'
  BY <1>1, <1>4, <1>5 DEF IInv, TypeOK
<1>7. SendOnce'
  <2>1. \A i \in 1..Len(simMempool) : simMempool[i] \in Invocations
    BY ElementOfSeq DEF IInv, TypeOK
  <2> QED BY <1>1, <1>2, <1>4, <2>1 DEF IInv, SendOnce
<1>8. PendingSound'
  <2>1. \A i \in 1..Len(ethMempool) : ethMempool[i] \in Txs
    BY ElementOfSeq DEF IInv, TypeOK
  <2>2. \A i \in 1..Len(ethMempool) : ethMempool[i].by \in Invocations \ {r}
    BY <1>1, <2>1 DEF IInv, PendingSound, TxSound, Txs
  <2> QED BY <1>1, <1>4, <2>2 DEF IInv, PendingSound
<1>9. ReceiptSound' /\ DoneMeansReceived' /\ MintedIsBacked'
  BY <1>1, <1>2, <1>4 DEF IInv, ReceiptSound, DoneMeansReceived, MintedIsBacked
<1>10. MembershipSound'
  BY <1>1, <1>2, <1>4, <1>5 DEF IInv, MembershipSound
<1>11. MembershipAtTrustedHeader'
  <2> SUFFICES ASSUME NEW q \in Invocations, membership'[q] # NoMembership
               PROVE  /\ membership'[q].height \in trusted
                      /\ membership'[q].height >= proof[q].to
                      /\ membership'[q].found <=> commitments[q] < membership'[q].height
    BY <1>1 DEF MembershipAtTrustedHeader
  <2>1. CASE q = r
    <3>1. membership'[q].height = clientHeight /\ membership'[q] = m
      BY <1>3, <1>5, <2>1
    <3>2. membership'[q].found <=> commitments[q] < membership'[q].height
      BY <1>3, <2>1, <3>1, Zenon
    <3>3. proof[q].to \in Nat /\ clientHeight \in Nat
      BY DEF IInv, TypeOK, Proofs
    <3> QED BY <1>2, <2>1, <3>1, <3>2, <3>3
  <2>2. CASE q # r
    BY <1>5, <2>2, Zenon DEF IInv, MembershipAtTrustedHeader
  <2> QED BY <2>1, <2>2
<1> QED BY <1>6, <1>7, <1>8, <1>9, <1>10, <1>11 DEF IInv

-----------------------------------------------------------------------------
(* The theorems.                                                           *)

\* The invariant holds throughout.
THEOREM Invariance == Spec => []IInv
<1>1. Init => IInv
  BY InitIInv
<1>2. IInv /\ [Next]_vars => IInv'
  <2> SUFFICES ASSUME IInv, [Next]_vars PROVE IInv'
    OBVIOUS
  <2>1. CASE EmptySimBlock
    BY <2>1, EmptySimBlockIInv
  <2>2. CASE DeliverTx
    BY <2>2, DeliverTxIInv
  <2>3. CASE IncludePending
    BY <2>3, UpdateClientIInv, RecvPacketIInv DEF IncludePending
  <2>4. ASSUME NEW r \in Invocations, Step(r) PROVE IInv'
    BY <2>4, SubmitMsgTransferIInv, TxLandedIInv, ProveStateTransitionIInv,
       UpdateTendermintLightClientIInv, ProveStateMembershipIInv, RelayByTxIInv, ReceiptFoundIInv
       DEF Step
  <2>5. ASSUME NEW r \in Invocations, GiveUp(r) PROVE IInv'
    BY <2>5, FailIInv DEF GiveUp
  <2>6. CASE UNCHANGED vars
    <3>1. UNCHANGED <<simHeight, simMempool, commitments, balance, escrow, txResult, ethMempool,
                      receipt, trusted, clientHeight, received, supply, pc, proof, membership>>
      BY <2>6 DEF vars, simVars, ethVars, runVars
    <3>2. TypeOK' /\ SendOnce' /\ PendingSound'
      BY <3>1 DEF IInv, TypeOK, SendOnce, PendingSound
    <3>3. ReceiptSound' /\ MembershipSound' /\ MintedIsBacked' /\ DoneMeansReceived'
      BY <3>1 DEF IInv, ReceiptSound, MembershipSound, MintedIsBacked, DoneMeansReceived
    <3>4. MembershipAtTrustedHeader'
      BY <3>1 DEF IInv, MembershipAtTrustedHeader
    <3> QED BY <3>2, <3>3, <3>4 DEF IInv
  <2> QED BY <2>1, <2>2, <2>3, <2>4, <2>5, <2>6 DEF Next
<1> QED BY <1>1, <1>2, PTL DEF Spec

\* Tokens minted on the roll-up are backed one for one, for any number of
\* concurrent transfers.
THEOREM MintingIsBacked == Spec => []MintedIsBacked
<1>1. IInv => MintedIsBacked
  BY DEF IInv
<1> QED BY <1>1, Invariance, PTL

\* transferSimAppToEVM() succeeds only when its own packet was received.
THEOREM SuccessMeansReceived == Spec => []DoneMeansReceived
<1>1. IInv => DoneMeansReceived
  BY DEF IInv
<1> QED BY <1>1, Invariance, PTL

\* A membership proof is for a header that the contract holds and that is not older
\* than the one the invocation proved.
THEOREM MembershipIsTrusted == Spec => []MembershipAtTrustedHeader
<1>1. IInv => MembershipAtTrustedHeader
  BY DEF IInv
<1> QED BY <1>1, Invariance, PTL

-----------------------------------------------------------------------------
(* The abstract transfer.                                                  *)

\* Units leave the sender's balance and enter the supply on the roll-up.
PT == INSTANCE PacketTransfer
        WITH Packets <- Invocations, source <- balance, destination <- supply,
             sent <- DOMAIN commitments, delivered <- received

\* The abstract transfer counts as this module does.
LEMMA SameCount == \A S : PT!Cardinality(S) = Cardinality(S)
BY DEF PT!Cardinality, Cardinality

\* The MsgSendPacket that a SimApp block runs (DeliverTx) sends a packet that was not
\* sent before, or nothing.
LEMMA DeliverTxSends ==
    ASSUME IInv, DeliverTx
    PROVE  PT!Next \/ UNCHANGED PT!vars
<1> DEFINE r == simMempool[1]
<1>1. CASE balance > 0
  <2>1. r \in Invocations /\ r \notin DOMAIN commitments
    <3>1. simMempool \in Seq(Invocations) /\ simMempool # <<>>
      BY DEF IInv, TypeOK, DeliverTx
    <3>2. 1 \in 1..Len(simMempool)
      <4>1. Len(simMempool) \in Nat \ {0}
        BY <3>1, EmptySeq, Zenon
      <4> QED BY <4>1
    <3> QED BY <3>1, <3>2, ElementOfSeq DEF IInv, SendOnce
  <2>2. /\ DOMAIN commitments' = DOMAIN commitments \cup {r}
        /\ balance' = balance - 1 /\ UNCHANGED <<supply, received>>
    BY <1>1 DEF DeliverTx, ethVars
  <2>3. PT!Cardinality({r}) = 1 /\ balance \in Nat
    BY FS_Singleton, SameCount DEF IInv, TypeOK
  <2> HIDE DEF r
  <2>4. PT!Send({r})
    BY <1>1, <2>1, <2>2, <2>3 DEF PT!Send
  <2>5. {r} \in SUBSET Invocations
    BY <2>1
  <2> QED BY <2>4, <2>5 DEF PT!Next
<1>2. CASE ~ (balance > 0)
  BY <1>2 DEF DeliverTx, ethVars, PT!vars
<1> QED BY <1>1, <1>2

\* The RecvPacket that a block of the roll-up runs receives a packet that was sent and
\* not received before, or changes nothing.
LEMMA IncludePendingReceives ==
    ASSUME IInv, IncludePending
    PROVE  PT!Next \/ UNCHANGED PT!vars
<1> DEFINE tx == Head(ethMempool)
<1>0. UNCHANGED <<commitments, balance>>
  BY DEF IncludePending, simVars
<1>1. CASE UpdateClient(tx)
  BY <1>0, <1>1 DEF UpdateClient, PT!vars
<1>2. CASE RecvPacket(tx)
  <2>1. tx.by \in Invocations
    BY MempoolTail
  <2>2. received' \subseteq DOMAIN commitments
    <3>1. IInv'
      BY <1>2, RecvPacketIInv
    <3> QED BY <1>0, <3>1 DEF IInv, MintedIsBacked
  <2> HIDE DEF tx
  <2>3. CASE RecvPacketSucceeds(tx) /\ tx.by \notin received
    <3>1. received' = received \cup {tx.by} /\ supply' = supply + 1
      BY <1>2, <2>3 DEF RecvPacket
    <3>2. PT!Receive(tx.by)
      BY <1>0, <2>2, <2>3, <3>1 DEF PT!Receive
    <3> QED BY <2>1, <3>2 DEF PT!Next
  <2>4. CASE ~ (RecvPacketSucceeds(tx) /\ tx.by \notin received)
    <3>1. received' = received /\ supply' = supply
      BY <1>2, <2>4 DEF RecvPacket
    <3> QED BY <1>0, <3>1 DEF PT!vars
  <2> QED BY <2>3, <2>4
<1> QED BY <1>1, <1>2 DEF IncludePending

\* Transfers to the roll-up implement the abstract transfer: whatever commands,
\* blocks and provers do, a unit is escrowed with each packet, and minted once, when
\* the router receives the packet.
THEOREM TransfersOnce == Spec => PT!Spec
<1>1. Init => PT!Init
  <2> SUFFICES ASSUME Init PROVE PT!Init
    OBVIOUS
  <2>1. balance \in Nat
    BY TransferOutAssumption DEF Init
  <2>2. DOMAIN commitments = {} /\ received = {} /\ supply = 0
    BY DEF Init
  <2> QED BY <2>1, <2>2 DEF PT!Init
<1>2. IInv /\ [Next]_vars => [PT!Next]_(PT!vars)
  <2> SUFFICES ASSUME IInv, [Next]_vars PROVE PT!Next \/ UNCHANGED PT!vars
    OBVIOUS
  <2>1. CASE EmptySimBlock
    BY <2>1 DEF EmptySimBlock, ethVars, PT!vars
  <2>2. CASE DeliverTx
    BY <2>2, DeliverTxSends
  <2>3. CASE IncludePending
    BY <2>3, IncludePendingReceives
  <2>4. ASSUME NEW r \in Invocations, Step(r) \/ GiveUp(r) PROVE UNCHANGED PT!vars
    <3>1. UNCHANGED <<commitments, balance, supply, received>>
      BY <2>4 DEF Step, GiveUp, SubmitMsgTransfer, TxLanded, GetTrustedBlock, GetTargetBlock,
                  UpdateTendermintLightClient, ProveStateMembership, RelayByTx, ReceiptFound,
                  SubmitEth, simVars, ethVars
    <3> QED BY <3>1 DEF PT!vars
  <2>5. CASE UNCHANGED vars
    BY <2>5 DEF vars, simVars, ethVars, PT!vars
  <2> QED BY <2>1, <2>2, <2>3, <2>4, <2>5 DEF Next
<1> QED BY <1>1, <1>2, Invariance, PTL DEF Spec, PT!Spec
=============================================================================
