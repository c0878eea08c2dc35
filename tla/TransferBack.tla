---------------------------- MODULE TransferBack ----------------------------
(***************************************************************************)
(* The transfer of tokens from the EVM roll-up back to SimApp, as the demo *)
(* tool's transfer-back command drives it (testing/demo/pkg/transfer),     *)
(* composed with the Groth16 client of Groth16Client: approve and burn on  *)
(* the roll-up, a state transition proof from the evm-prover, an update of *)
(* the light client, a MsgRecvPacket on SimApp.  Several invocations of    *)
(* the command may run at once; all use the same two accounts.             *)
(*                                                                         *)
(* An invocation's packet carries the invocation's name, and amounts are   *)
(* counted in units of transferBackAmount.  External and modelled from     *)
(* their use: the roll-up's mempool and contracts, SimApp's mempool, and   *)
(* ibc-go's RecvPacket.  Left out: packet timeouts (30 minutes), which can *)
(* only make RecvPacket fail; nothing in the demo sends MsgTimeout.        *)
(***************************************************************************)
EXTENDS Naturals, Sequences, FiniteSets

CONSTANTS
    Invocations,      \* the runs of transfer-back
    Escrowed,         \* units that earlier transfers escrowed and minted
    MaxEmptyBlocks,   \* bound: EVM blocks without a transaction of ours
    Faults,           \* whether an RPC may fail or a poll may give up
    MaxEvmHeight, MaxNow

\* Whatever is pending can still be included within the bounds.
ASSUME TransferAssumption ==
    /\ IsFiniteSet(Invocations) /\ Escrowed \in Nat /\ MaxEmptyBlocks \in Nat
    /\ MaxEvmHeight \in Nat /\ MaxNow \in Nat
    /\ MaxEvmHeight >= MaxEmptyBlocks + 2 * Cardinality(Invocations)
    /\ MaxNow >= MaxEvmHeight

VARIABLES
    evmChain, now, clientState, consensusStates, processedTime, processedHeight,
    iterationKeys,           \* the light client, see Groth16Client
    emptyBlocks,             \* number of EVM blocks without a transaction of ours
    ethMempool,              \* pending EVM transactions of the account, by nonce
    receipt,                 \* invocation -> receipt of its last EVM transaction
    allowance,               \* what ICS20Transfer may spend of the account's tokens
    supply,                  \* supply of the IBC ERC20 token
    simMempool,              \* SimApp transactions of the account: at most one
    txResult,                \* invocation -> result of its last SimApp transaction
    packetReceipts,          \* packets SimApp has received
    escrow,                  \* units in SimApp's escrow account
    pc,                      \* invocation -> where transferBack() is
    evmTransferBlockNumber,  \* invocation -> block of its burn
    provedHeight,            \* invocation -> height its state transition proof ends at
    header                   \* invocation -> the header it built

LC == INSTANCE Groth16Client WITH Packets <- Invocations

lcVars == <<evmChain, now, clientState, consensusStates, processedTime,
            processedHeight, iterationKeys>>
ethVars == <<emptyBlocks, ethMempool, receipt, allowance, supply>>
simVars == <<simMempool, txResult, packetReceipts, escrow>>
runVars == <<pc, evmTransferBlockNumber, provedHeight, header>>
vars == <<lcVars, ethVars, simVars, runVars>>

None == "none"
Ended == {"done", "failed"}
NoReceipt == [status |-> "pending", block |-> 0]
NoHeader == [NewestHeight |-> 0]

Committed == LC!LatestRoot.commitments

Init ==
    /\ LC!Init
    /\ emptyBlocks = 0
    /\ ethMempool = <<>>
    /\ receipt = [r \in Invocations |-> NoReceipt]
    /\ allowance = 0
    /\ supply = Escrowed
    /\ simMempool = <<>>
    /\ txResult = [r \in Invocations |-> None]
    /\ packetReceipts = {}
    /\ escrow = Escrowed
    /\ pc = [r \in Invocations |-> "approve"]
    /\ evmTransferBlockNumber = [r \in Invocations |-> 0]
    /\ provedHeight = [r \in Invocations |-> 0]
    /\ header = [r \in Invocations |-> NoHeader]

Goto(r, label) == pc' = [pc EXCEPT ![r] = label]

-----------------------------------------------------------------------------
(* The roll-up (external): approve sets the allowance, sendTransfer spends *)
(* it, burns and commits a packet, or reverts.                             *)

ApplyTx(st, tx) ==
    LET Receive(status) == [st.receipt EXCEPT ![tx.by] =
                              [status |-> status, block |-> Len(evmChain) + 1]]
    IN  IF tx.kind = "approve"
        THEN [st EXCEPT !.allowance = 1, !.receipt = Receive("successful")]
        ELSE IF st.allowance = 0 \/ st.supply = 0
             THEN [st EXCEPT !.receipt = Receive("reverted")]
             ELSE [allowance |-> st.allowance - 1, supply |-> st.supply - 1,
                   sent |-> st.sent \cup {tx.by}, receipt |-> Receive("successful")]

\* What the first k pending transactions, in nonce order, leave behind.
AfterTxs(k) ==
    LET st[i \in 0..k] ==
          IF i = 0 THEN [allowance |-> allowance, supply |-> supply, sent |-> {}, receipt |-> receipt]
          ELSE ApplyTx(st[i - 1], ethMempool[i])
    IN  st[k]

\* A block with the first k pending transactions.
EvmBlock(k, changed) ==
    /\ IF k = 0 THEN emptyBlocks < MaxEmptyBlocks /\ emptyBlocks' = emptyBlocks + 1
       ELSE changed /\ UNCHANGED emptyBlocks
    /\ LC!ProduceBlock(AfterTxs(k).sent, changed)
    /\ ethMempool' = SubSeq(ethMempool, k + 1, Len(ethMempool))
    /\ receipt' = AfterTxs(k).receipt
    /\ allowance' = AfterTxs(k).allowance
    /\ supply' = AfterTxs(k).supply
    /\ UNCHANGED <<simVars, runVars>>

\* The setup tool creates the light client.
CreateClient ==
    /\ \E height \in DOMAIN evmChain : LC!Initialize(height)
    /\ UNCHANGED <<ethVars, simVars, runVars>>

SubmitEth(r, kind) ==
    /\ ethMempool' = Append(ethMempool, [kind |-> kind, by |-> r])
    /\ receipt' = [receipt EXCEPT ![r] = NoReceipt]
    /\ UNCHANGED <<lcVars, emptyBlocks, allowance, supply, simVars>>

-----------------------------------------------------------------------------
(* SimApp (external).  Transactions are signed with the account's committed *)
(* sequence number, so a second one is refused while one is pending.       *)

\* Faulty variant of the next definition: the result of the transaction before is
\* not forgotten.
BroadcastStaleResult(r, tx, label) ==
    /\ simMempool = <<>>
    /\ simMempool' = <<tx>>
    /\ Goto(r, label)
    /\ UNCHANGED <<lcVars, ethVars, txResult, packetReceipts, escrow,
                   evmTransferBlockNumber, provedHeight, header>>

\* BroadcastMessages up to CheckTx.
Broadcast(r, tx, label) ==
    /\ IF simMempool = <<>>
       THEN /\ simMempool' = <<tx>>
            /\ txResult' = [txResult EXCEPT ![r] = None]
            /\ Goto(r, label)
       ELSE /\ Goto(r, "failed")
            /\ UNCHANGED <<simMempool, txResult>>
    /\ UNCHANGED <<lcVars, ethVars, packetReceipts, escrow,
                   evmTransferBlockNumber, provedHeight, header>>

\* Faulty variant of the next definition: the light client is not asked.
RecvUnverified(packet, proofHeight, proofRoot) ==
    packet \in packetReceipts \/ escrow > 0

\* ibc-go's RecvPacket: a packet already received is a no-op that succeeds;
\* otherwise the light client must verify the commitment, and the transfer
\* application releases the escrow.
RecvSucceeds(packet, proofHeight, proofRoot) ==
    \/ packet \in packetReceipts
    \/ LC!VerifyMembership(proofHeight, proofRoot, packet) /\ escrow > 0

\* Faulty variant of the next definition: a second relay releases again.
RecvPacketAgain(packet, proofHeight, proofRoot) ==
    IF RecvSucceeds(packet, proofHeight, proofRoot)
    THEN /\ packetReceipts' = packetReceipts \cup {packet}
         /\ escrow' = escrow - 1
    ELSE UNCHANGED <<packetReceipts, escrow>>

RecvPacket(packet, proofHeight, proofRoot) ==
    IF packet \notin packetReceipts /\ RecvSucceeds(packet, proofHeight, proofRoot)
    THEN /\ packetReceipts' = packetReceipts \cup {packet}
         /\ escrow' = escrow - 1
    ELSE UNCHANGED <<packetReceipts, escrow>>

\* A SimApp block runs the pending transaction.
DeliverTx ==
    /\ simMempool # <<>>
    /\ simMempool' = <<>>
    /\ LET tx == simMempool[1]
           ok == IF tx.kind = "update"
                 THEN clientState.exists /\ LC!VerifyClientMessage(tx.header)
                 ELSE RecvSucceeds(tx.by, tx.proofHeight, tx.proofRoot)
       IN  /\ txResult' = [txResult EXCEPT ![tx.by] = IF ok THEN "ok" ELSE "error"]
           /\ IF tx.kind = "update"
              THEN /\ IF ok THEN LC!UpdateClient(tx.header) ELSE UNCHANGED lcVars
                   /\ UNCHANGED <<packetReceipts, escrow>>
              ELSE /\ RecvPacket(tx.by, tx.proofHeight, tx.proofRoot)
                   /\ UNCHANGED lcVars
    /\ UNCHANGED <<ethVars, runVars>>

\* Anyone may relay a packet, at any height, with the proof of that block.
OtherRelayer(packet, proofHeight) ==
    /\ RecvSucceeds(packet, proofHeight, evmChain[proofHeight].root)
    /\ RecvPacket(packet, proofHeight, evmChain[proofHeight].root)
    /\ UNCHANGED <<lcVars, ethVars, simMempool, txResult, runVars>>

-----------------------------------------------------------------------------
(* The steps of transferBack().                                            *)

\* approveSpend up to the transaction; setup has created the client before.
Approve(r) ==
    /\ pc[r] = "approve"
    /\ clientState.exists
    /\ SubmitEth(r, "approve")
    /\ Goto(r, "approving")
    /\ UNCHANGED <<evmTransferBlockNumber, provedHeight, header>>

\* Faulty variant of the next definition: wait for the allowance.
CheckAllowanceWaits(r) ==
    /\ pc[r] = "approving"
    /\ receipt[r].status # "pending"
    /\ allowance = 1
    /\ Goto(r, "send")
    /\ UNCHANGED <<lcVars, ethVars, simVars, evmTransferBlockNumber, provedHeight, header>>

\* approveSpend after the receipt: the allowance must be exactly the amount.
CheckAllowance(r) ==
    /\ pc[r] = "approving"
    /\ receipt[r].status # "pending"
    /\ Goto(r, IF receipt[r].status = "successful" /\ allowance = 1
               THEN "send" ELSE "failed")
    /\ UNCHANGED <<lcVars, ethVars, simVars, evmTransferBlockNumber, provedHeight, header>>

SendTransferBackMsg(r) ==
    /\ pc[r] = "send"
    /\ SubmitEth(r, "sendTransfer")
    /\ Goto(r, "sending")
    /\ UNCHANGED <<evmTransferBlockNumber, provedHeight, header>>

\* sendTransferBackMsg after the receipt.  The MPT proof is then asked for at
\* the receipt's block; blocks do not change, so it is not kept here.
SendPacketEvent(r) ==
    /\ pc[r] = "sending"
    /\ receipt[r].status # "pending"
    /\ IF receipt[r].status = "successful"
       THEN /\ evmTransferBlockNumber' = [evmTransferBlockNumber EXCEPT ![r] = receipt[r].block]
            /\ Goto(r, "proveLatest")
       ELSE Goto(r, "failed") /\ UNCHANGED evmTransferBlockNumber
    /\ UNCHANGED <<lcVars, ethVars, simVars, provedHeight, header>>

\* getProof: the evm-prover first reads the roll-up's latest height ...
ProveLatest(r) ==
    /\ pc[r] = "proveLatest"
    /\ provedHeight' = [provedHeight EXCEPT ![r] = Len(evmChain)]
    /\ Goto(r, "proveTrusted")
    /\ UNCHANGED <<lcVars, ethVars, simVars, evmTransferBlockNumber, header>>

\* ... then the client's height; a range of fewer than two blocks has no proof.
ProveTrusted(r) ==
    /\ pc[r] = "proveTrusted"
    /\ Goto(r, IF provedHeight[r] >= clientState.LatestHeight + 2
               THEN "getHeader" ELSE "failed")
    /\ UNCHANGED <<lcVars, ethVars, simVars, evmTransferBlockNumber, provedHeight, header>>

\* Faulty variant of the next definition: the transfer's height, the proof's root.
GetHeaderAtTransfer(r) ==
    /\ pc[r] = "getHeader"
    /\ header' = [header EXCEPT ![r] =
         [LC!RelayedHeader(clientState.LatestHeight, provedHeight[r],
                           evmTransferBlockNumber[r])
            EXCEPT !.NewestHeight = evmTransferBlockNumber[r]]]
    /\ Goto(r, "update")
    /\ UNCHANGED <<lcVars, ethVars, simVars, evmTransferBlockNumber, provedHeight>>

\* getHeader after the proof: the trusted height is read again, and the
\* timestamp is that of the transfer's block.
GetHeader(r) ==
    /\ pc[r] = "getHeader"
    /\ header' = [header EXCEPT ![r] =
         LC!RelayedHeader(clientState.LatestHeight, provedHeight[r],
                          evmTransferBlockNumber[r])]
    /\ Goto(r, "update")
    /\ UNCHANGED <<lcVars, ethVars, simVars, evmTransferBlockNumber, provedHeight>>

UpdateGroth16LightClient(r) ==
    /\ pc[r] = "update"
    /\ Broadcast(r, [kind |-> "update", by |-> r, header |-> header[r]], "updating")

\* getMPTProof: what eth_getProof returns for block n proves against its root.
GetMPTProof(n) == evmChain[n].root

\* createMsgRecvPacket: the proof height is the block of the transfer.
RelayFromEvmToSimapp(r) ==
    LET n == evmTransferBlockNumber[r]
    IN  /\ pc[r] = "relay"
        /\ Broadcast(r, [kind |-> "recv", by |-> r, proofHeight |-> n,
                         proofRoot |-> GetMPTProof(n)], "relaying")

\* getFullyPopulatedResponse finds the transaction in a block.
TxLanded(r) ==
    /\ pc[r] \in {"updating", "relaying"}
    /\ txResult[r] # None
    /\ Goto(r, IF txResult[r] = "error" THEN "failed"
               ELSE IF pc[r] = "updating" THEN "relay" ELSE "done")
    /\ UNCHANGED <<lcVars, ethVars, simVars, evmTransferBlockNumber, provedHeight, header>>

\* An RPC error, or a poll that gives up before its transaction is included:
\* the command exits, what it submitted stays pending.
GiveUp(r) ==
    /\ Faults
    /\ pc[r] \notin Ended
    /\ Goto(r, "failed")
    /\ UNCHANGED <<lcVars, ethVars, simVars, evmTransferBlockNumber, provedHeight, header>>

Step(r) ==
    \/ Approve(r) \/ CheckAllowance(r) \/ SendTransferBackMsg(r) \/ SendPacketEvent(r)
    \/ ProveLatest(r) \/ ProveTrusted(r) \/ GetHeader(r)
    \/ UpdateGroth16LightClient(r) \/ RelayFromEvmToSimapp(r) \/ TxLanded(r)

IncludePending == \E k \in 1..Len(ethMempool) : EvmBlock(k, TRUE)

Next ==
    \/ \E changed \in BOOLEAN : EvmBlock(0, changed)
    \/ IncludePending
    \/ CreateClient
    \/ DeliverTx
    \/ \E r \in Invocations, h \in DOMAIN evmChain : OtherRelayer(r, h)
    \/ \E r \in Invocations : Step(r) \/ GiveUp(r)

Spec == Init /\ [][Next]_vars

\* The roll-up includes pending transactions, SimApp runs pending transactions,
\* and a running command goes on.
FairSpec ==
    /\ Spec
    /\ WF_vars(IncludePending)
    /\ WF_vars(DeliverTx)
    /\ \A r \in Invocations : WF_vars(Step(r))

-----------------------------------------------------------------------------
(* Properties.                                                             *)

\* ARCHITECTURE.md: "funds can not be unlocked if they are minted on the other
\* chain".  Whatever interleaves, escrowed tokens back the minted ones and the
\* burnt ones that are still on their way, one for one.
Conservation ==
    escrow = supply + Cardinality(Committed \ packetReceipts)

\* SimApp releases tokens only for a packet that a sendTransfer burnt for, in a
\* block whose state the light client verified: verifyMembership needs a stored
\* root that commits to the packet.
UnlockedWasBurnt ==
    \A p \in packetReceipts :
        /\ p \in Committed
        /\ \E h \in DOMAIN consensusStates : p \in consensusStates[h].StateRoot.commitments

\* transferBack() returns without error only when its tokens were released: the
\* result it polls is that of its own MsgRecvPacket, whatever else is pending,
\* was relayed by others or was submitted by an invocation that gave up.
DoneMeansUnlocked ==
    \A r \in Invocations : pc[r] = "done" => r \in packetReceipts

\* The command never hangs: once it has submitted its approval it ends, with or
\* without success, if the two chains go on including transactions.
EveryInvocationEnds ==
    \A r \in Invocations : pc[r] = "approving" ~> pc[r] \in Ended

\* The steps of the relayers and of SimApp are steps of the light client: the
\* headers they build are among those its own specification allows.
LightClientSpec == LC!Spec

\* ARCHITECTURE.md: "the EVM rollup would burn tokens and SimApp would unlock
\* them."
BurntIsUnlocked ==
    \A r \in Invocations : r \in Committed ~> r \in packetReceipts
=============================================================================
