----------------------------- MODULE TransferOut ----------------------------
(***************************************************************************)
(* The transfer of tokens from SimApp to the EVM roll-up, as the demo      *)
(* tool's transfer command drives it (testing/demo/pkg/transfer): send the *)
(* packet on SimApp, have the celestia-prover prove SimApp's latest header *)
(* and update the Tendermint client contract, have it prove the packet's   *)
(* commitment, and submit both the packet and the proof to the roll-up.    *)
(* Several invocations may run at once with the same two accounts.         *)
(*                                                                         *)
(* An invocation's packet carries its name; amounts are counted in units   *)
(* of transferAmount.  The app hash in SimApp's header n commits to the    *)
(* state after block n - 1.  External: SimApp's and the roll-up's mempools *)
(* and modules, the contracts, SP1.  Left out: packet timeouts, and        *)
(* balances that are only printed at the end.                              *)
(***************************************************************************)
EXTENDS Naturals, Sequences, FiniteSets

CONSTANTS
    Invocations,     \* the runs of transfer
    Balances,        \* units the sender may have at first
    Faults,          \* whether an RPC may fail or a poll may give up
    MaxSimHeight     \* bound: SimApp blocks

ASSUME TransferOutAssumption ==
    /\ IsFiniteSet(Invocations) /\ IsFiniteSet(Balances) /\ Balances \subseteq Nat
    /\ MaxSimHeight > Cardinality(Invocations)

VARIABLES
    simHeight,        \* SimApp's latest block
    simMempool,       \* SimApp transactions of the account: at most one
    commitments,      \* packet -> the SimApp block that committed it
    balance, escrow,  \* units the sender has, units in SimApp's escrow account
    txResult,         \* invocation -> result of its MsgSendPacket
    ethMempool,       \* pending EVM transactions of the account, by nonce
    receipt,          \* invocation -> status of its last EVM transaction
    trusted,          \* SimApp heights in the Tendermint client contract
    clientHeight,     \* the contract's latestHeight
    received,         \* packets the router has received
    supply,           \* supply of the IBC ERC20 token
    pc,               \* invocation -> where transferSimAppToEVM() is
    proof,            \* invocation -> its state transition proof: [from, to]
    membership        \* invocation -> its membership proof: [height, found]

simVars == <<simHeight, simMempool, commitments, balance, escrow, txResult>>
ethVars == <<ethMempool, receipt, trusted, clientHeight, received, supply>>
runVars == <<pc, proof, membership>>
vars == <<simVars, ethVars, runVars>>

None == "none"
Ended == {"done", "failed"}
NoProof == [from |-> 0, to |-> 0]
NoMembership == [height |-> 0, found |-> FALSE]

\* The packet's commitment is in the state that header n commits to.
CommittedBy(packet, n) == packet \in DOMAIN commitments /\ commitments[packet] < n

\* The contract is deployed with a header of SimApp.
Init ==
    /\ simHeight = 1 /\ simMempool = <<>>
    /\ commitments = [p \in {} |-> 0]
    /\ balance \in Balances /\ escrow = 0
    /\ txResult = [r \in Invocations |-> None]
    /\ ethMempool = <<>>
    /\ receipt = [r \in Invocations |-> None]
    /\ trusted = {1} /\ clientHeight = 1
    /\ received = {} /\ supply = 0
    /\ pc = [r \in Invocations |-> "submit"]
    /\ proof = [r \in Invocations |-> NoProof]
    /\ membership = [r \in Invocations |-> NoMembership]

Goto(r, label) == pc' = [pc EXCEPT ![r] = label]

-----------------------------------------------------------------------------
(* SimApp (external).                                                      *)

\* The bound leaves room for the sends that are still to come.
EmptySimBlock ==
    /\ simHeight + Cardinality(Invocations) < MaxSimHeight + Cardinality(DOMAIN commitments)
    /\ simHeight' = simHeight + 1
    /\ UNCHANGED <<simMempool, commitments, balance, escrow, txResult, ethVars, runVars>>

\* Faulty variant of the next definition: the commitment outlives the failure.
DeliverTxKeepsCommitment ==
    /\ simMempool # <<>>
    /\ simMempool' = <<>>
    /\ simHeight' = simHeight + 1
    /\ LET r == simMempool[1]
       IN  /\ commitments' = [p \in DOMAIN commitments \cup {r} |->
                                IF p = r THEN simHeight + 1 ELSE commitments[p]]
           /\ IF balance > 0
              THEN balance' = balance - 1 /\ escrow' = escrow + 1
              ELSE UNCHANGED <<balance, escrow>>
           /\ txResult' = [txResult EXCEPT ![r] = IF balance > 0 THEN "ok" ELSE "error"]
    /\ UNCHANGED <<ethVars, runVars>>

\* A block with the pending MsgSendPacket: escrow and commit, or fail.
DeliverTx ==
    /\ simMempool # <<>>
    /\ simMempool' = <<>>
    /\ simHeight' = simHeight + 1
    /\ LET r == simMempool[1]
       IN  IF balance > 0
           THEN /\ commitments' = [p \in DOMAIN commitments \cup {r} |->
                                     IF p = r THEN simHeight + 1 ELSE commitments[p]]
                /\ balance' = balance - 1 /\ escrow' = escrow + 1
                /\ txResult' = [txResult EXCEPT ![r] = "ok"]
           ELSE /\ txResult' = [txResult EXCEPT ![r] = "error"]
                /\ UNCHANGED <<commitments, balance, escrow>>
    /\ UNCHANGED <<ethVars, runVars>>

-----------------------------------------------------------------------------
(* The roll-up (external): its contracts run the account's transactions in *)
(* nonce order.                                                            *)

\* The client contract trusts the header a proof ends at if it trusts the one the
\* proof starts at.
UpdateClient(tx) ==
    /\ tx.kind = "update"
    /\ IF tx.proof.from \in trusted
       THEN /\ trusted' = trusted \cup {tx.proof.to}
            /\ clientHeight' = IF tx.proof.to > clientHeight THEN tx.proof.to ELSE clientHeight
            /\ receipt' = [receipt EXCEPT ![tx.by] = "successful"]
       ELSE /\ receipt' = [receipt EXCEPT ![tx.by] = "reverted"]
            /\ UNCHANGED <<trusted, clientHeight>>
    /\ UNCHANGED <<received, supply>>

\* The router passes the packet on once, if the client contract accepts the
\* proof at the height: it must hold the header, and the proof the commitment.
RecvPacketSucceeds(tx) ==
    \/ tx.by \in received
    \/ tx.membership.height \in trusted /\ tx.membership.found

RecvPacket(tx) ==
    /\ tx.kind = "recv"
    /\ IF RecvPacketSucceeds(tx)
       THEN /\ received' = received \cup {tx.by}
            /\ supply' = IF tx.by \in received THEN supply ELSE supply + 1
            /\ receipt' = [receipt EXCEPT ![tx.by] = "successful"]
       ELSE /\ receipt' = [receipt EXCEPT ![tx.by] = "reverted"]
            /\ UNCHANGED <<received, supply>>
    /\ UNCHANGED <<trusted, clientHeight>>

\* The next pending transaction is in a block.  Nothing here depends on the
\* roll-up's height, so a block with several transactions is several steps.
IncludePending ==
    /\ ethMempool # <<>>
    /\ UpdateClient(Head(ethMempool)) \/ RecvPacket(Head(ethMempool))
    /\ ethMempool' = Tail(ethMempool)
    /\ UNCHANGED <<simVars, runVars>>

SubmitEth(r, tx) ==
    /\ ethMempool' = Append(ethMempool, tx)
    /\ receipt' = [receipt EXCEPT ![r] = None]
    /\ UNCHANGED <<simVars, trusted, clientHeight, received, supply>>

-----------------------------------------------------------------------------
(* The steps of transferSimAppToEVM().                                     *)

\* submitMsgTransfer, after the verifier keys were compared.  The transaction is
\* signed with the committed sequence number: one pending transaction at most.
SubmitMsgTransfer(r) ==
    /\ pc[r] = "submit"
    /\ IF simMempool = <<>>
       THEN simMempool' = <<r>> /\ Goto(r, "submitting")
       ELSE Goto(r, "failed") /\ UNCHANGED simMempool
    /\ UNCHANGED <<simHeight, commitments, balance, escrow, txResult, ethVars, proof, membership>>

TxLanded(r) ==
    /\ pc[r] = "submitting"
    /\ txResult[r] # None
    /\ Goto(r, IF txResult[r] = "ok" THEN "proveTrusted" ELSE "failed")
    /\ UNCHANGED <<simVars, ethVars, proof, membership>>

\* celestia-prover, prove_state_transition: the contract's height, ...
GetTrustedBlock(r) ==
    /\ pc[r] = "proveTrusted"
    /\ proof' = [proof EXCEPT ![r].from = clientHeight]
    /\ Goto(r, "proveTarget")
    /\ UNCHANGED <<simVars, ethVars, membership>>

\* ... then SimApp's latest header, which must be a later one to be proved.
GetTargetBlock(r) ==
    /\ pc[r] = "proveTarget"
    /\ proof' = [proof EXCEPT ![r].to = simHeight]
    /\ Goto(r, IF simHeight > proof[r].from THEN "update" ELSE "failed")
    /\ UNCHANGED <<simVars, ethVars, membership>>

UpdateTendermintLightClient(r) ==
    /\ pc[r] = "update"
    /\ SubmitEth(r, [kind |-> "update", by |-> r, proof |-> proof[r]])
    /\ Goto(r, "updating")
    /\ UNCHANGED <<proof, membership>>

\* What the membership program commits to: the header's height and whether the
\* value under the packet's path is in the state that the header commits to.
MembershipProof(packet, n) == [height |-> n, found |-> CommittedBy(packet, n)]

\* Faulty variant of the next definition: SimApp's latest header is used.
ProveStateMembershipLatest(r) ==
    /\ pc[r] = "membership"
    /\ membership' = [membership EXCEPT ![r] = MembershipProof(r, simHeight)]
    /\ Goto(r, "recv")
    /\ UNCHANGED <<simVars, ethVars, proof>>

\* relayByTx: the contract's height is read again, and the value under the
\* packet's path is proved in the state that header commits to.
ProveStateMembership(r) ==
    /\ pc[r] = "membership"
    /\ membership' = [membership EXCEPT ![r] = MembershipProof(r, clientHeight)]
    /\ Goto(r, "recv")
    /\ UNCHANGED <<simVars, ethVars, proof>>

RelayByTx(r) ==
    /\ pc[r] = "recv"
    /\ SubmitEth(r, [kind |-> "recv", by |-> r, membership |-> membership[r]])
    /\ Goto(r, "relaying")
    /\ UNCHANGED <<proof, membership>>

\* Faulty variants of the next definition: the status is not looked at; a
\* reverted transaction is waited for.
ReceiptFoundAnyStatus(r) ==
    /\ pc[r] \in {"updating", "relaying"}
    /\ receipt[r] # None
    /\ Goto(r, IF pc[r] = "updating" THEN "membership" ELSE "done")
    /\ UNCHANGED <<simVars, ethVars, proof, membership>>
ReceiptFoundSuccess(r) ==
    /\ pc[r] \in {"updating", "relaying"}
    /\ receipt[r] = "successful"
    /\ Goto(r, IF pc[r] = "updating" THEN "membership" ELSE "done")
    /\ UNCHANGED <<simVars, ethVars, proof, membership>>

\* getTxReciept found the receipt; its status is looked at.
ReceiptFound(r) ==
    /\ pc[r] \in {"updating", "relaying"}
    /\ receipt[r] # None
    /\ Goto(r, IF receipt[r] = "reverted" THEN "failed"
               ELSE IF pc[r] = "updating" THEN "membership" ELSE "done")
    /\ UNCHANGED <<simVars, ethVars, proof, membership>>

\* An RPC error, different verifier keys, or a poll that gives up: the command
\* exits, what it submitted stays pending.
GiveUp(r) ==
    /\ Faults
    /\ pc[r] \notin Ended
    /\ Goto(r, "failed")
    /\ UNCHANGED <<simVars, ethVars, proof, membership>>

Step(r) ==
    \/ SubmitMsgTransfer(r) \/ TxLanded(r)
    \/ GetTrustedBlock(r) \/ GetTargetBlock(r) \/ UpdateTendermintLightClient(r)
    \/ ProveStateMembership(r) \/ RelayByTx(r) \/ ReceiptFound(r)

Next ==
    \/ EmptySimBlock
    \/ DeliverTx
    \/ IncludePending
    \/ \E r \in Invocations : Step(r) \/ GiveUp(r)

Spec == Init /\ [][Next]_vars

\* Both chains include what is pending, and a running command goes on.
FairSpec ==
    /\ Spec
    /\ WF_vars(DeliverTx)
    /\ WF_vars(IncludePending)
    /\ \A r \in Invocations : WF_vars(Step(r))

-----------------------------------------------------------------------------
(* Properties.                                                             *)

\* Tokens on the roll-up are backed one for one by escrowed tokens on SimApp,
\* together with the packets that are committed and not yet received, through
\* any interleaving of transfers, retried blocks and abandoned commands.
MintedIsBacked ==
    /\ received \subseteq DOMAIN commitments
    /\ escrow = supply + Cardinality(DOMAIN commitments \ received)

\* transferSimAppToEVM() returns without error only when its own packet was
\* received: the receipt it waits for is that of its RecvPacket.
DoneMeansReceived ==
    \A r \in Invocations : pc[r] = "done" => r \in received

\* A membership proof is for a header the contract holds and, if it shows the
\* commitment, for one after the block of the send, although the contract's
\* height is read again and may have been moved by another invocation.
MembershipAtTrustedHeader ==
    \A r \in Invocations :
        membership[r] # NoMembership =>
            /\ membership[r].height \in trusted
            /\ membership[r].height >= proof[r].to
            /\ membership[r].found <=> commitments[r] < membership[r].height

\* The command never hangs: it ends, with or without success, if both chains go
\* on including transactions.
EveryTransferEnds ==
    \A r \in Invocations : pc[r] = "submitting" ~> pc[r] \in Ended
=============================================================================
