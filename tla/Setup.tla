-------------------------------- MODULE Setup -------------------------------
(***************************************************************************)
(* The setup tool (testing/demo/pkg/setup), which connects the two chains: *)
(* it creates the Groth16 client on SimApp, deploys the IBC contracts on   *)
(* the roll-up, adds the Tendermint client to their router and registers   *)
(* the counterparty on SimApp.  Every step may fail, which ends the run;   *)
(* what was submitted stays pending, and the tool is run again from its    *)
(* beginning.  Nothing is undone.                                          *)
(*                                                                         *)
(* Both client identifiers are constants of the tool: "08-groth16-0", the  *)
(* first client SimApp ever creates, and "07-tendermint-0", a key of each  *)
(* deployment's router.  External: ibc-go, which lets only the recorded    *)
(* creator of a client register its counterparty and then forgets it; the  *)
(* contracts; the mempools; forge, which writes the addresses of what it   *)
(* deployed to run-latest.json.                                            *)
(***************************************************************************)
EXTENDS Naturals, Sequences

CONSTANTS
    MaxRetries,       \* polls for a first EVM block (30 in the code)
    Faults,           \* whether RPCs, forge and polls may fail
    MaxRuns,          \* bound: runs of the tool
    MaxEvmHeight      \* bound: EVM blocks

ASSUME SetupAssumption ==
    MaxRetries \in Nat \ {0} /\ MaxRuns \in Nat /\ MaxEvmHeight \in Nat

VARIABLES
    evmHeight,        \* the roll-up's latest block; 0 is genesis
    clients,          \* SimApp: heights of its Groth16 clients, in order of creation
    creators,         \* clients whose creator is still recorded
    counterparties,   \* clients with a registered counterparty
    simMempool,       \* SimApp transactions of the relayer account: at most one
    routers,          \* deployed routers, TRUE once they have the Tendermint client
    runLatest,        \* deployment that run-latest.json names, 0 if none
    ethMempool,       \* routers with a pending addClient
    runs,             \* runs of the tool so far
    pc,               \* where the current run is
    retryCount,       \* its polls for a first block
    latestBlock,      \* its latest block
    txResult          \* result of its last SimApp transaction

chains == <<evmHeight, clients, creators, counterparties, simMempool, routers, ethMempool>>
locals == <<retryCount, latestBlock>>
vars == <<chains, runLatest, runs, pc, locals, txResult>>

Ended == {"done", "failed"}
groth16ClientID == 1     \* position of "08-groth16-0"

Init ==
    /\ evmHeight = 0
    /\ clients = <<>> /\ creators = {} /\ counterparties = {}
    /\ simMempool = <<>>
    /\ routers = <<>> /\ runLatest = 0 /\ ethMempool = {}
    /\ runs = 0 /\ pc = "failed"
    /\ retryCount = 0 /\ latestBlock = 0
    /\ txResult = "none"

-----------------------------------------------------------------------------
(* The chains (external).                                                  *)

EvmBlock ==
    /\ evmHeight < MaxEvmHeight
    /\ evmHeight' = evmHeight + 1
    /\ UNCHANGED <<clients, creators, counterparties, simMempool, routers, ethMempool,
                   runLatest, runs, pc, locals, txResult>>

AddClient ==
    /\ \E d \in ethMempool : /\ routers' = [routers EXCEPT ![d] = TRUE]
                             /\ ethMempool' = ethMempool \ {d}
    /\ UNCHANGED <<evmHeight, clients, creators, counterparties, simMempool,
                   runLatest, runs, pc, locals, txResult>>

\* A transaction of an earlier run has nobody who waits for its result.
DeliverTx ==
    /\ simMempool # <<>>
    /\ simMempool' = <<>>
    /\ LET tx == simMempool[1]
           ok == tx.kind = "create" \/ groth16ClientID \in creators
           mine == tx.run = runs
       IN  /\ txResult' = IF mine THEN IF ok THEN "ok" ELSE "error" ELSE txResult
           /\ IF tx.kind = "create"
              THEN /\ clients' = Append(clients, tx.height)
                   /\ creators' = creators \cup {Len(clients) + 1}
                   /\ UNCHANGED counterparties
              ELSE /\ creators' = creators \ {groth16ClientID}
                   /\ counterparties' = IF ok THEN counterparties \cup {groth16ClientID}
                                              ELSE counterparties
                   /\ UNCHANGED clients
    /\ UNCHANGED <<evmHeight, routers, ethMempool, runLatest, runs, pc, locals>>

-----------------------------------------------------------------------------
(* A run of the tool.                                                      *)

Run ==
    /\ pc \in Ended
    /\ runs < MaxRuns
    /\ runs' = runs + 1
    /\ pc' = "latest"
    /\ retryCount' = 0 /\ latestBlock' = 0
    /\ txResult' = "none"
    /\ UNCHANGED <<chains, runLatest>>

\* Faulty variant of the next definition: no limit.
GetLatestBlockForever ==
    /\ pc = "latest"
    /\ evmHeight > 0
    /\ latestBlock' = evmHeight
    /\ pc' = "create"
    /\ UNCHANGED <<chains, runLatest, runs, retryCount, txResult>>

\* getGenesisAndLatestBlock: ask until there is a block after genesis.
GetLatestBlock ==
    /\ pc = "latest"
    /\ IF evmHeight > 0
       THEN /\ latestBlock' = evmHeight
            /\ pc' = "create"
            /\ UNCHANGED retryCount
       ELSE /\ retryCount' = retryCount + 1
            /\ pc' = IF retryCount + 1 >= MaxRetries THEN "failed" ELSE "latest"
            /\ UNCHANGED latestBlock
    /\ UNCHANGED <<chains, runLatest, runs, txResult>>

\* Signed with the account's committed sequence number: refused while another
\* transaction, perhaps of an earlier run, is pending.
Broadcast(tx, label) ==
    /\ IF simMempool = <<>>
       THEN simMempool' = <<tx>> /\ txResult' = "none" /\ pc' = label
       ELSE pc' = "failed" /\ UNCHANGED <<simMempool, txResult>>
    /\ UNCHANGED <<evmHeight, clients, creators, counterparties, routers, ethMempool,
                   runLatest, runs, locals>>

CreateGroth16LightClient ==
    /\ pc = "create"
    /\ Broadcast([kind |-> "create", height |-> latestBlock, run |-> runs], "creating")

\* deployEurekaContracts and the addresses it leaves.
DeployEurekaContracts ==
    /\ pc = "deploy"
    /\ routers' = Append(routers, FALSE)
    /\ runLatest' = Len(routers) + 1
    /\ pc' = "addClient"
    /\ UNCHANGED <<evmHeight, clients, creators, counterparties, simMempool, ethMempool,
                   runs, locals, txResult>>

\* forge fails when the transactions are already on their way.
DeployFails ==
    /\ Faults
    /\ pc = "deploy"
    /\ routers' = Append(routers, FALSE)
    /\ runLatest' \in {runLatest, Len(routers) + 1}
    /\ pc' = "failed"
    /\ UNCHANGED <<evmHeight, clients, creators, counterparties, simMempool, ethMempool,
                   runs, locals, txResult>>

\* addClientToRouter, on the deployment that run-latest.json names.
AddClientToRouter ==
    /\ pc = "addClient"
    /\ ethMempool' = ethMempool \cup {runLatest}
    /\ pc' = "adding"
    /\ UNCHANGED <<evmHeight, clients, creators, counterparties, simMempool, routers,
                   runLatest, runs, locals, txResult>>

\* Faulty variant of the next definition: the receipt is not waited for.
ClientAddedAnyway ==
    /\ pc = "adding"
    /\ pc' = "register"
    /\ UNCHANGED <<chains, runLatest, runs, locals, txResult>>

\* getTxReceipt and the ICS02ClientAdded event.
ClientAdded ==
    /\ pc = "adding"
    /\ routers[runLatest]
    /\ pc' = "register"
    /\ UNCHANGED <<chains, runLatest, runs, locals, txResult>>

RegisterCounterparty ==
    /\ pc = "register"
    /\ Broadcast([kind |-> "register", run |-> runs], "registering")

TxLanded ==
    /\ pc \in {"creating", "registering"}
    /\ txResult # "none"
    /\ pc' = IF txResult = "error" THEN "failed"
             ELSE IF pc = "creating" THEN "deploy" ELSE "done"
    /\ UNCHANGED <<chains, runLatest, runs, locals, txResult>>

\* An RPC, a health check or a poll fails.
GiveUp ==
    /\ Faults
    /\ pc \notin Ended
    /\ pc' = "failed"
    /\ UNCHANGED <<chains, runLatest, runs, locals, txResult>>

Step ==
    \/ GetLatestBlock \/ CreateGroth16LightClient
    \/ DeployEurekaContracts \/ AddClientToRouter \/ ClientAdded
    \/ RegisterCounterparty \/ TxLanded

Next == EvmBlock \/ AddClient \/ DeliverTx \/ Run \/ Step \/ DeployFails \/ GiveUp

Spec == Init /\ [][Next]_vars

\* Both chains include what is pending, and a running tool goes on.
FairSpec == Spec /\ WF_vars(AddClient) /\ WF_vars(DeliverTx) /\ WF_vars(Step)

-----------------------------------------------------------------------------
(* Properties.                                                             *)

\* A run of main() that returns has connected the chains in both directions,
\* through whatever runs failed before it: the client the transfer tools name
\* has a counterparty, and so has the router of the deployment they will read.
DoneMeansConnected ==
    pc = "done" => /\ groth16ClientID \in counterparties
                   /\ runLatest # 0 /\ routers[runLatest]

\* The tool never hangs, also on a roll-up that produces no block.
SetupEnds == pc = "latest" ~> pc \in Ended
=============================================================================
