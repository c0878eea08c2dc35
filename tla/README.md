# A TLA+ verification of the zkEVM IBC demo

The repository connects SimApp, a Cosmos SDK chain, with an EVM roll-up that
posts its blocks to Celestia. Tokens move with IBC v2 packets in both
directions. SimApp follows the roll-up with a Groth16 light client; the roll-up
follows SimApp with a Tendermint client contract. This directory models the
parts of that system that keep state or run concurrently and checks them with TLC
on small instances. Every safety property that a run checks is also proved with
TLAPS, for every value of the constants.

## 1. Inventory

| part | where | module | what it does |
|---|---|---|---|
| Groth16 light client | `ibc/lightclients/groth16` | `Groth16Client`, `Groth16Pruning`, `Groth16Store` | verified EVM state roots in SimApp's store; create, update, membership, pruning |
| trie proofs | `ibc/mpt` | `Groth16Store` | membership of a commitment under a state root |
| abstract light client | | `EvmLightClient` | what any light client of the roll-up promises |
| transfer-back command | `testing/demo/pkg/transfer` | `TransferBack` | burn on the roll-up, prove, update the client, unlock on SimApp |
| transfer command, celestia-prover | `testing/demo/pkg/transfer`, `provers/celestia-prover` | `TransferOut` | escrow on SimApp, prove, update the contract, mint on the roll-up |
| evm-prover, blevm library and circuits | `provers/evm-prover`, `provers/blevm` | `EvmProver` | proofs of ranges of roll-up blocks |
| indexer | `indexer` | `Indexer` | where on Celestia each roll-up block is |
| setup tool | `testing/demo/pkg/setup` | `Setup` | creates and connects both clients |
| polling helper | `testing/demo/pkg/utils` | `Polling` | how the tools wait for transactions |
| header module | `x/header` | `HeaderKeeper` | a window of recent header hashes (not wired into `app.go`) |
| SimApp upgrades | `simapp/upgrades.go`, `simapp/upgrades`, `simapp/app.go` | `Upgrades` | upgrade handlers, store upgrades, restarts |
| SimApp genesis export | `simapp/export.go`, `simapp/simd/cmd/root.go` | `Export` | a genesis from a running chain, also for height zero |
| SimApp wiring, generated code, RPC wrappers, scripts, balance query | `simapp`, `testing/demo/pkg/ethereum`, ... | | not modelled, see section 7 |

How they interact: `TransferBack` asks the evm-prover for a proof from the light
client's height to the roll-up's latest block; the evm-prover asks the indexer
where these blocks are on Celestia; the proof updates the light client; the
packet is then received on SimApp against a root the client holds. `TransferOut`
is the way there, with the celestia-prover and the contract in these roles.

External, and modelled only from how the code uses them: ibc-go's keepers, the
Solidity contracts, both mempools, reth, the Celestia node, SP1, forge, and the
Cosmos SDK modules (upgrade, staking, distribution, slashing, crisis) and its
multi-store that upgrades and exports work on.

## 2. Modules

Data is abstracted to what the properties tell apart; control is kept. A packet
carries the name of the command invocation that sent it and amounts are counted
in units of the amount the tools transfer. A roll-up state root is the number of
state changes behind it and the packet commitments under it, so an empty block
keeps the root of the one before. A header hash is a block number.

**`Groth16Client`** has the client's store as variables: `clientState`,
`consensusStates`, `processedTime`, `processedHeight`, `iterationKeys`.
`Initialize` is MsgCreateClient, `UpdateClient` is MsgUpdateClient as ibc-go runs
it (`VerifyClientMessage`, then `UpdateState`). A failing handler leaves the
store as it was, so only success is an action. `VerifyMembership` is a predicate:
reads do not change the store. `RelayedHeader` says which headers an honest
relayer can build: height and root come from the proof, the trusted height is
any it once saw, the time is that of a block it knew earlier. The soundness of
SP1 proofs is thereby assumed. SimApp's clock also counts its blocks; the
roll-up's blocks take their time from it.

**`EvmLightClient`** is the abstract specification: a growing chain of roots and
a partial copy of it that is never revised. `Groth16Client` implements it with
`chain` the roots of `evmChain` and `trusted` the stored roots (`AbstractSpec`).

**`Groth16Pruning`** extends `Groth16Client` with pruning of expired states, which
is in `store.go` and which no handler calls yet; it may happen at any time.

**`Groth16Store`** is the same client one level down. Its one variable `kv` is the
key-value store, with the keys the code builds: heights are decimal after
`consensusStates/` and big-endian in iteration keys, and iterators follow the byte
order (`First` and `Last` are where an iterator in either direction starts; what
visits all keys is the set of keys). Every `Set`, `Get` and `Delete` of `store.go`
is an operator of that name, a `Delete` for all the heights pruning collected;
so are the iterations, the neighbours of a height, pruning with its callback, the
module's queries and both membership tests. A membership proof is what
`eth_getProof` returns, two lists of trie nodes and an account, and a relayer may
put its parts together from two blocks; `ReconstructProofDB` stores small nodes
under themselves, as the code does. A trie is a branch with a leaf for each key
and keccak is injective. `Groth16Store` implements `Groth16Pruning`
(`StoreRefines`), which is `Groth16Client` with one more action: three levels from
bytes to `EvmLightClient`, except that pruning forgets roots.

**`TransferBack`** composes the light client (as `INSTANCE`) with the command.
`pc` is where `transferBack()` is for each invocation; each blocking call ends an
action. `EvmBlock` applies pending transactions in nonce order. SimApp refuses a
second transaction of the account while one is pending (`Broadcast`), as the
tools sign with the committed sequence number. `GiveUp` is any RPC failure or
abandoned poll; what was submitted stays pending. `OtherRelayer` relays any
packet at any height. The evm-prover's two height reads are separate steps.

**`TransferOut`** has the same structure for the other direction. A SimApp header
commits to the state before its own block, so a packet is provable only from the
next header on. The celestia-prover's reads (trusted height, latest header, the
contract's height again for membership) are separate steps.

**`PacketTransfer`** is the abstract specification of both: packets are sent at most
once, each with a unit of the source, and received at most once, each adding a unit
to the destination. For `TransferBack` the source is the supply on the roll-up and
the destination what was released from the escrow (`Escrowed - escrow`); for
`TransferOut` they are the sender's balance and the supply. That the transfers
implement it is proved, and is no property of a run.

**`EvmProver`** has the locals of `prove_state_transition` as variables while the
roll-up, the client's height and the indexer's map change. `BlevmOutput`,
`Adjacent`, `BlevmAggOutput` are the circuits' outputs and the aggregator's
assertion; `ProveBlockRange` panics for fewer than two blocks. `OdsIndex` is the
arithmetic by which `get_stdin` finds a blob's shares: Celestia counts a share in
the rows of the extended square, the shares are taken from the original one.

**`Indexer`** has one task for the main loop and one for each backfill goroutine.
The two kinds of database transaction of `processHeight` are separate steps, and
each may fail: a refused mapping is remembered in `lost`. Blobs that do not decode
are the value `Junk`. Heights wrap at `Bits`, the API's block numbers at `ApiBits`.
A signal closes the shutdown channel and cancels the context (`Signal`); the main
loop and the API server stop in their own time, and `Exit` is the return of `main`,
which does not wait for backfills. Restarts, broken connections and failed calls
are counted and bounded.

**`Setup`** runs `main()` again and again; each step may fail, and what a failed
run left on either chain and in `run-latest.json` stays.

**`Polling`** is `WaitForCondition` step by step with time in seconds, for the
function that polls receipts, the one that polls SimApp, and any function.

**`HeaderKeeper`** is the header module's `BeginBlocker` with unsigned heights, and
`ExportAndInitGenesis`: the module exports nothing, so a chain started from an
export has no saved headers, at height one or at the height it continues from.

**`Upgrades`** is one node of a chain through software upgrades. `chain` is the last
commit, `working` the block being executed, `file` is `upgrade-info.json`, `node`
the process with its binary, flag and store loader. `StartUpgrade` is the operator
who follows the plan, `StartAny` any binary with any `--unsafe-skip-upgrades`;
`StoreUpgrades` is what `registerUpgradeHandlers` does with the file and
`UpgradeHandler` the five handlers. The multi-store opens only stores that have the
version of the last commit or are being added; otherwise `NewSimApp` panics and the
start does not happen. `PreBlockStops` is the upgrade module's panic at a plan's
height. `MCUpgrades` names two earlier releases.

**`Export`** is `simd export` and the start of a chain from what it wrote.
`prepForZeroHeightGenesis` is one operator per stage, in the code's order:
withdraw, `ClearDistribution`, `ReinitValidators`, `ReinitDelegations`,
`ResetStaking`, `ApplyAndReturnValidatorSetUpdates`, `ResetSigningInfos`. Between
exports, blocks allocate fees, slash, unjail, undelegate and redelegate. Amounts
are counted in fractions of a coin, so that remainders occur. A panic of the
export writes nothing. `MCExport` names a small set of delegations.

The theorems (section 5) are in modules of their own: `Groth16ClientProofs`,
`Groth16StoreProofs`, `TransferBackProofs` (which uses the first for the light client
in it), `TransferOutProofs`, `ServicesProofs` for `Indexer` and `EvmProver`,
`OperationsProofs` for `Upgrades`, `HeaderKeeper`, `Setup` and `Polling`, and
`ExportProofs`, which rests on `DistributionProofs`.

Operators marked "faulty variant" are what a plausible mistake would turn the
following definition into. No specification uses them; each is there to show
that some property notices.

## 3. Runs

| run | what it asks |
|---|---|
| `groth16_client` | Do creation and updates in any order, late, repeated and from any stored trusted height, keep the store consistent, its roots those of the roll-up, its membership answers sound and stable, and implement `EvmLightClient`? |
| `groth16_store` | On the real key layout, with pruning at any time: does the store still do what separate maps would, are neighbours right in byte order, is a metadata export complete, does a proof of trie nodes decide the abstract membership test? |
| `transfer_back` | With two concurrent commands, other relayers and failures: are tokens conserved, is only what was burnt unlocked, does success mean one's own tokens, is every header one that the light client's specification allows, does every command end? |
| `transfer_out` | The same for the other direction, with a balance for one or for two transfers. |
| `indexer` | Main loop against backfills, with a broken connection, a restart, a failed call, a database error and a signal: are the answers right, is the last processed height indexed, does a broken connection alone lose nothing, does the process end? |
| `evm_prover` | Does a response cover exactly the range that was read although everything moves meanwhile; are the shares it proves the blob's; is every request answered; is an indexed range of two blocks proved? |
| `setup` | After any failed runs, does a run that returns leave both chains connected; does every run end? |
| `polling` | Does a wait end, within its deadline and one series of backoffs? |
| `header_keeper` | Is the store a suffix without holes, and exactly the window it should be once the chain is old enough, also after a restart from an export? |
| `upgrade` | Through crashes, wrong binaries, skip flags and a stale file: do handlers and new stores take effect once or not at all, and does a node that stopped for an upgrade come through it? |
| `export` | Whatever happened before, does the exported genesis start a chain whose accounts add up, without a height of the old chain, with exactly the validators jailed that the list demands? |
| `transfer_back_burnt` | violated: burnt tokens need not be unlocked. |

The violated run checks a sentence of the repository's documentation: "the EVM
rollup would burn tokens and SimApp would unlock them" (`docs/ARCHITECTURE.md`).
The command relays with the block of the burn as proof height, but the client
stores only the proof's last block. When a block was produced in between, the
client has no state at the proof height, the command fails and no step of the demo
relays that packet again. (An external relayer could, from a height the client
has.) A range of one block fails earlier, in the aggregation.

Other disagreements met while modelling, which the models contain as the code has
them and no run of their own is spent on:

* `UpdateState` does not compare heights, so an update that was built first and
  lands last moves LatestHeight back, although "LatestHeight is the latest block
  height on the EVM roll-up" (`groth16.proto`). No trusted root is lost by it
  (`RootsNeverRevised`, proved).
* "If we have a last processed height, process any blocks we missed"
  (`indexer/main.go`): the main loop stores new heights as last processed while a
  backfill works on older ones; a restart then resumes above them.
  `MissedBlocksBackfilled` therefore speaks of a process that is not restarted.
* A callback of `IterateConsensusMetadata` that returns true ends only the first of
  its two loops ("iterator will close and stop").
* `verifyNonMembership` looks up the unhashed path in the tree of accounts, never
  in the router's storage; its comment says that it "is not correct".
* `generate_row_proofs` (`proofs.rs`) computes the first row as a rounded-up
  quotient less one, which is the row before at the beginning of a row and wraps
  for index 0; `get_stdin` has that line commented out and divides
  (`SharesOfBlob`).
* A plan for one of the five upgrade names that is scheduled further ahead stops
  this binary at once, as it has the handler already. This binary cannot do "v7" on
  a chain of a release without the circuit store, which only "v8" adds.
* An allow list that leaves out a validator of the power index makes
  `ApplyAndReturnValidatorSetUpdates` panic in an export: its jailed flag is set
  without removing it from the index.
* `ConsensusState.IsExpired` is true before the unbonding time is over and false
  after it, the opposite of its comment; pruning would delete fresh states.
* `getHeader` gives a header the time of the transfer's block although its height
  is the proof's last block (`ProcessedAfterProduced` therefore bounds the
  header's time by the block's and does not equate them).
* `PruneHeaders` subtracts unsigned heights: in the first retention period it
  deletes every saved header (`WindowExact` says what is left). `GetHeaderHash`
  uses the hash it found as the key of a second lookup.
* The evm-prover panics when the roll-up is exactly one block ahead.
* The header the Tendermint contract is updated to may be that of the send's own
  block, which does not include the packet; the transfer then fails.
* `WaitForCondition` returns the error of an earlier retry after a later call
  answered "not yet"; `getFullyPopulatedResponse` ends at the first poll that does
  not find its transaction.
* A second run of setup creates a second Groth16 client and tries to connect
  `08-groth16-0` again.
* The indexer's API parses block numbers with 16 bits.

## 4. Bounds and fairness

Chains are bounded by a number of blocks, failures by counters or the `Faults`
switch. The bounds are the least at which the interesting cases occur:

* `groth16_client`: four EVM blocks allow an update that skips a block, one that
  lands late in between, a repeated height and a client created after the first
  block; one packet suffices because packets do not affect each other in a root.
* `groth16_store`: three blocks, unbonding time 1, clock up to 4: heights are
  pruned, verified again and neighbours have gaps. In radix 3 the third height has
  two digits and sorts before the second; with bytes of base 2 big-endian heights
  use both bytes.
* `transfer_back`: two commands take four blocks and one empty block gives the
  client its first height, so both may succeed, interfere or fail. The violated
  run allows two empty blocks.
* `transfer_out`: two commands and room for empty SimApp blocks before, between
  and after the sends.
* `indexer`: three heights, each with an EVM block or an undecodable blob, two
  faults of any kind and up to three backfills: heights are processed by
  main loop and backfill at once, and the unsigned difference wraps when there is
  nothing to backfill. `MaxBackfill` is no less than the outage, as a longer one
  is cut off deliberately.
* `evm_prover`: three blocks, each at up to two Celestia heights, one retry, squares
  of width 1, 2 and 4.
* `setup`: four runs; three retries for the first block, where the code has 30.
* `polling`: the code's own values, 300 s, 15 s and 5 retries.
* `header_keeper`: retention 20 with 8-bit heights, chains that start before and
  after the retention period and run through more than two periods, one export.
* `upgrade`: five blocks and two plans, so that a file of the first is stale for the
  second; three crashes or wrong starts; flags for either of two heights.
* `export`: two validators, one with two delegations; four blocks and two exports
  let a slash, a redelegation and an undelegation come before an export and a slash
  after the restart; a coin has two parts.

No run checks for deadlock: commands end, and every chain stops at its bound.

Fairness is weak fairness of processes that the operating system schedules (the
steps of a command, the request handler, the indexer's loop and goroutines) and
of chains that include what is pending (`IncludePending`, `DeliverTx`). The
indexer's `LoopStops` is strongly fair, because Go's `select` chooses among ready
cases at random: a closed shutdown channel is not passed over for ever. In
`Upgrades`, a running node goes on with blocks, and an operator whose node stopped
for a plan in the end starts the binary the plan names. Nothing is
assumed about faults, about other relayers, about the roll-up producing blocks
that nobody needs, or about the indexer finding a block.

## 5. Proofs

Eight modules hold theorems. For each component an inductive invariant is defined
and proved (`Invariance`, `Spec => []IInv`, with the component's name in it where a
module has several), and the properties of the runs are drawn from it. The
constants are arbitrary; each module assumes what its `ASSUME` says and nothing
else: bounds are naturals, heights fit their width, sets whose members are counted
are finite. `ServicesProofs` and `OperationsProofs` extend one component and
instantiate the others, so that there the assumption is a hypothesis of the theorem
(`ASSUME P!ProverAssumption PROVE P!Spec => ...`).

| module | theorem | states |
|---|---|---|
| `Groth16ClientProofs` | `StoreConsistency`, `RootSoundness`, `LatestHeightSoundness`, `ProcessedTimeSoundness`, `MembershipSoundness` | each invariant of `groth16_client` |
| | `TypeCorrectness` | its type invariant |
| | `TrustGoesForward` | its action property |
| | `RootsStable` | no step removes a trusted height or changes its root |
| | `Refinement` | the client implements `EvmLightClient` |
| `Groth16StoreProofs` | `PruningKeepsStore`, `MetadataIsComplete`, `NeighboursAreRight`, `MembershipIsRight` | each invariant of `groth16_store` |
| | `StoreRefinement` | the client on keys and bytes implements `Groth16Pruning` |
| `TransferBackProofs` | `EscrowConserved`, `UnlockingIsBacked`, `SuccessMeansUnlocked` | each invariant of `transfer_back` |
| | `ClientRefinement` | every step is a step of the light client's specification |
| | `TransfersBackOnce` | transfers back implement `PacketTransfer` |
| `TransferOutProofs` | `MintingIsBacked`, `SuccessMeansReceived`, `MembershipIsTrusted` | each invariant of `transfer_out` |
| | `TransfersOnce` | transfers to the roll-up implement `PacketTransfer` |
| `ServicesProofs` | `MappingSoundness`, `LastProcessedSoundness` | each invariant of `indexer` |
| | `RangeCovered`, `SharesFound` | each invariant of `evm_prover` |
| `OperationsProofs` | `EffectsOnce` | the invariant of `upgrade` |
| | `SuffixSaved`, `WindowSaved` | each invariant of `header_keeper` |
| | `SetupConnects` | the invariant of `setup` |
| | `DeadlineHolds` | the invariant of `polling` |
| `ExportProofs` | `ExportRestartsCleanly`, `ExportNoHeightSurvives`, `ExportJailedAsListed` | each invariant of `export` |

The inductive invariants, and why the properties alone do not suffice:

* **Light client.** `IInv` has the type invariant, `StoreConsistent`,
  `RootsMatchEvm`, `LatestHeightTrusted`, `ProcessedAfterProduced` and
  `EvmMonotone`: on the roll-up commitments are never removed from a root, block
  times do not go back and are not in the future. It is needed because
  `MembershipSound` speaks of all later blocks, and because a header's time is that
  of an earlier block. That a height sent twice does not change a root follows from
  `RootsMatchEvm` before and after.
* **Its store.** `IInv` says which keys there are: the client state's and, for some
  heights, all four entries, each about its height. The lemmas below it are about
  representation: a height is determined by its decimal digits and by its bytes
  (`DecimalInjective`, `IterationKeyHeight`), keys of different kinds or heights
  differ (`KeysDiffer`), and the order of big-endian bytes is the order of heights
  (`BytesOrder`). For these the bases are any numbers above 1 in which the heights
  have two digits; the code's have more, and the argument about the first digit
  that differs is the same. `MembershipIsRight` rests on `ReadTrie`, what a walk
  answers to the nodes of some trie, and on `StateRoots`: roots with the same hash
  are the same.
* **Transfer back.** `Conservation` counts packets that are committed and not yet
  received, so it needs that a burn happens once. `BurnOnce` says that an
  invocation that has not sent has no transfer pending and none committed.
  `HeightsKnown` says that heights and headers an invocation keeps are the
  roll-up's, so that `UpdateClient` is a step the client's specification allows,
  `PendingSound` that the transaction in SimApp's mempool is the one its invocation
  waits for. A block applies a sequence of transactions; what each of them keeps is
  proved by a least counterexample (`LeastNat`), as induction is not available. The
  client's part of the invariant is `Groth16ClientProofs`' own, and `ClientRefinement`
  is what makes it hold here.
* **Transfer out.** The same structure: `SendOnce`, `PendingSound` (one transaction
  pending per invocation, the one it waits for unless it gave up), `ReceiptSound`
  (an update seen to succeed brought the contract to the header it proved) and
  `MembershipSound`.
* **The abstract transfer.** From the two invariants above: a block of the roll-up
  commits only packets that were not committed (`BurnOnce`) and the supply falls by
  their number (`RunSound`), a block of SimApp sends only what `SendOnce` says was
  not sent; what a chain receives was sent (`UnlockedWasBurnt`, `MintedIsBacked` of
  the state after the step). Every other step leaves the four abstract variables alone.
* **Indexer.** `TaskSound` is what a goroutine knows between its database
  transactions: the blocks of its height are still to be stored, are stored, or were
  refused.
* **EVM prover.** `LoopProgress` says which blocks the inputs cover so far, relative
  to the trusted height read at the beginning.
* **Upgrades.** `FileSound`, `NodeSound`, `WorkingSound` relate the file, the running
  node and the block being executed to the last commit: a node adds stores only in
  the block that runs the plan's handler.
* **Header keeper.** The two properties are inductive together.
* **Setup.** `SetupInv` says what a run knows at each step: from its deployment on,
  `run-latest.json` is its own; once it has seen the event, its router has the
  client; while it waits for the registration, nothing else of the tool's is pending
  on SimApp.
* **Polling.** `PollingInv` says that the overrun so far is less than the next
  backoff. The bound is a recursive function of the number of retries; that such a
  function exists and grows is proved first (`BackoffExists`, `BackoffGrows`).
* **Export.** `RestartsCleanly` asks that sums over delegations agree with what is
  outstanding and held, and that each delegation's rewards can be computed. `Sound`
  makes this inductive. `Solvent`: what is outstanding of a validator is its
  commission and its delegations' rewards and a remainder of at least nothing; the
  account holds what is outstanding and pooled. `Counted`: a validator's historical
  records are referenced once for it, once per delegation and once per slash.
  `Explained`: a delegation started at the count of slashes that its starting info
  names, and every later slash has its event, so that `CalculateDelegationRewards`
  finds all of them. `Sound` is proved to be kept by every block and by every stage
  of `prepForZeroHeightGenesis`, and to imply the invariants that the export asserts
  (`SoundPasses`). `DistributionProofs` has the sums: that `SumFunctionOnSet` has a
  value at all for a finite set, does not depend on the order, and is additive
  (`TotalExists`, `TotalRemove`, `TotalLinear`), and what each operation changes.

Induction over numbers and sets, which the library states with an operator as
parameter, is used in a first-order form: a set that contains zero and with each
number its successor contains all (`NumberInduction`, `Induction`), and the same for
finite sets (`SetInduction`); both follow from the well-foundedness of numbers.

Only model-checked is liveness (`EveryInvocationEnds`, `EveryTransferEnds`,
`MissedBlocksBackfilled`, `ShutdownCompletes`, `RequestEnds`, `IndexedIsProved`,
`SetupEnds`, `WaitEnds`, `UpgradeApplied`): fairness and ENABLED are out of the
prover's reach.

## 6. Plan

Done: the core with its store down to keys and trie nodes, both transfer
directions, both services, the indexer with its failures and shutdown, setup,
polling, the header keeper, SimApp's upgrades and exports; proofs of all safety
properties.

Next, in this order:

1. Compose: evm-prover and indexer in one module, and both directions of the
   transfer in one, with the same tokens.
2. Model more: the public values' oldest height against the trusted height of a
   header.

## 7. Not modelled

* Hashing, RLP and the inner nodes of tries; `ibc/mpt/database.go` and
  `prooflist.go`, with which tests build tries.
* Client recovery and upgrade (`RecoverClient`, `VerifyUpgradeAndUpdateState`), which
  return an error on every path and change nothing.
* `GetHeaderHash` of the header module, a read that nothing calls.
* Packet timeouts and acknowledgements: nothing in the demo relays them.
* SP1, the light client circuits and share proofs: a proof exists exactly for what
  it states.
* Several SimApp validators: `UpdateState` asks each validator's own prover service
  within the transaction, and validators whose service answers differently would
  disagree. One node is modelled, on which a failed call is a failed transaction.
* The rest of `simapp`: construction of keepers and modules, the ante handler, the
  command line; generated protobuf and JSON types; RPC wrappers in
  `testing/demo/pkg/ethereum`; scripts; printing of balances.
* Errors of local files.

## 8. Running

In this directory: `tlc -config MCIndexer.cfg Indexer` checks a run
(`PROJECT.json` lists module and configuration of each) and
`tlapm Groth16ClientProofs.tla` checks the proofs about `Groth16Client`, and so on
for each module of section 5. The slowest take several minutes from nothing.
