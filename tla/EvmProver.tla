------------------------------ MODULE EvmProver -----------------------------
(***************************************************************************)
(* The evm-prover service (provers/evm-prover) serving state transition    *)
(* requests with the blevm prover library and circuits (provers/blevm).    *)
(* A request reads the roll-up's latest height and the light client's      *)
(* height, asks the indexer where each block in between was posted, proves *)
(* each block and aggregates the proofs.  Meanwhile the roll-up, the       *)
(* client and the indexer move on.                                         *)
(*                                                                         *)
(* A block's header hash is abstracted to its number: hashes are unique    *)
(* and the roll-up does not fork.  External: the roll-up, Celestia and its *)
(* blobs, the indexer, the light client, SP1.                              *)
(***************************************************************************)
EXTENDS Naturals, Sequences

CONSTANTS
    MAX_RETRIES,       \* lookups repeated per block (10 in the code)
    MaxFaults,         \* bound: failures of the services the prover calls
    MaxEvmHeight,      \* bound: EVM blocks
    CelestiaHeights,   \* bound: heights a block may be posted at
    OdsSizes           \* bound: widths of a Celestia block's original square

ASSUME ProverAssumption ==
    /\ MAX_RETRIES \in Nat /\ MaxFaults \in Nat /\ MaxEvmHeight \in Nat
    /\ CelestiaHeights \subseteq Nat /\ OdsSizes \subseteq Nat

VARIABLES
    evmHeight,        \* the roll-up's latest block
    clientHeight,     \* LatestHeight of the light client in SimApp
    posted,           \* pairs <<EVM block, Celestia height>>: where blobs are
    db,               \* the indexer's map: EVM block -> Celestia height
    pc,               \* where prove_state_transition is
    latest_height, trusted_height, height, retries, inputs,   \* its locals
    response,         \* of the last request
    faults            \* failures so far

env == <<evmHeight, clientHeight, posted, db>>
locals == <<latest_height, trusted_height, height, retries, inputs>>
vars == <<env, pc, locals, response, faults>>

Pending == [status |-> "pending"]
Error(status) == [status |-> status]

Init ==
    /\ evmHeight = 1 /\ clientHeight = 1
    /\ posted = {} /\ db = [b \in {} |-> 0]
    /\ pc = "idle"
    /\ latest_height = 0 /\ trusted_height = 0 /\ height = 0 /\ retries = 0
    /\ inputs = <<>>
    /\ response = Pending
    /\ faults = 0

-----------------------------------------------------------------------------
(* The environment.                                                        *)

EvmBlock ==
    /\ evmHeight < MaxEvmHeight
    /\ evmHeight' = evmHeight + 1
    /\ UNCHANGED <<clientHeight, posted, db, pc, locals, response, faults>>

\* Another relayer's update lands, possibly one that was built earlier.
ClientUpdated(h) ==
    /\ h # clientHeight
    /\ clientHeight' = h
    /\ UNCHANGED <<evmHeight, posted, db, pc, locals, response, faults>>

\* The sequencer posts block b, perhaps again, and the indexer maps it.
Indexed(b, c) ==
    /\ posted' = posted \cup {<<b, c>>}
    /\ db' = [k \in DOMAIN db \cup {b} |-> IF k = b THEN c ELSE db[k]]
    /\ UNCHANGED <<evmHeight, clientHeight, pc, locals, response, faults>>

-----------------------------------------------------------------------------
(* The circuits: what a proof of a block commits to, and their aggregation. *)

\* Faulty variant of the next definition: the row as generate_row_proofs takes it,
\* rounded up and one less (and no wrap at 0).
OdsIndexRoundedUp(index, eds_size) ==
    LET ods_size == eds_size \div 2
        rounded == (index + eds_size - 1) \div eds_size
        first_row_index == IF rounded = 0 THEN 0 ELSE rounded - 1
    IN  index - first_row_index * ods_size

\* Where the blob's shares begin in the original square.
OdsIndex(index, eds_size) ==
    LET ods_size == eds_size \div 2
        first_row_index == index \div eds_size
    IN  index - first_row_index * ods_size

\* Run on a block and the Celestia height its blob is at; no output when the
\* blob is not there.
BlevmProvable(input) == <<input.block, input.inclusion_height>> \in posted

BlevmOutput(input) ==
    [header_hash |-> input.block, prev_header_hash |-> input.block - 1,
     height |-> input.block, celestia_header_hash |-> input.inclusion_height]

\* The aggregator panics unless each block follows the one before it.
Adjacent(outputs) ==
    \A i \in 2..Len(outputs) : outputs[i].prev_header_hash = outputs[i - 1].header_hash

BlevmAggOutput(outputs) ==
    [newest_header_hash |-> outputs[Len(outputs)].header_hash,
     oldest_header_hash |-> outputs[1].header_hash,
     celestia_header_hashes |->
         [i \in DOMAIN outputs |-> outputs[i].celestia_header_hash],
     newest_height |-> outputs[Len(outputs)].height]

\* Faulty variant of the next definition: two proofs are not enough.
ProveBlockRangeThree(range) ==
    LET outputs == [i \in DOMAIN range |-> BlevmOutput(range[i])]
    IN  IF Len(range) > 2 /\ Adjacent(outputs)
        THEN [status |-> "ok", public_values |-> BlevmAggOutput(outputs)]
        ELSE Error("panic")

\* prove_block_range; its errors are unwrapped, so they panic.
ProveBlockRange(range) ==
    LET outputs == [i \in DOMAIN range |-> BlevmOutput(range[i])]
    IN  IF /\ Len(range) >= 2
           /\ \A i \in DOMAIN range : BlevmProvable(range[i])
           /\ Adjacent(outputs)
        THEN [status |-> "ok", public_values |-> BlevmAggOutput(outputs)]
        ELSE Error("panic")

-----------------------------------------------------------------------------
(* prove_state_transition.                                                 *)

Respond(r) == pc' = "idle" /\ response' = r

Request ==
    /\ pc = "idle"
    /\ pc' = "latest"
    /\ response' = Pending
    /\ UNCHANGED <<env, locals, faults>>

GetLatestHeight ==
    /\ pc = "latest"
    /\ pc' = "trusted"
    /\ latest_height' = evmHeight
    /\ UNCHANGED <<env, trusted_height, height, retries, inputs, response, faults>>

\* Faulty variant of the next definition: the range with the trusted block.
GetTrustedHeightInclusive ==
    /\ pc = "trusted"
    /\ trusted_height' = clientHeight
    /\ IF latest_height <= clientHeight
       THEN /\ Respond(Error("unimplemented"))
            /\ UNCHANGED <<height, retries, inputs>>
       ELSE /\ pc' = "inclusion"
            /\ height' = clientHeight
            /\ retries' = 0
            /\ inputs' = <<>>
            /\ UNCHANGED response
    /\ UNCHANGED <<env, latest_height, faults>>

GetTrustedHeight ==
    /\ pc = "trusted"
    /\ trusted_height' = clientHeight
    /\ IF latest_height <= clientHeight
       THEN /\ Respond(Error("unimplemented"))
            /\ UNCHANGED <<height, retries, inputs>>
       ELSE /\ pc' = "inclusion"
            /\ height' = clientHeight + 1
            /\ retries' = 0
            /\ inputs' = <<>>
            /\ UNCHANGED response
    /\ UNCHANGED <<env, latest_height, faults>>

\* A block's input: its execution witness and the blob at the inclusion height.
BlockProverInput(block) == [block |-> block, inclusion_height |-> db[block]]

\* get_inclusion_height finds the block; the block's input is put together, and
\* the loop goes on with the next height up to the latest.
InclusionFound ==
    /\ pc = "inclusion"
    /\ height \in DOMAIN db
    /\ inputs' = Append(inputs, BlockProverInput(height))
    /\ IF height < latest_height
       THEN height' = height + 1 /\ retries' = 0 /\ UNCHANGED pc
       ELSE pc' = "prove" /\ UNCHANGED <<height, retries>>
    /\ UNCHANGED <<env, latest_height, trusted_height, response, faults>>

\* Faulty variant of the next definition: no limit.
InclusionNotFoundForever ==
    /\ pc = "inclusion"
    /\ height \notin DOMAIN db
    /\ UNCHANGED vars

\* The indexer does not know the block: sleep and ask again, or give up.
InclusionNotFound ==
    /\ pc = "inclusion"
    /\ height \notin DOMAIN db
    /\ IF retries < MAX_RETRIES
       THEN retries' = retries + 1 /\ UNCHANGED <<pc, response>>
       ELSE Respond(Error("internal")) /\ UNCHANGED retries
    /\ UNCHANGED <<env, latest_height, trusted_height, height, inputs, faults>>

Prove ==
    /\ pc = "prove"
    /\ Respond(ProveBlockRange(inputs))
    /\ UNCHANGED <<env, locals, faults>>

\* A service the prover calls fails or answers with something else: an error is
\* returned, or unwrapped.
ServiceFails ==
    /\ faults < MaxFaults
    /\ pc # "idle"
    /\ faults' = faults + 1
    /\ \E status \in IF pc \in {"latest", "trusted"} THEN {"internal"}
                     ELSE IF pc = "inclusion" THEN {"internal", "panic"}
                     ELSE {"panic"} : Respond(Error(status))
    /\ UNCHANGED <<env, locals>>

Serve ==
    \/ GetLatestHeight \/ GetTrustedHeight \/ InclusionFound \/ InclusionNotFound
    \/ Prove

Next ==
    \/ EvmBlock
    \/ \E h \in 1..evmHeight : ClientUpdated(h)
    \/ \E b \in 2..evmHeight, c \in CelestiaHeights : Indexed(b, c)
    \/ Request
    \/ Serve
    \/ ServiceFails

Spec == Init /\ [][Next]_vars

\* A request that was accepted is run; nothing else is promised.
FairSpec == Spec /\ WF_vars(Serve)

-----------------------------------------------------------------------------
(* Properties.                                                             *)

\* The public values of a response describe one gap-free run of blocks from the
\* one after the trusted height that was read to the latest height that was
\* read, each with a Celestia height its blob is really at, however the roll-up,
\* the client and the indexer's map moved while the proof was being made.
ResponseCoversRange ==
    response.status = "ok" =>
        LET v == response.public_values
        IN  /\ v.oldest_header_hash = trusted_height + 1
            /\ v.newest_header_hash = latest_height
            /\ v.newest_height = latest_height
            /\ Len(v.celestia_header_hashes) = latest_height - trusted_height
            /\ \A i \in DOMAIN v.celestia_header_hashes :
                 <<trusted_height + i, v.celestia_header_hashes[i]>> \in posted

\* The shares that are fetched and proved are the blob's, wherever in the square
\* Celestia put it, also at the very beginning of a row or of the square: the index
\* of a share, which counts the rows of the extended square, becomes its index in
\* the original one.
SharesOfBlob ==
    \A blob \in posted, ods_size \in OdsSizes :
        \A row, column \in 0..(ods_size - 1) :
            OdsIndex(2 * ods_size * row + column, 2 * ods_size) = ods_size * row + column

\* A request is answered: the lookups of a block are not repeated for ever even
\* if the indexer never sees it.
RequestEnds == pc = "latest" ~> pc = "idle"

\* Blocks that are indexed are proved: once the range is known and the indexer
\* has all of it, a request for two blocks or more succeeds if no service fails.
\* (For a range of one block the aggregation panics.)
IndexedIsProved ==
    (/\ pc = "inclusion" /\ latest_height >= trusted_height + 2
     /\ (trusted_height + 1)..latest_height \subseteq DOMAIN db)
    ~> (response.status = "ok" \/ faults > 0)
=============================================================================
