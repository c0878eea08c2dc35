--------------------------- MODULE Groth16Pruning ---------------------------
(***************************************************************************)
(* Groth16Client with pruning of expired consensus states (store.go), a    *)
(* part of the store API that no handler calls yet: it may happen at any   *)
(* SimApp height, as it would from a block or transaction handler.         *)
(* Groth16Store implements this specification.                             *)
(***************************************************************************)
EXTENDS Groth16Client

CONSTANT UnbondingTime      \* consts.go, in clock units

\* As the code has it: true until the unbonding time is over, although its comment
\* says after.
IsExpired(consensusState, blockTime) ==
    consensusState.HeaderTimestamp + UnbondingTime > blockTime

DeleteConsensusMetadata(heights) ==
    /\ processedTime' = [k \in DOMAIN processedTime \ heights |-> processedTime[k]]
    /\ processedHeight' = [k \in DOMAIN processedHeight \ heights |-> processedHeight[k]]
    /\ iterationKeys' = iterationKeys \ heights

\* All expired consensus states are deleted with their metadata.
PruneAllExpiredConsensusStates ==
    LET heights == {k \in iterationKeys : IsExpired(consensusStates[k], now)}
    IN  /\ heights # {}
        /\ consensusStates' = [k \in DOMAIN consensusStates \ heights |-> consensusStates[k]]
        /\ DeleteConsensusMetadata(heights)
        /\ UNCHANGED <<evmChain, now, clientState>>

PruneNext == Next \/ PruneAllExpiredConsensusStates

PruneSpec == Init /\ [][PruneNext]_vars
=============================================================================
