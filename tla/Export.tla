------------------------------- MODULE Export -------------------------------
(***************************************************************************)
(* `simd export` (simapp/export.go, simd/cmd/root.go): the application is  *)
(* opened at a committed height and its state is written as a genesis, on  *)
(* request prepared for a new chain that starts at height zero.            *)
(* prepForZeroHeightGenesis pays out fees, restarts the reward accounting  *)
(* of every validator and delegation, resets every stored height and may   *)
(* jail validators.  A new chain starts from what was written and may be   *)
(* exported again.                                                         *)
(*                                                                         *)
(* External: the Cosmos SDK modules the export works on, reduced to what   *)
(* it touches.  Decimal amounts are counted in units, Unit of them a coin. *)
(* The periods of the reward accounting are reduced to the number of       *)
(* references to historical records and to what a reward calculation       *)
(* needs: every slash since the delegation's starting height.  There are   *)
(* never more validators than the validator set admits.                    *)
(***************************************************************************)
EXTENDS Integers, FiniteSets, Functions

CONSTANTS
    Validators, Delegators,
    InitialDelegations,   \* pairs <<delegator, validator>>
    Unit,                 \* units of a coin
    MaxBlocks,            \* bound: blocks, over all chains
    MaxExports            \* bound: exports

ASSUME ExportAssumption ==
    /\ IsFiniteSet(Validators) /\ IsFiniteSet(Delegators)
    /\ InitialDelegations \subseteq Delegators \X Validators
    /\ \A v \in Validators : \E d \in InitialDelegations : d[2] = v
    /\ Unit \in Nat \ {0} /\ MaxBlocks \in Nat /\ MaxExports \in Nat

VARIABLES
    app,        \* the committed application state
    height,     \* LastBlockHeight
    previous,   \* state and height one block earlier, if the store still has it
    blocks,     \* blocks so far
    exported,   \* what the last export wrote
    exports     \* exports so far

vars == <<app, height, previous, blocks, exported, exports>>

Of(dels, v) == {d \in dels : d[2] = v}
Total(amounts, S) == SumFunctionOnSet(amounts, S)
NoExport == [status |-> "none"]
NoPrevious == [height |-> -1]

Init ==
    /\ app = [jailed |-> {}, powerIndex |-> Validators, lastVals |-> Validators,
              UnbondingHeight |-> [v \in Validators |-> 0],
              StartHeight |-> [v \in Validators |-> 0],
              ubds |-> {}, reds |-> {},
              delegations |-> InitialDelegations,
              startingInfo |-> [d \in InitialDelegations |-> [height |-> 0, slashes |-> 0]],
              rewards |-> [d \in InitialDelegations |-> 0],
              commission |-> [v \in Validators |-> 0],
              outstanding |-> [v \in Validators |-> 0],
              references |-> [v \in Validators |-> 1 + Cardinality(Of(InitialDelegations, v))],
              slashes |-> [v \in Validators |-> 0],
              slashEvents |-> [v \in Validators |-> {}],
              communityPool |-> 0, moduleBalance |-> 0]
    /\ height = 0
    /\ previous = NoPrevious
    /\ blocks = 0
    /\ exported = NoExport
    /\ exports = 0

-----------------------------------------------------------------------------
(* The modules' keepers (external).                                        *)

\* The recorded slashes of a delegation's validator since its starting height
\* explain its present stake; otherwise the calculation of rewards panics.
Computable(s, d) ==
    \A n \in s.startingInfo[d].slashes + 1..s.slashes[d[2]] :
        \E e \in s.slashEvents[d[2]] : e.n = n /\ e.height >= s.startingInfo[d].height

\* Whole coins go to the operator, the rest stays as commission.
WithdrawValidatorCommission(s) ==
    LET coins == [v \in Validators |-> s.commission[v] \div Unit]
    IN  [s EXCEPT !.commission = [v \in Validators |-> s.commission[v] % Unit],
                  !.outstanding = [v \in Validators |-> s.outstanding[v] - Unit * coins[v]],
                  !.moduleBalance = @ - Total(coins, Validators)]

\* Whole coins go to the delegator, the rest to the community pool; the
\* delegation starts afresh at height h.
WithdrawDelegationRewards(s, dels, h) ==
    LET coins == [d \in dels |-> s.rewards[d] \div Unit]
        rest == [d \in dels |-> s.rewards[d] % Unit]
    IN  [s EXCEPT !.rewards = [d \in s.delegations |-> IF d \in dels THEN 0 ELSE s.rewards[d]],
                  !.outstanding = [v \in Validators |->
                      s.outstanding[v] - Total(s.rewards, Of(dels, v))],
                  !.communityPool = @ + Total(rest, dels),
                  !.moduleBalance = @ - Total(coins, dels),
                  !.startingInfo = [d \in s.delegations |->
                      IF d \in dels THEN [height |-> h, slashes |-> s.slashes[d[2]]]
                      ELSE s.startingInfo[d]]]

\* The invariants the crisis module asserts: the distribution account holds what
\* is outstanding and the community pool, historical records are referenced once
\* by each validator, delegation and slash, and every delegation and operator
\* can withdraw from what is outstanding.
CrisisInvariants(s) ==
    /\ Unit * s.moduleBalance = s.communityPool + Total(s.outstanding, Validators)
    /\ \A v \in Validators :
         /\ s.outstanding[v] >= s.commission[v] + Total(s.rewards, Of(s.delegations, v))
         /\ s.references[v] = 1 + Cardinality(Of(s.delegations, v)) + Cardinality(s.slashEvents[v])
    /\ \A d \in s.delegations : Computable(s, d)

-----------------------------------------------------------------------------
(* Blocks (external), each with one event that the export later meets.     *)

\* Two coins of fees: one unit of commission, the rest split evenly between the
\* delegations; what does not divide stays outstanding.
AllocateTokens(s, v) ==
    LET n == Cardinality(Of(s.delegations, v))
        share == (2 * Unit - 1) \div n
    IN  [s EXCEPT !.moduleBalance = @ + 2,
                  !.commission[v] = @ + 1,
                  !.outstanding[v] = @ + 2 * Unit,
                  !.rewards = [d \in s.delegations |->
                      IF d[2] = v THEN s.rewards[d] + share ELSE s.rewards[d]]]

\* Slashed and jailed; the validator leaves the set and begins to unbond.
Slash(s, v, h) ==
    [s EXCEPT !.slashes[v] = @ + 1,
              !.slashEvents[v] = @ \cup {[n |-> s.slashes[v] + 1, height |-> h]},
              !.references[v] = @ + 1,
              !.jailed = @ \cup {v},
              !.powerIndex = @ \ {v},
              !.lastVals = @ \ {v},
              !.UnbondingHeight[v] = h]

\* Back in the set, with a signing info that starts now.
Unjail(s, v, h) ==
    [s EXCEPT !.jailed = @ \ {v},
              !.powerIndex = @ \cup {v},
              !.lastVals = @ \cup {v},
              !.StartHeight[v] = h]

\* A whole delegation is withdrawn from; its entry waits for the unbonding time.
RemoveDelegation(s, d, h) ==
    LET w == WithdrawDelegationRewards(s, {d}, h)
        rest == s.delegations \ {d}
    IN  [w EXCEPT !.delegations = rest,
                  !.rewards = [k \in rest |-> w.rewards[k]],
                  !.startingInfo = [k \in rest |-> w.startingInfo[k]],
                  !.references[d[2]] = @ - 1]

Undelegate(s, d, h) ==
    [RemoveDelegation(s, d, h) EXCEPT !.ubds = @ \cup {[of |-> d, CreationHeight |-> h]}]

BeginRedelegate(s, d, v, h) ==
    LET r == RemoveDelegation(s, d, h)
        dst == <<d[1], v>>
        all == r.delegations \cup {dst}
    IN  [r EXCEPT !.delegations = all,
                  !.rewards = [k \in all |-> IF k = dst THEN 0 ELSE r.rewards[k]],
                  !.startingInfo = [k \in all |->
                      IF k = dst THEN [height |-> h, slashes |-> s.slashes[v]]
                      ELSE r.startingInfo[k]],
                  !.references[v] = @ + 1,
                  !.reds = @ \cup {[of |-> d, CreationHeight |-> h]}]

\* What the next block can make of the state.
Successors(s, h) ==
    {AllocateTokens(s, v) : v \in s.lastVals}
    \cup {Slash(s, v, h) : v \in {w \in s.lastVals : s.lastVals # {w}}}
    \cup {Unjail(s, v, h) : v \in s.jailed}
    \cup {Undelegate(s, d, h) : d \in {e \in s.delegations : Of(s.delegations, e[2]) # {e}}}
    \cup UNION {{BeginRedelegate(s, d, v, h) : v \in {w \in Validators : <<d[1], w>> \notin s.delegations}} :
                  d \in {e \in s.delegations : Of(s.delegations, e[2]) # {e}}}

Block ==
    /\ blocks < MaxBlocks
    /\ blocks' = blocks + 1
    /\ height' = height + 1
    /\ app' \in Successors(app, height + 1)
    /\ previous' = [height |-> height, app |-> app]
    /\ UNCHANGED <<exported, exports>>

-----------------------------------------------------------------------------
(* simapp/export.go                                                        *)

\* Each step of the preparation, on the state the previous one left.

ClearDistribution(s) ==
    [s EXCEPT !.slashEvents = [v \in Validators |-> {}],
              !.references = [v \in Validators |-> 0]]

\* Faulty variant of the next definition: the fractions are forgotten.
ReinitValidators_ScrapsDropped(s) ==
    [s EXCEPT !.outstanding = [v \in Validators |-> 0],
              !.commission = [v \in Validators |-> 0],
              !.references = [v \in Validators |-> 1]]

\* The unwithdrawn fractions go to the community pool, then AfterValidatorCreated.
ReinitValidators(s) ==
    [s EXCEPT !.communityPool = @ + Total(s.outstanding, Validators),
              !.outstanding = [v \in Validators |-> 0],
              !.commission = [v \in Validators |-> 0],
              !.references = [v \in Validators |-> 1]]

\* BeforeDelegationCreated and AfterDelegationModified, in a context of height h.
ReinitDelegations(s, h) ==
    [s EXCEPT !.references = [v \in Validators |->
                  s.references[v] + Cardinality(Of(s.delegations, v))],
              !.startingInfo = [d \in s.delegations |-> [height |-> h, slashes |-> s.slashes[d[2]]]]]

AtZero(entries) == {[e EXCEPT !.CreationHeight = 0] : e \in entries}

\* Faulty variant of the next definition: redelegations keep their creation height.
ResetStaking_RedelegationsKept(s, jailAllowedAddrs) ==
    [s EXCEPT !.ubds = AtZero(@),
              !.UnbondingHeight = [v \in Validators |-> 0],
              !.jailed = IF jailAllowedAddrs = {} THEN @ ELSE @ \cup (Validators \ jailAllowedAddrs)]

\* Faulty variant of the next definition: an empty list is applied as well.
ResetStaking_EmptyListApplied(s, jailAllowedAddrs) ==
    [s EXCEPT !.reds = AtZero(@), !.ubds = AtZero(@),
              !.UnbondingHeight = [v \in Validators |-> 0],
              !.jailed = @ \cup (Validators \ jailAllowedAddrs)]

\* Every validator off a non-empty list is flagged; its entry in the power index
\* is left as it is.
ResetStaking(s, jailAllowedAddrs) ==
    [s EXCEPT !.reds = AtZero(@), !.ubds = AtZero(@),
              !.UnbondingHeight = [v \in Validators |-> 0],
              !.jailed = IF jailAllowedAddrs = {} THEN @ ELSE @ \cup (Validators \ jailAllowedAddrs)]

\* External: panics on a jailed validator of the power index.
ApplyAndReturnValidatorSetUpdates(s) == [s EXCEPT !.lastVals = s.powerIndex]

ResetSigningInfos(s) == [s EXCEPT !.StartHeight = [v \in Validators |-> 0]]

\* The context runs at height h until the distribution state is cleared, then at 0.
RestartDistribution(s, h) ==
    LET paid == WithdrawDelegationRewards(WithdrawValidatorCommission(s), s.delegations, h)
    IN  ReinitDelegations(ReinitValidators(ClearDistribution(paid)), 0)

PrepForZeroHeightGenesis(s, h, jailAllowedAddrs) ==
    LET reset == ResetStaking(RestartDistribution(s, h), jailAllowedAddrs)
    IN  IF ~ CrisisInvariants(s) \/ reset.jailed \cap reset.powerIndex # {}
        THEN [status |-> "panic"]
        ELSE [status |-> "ok", app |-> ResetSigningInfos(ApplyAndReturnValidatorSetUpdates(reset))]

ExportAppStateAndValidators(s, h, forZeroHeight, jailAllowedAddrs) ==
    LET prepared == IF forZeroHeight THEN PrepForZeroHeightGenesis(s, h, jailAllowedAddrs)
                                     ELSE [status |-> "ok", app |-> s]
    IN  [status |-> prepared.status,
         app |-> IF prepared.status = "ok" THEN prepared.app ELSE s,
         from |-> s,
         Validators |-> IF prepared.status = "ok" THEN prepared.app.lastVals ELSE {},
         Height |-> IF forZeroHeight THEN 0 ELSE h + 1,
         forZeroHeight |-> forZeroHeight,
         jailAllowedAddrs |-> jailAllowedAddrs]

\* simd/cmd/root.go: at the latest height, or at one the operator names, if the
\* store still has it (LoadHeight); the database itself is not written.
AppExport(at) ==
    /\ exports < MaxExports
    /\ exports' = exports + 1
    /\ at.height # -1
    /\ \E forZeroHeight \in BOOLEAN, jailAllowedAddrs \in SUBSET Validators :
         exported' = ExportAppStateAndValidators(at.app, at.height, forZeroHeight, jailAllowedAddrs)
    /\ UNCHANGED <<app, height, previous, blocks>>

\* A new chain is started from the written genesis (app.go, InitChainer); the
\* staking module (external) rebuilds its power index from the validators that
\* are not jailed, the crisis module asserts its invariants.
InitChainer ==
    /\ exported.status = "ok"
    /\ CrisisInvariants(exported.app)
    /\ app' = [exported.app EXCEPT !.powerIndex = Validators \ exported.app.jailed,
                                   !.lastVals = Validators \ exported.app.jailed]
    /\ height' = IF exported.Height = 0 THEN 0 ELSE exported.Height - 1
    /\ previous' = NoPrevious
    /\ exported' = NoExport
    /\ UNCHANGED <<blocks, exports>>

Next ==
    \/ Block
    \/ AppExport([height |-> height, app |-> app])
    \/ AppExport(previous)
    \/ InitChainer

Spec == Init /\ [][Next]_vars

-----------------------------------------------------------------------------
(* Properties.                                                             *)

Ok == exported.status = "ok"

\* A written genesis starts a chain, and the chain never gets stuck on it:
\* whatever slashes, redelegations and undelegations came before the export or
\* come after the restart, the distribution account holds exactly what is
\* outstanding and pooled, historical records are referenced as often as counted,
\* and every delegation's rewards can be computed and paid
\* (prepForZeroHeightGenesis, export.go 72-166; the invariants it asserts).
RestartsCleanly ==
    /\ CrisisInvariants(app)
    /\ Ok => CrisisInvariants(exported.app)

\* A genesis for height zero remembers no height of the old chain, in any of the
\* places a height is kept (export.go 115-117, 173-251): an entry created "later"
\* than the new chain's blocks would be slashed, counted or matured wrongly.
NoHeightSurvives ==
    Ok /\ exported.forZeroHeight =>
        /\ \A v \in Validators :
             /\ exported.app.UnbondingHeight[v] = 0 /\ exported.app.StartHeight[v] = 0
             /\ \A e \in exported.app.slashEvents[v] : e.height = 0
        /\ \A d \in exported.app.delegations : exported.app.startingInfo[d].height = 0
        /\ \A e \in exported.app.ubds \cup exported.app.reds : e.CreationHeight = 0

\* Jailing follows the list (export.go 54-70, 203-233).  Without a list the export
\* never panics and jails nobody; with one, every validator off the list is jailed
\* in the genesis and none is in the validator set written beside it; and the set
\* written is the one the new chain computes for itself.
JailedAsListed ==
    /\ exported.status = "panic" =>
         exported.forZeroHeight /\ ~ exported.from.powerIndex \subseteq exported.jailAllowedAddrs
                               /\ exported.jailAllowedAddrs # {}
    /\ Ok => /\ exported.Validators = Validators \ exported.app.jailed
             /\ exported.app.jailed = exported.from.jailed \cup
                  IF exported.forZeroHeight /\ exported.jailAllowedAddrs # {}
                  THEN Validators \ exported.jailAllowedAddrs ELSE {}
=============================================================================
