------------------------------ MODULE Upgrades ------------------------------
(***************************************************************************)
(* A SimApp node through a software upgrade (simapp/upgrades.go,           *)
(* simapp/upgrades and the parts of app.go that open the stores).          *)
(* Governance schedules a plan; a release without its handler stops at the *)
(* plan's height and leaves upgrade-info.json behind; this binary reads    *)
(* the file, adds the stores the plan brings and runs its handler in the   *)
(* plan's block.  The process may crash anywhere, and the operator may     *)
(* start either binary, with or without --unsafe-skip-upgrades.            *)
(*                                                                         *)
(* External: the SDK's upgrade module (PreBlocker), its store loader and   *)
(* multi-store, which opens only stores that have the version of the last  *)
(* commit or are being added.  A store and its module share a name.        *)
(***************************************************************************)
EXTENDS Naturals, FiniteSets

CONSTANTS
    Releases,      \* earlier binaries: [handlers, stores]
    SkipHeights,   \* heights an operator may pass to --unsafe-skip-upgrades
    MaxVersion,    \* bound: blocks
    MaxPlans,      \* bound: plans scheduled
    MaxDetours     \* bound: crashes, and starts that do not serve the upgrade

VARIABLES
    chain,     \* last commit: version, stores, module versions (vm), upgrades done,
               \* the last of them, plan, and what the handlers of v7.1 and v7 did
    working,   \* the block being executed, or NoBlock
    file,      \* upgrade-info.json: [name, height]
    node,      \* [up, sim, skip, added]: the process, its binary, flag and store loader
    release,   \* the earlier binary of this chain
    plans, detours

vars == <<chain, working, file, node, release, plans, detours>>

NoPlan == [name |-> "none", height |-> 0]
NoBlock == [version |-> 0]
Down == [up |-> FALSE, sim |-> FALSE, skip |-> {}, added |-> {}]

\* upgrades/upgrades.go
UpgradeNames == {"v7", "v7.1", "v8", "v8.1", "v9"}

\* app.go: the stores that upgrades are about, and "ibc" for all the others.
Stores == {"ibc", "consensus", "crisis", "circuit"}

\* An earlier release has no store that this one lacks: no upgrade deletes one.
ASSUME UpgradesAssumption ==
    /\ \A r \in Releases : r.stores \subseteq Stores
    /\ SkipHeights \subseteq Nat /\ MaxVersion \in Nat /\ MaxPlans \in Nat /\ MaxDetours \in Nat

Handlers(sim) == IF sim THEN UpgradeNames ELSE release.handlers
Mounted(sim) == IF sim THEN Stores ELSE release.stores

\* A chain of an earlier release, or one this binary starts (InitChainer, app.go):
\* the version map has every module of the binary.
Init ==
    /\ release \in Releases
    /\ \E sim \in BOOLEAN :
         chain = [version |-> 1, stores |-> Mounted(sim), vm |-> Mounted(sim), done |-> {},
                  last |-> "none", plan |-> NoPlan, localhost |-> 0, migrated |-> FALSE]
    /\ working = NoBlock
    /\ file = NoPlan
    /\ node = Down
    /\ plans = 0 /\ detours = 0

-----------------------------------------------------------------------------
(* Starting a binary.                                                      *)

\* Faulty variant of the next definition: the stores of v8 are forgotten.
StoreUpgrades_OnlyV7(info, skip) ==
    IF info.height \in skip THEN {}
    ELSE IF info.name = "v7" THEN {"consensus", "crisis"} ELSE {}

\* Faulty variant of the next definition: the flag is not looked at.
StoreUpgrades_SkipIgnored(info, skip) ==
    IF info.name = "v7" THEN {"consensus", "crisis"}
    ELSE IF info.name = "v8" THEN {"circuit"} ELSE {}

\* registerUpgradeHandlers: the stores the plan in upgrade-info.json adds, unless
\* its height is skipped.
StoreUpgrades(info, skip) ==
    IF info.height \in skip THEN {}
    ELSE IF info.name = "v7" THEN {"consensus", "crisis"}
    ELSE IF info.name = "v8" THEN {"circuit"} ELSE {}

\* External, UpgradeStoreLoader: only right before the plan's block.
Added(sim, skip) ==
    IF sim /\ file.height = chain.version + 1 THEN StoreUpgrades(file, skip) ELSE {}

\* External: an added store must be new, any other have the last commit's version;
\* an earlier binary's application hash is only right for its own stores.
Loads(sim, skip) ==
    LET added == Added(sim, skip)
    IN  /\ added \cap chain.stores = {}
        /\ Mounted(sim) \ added \subseteq chain.stores
        /\ sim \/ chain.stores = release.stores

\* NewSimApp with loadLatest and the heights of --unsafe-skip-upgrades: a store that
\* cannot be opened is a panic, and the node stays down.
Start(sim, skipUpgradeHeights) ==
    /\ ~ node.up
    /\ Loads(sim, skipUpgradeHeights)
    /\ node' = [up |-> TRUE, sim |-> sim, skip |-> skipUpgradeHeights,
                added |-> Added(sim, skipUpgradeHeights)]
    /\ UNCHANGED <<chain, working, file, release, plans>>

\* The operator follows the plan: this binary, no flag.
StartUpgrade ==
    /\ file.name = chain.plan.name /\ file.height = chain.version + 1
    /\ Start(TRUE, {})
    /\ UNCHANGED detours

\* Any binary with any flag.
StartAny ==
    /\ detours < MaxDetours
    /\ detours' = detours + 1
    /\ \E sim \in BOOLEAN, flag \in {{}} \cup {{h} : h \in SkipHeights} : Start(sim, flag)

Crash ==
    /\ node.up /\ detours < MaxDetours
    /\ detours' = detours + 1
    /\ node' = Down
    /\ working' = NoBlock
    /\ UNCHANGED <<chain, file, release, plans>>

-----------------------------------------------------------------------------
(* Blocks.                                                                 *)

\* External: every module of the binary is migrated, a new one initialised.
RunMigrations(s) == [s EXCEPT !.vm = Mounted(node.sim)]

\* The registered handlers: v7 moves the consensus parameters to their own store,
\* v7.1 appends the localhost client to the allowed ones, all run the migrations.
UpgradeHandler(name, s) ==
    RunMigrations(
        IF name = "v7.1" THEN [s EXCEPT !.localhost = @ + 1]
        ELSE IF name = "v7" THEN [s EXCEPT !.migrated = TRUE] ELSE s)

\* External: whether the upgrade module stops the node before block h: this binary
\* is too old for a plan that is due, or too new for one that is not, or it lacks
\* the handler of an upgrade that was done.
Due(h) == chain.plan # NoPlan /\ chain.plan.height <= h
Skips(h) == h \in node.skip
NeedsUpgrade(h) == Due(h) /\ ~ Skips(h) /\ chain.plan.name \notin Handlers(node.sim)
TooNew(h) == chain.plan # NoPlan /\ ~ Due(h) /\ chain.plan.name \in Handlers(node.sim)
Downgraded(h) == (~ Due(h) \/ Skips(h)) /\ chain.last \notin Handlers(node.sim) \cup {"none"}

\* PreBlocker stops the node; for a missing handler it first writes the file.
PreBlockStops ==
    LET h == chain.version + 1
    IN  /\ node.up /\ working = NoBlock /\ h <= MaxVersion
        /\ NeedsUpgrade(h) \/ TooNew(h) \/ Downgraded(h)
        /\ file' = IF NeedsUpgrade(h) THEN [name |-> chain.plan.name, height |-> h] ELSE file
        /\ node' = Down
        /\ UNCHANGED <<chain, working, release, plans, detours>>

\* PreBlocker, first of all modules, then the block; nothing is committed yet.
PreBlocker ==
    LET h == chain.version + 1
        next == [chain EXCEPT !.version = h]
    IN  /\ node.up /\ working = NoBlock /\ h <= MaxVersion
        /\ ~ (NeedsUpgrade(h) \/ TooNew(h) \/ Downgraded(h))
        /\ working' =
             IF ~ Due(h) THEN next
             ELSE IF Skips(h) THEN [next EXCEPT !.plan = NoPlan]
             ELSE [UpgradeHandler(chain.plan.name, next) EXCEPT
                      !.plan = NoPlan, !.done = @ \cup {chain.plan.name}, !.last = chain.plan.name]
        /\ UNCHANGED <<chain, file, node, release, plans, detours>>

\* A proposal passes in the block: not for an upgrade that was done.
SoftwareUpgrade ==
    /\ working # NoBlock /\ working.plan = NoPlan /\ plans < MaxPlans
    /\ \E name \in UpgradeNames \ working.done, h \in working.version..MaxVersion :
         working' = [working EXCEPT !.plan = [name |-> name, height |-> h]]
    /\ plans' = plans + 1
    /\ UNCHANGED <<chain, file, node, release, detours>>

\* Mounted stores, the added ones included, get the block's version.
Commit ==
    /\ working # NoBlock
    /\ chain' = [working EXCEPT !.stores = chain.stores \cup node.added]
    /\ working' = NoBlock
    /\ UNCHANGED <<file, node, release, plans, detours>>

Next ==
    \/ StartUpgrade \/ StartAny \/ Crash
    \/ PreBlockStops \/ PreBlocker \/ SoftwareUpgrade \/ Commit

\* Blocks go on while the node is up, and the operator follows a plan in the end.
Spec ==
    /\ Init /\ [][Next]_vars
    /\ WF_vars(PreBlockStops \/ PreBlocker \/ Commit)
    /\ WF_vars(StartUpgrade)

-----------------------------------------------------------------------------
(* Properties.                                                             *)

\* An upgrade takes effect exactly once or not at all: however often a block is
\* executed again after a crash, whichever binary is started and whatever is
\* skipped, the committed handlers' effects are those of the upgrades recorded as
\* done, and a committed store has had its module initialised or migrated
\* (upgrades/upgrades.go 33-85 with the stores added in upgrades.go 62-82).
EffectsIffDone ==
    /\ chain.localhost = IF "v7.1" \in chain.done THEN 1 ELSE 0
    /\ chain.migrated <=> "v7" \in chain.done
    /\ chain.vm = chain.stores

\* A node of a release that stopped for v8, or for an upgrade that brings no store,
\* comes through its block in the end, after any crashes and wrong starts: with this
\* binary and its handler, or, the one way past it, because the operator runs it with
\* that height skipped (upgrades.go 15-82).
UpgradeApplied ==
    \A n \in UpgradeNames \ {"v7"} :
        (/\ chain.plan.name = n /\ file.name = n /\ file.height = chain.version + 1
         /\ chain.stores = IF n = "v8" THEN Stores \ {"circuit"} ELSE Stores)
        ~> (chain.version = file.height /\ (n \in chain.done \/ file.height \in node.skip))
=============================================================================
